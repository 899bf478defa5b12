---------------------------- MODULE LevelDBWriter ----------------------------
(***************************************************************************)
(* The node's persistent state: LevelDBWriter, the caches it inherits from *)
(* Caches, and the readers of other threads.                               *)
(*                                                                         *)
(* Every piece of state (a balance, a data entry, a script...) has a       *)
(* history: the heights at which it changed, newest first, and a value     *)
(* stored under each of them.  A block is appended in one write batch and  *)
(* the caches are updated after it; a rollback removes one block per       *)
(* batch, so a crash may leave it half way.  History older than the        *)
(* deepest possible rollback is pruned while blocks are appended.          *)
(*                                                                         *)
(* A cache is filled in two steps: the loader reads the store, and stores  *)
(* what it read in the cache later.  Meanwhile the entry may be put by the *)
(* appending thread, and wins, or invalidated, which does not stop the     *)
(* load (Guava, modelled from how Caches uses it): what it read stays.     *)
(*                                                                         *)
(* Data are abstracted: a block writes one value to all the keys it        *)
(* changes, and carries at most one transaction.  past (the state each     *)
(* height of the chain left), left (what rollbacks did not revert) and     *)
(* overtaken (the loads an invalidation did not stop) are auxiliary.       *)
(***************************************************************************)
EXTENDS Integers, Sequences, FiniteSets

CONSTANTS
    Addresses,          \* accounts
    Miners,             \* the accounts that forge the blocks
    Txs,                \* shapes of transactions: [type, sender, recipient, subject]
    Values,             \* values written by a block
    NoValue,            \* nothing stored: a read returns the default
    NoTx,               \* a block without transactions
    Watched,            \* the keys other threads read through the caches
    MaxRollbackDepth,   \* max-rollback-depth
    ExtraBalanceDepth,  \* how much longer balances are kept (1000 in the code)
    MaxHeight           \* bound on the height explored

ASSUME DepthAssumption == MaxRollbackDepth \in Nat \ {0} /\ ExtraBalanceDepth \in Nat
ASSUME MinersAssumption == Miners \subseteq Addresses

Types == {"transfer", "assetTransfer", "data", "invoke", "issue", "issueScripted",
          "reissue", "sponsor", "setAssetScript", "lease", "setScript", "dropScript",
          "exchange"}
ASSUME TxsAssumption ==
    \A tx \in Txs : tx.type \in Types /\ {tx.sender, tx.recipient} \subseteq Addresses
ASSUME BoundsAssumption == MaxHeight \in Nat \ {0} /\ Values # {}

VARIABLES
    height,             \* Keys.height
    safeRollbackHeight, \* Keys.safeRollbackHeight
    history,            \* per key, the heights of its changes, newest first
    values,             \* per key, the value stored under each height
    blocks,             \* per height, the block and its changedAddresses, changedDataKeys
    cache,              \* the loading caches of Caches
    loading,            \* per cached key, what a load under way has read
    job,                \* what the appending thread has under way
    overtaken,          \* auxiliary: keys whose load outlived an invalidation
    past,               \* auxiliary: the state left by each height of the chain
    left                \* auxiliary: keys some rollback did not revert

disk   == <<height, safeRollbackHeight, history, values, blocks>>
caches == <<cache, loading, overtaken>>
aux    == <<past, left>>
vars   == <<height, safeRollbackHeight, history, values, blocks, cache, loading, job,
            overtaken, past, left>>

----------------------------------------------------------------------------
Heights  == 1..MaxHeight
Subjects == {tx.subject : tx \in Txs}   \* assets, leases, orders

OwnerKinds   == {"earths", "lease", "asset", "data", "script"}
SubjectKinds == {"info", "sponsorship", "assetScript", "leaseStatus", "fill"}
Keys         == (OwnerKinds \X Addresses) \cup (SubjectKinds \X Subjects)

\* The data entries and the state of a lease are read from the store.  The
\* portfolio of an account and the description of an asset are made of several.
CachedKeys == ({"earths", "lease", "asset", "script", "portfolio"} \X Addresses)
                \cup ({"assetScript", "fill", "description"} \X Subjects)
ASSUME WatchedAssumption == Watched \subseteq CachedKeys

\* The keys a cached entry is made of, and those whose change discards it: the
\* description of an asset holds its script, but stays when that changes.
Triggers(k) ==
    CASE k[1] = "portfolio"   -> {<<kind, k[2]>> : kind \in {"earths", "lease", "asset"}}
      [] k[1] = "description" -> {<<kind, k[2]>> : kind \in {"info", "sponsorship"}}
      [] OTHER                -> {k}
Parts(k) ==
    Triggers(k) \cup IF k[1] = "description" THEN {<<"assetScript", k[2]>>} ELSE {}
DiscardedBy(keys) == {k \in Watched : Triggers(k) \cap keys # {}}

\* What a transaction changes: the Diff its differ makes.
Writes(tx) ==
    LET of(kind) == <<kind, tx.sender>>
        at(kind) == <<kind, tx.recipient>>
        on(kind) == <<kind, tx.subject>>
    IN  {of("earths")} \cup
        CASE tx.type = "transfer"       -> {at("earths")}
          [] tx.type = "assetTransfer"  -> {of("asset"), at("asset")}
          [] tx.type = "data"           -> {of("data")}
          [] tx.type = "invoke"         -> {at("data")}
          [] tx.type = "issue"          -> {of("asset"), on("info")}
          [] tx.type = "issueScripted"  -> {of("asset"), on("info"), on("assetScript")}
          [] tx.type = "reissue"        -> {of("asset"), on("info")}
          [] tx.type = "sponsor"        -> {on("sponsorship")}
          [] tx.type = "setAssetScript" -> {on("assetScript")}
          [] tx.type = "lease"          -> {of("lease"), at("lease"), on("leaseStatus")}
          [] tx.type \in {"setScript", "dropScript"} -> {of("script")}
          [] tx.type = "exchange"       -> {at("earths"), of("asset"), at("asset"), on("fill")}

\* The addresses a Diff lists for its transaction: those of its portfolios.
\* An invocation without a payment changes the data of the invoked account
\* and lists only the one who pays the fee.
Listed(tx) ==
    IF tx.type \in {"transfer", "assetTransfer", "lease", "exchange"}
    THEN {tx.sender, tx.recipient} ELSE {tx.sender}

\* The keys the rollback of a block reverts by the type of its transaction; of
\* an asset issued with a script only the asset info.
RevertedByType(tx) ==
    CASE tx.type \in {"issue", "issueScripted", "reissue"} -> {<<"info", tx.subject>>}
      [] tx.type = "sponsor"                     -> {<<"sponsorship", tx.subject>>}
      [] tx.type = "lease"                       -> {<<"leaseStatus", tx.subject>>}
      [] tx.type = "exchange"                    -> {<<"fill", tx.subject>>}
      [] tx.type = "setAssetScript"              -> {<<"assetScript", tx.subject>>}
      [] tx.type \in {"setScript", "dropScript"} -> {<<"script", tx.sender>>}
      [] OTHER                                   -> {}

\* A block's changes: its transaction's, and the miner's share of the fees.
Changed(tx, miner) ==
    IF tx = NoTx THEN {} ELSE Writes(tx) \cup {<<"earths", miner>>}

ChangedAddresses(tx, miner) ==
    {a \in Addresses : \/ tx # NoTx /\ a \in Listed(tx)
                       \/ <<"earths", a>> \in Changed(tx, miner)}

----------------------------------------------------------------------------
(* Reading. *)

\* The heights of a history that are in S, in their order: partition and filter.
Those(h, S) ==
    LET kept[n \in 0..Len(h)] ==
            IF n = 0 THEN <<>>
            ELSE IF h[n] \in S THEN Append(kept[n - 1], h[n]) ELSE kept[n - 1]
    IN  kept[Len(h)]

\* fromHistory: the value stored at the newest change.
Read(k) == IF history[k] = <<>> THEN NoValue ELSE values[k][Head(history[k])]

\* What a loader reads for a cached entry, and the entry of a key not cached.
Current(k) == [p \in Parts(k) |-> Read(p)]
Absent == <<>>

\* Bug: the change at the lower end is taken for one above it.
Slice_Inclusive(h, from, to) ==
    LET older == Those(h, 1..(from - 1))
    IN  Those(h, from..to)
          \o <<IF older = <<>> THEN 1 ELSE Head(older)>>

\* slice: the changes in (from, to] and the newest one not above from, or 1.
Slice(h, from, to) ==
    LET older == Those(h, 1..from)
    IN  Those(h, (from + 1)..to)
          \o <<IF older = <<>> THEN 1 ELSE Head(older)>>

\* One step of merge: past the newer of the two current heights, past both
\* when they are equal, along the other list when one is exhausted.
MergeStep(w, l, i, j) ==
    CASE i = Len(w) /\ j = Len(l)             -> <<i, j>>
      [] i = Len(w) /\ j < Len(l)             -> <<i, j + 1>>
      [] i < Len(w) /\ j = Len(l)             -> <<i + 1, j>>
      [] i < Len(w) /\ j < Len(l) /\ w[i] = l[j] -> <<i + 1, j + 1>>
      [] i < Len(w) /\ j < Len(l) /\ w[i] > l[j] -> <<i + 1, j>>
      [] i < Len(w) /\ j < Len(l) /\ w[i] < l[j] -> <<i, j + 1>>

\* merge: the pairs of heights met on the way down both lists.
Merge(w, l) ==
    LET at[n \in 1..(Len(w) + Len(l))] ==
            IF n = 1 THEN <<1, 1>> ELSE MergeStep(w, l, at[n - 1][1], at[n - 1][2])
    IN  {<<w[at[n][1]], l[at[n][2]]>> : n \in DOMAIN at}

\* balanceSnapshots: the balances and lease balances an account had together.
BalanceSnapshots(address, from, to) ==
    LET e == <<"earths", address>>
        l == <<"lease", address>>
    IN  {<<values[e][p[1]], values[l][p[2]]>> :
            p \in Merge(Slice(history[e], from, to), Slice(history[l], from, to))}

----------------------------------------------------------------------------
(* Appending. *)

\* updateHistory keeps what is above the threshold and one change more.
Keeps(h, threshold)  == Those(h, (threshold + 1)..MaxHeight)
Beyond(h, threshold) == Those(h, 1..threshold)
\* Bug: nothing is kept of what is older than the threshold.
Pruned_Recent(h, threshold) == Keeps(h, threshold)

Pruned(h, threshold) ==
    LET old == Beyond(h, threshold)
    IN  Keeps(h, threshold) \o IF old = <<>> THEN <<>> ELSE <<Head(old)>>
Expired(h, threshold) ==
    LET old == Beyond(h, threshold) IN {old[i] : i \in 2..Len(old)}

Threshold(k, h) ==
    IF k[1] \in {"earths", "lease"} THEN h - (MaxRollbackDepth + ExtraBalanceDepth)
                                    ELSE h - MaxRollbackDepth

\* A script is stored only when the transaction sets one.
Stored(k, tx, v) == IF k[1] = "script" /\ tx.type = "dropScript" THEN NoValue ELSE v

\* An asset is issued once, with a script or without one, and before any
\* transaction about it; its script is only ever replaced, and only an asset
\* without one is sponsored.
Applicable(tx) ==
    LET issued(types) == \E h \in 1..height :
            /\ blocks[h].tx # NoTx
            /\ blocks[h].tx.type \in types
            /\ blocks[h].tx.subject = tx.subject
        issues == {"issue", "issueScripted"}
    IN  tx # NoTx =>
          /\ tx.type \in issues => ~issued(issues)
          /\ tx.type \in {"assetTransfer", "reissue", "exchange"} => issued(issues)
          /\ tx.type = "setAssetScript" => issued({"issueScripted"})
          /\ tx.type = "sponsor" => issued({"issue"})

\* The batch of doAppend: one write, all of it or nothing.
AppendBatch(tx, miner, v) ==
    LET new     == height + 1
        changed == Changed(tx, miner)
    IN  /\ height' = new
        /\ safeRollbackHeight' = IF safeRollbackHeight < new - MaxRollbackDepth
                                 THEN new - MaxRollbackDepth ELSE safeRollbackHeight
        /\ history' = [k \in Keys |->
              IF k \in changed THEN <<new>> \o Pruned(history[k], Threshold(k, new))
                               ELSE history[k]]
        /\ values' = [k \in Keys |->
              IF k \notin changed THEN values[k]
              ELSE [h \in Heights |->
                     IF h = new THEN Stored(k, tx, v)
                     ELSE IF h \in Expired(history[k], Threshold(k, new)) THEN NoValue
                     ELSE values[k][h]]]
        /\ blocks' = [blocks EXCEPT ![new] =
              [tx      |-> tx,
               changed |-> ChangedAddresses(tx, miner),
               data    |-> blocks[new].data \cup {a \in Addresses : <<"data", a>> \in changed}]]
        /\ past' = Append(past,
              [k \in Keys |-> IF k \in changed THEN Stored(k, tx, v) ELSE past[height][k]])
        /\ job' = [stage |-> "appended", changed |-> changed]
        /\ UNCHANGED left

Append1(tx, miner, v) ==
    /\ job.stage = "idle"
    /\ height < MaxHeight
    /\ Applicable(tx)
    /\ AppendBatch(tx, miner, v)
    /\ UNCHANGED caches

\* What invalidating the keys ks does: a load of one of them goes on.
Emptied(ks)  == [k \in Watched |-> IF k \in ks THEN Absent ELSE cache[k]]
Outlived(ks) == (overtaken \ ks) \cup {k \in Watched \cap ks : loading[k] # Absent}

\* After the batch: balances, lease balances, fills and scripts are put into
\* their caches, portfolios and asset descriptions invalidated.
Append2 ==
    /\ job.stage = "appended"
    /\ LET put == Watched \cap job.changed
           dropped == DiscardedBy(job.changed) \ put
       IN  /\ cache' = [k \in Watched |-> IF k \in put THEN Current(k) ELSE Emptied(dropped)[k]]
           /\ overtaken' = Outlived(dropped) \ put
    /\ job' = [stage |-> "idle"]
    /\ UNCHANGED <<disk, loading, aux>>

----------------------------------------------------------------------------
(* Rolling back. *)

\* Bug: any earlier block is a target.
Begin_Unguarded(target) ==
    /\ job.stage = "idle"
    /\ target \in 1..(height - 1)
    /\ job' = [stage |-> "removing", target |-> target]
    /\ UNCHANGED <<disk, caches, aux>>

Begin(target) ==
    /\ job.stage = "idle"
    /\ target \in 1..height
    /\ target > safeRollbackHeight
    /\ job' = IF target < height THEN [stage |-> "removing", target |-> target]
                                 ELSE [stage |-> "idle"]
    /\ UNCHANGED <<disk, caches, aux>>

\* The lease balances are discarded while the batch is being filled.
DiscardLeases ==
    /\ job.stage = "removing"
    /\ LET ks == {"lease"} \X blocks[height].changed
       IN  cache' = Emptied(ks) /\ overtaken' = Outlived(ks)
    /\ job' = [job EXCEPT !.stage = "filled"]
    /\ UNCHANGED <<disk, loading, aux>>

\* What the batch that removes block b reverts: all the balances of every
\* changed address, the data keys recorded for it, and by transaction type.
Reverted(b) ==
    ({"earths", "lease", "asset"} \X b.changed)
      \cup ({"data"} \X (b.data \cap b.changed))
      \cup (IF b.tx = NoTx THEN {} ELSE RevertedByType(b.tx))

\* What it does not: the data an invocation wrote for an account that is not
\* among the changed ones, and the script an asset was issued with.
Leftover(b) ==
    IF b.tx = NoTx THEN {}
    ELSE CASE b.tx.type = "invoke"        -> {"data"} \X ({b.tx.recipient} \ b.changed)
           [] b.tx.type = "issueScripted" -> {<<"assetScript", b.tx.subject>>}
           [] OTHER                       -> {}

RollbackBatch ==
    /\ job.stage = "filled"
    /\ LET b == blocks[height] IN
        /\ history' = [k \in Keys |->
              IF k \in Reverted(b) THEN Those(history[k], Heights \ {height})
                                   ELSE history[k]]
        /\ values' = [k \in Keys |->
              IF k \in Reverted(b) THEN [values[k] EXCEPT ![height] = NoValue]
                                   ELSE values[k]]
        /\ blocks' = [blocks EXCEPT ![height].tx = NoTx, ![height].changed = {}]
        /\ job' = [stage |-> "committed", target |-> job.target, removed |-> b]
        /\ left' = left \cup Leftover(b)
    /\ height' = height - 1
    /\ past' = SubSeq(past, 1, height - 1)
    /\ UNCHANGED <<safeRollbackHeight, caches>>

\* The next height, or the end.
NextHeight ==
    /\ job' = IF height > job.target
              THEN [stage |-> "removing", target |-> job.target]
              ELSE [stage |-> "idle"]
    /\ UNCHANGED <<disk, loading, aux>>

\* Bug: the asset descriptions stay cached.
DiscardRest_Balances ==
    /\ job.stage = "committed"
    /\ LET ks == {"earths", "asset", "portfolio"} \X job.removed.changed
       IN  cache' = Emptied(ks) /\ overtaken' = Outlived(ks)
    /\ NextHeight

\* After the batch the other caches are invalidated.
DiscardRest ==
    /\ job.stage = "committed"
    /\ LET b  == job.removed
           ks == ({"earths", "asset", "portfolio"} \X b.changed)
                   \cup (IF b.tx = NoTx THEN {} ELSE DiscardedBy(RevertedByType(b.tx)))
       IN  cache' = Emptied(ks) /\ overtaken' = Outlived(ks)
    /\ NextHeight

----------------------------------------------------------------------------
(* Readers of other threads, and crashes. *)

\* A reader that misses the cache reads the store; a second one waits for it.
LoadBegin(k) ==
    /\ cache[k] = Absent
    /\ loading[k] = Absent
    /\ loading' = [loading EXCEPT ![k] = Current(k)]
    /\ UNCHANGED <<disk, cache, job, overtaken, aux>>

\* What it read is cached, unless the entry was put in the meantime.
LoadEnd(k) ==
    /\ loading[k] # Absent
    /\ cache' = [cache EXCEPT ![k] = IF @ = Absent THEN loading[k] ELSE @]
    /\ loading' = [loading EXCEPT ![k] = Absent]
    /\ UNCHANGED <<disk, job, overtaken, aux>>

Crash ==
    /\ cache' = [k \in Watched |-> Absent]
    /\ loading' = [k \in Watched |-> Absent]
    /\ overtaken' = {}
    /\ job' = [stage |-> "idle"]
    /\ UNCHANGED <<disk, aux>>

Genesis == [k \in Keys |-> IF k[1] = "earths" THEN CHOOSE v \in Values : TRUE ELSE NoValue]

Init ==
    /\ height = 1
    /\ safeRollbackHeight = 0
    /\ history = [k \in Keys |-> IF k[1] = "earths" THEN <<1>> ELSE <<>>]
    /\ values = [k \in Keys |-> [h \in Heights |-> IF h = 1 THEN Genesis[k] ELSE NoValue]]
    /\ blocks = [h \in Heights |-> [tx |-> NoTx, changed |-> {}, data |-> {}]]
    /\ cache = [k \in Watched |-> Absent]
    /\ loading = [k \in Watched |-> Absent]
    /\ job = [stage |-> "idle"]
    /\ overtaken = {}
    /\ past = <<Genesis>>
    /\ left = {}

Next ==
    \/ \E tx \in Txs \cup {NoTx}, miner \in Miners, v \in Values : Append1(tx, miner, v)
    \/ Append2
    \/ \E target \in Heights : Begin(target)
    \/ DiscardLeases
    \/ RollbackBatch
    \/ DiscardRest
    \/ \E k \in Watched : LoadBegin(k) \/ LoadEnd(k)
    \/ Crash

Spec == Init /\ [][Next]_vars

----------------------------------------------------------------------------
(* Properties. *)

\* The value of a key as of height h: the newest change not above h.
ReadAt(k, h) ==
    LET upTo == Those(history[k], 1..h)
    IN  IF upTo = <<>> THEN NoValue ELSE values[k][Head(upTo)]

\* Whatever was appended, pruned and removed, and wherever a crash left a
\* rollback, the state of every height a rollback may still return to can be
\* read back: pruning in updateHistory and the removals of doRollback never
\* lose or leave a change.  Left out are only the data and the scripts that a
\* rollback is known not to revert: those of invocations of an account without
\* a portfolio change, and of assets that were issued with a script.
WindowExact ==
    \A h \in (safeRollbackHeight + 1)..height, k \in Keys \ left :
        ReadAt(k, h) = past[h][k]

\* The snapshots a generating balance is the minimum of are exactly the states
\* the account was in: for any block a rollback may return to and as far back
\* as balances are kept for, slice and merge skip none and invent none.
SnapshotsExact ==
    \A to \in (safeRollbackHeight + 1)..height, from \in 1..height, x \in Addresses :
        from <= to /\ from > to - ExtraBalanceDepth =>
            BalanceSnapshots(x, from, to) =
                {<<past[h][<<"earths", x>>], past[h][<<"lease", x>>]>> : h \in from..to}

\* The chain never gets as low as the height below which history is pruned,
\* not even when rollbacks and crashes alternate with appended blocks.
AboveSafeHeight == height > safeRollbackHeight /\ safeRollbackHeight >= height - MaxRollbackDepth

\* When no change is under way a cached entry is what the store holds, though
\* readers of other threads may have read the store before the change and fill
\* the cache after it: what was put wins over a load, and no key that a block
\* changes is missed by the puts and invalidations of append and doRollback.
\* Left out are what the code does not keep fresh: the lease balance (discarded
\* before the batch is written), the script in a description (not a trigger),
\* and an entry whose load was under way when it was invalidated.
CacheFresh ==
    job.stage = "idle" =>
        \A k \in {w \in Watched \ overtaken : w[1] # "lease"} :
            cache[k] # Absent => \A p \in Triggers(k) : cache[k][p] = Read(p)

\* The data entries of every account are those of the chain's blocks.
DataRolledBack ==
    \A a \in Addresses : Read(<<"data", a>>) = past[height][<<"data", a>>]
=============================================================================
