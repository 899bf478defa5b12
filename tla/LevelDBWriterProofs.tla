------------------------- MODULE LevelDBWriterProofs -------------------------
(***************************************************************************)
(* What holds of LevelDBWriter for any accounts and transactions, any      *)
(* rollback depth, any number of reading threads and a crash anywhere.     *)
(***************************************************************************)
EXTENDS LevelDBWriter, FiniteSetTheorems, WellFoundedInduction, TLAPS

-----------------------------------------------------------------------------
(* The job of the appending thread *)

NoJob == [stage |-> "idle"]

\* The shapes job takes.
JobShape ==
    \/ job = NoJob
    \/ \E c : job = [stage |-> "appended", changed |-> c]
    \/ \E s \in {"removing", "filled"} : \E t : job = [stage |-> s, target |-> t]
    \/ \E t, b : job = [stage |-> "committed", target |-> t, removed |-> b]

LEMMA InitShape == Init => JobShape
    BY DEF Init, JobShape, NoJob

LEMMA NextShape == JobShape /\ [Next]_vars => JobShape'
    <1> SUFFICES ASSUME JobShape, [Next]_vars PROVE JobShape'
        OBVIOUS
    <1>1. ASSUME NEW tx, NEW miner, NEW v, Append1(tx, miner, v) PROVE JobShape'
        BY <1>1 DEF Append1, AppendBatch, JobShape
    <1>2. CASE Append2
        BY <1>2 DEF Append2, JobShape, NoJob
    <1>3. ASSUME NEW target, Begin(target) PROVE JobShape'
        BY <1>3 DEF Begin, JobShape, NoJob
    <1>4. CASE DiscardLeases
        <2>1. PICK t : job = [stage |-> "removing", target |-> t]
            BY <1>4 DEF DiscardLeases, JobShape, NoJob
        <2>2. job' = [stage |-> "filled", target |-> t]
            BY <1>4, <2>1 DEF DiscardLeases
        <2> QED
            BY <2>2 DEF JobShape
    <1>5. CASE RollbackBatch
        BY <1>5 DEF RollbackBatch, JobShape
    <1>6. CASE DiscardRest
        BY <1>6 DEF DiscardRest, NextHeight, JobShape, NoJob
    <1>7. ASSUME NEW k, LoadBegin(k) \/ LoadEnd(k) PROVE JobShape'
        BY <1>7 DEF LoadBegin, LoadEnd, JobShape
    <1>8. CASE Crash
        BY <1>8 DEF Crash, JobShape, NoJob
    <1>9. CASE UNCHANGED vars
        BY <1>9 DEF vars, JobShape
    <1> QED
        BY <1>1, <1>2, <1>3, <1>4, <1>5, <1>6, <1>7, <1>8, <1>9 DEF Next

-----------------------------------------------------------------------------
(* The rollback horizon *)

\* Between two batches of a rollback its target has to stay above the horizon.
TargetAbove ==
    /\ job.stage \in {"removing", "filled"} =>
          job.target \in Nat /\ safeRollbackHeight < job.target /\ job.target < height
    /\ job.stage = "committed" =>
          job.target \in Nat /\ safeRollbackHeight < job.target /\ job.target <= height

SafeInv ==
    /\ height \in Nat /\ safeRollbackHeight \in Nat
    /\ AboveSafeHeight
    /\ JobShape
    /\ TargetAbove

LEMMA NextSafe == SafeInv /\ [Next]_vars => SafeInv'
    <1> SUFFICES ASSUME SafeInv, [Next]_vars
                 PROVE  /\ height' \in Nat /\ safeRollbackHeight' \in Nat
                        /\ AboveSafeHeight' /\ TargetAbove'
        BY NextShape DEF SafeInv
    <1> USE DepthAssumption DEF SafeInv, AboveSafeHeight, TargetAbove
    <1>1. ASSUME NEW tx, NEW miner, NEW v, Append1(tx, miner, v)
          PROVE  /\ height' \in Nat /\ safeRollbackHeight' \in Nat
                 /\ AboveSafeHeight' /\ TargetAbove'
        BY <1>1 DEF Append1, AppendBatch
    <1>2. CASE Append2
        BY <1>2 DEF Append2, disk
    <1>3. ASSUME NEW target, Begin(target)
          PROVE  /\ height' \in Nat /\ safeRollbackHeight' \in Nat
                 /\ AboveSafeHeight' /\ TargetAbove'
        BY <1>3 DEF Begin, disk
    <1>4. CASE DiscardLeases
        <2>1. PICK t : job = [stage |-> "removing", target |-> t]
            BY <1>4 DEF DiscardLeases, JobShape, NoJob
        <2>2. job' = [stage |-> "filled", target |-> t]
            BY <1>4, <2>1 DEF DiscardLeases
        <2> QED
            BY <1>4, <2>1, <2>2 DEF DiscardLeases, disk
    <1>5. CASE RollbackBatch
        BY <1>5 DEF RollbackBatch
    <1>6. CASE DiscardRest
        BY <1>6 DEF DiscardRest, NextHeight, disk
    <1>7. ASSUME NEW k, LoadBegin(k) \/ LoadEnd(k)
          PROVE  /\ height' \in Nat /\ safeRollbackHeight' \in Nat
                 /\ AboveSafeHeight' /\ TargetAbove'
        BY <1>7 DEF LoadBegin, LoadEnd, disk
    <1>8. CASE Crash
        BY <1>8 DEF Crash, disk
    <1>9. CASE UNCHANGED vars
        BY <1>9 DEF vars
    <1> QED
        BY <1>1, <1>2, <1>3, <1>4, <1>5, <1>6, <1>7, <1>8, <1>9 DEF Next

\* Rollbacks that follow each other, are cut short by crashes and mixed with
\* appended blocks never take the chain to where history is already pruned.
THEOREM NeverBelowSafeHeight == Spec => []AboveSafeHeight
    <1>1. Init => SafeInv
        BY InitShape, DepthAssumption
        DEF Init, SafeInv, AboveSafeHeight, TargetAbove
    <1>2. SafeInv => AboveSafeHeight
        BY DEF SafeInv
    <1> QED
        BY <1>1, <1>2, NextSafe, PTL DEF Spec

-----------------------------------------------------------------------------
(* The caches *)

\* The entries a batch has made stale and the step after it will replace.
DiscardedAfter(b) ==
    ({"earths", "asset", "portfolio"} \X b.changed)
      \cup (IF b.tx = NoTx THEN {} ELSE DiscardedBy(RevertedByType(b.tx)))

Pending ==
    IF job.stage = "appended" THEN DiscardedBy(job.changed)
    ELSE IF job.stage = "committed" THEN DiscardedAfter(job.removed)
    ELSE {}

\* All other entries are fresh, in the middle of a block or a rollback too, and
\* so is what is about to be cached for a key that is not.
OthersFresh ==
    \A k \in Watched \ overtaken : k[1] # "lease" /\ k \notin Pending =>
        /\ cache[k] # Absent => \A p \in Triggers(k) : cache[k][p] = Read(p)
        /\ cache[k] = Absent /\ loading[k] # Absent =>
               \A p \in Triggers(k) : loading[k][p] = Read(p)

CacheType ==
    /\ cache = [k \in Watched |-> cache[k]]
    /\ loading = [k \in Watched |-> loading[k]]

FreshInv == JobShape /\ CacheType /\ OthersFresh

LEMMA WatchedIsCached ==
    ASSUME NEW k \in Watched
    PROVE  /\ k \in CachedKeys
           /\ Triggers(k) \subseteq Keys /\ Triggers(k) \subseteq Parts(k) /\ Parts(k) # {}
           /\ k[1] \notin {"portfolio", "description"} => Triggers(k) = {k}
           /\ k \in Keys => Triggers(k) = {k}
    <1>1. k \in CachedKeys
        BY WatchedAssumption
    <1>0. ASSUME k[1] \notin {"portfolio", "description"}
          PROVE  Triggers(k) = {k} /\ Parts(k) = {k}
        <2>1. Triggers(k) = {k}
            BY <1>0 DEF Triggers
        <2> QED
            BY <1>0, <2>1 DEF Parts
    <1>2. CASE k \in {"earths", "lease", "asset", "script"} \X Addresses
        <2>1. k[1] \notin {"portfolio", "description"} /\ k \in Keys
            BY <1>2 DEF Keys, OwnerKinds
        <2> QED
            BY <1>0, <1>1, <2>1
    <1>3. CASE k \in {"portfolio"} \X Addresses
        <2>1. k[1] = "portfolio" /\ k[2] \in Addresses /\ k \notin Keys
            BY <1>3 DEF Keys, OwnerKinds, SubjectKinds
        <2>2. Triggers(k) = {<<kind, k[2]>> : kind \in {"earths", "lease", "asset"}}
            BY <2>1 DEF Triggers
        <2>3. Parts(k) = Triggers(k)
            BY <2>1 DEF Parts
        <2>4. Triggers(k) \subseteq Keys /\ <<"earths", k[2]>> \in Triggers(k)
            BY <2>1, <2>2 DEF Keys, OwnerKinds
        <2> QED
            BY <1>1, <2>1, <2>3, <2>4
    <1>4. CASE k \in {"assetScript", "fill"} \X Subjects
        <2>1. k[1] \notin {"portfolio", "description"} /\ k \in Keys
            BY <1>4 DEF Keys, SubjectKinds
        <2> QED
            BY <1>0, <1>1, <2>1
    <1>5. CASE k \in {"description"} \X Subjects
        <2>1. k[1] = "description" /\ k[2] \in Subjects /\ k \notin Keys
            BY <1>5 DEF Keys, OwnerKinds, SubjectKinds
        <2>2. Triggers(k) = {<<kind, k[2]>> : kind \in {"info", "sponsorship"}}
            BY <2>1 DEF Triggers
        <2>3. Triggers(k) \subseteq Parts(k)
            BY DEF Parts
        <2>4. Triggers(k) \subseteq Keys /\ <<"info", k[2]>> \in Triggers(k)
            BY <2>1, <2>2 DEF Keys, SubjectKinds
        <2> QED
            BY <1>1, <2>1, <2>3, <2>4
    <1> QED
        BY <1>1, <1>2, <1>3, <1>4, <1>5 DEF CachedKeys

\* What a loader has read is an entry, and a fresh one at that moment.
LEMMA CurrentIsEntry ==
    ASSUME NEW k \in Watched
    PROVE  Current(k) # Absent /\ \A p \in Triggers(k) : Current(k)[p] = Read(p)
    <1>1. DOMAIN Current(k) = Parts(k) /\ Parts(k) # {}
        BY WatchedIsCached DEF Current
    <1>2. DOMAIN <<>> = {}
        OBVIOUS
    <1>3. Current(k) # Absent
        BY <1>1, <1>2 DEF Absent
    <1>4. \A p \in Triggers(k) : Current(k)[p] = Read(p)
        BY WatchedIsCached DEF Current
    <1> QED
        BY <1>3, <1>4

\* What is invalidated is not stale any more, unless a load of it is under way.
LEMMA EmptiedFresh ==
    ASSUME FreshInv, NEW ks,
           cache' = Emptied(ks), overtaken' = Outlived(ks), UNCHANGED <<disk, loading>>,
           \A k \in Watched : k \in Pending => k \in ks, Pending' = {}
    PROVE  CacheType' /\ OthersFresh'
    <1>0. CacheType /\ OthersFresh
        BY DEF FreshInv
    <1>1. CacheType'
        BY <1>0 DEF CacheType, Emptied
    <1>2. ASSUME NEW k \in Watched, k \notin overtaken', k[1] # "lease"
          PROVE  /\ cache'[k] # Absent => \A p \in Triggers(k) : cache'[k][p] = Read(p)
                 /\ cache'[k] = Absent /\ loading[k] # Absent =>
                       \A p \in Triggers(k) : loading[k][p] = Read(p)
        <2>1. CASE k \in ks
            <3>1. cache'[k] = Absent /\ loading[k] = Absent
                BY <1>2, <2>1 DEF Emptied, Outlived
            <3> QED
                BY <3>1
        <2>2. CASE k \notin ks
            <3>1. cache'[k] = cache[k] /\ k \notin overtaken /\ k \notin Pending
                BY <1>2, <2>2 DEF Emptied, Outlived
            <3> QED
                BY <1>0, <1>2, <3>1 DEF OthersFresh
        <2> QED
            BY <2>1, <2>2
    <1>3. \A q : Read(q)' = Read(q)
        BY DEF Read, disk
    <1> QED
        BY <1>1, <1>2, <1>3 DEF OthersFresh

LEMMA NextFresh == FreshInv /\ [Next]_vars => FreshInv'
    <1> SUFFICES ASSUME FreshInv, [Next]_vars PROVE CacheType' /\ OthersFresh'
        BY NextShape DEF FreshInv
    <1>0. JobShape /\ CacheType /\ OthersFresh
        BY DEF FreshInv
    <1>a. ASSUME UNCHANGED disk PROVE \A q : Read(q)' = Read(q)
        BY <1>a DEF Read, disk
    <1>b. ASSUME UNCHANGED caches, UNCHANGED disk, Pending' = Pending PROVE CacheType' /\ OthersFresh'
        BY <1>0, <1>a, <1>b DEF caches, CacheType, OthersFresh
    <1>1. ASSUME NEW tx, NEW miner, NEW v, Append1(tx, miner, v) PROVE CacheType' /\ OthersFresh'
        <2>1. /\ Pending = {} /\ Pending' = DiscardedBy(Changed(tx, miner))
              /\ cache' = cache /\ loading' = loading /\ overtaken' = overtaken
            BY <1>1 DEF Append1, AppendBatch, Pending, caches
        <2>2. ASSUME NEW k \in Watched, k \notin Pending', NEW q \in Triggers(k)
              PROVE  Read(q)' = Read(q)
            <3>1. q \in Keys /\ q \notin Changed(tx, miner)
                BY <2>1, <2>2, WatchedIsCached DEF DiscardedBy
            <3> QED
                BY <1>1, <3>1 DEF Append1, AppendBatch, Read
        <2> QED
            BY <1>0, <2>1, <2>2 DEF CacheType, OthersFresh
    <1>2. CASE Append2
        <2> DEFINE put == Watched \cap job.changed
                   dropped == DiscardedBy(job.changed) \ put
        <2>1. /\ Pending = DiscardedBy(job.changed) /\ Pending' = {}
              /\ UNCHANGED <<disk, loading>>
              /\ cache' = [k \in Watched |-> IF k \in put THEN Current(k) ELSE Emptied(dropped)[k]]
              /\ overtaken' = Outlived(dropped) \ put
            BY <1>2 DEF Append2, Pending
        <2>2. put \subseteq Watched /\ (\A k \in Watched : k \in Pending => k \in put \/ k \in dropped)
            BY <2>1
        <2>d. \A k \in dropped : k \notin put
            OBVIOUS
        <2> HIDE DEF put, dropped
        <2>3. ASSUME NEW k \in Watched, k \notin overtaken', k[1] # "lease"
              PROVE  /\ cache'[k] # Absent => \A p \in Triggers(k) : cache'[k][p] = Read(p)
                     /\ cache'[k] = Absent /\ loading[k] # Absent =>
                           \A p \in Triggers(k) : loading[k][p] = Read(p)
            <3>1. CASE k \in put
                <4>1. cache'[k] = Current(k)
                    BY <2>1, <3>1
                <4> QED
                    BY <4>1, CurrentIsEntry
            <3>2. CASE k \notin put
                <4>1. cache'[k] = Emptied(dropped)[k] /\ k \notin Outlived(dropped)
                    BY <2>1, <2>3, <3>2
                <4>2. CASE k \in dropped
                    <5>1. cache'[k] = Absent /\ loading[k] = Absent
                        BY <4>1, <4>2 DEF Emptied, Outlived
                    <5> QED
                        BY <5>1
                <4>3. CASE k \notin dropped
                    <5>1. cache'[k] = cache[k] /\ k \notin overtaken /\ k \notin Pending
                        BY <2>2, <3>2, <4>1, <4>3 DEF Emptied, Outlived
                    <5> QED
                        BY <1>0, <2>3, <5>1 DEF OthersFresh
                <4> QED
                    BY <4>2, <4>3
            <3> QED
                BY <3>1, <3>2
        <2>4. CacheType'
            BY <1>0, <2>1 DEF CacheType
        <2> QED
            BY <1>a, <2>1, <2>3, <2>4 DEF OthersFresh
    <1>3. ASSUME NEW target, Begin(target) PROVE CacheType' /\ OthersFresh'
        <2>1. Pending' = Pending /\ UNCHANGED disk /\ UNCHANGED caches
            BY <1>3 DEF Begin, Pending
        <2> QED
            BY <1>b, <2>1
    <1>4. CASE DiscardLeases
        <2>1. Pending = {} /\ Pending' = {} /\ UNCHANGED <<disk, loading>>
            <3>1. PICK t : job = [stage |-> "removing", target |-> t]
                BY <1>0, <1>4 DEF DiscardLeases, JobShape, NoJob
            <3> QED
                BY <1>4, <3>1 DEF DiscardLeases, Pending
        <2>2. PICK ks : cache' = Emptied(ks) /\ overtaken' = Outlived(ks)
            BY <1>4 DEF DiscardLeases
        <2> QED
            BY <2>1, <2>2, EmptiedFresh
    <1>5. CASE RollbackBatch
        <2>1. PICK b : b = blocks[height]
            OBVIOUS
        <2>2. /\ Pending = {} /\ Pending' = DiscardedAfter(b)
              /\ cache' = cache /\ loading' = loading /\ overtaken' = overtaken
            BY <1>5, <2>1 DEF RollbackBatch, Pending, caches
        <2>3. \A q \in Keys : q \notin Reverted(b) => Read(q)' = Read(q)
            BY <1>5, <2>1 DEF RollbackBatch, Read
        <2>4. ASSUME NEW k \in Watched, k[1] # "lease", k \notin DiscardedAfter(b),
                     NEW q \in Triggers(k)
              PROVE  q \in Keys /\ q \notin Reverted(b)
            <3>1. q \in Keys /\ k \in CachedKeys
                BY WatchedIsCached
            <3>2. b.tx # NoTx => q \notin RevertedByType(b.tx)
                BY <2>4 DEF DiscardedAfter, DiscardedBy
            <3>3. q \notin {"earths", "lease", "asset"} \X b.changed
                <4>1. CASE k[1] = "portfolio"
                    <5>1. k = <<"portfolio", k[2]>> /\ q[2] = k[2]
                        BY <3>1, <4>1 DEF CachedKeys, Triggers
                    <5> QED
                        BY <2>4, <5>1 DEF DiscardedAfter
                <4>2. CASE k[1] = "description"
                    BY <4>2 DEF Triggers
                <4>3. CASE k[1] \notin {"portfolio", "description"}
                    BY <2>4, <4>3 DEF Triggers, DiscardedAfter
                <4> QED
                    BY <4>1, <4>2, <4>3
            <3>4. q[1] # "data"
                <4>1. CASE k[1] = "portfolio"
                    BY <4>1 DEF Triggers
                <4>2. CASE k[1] = "description"
                    BY <4>2 DEF Triggers
                <4>3. CASE k[1] \notin {"portfolio", "description"}
                    BY <3>1, <4>3 DEF Triggers, CachedKeys
                <4> QED
                    BY <4>1, <4>2, <4>3
            <3> QED
                BY <3>1, <3>2, <3>3, <3>4 DEF Reverted
        <2> QED
            BY <1>0, <2>2, <2>3, <2>4 DEF CacheType, OthersFresh
    <1>6. CASE DiscardRest
        <2>1. Pending = DiscardedAfter(job.removed) /\ Pending' = {} /\ UNCHANGED <<disk, loading>>
            BY <1>6 DEF DiscardRest, NextHeight, Pending
        <2>2. /\ cache' = Emptied(DiscardedAfter(job.removed))
              /\ overtaken' = Outlived(DiscardedAfter(job.removed))
            BY <1>6 DEF DiscardRest, DiscardedAfter
        <2> QED
            BY <2>1, <2>2, EmptiedFresh
    <1>7. ASSUME NEW w \in Watched, LoadBegin(w) PROVE CacheType' /\ OthersFresh'
        <2>1. /\ Pending' = Pending /\ UNCHANGED disk /\ cache' = cache /\ overtaken' = overtaken
              /\ loading' = [loading EXCEPT ![w] = Current(w)]
            BY <1>7 DEF LoadBegin, Pending
        <2>2. \A k \in Watched : loading'[k] = IF k = w THEN Current(k) ELSE loading[k]
            BY <1>0, <2>1 DEF CacheType
        <2>3. CacheType'
            BY <1>0, <2>1 DEF CacheType
        <2> QED
            BY <1>0, <1>a, <2>1, <2>2, <2>3, CurrentIsEntry DEF OthersFresh
    <1>8. ASSUME NEW w \in Watched, LoadEnd(w) PROVE CacheType' /\ OthersFresh'
        <2>1. /\ Pending' = Pending /\ UNCHANGED disk /\ overtaken' = overtaken
              /\ loading' = [loading EXCEPT ![w] = Absent]
              /\ cache' = [cache EXCEPT ![w] = IF @ = Absent THEN loading[w] ELSE @]
              /\ loading[w] # Absent
            BY <1>8 DEF LoadEnd, Pending
        <2>2. \A k \in Watched :
                 /\ loading'[k] = IF k = w THEN Absent ELSE loading[k]
                 /\ cache'[k] = IF k = w /\ cache[k] = Absent THEN loading[k] ELSE cache[k]
            BY <1>0, <2>1 DEF CacheType
        <2>3. CacheType'
            BY <1>0, <2>1 DEF CacheType
        <2> QED
            BY <1>0, <1>a, <2>1, <2>2, <2>3 DEF OthersFresh
    <1>9. CASE Crash
        BY <1>9 DEF Crash, CacheType, OthersFresh
    <1>10. CASE UNCHANGED vars
        <2>1. Pending' = Pending /\ UNCHANGED disk /\ UNCHANGED caches
            BY <1>10 DEF vars, disk, caches, Pending
        <2> QED
            BY <1>b, <2>1
    <1> QED
        BY <1>1, <1>2, <1>3, <1>4, <1>5, <1>6, <1>7, <1>8, <1>9, <1>10 DEF Next

\* However the reading threads read the store and fill the caches while blocks
\* are appended and removed, no entry outlives the value it was loaded from,
\* unless it was invalidated while its load was under way; lease balances, and
\* the script in the description of an asset, apart.
THEOREM CacheStaysFresh == Spec => []CacheFresh
    <1>1. Init => FreshInv
        BY InitShape DEF Init, FreshInv, CacheType, OthersFresh
    <1>2. FreshInv => CacheFresh
        BY DEF FreshInv, OthersFresh, Pending, CacheFresh
    <1> QED
        BY <1>1, <1>2, NextFresh, PTL DEF Spec

-----------------------------------------------------------------------------
(* Histories *)

\* Every set of natural numbers has a least one (here because the intervals
\* from 0 to each of them are finite sets, on which inclusion is well founded).
LEMMA Least ==
    ASSUME NEW T, T \subseteq Nat, T # {}
    PROVE  \E m \in T : \A k \in T : m <= k
    <1> DEFINE order == StrictSubsetOrdering(Nat)
               finite == FiniteSubsetsOf(Nat)
               below == {0 .. k : k \in T}
    <1>1. IsWellFoundedOn(order, finite)
        BY FS_StrictSubsetOrderingWellFounded
    <1>2. \A k \in T : 0 .. k \in finite
        <2>1. \A k \in T : IsFiniteSet(0 .. k)
            BY FS_Interval
        <2> QED
            BY <2>1 DEF FiniteSubsetsOf
    <1>3. below \subseteq finite /\ below # {}
        BY <1>2
    <1>4. \E x \in below : \A y \in below : ~(<<y, x>> \in order)
        <2> HIDE DEF order, finite, below
        <2> QED
            BY <1>1, <1>3, WFMin
    <1>5. PICK m \in T : \A k \in T : <<0 .. k, 0 .. m>> \notin order
        BY <1>4
    <1>6. ASSUME NEW k \in T, k < m PROVE FALSE
        <2>1. 0 .. k \subseteq 0 .. m /\ 0 .. k # 0 .. m
            <3>1. m \in 0 .. m /\ m \notin 0 .. k
                BY <1>6
            <3> QED
                BY <1>6, <3>1
        <2>2. <<0 .. k, 0 .. m>> \in order
            BY <1>2, <2>1 DEF StrictSubsetOrdering
        <2> QED
            BY <1>5, <2>2
    <1> QED
        BY <1>6

\* What a history h is filtered to, height by height.
LEMMA ThoseIs ==
    ASSUME NEW h, Len(h) \in Nat, NEW S
    PROVE  \E kept : /\ Those(h, S) = kept[Len(h)]
                     /\ kept[0] = <<>>
                     /\ \A n \in 1..Len(h) :
                          kept[n] = IF h[n] \in S THEN Append(kept[n - 1], h[n]) ELSE kept[n - 1]
    <1> DEFINE N == Len(h)
               Grow(s, n) == IF h[n] \in S THEN Append(s, h[n]) ELSE s
               Is(f, n) == f = [i \in 0..n |-> IF i = 0 THEN <<>> ELSE Grow(f[i - 1], i)]
               Without == {n \in Nat : ~\E f : Is(f, n)}
    <1>1. ASSUME Without # {} PROVE FALSE
        <2>1. PICK n \in Without : \A k \in Without : n <= k
            <3>1. Without \subseteq Nat
                OBVIOUS
            <3> HIDE DEF Without
            <3> QED
                BY <1>1, <3>1, Least
        <2>2. n \in Nat /\ ~\E f : Is(f, n)
            OBVIOUS
        <2> HIDE DEF Grow
        <2>3. CASE n = 0
            <3> DEFINE f == [i \in 0..0 |-> <<>>]
            <3>1. f = [i \in 0..0 |-> IF i = 0 THEN <<>> ELSE Grow(f[i - 1], i)]
                OBVIOUS
            <3>2. Is(f, 0)
                BY <3>1
            <3> HIDE DEF f, Is
            <3> QED
                BY <2>2, <2>3, <3>2
        <2>4. CASE n > 0
            <3>1. n - 1 \in Nat /\ n - 1 \notin Without
                <4> HIDE DEF Without
                <4> QED
                    BY <2>1, <2>2, <2>4
            <3>2. \E f : Is(f, n - 1)
                <4> HIDE DEF Is
                <4> QED
                    BY <3>1
            <3>3. PICK f : Is(f, n - 1)
                BY <3>2
            <3> DEFINE g == [i \in 0..n |-> IF i = n THEN Grow(f[n - 1], n) ELSE f[i]]
            <3>4. \A i \in 0..n : g[i] = IF i = 0 THEN <<>> ELSE Grow(g[i - 1], i)
                <4>1. \A i \in 0..(n - 1) : f[i] = IF i = 0 THEN <<>> ELSE Grow(f[i - 1], i)
                    BY <3>1, <3>3
                <4>2. \A i \in 0..(n - 1) : g[i] = f[i]
                    BY <2>2
                <4>3. g[n] = Grow(f[n - 1], n) /\ g[n - 1] = f[n - 1]
                    BY <2>2, <2>4, <4>2
                <4> HIDE DEF g
                <4>4. \A i \in 0..n : i = n \/ i \in 0..(n - 1)
                    BY <2>2
                <4>5. \A i \in 0..(n - 1) : i # 0 => i - 1 \in 0..(n - 1)
                    BY <2>2
                <4> QED
                    BY <2>2, <2>4, <4>1, <4>2, <4>3, <4>4, <4>5
            <3>5. Is(g, n)
                <4>1. g = [i \in 0..n |-> g[i]]
                    OBVIOUS
                <4> HIDE DEF g
                <4> QED
                    BY <3>4, <4>1
            <3> HIDE DEF g, Is
            <3> QED
                BY <2>2, <3>5
        <2> QED
            BY <2>2, <2>3, <2>4
    <1>2. \E f : Is(f, N)
        <2> HIDE DEF Is, N
        <2> QED
            BY <1>1 DEF N
    <1>3. PICK f : f = CHOOSE g : Is(g, N)
        OBVIOUS
    <1>4. Is(f, N)
        BY <1>2, <1>3
    <1>5. Those(h, S) = f[N]
        BY <1>3 DEF Those
    <1>6. /\ f[0] = <<>>
          /\ \A n \in 1..N : f[n] = Grow(f[n - 1], n)
        <2> HIDE DEF Grow
        <2> QED
            BY <1>4
    <1> QED
        BY <1>5, <1>6

\* A history as it should be: newest first.
Elems(s)   == {s[i] : i \in DOMAIN s}
Falling(s) == s \in Seq(Heights) /\ \A i, j \in DOMAIN s : i < j => s[i] > s[j]

\* A height older than all of a history goes to its end.
LEMMA AppendOlder ==
    ASSUME NEW s, Falling(s), NEW x \in Heights, \A y \in Elems(s) : y > x
    PROVE  Falling(Append(s, x)) /\ Elems(Append(s, x)) = Elems(s) \cup {x}
    <1> DEFINE t == Append(s, x)
    <1>1. s \in Seq(Heights) /\ Len(s) \in Nat /\ DOMAIN s = 1..Len(s)
        BY DEF Falling
    <1>2. t \in Seq(Heights) /\ DOMAIN t = 1..(Len(s) + 1)
        BY <1>1
    <1>3. \A i \in 1..Len(s) : t[i] = s[i]
        BY <1>1
    <1>4. t[Len(s) + 1] = x
        BY <1>1
    <1>5. \A i \in DOMAIN t : i \in DOMAIN s \/ i = Len(s) + 1
        BY <1>1, <1>2
    <1> HIDE DEF t
    <1>6. \A i, j \in DOMAIN t : i < j => t[i] > t[j]
        <2>1. \A i \in DOMAIN s : s[i] > x
            BY DEF Elems
        <2>2. \A i, j \in DOMAIN s : i < j => s[i] > s[j]
            BY DEF Falling
        <2> QED
            BY <1>1, <1>2, <1>3, <1>4, <1>5, <2>1, <2>2
    <1>7. Elems(t) = Elems(s) \cup {x}
        <2>1. DOMAIN t = DOMAIN s \cup {Len(s) + 1}
            BY <1>1, <1>2
        <2> QED
            BY <1>1, <1>3, <1>4, <2>1 DEF Elems
    <1> QED
        BY <1>2, <1>6, <1>7 DEF t, Falling

\* What is left of a history is one too, and has the heights asked for.
LEMMA ThoseOfFalling ==
    ASSUME NEW h, Falling(h), NEW S
    PROVE  Falling(Those(h, S)) /\ Elems(Those(h, S)) = Elems(h) \cap S
    <1>1. h \in Seq(Heights) /\ Len(h) \in Nat /\ DOMAIN h = 1..Len(h)
        BY DEF Falling
    <1>2. PICK kept : /\ Those(h, S) = kept[Len(h)]
                      /\ kept[0] = <<>>
                      /\ \A n \in 1..Len(h) :
                           kept[n] = IF h[n] \in S THEN Append(kept[n - 1], h[n]) ELSE kept[n - 1]
        BY <1>1, ThoseIs
    <1> DEFINE Good(n) == /\ Falling(kept[n])
                          /\ Elems(kept[n]) = {h[i] : i \in 1..n} \cap S
               Bad == {n \in 0..Len(h) : ~Good(n)}
    <1>3. ASSUME Bad # {} PROVE FALSE
        <2>1. PICK n \in Bad : \A k \in Bad : n <= k
            <3>1. Bad \subseteq Nat
                OBVIOUS
            <3> HIDE DEF Bad
            <3> QED
                BY <1>3, <3>1, Least
        <2>2. n \in 0..Len(h) /\ ~Good(n)
            OBVIOUS
        <2>3. CASE n = 0
            <3>1. kept[n] = <<>> /\ 1..n = {}
                BY <1>2, <2>3
            <3>2. Falling(<<>>) /\ Elems(<<>>) = {}
                BY DEF Falling, Elems
            <3> QED
                BY <2>2, <3>1, <3>2
        <2>4. CASE n # 0
            <3>1. n \in 1..Len(h) /\ n - 1 \in 0..Len(h)
                BY <1>1, <2>2, <2>4
            <3>2. Good(n - 1)
                <4>1. n - 1 \notin Bad
                    <5> HIDE DEF Bad
                    <5> QED
                        BY <2>1, <2>2, <1>1
                <4> QED
                    BY <3>1, <4>1
            <3>3. PICK s : s = kept[n - 1]
                OBVIOUS
            <3>4. kept[n] = IF h[n] \in S THEN Append(s, h[n]) ELSE s
                BY <1>2, <3>1, <3>3
            <3>5. {h[i] : i \in 1..n} = {h[i] : i \in 1..(n - 1)} \cup {h[n]}
                <4>1. 1..n = (1..(n - 1)) \cup {n}
                    BY <1>1, <3>1
                <4> QED
                    BY <4>1
            <3>6. CASE h[n] \in S
                <4>1. h[n] \in Heights
                    BY <1>1, <3>1
                <4>2. \A y \in Elems(s) : y > h[n]
                    <5>1. \A i \in 1..(n - 1) : h[i] > h[n]
                        BY <1>1, <3>1 DEF Falling
                    <5> QED
                        BY <3>2, <3>3, <5>1
                <4>3. Falling(Append(s, h[n])) /\ Elems(Append(s, h[n])) = Elems(s) \cup {h[n]}
                    BY <3>2, <3>3, <4>1, <4>2, AppendOlder
                <4> QED
                    BY <2>2, <3>2, <3>3, <3>4, <3>5, <3>6, <4>3
            <3>7. CASE h[n] \notin S
                BY <2>2, <3>2, <3>3, <3>4, <3>5, <3>7
            <3> QED
                BY <3>6, <3>7
        <2> QED
            BY <2>3, <2>4
    <1>4. Good(Len(h))
        <2>1. Len(h) \in 0..Len(h)
            BY <1>1
        <2> HIDE DEF Good
        <2> QED
            BY <1>3, <2>1
    <1>5. Elems(h) = {h[i] : i \in 1..Len(h)}
        BY <1>1 DEF Elems
    <1> QED
        BY <1>2, <1>4, <1>5

\* A height newer than all of a history goes to its front.
LEMMA PushNewer ==
    ASSUME NEW s, Falling(s), NEW x \in Heights, \A y \in Elems(s) : y < x,
           NEW t, t = <<x>> \o s
    PROVE  Falling(t) /\ Elems(t) = Elems(s) \cup {x}
    <1>1. s \in Seq(Heights) /\ Len(s) \in Nat /\ DOMAIN s = 1..Len(s)
        BY DEF Falling
    <1>2. t \in Seq(Heights) /\ DOMAIN t = 1..(Len(s) + 1)
        BY <1>1
    <1>3. \A i \in DOMAIN t : i # 1 => i - 1 \in DOMAIN s /\ t[i] = s[i - 1]
        BY <1>1
    <1>4. t[1] = x
        BY <1>1
    <1>5. \A i \in DOMAIN s : i + 1 \in DOMAIN t /\ t[i + 1] = s[i]
        BY <1>1
    <1>6. \A i, j \in DOMAIN t : i < j => t[i] > t[j]
        <2>1. \A i \in DOMAIN s : s[i] < x
            BY DEF Elems
        <2>2. \A i, j \in DOMAIN s : i < j => s[i] > s[j]
            BY DEF Falling
        <2>3. \A i \in DOMAIN s : s[i] \in Int
            BY <1>1, BoundsAssumption DEF Heights
        <2>4. x \in Int
            BY BoundsAssumption DEF Heights
        <2>5. SUFFICES ASSUME NEW i \in DOMAIN t, NEW j \in DOMAIN t, i < j PROVE t[i] > t[j]
            OBVIOUS
        <2>6. j # 1 /\ j - 1 \in DOMAIN s /\ t[j] = s[j - 1]
            BY <1>2, <1>3, <2>5
        <2>7. CASE i = 1
            BY <1>4, <2>1, <2>3, <2>4, <2>6, <2>7
        <2>8. CASE i # 1
            <3>1. i - 1 \in DOMAIN s /\ t[i] = s[i - 1] /\ i - 1 < j - 1
                BY <1>2, <1>3, <2>5, <2>8
            <3> QED
                BY <2>2, <2>6, <3>1
        <2> QED
            BY <2>7, <2>8
    <1>7. Elems(t) = Elems(s) \cup {x}
        <2>1. 1 \in DOMAIN t
            BY <1>1, <1>2
        <2>2. ASSUME NEW y \in Elems(t) PROVE y \in Elems(s) \cup {x}
            <3>1. PICK i \in DOMAIN t : y = t[i]
                BY DEF Elems
            <3> QED
                BY <1>3, <1>4, <3>1 DEF Elems
        <2>3. ASSUME NEW y \in Elems(s) PROVE y \in Elems(t)
            <3>1. PICK i \in DOMAIN s : y = s[i]
                BY DEF Elems
            <3>2. i + 1 \in DOMAIN t /\ t[i + 1] = y
                BY <1>5, <3>1
            <3> QED
                BY <3>2 DEF Elems
        <2>4. x \in Elems(t)
            BY <1>4, <2>1 DEF Elems
        <2> QED
            BY <2>2, <2>3, <2>4
    <1> QED
        BY <1>2, <1>6, <1>7 DEF Falling

\* The newest change of a history that is not above h.
Newest(s, x, h) == x \in Elems(s) /\ x <= h /\ \A y \in Elems(s) : y <= h => y <= x

LEMMA ElemsAreHeights ==
    ASSUME NEW s, Falling(s)
    PROVE  Elems(s) \subseteq Heights /\ Elems(s) \subseteq Nat
    <1>1. \A i \in DOMAIN s : s[i] \in Heights
        BY DEF Falling
    <1> QED
        BY <1>1, BoundsAssumption DEF Elems, Heights

LEMMA HeadIsNewest ==
    ASSUME NEW s, Falling(s), NEW h \in Int
    PROVE  \/ Those(s, 1..h) = <<>> /\ \A y \in Elems(s) : y > h
           \/ Those(s, 1..h) # <<>> /\ Newest(s, Head(Those(s, 1..h)), h)
    <1>1. PICK t : t = Those(s, 1..h)
        OBVIOUS
    <1>2. Falling(t) /\ Elems(t) = Elems(s) \cap (1..h)
        BY <1>1, ThoseOfFalling
    <1>3. \A y \in Elems(s) : y \in Nat /\ y >= 1
        BY ElemsAreHeights, BoundsAssumption DEF Heights
    <1>4. CASE t = <<>>
        <2>1. Elems(t) = {}
            BY <1>4 DEF Elems
        <2> QED
            BY <1>1, <1>2, <1>3, <1>4, <2>1
    <1>5. CASE t # <<>>
        <2>1. t \in Seq(Heights) /\ Len(t) \in Nat /\ DOMAIN t = 1..Len(t) /\ 1 \in DOMAIN t
            BY <1>2, <1>5 DEF Falling
        <2>2. Head(t) = t[1]
            BY <1>5, <2>1
        <2>3. \A i \in DOMAIN t : t[1] >= t[i]
            <3>1. \A i, j \in DOMAIN t : i < j => t[i] > t[j]
                BY <1>2 DEF Falling
            <3>2. \A i \in DOMAIN t : t[i] \in Int
                BY <2>1, BoundsAssumption DEF Heights
            <3> QED
                BY <2>1, <3>1, <3>2
        <2>4. Head(t) \in Elems(t) /\ \A y \in Elems(t) : y <= Head(t)
            <3>1. \A i \in DOMAIN t : t[i] \in Int
                BY <2>1, BoundsAssumption DEF Heights
            <3> QED
                BY <2>1, <2>2, <2>3, <3>1 DEF Elems
        <2>5. Newest(s, Head(t), h)
            BY <1>2, <1>3, <2>4 DEF Newest
        <2> QED
            BY <1>1, <1>5, <2>5
    <1> QED
        BY <1>4, <1>5

\* What is read of a history s with values v, as of height h.
ReadIn(s, v, h) ==
    LET upTo == Those(s, 1..h)
    IN  IF upTo = <<>> THEN NoValue ELSE v[Head(upTo)]

LEMMA ReadInIs ==
    ASSUME NEW s, Falling(s), NEW v, NEW h \in Int
    PROVE  \/ ReadIn(s, v, h) = NoValue /\ \A y \in Elems(s) : y > h
           \/ \E x \in Elems(s) : Newest(s, x, h) /\ ReadIn(s, v, h) = v[x]
    <1>1. PICK t : t = Those(s, 1..h)
        OBVIOUS
    <1>2. ReadIn(s, v, h) = IF t = <<>> THEN NoValue ELSE v[Head(t)]
        BY <1>1 DEF ReadIn
    <1>3. \/ t = <<>> /\ \A y \in Elems(s) : y > h
          \/ t # <<>> /\ Newest(s, Head(t), h)
        BY <1>1, HeadIsNewest
    <1> QED
        BY <1>2, <1>3 DEF Newest

LEMMA NewestIsOne ==
    ASSUME NEW s, Falling(s), NEW h \in Int, NEW x, NEW y, Newest(s, x, h), Newest(s, y, h)
    PROVE  x = y
    BY ElemsAreHeights DEF Newest

\* Two histories read the same at h if their newest change till then is the same.
LEMMA SameRead ==
    ASSUME NEW s, Falling(s), NEW t, Falling(t), NEW v, NEW w, NEW h \in Int,
           \A x \in Heights : Newest(s, x, h) <=> Newest(t, x, h),
           \A x \in Heights : Newest(s, x, h) => w[x] = v[x]
    PROVE  ReadIn(t, w, h) = ReadIn(s, v, h)
    <1>1. Elems(s) \subseteq Heights /\ Elems(t) \subseteq Heights
        BY ElemsAreHeights
    <1>2. \/ ReadIn(s, v, h) = NoValue /\ \A y \in Elems(s) : y > h
          \/ \E x \in Elems(s) : Newest(s, x, h) /\ ReadIn(s, v, h) = v[x]
        BY ReadInIs
    <1>3. \/ ReadIn(t, w, h) = NoValue /\ \A y \in Elems(t) : y > h
          \/ \E x \in Elems(t) : Newest(t, x, h) /\ ReadIn(t, w, h) = w[x]
        BY ReadInIs
    <1>4. ASSUME \A y \in Elems(s) : y > h PROVE \A x \in Heights : ~Newest(s, x, h)
        BY <1>1, <1>4 DEF Newest, Heights
    <1>5. ASSUME \A y \in Elems(t) : y > h PROVE \A x \in Heights : ~Newest(t, x, h)
        BY <1>1, <1>5 DEF Newest, Heights
    <1>6. CASE \A y \in Elems(s) : y > h
        BY <1>1, <1>2, <1>3, <1>4, <1>6
    <1>7. CASE \A y \in Elems(t) : y > h
        BY <1>1, <1>2, <1>3, <1>5, <1>7
    <1>8. ASSUME NEW x \in Elems(s), Newest(s, x, h), ReadIn(s, v, h) = v[x],
                 NEW y \in Elems(t), Newest(t, y, h), ReadIn(t, w, h) = w[y]
          PROVE  ReadIn(t, w, h) = ReadIn(s, v, h)
        <2>1. Newest(s, y, h)
            BY <1>1, <1>8
        <2>2. x = y
            BY <1>8, <2>1, NewestIsOne
        <2> QED
            BY <1>1, <1>8, <2>2
    <1> QED
        BY <1>2, <1>3, <1>6, <1>7, <1>8

\* What pruning keeps and what it removes.
LEMMA PrunedIs ==
    ASSUME NEW s, Falling(s), NEW threshold \in Int
    PROVE  /\ Falling(Pruned(s, threshold))
           /\ Elems(Pruned(s, threshold)) =
                {x \in Elems(s) : x > threshold \/ Newest(s, x, threshold)}
           /\ Expired(s, threshold) =
                {x \in Elems(s) : x <= threshold /\ ~Newest(s, x, threshold)}
    <1> DEFINE new == Keeps(s, threshold)
               old == Beyond(s, threshold)
    <1>1. Elems(s) \subseteq Heights /\ Elems(s) \subseteq Nat /\ \A y \in Elems(s) : y >= 1 /\ y <= MaxHeight
        BY ElemsAreHeights, BoundsAssumption DEF Heights
    <1>2. Falling(new) /\ Elems(new) = {x \in Elems(s) : x > threshold}
        <2>1. Falling(new) /\ Elems(new) = Elems(s) \cap ((threshold + 1)..MaxHeight)
            BY ThoseOfFalling DEF Keeps
        <2>2. Elems(s) \cap ((threshold + 1)..MaxHeight) = {x \in Elems(s) : x > threshold}
            BY <1>1, BoundsAssumption
        <2> QED
            BY <2>1, <2>2
    <1>3. Falling(old) /\ Elems(old) = {x \in Elems(s) : x <= threshold}
        <2>1. Falling(old) /\ Elems(old) = Elems(s) \cap (1..threshold)
            BY ThoseOfFalling DEF Beyond
        <2>2. Elems(s) \cap (1..threshold) = {x \in Elems(s) : x <= threshold}
            BY <1>1
        <2> QED
            BY <2>1, <2>2
    <1>4. \/ old = <<>> /\ \A y \in Elems(s) : y > threshold
          \/ old # <<>> /\ Newest(s, Head(old), threshold)
        BY HeadIsNewest DEF Beyond
    <1>5. Pruned(s, threshold) = new \o IF old = <<>> THEN <<>> ELSE <<Head(old)>>
        BY DEF Pruned
    <1>6. Expired(s, threshold) = {old[i] : i \in 2..Len(old)}
        BY DEF Expired
    <1> HIDE DEF new, old
    <1>7. new \in Seq(Heights) /\ old \in Seq(Heights) /\ DOMAIN old = 1..Len(old) /\ Len(old) \in Nat
        BY <1>2, <1>3 DEF Falling
    <1>8. CASE old = <<>> /\ \A y \in Elems(s) : y > threshold
        <2>1. Pruned(s, threshold) = new
            BY <1>5, <1>7, <1>8
        <2>2. Expired(s, threshold) = {}
            BY <1>6, <1>7, <1>8
        <2>3. \A x \in Elems(s) : x > threshold
            BY <1>8
        <2> QED
            BY <1>1, <1>2, <2>1, <2>2, <2>3
    <1>9. CASE old # <<>> /\ Newest(s, Head(old), threshold)
        <2>1. PICK x : x = Head(old)
            OBVIOUS
        <2>2. x = old[1] /\ 1 \in DOMAIN old
            BY <1>7, <1>9, <2>1
        <2>3. x \in Elems(s) /\ x \in Heights /\ x <= threshold /\ Newest(s, x, threshold)
            BY <1>1, <1>9, <2>1 DEF Newest
        <2>4. \A y \in Elems(s) : Newest(s, y, threshold) => y = x
            BY <2>3, NewestIsOne
        <2>5. Pruned(s, threshold) = Append(new, x)
            BY <1>5, <1>7, <1>9, <2>1
        <2>6. \A y \in Elems(new) : y > x
            BY <1>1, <1>2, <2>3
        <2>7. Falling(Append(new, x)) /\ Elems(Append(new, x)) = Elems(new) \cup {x}
            BY <1>2, <2>3, <2>6, AppendOlder
        <2>8. Elems(new) \cup {x} = {y \in Elems(s) : y > threshold \/ Newest(s, y, threshold)}
            BY <1>2, <2>3, <2>4
        <2>9. Elems(old) = {old[i] : i \in 2..Len(old)} \cup {x}
            <3>1. DOMAIN old = (2..Len(old)) \cup {1}
                BY <1>7, <2>2
            <3> QED
                BY <2>2, <3>1 DEF Elems
        <2>10. x \notin {old[i] : i \in 2..Len(old)}
            <3>1. \A i \in 2..Len(old) : x > old[i] /\ old[i] \in Int
                <4>1. \A i \in 2..Len(old) : i \in DOMAIN old /\ 1 < i /\ old[i] \in Heights
                    BY <1>7
                <4>2. \A i \in 2..Len(old) : old[1] > old[i]
                    BY <1>3, <2>2, <4>1 DEF Falling
                <4>3. \A i \in Heights : i \in Int
                    BY BoundsAssumption DEF Heights
                <4> QED
                    BY <2>2, <4>1, <4>2, <4>3
            <3> QED
                BY <3>1, <1>1, <2>3
        <2>11. {old[i] : i \in 2..Len(old)} = {y \in Elems(s) : y <= threshold /\ ~Newest(s, y, threshold)}
            BY <1>3, <2>3, <2>4, <2>9, <2>10
        <2> QED
            BY <1>6, <2>5, <2>7, <2>8, <2>11
    <1> QED
        BY <1>4, <1>8, <1>9

\* What updateHistory makes of a history and its values at height n.
Pushed(s, n, threshold) == <<n>> \o Pruned(s, threshold)
Rewritten(s, n, threshold, v, c) ==
    [h \in Heights |-> IF h = n THEN c
                       ELSE IF h \in Expired(s, threshold) THEN NoValue ELSE v[h]]

\* A change at height n: it is what is read there, and what was read at a height
\* not below the threshold stays so.
LEMMA AppendedRead ==
    ASSUME NEW s, Falling(s), NEW n \in Heights, Elems(s) \subseteq 1..(n - 1),
           NEW threshold \in Int, NEW v, NEW c
    PROVE  /\ Falling(Pushed(s, n, threshold)) /\ Elems(Pushed(s, n, threshold)) \subseteq 1..n
           /\ Elems(Pushed(s, n, threshold)) \subseteq Elems(s) \cup {n}
           /\ ReadIn(Pushed(s, n, threshold), Rewritten(s, n, threshold, v, c), n) = c
           /\ \A h \in 1..(n - 1) : h >= threshold =>
                 ReadIn(Pushed(s, n, threshold), Rewritten(s, n, threshold, v, c), h)
                   = ReadIn(s, v, h)
           /\ n # 1 /\ (1 \notin Elems(s) => v[1] = NoValue) =>
                 (1 \notin Elems(Pushed(s, n, threshold)) =>
                    Rewritten(s, n, threshold, v, c)[1] = NoValue)
    <1> DEFINE p == Pruned(s, threshold)
    <1> PICK t : t = Pushed(s, n, threshold)
        OBVIOUS
    <1> PICK w : w = Rewritten(s, n, threshold, v, c)
        OBVIOUS
    <1>1. /\ Falling(p)
          /\ Elems(p) = {x \in Elems(s) : x > threshold \/ Newest(s, x, threshold)}
          /\ Expired(s, threshold) = {x \in Elems(s) : x <= threshold /\ ~Newest(s, x, threshold)}
        BY PrunedIs
    <1>2. Elems(s) \subseteq Heights /\ Elems(s) \subseteq Nat
        BY ElemsAreHeights
    <1>3. n \in Nat /\ n >= 1
        BY BoundsAssumption DEF Heights
    <1>4. \A y \in Elems(s) : y < n /\ y >= 1
        BY <1>3
    <1>a. t = <<n>> \o p
        BY DEF Pushed
    <1>b. \A h \in Heights : w[h] = IF h = n THEN c
                                    ELSE IF h \in Expired(s, threshold) THEN NoValue ELSE v[h]
        BY DEF Rewritten
    <1> HIDE DEF p
    <1>5. Falling(t) /\ Elems(t) = Elems(p) \cup {n}
        <2>1. \A y \in Elems(p) : y < n
            BY <1>1, <1>4
        <2> QED
            BY <1>1, <1>a, <2>1, PushNewer
    <1>6. \A x \in Heights : x # n /\ x \notin Expired(s, threshold) => w[x] = v[x]
        BY <1>b
    <1>7. w[n] = c
        BY <1>b
    <1>8. Elems(t) \subseteq 1..n /\ Elems(t) \subseteq Elems(s) \cup {n}
        BY <1>1, <1>3, <1>4, <1>5
    <1>9. ReadIn(t, w, n) = c
        <2>1. \/ ReadIn(t, w, n) = NoValue /\ \A y \in Elems(t) : y > n
              \/ \E x \in Elems(t) : Newest(t, x, n) /\ ReadIn(t, w, n) = w[x]
            BY <1>3, <1>5, ReadInIs
        <2>2. Newest(t, n, n)
            BY <1>3, <1>5, <1>8 DEF Newest
        <2>3. ~\A y \in Elems(t) : y > n
            BY <1>3, <1>5
        <2> QED
            BY <1>3, <1>5, <1>7, <2>1, <2>2, <2>3, NewestIsOne
    <1>10. ASSUME NEW h \in 1..(n - 1), h >= threshold
           PROVE  ReadIn(t, w, h) = ReadIn(s, v, h)
        <2>1. h \in Int /\ h < n
            BY <1>3
        <2>2. \A x \in Elems(s) : Newest(s, x, h) => x > threshold \/ Newest(s, x, threshold)
            BY <1>2, <1>10, <2>1 DEF Newest
        <2>3. \A x \in Elems(s) : Newest(s, x, threshold) => Newest(s, x, threshold) /\ x <= h
            BY <1>2, <1>10, <2>1 DEF Newest
        <2>4. ASSUME NEW x \in Heights, Newest(s, x, h) PROVE Newest(t, x, h)
            <3>1. x \in Elems(s) /\ x <= h /\ \A y \in Elems(s) : y <= h => y <= x
                BY <2>4 DEF Newest
            <3>2. x \in Elems(p)
                BY <1>1, <2>2, <2>4, <3>1
            <3>3. \A y \in Elems(t) : y <= h => y \in Elems(s)
                BY <1>1, <1>3, <1>5, <2>1
            <3> QED
                BY <1>5, <3>1, <3>2, <3>3 DEF Newest
        <2>5. ASSUME NEW x \in Heights, Newest(t, x, h) PROVE Newest(s, x, h)
            <3>1. x \in Elems(s) /\ x <= h
                BY <1>3, <1>5, <1>8, <2>1, <2>5 DEF Newest
            <3>2. ASSUME NEW y \in Elems(s), y <= h, y > x PROVE FALSE
                <4>1. y \in Int /\ x \in Int /\ threshold \in Int /\ h \in Int
                    BY <1>2, <2>1, <3>1
                <4>2. y \notin Elems(p)
                    BY <1>5, <2>5, <3>2, <4>1 DEF Newest
                <4>3. y <= threshold /\ ~Newest(s, y, threshold)
                    BY <1>1, <3>2, <4>1, <4>2
                <4>4. PICK z \in Elems(s) : z <= threshold /\ z > y
                    BY <1>2, <3>2, <4>3 DEF Newest
                <4>5. x \in Elems(p)
                    BY <1>5, <1>3, <2>1, <2>5, <3>1, <1>4 DEF Newest
                <4>6. x <= threshold
                    BY <3>2, <4>1, <4>3
                <4>7. Newest(s, x, threshold)
                    BY <1>1, <4>1, <4>5, <4>6
                <4> QED
                    BY <3>2, <4>1, <4>3, <4>7 DEF Newest
            <3> QED
                BY <1>2, <2>1, <3>1, <3>2 DEF Newest
        <2>6. ASSUME NEW x \in Heights, Newest(s, x, h) PROVE w[x] = v[x]
            <3>1. x # n /\ x \notin Expired(s, threshold)
                BY <1>1, <1>2, <1>4, <1>3, <2>2, <2>6 DEF Newest
            <3> QED
                BY <1>6, <3>1
        <2> QED
            BY <1>5, <2>1, <2>4, <2>5, <2>6, SameRead
    <1>11. ASSUME n # 1, 1 \notin Elems(s) => v[1] = NoValue, 1 \notin Elems(t)
           PROVE  w[1] = NoValue
        <2>1. 1 \in Heights
            BY BoundsAssumption DEF Heights
        <2>2. CASE 1 \in Elems(s)
            <3>1. 1 \in Expired(s, threshold)
                BY <1>1, <1>5, <1>11, <2>2
            <3> QED
                BY <1>b, <1>11, <2>1, <3>1
        <2>3. CASE 1 \notin Elems(s)
            <3>1. 1 # n /\ w[1] = IF 1 \in Expired(s, threshold) THEN NoValue ELSE v[1]
                BY <1>b, <1>11, <2>1
            <3> QED
                BY <1>11, <2>3, <3>1
        <2> QED
            BY <2>2, <2>3
    <1> QED
        BY <1>5, <1>8, <1>9, <1>10, <1>11

\* A change removed at height n: what was read below stays so.
LEMMA RemovedRead ==
    ASSUME NEW s, Falling(s), NEW n \in Heights, Elems(s) \subseteq 1..n,
           NEW v, NEW w, \A h \in Heights \ {n} : w[h] = v[h]
    PROVE  LET t == Those(s, Heights \ {n})
           IN  /\ Falling(t) /\ Elems(t) \subseteq 1..(n - 1) /\ Elems(t) \subseteq Elems(s)
               /\ \A h \in 1..(n - 1) : ReadIn(t, w, h) = ReadIn(s, v, h)
               /\ n # 1 /\ 1 \notin Elems(t) => 1 \notin Elems(s)
    <1> DEFINE t == Those(s, Heights \ {n})
    <1>1. Falling(t) /\ Elems(t) = Elems(s) \cap (Heights \ {n})
        BY ThoseOfFalling
    <1>2. Elems(s) \subseteq Heights /\ Elems(s) \subseteq Nat /\ n \in Nat /\ 1 \in Heights
        BY ElemsAreHeights, BoundsAssumption DEF Heights
    <1>3. Elems(t) = Elems(s) \ {n}
        BY <1>1, <1>2
    <1> HIDE DEF t
    <1>4. ASSUME NEW h \in 1..(n - 1) PROVE ReadIn(t, w, h) = ReadIn(s, v, h)
        <2>1. h \in Int /\ h < n
            BY <1>2
        <2>2. \A x \in Heights : Newest(s, x, h) <=> Newest(t, x, h)
            BY <1>2, <1>3, <2>1 DEF Newest
        <2>3. \A x \in Heights : Newest(s, x, h) => w[x] = v[x]
            BY <1>2, <2>1 DEF Newest
        <2> QED
            BY <1>1, <2>1, <2>2, <2>3, SameRead
    <1>5. Elems(t) \subseteq 1..(n - 1)
        BY <1>2, <1>3
    <1>6. n # 1 /\ 1 \notin Elems(t) => 1 \notin Elems(s)
        BY <1>3
    <1> QED
        BY <1>1, <1>3, <1>4, <1>5, <1>6 DEF t

-----------------------------------------------------------------------------
(* What can be read back *)

\* The data entries an invocation writes are those of its sender. (A rollback
\* leaves the data of another account, see DataRolledBack.)
OwnDataOnly == \A tx \in Txs : tx.type = "invoke" => tx.sender = tx.recipient

\* The keys rollbacks have restored so far.
Restored == Keys \ left

LEMMA RestoredAreKeys == Restored \subseteq Keys
    BY DEF Restored

\* What a block changed is reverted with it, or known not to be.
LEMMA RevertsWhatItChanges ==
    ASSUME NEW tx \in Txs \cup {NoTx}, NEW miner \in Miners, NEW b,
           b.tx = tx, b.changed = ChangedAddresses(tx, miner),
           {a \in Addresses : <<"data", a>> \in Changed(tx, miner)} \subseteq b.data
    PROVE  Changed(tx, miner) \subseteq Reverted(b) \cup Leftover(b)
    <1>1. CASE tx = NoTx
        BY <1>1 DEF Changed
    <1>2. ASSUME tx # NoTx PROVE Changed(tx, miner) \subseteq Reverted(b) \cup Leftover(b)
        <2>1. tx.type \in Types /\ tx.sender \in Addresses /\ tx.recipient \in Addresses
            BY <1>2, TxsAssumption
        <2>2. miner \in Addresses
            BY MinersAssumption
        <2>3. Changed(tx, miner) = Writes(tx) \cup {<<"earths", miner>>}
            BY <1>2 DEF Changed
        <2>4. \A a \in Addresses : <<"earths", a>> \in Changed(tx, miner) => a \in b.changed
            BY DEF ChangedAddresses
        <2>5. Listed(tx) \subseteq b.changed
            BY <1>2, <2>1 DEF ChangedAddresses, Listed
        <2>6. \A a \in Addresses : <<"data", a>> \in Changed(tx, miner) => a \in b.data
            OBVIOUS
        <2>7. /\ \A a \in b.changed : {<<"earths", a>>, <<"lease", a>>, <<"asset", a>>} \subseteq Reverted(b)
              /\ \A a \in b.changed : a \in b.data => <<"data", a>> \in Reverted(b)
              /\ RevertedByType(tx) \subseteq Reverted(b)
            BY <1>2 DEF Reverted
        <2>8. miner \in b.changed
            BY <2>2, <2>3, <2>4
        <2>9. tx.sender \in b.changed
            BY <2>5 DEF Listed
        <2> HIDE DEF Changed
        <2>10. ASSUME NEW k \in Writes(tx) PROVE k \in Reverted(b) \cup Leftover(b)
            <3>1. k \in Changed(tx, miner)
                BY <2>3
            <3>2. CASE tx.type \in {"transfer", "assetTransfer", "lease", "exchange"}
                <4>1. tx.recipient \in b.changed
                    BY <2>5, <3>2 DEF Listed
                <4>2. CASE tx.type = "transfer"
                    BY <2>7, <2>9, <4>1, <4>2 DEF Writes
                <4>3. CASE tx.type = "assetTransfer"
                    BY <2>7, <2>9, <4>1, <4>3 DEF Writes
                <4>4. CASE tx.type = "lease"
                    BY <2>7, <2>9, <4>1, <4>4 DEF Writes, RevertedByType
                <4>5. CASE tx.type = "exchange"
                    BY <2>7, <2>9, <4>1, <4>5 DEF Writes, RevertedByType
                <4> QED
                    BY <3>2, <4>2, <4>3, <4>4, <4>5
            <3>3. CASE tx.type = "data"
                <4>1. k \in {<<"earths", tx.sender>>, <<"data", tx.sender>>}
                    BY <3>3 DEF Writes
                <4> QED
                    BY <2>1, <2>6, <2>7, <2>9, <3>1, <4>1
            <3>4. CASE tx.type = "invoke"
                <4>1. k \in {<<"earths", tx.sender>>, <<"data", tx.recipient>>}
                    BY <1>2, <3>4 DEF Writes
                <4>2. CASE tx.recipient \in b.changed
                    BY <2>1, <2>6, <2>7, <2>9, <3>1, <4>1, <4>2
                <4>3. CASE tx.recipient \notin b.changed
                    <5>1. <<"data", tx.recipient>> \in Leftover(b)
                        BY <1>2, <3>4, <4>3 DEF Leftover
                    <5> QED
                        BY <2>7, <2>9, <4>1, <5>1
                <4> QED
                    BY <4>2, <4>3
            <3>5. CASE tx.type = "issue"
                BY <2>7, <2>9, <3>5 DEF Writes, RevertedByType
            <3>10. CASE tx.type = "issueScripted"
                <4>1. <<"assetScript", tx.subject>> \in Leftover(b)
                    BY <1>2, <3>10 DEF Leftover
                <4> QED
                    BY <2>7, <2>9, <3>10, <4>1 DEF Writes, RevertedByType
            <3>6. CASE tx.type = "reissue"
                BY <2>7, <2>9, <3>6 DEF Writes, RevertedByType
            <3>7. CASE tx.type = "sponsor"
                BY <2>7, <2>9, <3>7 DEF Writes, RevertedByType
            <3>8. CASE tx.type = "setAssetScript"
                BY <2>7, <2>9, <3>8 DEF Writes, RevertedByType
            <3>9. CASE tx.type \in {"setScript", "dropScript"}
                BY <2>7, <2>9, <3>9 DEF Writes, RevertedByType
            <3> QED
                BY <2>1, <3>2, <3>3, <3>4, <3>5, <3>6, <3>7, <3>8, <3>9, <3>10 DEF Types
        <2> QED
            BY <2>3, <2>7, <2>8, <2>10
    <1> QED
        BY <1>1, <1>2

States == [Keys -> Values \cup {NoValue}]
Blocks == [tx : Txs \cup {NoTx}, changed : SUBSET Addresses, data : SUBSET Addresses]

\* Histories fall, and have no height the chain has not.
StoreType ==
    /\ height \in Heights
    /\ \A k \in Restored : Falling(history[k]) /\ Elems(history[k]) \subseteq 1..height
    /\ \A k \in Restored : values[k] \in [Heights -> Values \cup {NoValue}]
    /\ blocks \in [Heights -> Blocks]
    /\ past \in Seq(States) /\ Len(past) = height

\* The block of a height in a history, genesis apart, is recorded as one whose
\* removal reverts it, or is known not to.
Accountable ==
    \A k \in Restored : \A h \in Elems(history[k]) :
        h # 1 => k \in Reverted(blocks[h]) \cup Leftover(blocks[h])

\* What a rollback may not revert, for the transactions there are.
Survivors ==
    {<<"data", tx.recipient>> : tx \in {t \in Txs : t.type = "invoke" /\ t.sender # t.recipient}}
      \cup {<<"assetScript", tx.subject>> : tx \in {t \in Txs : t.type = "issueScripted"}}

\* The sender of a block's transaction is among the addresses recorded for it.
Attributed ==
    \A h \in Heights : blocks[h].tx # NoTx => blocks[h].tx.sender \in blocks[h].changed

LeftInv == Attributed /\ left \subseteq Survivors

\* Balances can be read further back than the rest.
ExtraDepth(k) == IF k[1] \in {"earths", "lease"} THEN ExtraBalanceDepth ELSE 0

PastReadable ==
    \A k \in Restored, h \in 1..height :
        h > safeRollbackHeight - ExtraDepth(k) => ReadAt(k, h) = past[h][k]

\* Below the first change there is no value, though slice asks for one.
GenesisReadable == \A k \in Restored : 1 \notin Elems(history[k]) => values[k][1] = NoValue

WindowInv == /\ SafeInv /\ StoreType /\ Accountable /\ PastReadable /\ GenesisReadable
             /\ LeftInv

LEMMA InitWindow == Init => WindowInv
    <1> USE RestoredAreKeys
    <1> SUFFICES ASSUME Init PROVE WindowInv
        OBVIOUS
    <1>1. SafeInv
        BY InitShape, DepthAssumption DEF Init, SafeInv, AboveSafeHeight, TargetAbove
    <1>2. 1 \in Heights /\ height = 1
        BY BoundsAssumption DEF Init, Heights
    <1>3. Falling(<<1>>) /\ Elems(<<1>>) = {1} /\ Falling(<<>>) /\ Elems(<<>>) = {}
        BY <1>2 DEF Falling, Elems
    <1>4. \A k \in Keys : history[k] = IF k[1] = "earths" THEN <<1>> ELSE <<>>
        BY DEF Init
    <1>5. \A k \in Keys : Genesis[k] = IF k[1] = "earths" THEN CHOOSE v \in Values : TRUE ELSE NoValue
        BY DEF Genesis
    <1>6. Genesis \in States
        BY BoundsAssumption DEF Genesis, States
    <1>7. \A k \in Keys : values[k] = [h \in Heights |-> IF h = 1 THEN Genesis[k] ELSE NoValue]
        BY DEF Init
    <1>8. past = <<Genesis>>
        BY DEF Init
    <1>9. StoreType
        <2>1. \A k \in Restored : Falling(history[k]) /\ Elems(history[k]) \subseteq 1..height
            BY <1>2, <1>3, <1>4
        <2>2. \A k \in Restored : values[k] \in [Heights -> Values \cup {NoValue}]
            <3>1. \A k \in Restored : Genesis[k] \in Values \cup {NoValue}
                BY <1>6 DEF States
            <3>2. ASSUME NEW g \in Values \cup {NoValue}
                  PROVE  [h \in Heights |-> IF h = 1 THEN g ELSE NoValue]
                           \in [Heights -> Values \cup {NoValue}]
                OBVIOUS
            <3>3. SUFFICES ASSUME NEW k \in Restored
                           PROVE  values[k] \in [Heights -> Values \cup {NoValue}]
                OBVIOUS
            <3> DEFINE g == Genesis[k]
            <3>4. g \in Values \cup {NoValue}
                BY <3>1
            <3>5. k \in Keys
                OBVIOUS
            <3>6. values[k] = [h \in Heights |-> IF h = 1 THEN g ELSE NoValue]
                BY <1>7, <3>5
            <3> HIDE DEF g
            <3> QED
                BY <3>2, <3>4, <3>6
        <2>3. blocks \in [Heights -> Blocks]
            BY DEF Init, Blocks
        <2>4. past \in Seq(States) /\ Len(past) = height
            BY <1>2, <1>6, <1>8
        <2> QED
            BY <1>2, <2>1, <2>2, <2>3, <2>4 DEF StoreType
    <1>10. Accountable
        BY <1>3, <1>4 DEF Accountable
    <1>11. PastReadable
        <2>1. SUFFICES ASSUME NEW k \in Restored PROVE ReadAt(k, 1) = past[1][k]
            BY <1>2 DEF PastReadable
        <2>2. past[1][k] = Genesis[k] /\ values[k][1] = Genesis[k]
            BY <1>2, <1>7, <1>8
        <2>3. ReadAt(k, 1) = ReadIn(history[k], values[k], 1)
            BY DEF ReadAt, ReadIn
        <2>4. CASE k[1] = "earths"
            BY <1>3, <1>4, <2>2, <2>3, <2>4, ReadInIs
        <2>5. CASE k[1] # "earths"
            <3>1. Genesis[k] = NoValue
                BY <1>5, <2>5
            <3> QED
                BY <1>3, <1>4, <2>2, <2>3, <2>5, <3>1, ReadInIs
        <2> QED
            BY <2>4, <2>5
    <1>12. GenesisReadable
        <2>1. SUFFICES ASSUME NEW k \in Restored, 1 \notin Elems(history[k])
                       PROVE  values[k][1] = NoValue
            BY DEF GenesisReadable
        <2>2. k \in Keys /\ k[1] # "earths"
            BY <1>3, <1>4, <2>1
        <2> QED
            BY <1>2, <1>5, <1>7, <2>2
    <1>13. LeftInv
        BY DEF Init, LeftInv, Attributed
    <1> QED
        BY <1>1, <1>9, <1>10, <1>11, <1>12, <1>13 DEF WindowInv

\* A block is appended.
LEMMA AppendKeepsWindow ==
    ASSUME WindowInv,
           NEW tx \in Txs \cup {NoTx}, NEW miner \in Miners, NEW v \in Values,
           Append1(tx, miner, v)
    PROVE  StoreType' /\ Accountable' /\ PastReadable' /\ GenesisReadable' /\ LeftInv'
    <1> USE RestoredAreKeys
    <1> DEFINE new == height + 1
               changed == Changed(tx, miner)
    <1>1. /\ SafeInv /\ StoreType /\ Accountable /\ PastReadable /\ GenesisReadable /\ LeftInv
        BY DEF WindowInv
    <1>2. /\ height \in Nat /\ height >= 1 /\ height < MaxHeight /\ new \in Heights
          /\ safeRollbackHeight \in Nat /\ height > safeRollbackHeight
          /\ safeRollbackHeight >= height - MaxRollbackDepth /\ MaxHeight \in Nat
          /\ MaxRollbackDepth \in Nat /\ ExtraBalanceDepth \in Nat
        BY <1>1, BoundsAssumption, DepthAssumption
        DEF StoreType, SafeInv, AboveSafeHeight, Heights, Append1
    <1>3. /\ height' = new
          /\ safeRollbackHeight' = IF safeRollbackHeight < new - MaxRollbackDepth
                                   THEN new - MaxRollbackDepth ELSE safeRollbackHeight
        BY DEF Append1, AppendBatch
    <1>4. \A k \in Keys : history'[k] =
             IF k \in changed THEN <<new>> \o Pruned(history[k], Threshold(k, new)) ELSE history[k]
        BY DEF Append1, AppendBatch
    <1>5. \A k \in Keys : values'[k] =
             IF k \notin changed THEN values[k]
             ELSE [h \in Heights |->
                     IF h = new THEN Stored(k, tx, v)
                     ELSE IF h \in Expired(history[k], Threshold(k, new)) THEN NoValue
                     ELSE values[k][h]]
        BY DEF Append1, AppendBatch
    <1>6. blocks' = [blocks EXCEPT ![new] =
             [tx      |-> tx,
              changed |-> ChangedAddresses(tx, miner),
              data    |-> blocks[new].data \cup {a \in Addresses : <<"data", a>> \in changed}]]
        BY DEF Append1, AppendBatch
    <1>7. past' = Append(past,
             [k \in Keys |-> IF k \in changed THEN Stored(k, tx, v) ELSE past[height][k]])
        BY DEF Append1, AppendBatch
    <1>r. left' = left /\ Restored' = Restored
        BY DEF Append1, AppendBatch, Restored
    <1>8. \A k \in Keys : Stored(k, tx, v) \in Values \cup {NoValue}
        BY DEF Stored
    <1>9. \A k \in Keys : /\ Threshold(k, new) = new - (MaxRollbackDepth + ExtraDepth(k))
                          /\ Threshold(k, new) \in Int /\ ExtraDepth(k) \in Nat
        BY <1>2 DEF Threshold, ExtraDepth
    <1>10. /\ \A h \in 1..height : past'[h] = past[h]
           /\ past'[new] = [k \in Keys |-> IF k \in changed THEN Stored(k, tx, v) ELSE past[height][k]]
           /\ past' \in Seq(States) /\ Len(past') = new
        <2> DEFINE state == [k \in Keys |-> IF k \in changed THEN Stored(k, tx, v) ELSE past[height][k]]
        <2>1. past \in Seq(States) /\ Len(past) = height
            BY <1>1 DEF StoreType
        <2>2. past[height] \in States
            BY <1>2, <2>1
        <2>3. state \in States
            BY <1>8, <2>2 DEF States
        <2>4. past' = Append(past, state)
            BY <1>7
        <2> HIDE DEF state
        <2>6. past'[new] = state /\ past' \in Seq(States) /\ Len(past') = new
            BY <1>2, <2>1, <2>3, <2>4
        <2>7. \A h \in 1..height : past'[h] = past[h]
            BY <1>2, <2>1, <2>3, <2>4
        <2> QED
            BY <2>6, <2>7 DEF state
    <1> HIDE DEF new, changed
    <1>11. new = height + 1
        BY DEF new
    <1>12. ASSUME NEW k \in Restored, k \in changed
           PROVE  /\ Falling(history'[k]) /\ Elems(history'[k]) \subseteq 1..new
                  /\ Elems(history'[k]) \subseteq Elems(history[k]) \cup {new}
                  /\ values'[k] \in [Heights -> Values \cup {NoValue}]
                  /\ ReadIn(history'[k], values'[k], new) = Stored(k, tx, v)
                  /\ \A h \in 1..height : h >= Threshold(k, new) =>
                        ReadIn(history'[k], values'[k], h) = ReadIn(history[k], values[k], h)
                  /\ 1 \notin Elems(history'[k]) => values'[k][1] = NoValue
        <2>1. PICK s, threshold, u, w, c :
                 /\ s = history[k] /\ threshold = Threshold(k, new) /\ u = values[k]
                 /\ w = values'[k] /\ c = Stored(k, tx, v)
            OBVIOUS
        <2>2. /\ Falling(s) /\ Elems(s) \subseteq 1..height
              /\ u \in [Heights -> Values \cup {NoValue}]
              /\ (1 \notin Elems(s) => u[1] = NoValue)
            BY <1>1, <2>1 DEF StoreType, GenesisReadable
        <2>3. history'[k] = Pushed(s, new, threshold)
            BY <1>4, <1>12, <2>1 DEF Pushed
        <2>4. w = Rewritten(s, new, threshold, u, c)
            BY <1>5, <1>12, <2>1 DEF Rewritten
        <2>5. threshold \in Int /\ new - 1 = height /\ new # 1
            BY <1>2, <1>9, <1>11, <2>1
        <2>6. new \in Heights /\ Elems(s) \subseteq 1..(new - 1)
            BY <1>2, <2>2, <2>5
        <2>7. PICK t : t = Pushed(s, new, threshold)
            OBVIOUS
        <2>8. /\ Falling(t) /\ Elems(t) \subseteq 1..new
              /\ Elems(t) \subseteq Elems(s) \cup {new}
              /\ ReadIn(t, w, new) = c
              /\ \A h \in 1..(new - 1) : h >= threshold => ReadIn(t, w, h) = ReadIn(s, u, h)
              /\ new # 1 /\ (1 \notin Elems(s) => u[1] = NoValue)
                    => (1 \notin Elems(t) => w[1] = NoValue)
            BY <2>2, <2>4, <2>5, <2>6, <2>7, AppendedRead
        <2>9. w \in [Heights -> Values \cup {NoValue}]
            BY <1>8, <2>1, <2>2, <2>4 DEF Rewritten
        <2> QED
            BY <2>1, <2>2, <2>3, <2>5, <2>7, <2>8, <2>9
    <1>13. ASSUME NEW k \in Restored, k \notin changed
           PROVE  /\ history'[k] = history[k] /\ values'[k] = values[k]
                  /\ ReadIn(history[k], values[k], new) = ReadIn(history[k], values[k], height)
        <2>1. history'[k] = history[k] /\ values'[k] = values[k]
            BY <1>4, <1>5, <1>13
        <2>2. PICK s, u : s = history[k] /\ u = values[k]
            OBVIOUS
        <2>3. Falling(s) /\ Elems(s) \subseteq 1..height
            BY <1>1, <2>2 DEF StoreType
        <2>4. \A y \in Elems(s) : y <= height /\ y <= new
            BY <1>2, <1>11, <2>3
        <2>5. new \in Int /\ height \in Int
            BY <1>2, <1>11
        <2>6. ReadIn(s, u, new) = ReadIn(s, u, height)
            <3>1. \A x \in Heights : Newest(s, x, height) <=> Newest(s, x, new)
                BY <2>4 DEF Newest
            <3>3. \/ ReadIn(s, u, new) = NoValue /\ \A y \in Elems(s) : y > new
                  \/ \E x \in Elems(s) : Newest(s, x, new) /\ ReadIn(s, u, new) = u[x]
                BY <2>3, <2>5, ReadInIs
            <3>4. \/ ReadIn(s, u, height) = NoValue /\ \A y \in Elems(s) : y > height
                  \/ \E x \in Elems(s) : Newest(s, x, height) /\ ReadIn(s, u, height) = u[x]
                BY <2>3, <2>5, ReadInIs
            <3>5. Elems(s) \subseteq Nat /\ Elems(s) \subseteq Heights
                BY <2>3, ElemsAreHeights
            <3>6. CASE Elems(s) = {}
                BY <3>3, <3>4, <3>6
            <3>7. CASE Elems(s) # {}
                BY <2>3, <2>4, <2>5, <3>1, <3>3, <3>4, <3>5, <3>7, NewestIsOne
            <3> QED
                BY <3>6, <3>7
        <2> QED
            BY <2>1, <2>2, <2>6
    <1>14. StoreType'
        <2>1. ASSUME NEW k \in Restored
              PROVE  /\ Falling(history'[k]) /\ Elems(history'[k]) \subseteq 1..new
                     /\ values'[k] \in [Heights -> Values \cup {NoValue}]
            <3>1. CASE k \in changed
                BY <1>12, <3>1
            <3>2. CASE k \notin changed
                <4>1. /\ Falling(history[k]) /\ Elems(history[k]) \subseteq 1..height
                      /\ values[k] \in [Heights -> Values \cup {NoValue}]
                    BY <1>1 DEF StoreType
                <4>2. 1..height \subseteq 1..new
                    BY <1>2, <1>11
                <4> QED
                    BY <1>13, <3>2, <4>1, <4>2
            <3> QED
                BY <3>1, <3>2
        <2>2. blocks' \in [Heights -> Blocks]
            <3>1. blocks \in [Heights -> Blocks]
                BY <1>1 DEF StoreType
            <3>2. blocks[new].data \subseteq Addresses
                BY <1>2, <3>1 DEF Blocks
            <3>3. ChangedAddresses(tx, miner) \subseteq Addresses
                BY DEF ChangedAddresses
            <3>4. [tx      |-> tx,
                   changed |-> ChangedAddresses(tx, miner),
                   data    |-> blocks[new].data \cup {a \in Addresses : <<"data", a>> \in changed}]
                  \in Blocks
                BY <3>2, <3>3 DEF Blocks
            <3> QED
                BY <1>6, <3>1, <3>4
        <2> QED
            BY <1>2, <1>3, <1>r, <1>10, <2>1, <2>2 DEF StoreType
    <1>15. Accountable'
        <2>1. SUFFICES ASSUME NEW k \in Restored, NEW h \in Elems(history'[k]), h # 1
                       PROVE  k \in Reverted(blocks'[h]) \cup Leftover(blocks'[h])
            BY <1>r DEF Accountable, Reverted, Leftover
        <2>2. blocks \in [Heights -> Blocks] /\ new \in Heights
            BY <1>1, <1>2 DEF StoreType
        <2>3. ASSUME h \in Elems(history[k])
              PROVE  k \in Reverted(blocks'[h]) \cup Leftover(blocks'[h])
            <3>1. h \in 1..height
                BY <1>1, <2>3 DEF StoreType
            <3>2. h # new
                BY <1>2, <1>11, <3>1
            <3>3. blocks'[h] = blocks[h]
                BY <1>6, <2>2, <3>2
            <3> QED
                BY <1>1, <2>1, <2>3, <3>3 DEF Accountable
        <2>4. ASSUME h = new, k \in changed
              PROVE  k \in Reverted(blocks'[h]) \cup Leftover(blocks'[h])
            <3>1. PICK b : b = blocks'[new]
                OBVIOUS
            <3>2. b = [tx      |-> tx,
                       changed |-> ChangedAddresses(tx, miner),
                       data    |-> blocks[new].data \cup {a \in Addresses : <<"data", a>> \in changed}]
                BY <1>6, <2>2, <3>1
            <3>3. /\ b.tx = tx /\ b.changed = ChangedAddresses(tx, miner)
                  /\ {a \in Addresses : <<"data", a>> \in Changed(tx, miner)} \subseteq b.data
                BY <3>2 DEF changed
            <3>4. Changed(tx, miner) \subseteq Reverted(b) \cup Leftover(b)
                BY <3>3, RevertsWhatItChanges
            <3> QED
                BY <2>4, <3>1, <3>4 DEF changed
        <2>5. h \in Elems(history[k]) \/ (h = new /\ k \in changed)
            BY <1>12, <1>13, <2>1
        <2> QED
            BY <2>3, <2>4, <2>5
    <1>16. PastReadable'
        <2>1. SUFFICES ASSUME NEW k \in Restored, NEW h \in 1..new,
                              h > safeRollbackHeight' - ExtraDepth(k)
                       PROVE  ReadIn(history'[k], values'[k], h) = past'[h][k]
            BY <1>3, <1>r DEF PastReadable, ReadAt, ReadIn
        <2>2. ExtraDepth(k) \in Nat /\ Threshold(k, new) = new - (MaxRollbackDepth + ExtraDepth(k))
            BY <1>9
        <2>3. h \in Int /\ new \in Int
            BY <1>2, <1>11
        <2>4. h > safeRollbackHeight - ExtraDepth(k) /\ h >= Threshold(k, new)
            BY <1>2, <1>3, <1>11, <2>1, <2>2, <2>3
        <2>5. \A g \in 1..height : g > safeRollbackHeight - ExtraDepth(k) =>
                 ReadIn(history[k], values[k], g) = past[g][k]
            BY <1>1 DEF PastReadable, ReadAt, ReadIn
        <2>6. height \in 1..height /\ height > safeRollbackHeight - ExtraDepth(k)
            BY <1>2, <2>2
        <2>7. CASE h = new
            <3>1. CASE k \in changed
                BY <1>10, <1>12, <2>7, <3>1
            <3>2. CASE k \notin changed
                BY <1>10, <1>13, <2>5, <2>6, <2>7, <3>2
            <3> QED
                BY <3>1, <3>2
        <2>8. CASE h # new
            <3>1. h \in 1..height
                BY <1>2, <1>11, <2>3, <2>8
            <3>2. ReadIn(history[k], values[k], h) = past[h][k] /\ past'[h] = past[h]
                BY <1>10, <2>4, <2>5, <3>1
            <3>3. CASE k \in changed
                BY <1>12, <2>4, <3>1, <3>2, <3>3
            <3>4. CASE k \notin changed
                BY <1>13, <3>2, <3>4
            <3> QED
                BY <3>3, <3>4
        <2> QED
            BY <2>7, <2>8
    <1>17. GenesisReadable'
        <2>1. ASSUME NEW k \in Restored, 1 \notin Elems(history'[k]) PROVE values'[k][1] = NoValue
            BY <1>1, <1>12, <1>13, <2>1 DEF GenesisReadable
        <2> QED
            BY <1>r, <2>1 DEF GenesisReadable
    <1>18. LeftInv'
        <2>1. \A h \in Heights : blocks'[h] = IF h = new
                 THEN [tx      |-> tx,
                       changed |-> ChangedAddresses(tx, miner),
                       data    |-> blocks[new].data \cup {a \in Addresses : <<"data", a>> \in changed}]
                 ELSE blocks[h]
            BY <1>1, <1>2, <1>6 DEF StoreType
        <2>2. tx # NoTx => tx.sender \in ChangedAddresses(tx, miner)
            BY TxsAssumption DEF ChangedAddresses, Listed
        <2>3. Attributed'
            <3>1. SUFFICES ASSUME NEW h \in Heights, blocks'[h].tx # NoTx
                           PROVE  blocks'[h].tx.sender \in blocks'[h].changed
                BY DEF Attributed
            <3>2. CASE h = new
                <4>0. blocks'[h] =
                        [tx      |-> tx,
                         changed |-> ChangedAddresses(tx, miner),
                         data    |-> blocks[new].data \cup {a \in Addresses : <<"data", a>> \in changed}]
                    BY <2>1, <3>2
                <4>1. blocks'[h].tx = tx /\ blocks'[h].changed = ChangedAddresses(tx, miner)
                    BY <4>0
                <4> QED
                    BY <2>2, <3>1, <4>1
            <3>3. CASE h # new
                <4>1. blocks'[h] = blocks[h]
                    BY <2>1, <3>3
                <4> QED
                    BY <1>1, <3>1, <4>1 DEF LeftInv, Attributed
            <3> QED
                BY <3>2, <3>3
        <2> QED
            BY <1>1, <1>r, <2>3 DEF LeftInv
    <1> QED
        BY <1>14, <1>15, <1>16, <1>17, <1>18

\* A block is removed.
LEMMA RollbackKeepsWindow ==
    ASSUME WindowInv, RollbackBatch
    PROVE  StoreType' /\ Accountable' /\ PastReadable' /\ GenesisReadable' /\ LeftInv'
    <1> USE RestoredAreKeys
    <1> DEFINE b == blocks[height]
    <1>1. /\ SafeInv /\ StoreType /\ Accountable /\ PastReadable /\ GenesisReadable /\ LeftInv
        BY DEF WindowInv
    <1>2. /\ height \in Nat /\ height > 1 /\ height \in Heights /\ height - 1 \in Heights
          /\ safeRollbackHeight \in Nat /\ height - 1 > safeRollbackHeight
        <2>1. job.target \in Nat /\ safeRollbackHeight < job.target /\ job.target < height
            BY <1>1 DEF SafeInv, TargetAbove, RollbackBatch
        <2>2. height \in Heights /\ height \in Nat /\ safeRollbackHeight \in Nat
            BY <1>1 DEF SafeInv, StoreType
        <2> QED
            BY <2>1, <2>2, BoundsAssumption DEF Heights
    <1>3. height' = height - 1 /\ safeRollbackHeight' = safeRollbackHeight
        BY DEF RollbackBatch
    <1>4. \A k \in Keys :
             history'[k] = IF k \in Reverted(b) THEN Those(history[k], Heights \ {height})
                                                ELSE history[k]
        BY DEF RollbackBatch
    <1>5. \A k \in Keys :
             values'[k] = IF k \in Reverted(b) THEN [values[k] EXCEPT ![height] = NoValue]
                                               ELSE values[k]
        BY DEF RollbackBatch
    <1>6. blocks' = [blocks EXCEPT ![height].tx = NoTx, ![height].changed = {}]
        BY DEF RollbackBatch
    <1>7. past' = SubSeq(past, 1, height - 1)
        BY DEF RollbackBatch
    <1>r. left' = left \cup Leftover(b)
        BY DEF RollbackBatch
    <1> HIDE DEF b
    <1>s. \A k \in Restored' : k \in Restored /\ k \in Keys /\ k \notin Leftover(b)
        BY <1>r DEF Restored
    <1>8. \A h \in 1..(height - 1) : past'[h] = past[h]
        BY <1>1, <1>2, <1>7 DEF StoreType
    <1>9. past' \in Seq(States) /\ Len(past') = height - 1
        BY <1>1, <1>2, <1>7 DEF StoreType
    <1>10. ASSUME NEW k \in Restored'
           PROVE  /\ Falling(history'[k]) /\ Elems(history'[k]) \subseteq 1..(height - 1)
                  /\ Elems(history'[k]) \subseteq Elems(history[k])
                  /\ values'[k] \in [Heights -> Values \cup {NoValue}]
                  /\ \A h \in 1..(height - 1) :
                        ReadIn(history'[k], values'[k], h) = ReadIn(history[k], values[k], h)
                  /\ 1 \notin Elems(history'[k]) => values'[k][1] = NoValue
        <2>0. k \in Restored /\ k \in Keys /\ k \notin Leftover(b)
            BY <1>s
        <2>1. PICK s, u, w : s = history[k] /\ u = values[k] /\ w = values'[k]
            OBVIOUS
        <2>2. /\ Falling(s) /\ Elems(s) \subseteq 1..height
              /\ u \in [Heights -> Values \cup {NoValue}]
              /\ (1 \notin Elems(s) => u[1] = NoValue)
            BY <1>1, <2>0, <2>1 DEF StoreType, GenesisReadable
        <2>3. ASSUME k \in Reverted(b)
              PROVE  /\ Falling(history'[k]) /\ Elems(history'[k]) \subseteq 1..(height - 1)
                     /\ Elems(history'[k]) \subseteq Elems(s)
                     /\ w \in [Heights -> Values \cup {NoValue}]
                     /\ \A h \in 1..(height - 1) : ReadIn(history'[k], w, h) = ReadIn(s, u, h)
                     /\ 1 \notin Elems(history'[k]) => w[1] = NoValue
            <3>1. PICK t : t = Those(s, Heights \ {height})
                OBVIOUS
            <3>2. history'[k] = t /\ w = [u EXCEPT ![height] = NoValue]
                BY <1>4, <1>5, <2>0, <2>1, <2>3, <3>1
            <3>3. w \in [Heights -> Values \cup {NoValue}] /\ \A h \in Heights \ {height} : w[h] = u[h]
                BY <2>2, <3>2
            <3>4. /\ Falling(t) /\ Elems(t) \subseteq 1..(height - 1) /\ Elems(t) \subseteq Elems(s)
                  /\ \A h \in 1..(height - 1) : ReadIn(t, w, h) = ReadIn(s, u, h)
                  /\ height # 1 /\ 1 \notin Elems(t) => 1 \notin Elems(s)
                BY <1>2, <2>2, <3>1, <3>3, RemovedRead
            <3>5. 1 \in Heights \ {height}
                BY <1>2, BoundsAssumption DEF Heights
            <3> QED
                BY <1>2, <2>2, <3>2, <3>3, <3>4, <3>5
        <2>4. ASSUME k \notin Reverted(b)
              PROVE  /\ history'[k] = s /\ w = u /\ Elems(s) \subseteq 1..(height - 1)
            <3>1. history'[k] = s /\ w = u
                BY <1>4, <1>5, <2>0, <2>1, <2>4
            <3>2. height \notin Elems(s)
                BY <1>1, <1>2, <2>0, <2>1, <2>4 DEF Accountable, b
            <3>3. Elems(s) \subseteq 1..(height - 1)
                BY <1>2, <2>2, <3>2
            <3> QED
                BY <3>1, <3>3
        <2> QED
            BY <2>1, <2>2, <2>3, <2>4
    <1>11. \A h \in 1..(height - 1) : blocks'[h] = blocks[h]
        <2>1. blocks \in [Heights -> Blocks]
            BY <1>1 DEF StoreType
        <2>2. \A h \in 1..(height - 1) : h \in Heights /\ h # height
            BY <1>2, BoundsAssumption DEF Heights
        <2> QED
            BY <1>6, <2>1, <2>2
    <1>12. StoreType'
        <2>1. blocks' \in [Heights -> Blocks]
            <3>1. blocks \in [Heights -> Blocks] /\ NoTx \in Txs \cup {NoTx}
                BY <1>1 DEF StoreType
            <3>2. blocks' = [h \in Heights |->
                     IF h = height THEN [blocks[h] EXCEPT !.tx = NoTx, !.changed = {}] ELSE blocks[h]]
                BY <1>2, <1>6, <3>1
            <3>3. [blocks[height] EXCEPT !.tx = NoTx, !.changed = {}] \in Blocks
                <4>1. blocks[height] \in Blocks
                    BY <1>2, <3>1
                <4> QED
                    BY <4>1 DEF Blocks
            <3> QED
                BY <3>1, <3>2, <3>3
        <2> QED
            BY <1>2, <1>3, <1>9, <1>10, <2>1 DEF StoreType
    <1>13. Accountable'
        <2>1. SUFFICES ASSUME NEW k \in Restored', NEW h \in Elems(history'[k]), h # 1
                       PROVE  k \in Reverted(blocks'[h]) \cup Leftover(blocks'[h])
            BY DEF Accountable, Reverted, Leftover
        <2>2. h \in Elems(history[k]) /\ h \in 1..(height - 1) /\ k \in Restored
            BY <1>s, <1>10
        <2>3. blocks'[h] = blocks[h]
            BY <1>11, <2>2
        <2> QED
            BY <1>1, <2>1, <2>2, <2>3 DEF Accountable
    <1>14. PastReadable'
        <2>1. SUFFICES ASSUME NEW k \in Restored', NEW h \in 1..(height - 1),
                              h > safeRollbackHeight - ExtraDepth(k)
                       PROVE  ReadIn(history'[k], values'[k], h) = past'[h][k]
            BY <1>3 DEF PastReadable, ReadAt, ReadIn
        <2>2. h \in 1..height
            BY <1>2
        <2>3. ReadIn(history[k], values[k], h) = past[h][k]
            BY <1>1, <1>s, <2>1, <2>2 DEF PastReadable, ReadAt, ReadIn
        <2> QED
            BY <1>8, <1>10, <2>3
    <1>15. GenesisReadable'
        BY <1>10 DEF GenesisReadable
    <1>16. LeftInv'
        <2>1. blocks \in [Heights -> Blocks] /\ b \in Blocks /\ blocks[height] = b
            BY <1>1, <1>2 DEF StoreType, b
        <2>2. \A h \in Heights :
                 blocks'[h] = IF h = height THEN [b EXCEPT !.tx = NoTx, !.changed = {}] ELSE blocks[h]
            BY <1>2, <1>6, <2>1
        <2>3. [b EXCEPT !.tx = NoTx, !.changed = {}].tx = NoTx
            BY <2>1 DEF Blocks
        <2>4. Attributed'
            BY <1>1, <2>2, <2>3 DEF LeftInv, Attributed
        <2>5. Leftover(b) \subseteq Survivors
            <3>1. b.tx # NoTx => b.tx \in Txs /\ b.tx.sender \in b.changed
                BY <1>1, <1>2, <2>1 DEF LeftInv, Attributed, Blocks
            <3>2. CASE b.tx = NoTx
                BY <3>2 DEF Leftover
            <3>3. CASE b.tx # NoTx /\ b.tx.type = "invoke"
                <4>1. Leftover(b) = {"data"} \X ({b.tx.recipient} \ b.changed)
                    BY <3>3 DEF Leftover
                <4>2. ASSUME NEW q \in Leftover(b) PROVE q \in Survivors
                    <5>1. q = <<"data", b.tx.recipient>> /\ b.tx.recipient # b.tx.sender
                        BY <3>1, <3>3, <4>1
                    <5> QED
                        BY <3>1, <3>3, <5>1 DEF Survivors
                <4> QED
                    BY <4>2
            <3>4. CASE b.tx # NoTx /\ b.tx.type = "issueScripted"
                BY <3>1, <3>4 DEF Leftover, Survivors
            <3>5. CASE b.tx # NoTx /\ b.tx.type \notin {"invoke", "issueScripted"}
                BY <3>5 DEF Leftover
            <3> QED
                BY <3>2, <3>3, <3>4, <3>5
        <2> QED
            BY <1>1, <1>r, <2>4, <2>5 DEF LeftInv
    <1> QED
        BY <1>12, <1>13, <1>14, <1>15, <1>16

LEMMA NextWindow == WindowInv /\ [Next]_vars => WindowInv'
    <1> SUFFICES ASSUME WindowInv, [Next]_vars
                 PROVE  StoreType' /\ Accountable' /\ PastReadable' /\ GenesisReadable' /\ LeftInv'
        BY NextSafe DEF WindowInv
    <1>1. ASSUME NEW tx \in Txs \cup {NoTx}, NEW miner \in Miners, NEW v \in Values,
                 Append1(tx, miner, v)
          PROVE  StoreType' /\ Accountable' /\ PastReadable' /\ GenesisReadable' /\ LeftInv'
        BY <1>1, AppendKeepsWindow
    <1>2. CASE RollbackBatch
        BY <1>2, RollbackKeepsWindow
    <1>3. ASSUME UNCHANGED <<disk, aux>>
          PROVE  StoreType' /\ Accountable' /\ PastReadable' /\ GenesisReadable' /\ LeftInv'
        <2>1. StoreType /\ Accountable /\ PastReadable /\ GenesisReadable /\ LeftInv
            BY DEF WindowInv
        <2>2. UNCHANGED <<height, safeRollbackHeight, history, values, blocks, past, left>>
            BY <1>3 DEF disk, aux
        <2>3. Restored' = Restored
            BY <2>2 DEF Restored
        <2>4. StoreType' /\ GenesisReadable' /\ LeftInv'
            BY <2>1, <2>2, <2>3 DEF StoreType, GenesisReadable, LeftInv, Attributed
        <2>5. PastReadable'
            BY <2>1, <2>2, <2>3 DEF PastReadable, ReadAt
        <2>6. Accountable'
            BY <2>1, <2>2, <2>3 DEF Accountable, Reverted, Leftover
        <2> QED
            BY <2>4, <2>5, <2>6
    <1>4. CASE Append2
        BY <1>3, <1>4 DEF Append2
    <1>5. ASSUME NEW target, Begin(target) PROVE UNCHANGED <<disk, aux>>
        BY <1>5 DEF Begin
    <1>6. CASE DiscardLeases
        BY <1>3, <1>6 DEF DiscardLeases
    <1>7. CASE DiscardRest
        BY <1>3, <1>7 DEF DiscardRest, NextHeight
    <1>8. ASSUME NEW k, LoadBegin(k) \/ LoadEnd(k) PROVE UNCHANGED <<disk, aux>>
        BY <1>8 DEF LoadBegin, LoadEnd
    <1>9. CASE Crash
        BY <1>3, <1>9 DEF Crash
    <1>10. CASE UNCHANGED vars
        BY <1>3, <1>10 DEF vars, disk, aux
    <1> QED
        BY <1>1, <1>2, <1>3, <1>4, <1>5, <1>6, <1>7, <1>8, <1>9, <1>10 DEF Next

\* Whatever is appended, pruned and rolled back, and wherever a crash leaves a
\* rollback, every state it may still go to can be read back, the keys that
\* earlier rollbacks have left alone apart.
THEOREM WindowStaysReadable == Spec => []WindowExact
    <1>1. WindowInv => WindowExact
        <2>1. SUFFICES ASSUME WindowInv, NEW h \in (safeRollbackHeight + 1)..height,
                              NEW k \in Keys \ left
                       PROVE  ReadAt(k, h) = past[h][k]
            BY DEF WindowExact
        <2>2. safeRollbackHeight \in Nat /\ height \in Nat /\ ExtraDepth(k) \in Nat
            BY <2>1, DepthAssumption DEF WindowInv, SafeInv, ExtraDepth
        <2>3. h \in 1..height /\ h > safeRollbackHeight - ExtraDepth(k)
            BY <2>2
        <2>4. k \in Restored
            BY DEF Restored
        <2> QED
            BY <2>1, <2>3, <2>4 DEF WindowInv, PastReadable
    <1> QED
        BY <1>1, InitWindow, NextWindow, PTL DEF Spec

\* All that rollbacks leave alone are the data entries of accounts that others
\* invoke and the scripts that assets were issued with (doRollback reverts the
\* data of the changed addresses, and only the asset info of an issue).
THEOREM OnlyTheseSurvive == Spec => [](left \subseteq Survivors)
    <1>1. WindowInv => left \subseteq Survivors
        BY DEF WindowInv, LeftInv
    <1> QED
        BY <1>1, InitWindow, NextWindow, PTL DEF Spec

\* The data entries of another account, which an invocation without a payment
\* leaves behind, are all that a rollback does not revert: without them the
\* data of every account are those of the chain's blocks.
THEOREM OnlyInvocationsSurvive == ASSUME OwnDataOnly PROVE Spec => []DataRolledBack
    <1>1. WindowInv => DataRolledBack
        <2>1. SUFFICES ASSUME WindowInv, NEW a \in Addresses
                       PROVE  Read(<<"data", a>>) = past[height][<<"data", a>>]
            BY DEF DataRolledBack
        <2>2. PICK k \in Restored : k = <<"data", a>>
            <3>1. <<"data", a>> \in Keys
                BY DEF Keys, OwnerKinds
            <3>2. <<"data", a>> \notin Survivors
                BY DEF Survivors, OwnDataOnly
            <3> QED
                BY <2>1, <3>1, <3>2 DEF WindowInv, LeftInv, Restored
        <2>3. safeRollbackHeight \in Nat /\ height \in Nat /\ height > safeRollbackHeight
            BY <2>1 DEF WindowInv, SafeInv, AboveSafeHeight
        <2>4. ExtraDepth(k) = 0
            BY <2>2 DEF ExtraDepth
        <2>5. ReadAt(k, height) = past[height][k]
            BY <2>1, <2>3, <2>4 DEF WindowInv, PastReadable
        <2>6. PICK s, v : s = history[k] /\ v = values[k]
            OBVIOUS
        <2>7. Falling(s) /\ Elems(s) \subseteq 1..height
            BY <2>1, <2>6 DEF WindowInv, StoreType
        <2>8. Read(k) = IF s = <<>> THEN NoValue ELSE v[Head(s)]
            BY <2>6 DEF Read
        <2>9. ReadIn(s, v, height) = IF s = <<>> THEN NoValue ELSE v[Head(s)]
            <3>1. \/ ReadIn(s, v, height) = NoValue /\ \A y \in Elems(s) : y > height
                  \/ \E x \in Elems(s) : Newest(s, x, height) /\ ReadIn(s, v, height) = v[x]
                BY <2>3, <2>7, ReadInIs
            <3>2. CASE s = <<>>
                <4>1. Elems(s) = {}
                    BY <3>2 DEF Elems
                <4> QED
                    BY <3>1, <3>2, <4>1
            <3>3. CASE s # <<>>
                <4>1. s \in Seq(Heights) /\ Len(s) \in Nat /\ DOMAIN s = 1..Len(s) /\ 1 \in DOMAIN s
                    BY <2>7, <3>3 DEF Falling
                <4>2. Head(s) = s[1] /\ s[1] \in Elems(s)
                    BY <3>3, <4>1 DEF Elems
                <4>3. Elems(s) \subseteq Nat
                    BY <2>7, ElemsAreHeights
                <4>4. \A y \in Elems(s) : y <= s[1]
                    <5>1. \A i \in DOMAIN s : i # 1 => s[1] > s[i]
                        BY <2>7, <4>1 DEF Falling
                    <5>2. \A i \in DOMAIN s : s[i] \in Nat
                        BY <4>3 DEF Elems
                    <5> QED
                        BY <4>1, <5>1, <5>2 DEF Elems
                <4>5. Newest(s, s[1], height)
                    BY <2>3, <2>7, <4>2, <4>4 DEF Newest
                <4>6. ~\A y \in Elems(s) : y > height
                    BY <2>3, <2>7, <4>2
                <4>7. PICK x \in Elems(s) : Newest(s, x, height) /\ ReadIn(s, v, height) = v[x]
                    BY <3>1, <4>6
                <4>8. x = s[1]
                    BY <2>3, <2>7, <4>5, <4>7, NewestIsOne
                <4> QED
                    BY <3>3, <4>2, <4>7, <4>8
            <3> QED
                BY <3>2, <3>3
        <2>10. ReadAt(k, height) = ReadIn(s, v, height)
            BY <2>6 DEF ReadAt, ReadIn
        <2> QED
            BY <2>2, <2>5, <2>8, <2>9, <2>10
    <1> QED
        BY <1>1, InitWindow, NextWindow, PTL DEF Spec

-----------------------------------------------------------------------------
(* The snapshots of balances *)

\* What slice gives: falling, its last height, and it alone, not above from;
\* and at every height in between it reads as the whole history does.
LEMMA SliceIs ==
    ASSUME NEW s, Falling(s), NEW from \in Nat, from >= 1, NEW to \in Nat, from <= to,
           NEW v, 1 \notin Elems(s) => v[1] = NoValue, NEW t, t = Slice(s, from, to)
    PROVE  /\ Falling(t) /\ Len(t) \in Nat /\ Len(t) >= 1
           /\ t[Len(t)] <= from /\ \A i \in 1..(Len(t) - 1) : t[i] > from
           /\ \A i \in DOMAIN t : t[i] <= to
           /\ \A h \in from..to : \E x \in Elems(t) : Newest(t, x, h) /\ v[x] = ReadIn(s, v, h)
    <1>1. PICK new, old, x : /\ new = Those(s, (from + 1)..to) /\ old = Those(s, 1..from)
                             /\ x = IF old = <<>> THEN 1 ELSE Head(old)
        OBVIOUS
    <1>2. Elems(s) \subseteq Heights /\ Elems(s) \subseteq Nat /\ 1 \in Heights
        BY ElemsAreHeights, BoundsAssumption DEF Heights
    <1>3. Falling(new) /\ Elems(new) = Elems(s) \cap ((from + 1)..to)
        BY <1>1, ThoseOfFalling
    <1>4. \/ old = <<>> /\ \A y \in Elems(s) : y > from
          \/ old # <<>> /\ Newest(s, Head(old), from)
        BY <1>1, HeadIsNewest
    <1>5. x \in Heights /\ x \in Nat /\ x >= 1 /\ x <= from
        <2>1. x \in Heights /\ x <= from
            BY <1>1, <1>2, <1>4 DEF Newest
        <2> QED
            BY <2>1, BoundsAssumption DEF Heights
    <1>6. new \in Seq(Heights) /\ Len(new) \in Nat /\ DOMAIN new = 1..Len(new)
        BY <1>3 DEF Falling
    <1>7. t = Append(new, x)
        BY <1>1, <1>6 DEF Slice
    <1>8. \A y \in Elems(new) : y > x /\ y > from /\ y <= to /\ y \in Nat
        BY <1>2, <1>3, <1>5
    <1>9. Falling(t) /\ Elems(t) = Elems(new) \cup {x}
        BY <1>3, <1>5, <1>7, <1>8, AppendOlder
    <1>10. /\ Len(t) = Len(new) + 1 /\ t[Len(new) + 1] = x
           /\ \A i \in 1..Len(new) : t[i] = new[i]
        BY <1>5, <1>6, <1>7
    <1>11. \A i \in 1..Len(new) : new[i] > from /\ new[i] <= to
        BY <1>6, <1>8 DEF Elems
    <1>12. \A i \in DOMAIN t : t[i] <= to
        <2>1. \A y \in Elems(t) : y <= to
            BY <1>5, <1>8, <1>9
        <2> QED
            BY <2>1 DEF Elems
    <1>13. ASSUME NEW h \in from..to
           PROVE  \E y \in Elems(t) : Newest(t, y, h) /\ v[y] = ReadIn(s, v, h)
        <2>1. h \in Nat /\ h >= from /\ h <= to
            OBVIOUS
        <2>2. \/ ReadIn(s, v, h) = NoValue /\ \A y \in Elems(s) : y > h
              \/ \E y \in Elems(s) : Newest(s, y, h) /\ ReadIn(s, v, h) = v[y]
            BY <2>1, ReadInIs
        <2>3. CASE ReadIn(s, v, h) = NoValue /\ \A y \in Elems(s) : y > h
            <3>1. 1 \notin Elems(s)
                BY <1>2, <2>1, <2>3
            <3>2. old = <<>>
                BY <1>2, <1>4, <2>1, <2>3 DEF Newest
            <3>3. x = 1 /\ v[x] = ReadIn(s, v, h)
                BY <1>1, <2>3, <3>1, <3>2
            <3>4. Newest(t, x, h)
                BY <1>3, <1>5, <1>9, <2>1, <2>3 DEF Newest
            <3> QED
                BY <1>9, <3>3, <3>4
        <2>4. ASSUME NEW y \in Elems(s), Newest(s, y, h), ReadIn(s, v, h) = v[y]
              PROVE  \E z \in Elems(t) : Newest(t, z, h) /\ v[z] = ReadIn(s, v, h)
            <3>1. y <= h /\ \A z \in Elems(s) : z <= h => z <= y
                BY <2>4 DEF Newest
            <3>2. CASE y > from
                <4>1. y \in Elems(new)
                    BY <1>2, <1>3, <2>1, <3>1, <3>2
                <4>2. Newest(t, y, h)
                    BY <1>2, <1>3, <1>5, <1>9, <3>1, <3>2, <4>1 DEF Newest
                <4> QED
                    BY <1>9, <2>4, <4>1, <4>2
            <3>3. CASE y <= from
                <4>1. Newest(s, y, from)
                    BY <1>2, <2>1, <3>1, <3>3 DEF Newest
                <4>2. old # <<>>
                    BY <1>2, <1>4, <3>3
                <4>3. x = y
                    BY <1>1, <1>4, <4>1, <4>2, NewestIsOne
                <4>4. Newest(t, x, h)
                    BY <1>3, <1>5, <1>8, <1>9, <2>1, <3>1, <4>3 DEF Newest
                <4> QED
                    BY <1>9, <2>4, <4>3, <4>4
            <3> QED
                BY <1>2, <3>2, <3>3
        <2> QED
            BY <2>2, <2>3, <2>4
    <1> QED
        BY <1>5, <1>6, <1>9, <1>10, <1>11, <1>12, <1>13

\* The positions merge goes through, one step after the other.
Passes(at, w, l) ==
    /\ \A p : p \in Merge(w, l) <=>
              \E n \in 1..(Len(w) + Len(l)) : p = <<w[at[n][1]], l[at[n][2]]>>
    /\ at[1] = <<1, 1>>
    /\ \A n \in 2..(Len(w) + Len(l)) : at[n] = MergeStep(w, l, at[n - 1][1], at[n - 1][2])

LEMMA MergeIs ==
    ASSUME NEW w, NEW l, Len(w) + Len(l) \in Nat, Len(w) + Len(l) >= 1
    PROVE  \E at : Passes(at, w, l)
    <1> DEFINE N == Len(w) + Len(l)
               Move(p) == MergeStep(w, l, p[1], p[2])
               Is(f, n) == f = [i \in 1..n |-> IF i = 1 THEN <<1, 1>> ELSE Move(f[i - 1])]
               Without == {n \in Nat : n >= 1 /\ ~\E f : Is(f, n)}
    <1>1. ASSUME Without # {} PROVE FALSE
        <2>1. PICK n \in Without : \A k \in Without : n <= k
            <3>1. Without \subseteq Nat
                OBVIOUS
            <3> HIDE DEF Without
            <3> QED
                BY <1>1, <3>1, Least
        <2>2. n \in Nat /\ n >= 1 /\ ~\E f : Is(f, n)
            OBVIOUS
        <2> HIDE DEF Move
        <2>3. CASE n = 1
            <3> DEFINE f == [i \in 1..1 |-> <<1, 1>>]
            <3>1. f = [i \in 1..1 |-> IF i = 1 THEN <<1, 1>> ELSE Move(f[i - 1])]
                OBVIOUS
            <3>2. Is(f, 1)
                BY <3>1
            <3> HIDE DEF f, Is
            <3> QED
                BY <2>2, <2>3, <3>2
        <2>4. CASE n > 1
            <3>1. n - 1 \in Nat /\ n - 1 >= 1 /\ n - 1 \notin Without
                <4> HIDE DEF Without
                <4> QED
                    BY <2>1, <2>2, <2>4
            <3>2. \E f : Is(f, n - 1)
                <4> HIDE DEF Is
                <4> QED
                    BY <3>1
            <3>3. PICK f : Is(f, n - 1)
                BY <3>2
            <3> DEFINE g == [i \in 1..n |-> IF i = n THEN Move(f[n - 1]) ELSE f[i]]
            <3>4. \A i \in 1..n : g[i] = IF i = 1 THEN <<1, 1>> ELSE Move(g[i - 1])
                <4>1. \A i \in 1..(n - 1) : f[i] = IF i = 1 THEN <<1, 1>> ELSE Move(f[i - 1])
                    BY <3>1, <3>3
                <4>2. \A i \in 1..(n - 1) : g[i] = f[i]
                    BY <2>2
                <4>3. g[n] = Move(f[n - 1]) /\ g[n - 1] = f[n - 1]
                    BY <2>2, <2>4, <4>2
                <4> HIDE DEF g
                <4>4. \A i \in 1..n : i = n \/ i \in 1..(n - 1)
                    BY <2>2
                <4>5. \A i \in 1..(n - 1) : i # 1 => i - 1 \in 1..(n - 1)
                    BY <2>2
                <4> QED
                    BY <2>2, <2>4, <4>1, <4>2, <4>3, <4>4, <4>5
            <3>5. Is(g, n)
                <4>1. g = [i \in 1..n |-> g[i]]
                    OBVIOUS
                <4> HIDE DEF g
                <4> QED
                    BY <3>4, <4>1
            <3> HIDE DEF g, Is
            <3> QED
                BY <2>2, <3>5
        <2> QED
            BY <2>2, <2>3, <2>4
    <1>2. \E f : Is(f, N)
        <2> HIDE DEF Is, N
        <2> QED
            BY <1>1 DEF N
    <1>3. PICK f : f = CHOOSE g : Is(g, N)
        OBVIOUS
    <1>4. Is(f, N)
        BY <1>2, <1>3
    <1>5. Merge(w, l) = {<<w[f[n][1]], l[f[n][2]]>> : n \in DOMAIN f}
        BY <1>3 DEF Merge
    <1>6. /\ DOMAIN f = 1..N /\ f[1] = <<1, 1>>
          /\ \A n \in 2..N : f[n] = Move(f[n - 1])
        <2> HIDE DEF Move
        <2> QED
            BY <1>4
    <1>7. Passes(f, w, l)
        BY <1>5, <1>6 DEF Passes
    <1> QED
        BY <1>7

\* The position from which on a falling list is not above h.
Pos(s, i, h) == i \in DOMAIN s /\ s[i] <= h /\ (i # 1 => s[i - 1] > h)

LEMMA PosIsNewest ==
    ASSUME NEW s, Falling(s), NEW h \in Int
    PROVE  /\ \A i : Pos(s, i, h) => Newest(s, s[i], h)
           /\ \A i, x : i \in DOMAIN s /\ x = s[i] /\ Newest(s, x, h) => Pos(s, i, h)
    <1>1. s \in Seq(Heights) /\ Len(s) \in Nat /\ DOMAIN s = 1..Len(s)
        BY DEF Falling
    <1>2. \A i, j \in DOMAIN s : i < j => s[i] > s[j]
        BY DEF Falling
    <1>3. \A i \in DOMAIN s : s[i] \in Int
        BY <1>1, BoundsAssumption DEF Heights
    <1>4. ASSUME NEW i, Pos(s, i, h) PROVE Newest(s, s[i], h)
        <2>1. i \in DOMAIN s /\ s[i] <= h /\ (i # 1 => s[i - 1] > h)
            BY <1>4 DEF Pos
        <2>2. ASSUME NEW j \in DOMAIN s, s[j] <= h PROVE s[j] <= s[i]
            <3>1. CASE j < i
                <4>1. i # 1 /\ i - 1 \in DOMAIN s
                    BY <1>1, <2>1, <3>1
                <4>2. s[i - 1] > h /\ j <= i - 1
                    BY <1>1, <2>1, <3>1, <4>1
                <4>3. s[j] >= s[i - 1]
                    <5>1. CASE j = i - 1
                        BY <1>3, <4>1, <5>1
                    <5>2. CASE j # i - 1
                        <6>1. j < i - 1
                            BY <1>1, <2>1, <4>2, <5>2
                        <6> QED
                            BY <1>2, <1>3, <4>1, <6>1
                    <5> QED
                        BY <5>1, <5>2
                <4> QED
                    BY <1>3, <2>2, <4>1, <4>2, <4>3
            <3>2. CASE j = i
                BY <1>3, <2>1, <3>2
            <3>3. CASE j > i
                BY <1>2, <1>3, <2>1, <3>3
            <3> QED
                BY <1>1, <2>1, <3>1, <3>2, <3>3
        <2> QED
            BY <2>1, <2>2 DEF Newest, Elems
    <1>5. ASSUME NEW i, NEW x, i \in DOMAIN s, x = s[i], Newest(s, x, h) PROVE Pos(s, i, h)
        <2>1. ASSUME i # 1 PROVE s[i - 1] > h
            <3>1. i - 1 \in DOMAIN s /\ i - 1 < i
                BY <1>1, <1>5, <2>1
            <3>2. s[i - 1] > s[i] /\ s[i - 1] \in Int /\ s[i] \in Int
                BY <1>2, <1>3, <1>5, <3>1
            <3>3. s[i - 1] <= h => s[i - 1] <= x
                BY <1>5, <3>1 DEF Newest, Elems
            <3> QED
                BY <1>5, <3>2, <3>3
        <2>2. s[i] <= h
            BY <1>5 DEF Newest
        <2> QED
            BY <1>5, <2>1, <2>2 DEF Pos
    <1> QED
        BY <1>4, <1>5

\* A list as slice gives it.
Sliced(s, from, to) ==
    /\ Falling(s) /\ Len(s) \in Nat /\ Len(s) >= 1
    /\ s[Len(s)] <= from /\ \A i \in 1..(Len(s) - 1) : s[i] > from
    /\ \A i \in DOMAIN s : s[i] <= to

\* A step of merge goes on in the list, or in both, whose height is the greater.
LEMMA MergeStepIs ==
    ASSUME NEW from \in Nat, NEW to \in Nat, NEW w, Sliced(w, from, to), NEW l, Sliced(l, from, to),
           NEW i \in DOMAIN w, NEW j \in DOMAIN l
    PROVE  /\ i = Len(w) /\ j = Len(l) => MergeStep(w, l, i, j) = <<i, j>>
           /\ ~(i = Len(w) /\ j = Len(l)) =>
                /\ MergeStep(w, l, i, j) = <<IF w[i] >= l[j] THEN i + 1 ELSE i,
                                             IF l[j] >= w[i] THEN j + 1 ELSE j>>
                /\ w[i] >= l[j] => w[i] > from /\ i + 1 \in DOMAIN w
                /\ l[j] >= w[i] => l[j] > from /\ j + 1 \in DOMAIN l
    <1>1. /\ Len(w) \in Nat /\ Len(l) \in Nat /\ i \in 1..Len(w) /\ j \in 1..Len(l)
          /\ DOMAIN w = 1..Len(w) /\ DOMAIN l = 1..Len(l)
        BY DEF Sliced, Falling
    <1>2. w[i] \in Nat /\ l[j] \in Nat
        <2>1. w[i] \in Heights /\ l[j] \in Heights
            BY DEF Sliced, Falling
        <2> QED
            BY <2>1, BoundsAssumption DEF Heights
    <1>3. /\ i = Len(w) => w[i] <= from
          /\ j = Len(l) => l[j] <= from
          /\ i < Len(w) => w[i] > from
          /\ j < Len(l) => l[j] > from
        BY <1>1 DEF Sliced
    <1>4. CASE i = Len(w) /\ j = Len(l)
        BY <1>4 DEF MergeStep
    <1>5. CASE i = Len(w) /\ j < Len(l)
        <2>1. w[i] < l[j] /\ ~(w[i] >= l[j])
            BY <1>2, <1>3, <1>5
        <2>2. MergeStep(w, l, i, j) = <<i, j + 1>>
            BY <1>1, <1>5 DEF MergeStep
        <2> QED
            BY <1>1, <1>2, <1>3, <1>5, <2>1, <2>2
    <1>6. CASE i < Len(w) /\ j = Len(l)
        <2>1. l[j] < w[i] /\ ~(l[j] >= w[i])
            BY <1>2, <1>3, <1>6
        <2>2. MergeStep(w, l, i, j) = <<i + 1, j>>
            BY <1>1, <1>6 DEF MergeStep
        <2> QED
            BY <1>1, <1>2, <1>3, <1>6, <2>1, <2>2
    <1>7. CASE i < Len(w) /\ j < Len(l)
        <2>1. /\ w[i] > from /\ l[j] > from /\ i + 1 \in DOMAIN w /\ j + 1 \in DOMAIN l
              /\ i # Len(w) /\ j # Len(l)
            BY <1>1, <1>3, <1>7
        <2>2. CASE w[i] = l[j]
            <3>1. MergeStep(w, l, i, j) = <<i + 1, j + 1>>
                BY <1>2, <1>7, <2>1, <2>2 DEF MergeStep
            <3> QED
                BY <1>2, <2>1, <2>2, <3>1
        <2>3. CASE w[i] > l[j]
            <3>1. MergeStep(w, l, i, j) = <<i + 1, j>>
                BY <1>2, <1>7, <2>1, <2>3 DEF MergeStep
            <3> QED
                BY <1>2, <2>1, <2>3, <3>1
        <2>4. CASE w[i] < l[j]
            <3>1. MergeStep(w, l, i, j) = <<i, j + 1>>
                BY <1>2, <1>7, <2>1, <2>4 DEF MergeStep
            <3> QED
                BY <1>2, <2>1, <2>4, <3>1
        <2> QED
            BY <1>2, <2>2, <2>3, <2>4
    <1> QED
        BY <1>1, <1>4, <1>5, <1>6, <1>7

\* The pairs merge gives are those the two lists stand at at the heights from
\* to: every step goes below the next change of either and no further.
LEMMA MergeVisits ==
    ASSUME NEW from \in Nat, NEW to \in Nat, from <= to,
           NEW w, Sliced(w, from, to), NEW l, Sliced(l, from, to)
    PROVE  /\ \A p \in Merge(w, l) : \E h \in from..to :
                 Newest(w, p[1], h) /\ Newest(l, p[2], h) /\ p = <<p[1], p[2]>>
           /\ \A h \in from..to : \A x, y : Newest(w, x, h) /\ Newest(l, y, h) => <<x, y>> \in Merge(w, l)
    <1> DEFINE N == Len(w) + Len(l)
    <1>1. /\ Len(w) \in Nat /\ Len(l) \in Nat /\ N \in Nat /\ N >= 2
          /\ DOMAIN w = 1..Len(w) /\ DOMAIN l = 1..Len(l) /\ 1 \in DOMAIN w /\ 1 \in DOMAIN l
          /\ Falling(w) /\ Falling(l)
        BY DEF Sliced, Falling
    <1>2. /\ \A i \in DOMAIN w : w[i] \in Nat
          /\ \A i \in DOMAIN l : l[i] \in Nat
        <2>1. /\ \A i \in DOMAIN w : w[i] \in Heights
              /\ \A i \in DOMAIN l : l[i] \in Heights
            BY DEF Sliced, Falling
        <2> QED
            BY <2>1, BoundsAssumption DEF Heights
    <1>3. PICK at : /\ \A p : p \in Merge(w, l) <=>
                          \E n \in 1..N : p = <<w[at[n][1]], l[at[n][2]]>>
                    /\ at[1] = <<1, 1>>
                    /\ \A n \in 2..N : at[n] = MergeStep(w, l, at[n - 1][1], at[n - 1][2])
        <2>1. Len(w) + Len(l) \in Nat /\ Len(w) + Len(l) >= 1
            BY <1>1
        <2>2. \E at : Passes(at, w, l)
            BY <2>1, MergeIs
        <2> QED
            BY <2>2 DEF Passes
    <1> DEFINE Here(n) == \E h \in from..to : Pos(w, at[n][1], h) /\ Pos(l, at[n][2], h)
               Met(n, h) == \E k \in 1..n : Pos(w, at[k][1], h) /\ Pos(l, at[k][2], h)
               Left(n, h) == h < w[at[n][1]] \/ h < l[at[n][2]]
               Ends(n) == at[n][1] = Len(w) /\ at[n][2] = Len(l)
               Good(n) == /\ at[n][1] \in DOMAIN w /\ at[n][2] \in DOMAIN l
                          /\ Here(n)
                          /\ \A h \in from..to : Met(n, h) \/ Left(n, h)
                          /\ Ends(n) \/ at[n][1] + at[n][2] >= n + 1
               Bad == {n \in 1..N : ~Good(n)}
    <1>4. Good(1)
        <2>1. at[1][1] = 1 /\ at[1][2] = 1
            BY <1>3
        <2>2. w[1] <= to /\ l[1] <= to
            BY <1>1 DEF Sliced
        <2>3. Pos(w, 1, to) /\ Pos(l, 1, to)
            BY <1>1, <2>2 DEF Pos
        <2>4. Here(1)
            BY <2>1, <2>3
        <2>5. ASSUME NEW h \in from..to PROVE Met(1, h) \/ Left(1, h)
            <3>1. CASE w[1] <= h /\ l[1] <= h
                <4>1. Pos(w, 1, h) /\ Pos(l, 1, h)
                    BY <1>1, <3>1 DEF Pos
                <4> QED
                    BY <2>1, <4>1
            <3>2. w[1] \in Nat /\ l[1] \in Nat /\ h \in Nat
                BY <1>1, <1>2
            <3>3. CASE ~(w[1] <= h /\ l[1] <= h)
                BY <2>1, <3>2, <3>3
            <3> QED
                BY <3>1, <3>3
        <2>6. at[1][1] + at[1][2] >= 1 + 1
            BY <2>1
        <2> HIDE DEF Here, Met, Left, Ends
        <2> QED
            BY <1>1, <2>1, <2>4, <2>5, <2>6
    <1>5. ASSUME NEW n \in 2..N, Good(n - 1) PROVE Good(n)
        <2>1. PICK i, j : i = at[n - 1][1] /\ j = at[n - 1][2]
            OBVIOUS
        <2>2. n - 1 \in 1..N /\ n \in Nat
            BY <1>1
        <2>3. /\ i \in DOMAIN w /\ j \in DOMAIN l
              /\ \A h \in from..to : Met(n - 1, h) \/ h < w[i] \/ h < l[j]
              /\ (i = Len(w) /\ j = Len(l)) \/ i + j >= n
            BY <1>5, <2>1, <2>2
        <2>4. PICK g \in from..to : Pos(w, i, g) /\ Pos(l, j, g)
            BY <1>5, <2>1
        <2>5. at[n] = MergeStep(w, l, i, j)
            BY <1>3, <2>1
        <2>6. ASSUME NEW h \in from..to, Met(n - 1, h) PROVE Met(n, h)
            BY <1>1, <2>2, <2>6
        <2>7. /\ g \in Nat /\ g >= from /\ g <= to /\ w[i] \in Nat /\ l[j] \in Nat
              /\ w[i] <= g /\ l[j] <= g /\ (i # 1 => w[i - 1] > g) /\ (j # 1 => l[j - 1] > g)
              /\ i \in Nat /\ j \in Nat
            BY <1>1, <1>2, <2>3, <2>4 DEF Pos
        <2>8. CASE i = Len(w) /\ j = Len(l)
            <3>0. MergeStep(w, l, i, j) = <<i, j>>
                <4>1. i \in DOMAIN w /\ j \in DOMAIN l
                    BY <2>3
                <4> HIDE DEF Here, Met, Left, Ends
                <4> QED
                    BY <2>8, <4>1, MergeStepIs
            <3>1. at[n][1] = i /\ at[n][2] = j
                BY <2>5, <3>0
            <3>2. Here(n)
                BY <2>4, <3>1
            <3>3. ASSUME NEW h \in from..to PROVE Met(n, h) \/ Left(n, h)
                BY <2>3, <2>6, <3>1
            <3>4. Ends(n)
                BY <2>8, <3>1
            <3> HIDE DEF Here, Met, Left, Ends
            <3> QED
                BY <2>3, <3>1, <3>2, <3>3, <3>4
        <2>9. CASE ~(i = Len(w) /\ j = Len(l))
            <3>1. PICK a, b : /\ a = IF w[i] >= l[j] THEN i + 1 ELSE i
                              /\ b = IF l[j] >= w[i] THEN j + 1 ELSE j
                OBVIOUS
            <3>2. /\ at[n] = <<a, b>>
                  /\ w[i] >= l[j] => w[i] > from /\ i + 1 \in DOMAIN w
                  /\ l[j] >= w[i] => l[j] > from /\ j + 1 \in DOMAIN l
                BY <2>3, <2>5, <2>9, <3>1, MergeStepIs
            <3>3. at[n][1] = a /\ at[n][2] = b /\ a \in DOMAIN w /\ b \in DOMAIN l
                BY <2>3, <3>1, <3>2
            <3>4. PICK m \in Nat : m = IF w[i] >= l[j] THEN w[i] ELSE l[j]
                BY <2>7
            <3>5. m > from /\ m <= g /\ w[i] <= m /\ l[j] <= m /\ (w[i] = m \/ l[j] = m)
                BY <2>7, <3>2, <3>4
            <3>6. /\ a = IF w[i] = m THEN i + 1 ELSE i
                  /\ b = IF l[j] = m THEN j + 1 ELSE j
                BY <2>7, <3>1, <3>4
            <3>7. w[a] < m /\ (a # 1 => w[a - 1] >= m)
                <4>1. CASE w[i] = m
                    <5>1. a = i + 1 /\ a - 1 = i /\ a \in DOMAIN w /\ i < a
                        BY <2>7, <3>3, <3>6, <4>1
                    <5>2. w[i] > w[a]
                        BY <1>1, <2>3, <5>1 DEF Falling
                    <5> QED
                        BY <1>2, <3>3, <4>1, <5>1, <5>2
                <4>2. CASE w[i] # m
                    <5>1. a = i /\ w[i] < m
                        BY <2>7, <3>5, <3>6, <4>2
                    <5>2. a # 1 => a - 1 \in DOMAIN w
                        BY <1>1, <3>3
                    <5> QED
                        BY <1>2, <2>7, <3>5, <5>1, <5>2
                <4> QED
                    BY <4>1, <4>2
            <3>8. l[b] < m /\ (b # 1 => l[b - 1] >= m)
                <4>1. CASE l[j] = m
                    <5>1. b = j + 1 /\ b - 1 = j /\ b \in DOMAIN l /\ j < b
                        BY <2>7, <3>3, <3>6, <4>1
                    <5>2. l[j] > l[b]
                        BY <1>1, <2>3, <5>1 DEF Falling
                    <5> QED
                        BY <1>2, <3>3, <4>1, <5>1, <5>2
                <4>2. CASE l[j] # m
                    <5>1. b = j /\ l[j] < m
                        BY <2>7, <3>5, <3>6, <4>2
                    <5>2. b # 1 => b - 1 \in DOMAIN l
                        BY <1>1, <3>3
                    <5> QED
                        BY <1>2, <2>7, <3>5, <5>1, <5>2
                <4> QED
                    BY <4>1, <4>2
            <3>9. /\ w[a] \in Nat /\ l[b] \in Nat
                  /\ a # 1 => w[a - 1] \in Nat
                  /\ b # 1 => l[b - 1] \in Nat
                <4>1. (a # 1 => a - 1 \in DOMAIN w) /\ (b # 1 => b - 1 \in DOMAIN l)
                    BY <1>1, <3>3
                <4> QED
                    BY <1>2, <3>3, <4>1
            <3>10. Here(n)
                <4>1. m - 1 \in from..to
                    BY <2>7, <3>5
                <4>2. Pos(w, a, m - 1) /\ Pos(l, b, m - 1)
                    BY <3>3, <3>7, <3>8, <3>9 DEF Pos
                <4> QED
                    BY <3>3, <4>1, <4>2
            <3>11. ASSUME NEW h \in from..to PROVE Met(n, h) \/ Left(n, h)
                <4>1. CASE Met(n - 1, h)
                    BY <2>6, <4>1
                <4>2. CASE (h < w[i] \/ h < l[j]) /\ w[a] <= h /\ l[b] <= h
                    <5>1. h \in Nat /\ h < m
                        BY <2>7, <3>5, <4>2
                    <5>2. Pos(w, a, h) /\ Pos(l, b, h)
                        BY <3>3, <3>7, <3>8, <3>9, <4>2, <5>1 DEF Pos
                    <5>3. n \in 1..n
                        BY <2>2
                    <5> QED
                        BY <3>3, <5>2, <5>3
                <4>3. CASE ~(w[a] <= h /\ l[b] <= h)
                    BY <3>3, <3>9, <4>3
                <4> QED
                    BY <2>3, <4>1, <4>2, <4>3
            <3>12. at[n][1] + at[n][2] >= n + 1
                <4>1. i + j >= n
                    BY <2>3, <2>9
                <4>2. a + b >= i + j + 1
                    BY <2>7, <3>5, <3>6
                <4> QED
                    BY <2>2, <2>7, <3>1, <3>3, <4>1, <4>2
            <3> HIDE DEF Here, Met, Left, Ends
            <3> QED
                BY <3>3, <3>10, <3>11, <3>12
        <2> QED
            BY <2>8, <2>9
    <1> HIDE DEF Good
    <1>6. ASSUME Bad # {} PROVE FALSE
        <2>1. PICK n \in Bad : \A k \in Bad : n <= k
            <3>1. Bad \subseteq Nat
                BY <1>1
            <3> HIDE DEF Bad
            <3> QED
                BY <1>6, <3>1, Least
        <2>2. n \in 1..N /\ ~Good(n)
            OBVIOUS
        <2>3. n # 1 /\ n \in 2..N /\ n - 1 \in 1..N
            BY <1>1, <1>4, <2>2
        <2>4. n - 1 \notin Bad
            <3> HIDE DEF Bad
            <3> QED
                BY <1>1, <2>1, <2>2
        <2> QED
            BY <1>5, <2>2, <2>3, <2>4
    <1>7. \A n \in 1..N : Good(n)
        BY <1>6
    <1>8. ASSUME NEW p \in Merge(w, l)
          PROVE  \E h \in from..to : Newest(w, p[1], h) /\ Newest(l, p[2], h) /\ p = <<p[1], p[2]>>
        <2>1. PICK n \in 1..N : p = <<w[at[n][1]], l[at[n][2]]>>
            BY <1>3
        <2>2. Here(n)
            BY <1>7 DEF Good
        <2>3. PICK h \in from..to : Pos(w, at[n][1], h) /\ Pos(l, at[n][2], h)
            BY <2>2
        <2>4. Newest(w, w[at[n][1]], h) /\ Newest(l, l[at[n][2]], h)
            BY <1>1, <2>3, PosIsNewest
        <2> QED
            BY <2>1, <2>4
    <1>9. ASSUME NEW h \in from..to, NEW x, NEW y, Newest(w, x, h), Newest(l, y, h)
          PROVE  <<x, y>> \in Merge(w, l)
        <2>1. N \in 1..N /\ Good(N)
            BY <1>1, <1>7
        <2>2. PICK i, j : i = at[N][1] /\ j = at[N][2]
            OBVIOUS
        <2>3. /\ i \in DOMAIN w /\ j \in DOMAIN l
              /\ Met(N, h) \/ h < w[i] \/ h < l[j]
              /\ (i = Len(w) /\ j = Len(l)) \/ i + j >= N + 1
            BY <2>1, <2>2 DEF Good
        <2>4. i = Len(w) /\ j = Len(l)
            BY <1>1, <2>3
        <2>5. w[i] <= from /\ l[j] <= from /\ w[i] \in Nat /\ l[j] \in Nat
            BY <1>2, <2>3, <2>4 DEF Sliced
        <2>6. Met(N, h)
            BY <2>3, <2>5
        <2>7. PICK k \in 1..N : Pos(w, at[k][1], h) /\ Pos(l, at[k][2], h)
            BY <2>6
        <2>8. Newest(w, w[at[k][1]], h) /\ Newest(l, l[at[k][2]], h)
            BY <1>1, <2>7, PosIsNewest
        <2>9. x = w[at[k][1]] /\ y = l[at[k][2]]
            BY <1>1, <1>9, <2>8, NewestIsOne
        <2> QED
            BY <1>3, <2>9
    <1> QED
        BY <1>8, <1>9

\* The balances a generating balance is the minimum of are those of the blocks
\* it looks back at: slice and merge skip no state and invent none.
THEOREM SnapshotsAreStates == Spec => []SnapshotsExact
    <1>1. WindowInv => SnapshotsExact
        <2> SUFFICES ASSUME WindowInv,
                            NEW to \in (safeRollbackHeight + 1)..height, NEW from \in 1..height,
                            NEW x \in Addresses, from <= to, from > to - ExtraBalanceDepth
                     PROVE  BalanceSnapshots(x, from, to) =
                              {<<past[h][<<"earths", x>>], past[h][<<"lease", x>>]>> : h \in from..to}
            BY DEF SnapshotsExact
        <2>1. PICK e, l : e = <<"earths", x>> /\ l = <<"lease", x>>
            OBVIOUS
        <2>2. /\ e \in Restored /\ l \in Restored
              /\ ExtraDepth(e) = ExtraBalanceDepth /\ ExtraDepth(l) = ExtraBalanceDepth
            <3>1. e \in Keys /\ l \in Keys
                BY <2>1 DEF Keys, OwnerKinds
            <3>2. e \notin Survivors /\ l \notin Survivors
                BY <2>1 DEF Survivors
            <3> QED
                BY <2>1, <3>1, <3>2 DEF WindowInv, LeftInv, ExtraDepth, Restored
        <2>3. /\ height \in Nat /\ safeRollbackHeight \in Nat /\ ExtraBalanceDepth \in Nat
              /\ from \in Nat /\ from >= 1 /\ to \in Nat /\ to > safeRollbackHeight /\ to <= height
            BY DepthAssumption DEF WindowInv, SafeInv
        <2>4. ASSUME NEW k \in {e, l}
              PROVE  /\ Falling(history[k]) /\ (1 \notin Elems(history[k]) => values[k][1] = NoValue)
                     /\ \A h \in from..to : ReadIn(history[k], values[k], h) = past[h][k]
            <3>1. k \in Restored /\ ExtraDepth(k) = ExtraBalanceDepth
                BY <2>2
            <3>2. \A h \in from..to : h \in 1..height /\ h > safeRollbackHeight - ExtraBalanceDepth
                BY <2>3
            <3>3. \A h \in from..to : ReadAt(k, h) = past[h][k]
                BY <3>1, <3>2 DEF WindowInv, PastReadable
            <3>4. \A h \in from..to : ReadIn(history[k], values[k], h) = past[h][k]
                BY <3>3 DEF ReadAt, ReadIn
            <3> QED
                BY <3>1, <3>4 DEF WindowInv, StoreType, GenesisReadable
        <2>5. PICK s, v, t, u : s = history[e] /\ v = values[e] /\ t = history[l] /\ u = values[l]
            OBVIOUS
        <2>6. /\ Falling(s) /\ (1 \notin Elems(s) => v[1] = NoValue)
              /\ \A h \in from..to : ReadIn(s, v, h) = past[h][e]
            BY <2>4, <2>5
        <2>7. /\ Falling(t) /\ (1 \notin Elems(t) => u[1] = NoValue)
              /\ \A h \in from..to : ReadIn(t, u, h) = past[h][l]
            BY <2>4, <2>5
        <2>8. PICK a, b : a = Slice(s, from, to) /\ b = Slice(t, from, to)
            OBVIOUS
        <2>9. /\ Sliced(a, from, to)
              /\ \A h \in from..to : \E y \in Elems(a) : Newest(a, y, h) /\ v[y] = past[h][e]
            <3>1. \A h \in from..to : \E y \in Elems(a) : Newest(a, y, h) /\ v[y] = ReadIn(s, v, h)
                BY <2>3, <2>6, <2>8, SliceIs
            <3>2. Sliced(a, from, to)
                BY <2>3, <2>6, <2>8, SliceIs DEF Sliced
            <3> QED
                BY <2>6, <3>1, <3>2
        <2>10. /\ Sliced(b, from, to)
               /\ \A h \in from..to : \E y \in Elems(b) : Newest(b, y, h) /\ u[y] = past[h][l]
            <3>1. \A h \in from..to : \E y \in Elems(b) : Newest(b, y, h) /\ u[y] = ReadIn(t, u, h)
                BY <2>3, <2>7, <2>8, SliceIs
            <3>2. Sliced(b, from, to)
                BY <2>3, <2>7, <2>8, SliceIs DEF Sliced
            <3> QED
                BY <2>7, <3>1, <3>2
        <2>11. BalanceSnapshots(x, from, to) = {<<v[p[1]], u[p[2]]>> : p \in Merge(a, b)}
            BY <2>1, <2>5, <2>8 DEF BalanceSnapshots
        <2>12. /\ \A p \in Merge(a, b) : \E h \in from..to :
                     Newest(a, p[1], h) /\ Newest(b, p[2], h) /\ p = <<p[1], p[2]>>
               /\ \A h \in from..to : \A y, z : Newest(a, y, h) /\ Newest(b, z, h) => <<y, z>> \in Merge(a, b)
            BY <2>3, <2>9, <2>10, MergeVisits
        <2>13. Falling(a) /\ Falling(b)
            BY <2>9, <2>10 DEF Sliced
        <2>14. \A h \in from..to : h \in Int
            BY <2>3
        <2>15. ASSUME NEW p \in Merge(a, b)
               PROVE  \E h \in from..to : <<v[p[1]], u[p[2]]>> = <<past[h][e], past[h][l]>>
            <3>1. PICK h \in from..to : Newest(a, p[1], h) /\ Newest(b, p[2], h)
                BY <2>12
            <3>2. PICK y \in Elems(a) : Newest(a, y, h) /\ v[y] = past[h][e]
                BY <2>9
            <3>3. PICK z \in Elems(b) : Newest(b, z, h) /\ u[z] = past[h][l]
                BY <2>10
            <3>4. y = p[1] /\ z = p[2]
                BY <2>13, <2>14, <3>1, <3>2, <3>3, NewestIsOne
            <3> QED
                BY <3>2, <3>3, <3>4
        <2>16. ASSUME NEW h \in from..to
               PROVE  \E p \in Merge(a, b) : <<v[p[1]], u[p[2]]>> = <<past[h][e], past[h][l]>>
            <3>1. PICK y \in Elems(a) : Newest(a, y, h) /\ v[y] = past[h][e]
                BY <2>9
            <3>2. PICK z \in Elems(b) : Newest(b, z, h) /\ u[z] = past[h][l]
                BY <2>10
            <3>3. <<y, z>> \in Merge(a, b)
                BY <2>12, <3>1, <3>2
            <3> QED
                BY <3>1, <3>2, <3>3
        <2>17. {<<v[p[1]], u[p[2]]>> : p \in Merge(a, b)} = {<<past[h][e], past[h][l]>> : h \in from..to}
            BY <2>15, <2>16
        <2> QED
            BY <2>1, <2>11, <2>17
    <1> QED
        BY <1>1, InitWindow, NextWindow, PTL DEF Spec
=============================================================================
