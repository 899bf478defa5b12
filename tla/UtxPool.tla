------------------------------ MODULE UtxPool ------------------------------
(***************************************************************************)
(* The pool of unconfirmed transactions, utx/UtxPoolImpl.scala, in the     *)
(* steps its threads see each other take: two concurrent maps of the       *)
(* pessimistic portfolios and the map of the transactions, each accessed   *)
(* on its own, with no lock around an operation.                           *)
(*                                                                         *)
(* The appender thread changes the chain under the pool, and its readers   *)
(* see that half way: processBlock persists the referenced part of the     *)
(* liquid block before it replaces the liquid block, so that for a moment  *)
(* those transactions count twice (BlockchainUpdaterImpl).                 *)
(***************************************************************************)
EXTENDS Integers, Sequences, SequencesExt, FiniteSets, FiniteSetsExt

CONSTANTS
  Txs, Addresses,
  Effect,       \* Effect[t][S][a]: what transaction t does to the balance of a on top
                \* of a chain with transactions S (an invocation depends on the state)
  Initial,      \* balances before any transaction
  Submitted,    \* transactions that are sent to this node, the others come in blocks
  Old,          \* transactions with a time stamp so early that they may expire
  MaxSize,      \* utxSettings.maxSize
  Putters,      \* threads that put: the API's, the UTX synchronizer, the matcher's
  Cleaners,     \* threads that remove what is invalid: the pool's cleanup
  Miners,       \* threads that pack blocks
  Ranked,       \* TransactionsOrdering.InUTXPool: the transactions, the best first
  Appender,     \* the appender thread, which does both
  NoTx

Threads == Putters \cup Cleaners \cup Miners \cup {Appender}

ASSUME ConstantsAssumption ==
  /\ IsFiniteSet(Threads) /\ Appender \notin Putters
  /\ MaxSize \in Nat \ {0} /\ Old \subseteq Txs /\ Submitted \subseteq Txs
  /\ NoTx \notin Txs /\ Ranked \in Seq(Txs)

VARIABLES
  persisted,    \* the transactions in LevelDB, in their order
  liquid,       \* those of the liquid block
  block,        \* the transaction of the key block processBlock is about to install
  pool,         \* transactions
  portfolios,   \* PessimisticPortfolios.transactionPortfolios: the accounts that a
                \* transaction takes from, none if it has no portfolios there
  counted,      \* PessimisticPortfolios.transactions: the ids of an address
  op,           \* what each thread is doing: [at, tx, left, seen]
  todo,         \* what it has to do after that: a sequence of [type, tx]
  diffs,        \* auxiliary: what the puts of a transaction took from since it was
                \* forgotten last, a set of sets of accounts
  raced         \* auxiliary: were two operations ever at work on one transaction or
                \* account at once?

chain == <<persisted, liquid, block>>
maps == <<pool, portfolios, counted, diffs>>
vars == <<chain, maps, op, todo, raced>>

Steps == {"idle", "harden", "validate", "add", "count", "insert", "forget", "uncount"}
Op(at, t, left) == [at |-> at, tx |-> t, left |-> left, seen |-> {}]
NoOp == Op("idle", NoTx, <<>>)

\* The accounts that a transaction may take from, whatever the chain.
Touched(t) == {a \in Addresses : \E S \in SUBSET Txs : Effect[t][S][a] < 0}

\* A transaction touches finitely many accounts.
ASSUME EffectAssumption ==
  /\ Effect \in [Txs -> [SUBSET Txs -> [Addresses -> Int]]]
  /\ \A t \in Txs : IsFiniteSet(Touched(t))

Add(t) == [type |-> "put", tx |-> t]
Drop(t) == [type |-> "remove", tx |-> t]
Expire == [type |-> "expire", tx |-> NoTx]
Pack == [type |-> "pack", tx |-> NoTx]

Init ==
  /\ persisted = <<>> /\ liquid = <<>> /\ block = NoTx
  /\ pool = {}
  /\ portfolios = [t \in Txs |-> {}]
  /\ counted = [a \in Addresses |-> {}]
  /\ op = [th \in Threads |-> NoOp]
  /\ todo = [th \in Threads |-> <<>>]
  /\ diffs = [t \in Txs |-> {}]
  /\ raced = FALSE

-----------------------------------------------------------------------------
(* The chain as a reader sees it: its transactions and the balances.  What a *)
(* transaction does depends on those before it.                              *)

Genesis == [txs |-> {}, balance |-> Initial]

Apply(l, t) ==
  [txs     |-> l.txs \cup {t},
   balance |-> [a \in Addresses |-> l.balance[a] + Effect[t][l.txs][a]]]

ApplyAll(l, s) == FoldLeft(Apply, l, s)

\* What Diff.portfolios.pessimistic keeps: the accounts it takes from.
Takes(l, t) == {a \in Addresses : Effect[t][l.txs][a] < 0}

\* TransactionDiffer: not in the chain, and nobody's balance becomes negative.
Accepts(l, t) == t \notin l.txs /\ \A a \in Takes(l, t) : l.balance[a] + Effect[t][l.txs][a] >= 0

\* The diff of the liquid block on top of what is persisted.  While a block is being
\* hardened its transactions are in both, and count twice.
Seen ==
  LET all  == ApplyAll(Genesis, persisted)
      base == ApplyAll(Genesis, SelectSeq(persisted, LAMBDA t : ~Contains(liquid, t)))
      top  == ApplyAll(base, liquid)
  IN  [txs     |-> ToSet(persisted) \cup ToSet(liquid),
       balance |-> [a \in Addresses |-> all.balance[a] + top.balance[a] - base.balance[a]]]

\* Other transactions of the pool do not count.
Valid(t) == Accepts(Seen, t)

-----------------------------------------------------------------------------
(* putIfNew *)

Idle(th) == op[th].at = "idle" /\ todo[th] = <<>>
At(th, step) == op[th].at = step
Goto(th, o) == op' = [op EXCEPT ![th] = o]

\* Bug: one more than the limit.
HasRoom_Inclusive == Cardinality(pool) <= MaxSize

HasRoom == Cardinality(pool) < MaxSize

\* The next put.  The size is compared with the limit; the limit in bytes, the
\* blacklist, a script of the sender or a claimed alias may refuse it as well.
BeginPut(th) ==
  /\ At(th, "idle") /\ todo[th] # <<>> /\ Head(todo[th]).type = "put"
  /\ todo' = [todo EXCEPT ![th] = Tail(@)]
  /\ \/ HasRoom /\ Goto(th, Op("validate", Head(todo[th]).tx, <<>>))
     \/ Goto(th, NoOp)
  /\ UNCHANGED <<chain, maps>>

\* The next removal: a transaction leaves the pool before its portfolios go.
BeginRemove(th) ==
  /\ At(th, "idle") /\ todo[th] # <<>> /\ Head(todo[th]).type = "remove"
  /\ todo' = [todo EXCEPT ![th] = Tail(@)]
  /\ pool' = pool \ {Head(todo[th]).tx}
  /\ Goto(th, Op("forget", Head(todo[th]).tx, <<>>))
  /\ UNCHANGED <<chain, portfolios, counted, diffs>>

\* The diff is computed on the chain of this moment.
Validate(th) ==
  LET t == op[th].tx IN
  /\ At(th, "validate")
  /\ Goto(th, IF Valid(t) THEN Op("add", t, SetToSeq(Takes(Seen, t))) ELSE NoOp)
  /\ UNCHANGED <<chain, maps, todo>>

\* PessimisticPortfolios.add: what is not empty takes the place of the portfolios
\* that are there; the sets of the accounts are only touched when there were none.
AddPortfolios(th) ==
  LET t == op[th].tx
      d == ToSet(op[th].left) IN
  /\ At(th, "add")
  /\ portfolios' = IF d = {} THEN portfolios ELSE [portfolios EXCEPT ![t] = d]
  /\ diffs' = [diffs EXCEPT ![t] = @ \cup {d}]
  /\ Goto(th, IF d = {} \/ portfolios[t] # {} THEN Op("insert", t, <<>>)
              ELSE Op("count", t, op[th].left))
  /\ UNCHANGED <<chain, pool, counted, todo>>

\* The set of an address is read ...
ReadSet(th) ==
  /\ At(th, "count") /\ op[th].seen = {}
  /\ Goto(th, [op[th] EXCEPT !.left = Tail(@),
                             !.seen = {[of |-> Head(op[th].left),
                                        ids |-> counted[Head(op[th].left)]]}])
  /\ UNCHANGED <<chain, maps, todo>>

\* Bug: the other transactions of the address are forgotten.
WriteSet_Replaces(th) ==
  /\ At(th, "count")
  /\ \E s \in op[th].seen : counted' = [counted EXCEPT ![s.of] = {op[th].tx}]
  /\ Goto(th, IF op[th].left = <<>> THEN Op("insert", op[th].tx, <<>>)
              ELSE [op[th] EXCEPT !.seen = {}])
  /\ UNCHANGED <<chain, pool, portfolios, diffs, todo>>

\* ... and put back with the transaction in it.
WriteSet(th) ==
  /\ At(th, "count")
  /\ \E s \in op[th].seen : counted' = [counted EXCEPT ![s.of] = s.ids \cup {op[th].tx}]
  /\ Goto(th, IF op[th].left = <<>> THEN Op("insert", op[th].tx, <<>>)
              ELSE [op[th] EXCEPT !.seen = {}])
  /\ UNCHANGED <<chain, pool, portfolios, diffs, todo>>

\* Bug: the limit is compared again, and what was added stays behind.
Insert_IfRoom(th) ==
  /\ At(th, "insert")
  /\ pool' = IF HasRoom THEN pool \cup {op[th].tx} ELSE pool
  /\ Goto(th, NoOp)
  /\ UNCHANGED <<chain, portfolios, counted, diffs, todo>>

Insert(th) ==
  /\ At(th, "insert")
  /\ pool' = pool \cup {op[th].tx}
  /\ Goto(th, NoOp)
  /\ UNCHANGED <<chain, portfolios, counted, diffs, todo>>

-----------------------------------------------------------------------------
(* remove, after the transaction has left the pool *)

\* PessimisticPortfolios.remove
Forget(th) ==
  LET t == op[th].tx IN
  /\ At(th, "forget")
  /\ portfolios' = [portfolios EXCEPT ![t] = {}]
  /\ diffs' = [diffs EXCEPT ![t] = {}]
  /\ Goto(th, IF portfolios[t] = {} THEN NoOp ELSE Op("uncount", t, SetToSeq(portfolios[t])))
  /\ UNCHANGED <<chain, pool, counted, todo>>

\* computeIfPresent: atomic, unlike the read and the write of add.
Uncount(th) ==
  /\ At(th, "uncount")
  /\ counted' = [counted EXCEPT ![Head(op[th].left)] = @ \ {op[th].tx}]
  /\ Goto(th, IF Len(op[th].left) = 1 THEN NoOp ELSE [op[th] EXCEPT !.left = Tail(@)])
  /\ UNCHANGED <<chain, pool, portfolios, diffs, todo>>

Removals(S) == LET s == SetToSeq(S) IN [i \in DOMAIN s |-> Drop(s[i])]

\* removeExpired: a transaction may be too old at any time.
RemoveExpired(th, old) ==
  /\ At(th, "idle") /\ todo[th] # <<>> /\ Head(todo[th]) = Expire
  /\ todo' = [todo EXCEPT ![th] = Removals(old) \o Tail(@)]
  /\ UNCHANGED <<chain, maps, op>>

\* What the chain and the better transactions of a set that are valid come to.
PackedBefore(t, txs) ==
  LET Place(l, u) == IF u \in txs /\ Accepts(l, u) THEN Apply(l, u) ELSE l
      n == SelectInSeq(Ranked, LAMBDA u : u = t)
  IN  FoldLeft(Place, Seen, SubSeq(Ranked, 1, n - 1))

\* The rest of packUnconfirmed: what is invalid on top of the better ones is removed.
\* It passes over a transaction that the block has no room for.
RemoveUnpackable(th, passed) ==
  LET tried == pool \ passed IN
  /\ At(th, "idle") /\ todo[th] # <<>> /\ Head(todo[th]) = Pack
  /\ todo' = [todo EXCEPT ![th] =
       Removals({t \in tried : ~Accepts(PackedBefore(t, tried), t)}) \o Tail(@)]
  /\ UNCHANGED <<chain, maps, op>>

-----------------------------------------------------------------------------
(* Who calls them *)

\* The API, the UTX synchronizer and the matcher.
PutIfNew(th, t) ==
  /\ th \in Putters /\ Idle(th)
  /\ todo' = [todo EXCEPT ![th] = <<Add(t)>>]
  /\ UNCHANGED <<chain, maps, op>>

\* Bug: only what has been confirmed is cleaned up.
Invalid_Confirmed == {t \in pool : t \in Seen.txs}

Invalid == {t \in pool : ~Valid(t)}

\* removeInvalid: judged on the chain of that moment, removed one by one.
RemoveInvalid(th) ==
  /\ th \in Cleaners /\ Idle(th) /\ pool # {}
  /\ todo' = [todo EXCEPT ![th] = Append(Removals(Invalid), Expire)]
  /\ UNCHANGED <<chain, maps, op>>

\* packUnconfirmed
PackUnconfirmed(th) ==
  /\ th \in Miners /\ Idle(th) /\ pool # {}
  /\ todo' = [todo EXCEPT ![th] = <<Expire, Pack>>]
  /\ UNCHANGED <<chain, maps, op>>

-----------------------------------------------------------------------------
(* The appender thread *)

AppenderIdle == Idle(Appender)

PutBack(discarded) == [i \in DOMAIN discarded |-> Add(discarded[i])]

\* What it does to the pool after a block with transaction t (or none) that
\* discards those.
AfterBlock(t, discarded) ==
  (IF t = NoTx THEN <<>> ELSE <<Drop(t)>>) \o <<Expire>>
    \o PutBack(discarded)

\* Valid on top of the first n transactions of the liquid block.
ValidAt(t, n) == Accepts(ApplyAll(Genesis, persisted \o SubSeq(liquid, 1, n)), t)

\* processMicroBlock and MicroblockAppender.
AppendMicroBlock(t) ==
  /\ AppenderIdle
  /\ ValidAt(t, Len(liquid))
  /\ liquid' = Append(liquid, t)
  /\ todo' = [todo EXCEPT ![Appender] = <<Drop(t), Expire>>]
  /\ UNCHANGED <<persisted, block, maps, op>>

\* processBlock: a key block on top of the first n transactions of the liquid
\* block; these are persisted ...
Harden(t, n) ==
  /\ AppenderIdle
  /\ t # NoTx => ValidAt(t, n)
  /\ persisted' = persisted \o SubSeq(liquid, 1, n)
  /\ block' = t
  /\ Goto(Appender, Op("harden", NoTx, <<>>))
  /\ todo' = [todo EXCEPT ![Appender] = AfterBlock(t, SubSeq(liquid, n + 1, Len(liquid)))]
  /\ UNCHANGED <<liquid, maps>>

\* ... and then the liquid block is replaced.
ReplaceLiquid ==
  /\ At(Appender, "harden")
  /\ liquid' = IF block = NoTx THEN <<>> ELSE <<block>>
  /\ block' = NoTx
  /\ Goto(Appender, NoOp)
  /\ UNCHANGED <<persisted, maps, todo>>

\* A fork without transactions (ExtensionAppender): what removeAfter returns is put
\* back at the end.  After a rollback of the debug API another thread puts it back,
\* as PutIfNew does.
RemoveAfter(n) ==
  /\ AppenderIdle
  /\ persisted' = SubSeq(persisted, 1, n)
  /\ liquid' = <<>>
  /\ todo' = [todo EXCEPT ![Appender] =
                PutBack(SubSeq(persisted, n + 1, Len(persisted)) \o liquid)]
  /\ UNCHANGED <<block, maps, op>>

-----------------------------------------------------------------------------
Step(th) ==
  \/ BeginPut(th) \/ Validate(th) \/ AddPortfolios(th) \/ ReadSet(th) \/ WriteSet(th)
  \/ Insert(th) \/ BeginRemove(th) \/ Forget(th) \/ Uncount(th)
  \/ \E old \in SUBSET (Old \cap pool) : RemoveExpired(th, old)
  \/ \E passed \in SUBSET pool : RemoveUnpackable(th, passed)

\* The appender thread's next task, none of them while it has one.
ChainChanges ==
  \/ \E t \in Txs : AppendMicroBlock(t)
  \/ \E t \in Txs \cup {NoTx}, n \in 0 .. Len(liquid) : Harden(t, n)
  \/ \E n \in 0 .. Len(persisted) : RemoveAfter(n)

\* The operations that are changing the portfolios or the pool right now.
AtWork(th) == op[th].at \in {"count", "insert", "forget", "uncount"}

RacingNow ==
  \E x, y \in Threads :
    /\ x # y /\ AtWork(x) /\ AtWork(y)
    /\ op[x].tx = op[y].tx \/ Touched(op[x].tx) \cap Touched(op[y].tx) # {}

Track == raced' = (raced \/ RacingNow')

Next ==
  /\ \/ \E th \in Threads : Step(th)
     \/ ReplaceLiquid
     \/ \E th \in Putters, t \in Submitted : PutIfNew(th, t)
     \/ \E th \in Cleaners : RemoveInvalid(th)
     \/ \E th \in Miners : PackUnconfirmed(th)
     \/ ChainChanges
  /\ Track

Spec == Init /\ [][Next]_vars

\* The cleanup comes round again, and finishes what it has begun; the others may stop
\* anywhere.
Cleanup(th) == (Step(th) \/ RemoveInvalid(th)) /\ Track

FairSpec == Spec /\ \A th \in Cleaners : WF_vars(Cleanup(th))

-----------------------------------------------------------------------------
\* What getAggregated counts for an address.
Pending(a) == {t \in counted[a] : a \in portfolios[t]}

Quiet == \A th \in Threads : op[th].at \in {"idle", "harden", "validate"}

\* The pending balance of an account never counts a transaction that is no longer
\* in the pool, whatever puts and removals of the same transaction crossed and
\* whatever its diff was at each: such a ghost would hold the money of the account
\* for ever, for only a transaction in the pool is ever removed.
NoGhosts ==
  Quiet => \A a \in Addresses : Pending(a) \subseteq {t \in pool : a \in Touched(t)}

\* A transaction in the pool is counted for exactly the accounts that its diff takes
\* from, if that has been the same at every put since it came, unless two operations
\* were once at work on one transaction or account at the same time.  These are the
\* two ways to lose one: an update of the set of an account that is lost, and a
\* second put of an invocation that takes from other accounts than the first, whose
\* portfolios are replaced while the sets of the accounts stay as they are.
PendingExact ==
  Quiet /\ ~raced =>
    \A t \in pool : \E d \in diffs[t] :
      diffs[t] = {d} => {a \in Addresses : t \in Pending(a)} = d

\* The size is compared with the limit long before the transaction is inserted: the
\* pool, with what is on its way into it, can exceed the limit by one transaction
\* for each further thread that puts.
WithinLimit ==
  LET past == {th \in Threads : op[th].at \in {"validate", "add", "count", "insert"}}
  IN  Cardinality(pool) + Cardinality(past) <= MaxSize + Cardinality(Putters)

\* No transaction stays in the pool invalid for ever, whatever let it in: it was
\* confirmed between its validation and its insertion, or it was validated on a
\* block whose transactions counted twice.
InvalidLeaves == \A t \in Txs : []<>(t \in pool => Valid(t))
=============================================================================
