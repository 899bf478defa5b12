--------------------------- MODULE UtxPoolProofs ---------------------------
(***************************************************************************)
(* For any number of threads, transactions and accounts: the pending       *)
(* balances count no transaction that has left the pool, and every one in  *)
(* it exactly, unless its diff changed from one put to the next or two     *)
(* operations were at work on one transaction or account at once; and the  *)
(* pool exceeds its limit by at most one transaction for each further      *)
(* thread that puts.                                                       *)
(***************************************************************************)
EXTENDS UtxPool, SequenceTheorems, FiniteSetTheorems, TLAPS

Adds == {Add(t) : t \in Txs}
Drops == {Drop(t) : t \in Txs} \cup {Expire, Pack}

\* Who ever puts, and who is past the comparison with the limit.
Putting == Putters \cup {Appender}
Before == {"validate", "add", "count", "insert"}
Removing == {"forget", "uncount"}
Past == {th \in Threads : op[th].at \in Before}

\* What an account's set may hold.
Takers(a) == {t \in Txs : a \in Touched(t)}

SeenSets == [of : Addresses, ids : SUBSET Txs]
Ops == [at : Steps, tx : Txs \cup {NoTx}, left : Seq(Addresses), seen : SUBSET SeenSets]

Types ==
  /\ persisted \in Seq(Txs) /\ liquid \in Seq(Txs) /\ block \in Txs \cup {NoTx}
  /\ pool \in SUBSET Txs /\ IsFiniteSet(pool)
  /\ portfolios \in [Txs -> SUBSET Addresses] /\ \A t \in Txs : portfolios[t] \subseteq Touched(t)
  /\ diffs \in [Txs -> SUBSET SUBSET Addresses]
  /\ counted \in [Addresses -> SUBSET Txs]
  /\ op \in [Threads -> Ops]
  /\ \A th \in Threads : op[th].at \in Before \cup Removing => op[th].tx \in Txs
  /\ todo \in [Threads -> Seq(Drops \cup Adds)]

\* Threads that only remove have nothing to put.
OnlyDrops ==
  \A th \in Threads \ Putting : todo[th] \in Seq(Drops) /\ op[th].at \notin Before

\* A thread that changes the set of an account changes the right one.
SetsRight ==
  /\ \A a \in Addresses : counted[a] \subseteq Takers(a)
  /\ \A th \in Threads : op[th].at = "uncount" => op[th].left # <<>>
  /\ \A th \in Threads : op[th].at = "add" => op[th].left \in Seq(Touched(op[th].tx))
  /\ \A th \in Threads : op[th].at = "count" =>
       /\ op[th].left \in Seq(Touched(op[th].tx))
       /\ op[th].seen = {} => op[th].left # <<>>
       /\ \A s \in op[th].seen : s.of \in Touched(op[th].tx) /\ s.ids \subseteq Takers(s.of)

\* Portfolios belong to a transaction in the pool, or one about to enter or leave it.
Owned ==
  \A t \in Txs : portfolios[t] # {} =>
    t \in pool \/ \E th \in Threads : op[th].tx = t /\ op[th].at \in {"count", "insert", "forget"}

\* Each thread past the comparison may still insert one transaction.
Room == Cardinality(pool) + Cardinality(Past) <= MaxSize + Cardinality(Putters)

-----------------------------------------------------------------------------
(* Sequences *)

\* SetToSeq of a finite set is a sequence of its elements, empty only if it is.
LEMMA SetToSeqType ==
  ASSUME NEW S, IsFiniteSet(S)
  PROVE  SetToSeq(S) \in Seq(S) /\ (S # {} => SetToSeq(S) # <<>>)
<1>1. PICK f : f \in Bijection(1 .. Cardinality(S), S)
  BY FS_CardinalityType DEF ExistsBijection
<1>2. Cardinality(S) \in Nat
  BY FS_CardinalityType
<1>3. f \in [1 .. Cardinality(S) -> S] /\ IsInjective(f)
  BY <1>1 DEF Bijection, Injection, Surjection, IsInjective
<1>4. SetToSeq(S) \in [1 .. Cardinality(S) -> S]
  BY <1>3 DEF SetToSeq
<1>5. SetToSeq(S) \in Seq(S)
  BY <1>2, <1>4, SeqDef
<1>6. S # {} => Cardinality(S) # 0
  BY FS_EmptySet
<1>7. S # {} => SetToSeq(S) # <<>>
  <2>1. ASSUME SetToSeq(S) = <<>>, Cardinality(S) # 0 PROVE FALSE
    <3>1. DOMAIN SetToSeq(S) = 1 .. Cardinality(S)
      BY <1>4
    <3>2. DOMAIN SetToSeq(S) = {}
      BY <2>1
    <3>3. 1 \in 1 .. Cardinality(S)
      BY <1>2, <2>1
    <3> QED BY <3>1, <3>2, <3>3
  <2> QED BY <2>1, <1>6
<1> QED BY <1>5, <1>7

\* What is first and what is left.
LEMMA HeadTail ==
  ASSUME NEW S, NEW s \in Seq(S), s # <<>>
  PROVE  Head(s) \in S /\ Tail(s) \in Seq(S) /\ (Len(s) # 1 => Tail(s) # <<>>)
<1>1. Len(s) \in Nat \ {0}
  BY EmptySeq
<1>2. Head(s) \in S /\ Tail(s) \in Seq(S) /\ Len(Tail(s)) = Len(s) - 1
  BY <1>1
<1>3. ASSUME Tail(s) = <<>> PROVE Len(s) = 1
  <2>1. Len(<<>>) = 0
    BY EmptySeq
  <2>2. Len(s) - 1 = 0
    BY <1>2, <1>3, <2>1
  <2> QED BY <1>1, <2>2
<1> QED BY <1>2, <1>3

\* A function on the domain of a sequence is a sequence.
LEMMA SeqOver ==
  ASSUME NEW S, NEW T, NEW s \in Seq(S), NEW f, f = [i \in DOMAIN s |-> f[i]],
         \A i \in DOMAIN s : f[i] \in T
  PROVE  f \in Seq(T)
<1>1. DOMAIN s = 1 .. Len(s) /\ Len(s) \in Nat
  OBVIOUS
<1> QED BY <1>1, SeqDef

\* What is removed after a sweep are removals.
LEMMA RemovalsType ==
  ASSUME NEW S \in SUBSET Txs, IsFiniteSet(S)
  PROVE  Removals(S) \in Seq(Drops)
<1>1. SetToSeq(S) \in Seq(S)
  BY SetToSeqType
<1>2. \A i \in DOMAIN SetToSeq(S) : SetToSeq(S)[i] \in Txs
  BY <1>1, ElementOfSeq
<1>3. \A i \in DOMAIN SetToSeq(S) : Drop(SetToSeq(S)[i]) \in Drops
  BY <1>2 DEF Drops
<1> QED BY <1>1, <1>3, SeqOver DEF Removals

\* What is put back are transactions to add.
LEMMA PutBackType ==
  ASSUME NEW s \in Seq(Txs)
  PROVE  PutBack(s) \in Seq(Adds)
<1>1. \A i \in DOMAIN s : Add(s[i]) \in Adds
  BY ElementOfSeq DEF Adds
<1> QED BY <1>1, SeqOver DEF PutBack

\* What the appender thread does after a block.
LEMMA AfterBlockType ==
  ASSUME NEW t \in Txs \cup {NoTx}, NEW s \in Seq(Txs)
  PROVE  AfterBlock(t, s) \in Seq(Drops \cup Adds)
<1>1. PutBack(s) \in Seq(Drops \cup Adds)
  BY PutBackType, SeqMonotonic
<1>2. (t # NoTx => <<Drop(t)>> \in Seq(Drops \cup Adds)) /\ <<Expire>> \in Seq(Drops \cup Adds)
  BY DEF Drops
<1>3. (IF t = NoTx THEN <<>> ELSE <<Drop(t)>>) \in Seq(Drops \cup Adds)
  BY <1>2, EmptySeq
<1> QED BY <1>1, <1>2, <1>3, ConcatProperties DEF AfterBlock

-----------------------------------------------------------------------------
(* The invariant *)

LEMMA TypesInit == Init => Types
<1> SUFFICES ASSUME Init PROVE Types
  OBVIOUS
<1>1. NoOp \in Ops
  BY DEF NoOp, Op, Ops, Steps
<1>2. IsFiniteSet({})
  BY FS_EmptySet
<1>3. op \in [Threads -> Ops] /\ \A th \in Threads : op[th].at = "idle"
  BY <1>1 DEF Init, NoOp, Op
<1>4. /\ persisted \in Seq(Txs) /\ liquid \in Seq(Txs)
      /\ todo \in [Threads -> Seq(Drops \cup Adds)]
      /\ portfolios \in [Txs -> SUBSET Addresses] /\ diffs \in [Txs -> SUBSET SUBSET Addresses]
      /\ \A t \in Txs : portfolios[t] = {}
  BY EmptySeq DEF Init
<1> QED BY <1>2, <1>3, <1>4 DEF Init, Types, Before, Removing

\* What a thread may be doing next.
LEMMA OpType ==
  /\ \A at \in Steps, t \in Txs \cup {NoTx}, left \in Seq(Addresses) : Op(at, t, left) \in Ops
  /\ \A at \in Steps, t \in Txs \cup {NoTx} : Op(at, t, <<>>) \in Ops
  /\ NoOp \in Ops
BY EmptySeq DEF Op, Ops, NoOp, Steps

OpsTyped ==
  /\ op \in [Threads -> Ops]
  /\ \A th \in Threads : op[th].at \in Before \cup Removing => op[th].tx \in Txs

\* A thread goes on to what is well typed.
LEMMA GotoType ==
  ASSUME Types, NEW th \in Threads, NEW o \in Ops, Goto(th, o),
         o.at \in Before \cup Removing => o.tx \in Txs
  PROVE  OpsTyped'
BY DEF Types, Goto, OpsTyped

\* Accounts that a transaction may take from, in some order.
LEMMA TouchedType ==
  ASSUME NEW t \in Txs, NEW A \in SUBSET Touched(t)
  PROVE  /\ SetToSeq(A) \in Seq(Touched(t)) /\ SetToSeq(A) \in Seq(Addresses)
         /\ A # {} => SetToSeq(A) # <<>>
<1>1. IsFiniteSet(A) /\ Touched(t) \subseteq Addresses
  BY EffectAssumption, FS_Subset DEF Touched
<1>2. SetToSeq(A) \in Seq(A) /\ (A # {} => SetToSeq(A) # <<>>)
  BY <1>1, SetToSeqType
<1> QED BY <1>1, <1>2, SeqMonotonic

\* What the diff of a transaction takes from, as a reader of the chain computes it.
LEMMA TakesType ==
  ASSUME NEW t \in Txs, persisted \in Seq(Txs), liquid \in Seq(Txs)
  PROVE  Takes(Seen, t) \in SUBSET Touched(t)
<1>1. Seen.txs = ToSet(persisted) \cup ToSet(liquid)
  BY DEF Seen
<1>2. \A s \in Seq(Txs) : ToSet(s) \subseteq Txs
  <2>1. \A s \in Seq(Txs) : \A i \in DOMAIN s : s[i] \in Txs
    BY ElementOfSeq
  <2> QED BY <2>1 DEF ToSet
<1> QED BY <1>1, <1>2 DEF Takes, Touched

\* The elements of a sequence.
LEMMA ToSetType ==
  ASSUME NEW S, NEW s \in Seq(S)
  PROVE  ToSet(s) \in SUBSET S
<1>1. \A i \in DOMAIN s : s[i] \in S
  BY ElementOfSeq
<1> QED BY <1>1 DEF ToSet

\* The steps of a thread on its own data.
LEMMA TypesStep ==
  ASSUME Types, SetsRight, NEW th \in Threads, Step(th)
  PROVE  Types'
<1> USE DEF Types
<1>0. op' = op => OpsTyped'
  BY DEF OpsTyped
<1>1. CASE BeginPut(th)
  <2>1. Head(todo[th]) \in Drops \cup Adds /\ Tail(todo[th]) \in Seq(Drops \cup Adds)
    BY <1>1 DEF BeginPut
  <2>2. Head(todo[th]).tx \in Txs
    BY <1>1, <2>1 DEF BeginPut, Drops, Adds, Add, Drop, Expire, Pack
  <2>3. todo' \in [Threads -> Seq(Drops \cup Adds)]
    BY <1>1, <2>1 DEF BeginPut
  <2>4. PICK o \in {Op("validate", Head(todo[th]).tx, <<>>), NoOp} : Goto(th, o)
    BY <1>1 DEF BeginPut
  <2>5. o \in Ops
    BY <2>2, <2>4, OpType DEF Steps
  <2>6. o.at \in Before \cup Removing => o.tx \in Txs
    BY <2>2, <2>4 DEF Op, NoOp, Before, Removing
  <2>7. OpsTyped'
    BY <2>4, <2>5, <2>6, GotoType
  <2> QED BY <1>1, <2>3, <2>7 DEF BeginPut, chain, maps, OpsTyped
<1>10. CASE BeginRemove(th)
  <2>1. Head(todo[th]) \in Drops \cup Adds /\ Tail(todo[th]) \in Seq(Drops \cup Adds)
    BY <1>10 DEF BeginRemove
  <2>2. Head(todo[th]).tx \in Txs
    BY <1>10, <2>1 DEF BeginRemove, Drops, Adds, Add, Drop, Expire, Pack
  <2>3. todo' \in [Threads -> Seq(Drops \cup Adds)]
    BY <1>10, <2>1 DEF BeginRemove
  <2>4. Goto(th, Op("forget", Head(todo[th]).tx, <<>>))
    BY <1>10 DEF BeginRemove
  <2>5. OpsTyped'
    BY <2>2, <2>4, OpType, GotoType DEF Steps, Op
  <2>6. pool' \in SUBSET Txs /\ IsFiniteSet(pool')
    BY <1>10, FS_Subset DEF BeginRemove
  <2> QED BY <1>10, <2>3, <2>5, <2>6 DEF BeginRemove, chain, OpsTyped
<1>2. CASE Validate(th)
  <2>1. op[th].tx \in Txs
    BY <1>2 DEF Validate, At, Before
  <2>2. PICK o \in {Op("add", op[th].tx, SetToSeq(Takes(Seen, op[th].tx))), NoOp} : Goto(th, o)
    BY <1>2 DEF Validate
  <2>3. SetToSeq(Takes(Seen, op[th].tx)) \in Seq(Addresses)
    BY <2>1, TakesType, TouchedType
  <2>4. o \in Ops /\ (o.at \in Before \cup Removing => o.tx \in Txs)
    BY <2>1, <2>2, <2>3, OpType DEF Steps, Op, NoOp, Before, Removing
  <2>5. OpsTyped'
    BY <2>2, <2>4, GotoType
  <2> QED BY <1>2, <2>5 DEF Validate, chain, maps, OpsTyped
<1>3. CASE AddPortfolios(th)
  <2>1. op[th].tx \in Txs /\ op[th].left \in Seq(Addresses) /\ op[th].left \in Seq(Touched(op[th].tx))
    BY <1>3 DEF AddPortfolios, At, Before, Ops, SetsRight
  <2>2. PICK o \in {Op("insert", op[th].tx, <<>>), Op("count", op[th].tx, op[th].left)} : Goto(th, o)
    BY <1>3 DEF AddPortfolios
  <2>3. o \in Ops /\ (o.at \in Before \cup Removing => o.tx \in Txs)
    BY <2>1, <2>2, OpType DEF Steps, Op, Before, Removing
  <2>4. OpsTyped'
    BY <2>2, <2>3, GotoType
  <2>5. ToSet(op[th].left) \in SUBSET Touched(op[th].tx) /\ ToSet(op[th].left) \in SUBSET Addresses
    BY <2>1, ToSetType
  <2>6. portfolios' = portfolios \/ portfolios' = [portfolios EXCEPT ![op[th].tx] = ToSet(op[th].left)]
    BY <1>3 DEF AddPortfolios
  <2>7. /\ portfolios' \in [Txs -> SUBSET Addresses]
        /\ \A t \in Txs : portfolios'[t] \subseteq Touched(t)
    BY <2>1, <2>5, <2>6
  <2>8. diffs' \in [Txs -> SUBSET SUBSET Addresses]
    BY <1>3, <2>1, <2>5 DEF AddPortfolios
  <2> QED BY <1>3, <2>4, <2>7, <2>8 DEF AddPortfolios, chain, OpsTyped
<1>4. CASE ReadSet(th)
  <2>1. /\ op[th] \in Ops /\ op[th].tx \in Txs
        /\ op[th].left \in Seq(Addresses) /\ op[th].left # <<>>
    BY <1>4 DEF ReadSet, At, Before, Ops, SetsRight
  <2>2. /\ Head(op[th].left) \in Addresses /\ Tail(op[th].left) \in Seq(Addresses)
        /\ counted[Head(op[th].left)] \in SUBSET Txs
    BY <2>1
  <2> DEFINE o == [op[th] EXCEPT !.left = Tail(op[th].left),
                                 !.seen = {[of |-> Head(op[th].left),
                                            ids |-> counted[Head(op[th].left)]]}]
  <2>3. Goto(th, o)
    BY <1>4 DEF ReadSet
  <2>4. o \in Ops /\ o.tx \in Txs
    <3>1. [of |-> Head(op[th].left), ids |-> counted[Head(op[th].left)]] \in SeenSets
      BY <2>2 DEF SeenSets
    <3> HIDE DEF Types
    <3> QED BY <2>1, <2>2, <3>1 DEF Ops
  <2>5. OpsTyped'
    BY <2>3, <2>4, GotoType
  <2> QED BY <1>4, <2>5 DEF ReadSet, chain, maps, OpsTyped
<1>5. CASE WriteSet(th)
  <2>1. op[th] \in Ops /\ op[th].tx \in Txs
    BY <1>5 DEF WriteSet, At, Before
  <2>2. PICK o \in {Op("insert", op[th].tx, <<>>), [op[th] EXCEPT !.seen = {}]} : Goto(th, o)
    BY <1>5 DEF WriteSet
  <2>3. Op("insert", op[th].tx, <<>>) \in Ops
    BY <2>1, OpType DEF Steps
  <2>4. Op("insert", op[th].tx, <<>>).tx = op[th].tx
    BY DEF Op
  <2>5. o \in Ops /\ o.tx \in Txs
    BY <2>1, <2>2, <2>3, <2>4 DEF Ops
  <2>6. OpsTyped'
    BY <2>2, <2>5, GotoType
  <2>7. counted' \in [Addresses -> SUBSET Txs]
    <3>1. PICK s \in op[th].seen : counted' = [counted EXCEPT ![s.of] = s.ids \cup {op[th].tx}]
      BY <1>5 DEF WriteSet
    <3>2. s.ids \in SUBSET Txs
      BY <2>1, <3>1 DEF Ops, SeenSets
    <3> QED BY <2>1, <3>1, <3>2
  <2> QED BY <1>5, <2>6, <2>7 DEF WriteSet, chain, OpsTyped
<1>6. CASE Insert(th)
  <2>1. op[th].tx \in Txs
    BY <1>6 DEF Insert, At, Before
  <2>2. pool' \in SUBSET Txs /\ IsFiniteSet(pool')
    BY <1>6, <2>1, FS_AddElement DEF Insert
  <2>3. OpsTyped'
    BY <1>6, OpType, GotoType DEF Insert, NoOp, Op, Before, Removing
  <2> QED BY <1>6, <2>2, <2>3 DEF Insert, chain, OpsTyped
<1>7. CASE Forget(th)
  <2>1. op[th].tx \in Txs
    BY <1>7 DEF Forget, At, Removing
  <2>2. PICK o \in {NoOp, Op("uncount", op[th].tx, SetToSeq(portfolios[op[th].tx]))} : Goto(th, o)
    BY <1>7 DEF Forget
  <2>3. SetToSeq(portfolios[op[th].tx]) \in Seq(Addresses)
    BY <2>1, TouchedType
  <2>4. o \in Ops /\ (o.at \in Before \cup Removing => o.tx \in Txs)
    BY <2>1, <2>2, <2>3, OpType DEF Steps, Op, NoOp, Before, Removing
  <2>5. OpsTyped'
    BY <2>2, <2>4, GotoType
  <2>6. /\ portfolios' \in [Txs -> SUBSET Addresses]
        /\ \A t \in Txs : portfolios'[t] \subseteq Touched(t)
        /\ diffs' \in [Txs -> SUBSET SUBSET Addresses]
    BY <1>7, <2>1 DEF Forget
  <2> QED BY <1>7, <2>5, <2>6 DEF Forget, chain, OpsTyped
<1>8. CASE Uncount(th)
  <2>1. /\ op[th] \in Ops /\ op[th].tx \in Txs
        /\ op[th].left \in Seq(Addresses) /\ op[th].left # <<>>
    BY <1>8 DEF Uncount, At, Removing, Ops, SetsRight
  <2>2. Tail(op[th].left) \in Seq(Addresses)
    BY <2>1
  <2>3. PICK o \in {NoOp, [op[th] EXCEPT !.left = Tail(op[th].left)]} : Goto(th, o)
    BY <1>8 DEF Uncount
  <2>4. NoOp \in Ops /\ NoOp.at = "idle"
    BY OpType DEF NoOp, Op
  <2>5. o \in Ops /\ (o.at \in Before \cup Removing => o.tx \in Txs)
    BY <2>1, <2>2, <2>3, <2>4 DEF Ops, Before, Removing
  <2>6. OpsTyped'
    BY <2>3, <2>5, GotoType
  <2>7. counted' \in [Addresses -> SUBSET Txs]
    BY <1>8 DEF Uncount
  <2> QED BY <1>8, <2>6, <2>7 DEF Uncount, chain, OpsTyped
<1>9. ASSUME NEW old \in SUBSET (Old \cap pool), RemoveExpired(th, old) PROVE Types'
  <2>1. old \in SUBSET Txs /\ IsFiniteSet(old)
    BY FS_Subset
  <2>2. Removals(old) \in Seq(Drops \cup Adds)
    BY <2>1, RemovalsType, SeqMonotonic
  <2>3. Tail(todo[th]) \in Seq(Drops \cup Adds)
    BY <1>9 DEF RemoveExpired
  <2>4. todo' \in [Threads -> Seq(Drops \cup Adds)]
    BY <1>9, <2>2, <2>3, ConcatProperties DEF RemoveExpired
  <2> QED BY <1>9, <2>4 DEF RemoveExpired, chain, maps
<1>11. ASSUME NEW passed \in SUBSET pool, RemoveUnpackable(th, passed) PROVE Types'
  <2>1. PICK R \in SUBSET pool : todo' = [todo EXCEPT ![th] = Removals(R) \o Tail(todo[th])]
    BY <1>11 DEF RemoveUnpackable
  <2>2. R \in SUBSET Txs /\ IsFiniteSet(R)
    BY FS_Subset
  <2>3. Removals(R) \in Seq(Drops \cup Adds)
    BY <2>2, RemovalsType, SeqMonotonic
  <2>4. Tail(todo[th]) \in Seq(Drops \cup Adds)
    BY <1>11 DEF RemoveUnpackable
  <2>5. todo' \in [Threads -> Seq(Drops \cup Adds)]
    BY <2>1, <2>3, <2>4, ConcatProperties
  <2> QED BY <1>11, <2>5 DEF RemoveUnpackable, chain, maps
<1> QED BY <1>1, <1>2, <1>3, <1>4, <1>5, <1>6, <1>7, <1>8, <1>9, <1>10, <1>11 DEF Step

\* The other actions give a thread something to do and change the chain.
LEMMA TypesNext ==
  ASSUME Types, SetsRight, [Next]_vars
  PROVE  Types'
<1> USE DEF Types
<1>1. CASE \E th \in Threads : Step(th)
  BY <1>1, TypesStep
<1>2. CASE ReplaceLiquid
  <2>1. liquid' \in Seq(Txs)
    BY <1>2, EmptySeq DEF ReplaceLiquid
  <2>2. OpsTyped'
    <3>1. Appender \in Threads
      BY DEF Threads
    <3> QED BY <1>2, <3>1, OpType, GotoType DEF ReplaceLiquid, NoOp, Op, Before, Removing
  <2> QED BY <1>2, <2>1, <2>2 DEF ReplaceLiquid, maps, OpsTyped
<1>3. ASSUME NEW th \in Putters, NEW t \in Submitted, PutIfNew(th, t) PROVE Types'
  <2>1. <<Add(t)>> \in Seq(Drops \cup Adds)
    BY ConstantsAssumption DEF Adds
  <2> QED BY <1>3, <2>1 DEF PutIfNew, chain, maps
<1>4. ASSUME NEW th \in Cleaners, RemoveInvalid(th) PROVE Types'
  <2>1. Invalid \in SUBSET Txs /\ IsFiniteSet(Invalid)
    BY FS_Subset DEF Invalid
  <2>2. Removals(Invalid) \in Seq(Drops \cup Adds)
    BY <2>1, RemovalsType, SeqMonotonic
  <2>3. Expire \in Drops \cup Adds
    BY DEF Drops
  <2>4. Append(Removals(Invalid), Expire) \in Seq(Drops \cup Adds)
    BY <2>2, <2>3
  <2> QED BY <1>4, <2>4 DEF RemoveInvalid, chain, maps
<1>9. ASSUME NEW th \in Miners, PackUnconfirmed(th) PROVE Types'
  <2>1. <<Expire, Pack>> \in Seq(Drops \cup Adds)
    BY DEF Drops
  <2> QED BY <1>9, <2>1 DEF PackUnconfirmed, chain, maps
<1>5. ASSUME NEW t \in Txs, AppendMicroBlock(t) PROVE Types'
  <2>1. <<Drop(t), Expire>> \in Seq(Drops \cup Adds)
    BY DEF Drops
  <2>2. Append(liquid, t) \in Seq(Txs)
    OBVIOUS
  <2>3. todo' \in [Threads -> Seq(Drops \cup Adds)]
    BY <1>5, <2>1 DEF AppendMicroBlock
  <2> QED BY <1>5, <2>2, <2>3 DEF AppendMicroBlock, maps
<1>6. ASSUME NEW t \in Txs \cup {NoTx}, NEW n \in 0 .. Len(liquid), Harden(t, n) PROVE Types'
  <2>1. SubSeq(liquid, n + 1, Len(liquid)) \in Seq(Txs) /\ SubSeq(liquid, 1, n) \in Seq(Txs)
    BY <1>6
  <2>2. AfterBlock(t, SubSeq(liquid, n + 1, Len(liquid))) \in Seq(Drops \cup Adds)
    BY <2>1, AfterBlockType
  <2>3. OpsTyped'
    <3>1. Appender \in Threads
      BY DEF Threads
    <3> QED BY <1>6, <3>1, OpType, GotoType DEF Harden, Op, Before, Removing, Steps
  <2>4. persisted' \in Seq(Txs)
    BY <1>6, <2>1 DEF Harden
  <2> QED BY <1>6, <2>2, <2>3, <2>4 DEF Harden, maps, OpsTyped
<1>7. ASSUME NEW n \in 0 .. Len(persisted), RemoveAfter(n) PROVE Types'
  <2>1. SubSeq(persisted, n + 1, Len(persisted)) \in Seq(Txs) /\ SubSeq(persisted, 1, n) \in Seq(Txs)
    BY <1>7
  <2>2. SubSeq(persisted, n + 1, Len(persisted)) \o liquid \in Seq(Txs)
    BY <2>1
  <2>3. PutBack(SubSeq(persisted, n + 1, Len(persisted)) \o liquid) \in Seq(Drops \cup Adds)
    BY <2>2, PutBackType, SeqMonotonic
  <2>4. <<>> \in Seq(Txs)
    BY EmptySeq
  <2> QED BY <1>7, <2>1, <2>3, <2>4 DEF RemoveAfter, maps
<1>8. CASE UNCHANGED vars
  BY <1>8 DEF vars, chain, maps
<1> QED BY <1>1, <1>2, <1>3, <1>4, <1>5, <1>6, <1>7, <1>8, <1>9 DEF Next, ChainChanges

-----------------------------------------------------------------------------
(* The sets of the accounts *)

LEMMA SetsInit == Init => SetsRight
BY DEF Init, SetsRight, NoOp, Op

\* A read or a write of a set keeps to the accounts of the transaction.
LEMMA SetsStep ==
  ASSUME Types, SetsRight, NEW th \in Threads, Step(th)
  PROVE  SetsRight'
<1>0. op \in [Threads -> Ops]
  BY DEF Types
<1> USE DEF SetsRight
<1>1. CASE BeginPut(th) \/ BeginRemove(th)
  BY <1>0, <1>1 DEF BeginPut, BeginRemove, Goto, Op, NoOp, maps
<1>2. CASE Validate(th)
  <2>1. op[th].tx \in Txs /\ persisted \in Seq(Txs) /\ liquid \in Seq(Txs)
    BY <1>2 DEF Types, Validate, At, Before
  <2>2. SetToSeq(Takes(Seen, op[th].tx)) \in Seq(Touched(op[th].tx))
    BY <2>1, TakesType, TouchedType
  <2>3. PICK o \in {Op("add", op[th].tx, SetToSeq(Takes(Seen, op[th].tx))), NoOp} : Goto(th, o)
    BY <1>2 DEF Validate
  <2>4. /\ op'[th] = o /\ \A x \in Threads \ {th} : op'[x] = op[x]
    BY <1>0, <2>3 DEF Goto
  <2>5. o.at \in {"add", "idle"} /\ (o.at = "add" => o.left \in Seq(Touched(o.tx)))
    BY <2>2, <2>3 DEF Op, NoOp
  <2>6. counted' = counted
    BY <1>2 DEF Validate, maps
  <2> QED BY <2>4, <2>5, <2>6
<1>3. CASE AddPortfolios(th)
  <2>1. op[th].tx \in Txs /\ op[th].left \in Seq(Touched(op[th].tx))
    BY <1>3 DEF Types, AddPortfolios, At, Before
  <2>2. ToSet(op[th].left) # {} => op[th].left # <<>>
    BY DEF ToSet
  <2>3. PICK o \in {Op("insert", op[th].tx, <<>>), Op("count", op[th].tx, op[th].left)} :
          Goto(th, o) /\ (o.at = "count" => ToSet(op[th].left) # {})
    BY <1>3 DEF AddPortfolios, Op
  <2>4. /\ op'[th] = o /\ \A x \in Threads \ {th} : op'[x] = op[x]
    BY <1>0, <2>3 DEF Goto
  <2>5. /\ o.at \in {"insert", "count"} /\ o.tx = op[th].tx /\ o.seen = {}
        /\ o.at = "count" => o.left = op[th].left
    BY <2>3 DEF Op
  <2>6. counted' = counted
    BY <1>3 DEF AddPortfolios
  <2> QED BY <2>1, <2>2, <2>3, <2>4, <2>5, <2>6
<1>4. CASE ReadSet(th)
  <2>1. op[th].left \in Seq(Touched(op[th].tx)) /\ op[th].left # <<>>
    BY <1>4 DEF ReadSet, At
  <2>2. Head(op[th].left) \in Touched(op[th].tx) /\ Tail(op[th].left) \in Seq(Touched(op[th].tx))
    BY <2>1, HeadTail
  <2>3. counted[Head(op[th].left)] \subseteq Takers(Head(op[th].left))
    BY <2>2 DEF Touched
  <2>4. /\ op'[th].tx = op[th].tx /\ op'[th].left = Tail(op[th].left) /\ op'[th].at = "count"
        /\ op'[th].seen = {[of |-> Head(op[th].left), ids |-> counted[Head(op[th].left)]]}
    BY <1>0, <1>4 DEF ReadSet, Goto, At, Ops
  <2>5. \A x \in Threads \ {th} : op'[x] = op[x]
    BY <1>0, <1>4 DEF ReadSet, Goto
  <2>6. \A s \in op'[th].seen : s.of \in Touched(op'[th].tx) /\ s.ids \subseteq Takers(s.of)
    BY <2>2, <2>3, <2>4
  <2>7. counted' = counted
    BY <1>4 DEF ReadSet, maps
  <2> QED BY <2>2, <2>4, <2>5, <2>6, <2>7
<1>5. CASE WriteSet(th)
  <2>1. op[th].tx \in Txs /\ counted \in [Addresses -> SUBSET Txs]
    BY <1>5 DEF Types, WriteSet, At, Before
  <2>2. PICK s \in op[th].seen : counted' = [counted EXCEPT ![s.of] = s.ids \cup {op[th].tx}]
    BY <1>5 DEF WriteSet
  <2>3. s.of \in Touched(op[th].tx) /\ s.ids \subseteq Takers(s.of)
    BY <1>5, <2>2 DEF WriteSet, At
  <2>4. \A a \in Addresses : counted'[a] \subseteq Takers(a)
    BY <2>1, <2>2, <2>3 DEF Takers
  <2>5. \/ op'[th].at = "insert"
        \/ /\ op[th].left # <<>> /\ op'[th].left = op[th].left
           /\ op'[th].tx = op[th].tx /\ op'[th].seen = {} /\ op'[th].at = "count"
    BY <1>0, <1>5 DEF WriteSet, Goto, Op, At, Ops
  <2>6. \A x \in Threads \ {th} : op'[x] = op[x]
    BY <1>0, <1>5 DEF WriteSet, Goto
  <2>7. op[th].left \in Seq(Touched(op[th].tx))
    BY <1>5 DEF WriteSet, At
  <2> QED BY <2>4, <2>5, <2>6, <2>7
<1>6. CASE Insert(th)
  BY <1>0, <1>6 DEF Insert, Goto, Op, NoOp
<1>7. CASE Forget(th)
  <2>1. op[th].tx \in Txs
    BY <1>7 DEF Types, Forget, At, Removing
  <2>3. portfolios[op[th].tx] # {} => SetToSeq(portfolios[op[th].tx]) # <<>>
    BY <2>1, TouchedType DEF Types
  <2>2. CASE portfolios[op[th].tx] # {}
    BY <1>0, <1>7, <2>1, <2>2, <2>3 DEF Forget, Goto, Op, NoOp
  <2> QED BY <1>0, <1>7, <2>2 DEF Forget, Goto, Op, NoOp
<1>8. CASE Uncount(th)
  <2>1. counted \in [Addresses -> SUBSET Txs]
    BY DEF Types
  <2>2. \A a \in Addresses : counted'[a] \subseteq counted[a]
    BY <1>8, <2>1 DEF Uncount
  <2>3. op'[th].at = "idle" \/ (op'[th].at = "uncount" /\ op'[th].left # <<>>)
    <3>1. op[th].left \in Seq(Addresses) /\ op[th].left # <<>>
      BY <1>0, <1>8 DEF Uncount, At, Ops
    <3>2. Len(op[th].left) # 1 => Tail(op[th].left) # <<>>
      BY <3>1, HeadTail
    <3> QED BY <1>0, <1>8, <3>2 DEF Uncount, Goto, At, Ops, NoOp, Op
  <2>4. \A x \in Threads \ {th} : op'[x] = op[x]
    BY <1>0, <1>8 DEF Uncount, Goto
  <2> QED BY <2>2, <2>3, <2>4
<1>9. ASSUME NEW old \in SUBSET (Old \cap pool), RemoveExpired(th, old) PROVE SetsRight'
  BY <1>9 DEF RemoveExpired, maps
<1>10. ASSUME NEW passed \in SUBSET pool, RemoveUnpackable(th, passed) PROVE SetsRight'
  BY <1>10 DEF RemoveUnpackable, maps
<1> QED BY <1>1, <1>2, <1>3, <1>4, <1>5, <1>6, <1>7, <1>8, <1>9, <1>10 DEF Step

LEMMA SetsNext ==
  ASSUME Types, SetsRight, [Next]_vars
  PROVE  SetsRight'
<1>0. op \in [Threads -> Ops]
  BY DEF Types
<1>1. CASE \E th \in Threads : Step(th)
  BY <1>1, SetsStep
<1>2. CASE ReplaceLiquid \/ ChainChanges
  <2>1. counted' = counted
    BY <1>2 DEF ReplaceLiquid, ChainChanges, AppendMicroBlock, Harden, RemoveAfter, maps
  <2>2. op' = op \/ \E o \in {NoOp, Op("harden", NoTx, <<>>)} : Goto(Appender, o)
    BY <1>2 DEF ReplaceLiquid, ChainChanges, AppendMicroBlock, Harden, RemoveAfter
  <2>3. \A x \in Threads : op'[x] = op[x] \/ op'[x].at \in {"idle", "harden"}
    BY <1>0, <2>2 DEF Goto, Op, NoOp
  <2> QED BY <2>1, <2>3 DEF SetsRight
<1>3. CASE \E th \in Putters, t \in Submitted : PutIfNew(th, t)
  BY <1>3 DEF PutIfNew, maps, SetsRight
<1>4. CASE (\E th \in Cleaners : RemoveInvalid(th)) \/ \E th \in Miners : PackUnconfirmed(th)
  BY <1>4 DEF RemoveInvalid, PackUnconfirmed, maps, SetsRight
<1>5. CASE UNCHANGED vars
  BY <1>5 DEF vars, maps, SetsRight
<1> QED BY <1>1, <1>2, <1>3, <1>4, <1>5 DEF Next

-----------------------------------------------------------------------------
(* No ghosts *)

LEMMA OwnedInit == Init => Owned
BY DEF Init, Owned

\* The portfolios of a transaction come before it and go after it.
LEMMA OwnedNext ==
  ASSUME Types, Owned, [Next]_vars
  PROVE  Owned'
<1>0. op \in [Threads -> Ops]
  BY DEF Types
<1> USE DEF Owned
<1>1. ASSUME NEW th \in Threads, Step(th) PROVE Owned'
  <2>0. \A o : Goto(th, o) => op'[th] = o /\ \A x \in Threads \ {th} : op'[x] = op[x]
    BY <1>0 DEF Goto
  <2>1. CASE BeginPut(th)
    <3>1. pool' = pool /\ portfolios' = portfolios /\ op[th].at = "idle"
      BY <2>1 DEF BeginPut, At, maps
    <3>2. \A x \in Threads \ {th} : op'[x] = op[x]
      BY <2>0, <2>1 DEF BeginPut
    <3> QED BY <3>1, <3>2
  <2>10. CASE BeginRemove(th)
    <3>1. /\ pool' = pool \ {Head(todo[th]).tx} /\ portfolios' = portfolios
          /\ op[th].at = "idle"
      BY <2>10 DEF BeginRemove, At
    <3>2. Goto(th, Op("forget", Head(todo[th]).tx, <<>>))
      BY <2>10 DEF BeginRemove
    <3>3. /\ op'[th].at = "forget" /\ op'[th].tx = Head(todo[th]).tx
          /\ \A x \in Threads \ {th} : op'[x] = op[x]
      BY <2>0, <3>2 DEF Op
    <3> QED BY <3>1, <3>3
  <2>2. CASE Validate(th)
    <3>1. pool' = pool /\ portfolios' = portfolios /\ op[th].at = "validate"
      BY <2>2 DEF Validate, At, maps
    <3>2. \A x \in Threads \ {th} : op'[x] = op[x]
      BY <2>0, <2>2 DEF Validate
    <3> QED BY <3>1, <3>2
  <2>3. CASE AddPortfolios(th)
    <3>1. pool' = pool /\ op[th].at = "add"
      BY <2>3 DEF AddPortfolios, At
    <3>2. \A t \in Txs \ {op[th].tx} : portfolios'[t] = portfolios[t]
      BY <2>3 DEF AddPortfolios, Types
    <3>3. /\ op'[th].at \in {"count", "insert"} /\ op'[th].tx = op[th].tx
          /\ \A x \in Threads \ {th} : op'[x] = op[x]
      BY <2>0, <2>3 DEF AddPortfolios, Op
    <3> QED BY <3>1, <3>2, <3>3
  <2>4. CASE ReadSet(th)
    <3>1. pool' = pool /\ portfolios' = portfolios /\ op[th].at = "count"
      BY <2>4 DEF ReadSet, At, maps
    <3>2. /\ op'[th].at = "count" /\ op'[th].tx = op[th].tx
          /\ \A x \in Threads \ {th} : op'[x] = op[x]
      BY <1>0, <2>4 DEF ReadSet, Goto, At, Ops
    <3> QED BY <3>1, <3>2
  <2>5. CASE WriteSet(th)
    <3>1. pool' = pool /\ portfolios' = portfolios /\ op[th].at = "count"
      BY <2>5 DEF WriteSet, At
    <3>2. /\ op'[th].at \in {"count", "insert"} /\ op'[th].tx = op[th].tx
          /\ \A x \in Threads \ {th} : op'[x] = op[x]
      BY <1>0, <2>5 DEF WriteSet, Goto, At, Op, Ops
    <3> QED BY <3>1, <3>2
  <2>6. CASE Insert(th)
    <3>1. pool' = pool \cup {op[th].tx} /\ portfolios' = portfolios /\ op[th].at = "insert"
      BY <2>6 DEF Insert, At
    <3>2. \A x \in Threads \ {th} : op'[x] = op[x]
      BY <2>0, <2>6 DEF Insert
    <3> QED BY <3>1, <3>2
  <2>7. CASE Forget(th)
    <3>1. /\ pool' = pool
          /\ \A t \in Txs : portfolios'[t] = IF t = op[th].tx THEN {} ELSE portfolios[t]
      BY <2>7 DEF Forget, Types
    <3>2. \A x \in Threads \ {th} : op'[x] = op[x]
      BY <2>0, <2>7 DEF Forget
    <3> QED BY <3>1, <3>2
  <2>8. CASE Uncount(th)
    <3>1. pool' = pool /\ portfolios' = portfolios /\ op[th].at = "uncount"
      BY <2>8 DEF Uncount, At
    <3>2. \A x \in Threads \ {th} : op'[x] = op[x]
      BY <2>0, <2>8 DEF Uncount
    <3> QED BY <3>1, <3>2
  <2>9. CASE \E old \in SUBSET (Old \cap pool) : RemoveExpired(th, old)
    BY <2>9 DEF RemoveExpired, maps
  <2>11. CASE \E passed \in SUBSET pool : RemoveUnpackable(th, passed)
    BY <2>11 DEF RemoveUnpackable, maps
  <2> QED BY <1>1, <2>1, <2>2, <2>3, <2>4, <2>5, <2>6, <2>7, <2>8, <2>9, <2>10, <2>11 DEF Step
<1>2. CASE ReplaceLiquid \/ ChainChanges
  <2>1. pool' = pool /\ portfolios' = portfolios
    BY <1>2 DEF ReplaceLiquid, ChainChanges, AppendMicroBlock, Harden, RemoveAfter, maps
  <2>2. op' = op \/ (op[Appender].at \in {"idle", "harden"} /\ \E o : Goto(Appender, o))
    BY <1>2 DEF ReplaceLiquid, ChainChanges, AppendMicroBlock, Harden, RemoveAfter, AppenderIdle,
                Idle, At
  <2>3. \A x \in Threads : op'[x] # op[x] => op[x].at \in {"idle", "harden"}
    BY <1>0, <2>2 DEF Goto
  <2> QED BY <2>1, <2>3
<1>3. CASE \E th \in Putters, t \in Submitted : PutIfNew(th, t)
  BY <1>3 DEF PutIfNew, maps
<1>4. CASE (\E th \in Cleaners : RemoveInvalid(th)) \/ \E th \in Miners : PackUnconfirmed(th)
  BY <1>4 DEF RemoveInvalid, PackUnconfirmed, maps
<1>5. CASE UNCHANGED vars
  BY <1>5 DEF vars, maps
<1> QED BY <1>1, <1>2, <1>3, <1>4, <1>5 DEF Next

\* When no thread is inside an operation, what is owned is in the pool.
LEMMA NoGhostsFollows == Types /\ SetsRight /\ Owned => NoGhosts
BY DEF Types, SetsRight, Owned, NoGhosts, Quiet, Pending, Takers

\* The pending balance of an account counts no transaction that is not in the
\* pool: portfolios are added before the transaction and removed after it
\* (putIfNew, remove, PessimisticPortfolios).
THEOREM PendingOwned == Spec => []NoGhosts
<1>1. Init => Types /\ SetsRight /\ Owned
  BY TypesInit, SetsInit, OwnedInit
<1>2. Types /\ SetsRight /\ Owned /\ [Next]_vars => (Types /\ SetsRight /\ Owned)'
  BY TypesNext, SetsNext, OwnedNext
<1> QED BY <1>1, <1>2, NoGhostsFollows, PTL DEF Spec

-----------------------------------------------------------------------------
(* What is in the pool is counted *)

InSeq(a, s) == \E i \in DOMAIN s : s[i] = a

\* An account whose set the thread has still to write.
ToWrite(x, a) == InSeq(a, op[x].left) \/ \E s \in op[x].seen : s.of = a

\* What the puts of a transaction took is known from before it is inserted until after
\* it is removed; the set a thread has read is still the set of the account.
Orderly(x) ==
  /\ op[x].at \in {"count", "insert"} => diffs[op[x].tx] # {}
  /\ op[x].at \in {"forget", "uncount"} => op[x].tx \notin pool
  /\ op[x].at = "uncount" => diffs[op[x].tx] = {}
  /\ op[x].at = "count" => \A s, r \in op[x].seen : s = r /\ s.ids = counted[s.of]

Held == \A t \in pool : diffs[t] # {}

\* The portfolios of a transaction whose diff was the same at every put are that diff.
Kept ==
  \A t \in Txs :
    /\ diffs[t] = {} => portfolios[t] = {}
    /\ \A d \in diffs[t] : diffs[t] = {d} => portfolios[t] = d

\* They are counted for every account, or a thread is about to.
Complete ==
  \A t \in Txs : \A d \in diffs[t] : diffs[t] = {d} =>
    \A a \in d :
      t \in counted[a] \/ \E x \in Threads : op[x].at = "count" /\ op[x].tx = t /\ ToWrite(x, a)

Exact == Held /\ Complete /\ \A x \in Threads : Orderly(x)

\* No two operations are at work on one transaction or account.
Apart ==
  \A x, y \in Threads :
    x # y /\ AtWork(x) /\ AtWork(y)
    => op[x].tx # op[y].tx /\ Touched(op[x].tx) \cap Touched(op[y].tx) = {}

ExactUnlessRaced == ~raced => Apart /\ Exact

LEMMA KeptInit == Init => Kept
BY DEF Init, Kept

\* Portfolios and diffs change together.
LEMMA KeptNext ==
  ASSUME Types, Kept, [Next]_vars
  PROVE  Kept'
<1> USE DEF Kept
<1>1. ASSUME NEW th \in Threads, AddPortfolios(th) PROVE Kept'
  <2> DEFINE u == op[th].tx
             d == ToSet(op[th].left)
  <2>1. u \in Txs
    BY <1>1 DEF Types, AddPortfolios, At, Before
  <2>2. /\ \A t \in Txs \ {u} : portfolios'[t] = portfolios[t] /\ diffs'[t] = diffs[t]
        /\ diffs'[u] = diffs[u] \cup {d}
        /\ portfolios'[u] = IF d = {} THEN portfolios[u] ELSE d
    BY <1>1, <2>1 DEF AddPortfolios, Types
  <2>3. ASSUME NEW c \in diffs'[u], diffs'[u] = {c} PROVE portfolios'[u] = c
    <3>1. c = d /\ diffs[u] \subseteq {d}
      BY <2>2, <2>3
    <3>2. CASE d = {}
      <4>1. diffs[u] = {} \/ (d \in diffs[u] /\ diffs[u] = {d})
        BY <3>1
      <4>2. portfolios[u] = {}
        BY <2>1, <3>2, <4>1
      <4> QED BY <2>2, <3>1, <3>2, <4>2
    <3>3. CASE d # {}
      BY <2>2, <3>1, <3>3
    <3> QED BY <3>2, <3>3
  <2>4. diffs'[u] # {}
    BY <2>2
  <2> HIDE DEF u, d
  <2> QED BY <2>2, <2>3, <2>4
<1>2. ASSUME NEW th \in Threads, Forget(th) PROVE Kept'
  BY <1>2 DEF Types, Forget, At, Removing
<1>3. CASE portfolios' = portfolios /\ diffs' = diffs
  BY <1>3
<1>4. ASSUME NEW th \in Threads, Step(th) PROVE Kept'
  BY <1>1, <1>2, <1>3, <1>4 DEF Step, BeginPut, BeginRemove, Validate, ReadSet, WriteSet, Insert,
                                Uncount, RemoveExpired, RemoveUnpackable, maps
<1>5. CASE ReplaceLiquid \/ ChainChanges
  BY <1>3, <1>5 DEF ReplaceLiquid, ChainChanges, AppendMicroBlock, Harden, RemoveAfter, maps
<1>6. CASE \/ \E th \in Putters, t \in Submitted : PutIfNew(th, t)
           \/ \E th \in Cleaners : RemoveInvalid(th)
           \/ \E th \in Miners : PackUnconfirmed(th)
           \/ UNCHANGED vars
  BY <1>3, <1>6 DEF PutIfNew, RemoveInvalid, PackUnconfirmed, vars, maps
<1> QED BY <1>4, <1>5, <1>6 DEF Next

\* An element of a sequence is its first or among the others.
LEMMA FirstOrOther ==
  ASSUME NEW S, NEW s \in Seq(S), NEW a, InSeq(a, s)
  PROVE  s # <<>> /\ (a = Head(s) \/ InSeq(a, Tail(s)))
<1>1. PICK i \in DOMAIN s : s[i] = a
  BY DEF InSeq
<1>2. DOMAIN s = 1 .. Len(s) /\ Len(s) \in Nat /\ i \in 1 .. Len(s)
  BY <1>1
<1>3. s # <<>>
  BY <1>2
<1>4. CASE i = 1
  BY <1>1, <1>3, <1>4
<1>5. CASE i # 1
  <2>1. DOMAIN Tail(s) = 1 .. Len(s) - 1 /\ i - 1 \in 1 .. Len(s) - 1
    BY <1>2, <1>3, <1>5
  <2>2. Tail(s)[i - 1] = s[i]
    BY <1>2, <1>3, <2>1
  <2> QED BY <1>1, <1>3, <2>1, <2>2 DEF InSeq
<1> QED BY <1>4, <1>5

LEMMA ExactInit == Init => ~raced /\ Apart /\ Exact
<1> SUFFICES ASSUME Init PROVE ~raced /\ Apart /\ Exact
  OBVIOUS
<1>1. \A x \in Threads : op[x].at = "idle"
  BY DEF Init, NoOp, Op
<1> QED BY <1>1 DEF Init, Apart, AtWork, Exact, Held, Complete, Orderly

\* What only the other threads' order rests on: the maps and the operations.
LEMMA ExactUnchanged ==
  ASSUME Exact, maps' = maps,
         \A x \in Threads : op'[x] = op[x] \/ (~AtWork(x) /\ ~AtWork(x)')
  PROVE  Exact'
<1>1. pool' = pool /\ diffs' = diffs /\ counted' = counted
  BY DEF maps
<1>2. Held'
  BY <1>1 DEF Exact, Held
<1>3. \A x \in Threads : Orderly(x)'
  BY <1>1 DEF Exact, Orderly, AtWork
<1>4. Complete'
  BY <1>1 DEF Exact, Complete, AtWork, ToWrite
<1> QED BY <1>2, <1>3, <1>4 DEF Exact

\* A step of a thread with no other at work on an account of its transaction.
LEMMA ExactStep ==
  ASSUME Types, SetsRight, Kept, Exact, Apart, Apart', NEW th \in Threads, Step(th)
  PROVE  Exact'
<1>0. op \in [Threads -> Ops]
  BY DEF Types
<1> DEFINE t == op[th].tx
<1>a. \A o : Goto(th, o) => op'[th] = o /\ \A x \in Threads \ {th} : op'[x] = op[x]
  BY <1>0 DEF Goto
<1>b. \A x \in Threads \ {th} :
        AtWork(th) /\ AtWork(x) => op[x].tx # t /\ Touched(t) \cap Touched(op[x].tx) = {}
  BY DEF Apart
<1>1. CASE BeginPut(th)
  <2>1. maps' = maps /\ ~AtWork(th)
    BY <1>1 DEF BeginPut, At, AtWork
  <2>2. ~AtWork(th)' /\ \A x \in Threads \ {th} : op'[x] = op[x]
    BY <1>a, <1>1 DEF BeginPut, Op, NoOp, AtWork
  <2> QED BY <2>1, <2>2, ExactUnchanged
<1>10. CASE BeginRemove(th)
  <2> DEFINE u == Head(todo[th]).tx
  <2>1. /\ pool' = pool \ {u} /\ diffs' = diffs /\ counted' = counted
        /\ op[th].at = "idle"
    BY <1>10 DEF BeginRemove, At
  <2>2. Goto(th, Op("forget", u, <<>>))
    BY <1>10 DEF BeginRemove
  <2>3. /\ op'[th].at = "forget" /\ op'[th].tx = u
        /\ \A x \in Threads \ {th} : op'[x] = op[x]
    BY <1>a, <2>2 DEF Op
  <2>4. Held'
    BY <2>1 DEF Exact, Held
  <2>5. \A x \in Threads : Orderly(x)'
    BY <2>1, <2>3 DEF Exact, Orderly
  <2>6. Complete'
    BY <2>1, <2>3 DEF Exact, Complete, ToWrite
  <2> QED BY <2>4, <2>5, <2>6 DEF Exact
<1>2. CASE Validate(th)
  <2>1. maps' = maps /\ ~AtWork(th)
    BY <1>2 DEF Validate, At, maps, AtWork
  <2>2. ~AtWork(th)' /\ \A x \in Threads \ {th} : op'[x] = op[x]
    BY <1>a, <1>2 DEF Validate, Op, NoOp, AtWork
  <2> QED BY <2>1, <2>2, ExactUnchanged
<1>3. CASE AddPortfolios(th)
  <2> DEFINE d == ToSet(op[th].left)
  <2>1. op[th].at = "add" /\ pool' = pool /\ counted' = counted /\ t \in Txs
    BY <1>3 DEF AddPortfolios, At, Types, Before
  <2>2. /\ op'[th].at \in {"count", "insert"} /\ op'[th].tx = t
        /\ \A x \in Threads \ {th} : op'[x] = op[x]
    BY <1>a, <1>3 DEF AddPortfolios, Op
  <2>3. \A x \in Threads \ {th} : AtWork(x) => op[x].tx # t
    BY <2>2 DEF Apart, AtWork
  <2>4. /\ diffs'[t] = diffs[t] \cup {d} /\ \A u \in Txs \ {t} : diffs'[u] = diffs[u]
        /\ op'[th].at = "insert" => d = {} \/ portfolios[t] # {}
        /\ op'[th].at = "count" => op'[th].left = op[th].left /\ op'[th].seen = {}
    BY <1>a, <1>3, <2>1 DEF AddPortfolios, Op, Types
  <2>5. Held'
    BY <2>1, <2>4 DEF Exact, Held, Types
  <2>6. ASSUME NEW x \in Threads PROVE Orderly(x)'
    <3>1. CASE x = th
      BY <2>2, <2>4, <3>1 DEF Orderly
    <3>2. CASE x # th /\ AtWork(x)
      <4>1. op[x].tx \in Txs \ {t}
        BY <2>3, <3>2 DEF AtWork, Types, Before, Removing
      <4> QED BY <2>1, <2>2, <2>4, <3>2, <4>1 DEF Exact, Orderly
    <3>3. CASE x # th /\ ~AtWork(x)
      BY <2>2, <3>3 DEF Orderly, AtWork
    <3> QED BY <3>1, <3>2, <3>3
  <2>7. Complete'
    <3> SUFFICES ASSUME NEW u \in Txs, NEW c \in diffs'[u], diffs'[u] = {c}, NEW a \in c,
                        u \notin counted[a]
                 PROVE  \E x \in Threads : /\ op'[x].at = "count" /\ op'[x].tx = u
                                           /\ ToWrite(x, a)'
      BY <2>1 DEF Complete
    <3>1. CASE c \in diffs[u]
      <4>1. diffs[u] = {c}
        BY <2>4, <3>1
      <4>2. PICK x \in Threads : op[x].at = "count" /\ op[x].tx = u /\ ToWrite(x, a)
        BY <3>1, <4>1 DEF Exact, Complete
      <4> QED BY <2>1, <2>2, <4>2 DEF ToWrite
    <3>2. CASE c \notin diffs[u]
      <4>1. u = t /\ c = d /\ diffs[t] = {}
        BY <2>4, <3>2
      <4>2. portfolios[t] = {} /\ d # {}
        BY <2>1, <4>1 DEF Kept
      <4>3. op'[th].at = "count" /\ op'[th].left = op[th].left
        BY <2>2, <2>4, <4>2
      <4>4. InSeq(a, op[th].left)
        BY <4>1 DEF ToSet, InSeq
      <4> QED BY <2>2, <4>1, <4>3, <4>4 DEF ToWrite
    <3> QED BY <3>1, <3>2
  <2> QED BY <2>5, <2>6, <2>7 DEF Exact
<1>4. CASE ReadSet(th)
  <2>1. op[th] \in Ops /\ op[th].at = "count" /\ op[th].left \in Seq(Touched(t)) /\ op[th].seen = {}
    BY <1>0, <1>4 DEF ReadSet, At, SetsRight
  <2>2. pool' = pool /\ diffs' = diffs /\ counted' = counted
    BY <1>4 DEF ReadSet, maps
  <2>3. /\ op'[th].tx = t /\ op'[th].at = "count" /\ op'[th].left = Tail(op[th].left)
        /\ op'[th].seen = {[of |-> Head(op[th].left), ids |-> counted[Head(op[th].left)]]}
        /\ \A x \in Threads \ {th} : op'[x] = op[x]
    <3> DEFINE o == [op[th] EXCEPT !.left = Tail(op[th].left),
                                   !.seen = {[of |-> Head(op[th].left),
                                              ids |-> counted[Head(op[th].left)]]}]
    <3>1. Goto(th, o)
      BY <1>4 DEF ReadSet
    <3>2. op'[th] = o /\ \A x \in Threads \ {th} : op'[x] = op[x]
      BY <1>a, <3>1
    <3>3. /\ o.tx = t /\ o.at = "count" /\ o.left = Tail(op[th].left)
          /\ o.seen = {[of |-> Head(op[th].left), ids |-> counted[Head(op[th].left)]]}
      BY <2>1 DEF Ops
    <3> HIDE DEF o
    <3> QED BY <3>2, <3>3
  <2>4. Held'
    BY <2>2 DEF Exact, Held
  <2>5. ASSUME NEW x \in Threads PROVE Orderly(x)'
    <3>1. CASE x = th
      <4>1. \A s, r \in op'[x].seen : s = r /\ s.ids = counted[s.of]
        BY <2>3, <3>1
      <4> QED BY <2>1, <2>2, <2>3, <3>1, <4>1 DEF Exact, Orderly
    <3>2. CASE x # th
      BY <2>2, <2>3, <3>2 DEF Exact, Orderly
    <3> QED BY <3>1, <3>2
  <2>6. ASSUME NEW a, ToWrite(th, a) PROVE ToWrite(th, a)'
    <3>1. a = Head(op[th].left) \/ InSeq(a, Tail(op[th].left))
      BY <2>1, <2>6, FirstOrOther DEF ToWrite
    <3> QED BY <2>3, <3>1 DEF ToWrite
  <2>7. \A x \in Threads \ {th} : \A a : ToWrite(x, a) => ToWrite(x, a)'
    BY <2>3 DEF ToWrite
  <2>8. Complete'
    <3> SUFFICES ASSUME NEW u \in Txs, NEW c \in diffs[u], diffs[u] = {c}, NEW a \in c,
                        u \notin counted[a]
                 PROVE  \E x \in Threads : op'[x].at = "count" /\ op'[x].tx = u /\ ToWrite(x, a)'
      BY <2>2 DEF Complete
    <3>1. PICK x \in Threads : op[x].at = "count" /\ op[x].tx = u /\ ToWrite(x, a)
      BY DEF Exact, Complete
    <3> QED BY <2>3, <2>6, <2>7, <3>1
  <2> QED BY <2>4, <2>5, <2>8 DEF Exact
<1>5. CASE WriteSet(th)
  <2>1. /\ op[th] \in Ops /\ op[th].at = "count" /\ op[th].left \in Seq(Touched(t))
        /\ t \in Txs /\ counted \in [Addresses -> SUBSET Txs]
    BY <1>0, <1>5 DEF WriteSet, At, SetsRight, Types, Before
  <2>2. PICK s \in op[th].seen : counted' = [counted EXCEPT ![s.of] = s.ids \cup {t}]
    BY <1>5 DEF WriteSet
  <2>3. s.of \in Touched(t) /\ s.ids = counted[s.of] /\ \A r \in op[th].seen : r = s
    BY <2>1, <2>2 DEF SetsRight, Exact, Orderly
  <2>4. counted' = [counted EXCEPT ![s.of] = counted[s.of] \cup {t}] /\ s.of \in Addresses
    BY <2>2, <2>3 DEF Touched
  <2>5. pool' = pool /\ diffs' = diffs
    BY <1>5 DEF WriteSet
  <2>6. /\ op'[th].tx = t /\ op'[th].at \in {"count", "insert"}
        /\ op'[th].at = "count" => op'[th].left = op[th].left /\ op'[th].seen = {}
        /\ op'[th].at = "insert" => op[th].left = <<>>
        /\ \A x \in Threads \ {th} : op'[x] = op[x]
    BY <1>a, <1>5, <2>1 DEF WriteSet, Op, Ops
  <2>7. Held'
    BY <2>5 DEF Exact, Held
  <2>8. ASSUME NEW x \in Threads PROVE Orderly(x)'
    <3>1. CASE x = th
      BY <2>1, <2>5, <2>6, <3>1 DEF Exact, Orderly
    <3>2. CASE x # th /\ op[x].at = "count"
      <4>1. Touched(t) \cap Touched(op[x].tx) = {}
        BY <1>b, <2>1, <3>2 DEF AtWork
      <4>2. \A r \in op[x].seen : r.of \in Touched(op[x].tx)
        BY <3>2 DEF SetsRight
      <4>3. \A r \in op[x].seen : r.of # s.of /\ r.of \in Addresses
        BY <2>3, <4>1, <4>2 DEF Touched
      <4>4. \A r \in op[x].seen : counted'[r.of] = counted[r.of]
        BY <2>1, <2>4, <4>3
      <4> QED BY <2>5, <2>6, <3>2, <4>4 DEF Exact, Orderly
    <3>3. CASE x # th /\ op[x].at # "count"
      BY <2>5, <2>6, <3>3 DEF Exact, Orderly
    <3> QED BY <3>1, <3>2, <3>3
  <2>9. Complete'
    <3> SUFFICES ASSUME NEW u \in Txs, NEW c \in diffs[u], diffs[u] = {c}, NEW a \in c,
                        u \notin counted'[a]
                 PROVE  \E x \in Threads : op'[x].at = "count" /\ op'[x].tx = u /\ ToWrite(x, a)'
      BY <2>5 DEF Complete
    <3>1. a \in Addresses /\ u \notin counted[a]
      BY <2>1, <2>4 DEF Types
    <3>2. PICK x \in Threads : op[x].at = "count" /\ op[x].tx = u /\ ToWrite(x, a)
      BY <3>1 DEF Exact, Complete
    <3>3. CASE x # th
      BY <2>6, <3>2, <3>3 DEF ToWrite
    <3>4. CASE x = th
      <4>1. u = t /\ a # s.of
        BY <2>1, <2>4, <3>1, <3>2, <3>4
      <4>2. InSeq(a, op[th].left)
        BY <2>3, <3>2, <3>4, <4>1 DEF ToWrite
      <4>3. op[th].left # <<>>
        BY <2>1, <4>2, FirstOrOther
      <4> QED BY <2>6, <4>1, <4>2, <4>3 DEF ToWrite
    <3> QED BY <3>3, <3>4
  <2> QED BY <2>7, <2>8, <2>9 DEF Exact
<1>6. CASE Insert(th)
  <2>1. /\ op[th].at = "insert" /\ pool' = pool \cup {t} /\ diffs' = diffs
        /\ counted' = counted
    BY <1>6 DEF Insert, At
  <2>2. op'[th].at = "idle" /\ \A x \in Threads \ {th} : op'[x] = op[x]
    BY <1>a, <1>6 DEF Insert, NoOp, Op
  <2>3. Held'
    BY <2>1 DEF Exact, Held, Orderly
  <2>4. ASSUME NEW x \in Threads PROVE Orderly(x)'
    <3>1. CASE x = th
      BY <2>2, <3>1 DEF Orderly
    <3>2. CASE x # th /\ op[x].at \in {"forget", "uncount"}
      <4>1. op[x].tx # t
        BY <1>b, <2>1, <3>2 DEF AtWork
      <4> QED BY <2>1, <2>2, <3>2, <4>1 DEF Exact, Orderly
    <3>3. CASE x # th /\ op[x].at \notin {"forget", "uncount"}
      BY <2>1, <2>2, <3>3 DEF Exact, Orderly
    <3> QED BY <3>1, <3>2, <3>3
  <2>5. Complete'
    BY <2>1, <2>2 DEF Exact, Complete, ToWrite
  <2> QED BY <2>3, <2>4, <2>5 DEF Exact
<1>7. CASE Forget(th)
  <2>1. /\ op[th].at = "forget" /\ pool' = pool /\ counted' = counted /\ t \in Txs
        /\ \A u \in Txs : diffs'[u] = IF u = t THEN {} ELSE diffs[u]
        /\ pool \subseteq Txs /\ \A x \in Threads : AtWork(x) => op[x].tx \in Txs
    BY <1>7 DEF Forget, At, Types, Removing, Before, AtWork
  <2>2. /\ op'[th].at = "uncount" => op'[th].tx = t
        /\ op'[th].at \in {"idle", "uncount"}
        /\ \A x \in Threads \ {th} : op'[x] = op[x]
    BY <1>a, <1>7 DEF Forget, NoOp, Op
  <2>3. Held'
    BY <2>1 DEF Exact, Held, Orderly
  <2>4. ASSUME NEW x \in Threads PROVE Orderly(x)'
    <3>1. CASE x = th
      BY <2>1, <2>2, <3>1 DEF Exact, Orderly
    <3>2. CASE x # th /\ op[x].at \in {"count", "insert"}
      <4>1. op[x].tx \in Txs \ {t}
        BY <1>b, <2>1, <3>2 DEF AtWork
      <4> QED BY <2>1, <2>2, <3>2, <4>1 DEF Exact, Orderly
    <3>3. CASE x # th /\ op[x].at \notin {"count", "insert"}
      BY <2>1, <2>2, <3>3 DEF Exact, Orderly, AtWork
    <3> QED BY <3>1, <3>2, <3>3
  <2>5. Complete'
    BY <2>1, <2>2 DEF Exact, Complete, ToWrite
  <2> QED BY <2>3, <2>4, <2>5 DEF Exact
<1>8. CASE Uncount(th)
  <2>1. /\ op[th] \in Ops /\ op[th].at = "uncount" /\ pool' = pool /\ diffs' = diffs
        /\ counted \in [Addresses -> SUBSET Txs] /\ t \in Txs
    BY <1>0, <1>8 DEF Uncount, At, Types, Removing
  <2>2. diffs[t] = {}
    BY <2>1 DEF Exact, Orderly
  <2> DEFINE h == Head(op[th].left)
  <2>3. counted' = [counted EXCEPT ![h] = counted[h] \ {t}]
    BY <1>8 DEF Uncount
  <2>4. /\ op'[th].at = "uncount" => op'[th].tx = t
        /\ op'[th].at \in {"idle", "uncount"}
        /\ \A x \in Threads \ {th} : op'[x] = op[x]
    BY <1>a, <1>8, <2>1 DEF Uncount, NoOp, Op, Ops
  <2>5. Held'
    BY <2>1 DEF Exact, Held
  <2>6. ASSUME NEW x \in Threads PROVE Orderly(x)'
    <3>1. CASE x = th
      BY <2>1, <2>4, <3>1 DEF Exact, Orderly
    <3>2. CASE x # th /\ op[x].at = "count"
      <4>1. Touched(t) \cap Touched(op[x].tx) = {}
        BY <1>b, <2>1, <3>2 DEF AtWork
      <4>2. \A r \in op[x].seen : r.of \in Touched(op[x].tx)
        BY <3>2 DEF SetsRight
      <4>3. \A r \in op[x].seen : r.of \in Addresses /\ t \notin counted[r.of]
        BY <2>1, <4>1, <4>2 DEF Touched, SetsRight, Takers
      <4>4. \A r \in op[x].seen : counted'[r.of] = counted[r.of]
        <5> HIDE DEF h, t
        <5> QED BY <2>1, <2>3, <4>3
      <4> QED BY <2>1, <2>4, <3>2, <4>4 DEF Exact, Orderly
    <3>3. CASE x # th /\ op[x].at # "count"
      BY <2>1, <2>4, <3>3 DEF Exact, Orderly
    <3> QED BY <3>1, <3>2, <3>3
  <2>7. Complete'
    <3> SUFFICES ASSUME NEW u \in Txs, NEW c \in diffs[u], diffs[u] = {c}, NEW a \in c,
                        u \notin counted'[a]
                 PROVE  \E x \in Threads : op'[x].at = "count" /\ op'[x].tx = u /\ ToWrite(x, a)'
      BY <2>1 DEF Complete
    <3>1. a \in Addresses /\ u \notin counted[a]
      <4>1. a \in Addresses /\ u # t
        BY <2>2 DEF Types
      <4> HIDE DEF h, t
      <4> QED BY <2>1, <2>3, <4>1
    <3>2. PICK x \in Threads : op[x].at = "count" /\ op[x].tx = u /\ ToWrite(x, a)
      BY <3>1 DEF Exact, Complete
    <3> QED BY <2>1, <2>4, <3>2 DEF ToWrite
  <2> QED BY <2>5, <2>6, <2>7 DEF Exact
<1>9. CASE \E old \in SUBSET (Old \cap pool) : RemoveExpired(th, old)
  <2>1. maps' = maps /\ op' = op
    BY <1>9 DEF RemoveExpired
  <2> QED BY <2>1, ExactUnchanged
<1>11. CASE \E passed \in SUBSET pool : RemoveUnpackable(th, passed)
  <2>1. maps' = maps /\ op' = op
    BY <1>11 DEF RemoveUnpackable
  <2> QED BY <2>1, ExactUnchanged
<1> QED BY <1>1, <1>2, <1>3, <1>4, <1>5, <1>6, <1>7, <1>8, <1>9, <1>10, <1>11 DEF Step

\* The other actions leave the maps and the operations at work alone.
LEMMA ExactNext ==
  ASSUME Types, SetsRight, Kept, ExactUnlessRaced, [Next]_vars
  PROVE  ExactUnlessRaced'
<1>0. op \in [Threads -> Ops]
  BY DEF Types
<1>1. CASE UNCHANGED vars
  <2>1. raced' = raced /\ op' = op /\ maps' = maps
    BY <1>1 DEF vars
  <2>2. Apart => Apart'
    BY <2>1 DEF Apart, AtWork
  <2> QED BY <2>1, <2>2, ExactUnchanged DEF ExactUnlessRaced
<1>2. CASE Next
  <2> SUFFICES ASSUME ~raced' PROVE Apart' /\ Exact'
    BY DEF ExactUnlessRaced
  <2>1. ~raced /\ ~RacingNow'
    BY <1>2 DEF Next, Track
  <2>2. Apart'
    BY <2>1 DEF RacingNow, Apart
  <2>3. Apart /\ Exact
    BY <2>1 DEF ExactUnlessRaced
  <2>4. CASE \E th \in Threads : Step(th)
    BY <2>2, <2>3, <2>4, ExactStep
  <2>5. CASE ReplaceLiquid \/ ChainChanges
    <3>1. maps' = maps
      BY <2>5 DEF ReplaceLiquid, ChainChanges, AppendMicroBlock, Harden, RemoveAfter
    <3>2. ~AtWork(Appender) \/ op' = op
      BY <2>5 DEF ReplaceLiquid, ChainChanges, AppendMicroBlock, Harden, RemoveAfter, AppenderIdle,
                  Idle, At, AtWork
    <3>3. \A x \in Threads : op'[x] = op[x] \/ (x = Appender /\ ~AtWork(x)')
      BY <1>0, <2>5 DEF ReplaceLiquid, ChainChanges, AppendMicroBlock, Harden, RemoveAfter, Goto,
                        AtWork, NoOp, Op
    <3> QED BY <2>2, <2>3, <3>1, <3>2, <3>3, ExactUnchanged
  <2>6. CASE \/ \E th \in Putters, t \in Submitted : PutIfNew(th, t)
             \/ \E th \in Cleaners : RemoveInvalid(th)
             \/ \E th \in Miners : PackUnconfirmed(th)
    <3>1. maps' = maps /\ op' = op
      BY <2>6 DEF PutIfNew, RemoveInvalid, PackUnconfirmed
    <3> QED BY <2>2, <2>3, <3>1, ExactUnchanged
  <2> QED BY <1>2, <2>4, <2>5, <2>6 DEF Next
<1> QED BY <1>1, <1>2

\* When no thread is inside an operation, nothing is left to count.
LEMMA PendingFollows == Types /\ Kept /\ ExactUnlessRaced => PendingExact
<1> SUFFICES ASSUME Types, Kept, ExactUnlessRaced, Quiet, ~raced, NEW t \in pool
             PROVE  \E d \in diffs[t] :
                      diffs[t] = {d} => {a \in Addresses : t \in Pending(a)} = d
  BY DEF PendingExact
<1>1. t \in Txs /\ diffs[t] # {}
  BY DEF ExactUnlessRaced, Exact, Held, Types
<1>2. PICK d \in diffs[t] : TRUE
  BY <1>1
<1>3. ASSUME diffs[t] = {d} PROVE {a \in Addresses : t \in Pending(a)} = d
  <2>1. portfolios[t] = d /\ d \subseteq Addresses
    BY <1>1, <1>3 DEF Kept, Types
  <2>2. \A a \in d : t \in counted[a]
    BY <1>1, <1>3 DEF ExactUnlessRaced, Exact, Complete, Quiet
  <2> QED BY <2>1, <2>2 DEF Pending
<1> QED BY <1>2, <1>3

\* As long as no two operations were at work on one transaction or account at once,
\* a transaction of the pool whose diff took from the same accounts at every put is
\* counted for exactly those (PessimisticPortfolios.add reads the set of an account
\* and puts it back, and leaves the sets alone when it replaces portfolios).
THEOREM PendingCounted == Spec => []PendingExact
<1>1. Init => Types /\ SetsRight /\ Kept /\ ExactUnlessRaced
  BY TypesInit, SetsInit, KeptInit, ExactInit DEF ExactUnlessRaced
<1>2. Types /\ SetsRight /\ Kept /\ ExactUnlessRaced /\ [Next]_vars
      => (Types /\ SetsRight /\ Kept /\ ExactUnlessRaced)'
  BY TypesNext, SetsNext, KeptNext, ExactNext
<1> QED BY <1>1, <1>2, PendingFollows, PTL DEF Spec

-----------------------------------------------------------------------------
(* The limit *)

\* Adding or taking an element changes a cardinality by one at most.
LEMMA OneMore ==
  ASSUME NEW S, IsFiniteSet(S), NEW T, NEW x, T \subseteq S \cup {x}
  PROVE  /\ IsFiniteSet(T) /\ Cardinality(T) \in Nat /\ Cardinality(S) \in Nat
         /\ Cardinality(T) <= Cardinality(S) + 1
         /\ T \subseteq S => Cardinality(T) <= Cardinality(S)
         /\ x \in S /\ T \subseteq S \ {x} => Cardinality(T) <= Cardinality(S) - 1
<1>1. IsFiniteSet(S \cup {x}) /\ Cardinality(S \cup {x}) <= Cardinality(S) + 1
  <2>1. Cardinality(S) \in Nat
    BY FS_CardinalityType
  <2> QED BY <2>1, FS_AddElement
<1>2. IsFiniteSet(T) /\ Cardinality(T) <= Cardinality(S \cup {x})
  BY <1>1, FS_Subset
<1>3. Cardinality(S) \in Nat /\ Cardinality(T) \in Nat /\ Cardinality(S \cup {x}) \in Nat
  BY <1>1, <1>2, FS_CardinalityType
<1>4. T \subseteq S => Cardinality(T) <= Cardinality(S)
  BY FS_Subset
<1>5. ASSUME x \in S, T \subseteq S \ {x} PROVE Cardinality(T) <= Cardinality(S) - 1
  <2>1. IsFiniteSet(S \ {x}) /\ Cardinality(S \ {x}) = Cardinality(S) - 1
    BY <1>5, FS_RemoveElement
  <2>2. T \in SUBSET (S \ {x})
    BY <1>5
  <2> QED BY <2>1, <2>2, FS_Subset
<1> QED BY <1>1, <1>2, <1>3, <1>4, <1>5

LEMMA DropsInit == Init => OnlyDrops
BY EmptySeq DEF Init, OnlyDrops, NoOp, Op, Before

\* Threads that never put get nothing to put.
LEMMA DropsNext ==
  ASSUME Types, OnlyDrops, [Next]_vars
  PROVE  OnlyDrops'
<1>0. op \in [Threads -> Ops] /\ todo \in [Threads -> Seq(Drops \cup Adds)]
  BY DEF Types
<1> USE DEF OnlyDrops
<1>1. ASSUME NEW th \in Threads, Step(th) PROVE OnlyDrops'
  <2>1. /\ \A x \in Threads \ {th} : op'[x] = op[x] /\ todo'[x] = todo[x]
    BY <1>0, <1>1 DEF Step, BeginPut, BeginRemove, Validate, AddPortfolios, ReadSet, WriteSet,
                      Insert, Forget, Uncount, RemoveExpired, RemoveUnpackable, Goto
  <2> SUFFICES ASSUME th \notin Putting PROVE todo'[th] \in Seq(Drops) /\ op'[th].at \notin Before
    BY <2>1
  <2>2. todo[th] \in Seq(Drops) /\ op[th].at \notin Before
    OBVIOUS
  <2>3. CASE BeginPut(th) \/ BeginRemove(th)
    <3>1. Head(todo[th]) \in Drops /\ Tail(todo[th]) \in Seq(Drops)
      BY <2>2, <2>3, HeadTail DEF BeginPut, BeginRemove
    <3>2. ~BeginPut(th)
      BY <3>1 DEF BeginPut, Drops, Drop, Expire, Pack
    <3>3. todo'[th] = Tail(todo[th])
      BY <1>0, <2>3 DEF BeginPut, BeginRemove
    <3>4. op'[th].at = "forget"
      BY <1>0, <2>3, <3>2 DEF BeginRemove, Goto, Op
    <3> QED BY <3>1, <3>3, <3>4 DEF Before
  <2>4. CASE Forget(th) \/ Uncount(th)
    <3>1. todo' = todo
      BY <2>4 DEF Forget, Uncount
    <3>2. op'[th].at \in {"idle", "uncount"}
      BY <1>0, <2>4 DEF Forget, Uncount, Goto, Op, NoOp, At, Ops
    <3> QED BY <2>2, <3>1, <3>2 DEF Before
  <2>5. ASSUME NEW old \in SUBSET (Old \cap pool), RemoveExpired(th, old)
        PROVE  todo'[th] \in Seq(Drops) /\ op'[th].at \notin Before
    <3>1. Tail(todo[th]) \in Seq(Drops)
      BY <2>2, <2>5, HeadTail DEF RemoveExpired
    <3>2. old \in SUBSET Txs /\ IsFiniteSet(old)
      BY FS_Subset DEF Types
    <3>3. Removals(old) \o Tail(todo[th]) \in Seq(Drops)
      BY <3>1, <3>2, RemovalsType, ConcatProperties
    <3> QED BY <1>0, <2>2, <2>5, <3>3 DEF RemoveExpired
  <2>7. ASSUME NEW passed \in SUBSET pool, RemoveUnpackable(th, passed)
        PROVE  todo'[th] \in Seq(Drops) /\ op'[th].at \notin Before
    <3>1. PICK R \in SUBSET pool : todo' = [todo EXCEPT ![th] = Removals(R) \o Tail(todo[th])]
      BY <2>7 DEF RemoveUnpackable
    <3>2. Tail(todo[th]) \in Seq(Drops)
      BY <2>2, <2>7, HeadTail DEF RemoveUnpackable
    <3>3. R \in SUBSET Txs /\ IsFiniteSet(R)
      BY FS_Subset DEF Types
    <3>4. Removals(R) \o Tail(todo[th]) \in Seq(Drops)
      BY <3>2, <3>3, RemovalsType, ConcatProperties
    <3> QED BY <1>0, <2>2, <2>7, <3>1, <3>4 DEF RemoveUnpackable
  <2>6. ~Validate(th) /\ ~AddPortfolios(th) /\ ~ReadSet(th) /\ ~WriteSet(th) /\ ~Insert(th)
    BY <2>2 DEF Validate, AddPortfolios, ReadSet, WriteSet, Insert, At, Before
  <2> QED BY <1>1, <2>3, <2>4, <2>5, <2>6, <2>7 DEF Step
<1>2. CASE ReplaceLiquid \/ ChainChanges
  <2>1. \A x \in Threads \ {Appender} : op'[x] = op[x] /\ todo'[x] = todo[x]
    BY <1>0, <1>2 DEF ReplaceLiquid, ChainChanges, AppendMicroBlock, Harden, RemoveAfter, Goto
  <2> QED BY <2>1 DEF Putting
<1>6. ASSUME NEW y \in Miners, PackUnconfirmed(y) PROVE OnlyDrops'
  <2>1. /\ op' = op /\ y \in Threads /\ todo'[y] = <<Expire, Pack>>
        /\ \A x \in Threads \ {y} : todo'[x] = todo[x]
    BY <1>0, <1>6 DEF PackUnconfirmed, Threads
  <2>2. <<Expire, Pack>> \in Seq(Drops)
    BY DEF Drops
  <2> QED BY <2>1, <2>2
<1>3. ASSUME NEW y \in Putters, NEW t \in Submitted, PutIfNew(y, t) PROVE OnlyDrops'
  <2>1. op' = op /\ \A x \in Threads \ {y} : todo'[x] = todo[x]
    BY <1>0, <1>3 DEF PutIfNew
  <2> QED BY <2>1 DEF Putting
<1>4. ASSUME NEW y \in Cleaners, RemoveInvalid(y) PROVE OnlyDrops'
  <2>1. op' = op /\ \A x \in Threads \ {y} : todo'[x] = todo[x]
    BY <1>0, <1>4 DEF RemoveInvalid
  <2>2. y \in Threads /\ todo'[y] = Append(Removals(Invalid), Expire)
    BY <1>0, <1>4 DEF RemoveInvalid, Threads
  <2>3. Invalid \in SUBSET Txs /\ IsFiniteSet(Invalid)
    BY FS_Subset DEF Invalid, Types
  <2>4. Removals(Invalid) \in Seq(Drops) /\ Expire \in Drops
    BY <2>3, RemovalsType DEF Drops
  <2>5. Append(Removals(Invalid), Expire) \in Seq(Drops)
    BY <2>4
  <2> QED BY <2>1, <2>2, <2>5
<1>5. CASE UNCHANGED vars
  BY <1>5 DEF vars, maps
<1> QED BY <1>1, <1>2, <1>3, <1>4, <1>5, <1>6 DEF Next

\* There is at most one transaction on its way for each thread that puts.
PastBounded ==
  /\ IsFiniteSet(Past) /\ Cardinality(Past) \in Nat
  /\ Cardinality(Putters) \in Nat /\ Cardinality(Past) <= Cardinality(Putters) + 1

LEMMA PastFinite == OnlyDrops => PastBounded
<1> SUFFICES ASSUME OnlyDrops PROVE PastBounded
  OBVIOUS
<1>1. IsFiniteSet(Putters)
  BY ConstantsAssumption, FS_Subset DEF Threads
<1>2. Past \subseteq Putters \cup {Appender}
  BY DEF Past, OnlyDrops, Putting
<1> QED BY <1>1, <1>2, OneMore DEF PastBounded

LEMMA RoomInit == Init => Room
<1> SUFFICES ASSUME Init PROVE Room
  OBVIOUS
<1>1. Past = {} /\ pool = {}
  BY DEF Init, Past, NoOp, Op, Before
<1>2. Cardinality(Putters) \in Nat
  BY ConstantsAssumption, FS_Subset, FS_CardinalityType DEF Threads
<1> QED BY <1>1, <1>2, FS_EmptySet, ConstantsAssumption DEF Room

\* A thread passes the comparison only while there is room, and inserts what it
\* passed with.
LEMMA RoomNext ==
  ASSUME Types, PastBounded, PastBounded', Room, [Next]_vars
  PROVE  Room'
<1>0. /\ op \in [Threads -> Ops] /\ IsFiniteSet(pool) /\ Cardinality(pool) \in Nat
      /\ MaxSize \in Nat
  BY FS_CardinalityType, ConstantsAssumption DEF Types
<1>1. /\ IsFiniteSet(Past) /\ Cardinality(Past) \in Nat
      /\ Cardinality(Putters) \in Nat /\ Cardinality(Past) <= Cardinality(Putters) + 1
  BY DEF PastBounded
<1>2. Cardinality(Past') \in Nat /\ Cardinality(Past') <= Cardinality(Putters) + 1
  BY DEF PastBounded
<1>3. ASSUME pool' \subseteq pool, Past' \subseteq Past PROVE Room'
  <2>1. /\ Cardinality(pool') \in Nat /\ Cardinality(pool') <= Cardinality(pool)
        /\ Cardinality(Past') <= Cardinality(Past)
    BY <1>0, <1>1, <1>3, OneMore
  <2> QED BY <1>0, <1>1, <1>2, <2>1 DEF Room
<1>4. ASSUME NEW th \in Threads, Step(th) PROVE Room'
  <2>0. \A x \in Threads \ {th} : op'[x] = op[x]
    BY <1>0, <1>4 DEF Step, BeginPut, BeginRemove, Validate, AddPortfolios, ReadSet, WriteSet,
                      Insert, Forget, Uncount, RemoveExpired, RemoveUnpackable, Goto
  <2>1. CASE BeginPut(th)
    <3>1. CASE HasRoom
      <4>1. pool' = pool /\ Cardinality(pool) <= MaxSize - 1
        BY <1>0, <2>1, <3>1 DEF BeginPut, HasRoom, maps
      <4> QED BY <1>0, <1>1, <1>2, <4>1 DEF Room
    <3>2. CASE ~HasRoom
      <4>1. pool' = pool /\ op'[th].at \notin Before
        BY <1>0, <2>1, <3>2 DEF BeginPut, Goto, Op, NoOp, Before, maps
      <4>2. Past' \subseteq Past
        BY <2>0, <4>1 DEF Past
      <4> QED BY <1>3, <4>1, <4>2
    <3> QED BY <3>1, <3>2
  <2>5. CASE BeginRemove(th)
    <3>1. pool' \subseteq pool /\ op'[th].at \notin Before
      BY <1>0, <2>5 DEF BeginRemove, Goto, Op, Before
    <3>2. Past' \subseteq Past
      BY <2>0, <3>1 DEF Past
    <3> QED BY <1>3, <3>1, <3>2
  <2>2. CASE Insert(th)
    <3>1. /\ pool' \subseteq pool \cup {op[th].tx} /\ th \in Past
          /\ op'[th].at \notin Before
      BY <1>0, <2>2 DEF Insert, At, Past, Goto, Op, NoOp, Before
    <3>2. Past' \subseteq Past \ {th}
      BY <2>0, <3>1 DEF Past
    <3>3. Cardinality(Past') <= Cardinality(Past) - 1
      BY <1>1, <3>1, <3>2, OneMore
    <3>4. Cardinality(pool') \in Nat /\ Cardinality(pool') <= Cardinality(pool) + 1
      BY <1>0, <3>1, OneMore
    <3> QED BY <1>0, <1>1, <1>2, <3>3, <3>4 DEF Room
  <2>3. CASE Validate(th) \/ AddPortfolios(th) \/ ReadSet(th) \/ WriteSet(th)
    <3>1. pool' = pool /\ th \in Past
      BY <2>3 DEF Validate, AddPortfolios, ReadSet, WriteSet, At, Past, Before, maps
    <3>2. Past' \subseteq Past
      BY <2>0, <3>1 DEF Past
    <3> QED BY <1>3, <3>1, <3>2
  <2>4. CASE \/ Forget(th) \/ Uncount(th)
             \/ \E old \in SUBSET (Old \cap pool) : RemoveExpired(th, old)
             \/ \E passed \in SUBSET pool : RemoveUnpackable(th, passed)
    <3>1. pool' = pool
      BY <2>4 DEF Forget, Uncount, RemoveExpired, RemoveUnpackable, maps
    <3>2. op'[th].at \notin Before
      <4>1. CASE Forget(th) \/ Uncount(th)
        BY <1>0, <4>1 DEF Forget, Uncount, Goto, Op, NoOp, At, Ops, Before
      <4>2. CASE op' = op /\ At(th, "idle")
        BY <4>2 DEF At, Before
      <4> QED BY <2>4, <4>1, <4>2 DEF RemoveExpired, RemoveUnpackable
    <3>3. Past' \subseteq Past
      BY <2>0, <3>2 DEF Past
    <3> QED BY <1>3, <3>1, <3>3
  <2> QED BY <1>4, <2>1, <2>2, <2>3, <2>4, <2>5 DEF Step
<1>5. CASE ReplaceLiquid \/ ChainChanges
  <2>1. pool' = pool
    BY <1>5 DEF ReplaceLiquid, ChainChanges, AppendMicroBlock, Harden, RemoveAfter, maps
  <2>2. \A x \in Threads : op'[x] # op[x] => op'[x].at \in {"idle", "harden"}
    BY <1>0, <1>5 DEF ReplaceLiquid, ChainChanges, AppendMicroBlock, Harden, RemoveAfter, Goto,
                      Op, NoOp
  <2>3. Past' \subseteq Past
    BY <2>2 DEF Past, Before
  <2> QED BY <1>3, <2>1, <2>3
<1>6. CASE UNCHANGED <<pool, op>>
  BY <1>3, <1>6 DEF Past
<1>7. CASE \/ \E th \in Putters, t \in Submitted : PutIfNew(th, t)
           \/ \E th \in Cleaners : RemoveInvalid(th)
           \/ \E th \in Miners : PackUnconfirmed(th)
           \/ UNCHANGED vars
  BY <1>6, <1>7 DEF PutIfNew, RemoveInvalid, PackUnconfirmed, vars, maps
<1> QED BY <1>4, <1>5, <1>7 DEF Next

\* The pool, with what is on its way into it, exceeds utxSettings.maxSize by at most
\* one transaction for each further thread that puts (putIfNew compares the size long
\* before it inserts).
THEOREM LimitKept == Spec => []WithinLimit
<1>1. Init => Types /\ SetsRight /\ OnlyDrops /\ Room
  BY TypesInit, SetsInit, DropsInit, RoomInit
<1>2. /\ Types /\ SetsRight /\ OnlyDrops /\ Room /\ [Next]_vars
      => (Types /\ SetsRight /\ OnlyDrops /\ Room)'
  <2>1. Types /\ PastBounded /\ PastBounded' /\ Room /\ [Next]_vars => Room'
    BY RoomNext
  <2> QED BY <2>1, TypesNext, SetsNext, DropsNext, PastFinite, PTL
<1>3. Room => WithinLimit
  BY DEF Room, WithinLimit, Past, Before
<1> QED BY <1>1, <1>2, <1>3, PTL DEF Spec
=============================================================================
