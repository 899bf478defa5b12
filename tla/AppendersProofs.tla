-------------------------- MODULE AppendersProofs --------------------------
(***************************************************************************)
(* What holds of the chain and of the tasks that change it, for every      *)
(* network: any set of blocks and microblocks, any limits and any rollback *)
(* depth.                                                                  *)
(*                                                                         *)
(* First BlockchainUpdater by itself.  Then the appender tasks: they       *)
(* change the chain by its steps only, so everything proved of it holds of *)
(* the node, in the middle of a fork switch too.  An extension task keeps  *)
(* to its plan and ends with nothing lost.                                 *)
(***************************************************************************)
EXTENDS Appenders, SequenceTheorems, FiniteSetTheorems, TLAPS

-----------------------------------------------------------------------------
(* The liquid block *)

\* A known id of the liquid block has a position, and PositionOf finds it.
LEMMA PositionFound ==
  ASSUME NEW id, Contains(id)
  PROVE  /\ ng # NoNg
         /\ PositionOf(id) \in Positions
         /\ IdAt(PositionOf(id)) = id
  BY DEF Contains, PositionOf

\* What is forged at any position of the liquid block is a block.
LEMMA ForgedType ==
  ASSUME TypeOK, ng # NoNg, NEW n \in Positions
  PROVE  /\ ng \in NgState
         /\ TxsUpTo(n) \in SUBSET Txs
         /\ IdAt(n) \in Ids
         /\ ForgedBlock(n) \in Block
  <1>1. ng \in NgState /\ ng.base \in Block /\ ng.micros \in Seq(MicroBlock)
    BY DEF TypeOK, NgState
  <1>2. \A i \in 1 .. Len(ng.micros) : ng.micros[i] \in MicroBlock
    BY <1>1, ElementOfSeq
  <1>3. n \in Nat /\ n <= Len(ng.micros) /\ Len(ng.micros) \in Nat
    BY <1>1, LenProperties DEF Positions
  <1>4. TxsUpTo(n) \in SUBSET Txs
    BY <1>1, <1>2, <1>3 DEF TxsUpTo, Block, MicroBlock
  <1>5. IdAt(n) \in Ids
    BY <1>1, <1>2, <1>3 DEF IdAt, Block, MicroBlock
  <1> QED
    BY <1>1, <1>4, <1>5 DEF ForgedBlock, Block

\* The whole liquid block is one of the positions.
LEMMA WholeLiquid ==
  ASSUME TypeOK, ng # NoNg
  PROVE  Len(ng.micros) \in Positions /\ LiquidTxs \in SUBSET Txs
  <1>1. Len(ng.micros) \in Nat
    BY LenProperties DEF TypeOK, NgState
  <1> QED
    BY <1>1, ForgedType DEF Positions, LiquidTxs

-----------------------------------------------------------------------------
(* The persisted chain *)

LEMMA PersistedElements ==
  ASSUME TypeOK
  PROVE  /\ Len(persisted) \in Nat
         /\ DOMAIN persisted = 1 .. Len(persisted)
         /\ \A h \in 1 .. Len(persisted) : persisted[h] \in PersistedBlock
         /\ persisted # <<>> <=> Len(persisted) > 0
  <1>1. persisted \in Seq(PersistedBlock)
    BY DEF TypeOK
  <1>2. persisted # <<>> => Len(persisted) \in Nat \ {0}
    BY <1>1, EmptySeq
  <1>3. persisted = <<>> => Len(persisted) = 0
    BY EmptySeq
  <1> QED
    BY <1>1, <1>2, <1>3, LenProperties, ElementOfSeq

\* What is read off the persisted chain.
LEMMA PersistedType ==
  ASSUME TypeOK
  PROVE  /\ PersistedTxs \in SUBSET Txs
         /\ PersistedScore \in Nat
         /\ PersistedCarry \in SUBSET Txs
         /\ BlockLimit \in Nat
  <1>1. BlockLimit \in Nat
    BY PersistedElements, LimitAssumption DEF BlockLimit, TotalConstraint
  <1>2. PersistedTxs \in SUBSET Txs
    BY PersistedElements DEF PersistedTxs, PersistedBlock, Block
  <1>3. persisted # <<>> => persisted[Len(persisted)] \in PersistedBlock
    BY PersistedElements
  <1>4. PersistedScore \in Nat /\ PersistedCarry \in SUBSET Txs
    BY <1>3 DEF PersistedScore, PersistedCarry, PersistedBlock
  <1> QED
    BY <1>1, <1>2, <1>4

\* The block that hardening adds, and what stays below it.
LEMMA AppendPersistedAdds ==
  ASSUME TypeOK, NEW b \in Block, NEW carry \in SUBSET Txs,
         NEW inherited \in SUBSET Txs, AppendPersisted(b, carry, inherited)
  PROVE  /\ persisted' \in Seq(PersistedBlock)
         /\ safeRollbackHeight' \in Nat
         /\ Len(persisted') = Len(persisted) + 1
         /\ \A h \in 1 .. Len(persisted) : persisted'[h] = persisted[h]
         /\ persisted'[Len(persisted) + 1] =
              [block |-> b, carry |-> carry, inherited |-> inherited,
               score |-> PersistedScore + b.score]
  <1> DEFINE new == [block |-> b, carry |-> carry, inherited |-> inherited,
                     score |-> PersistedScore + b.score]
  <1>1. new \in PersistedBlock
    BY PersistedType DEF PersistedBlock, Block
  <1>2. persisted \in Seq(PersistedBlock) /\ persisted' = Append(persisted, new)
    BY DEF TypeOK, AppendPersisted
  <1>3. safeRollbackHeight' \in Nat
    BY PersistedElements, LimitAssumption DEF AppendPersisted, TypeOK
  <1> HIDE DEF new
  <1>4. /\ persisted' \in Seq(PersistedBlock)
        /\ Len(persisted') = Len(persisted) + 1
        /\ \A h \in 1 .. Len(persisted) : persisted'[h] = persisted[h]
        /\ persisted'[Len(persisted) + 1] = new
    BY <1>1, <1>2, AppendProperties
  <1> QED
    BY <1>3, <1>4 DEF new

\* removeAfter leaves a prefix of the persisted chain, and never an empty one
\* of a chain that was not.
LEMMA RemoveAfterCuts ==
  ASSUME TypeOK, NEW id, RemoveAfter(id), ~Contains(id)
  PROVE  /\ persisted' \in Seq(PersistedBlock)
         /\ Len(persisted') <= Len(persisted)
         /\ Len(persisted) > 0 => Len(persisted') > 0
         /\ \A h \in 1 .. Len(persisted') : persisted'[h] = persisted[h]
  <1>1. CASE CanRollbackTo(id)
    <2>1. PICK h \in 1 .. Len(persisted) : h = HeightAt(id)
      BY <1>1, PersistedElements DEF CanRollbackTo, PersistedAt, HeightAt
    <2>2. persisted' = SubSeq(persisted, 1, h)
      BY <1>1, <2>1 DEF RemoveAfter
    <2>3. \A i \in 1 .. h : persisted[i] \in PersistedBlock
      BY <2>1, PersistedElements
    <2>4. /\ persisted' \in Seq(PersistedBlock)
          /\ Len(persisted') = h
          /\ \A i \in 1 .. h : persisted'[i] = persisted[i]
      BY <2>1, <2>2, <2>3, SubSeqProperties, PersistedElements
    <2> QED
      BY <2>1, <2>4, PersistedElements
  <1>2. CASE ~CanRollbackTo(id)
    <2>1. persisted' = persisted
      BY <1>2 DEF RemoveAfter
    <2> QED
      BY <2>1, PersistedElements DEF TypeOK
  <1> QED
    BY <1>1, <1>2

-----------------------------------------------------------------------------
(* Type correctness: in particular restTotalConstraint never falls below 0 *)

\* What a node starts with, when it is new and after a restart.
LEMMA StartTyped ==
  ASSUME Len(persisted) \in Nat
  PROVE  LiquidAtStart \in NgState \cup {NoNg} /\ RestAtStart \in Nat
  <1>1. NewNgState(Genesis, {}) \in NgState
    <2>1. Genesis \in Block
      BY SignedAssumption
    <2>2. <<>> \in Seq(MicroBlock)
      BY EmptySeq
    <2> QED
      BY <2>1, <2>2 DEF NewNgState, NgState
  <1>2. persisted = <<>> => BlockLimit = LimitBefore
    BY LimitAssumption, EmptySeq DEF BlockLimit, TotalConstraint
  <1>3. Size(Genesis.txs) \in Nat /\ BlockLimit \in Nat
    BY SignedAssumption, SizeAssumption, LimitAssumption
    DEF BlockLimit, TotalConstraint, Block
  <1> QED
    BY <1>1, <1>2, <1>3, LimitAssumption DEF LiquidAtStart, RestAtStart

LEMMA InitTyped == Init => TypeOK
  <1> SUFFICES ASSUME Init PROVE TypeOK
    OBVIOUS
  <1>1. persisted = <<>> /\ Len(persisted) \in Nat
    BY EmptySeq DEF Init
  <1>2. persisted \in Seq(PersistedBlock)
    BY <1>1, EmptySeq
  <1> QED
    BY <1>1, <1>2, StartTyped DEF Init, TypeOK

\* A block that fits leaves a natural number of the limit.
LEMMA SetLiquidTyped ==
  ASSUME TypeOK, NEW b \in Block, NEW fees \in SUBSET Txs, NEW on,
         Fits(b, on), SetLiquid(b, fees)
  PROVE  ng' \in NgState /\ restTotalConstraint' \in Nat
  <1>1. Size(b.txs) \in Nat /\ Size(b.txs) <= BlockLimit
    BY SizeAssumption DEF Fits, Block
  <1>2. <<>> \in Seq(MicroBlock)
    BY EmptySeq
  <1>3. restTotalConstraint' \in Nat
    BY <1>1, PersistedType DEF SetLiquid
  <1> QED
    BY <1>2, <1>3 DEF SetLiquid, NewNgState, NgState

LEMMA NextTyped == TypeOK /\ [Next]_vars => TypeOK'
  <1> SUFFICES ASSUME TypeOK, [Next]_vars PROVE TypeOK'
    OBVIOUS
  <1>1. ASSUME NEW b \in Blocks, ProcessBlock(b) PROVE TypeOK'
    <2>0. b \in Block
      BY SignedAssumption
    <2>1. CASE StartLiquidBlock(b)
      BY <2>0, <2>1, PersistedType, SetLiquidTyped
      DEF StartLiquidBlock, StartsLiquid, TypeOK
    <2>2. CASE ReplaceLiquidBlock(b)
      BY <2>0, <2>2, PersistedType, SetLiquidTyped
      DEF ReplaceLiquidBlock, Supersedes, TypeOK
    <2>3. CASE HardenLiquidBlock(b)
      <3> DEFINE n == PositionOf(b.ref)
      <3>1. ng # NoNg /\ n \in Positions
        BY <2>3, PositionFound DEF HardenLiquidBlock, Hardens, BuildsOnLiquid
      <3>2. /\ ForgedBlock(n) \in Block
            /\ TxsUpTo(n) \in SUBSET Txs
            /\ ng.inherited \in SUBSET Txs
        BY <3>1, ForgedType DEF NgState
      <3>3. persisted' \in Seq(PersistedBlock) /\ safeRollbackHeight' \in Nat
        BY <2>3, <3>2, AppendPersistedAdds DEF HardenLiquidBlock
      <3>4. ng' \in NgState /\ restTotalConstraint' \in Nat
        BY <2>0, <2>3, <3>2, SetLiquidTyped DEF HardenLiquidBlock, Hardens
      <3> QED
        BY <3>3, <3>4 DEF TypeOK
    <2>4. CASE KeepLiquidBlock(b) \/ RejectBlock(b)
      BY <2>4 DEF KeepLiquidBlock, RejectBlock, vars, TypeOK
    <2> QED
      BY <1>1, <2>1, <2>2, <2>3, <2>4 DEF ProcessBlock
  <1>2. ASSUME NEW m \in MicroBlocks, ProcessMicroBlock(m) PROVE TypeOK'
    <2>1. m \in MicroBlock /\ ng \in NgState /\ ng.micros \in Seq(MicroBlock)
      BY <1>2, SignedAssumption
      DEF ProcessMicroBlock, AcceptsMicroBlock, TypeOK, NgState
    <2>2. Size(m.txs) \in Nat
      BY <2>1, SizeAssumption DEF MicroBlock
    <2>3. Append(ng.micros, m) \in Seq(MicroBlock)
      BY <2>1, AppendProperties
    <2>4. ng' \in NgState
      BY <1>2, <2>1, <2>3 DEF ProcessMicroBlock, NgState
    <2> QED
      BY <1>2, <2>2, <2>4 DEF ProcessMicroBlock, AcceptsMicroBlock, TypeOK
  <1>3. ASSUME NEW id \in Ids, RemoveAfter(id) PROVE TypeOK'
    <2>1. CASE Contains(id)
      BY <1>3, <2>1 DEF RemoveAfter, vars, TypeOK
    <2>2. CASE ~Contains(id)
      BY <1>3, <2>2, RemoveAfterCuts DEF RemoveAfter, TypeOK
    <2> QED
      BY <2>1, <2>2
  <1>4. CASE Restart
    BY <1>4, StartTyped, PersistedElements DEF Restart, TypeOK
  <1>5. CASE UNCHANGED vars
    BY <1>5 DEF vars, TypeOK
  <1> QED
    BY <1>1, <1>2, <1>3, <1>4, <1>5 DEF Next

\* The state is well formed and the room left in the liquid block is never
\* negative: processBlock and processMicroBlock refuse what does not fit.
THEOREM TypeCorrect == Spec => []TypeOK
  BY InitTyped, NextTyped, PTL DEF Spec

-----------------------------------------------------------------------------
(* The links of the chain *)

\* The key of the liquid block was signed as it stands.
BaseSigned == ng # NoNg => ng.base \in Blocks

LinkInv == TypeOK /\ ChainLinked /\ BaseSigned

\* What hardening at a position persists: the forged block keeps the key's
\* references and takes the id the new block refers to.
LEMMA HardenFacts ==
  ASSUME TypeOK, NEW b \in Blocks, HardenLiquidBlock(b),
         NEW n, n = PositionOf(b.ref)
  PROVE  /\ ng # NoNg /\ ng \in NgState
         /\ n \in Positions
         /\ b \in Block
         /\ TxsUpTo(n) \in SUBSET Txs
         /\ Len(persisted') = Len(persisted) + 1
         /\ \A h \in 1 .. Len(persisted) : persisted'[h] = persisted[h]
         /\ persisted'[Len(persisted')].block = ForgedBlock(n)
         /\ persisted'[Len(persisted')].carry = TxsUpTo(n)
         /\ persisted'[Len(persisted')].inherited = ng.inherited
         /\ persisted'[Len(persisted')].score = PersistedScore + ng.base.score
         /\ ForgedBlock(n).id = b.ref
         /\ ForgedBlock(n).ref = ng.base.ref
         /\ ForgedBlock(n).txs = TxsUpTo(n)
         /\ ForgedBlock(n) \in Blocks
         /\ ng' = NewNgState(b, TxsUpTo(n))
  <1>1. Contains(b.ref) /\ ForgedBlock(n) \in Blocks
    BY DEF HardenLiquidBlock, Hardens, BuildsOnLiquid
  <1>2. ng # NoNg /\ n \in Positions /\ IdAt(n) = b.ref
    BY <1>1, PositionFound
  <1>3. /\ ng \in NgState /\ ForgedBlock(n) \in Block /\ TxsUpTo(n) \in SUBSET Txs
        /\ ng.inherited \in SUBSET Txs /\ ng.base \in Block
    BY <1>2, ForgedType DEF NgState
  <1>4. /\ AppendPersisted(ForgedBlock(n), TxsUpTo(n), ng.inherited)
        /\ ng' = NewNgState(b, TxsUpTo(n))
    BY DEF HardenLiquidBlock, SetLiquid
  <1>5. /\ ForgedBlock(n).id = b.ref
        /\ ForgedBlock(n).ref = ng.base.ref
        /\ ForgedBlock(n).score = ng.base.score
        /\ ForgedBlock(n).txs = TxsUpTo(n)
    BY <1>2, <1>3 DEF ForgedBlock, Block
  <1>6. /\ Len(persisted') = Len(persisted) + 1
        /\ \A h \in 1 .. Len(persisted) : persisted'[h] = persisted[h]
        /\ persisted'[Len(persisted) + 1] =
             [block |-> ForgedBlock(n), carry |-> TxsUpTo(n),
              inherited |-> ng.inherited,
              score |-> PersistedScore + ForgedBlock(n).score]
    BY <1>3, <1>4, AppendPersistedAdds
  <1>7. b \in Block
    BY SignedAssumption
  <1> QED
    BY <1>1, <1>2, <1>3, <1>4, <1>5, <1>6, <1>7

LEMMA InitLinked == Init => LinkInv
  <1> SUFFICES ASSUME Init PROVE LinkInv
    OBVIOUS
  <1>1. persisted = <<>> /\ ng = NewNgState(Genesis, {})
    BY DEF Init, LiquidAtStart
  <1>2. ng.base = Genesis
    BY <1>1 DEF NewNgState
  <1> QED
    BY <1>1, <1>2, InitTyped, SignedAssumption
    DEF LinkInv, ChainLinked, BaseSigned

LEMMA NextLinked == LinkInv /\ [Next]_vars => LinkInv'
  <1> SUFFICES ASSUME LinkInv, [Next]_vars PROVE ChainLinked' /\ BaseSigned'
    BY NextTyped DEF LinkInv
  <1> USE DEF LinkInv
  <1>1. ASSUME NEW b \in Blocks, StartLiquidBlock(b) \/ ReplaceLiquidBlock(b)
        PROVE  ChainLinked' /\ BaseSigned'
    <2>1. persisted' = persisted /\ ng'.base = b
      BY <1>1 DEF StartLiquidBlock, ReplaceLiquidBlock, SetLiquid, NewNgState
    <2>2. b.ref = IF persisted = <<>> THEN Genesis.ref
                  ELSE persisted[Len(persisted)].block.id
      BY <1>1
      DEF StartLiquidBlock, StartsLiquid, IsLastPersisted, ReplaceLiquidBlock,
          Supersedes, IsBetter, IsLongerVersion, IsSameVersion, Competes, ChainLinked
    <2> QED
      BY <2>1, <2>2 DEF ChainLinked, BaseSigned
  <1>2. ASSUME NEW b \in Blocks, HardenLiquidBlock(b)
        PROVE  ChainLinked' /\ BaseSigned'
    <2> DEFINE n == PositionOf(b.ref)
               top == Len(persisted) + 1
    <2>1. /\ ng # NoNg
          /\ Len(persisted') = top
          /\ \A h \in 1 .. Len(persisted) : persisted'[h] = persisted[h]
          /\ persisted'[top].block.id = b.ref
          /\ persisted'[top].block.ref = ng.base.ref
          /\ ng'.base = b
      BY <1>2, HardenFacts DEF NewNgState
    <2>2. TypeOK' /\ Len(persisted) \in Nat
      BY NextTyped, PersistedElements
    <2>3. DOMAIN persisted' = 1 .. top /\ persisted' # <<>>
      BY <2>1, <2>2, LenProperties, EmptySeq DEF TypeOK
    <2>4. \A h \in 2 .. top : persisted'[h].block.ref = persisted'[h - 1].block.id
      <3> SUFFICES ASSUME NEW h \in 2 .. top
                   PROVE  persisted'[h].block.ref = persisted'[h - 1].block.id
        OBVIOUS
      <3>1. CASE h = top
        <4>1. persisted # <<>> /\ h - 1 = Len(persisted) /\ h - 1 \in 1 .. Len(persisted)
          BY <2>2, <3>1, PersistedElements
        <4> QED
          BY <2>1, <3>1, <4>1 DEF ChainLinked
      <3>2. CASE h # top
        <4>1. h \in 1 .. Len(persisted) /\ h - 1 \in 1 .. Len(persisted) /\ h > 1
          BY <2>2, <3>2
        <4> QED
          BY <2>1, <4>1, PersistedElements DEF ChainLinked
      <3> QED
        BY <3>1, <3>2
    <2>5. persisted'[1].block.ref = Genesis.ref
      BY <2>1, <2>2, PersistedElements DEF ChainLinked
    <2> QED
      BY <2>1, <2>2, <2>3, <2>4, <2>5 DEF ChainLinked, BaseSigned
  <1>3. ASSUME NEW m \in MicroBlocks, ProcessMicroBlock(m)
        PROVE  ChainLinked' /\ BaseSigned'
    <2>1. persisted' = persisted /\ ng # NoNg /\ ng'.base = ng.base
      BY <1>3 DEF ProcessMicroBlock, AcceptsMicroBlock, TypeOK, NgState
    <2> QED
      BY <2>1 DEF ChainLinked, BaseSigned
  <1>4. ASSUME NEW id \in Ids, persisted # <<>> \/ Contains(id), RemoveAfter(id)
        PROVE  ChainLinked' /\ BaseSigned'
    <2>1. CASE Contains(id)
      BY <1>4, <2>1 DEF RemoveAfter, vars, ChainLinked, BaseSigned
    <2>2. CASE ~Contains(id)
      <3>1. /\ Len(persisted') <= Len(persisted) /\ Len(persisted') > 0
            /\ \A h \in 1 .. Len(persisted') : persisted'[h] = persisted[h]
            /\ ng' = NoNg
        BY <1>4, <2>2, RemoveAfterCuts, PersistedElements DEF RemoveAfter
      <3>2. TypeOK'
        BY NextTyped
      <3>3. /\ DOMAIN persisted' = 1 .. Len(persisted') /\ persisted' # <<>>
            /\ Len(persisted') \in Nat
        BY <3>1, <3>2, LenProperties, EmptySeq DEF TypeOK
      <3> QED
        BY <3>1, <3>3, PersistedElements DEF ChainLinked, BaseSigned
    <2> QED
      BY <2>1, <2>2
  <1>5. CASE Restart
    <2>1. persisted' = persisted /\ ng' = LiquidAtStart
      BY <1>5 DEF Restart
    <2>2. ng' # NoNg => persisted = <<>> /\ ng'.base = Genesis
      BY <2>1 DEF LiquidAtStart, NewNgState
    <2> QED
      BY <2>1, <2>2, SignedAssumption DEF ChainLinked, BaseSigned
  <1>6. ASSUME UNCHANGED vars PROVE ChainLinked' /\ BaseSigned'
    BY <1>6 DEF vars, ChainLinked, BaseSigned
  <1> QED
    BY <1>1, <1>2, <1>3, <1>4, <1>5, <1>6
    DEF Next, ProcessBlock, KeepLiquidBlock, RejectBlock

\* The node is never on a chain with a missing link.
THEOREM ChainStaysLinked == Spec => []ChainLinked
  <1>1. LinkInv => ChainLinked
    BY DEF LinkInv
  <1> QED
    BY <1>1, InitLinked, NextLinked, PTL DEF Spec

-----------------------------------------------------------------------------
(* Replay: no transaction twice, none before what it needs *)

\* ChainReplays is not inductive: the node may harden any prefix of the liquid
\* block, so every prefix has to be applicable and not only the whole.
PrefixesApply ==
  ng # NoNg =>
    \A n \in Positions : Applicable(TxsUpTo(n), PersistedTxs)

BelowApplies ==
  \A h \in DOMAIN persisted : Applicable(persisted[h].block.txs, TxsBelow(h))

ReplayInv == LinkInv /\ BelowApplies /\ PrefixesApply

\* Adding what is applicable next keeps the whole applicable.
LEMMA ApplicableUnion ==
  ASSUME NEW T, NEW U, NEW on,
         Applicable(T, on), Applicable(U, on \cup T)
  PROVE  Applicable(T \cup U, on)
  BY DEF Applicable

\* A new liquid block has one position, its key.
LEMMA NewLiquid ==
  ASSUME NEW b, NEW fees, ng' = NewNgState(b, fees)
  PROVE  /\ ng'.base = b /\ ng'.inherited = fees /\ ng'.micros = <<>>
         /\ Positions' = {0}
         /\ TxsUpTo(0)' = b.txs
         /\ LiquidTxs' = b.txs
  <1>1. ng'.base = b /\ ng'.inherited = fees /\ ng'.micros = <<>>
    BY DEF NewNgState
  <1>2. Len(ng'.micros) = 0
    BY <1>1, EmptySeq
  <1>3. TxsUpTo(0)' = b.txs
    BY <1>1 DEF TxsUpTo
  <1> QED
    BY <1>1, <1>2, <1>3 DEF Positions, LiquidTxs

\* The transactions below a height depend on the blocks below it alone.
LEMMA SameBelow ==
  ASSUME NEW h \in Nat, \A i \in 1 .. h - 1 : persisted'[i] = persisted[i]
  PROVE  TxsBelow(h)' = TxsBelow(h)
  BY DEF TxsBelow

LEMMA PersistedTxsAreBelow ==
  ASSUME TypeOK
  PROVE  PersistedTxs = TxsBelow(Len(persisted) + 1)
  BY PersistedElements DEF PersistedTxs, TxsBelow

\* A chain cut back, or left as it was, still replays.
LEMMA CutReplays ==
  ASSUME TypeOK, TypeOK', BelowApplies, Len(persisted') <= Len(persisted),
         \A h \in 1 .. Len(persisted') : persisted'[h] = persisted[h]
  PROVE  BelowApplies'
  <1>1. /\ DOMAIN persisted' = 1 .. Len(persisted')
        /\ Len(persisted') \in Nat /\ Len(persisted) \in Nat
    BY LenProperties, PersistedElements DEF TypeOK
  <1> SUFFICES ASSUME NEW h \in 1 .. Len(persisted')
               PROVE  Applicable(persisted'[h].block.txs, TxsBelow(h)')
    BY <1>1 DEF BelowApplies, Applicable
  <1>2. TxsBelow(h)' = TxsBelow(h)
    BY <1>1, SameBelow
  <1>3. h \in DOMAIN persisted
    BY <1>1, PersistedElements
  <1> QED
    BY <1>2, <1>3 DEF BelowApplies

\* The transactions of a sequence of microblocks with one more at its end.
LEMMA UnionGrows ==
  ASSUME NEW k \in Nat, NEW s, NEW t, NEW longer, NEW shorter,
         \A i \in 1 .. k : t[i] = s[i],
         longer = UNION {t[i].txs : i \in 1 .. k + 1},
         shorter = UNION {s[i].txs : i \in 1 .. k}
  PROVE  longer = shorter \cup t[k + 1].txs
  <1>1. \A e : e \in longer <=> \E i \in 1 .. k + 1 : e \in t[i].txs
    OBVIOUS
  <1>2. \A e : e \in shorter <=> \E i \in 1 .. k : e \in s[i].txs
    OBVIOUS
  <1>3. \A i : i \in 1 .. k + 1 <=> i \in 1 .. k \/ i = k + 1
    OBVIOUS
  <1>4. \A e : e \in longer <=> e \in shorter \/ e \in t[k + 1].txs
    BY <1>1, <1>2, <1>3
  <1> QED
    BY <1>4

\* What a microblock adds to the positions of the liquid block.
LEMMA MicroBlockAdds ==
  ASSUME TypeOK, NEW m \in MicroBlocks, ProcessMicroBlock(m)
  PROVE  /\ ng # NoNg /\ ng \in NgState /\ m \in MicroBlock
         /\ ng'.base = ng.base /\ ng'.inherited = ng.inherited
         /\ Len(ng.micros) \in Nat
         /\ Len(ng'.micros) = Len(ng.micros) + 1
         /\ DOMAIN ng'.micros = 1 .. Len(ng.micros) + 1
         /\ ng'.micros[Len(ng.micros) + 1] = m
         /\ \A i \in 1 .. Len(ng.micros) : ng'.micros[i] = ng.micros[i]
         /\ \A n \in Positions : TxsUpTo(n)' = TxsUpTo(n) /\ IdAt(n)' = IdAt(n)
         /\ LiquidTxs' = LiquidTxs \cup m.txs
         /\ Positions' = Positions \cup {Len(ng.micros) + 1}
  <1>1. /\ ng # NoNg /\ ng \in NgState /\ m \in MicroBlock
        /\ ng.micros \in Seq(MicroBlock)
        /\ ng' = [ng EXCEPT !.micros = Append(@, m)]
    BY SignedAssumption DEF ProcessMicroBlock, AcceptsMicroBlock, TypeOK, NgState
  <1>2. /\ ng'.base = ng.base /\ ng'.inherited = ng.inherited
        /\ ng'.micros = Append(ng.micros, m)
    BY <1>1 DEF NgState
  <1>3. /\ Len(ng.micros) \in Nat
        /\ Len(ng'.micros) = Len(ng.micros) + 1
        /\ DOMAIN ng'.micros = 1 .. Len(ng.micros) + 1
        /\ ng'.micros[Len(ng.micros) + 1] = m
        /\ \A i \in 1 .. Len(ng.micros) : ng'.micros[i] = ng.micros[i]
    BY <1>1, <1>2, AppendProperties, LenProperties
  <1>4. \A n \in Positions : TxsUpTo(n)' = TxsUpTo(n) /\ IdAt(n)' = IdAt(n)
    BY <1>2, <1>3 DEF Positions, TxsUpTo, IdAt
  <1>5. LiquidTxs' = LiquidTxs \cup m.txs
    <2>1. PICK k \in Nat : k = Len(ng.micros)
      BY <1>3
    <2>2. LiquidTxs = TxsUpTo(k) /\ LiquidTxs' = TxsUpTo(k + 1)'
      BY <1>3, <2>1 DEF LiquidTxs
    <2> DEFINE longer == UNION {ng'.micros[i].txs : i \in 1 .. k + 1}
               shorter == UNION {ng.micros[i].txs : i \in 1 .. k}
    <2>3. TxsUpTo(k + 1)' = ng.base.txs \cup longer
      BY <1>2 DEF TxsUpTo
    <2>4. TxsUpTo(k) = ng.base.txs \cup shorter
      BY DEF TxsUpTo
    <2>5. PICK L, S : L = longer /\ S = shorter
      OBVIOUS
    <2>6. L = S \cup ng'.micros[k + 1].txs
      <3>1. \A i \in 1 .. k : ng'.micros[i] = ng.micros[i]
        BY <1>3, <2>1
      <3> QED
        BY <2>5, <3>1, UnionGrows
    <2>7. ng'.micros[k + 1] = m
      BY <1>3, <2>1
    <2> HIDE DEF longer, shorter
    <2> QED
      BY <2>2, <2>3, <2>4, <2>5, <2>6, <2>7
  <1>6. Positions' = Positions \cup {Len(ng.micros) + 1}
    BY <1>3 DEF Positions
  <1> QED
    BY <1>1, <1>2, <1>3, <1>4, <1>5, <1>6

\* Hardening moves the forged prefix into the persisted transactions.
LEMMA HardenMovesTxs ==
  ASSUME TypeOK, TypeOK', NEW b \in Blocks, HardenLiquidBlock(b),
         NEW n, n = PositionOf(b.ref)
  PROVE  PersistedTxs' = PersistedTxs \cup TxsUpTo(n)
  <1>1. PICK k \in Nat : k = Len(persisted)
    BY PersistedElements
  <1>2. /\ Len(persisted') = k + 1
        /\ \A h \in 1 .. k : persisted'[h] = persisted[h]
        /\ persisted'[k + 1].block.txs = TxsUpTo(n)
    BY <1>1, HardenFacts
  <1>3. DOMAIN persisted = 1 .. k /\ DOMAIN persisted' = 1 .. k + 1
    BY <1>1, <1>2, LenProperties, PersistedElements DEF TypeOK
  <1>4. \A e : e \in PersistedTxs' <=> \E h \in 1 .. k + 1 : e \in persisted'[h].block.txs
    BY <1>3 DEF PersistedTxs
  <1>5. \A e : e \in PersistedTxs <=> \E h \in 1 .. k : e \in persisted[h].block.txs
    BY <1>3 DEF PersistedTxs
  <1>6. \A h : h \in 1 .. k + 1 <=> h \in 1 .. k \/ h = k + 1
    OBVIOUS
  <1>7. \A e : e \in PersistedTxs' <=> e \in PersistedTxs \/ e \in TxsUpTo(n)
    BY <1>2, <1>4, <1>5, <1>6
  <1> QED
    BY <1>7

LEMMA InitReplays == Init => ReplayInv
  <1> SUFFICES ASSUME Init PROVE BelowApplies /\ PrefixesApply
    BY InitLinked DEF ReplayInv
  <1>1. persisted = <<>> /\ ng = NewNgState(Genesis, {}) /\ DOMAIN persisted = {}
    BY DEF Init, LiquidAtStart
  <1>2. Len(ng.micros) = 0 /\ ng.base = Genesis
    BY <1>1, EmptySeq DEF NewNgState
  <1>3. Positions = {0} /\ TxsUpTo(0) = Genesis.txs /\ PersistedTxs = {}
    BY <1>1, <1>2 DEF Positions, TxsUpTo, PersistedTxs
  <1>4. Applicable(Genesis.txs, {})
    BY TxsAssumption DEF Applicable
  <1> QED
    BY <1>1, <1>3, <1>4 DEF BelowApplies, PrefixesApply

LEMMA NextReplays == ReplayInv /\ [Next]_vars => ReplayInv'
  <1> SUFFICES ASSUME ReplayInv, [Next]_vars PROVE BelowApplies' /\ PrefixesApply'
    BY NextLinked DEF ReplayInv
  <1>0. TypeOK /\ TypeOK' /\ BelowApplies /\ PrefixesApply /\ LinkInv
    BY NextTyped DEF ReplayInv, LinkInv
  <1>1. ASSUME NEW b \in Blocks, StartLiquidBlock(b) \/ ReplaceLiquidBlock(b)
        PROVE  BelowApplies' /\ PrefixesApply'
    <2>1. /\ persisted' = persisted
          /\ ng' = NewNgState(b, PersistedCarry)
          /\ Applicable(b.txs, PersistedTxs)
      BY <1>1 DEF StartLiquidBlock, StartsLiquid, ReplaceLiquidBlock, Supersedes,
                  SetLiquid, Fits
    <2>2. BelowApplies' /\ PersistedTxs' = PersistedTxs
      BY <1>0, <2>1 DEF BelowApplies, TxsBelow, PersistedTxs
    <2>3. Positions' = {0} /\ TxsUpTo(0)' = b.txs
      BY <2>1, NewLiquid
    <2> QED
      BY <2>1, <2>2, <2>3 DEF PrefixesApply, Applicable
  <1>2. ASSUME NEW b \in Blocks, HardenLiquidBlock(b)
        PROVE  BelowApplies' /\ PrefixesApply'
    <2>1. PICK n : n = PositionOf(b.ref)
      OBVIOUS
    <2>2. PICK k \in Nat : k = Len(persisted)
      BY <1>0, PersistedElements
    <2>3. /\ ng # NoNg /\ n \in Positions
          /\ Len(persisted') = k + 1
          /\ \A h \in 1 .. k : persisted'[h] = persisted[h]
          /\ persisted'[k + 1].block.txs = TxsUpTo(n)
          /\ ng' = NewNgState(b, TxsUpTo(n))
      BY <1>0, <1>2, <2>1, <2>2, HardenFacts
    <2>4. Applicable(TxsUpTo(n), PersistedTxs)
      BY <1>0, <2>3 DEF PrefixesApply
    <2>5. Applicable(b.txs, PersistedTxs \cup TxsUpTo(n))
      BY <1>2, <2>1 DEF HardenLiquidBlock, Hardens, Fits
    <2>6. PersistedTxs' = PersistedTxs \cup TxsUpTo(n)
      BY <1>0, <1>2, <2>1, HardenMovesTxs
    <2>7. DOMAIN persisted = 1 .. k /\ DOMAIN persisted' = 1 .. k + 1
      BY <1>0, <2>2, <2>3, LenProperties, PersistedElements DEF TypeOK
    <2>8. ASSUME NEW h \in 1 .. k + 1
          PROVE  Applicable(persisted'[h].block.txs, TxsBelow(h)')
      <3>1. TxsBelow(h)' = TxsBelow(h)
        BY <2>3, SameBelow
      <3>2. CASE h \in 1 .. k
        BY <1>0, <2>3, <2>7, <3>1, <3>2 DEF BelowApplies
      <3>3. CASE h = k + 1
        BY <1>0, <2>2, <2>3, <2>4, <3>1, <3>3, PersistedTxsAreBelow
      <3> QED
        BY <3>2, <3>3
    <2>9. BelowApplies'
      BY <2>7, <2>8 DEF BelowApplies, Applicable
    <2>10. Positions' = {0} /\ TxsUpTo(0)' = b.txs
      BY <2>3, NewLiquid
    <2>11. PrefixesApply'
      BY <2>5, <2>6, <2>10 DEF PrefixesApply, Applicable
    <2> QED
      BY <2>9, <2>11
  <1>3. ASSUME NEW m \in MicroBlocks, ProcessMicroBlock(m)
        PROVE  BelowApplies' /\ PrefixesApply'
    <2>1. PICK k \in Nat : k = Len(ng.micros)
      BY <1>0, <1>3, MicroBlockAdds
    <2>2. /\ ng # NoNg
          /\ \A n \in Positions : TxsUpTo(n)' = TxsUpTo(n)
          /\ LiquidTxs' = LiquidTxs \cup m.txs
          /\ Len(ng'.micros) = k + 1
          /\ Positions' = Positions \cup {k + 1}
          /\ persisted' = persisted
      BY <1>0, <1>3, <2>1, MicroBlockAdds DEF ProcessMicroBlock
    <2>3. BelowApplies' /\ PersistedTxs' = PersistedTxs
      BY <1>0, <2>2 DEF BelowApplies, TxsBelow, PersistedTxs
    <2>4. Applicable(LiquidTxs, PersistedTxs)
      BY <1>0, <2>2, WholeLiquid DEF PrefixesApply, LiquidTxs
    <2>5. Applicable(m.txs, PersistedTxs \cup LiquidTxs)
      BY <1>3, <2>2 DEF ProcessMicroBlock, AcceptsMicroBlock, ChainTxs
    <2>6. Applicable(LiquidTxs', PersistedTxs)
      BY <2>2, <2>4, <2>5, ApplicableUnion
    <2>7. LiquidTxs' = TxsUpTo(k + 1)'
      BY <2>2 DEF LiquidTxs
    <2>8. \A n \in Positions : Applicable(TxsUpTo(n), PersistedTxs)
      BY <1>0, <2>2 DEF PrefixesApply
    <2>9. ASSUME NEW n \in Positions' PROVE Applicable(TxsUpTo(n)', PersistedTxs)
      <3>1. CASE n \in Positions
        BY <2>2, <2>8, <3>1
      <3>2. CASE n = k + 1
        BY <2>6, <2>7, <3>2
      <3> QED
        BY <2>2, <3>1, <3>2
    <2> QED
      BY <2>3, <2>9 DEF PrefixesApply, Applicable
  <1>4. ASSUME NEW id \in Ids, RemoveAfter(id)
        PROVE  BelowApplies' /\ PrefixesApply'
    <2>1. CASE Contains(id)
      BY <1>0, <1>4, <2>1
      DEF RemoveAfter, vars, BelowApplies, PrefixesApply, Applicable, TxsBelow,
          PersistedTxs, Positions, TxsUpTo
    <2>2. CASE ~Contains(id)
      <3>1. ng' = NoNg
        BY <1>4, <2>2 DEF RemoveAfter
      <3>2. BelowApplies'
        BY <1>0, <1>4, <2>2, RemoveAfterCuts, CutReplays
      <3> QED
        BY <3>1, <3>2 DEF PrefixesApply
    <2> QED
      BY <2>1, <2>2
  <1>5. CASE Restart
    <2>1. persisted' = persisted /\ ng' = LiquidAtStart
      BY <1>5 DEF Restart
    <2>2. BelowApplies' /\ PersistedTxs' = PersistedTxs
      BY <1>0, <2>1 DEF BelowApplies, TxsBelow, PersistedTxs
    <2>3. ASSUME ng' # NoNg PROVE PrefixesApply'
      <3>1. persisted = <<>> /\ ng' = NewNgState(Genesis, {})
        BY <2>1, <2>3 DEF LiquidAtStart
      <3>2. Positions' = {0} /\ TxsUpTo(0)' = Genesis.txs
        BY <3>1, NewLiquid
      <3>3. PersistedTxs = {}
        BY <3>1 DEF PersistedTxs
      <3> QED
        BY <2>2, <3>2, <3>3, TxsAssumption DEF PrefixesApply, Applicable
    <2> QED
      BY <2>2, <2>3 DEF PrefixesApply
  <1>6. ASSUME UNCHANGED vars PROVE BelowApplies' /\ PrefixesApply'
    <2>1. persisted' = persisted /\ ng' = ng
      BY <1>6 DEF vars
    <2>2. BelowApplies'
      BY <1>0, <2>1 DEF BelowApplies, Applicable, TxsBelow
    <2>3. PrefixesApply'
      <3>1. PersistedTxs' = PersistedTxs
        BY <2>1 DEF PersistedTxs
      <3>2. Positions' = Positions
        BY <2>1 DEF Positions
      <3>3. \A n : TxsUpTo(n)' = TxsUpTo(n)
        BY <2>1 DEF TxsUpTo
      <3> QED
        BY <1>0, <2>1, <3>1, <3>2, <3>3 DEF PrefixesApply, Applicable
    <2> QED
      BY <2>2, <2>3
  <1> QED
    BY <1>1, <1>2, <1>3, <1>4, <1>5, <1>6
    DEF Next, ProcessBlock, KeepLiquidBlock, RejectBlock

\* Whatever forks, versions and microblock forks the node goes through, its
\* chain can be replayed from genesis: no transaction is applied twice and none
\* before what it needs.
THEOREM ChainAlwaysReplays == Spec => []ChainReplays
  <1>1. ReplayInv => ChainReplays
    <2> SUFFICES ASSUME ReplayInv PROVE ChainReplays
      OBVIOUS
    <2>1. ng # NoNg => Len(ng.micros) \in Positions
      BY WholeLiquid DEF ReplayInv, LinkInv
    <2> QED
      BY <2>1 DEF ReplayInv, BelowApplies, PrefixesApply, ChainReplays, LiquidTxs
  <1> QED
    BY <1>1, InitReplays, NextReplays, PTL DEF Spec

-----------------------------------------------------------------------------
(* The room left in the liquid block *)

RoomInv == ReplayInv /\ RestMatchesLiquid

\* A block set as the liquid one leaves its size less than the limit.
LEMMA SetLiquidRoom ==
  ASSUME TypeOK, NEW b \in Block, NEW fees \in SUBSET Txs, SetLiquid(b, fees)
  PROVE  restTotalConstraint' + Size(LiquidTxs') = TotalConstraint(Len(persisted))
  <1>1. LiquidTxs' = b.txs
    BY NewLiquid DEF SetLiquid
  <1>2. Size(b.txs) \in Nat /\ BlockLimit \in Nat
    BY SizeAssumption, PersistedType DEF Block
  <1> QED
    BY <1>1, <1>2 DEF SetLiquid, BlockLimit

LEMMA StartRoom ==
  ASSUME Len(persisted) \in Nat, ng' = LiquidAtStart, ng' # NoNg
  PROVE  /\ LiquidTxs' = Genesis.txs
         /\ RestAtStart + Size(Genesis.txs) = TotalConstraint(Len(persisted))
  <1>1. persisted = <<>> /\ ng' = NewNgState(Genesis, {})
    BY DEF LiquidAtStart
  <1>2. Size(Genesis.txs) \in Nat /\ BlockLimit \in Nat
    BY SignedAssumption, SizeAssumption, LimitAssumption
    DEF Block, BlockLimit, TotalConstraint
  <1> QED
    BY <1>1, <1>2, NewLiquid DEF RestAtStart, BlockLimit

LEMMA InitRoom == Init => RoomInv
  <1> SUFFICES ASSUME Init PROVE RestMatchesLiquid
    BY InitReplays DEF RoomInv
  <1>1. /\ persisted = <<>> /\ ng = NewNgState(Genesis, {})
        /\ restTotalConstraint = RestAtStart
    BY DEF Init, LiquidAtStart
  <1>2. Len(ng.micros) = 0 /\ ng.base = Genesis
    BY <1>1, EmptySeq DEF NewNgState
  <1>3. LiquidTxs = Genesis.txs
    BY <1>2 DEF LiquidTxs, TxsUpTo
  <1>4. Size(Genesis.txs) \in Nat /\ BlockLimit \in Nat
    BY <1>1, EmptySeq, SignedAssumption, SizeAssumption, LimitAssumption
    DEF Block, BlockLimit, TotalConstraint
  <1> QED
    BY <1>1, <1>3, <1>4 DEF RestAtStart, RestMatchesLiquid, BlockLimit

LEMMA NextRoom == RoomInv /\ [Next]_vars => RoomInv'
  <1> SUFFICES ASSUME RoomInv, [Next]_vars PROVE RestMatchesLiquid'
    BY NextReplays DEF RoomInv
  <1>0. TypeOK /\ RestMatchesLiquid /\ Len(persisted) \in Nat
    BY PersistedElements DEF RoomInv, ReplayInv, LinkInv
  <1>1. ASSUME NEW b \in Blocks, StartLiquidBlock(b) \/ ReplaceLiquidBlock(b)
        PROVE  RestMatchesLiquid'
    <2>1. persisted' = persisted /\ SetLiquid(b, PersistedCarry)
      BY <1>1 DEF StartLiquidBlock, ReplaceLiquidBlock
    <2>2. restTotalConstraint' + Size(LiquidTxs') = TotalConstraint(Len(persisted))
      BY <1>0, <2>1, PersistedType, SignedAssumption, SetLiquidRoom
    <2> QED
      BY <2>1, <2>2 DEF RestMatchesLiquid, TotalConstraint
  <1>2. ASSUME NEW b \in Blocks, HardenLiquidBlock(b) PROVE RestMatchesLiquid'
    <2>1. PICK n : n = PositionOf(b.ref)
      OBVIOUS
    <2>2. /\ Len(persisted') = Len(persisted) + 1
          /\ TxsUpTo(n) \in SUBSET Txs /\ b \in Block
      BY <1>0, <1>2, <2>1, HardenFacts
    <2>3. restTotalConstraint' + Size(LiquidTxs') = TotalConstraint(Len(persisted))
      BY <1>0, <1>2, <2>1, <2>2, SetLiquidRoom DEF HardenLiquidBlock
    <2>4. Len(persisted') - 1 = Len(persisted)
      BY <1>0, <2>2
    <2> QED
      BY <2>3, <2>4 DEF RestMatchesLiquid, TotalConstraint
  <1>3. ASSUME NEW m \in MicroBlocks, ProcessMicroBlock(m) PROVE RestMatchesLiquid'
    <2>1. ng # NoNg /\ m \in MicroBlock /\ LiquidTxs' = LiquidTxs \cup m.txs
      BY <1>0, <1>3, MicroBlockAdds
    <2>2. LiquidTxs \in SUBSET Txs /\ m.txs \in SUBSET Txs
      BY <1>0, <2>1, WholeLiquid DEF MicroBlock
    <2>3. LiquidTxs \cap m.txs = {}
      BY <1>3, <2>1 DEF ProcessMicroBlock, AcceptsMicroBlock, ChainTxs, Applicable
    <2>4. /\ Size(LiquidTxs') = Size(LiquidTxs) + Size(m.txs)
          /\ Size(LiquidTxs) \in Nat /\ Size(m.txs) \in Nat
      BY <2>1, <2>2, <2>3, SizeAssumption
    <2>5. /\ restTotalConstraint' = restTotalConstraint - Size(m.txs)
          /\ restTotalConstraint \in Nat
          /\ persisted' = persisted
      BY <1>0, <1>3 DEF ProcessMicroBlock, TypeOK
    <2>6. restTotalConstraint' + Size(LiquidTxs') = restTotalConstraint + Size(LiquidTxs)
      BY <2>4, <2>5
    <2> QED
      BY <1>0, <2>1, <2>5, <2>6 DEF RestMatchesLiquid, TotalConstraint
  <1>4. ASSUME NEW id \in Ids, RemoveAfter(id) PROVE RestMatchesLiquid'
    <2>1. CASE Contains(id)
      BY <1>0, <1>4, <2>1
      DEF RemoveAfter, vars, RestMatchesLiquid, TotalConstraint, LiquidTxs, TxsUpTo
    <2>2. CASE ~Contains(id)
      BY <1>4, <2>2 DEF RemoveAfter, RestMatchesLiquid
    <2> QED
      BY <2>1, <2>2
  <1>5. CASE Restart
    <2>1. /\ persisted' = persisted /\ ng' = LiquidAtStart
          /\ restTotalConstraint' = RestAtStart
      BY <1>5 DEF Restart
    <2> QED
      BY <1>0, <2>1, StartRoom DEF RestMatchesLiquid, TotalConstraint
  <1>6. ASSUME UNCHANGED vars PROVE RestMatchesLiquid'
    BY <1>0, <1>6 DEF vars, RestMatchesLiquid, TotalConstraint, LiquidTxs, TxsUpTo
  <1> QED
    BY <1>1, <1>2, <1>3, <1>4, <1>5, <1>6
    DEF Next, ProcessBlock, KeepLiquidBlock, RejectBlock

\* restTotalConstraint always belongs to the liquid block that is there now.
THEOREM RoomMatchesLiquid == Spec => []RestMatchesLiquid
  <1>1. RoomInv => RestMatchesLiquid
    BY DEF RoomInv
  <1> QED
    BY <1>1, InitRoom, NextRoom, PTL DEF Spec

-----------------------------------------------------------------------------
(* Scores *)

\* No block or microblock, whatever the network sends, makes the score fall.
THEOREM ScoreIsMonotone == Spec => ScoreNeverFalls
  <1>1. LinkInv /\ [Next]_vars => [ng' # NoNg => Score' >= Score]_vars
    <2> SUFFICES ASSUME LinkInv, Next, ng' # NoNg PROVE Score' >= Score
      BY DEF vars
    <2>0. TypeOK /\ TypeOK' /\ PersistedScore \in Nat
      BY NextTyped, PersistedType DEF LinkInv
    <2>1. ng # NoNg => ng.base \in Blocks /\ ng.base.score \in Nat
      BY SignedAssumption DEF LinkInv, BaseSigned, Block
    <2>2. ASSUME NEW b \in Blocks, ProcessBlock(b) PROVE Score' >= Score
      <3>0. b.score \in Nat
        BY SignedAssumption DEF Block
      <3>1. CASE StartLiquidBlock(b)
        <4>1. ng = NoNg /\ persisted' = persisted /\ ng'.base = b
          BY <3>1, NewLiquid DEF StartLiquidBlock, StartsLiquid, SetLiquid
        <4> QED
          BY <2>0, <3>0, <4>1 DEF Score, PersistedScore
      <3>2. CASE ReplaceLiquidBlock(b)
        <4>1. /\ ng # NoNg /\ persisted' = persisted /\ ng'.base = b
              /\ b.score >= ng.base.score
          BY <2>1, <3>0, <3>2, NewLiquid
          DEF ReplaceLiquidBlock, Supersedes, IsBetter, IsLongerVersion,
              IsSameVersion, Competes, AreVersionsOfSameBlock, SetLiquid
        <4> QED
          BY <2>0, <2>1, <3>0, <4>1 DEF Score, PersistedScore
      <3>3. CASE HardenLiquidBlock(b)
        <4>1. /\ ng # NoNg /\ ng'.base = b
              /\ persisted'[Len(persisted')].score = PersistedScore + ng.base.score
              /\ Len(persisted') = Len(persisted) + 1
          BY <2>0, <3>3, HardenFacts, NewLiquid
        <4>2. persisted' # <<>>
          BY <2>0, <4>1, PersistedElements, EmptySeq
        <4>3. PersistedScore' = PersistedScore + ng.base.score
          BY <4>1, <4>2 DEF PersistedScore
        <4> QED
          BY <2>0, <2>1, <3>0, <4>1, <4>3 DEF Score
      <3>4. CASE KeepLiquidBlock(b) \/ RejectBlock(b)
        <4>1. Score' = Score
          BY <3>4 DEF KeepLiquidBlock, RejectBlock, vars, Score, PersistedScore
        <4> QED
          BY <2>0, <2>1, <4>1 DEF Score
      <3> QED
        BY <2>2, <3>1, <3>2, <3>3, <3>4 DEF ProcessBlock
    <2>3. ASSUME NEW m \in MicroBlocks, ProcessMicroBlock(m) PROVE Score' >= Score
      <3>1. ng # NoNg /\ ng'.base = ng.base /\ persisted' = persisted
        BY <2>0, <2>3, MicroBlockAdds DEF ProcessMicroBlock
      <3> QED
        BY <2>0, <2>1, <3>1 DEF Score, PersistedScore
    <2>4. ASSUME NEW id \in Ids, RemoveAfter(id) PROVE Score' >= Score
      <3>1. Score' = Score
        BY <2>4 DEF RemoveAfter, vars, Score, PersistedScore
      <3> QED
        BY <2>0, <2>1, <3>1 DEF Score
    <2>5. CASE Restart
      <3>1. persisted' = persisted /\ persisted = <<>> /\ ng'.base = Genesis
        BY <2>5, NewLiquid DEF Restart, LiquidAtStart
      <3>2. ng # NoNg => ng.base = Genesis
        BY <2>1, <3>1, SignedAssumption DEF LinkInv, ChainLinked
      <3>3. Genesis.score \in Nat
        BY SignedAssumption DEF Block
      <3> QED
        BY <2>0, <3>1, <3>2, <3>3 DEF Score, PersistedScore
    <2> QED
      BY <2>2, <2>3, <2>4, <2>5 DEF Next
  <1>2. LinkInv /\ [Next]_vars => LinkInv'
    BY NextLinked
  <1> QED
    BY <1>1, <1>2, InitLinked, PTL DEF Spec, ScoreNeverFalls

-----------------------------------------------------------------------------
(* Signatures and fees *)

SignedInv == LinkInv /\ SignedPositions

\* A liquid block without microblocks, or none, has nothing unsigned in it.
LEMMA FreshLiquidSigned ==
  ASSUME ng' = NoNg \/ ng'.micros = <<>>,
         \A h \in DOMAIN persisted' : persisted'[h].block \in Blocks
  PROVE  SignedPositions'
  BY DEF SignedPositions

LEMMA NextSigned == SignedInv /\ [Next]_vars => SignedInv'
  <1> SUFFICES ASSUME SignedInv, [Next]_vars PROVE SignedPositions'
    BY NextLinked DEF SignedInv
  <1>0. /\ TypeOK /\ TypeOK'
        /\ \A h \in DOMAIN persisted : persisted[h].block \in Blocks
    BY NextTyped DEF SignedInv, LinkInv, SignedPositions
  <1>1. ASSUME NEW b \in Blocks, StartLiquidBlock(b) \/ ReplaceLiquidBlock(b)
        PROVE  SignedPositions'
    <2>1. persisted' = persisted /\ ng'.micros = <<>>
      BY <1>1, NewLiquid DEF StartLiquidBlock, ReplaceLiquidBlock, SetLiquid
    <2> QED
      BY <1>0, <2>1, FreshLiquidSigned
  <1>2. ASSUME NEW b \in Blocks, HardenLiquidBlock(b) PROVE SignedPositions'
    <2>1. PICK n : n = PositionOf(b.ref)
      OBVIOUS
    <2>2. PICK k \in Nat : k = Len(persisted)
      BY <1>0, PersistedElements
    <2>3. /\ Len(persisted') = k + 1
          /\ \A h \in 1 .. k : persisted'[h] = persisted[h]
          /\ persisted'[k + 1].block \in Blocks
          /\ ng'.micros = <<>>
      BY <1>0, <1>2, <2>1, <2>2, HardenFacts, NewLiquid
    <2>4. DOMAIN persisted = 1 .. k /\ DOMAIN persisted' = 1 .. k + 1
      BY <1>0, <2>2, <2>3, LenProperties, PersistedElements DEF TypeOK
    <2>5. \A h \in 1 .. k + 1 : h \in 1 .. k \/ h = k + 1
      OBVIOUS
    <2> QED
      BY <1>0, <2>3, <2>4, <2>5, FreshLiquidSigned
  <1>3. ASSUME NEW m \in MicroBlocks, ProcessMicroBlock(m) PROVE SignedPositions'
    <2>1. PICK k \in Nat : k = Len(ng.micros)
      BY <1>0, <1>3, MicroBlockAdds
    <2>2. /\ ng # NoNg /\ ng \in NgState /\ ng'.base = ng.base
          /\ DOMAIN ng'.micros = 1 .. k + 1
          /\ ng'.micros[k + 1] = m
          /\ \A i \in 1 .. k : ng'.micros[i] = ng.micros[i]
          /\ \A i \in 0 .. k : IdAt(i)' = IdAt(i)
          /\ persisted' = persisted
      BY <1>0, <1>3, <2>1, MicroBlockAdds DEF ProcessMicroBlock, Positions
    <2>3. DOMAIN ng.micros = 1 .. k
      BY <2>1, <2>2, LenProperties DEF NgState
    <2>4. m.prev = IdAt(k) /\ m.gen = ng.base.gen
      BY <1>3, <2>1 DEF ProcessMicroBlock, AcceptsMicroBlock, BestLiquidBlockId
    <2>5. ASSUME NEW i \in 1 .. k + 1
          PROVE  ng'.micros[i].prev = IdAt(i - 1)' /\ ng'.micros[i].gen = ng.base.gen
      <3>1. i - 1 \in 0 .. k /\ IdAt(i - 1)' = IdAt(i - 1)
        BY <2>2
      <3>2. CASE i \in 1 .. k
        BY <2>2, <2>3, <3>1, <3>2 DEF SignedInv, SignedPositions
      <3>3. CASE i = k + 1
        BY <2>2, <2>4, <3>1, <3>3
      <3> QED
        BY <3>2, <3>3
    <2> QED
      BY <1>0, <2>2, <2>5 DEF SignedPositions, IdAt
  <1>4. ASSUME NEW id \in Ids, RemoveAfter(id) PROVE SignedPositions'
    <2>1. CASE Contains(id)
      BY <1>4, <2>1 DEF RemoveAfter, vars, SignedInv, SignedPositions, IdAt
    <2>2. CASE ~Contains(id)
      <3>1. /\ ng' = NoNg
            /\ Len(persisted') <= Len(persisted)
            /\ \A h \in 1 .. Len(persisted') : persisted'[h] = persisted[h]
        BY <1>0, <1>4, <2>2, RemoveAfterCuts DEF RemoveAfter
      <3>2. DOMAIN persisted' = 1 .. Len(persisted') /\ Len(persisted') \in Nat
        BY <1>0, LenProperties DEF TypeOK
      <3> QED
        BY <1>0, <3>1, <3>2, PersistedElements, FreshLiquidSigned
    <2> QED
      BY <2>1, <2>2
  <1>5. CASE Restart
    <2>1. persisted' = persisted /\ (ng' = NoNg \/ ng'.micros = <<>>)
      BY <1>5, NewLiquid DEF Restart, LiquidAtStart
    <2> QED
      BY <1>0, <2>1, FreshLiquidSigned
  <1>6. ASSUME UNCHANGED vars PROVE SignedPositions'
    BY <1>6 DEF vars, SignedInv, SignedPositions, IdAt
  <1> QED
    BY <1>1, <1>2, <1>3, <1>4, <1>5, <1>6
    DEF Next, ProcessBlock, KeepLiquidBlock, RejectBlock

\* No block is ever persisted that its generator did not sign as it stands,
\* and the liquid block is one path of its generator's microblocks.
THEOREM OnlySignedPersisted == Spec => []SignedPositions
  <1>1. Init => SignedInv
    <2> SUFFICES ASSUME Init PROVE SignedPositions
      BY InitLinked DEF SignedInv
    <2>1. persisted = <<>> /\ ng.micros = <<>>
      BY DEF Init, LiquidAtStart, NewNgState
    <2> QED
      BY <2>1 DEF SignedPositions
  <1>2. SignedInv => SignedPositions
    BY DEF SignedInv
  <1> QED
    BY <1>1, <1>2, NextSigned, PTL DEF Spec

FeesInv == LinkInv /\ FeesPassedOn

LEMMA NextFees == FeesInv /\ [Next]_vars => FeesInv'
  <1> SUFFICES ASSUME FeesInv, [Next]_vars PROVE FeesPassedOn'
    BY NextLinked DEF FeesInv
  <1>0. TypeOK /\ TypeOK' /\ FeesPassedOn
    BY NextTyped DEF FeesInv, LinkInv
  <1>1. ASSUME NEW b \in Blocks, StartLiquidBlock(b) \/ ReplaceLiquidBlock(b)
        PROVE  FeesPassedOn'
    <2>1. persisted' = persisted /\ ng'.inherited = PersistedCarry
      BY <1>1, NewLiquid DEF StartLiquidBlock, ReplaceLiquidBlock, SetLiquid
    <2> QED
      BY <1>0, <2>1 DEF FeesPassedOn, PersistedCarry
  <1>2. ASSUME NEW b \in Blocks, HardenLiquidBlock(b) PROVE FeesPassedOn'
    <2>1. PICK n : n = PositionOf(b.ref)
      OBVIOUS
    <2>2. PICK k \in Nat : k = Len(persisted)
      BY <1>0, PersistedElements
    <2>3. /\ ng # NoNg
          /\ Len(persisted') = k + 1
          /\ \A h \in 1 .. k : persisted'[h] = persisted[h]
          /\ persisted'[k + 1].block.txs = TxsUpTo(n)
          /\ persisted'[k + 1].carry = TxsUpTo(n)
          /\ persisted'[k + 1].inherited = ng.inherited
          /\ ng'.inherited = TxsUpTo(n)
      BY <1>0, <1>2, <2>1, <2>2, HardenFacts, NewLiquid
    <2>4. /\ DOMAIN persisted = 1 .. k /\ DOMAIN persisted' = 1 .. k + 1
          /\ persisted' # <<>>
      BY <1>0, <2>2, <2>3, LenProperties, PersistedElements, EmptySeq DEF TypeOK
    <2>5. ng.inherited = IF k + 1 = 1 THEN {} ELSE persisted[k].carry
      BY <1>0, <2>2, <2>3, PersistedElements DEF FeesPassedOn, PersistedCarry
    <2>6. ASSUME NEW h \in 1 .. k + 1
          PROVE  /\ persisted'[h].carry = persisted'[h].block.txs
                 /\ persisted'[h].inherited =
                      IF h = 1 THEN {} ELSE persisted'[h - 1].carry
      <3>1. CASE h \in 1 .. k
        <4>1. h = 1 \/ h - 1 \in 1 .. k
          BY <3>1
        <4> QED
          BY <1>0, <2>3, <2>4, <3>1, <4>1 DEF FeesPassedOn
      <3>2. CASE h = k + 1
        <4>1. h = 1 \/ h - 1 \in 1 .. k
          BY <3>2
        <4> QED
          BY <2>3, <2>5, <3>2, <4>1
      <3> QED
        BY <3>1, <3>2
    <2>7. ng'.inherited = PersistedCarry'
      BY <2>3, <2>4 DEF PersistedCarry
    <2> QED
      BY <2>4, <2>6, <2>7 DEF FeesPassedOn
  <1>3. ASSUME NEW m \in MicroBlocks, ProcessMicroBlock(m) PROVE FeesPassedOn'
    <2>1. ng # NoNg /\ ng'.inherited = ng.inherited /\ persisted' = persisted
      BY <1>0, <1>3, MicroBlockAdds DEF ProcessMicroBlock
    <2> QED
      BY <1>0, <2>1 DEF FeesPassedOn, PersistedCarry
  <1>4. ASSUME NEW id \in Ids, RemoveAfter(id) PROVE FeesPassedOn'
    <2>1. CASE Contains(id)
      BY <1>0, <1>4, <2>1 DEF RemoveAfter, vars, FeesPassedOn, PersistedCarry
    <2>2. CASE ~Contains(id)
      <3>1. /\ ng' = NoNg
            /\ Len(persisted') <= Len(persisted)
            /\ \A h \in 1 .. Len(persisted') : persisted'[h] = persisted[h]
        BY <1>0, <1>4, <2>2, RemoveAfterCuts DEF RemoveAfter
      <3>2. DOMAIN persisted' = 1 .. Len(persisted') /\ Len(persisted') \in Nat
        BY <1>0, LenProperties DEF TypeOK
      <3>3. ASSUME NEW h \in 1 .. Len(persisted')
            PROVE  /\ h \in DOMAIN persisted /\ persisted'[h] = persisted[h]
                   /\ h # 1 => persisted'[h - 1] = persisted[h - 1]
        BY <1>0, <3>1, <3>2, PersistedElements
      <3> QED
        BY <1>0, <3>1, <3>2, <3>3 DEF FeesPassedOn
    <2> QED
      BY <2>1, <2>2
  <1>5. CASE Restart
    <2>1. persisted' = persisted /\ ng' = LiquidAtStart
      BY <1>5 DEF Restart
    <2>2. ng' # NoNg => ng'.inherited = PersistedCarry
      BY <2>1, NewLiquid DEF LiquidAtStart, PersistedCarry
    <2> QED
      BY <1>0, <2>1, <2>2 DEF FeesPassedOn, PersistedCarry
  <1>6. ASSUME UNCHANGED vars PROVE FeesPassedOn'
    BY <1>0, <1>6 DEF vars, FeesPassedOn, PersistedCarry
  <1> QED
    BY <1>1, <1>2, <1>3, <1>4, <1>5, <1>6
    DEF Next, ProcessBlock, KeepLiquidBlock, RejectBlock

\* The fee share a generator takes over is the one the block below it left,
\* however often the blocks in between were replaced, cut or forged again.
THEOREM FeesAlwaysPassedOn == Spec => []FeesPassedOn
  <1>1. Init => FeesInv
    <2> SUFFICES ASSUME Init PROVE FeesPassedOn
      BY InitLinked DEF FeesInv
    <2>1. persisted = <<>> /\ ng.inherited = {}
      BY DEF Init, LiquidAtStart, NewNgState
    <2> QED
      BY <2>1 DEF FeesPassedOn, PersistedCarry
  <1>2. FeesInv => FeesPassedOn
    BY DEF FeesInv
  <1> QED
    BY <1>1, <1>2, NextFees, PTL DEF Spec

-----------------------------------------------------------------------------
(* What is handed back to the UTX pool *)

\* Each microblock brings transactions that are new to the liquid block, so
\* cutting that block anywhere splits its transactions in two.
MicrosFresh ==
  ng # NoNg =>
    \A i \in DOMAIN ng.micros : ng.micros[i].txs \cap TxsUpTo(i - 1) = {}

DiscardInv == ReplayInv /\ MicrosFresh

LEMMA InitDiscards == Init => DiscardInv
  <1> SUFFICES ASSUME Init PROVE MicrosFresh
    BY InitReplays DEF DiscardInv
  <1>1. ng.micros = <<>>
    BY DEF Init, LiquidAtStart, NewNgState
  <1> QED
    BY <1>1 DEF MicrosFresh

LEMMA NextDiscards == DiscardInv /\ [Next]_vars => DiscardInv'
  <1> SUFFICES ASSUME DiscardInv, [Next]_vars PROVE MicrosFresh'
    BY NextReplays DEF DiscardInv
  <1>0. TypeOK /\ MicrosFresh
    BY DEF DiscardInv, ReplayInv, LinkInv
  <1>1. ASSUME ng' = NoNg \/ ng'.micros = <<>> PROVE MicrosFresh'
    BY <1>1 DEF MicrosFresh
  <1>2. ASSUME ng' = ng PROVE MicrosFresh'
    <2>1. \A n : TxsUpTo(n)' = TxsUpTo(n)
      BY <1>2 DEF TxsUpTo
    <2> QED
      BY <1>0, <1>2, <2>1 DEF MicrosFresh
  <1>3. ASSUME NEW b \in Blocks, ProcessBlock(b) PROVE MicrosFresh'
    <2>1. ng' = ng \/ ng'.micros = <<>>
      BY <1>3, NewLiquid
      DEF ProcessBlock, StartLiquidBlock, ReplaceLiquidBlock, KeepLiquidBlock,
          HardenLiquidBlock, RejectBlock, SetLiquid, vars
    <2> QED
      BY <1>1, <1>2, <2>1
  <1>4. ASSUME NEW m \in MicroBlocks, ProcessMicroBlock(m) PROVE MicrosFresh'
    <2>1. PICK k \in Nat : k = Len(ng.micros)
      BY <1>0, <1>4, MicroBlockAdds
    <2>2. /\ ng # NoNg /\ ng \in NgState
          /\ DOMAIN ng'.micros = 1 .. k + 1
          /\ ng'.micros[k + 1] = m
          /\ \A i \in 1 .. k : ng'.micros[i] = ng.micros[i]
          /\ \A i \in 0 .. k : TxsUpTo(i)' = TxsUpTo(i)
      BY <1>0, <1>4, <2>1, MicroBlockAdds DEF Positions
    <2>3. DOMAIN ng.micros = 1 .. k
      BY <2>1, <2>2, LenProperties DEF NgState
    <2>4. m.txs \cap TxsUpTo(k) = {}
      BY <1>4, <2>1, <2>2
      DEF ProcessMicroBlock, AcceptsMicroBlock, Applicable, ChainTxs, LiquidTxs
    <2>5. ASSUME NEW i \in 1 .. k + 1
          PROVE  ng'.micros[i].txs \cap TxsUpTo(i - 1)' = {}
      <3>1. i - 1 \in 0 .. k /\ TxsUpTo(i - 1)' = TxsUpTo(i - 1)
        BY <2>2
      <3>2. CASE i \in 1 .. k
        BY <1>0, <2>2, <2>3, <3>1, <3>2 DEF MicrosFresh
      <3>3. CASE i = k + 1
        <4>1. i - 1 = k
          BY <3>3
        <4> QED
          BY <2>2, <2>4, <3>1, <3>3, <4>1
      <3> QED
        BY <3>2, <3>3
    <2> QED
      BY <2>2, <2>5 DEF MicrosFresh
  <1>5. ASSUME NEW id \in Ids, RemoveAfter(id) PROVE MicrosFresh'
    BY <1>1, <1>2, <1>5 DEF RemoveAfter, vars
  <1>6. CASE Restart
    BY <1>1, <1>6, NewLiquid DEF Restart, LiquidAtStart
  <1> QED
    BY <1>2, <1>3, <1>4, <1>5, <1>6 DEF Next, vars

\* What is above a position is disjoint from what is up to it.
LEMMA AbovePosition ==
  ASSUME TypeOK, MicrosFresh, ng # NoNg, NEW n \in Positions, NEW above,
         above = UNION {ng.micros[i].txs : i \in n + 1 .. Len(ng.micros)}
  PROVE  LiquidTxs = TxsUpTo(n) \cup above /\ TxsUpTo(n) \cap above = {}
  <1>1. ng.micros \in Seq(MicroBlock)
    BY DEF TypeOK, NgState
  <1>2. PICK k \in Nat : k = Len(ng.micros) /\ DOMAIN ng.micros = 1 .. k
    BY <1>1, LenProperties
  <1>3. n \in 0 .. k
    BY <1>2 DEF Positions
  <1>4. \A e, p : e \in TxsUpTo(p) <=>
                    e \in ng.base.txs \/ \E i \in 1 .. p : e \in ng.micros[i].txs
    BY DEF TxsUpTo
  <1>5. \A e : e \in above <=> \E i \in n + 1 .. k : e \in ng.micros[i].txs
    BY <1>2
  <1>6. \A i : i \in 1 .. k <=> i \in 1 .. n \/ i \in n + 1 .. k
    BY <1>3
  <1>7. \A e : e \in TxsUpTo(k) <=> e \in TxsUpTo(n) \/ e \in above
    BY <1>4, <1>5, <1>6
  <1>8. ASSUME NEW e, e \in TxsUpTo(n), e \in above PROVE FALSE
    <2>1. PICK i \in n + 1 .. k : e \in ng.micros[i].txs
      BY <1>5, <1>8
    <2>2. i \in 1 .. k /\ \A j \in 1 .. n : j \in 1 .. i - 1
      BY <1>3, <2>1
    <2>3. e \in TxsUpTo(i - 1)
      BY <1>4, <1>8, <2>2
    <2> QED
      BY <1>2, <2>1, <2>2, <2>3 DEF MicrosFresh
  <1> QED
    BY <1>2, <1>7, <1>8 DEF LiquidTxs

\* A block that becomes the liquid one takes out of the chain what processBlock
\* reports as discarded, and adds no transaction but its own.
LEMMA DiscardedFacts ==
  ASSUME DiscardInv, NEW b \in Blocks, Continues(b), ng' # NoNg, TypeOK',
         StartLiquidBlock(b) \/ ReplaceLiquidBlock(b) \/ HardenLiquidBlock(b)
  PROVE  /\ ChainTxs \ ChainTxs' \subseteq Discarded(b)
         /\ Discarded(b) \cap ChainTxs' \subseteq b.txs
         /\ ChainTxs' \subseteq ChainTxs \cup b.txs
  <1>0. TypeOK /\ PrefixesApply /\ MicrosFresh /\ b \in Block
    BY SignedAssumption DEF DiscardInv, ReplayInv, LinkInv
  <1>1. CASE StartLiquidBlock(b)
    <2>1. /\ ng = NoNg /\ persisted' = persisted
          /\ ng' = NewNgState(b, PersistedCarry)
      BY <1>1 DEF StartLiquidBlock, StartsLiquid, SetLiquid
    <2>2. PersistedTxs' = PersistedTxs /\ LiquidTxs' = b.txs
      BY <2>1, NewLiquid DEF PersistedTxs
    <2>3. ChainTxs = PersistedTxs /\ ChainTxs' = PersistedTxs \cup b.txs
      BY <2>1, <2>2 DEF ChainTxs
    <2>4. Discarded(b) = {}
      BY <2>1 DEF Discarded, IsBetter, Competes, BuildsOnLiquid, Contains
    <2> QED
      BY <2>3, <2>4
  <1>2. CASE ReplaceLiquidBlock(b)
    <2>1. /\ ng # NoNg /\ Competes(b) /\ persisted' = persisted
          /\ ng' = NewNgState(b, PersistedCarry)
          /\ IsBetter(b) \/ IsLongerVersion(b)
      BY <1>2
      DEF ReplaceLiquidBlock, Supersedes, SetLiquid, IsBetter, IsLongerVersion,
          IsSameVersion, Competes
    <2>2. PersistedTxs' = PersistedTxs /\ LiquidTxs' = b.txs
      BY <2>1, NewLiquid DEF PersistedTxs
    <2>3. /\ ChainTxs = PersistedTxs \cup LiquidTxs
          /\ ChainTxs' = PersistedTxs \cup b.txs
      BY <2>1, <2>2 DEF ChainTxs
    <2>4. LiquidTxs \cap PersistedTxs = {}
      BY <1>0, <2>1, WholeLiquid DEF PrefixesApply, LiquidTxs, Applicable
    <2>5. CASE IsBetter(b)
      <3>1. Discarded(b) = LiquidTxs
        BY <2>5 DEF Discarded
      <3> QED
        BY <2>3, <2>4, <3>1
    <2>6. CASE IsLongerVersion(b)
      <3>1. Discarded(b) = {}
        BY <2>6 DEF Discarded, BuildsOnLiquid, IsLongerVersion, IsSameVersion
      <3>2. LiquidTxs \subseteq b.txs
        BY <2>6 DEF Continues
      <3> QED
        BY <2>3, <3>1, <3>2
    <2> QED
      BY <2>1, <2>5, <2>6
  <1>3. CASE HardenLiquidBlock(b)
    <2>1. PICK n : n = PositionOf(b.ref)
      OBVIOUS
    <2>2. /\ ng # NoNg /\ n \in Positions
          /\ ng' = NewNgState(b, TxsUpTo(n))
      BY <1>0, <1>3, <2>1, HardenFacts
    <2>3. PersistedTxs' = PersistedTxs \cup TxsUpTo(n) /\ LiquidTxs' = b.txs
      BY <1>0, <1>3, <2>1, <2>2, HardenMovesTxs, NewLiquid
    <2>4. /\ ChainTxs = PersistedTxs \cup LiquidTxs
          /\ ChainTxs' = PersistedTxs \cup TxsUpTo(n) \cup b.txs
      BY <2>2, <2>3 DEF ChainTxs
    <2>5. LiquidTxs \cap PersistedTxs = {}
      BY <1>0, <2>2, WholeLiquid DEF PrefixesApply, LiquidTxs, Applicable
    <2>6. Discarded(b) = UNION {ng.micros[i].txs : i \in n + 1 .. Len(ng.micros)}
      BY <1>3, <2>1
      DEF HardenLiquidBlock, Hardens, BuildsOnLiquid, IsBetter, Discarded
    <2>7. /\ LiquidTxs = TxsUpTo(n) \cup Discarded(b)
          /\ TxsUpTo(n) \cap Discarded(b) = {}
      BY <1>0, <2>2, <2>6, AbovePosition
    <2> QED
      BY <2>4, <2>5, <2>7
  <1> QED
    BY <1>1, <1>2, <1>3

\* What processBlock reports as discarded is what it takes out of the chain:
\* nothing is lost on a key block fork or a microblock fork, and nothing is
\* put back into the pool that is still in the chain.
THEOREM DiscardedExactly == Spec => DiscardedIsExact
  <1> DEFINE Exact(b) == /\ ChainTxs \ ChainTxs' \subseteq Discarded(b)
                         /\ Discarded(b) \cap ChainTxs' \subseteq b.txs
  <1>1. ASSUME DiscardInv, DiscardInv', Next, ng' \notin {ng, NoNg},
               NEW b, b = ng'.base, ProcessBlock(b), Continues(b)
        PROVE  Exact(b)
    <2>1. TypeOK' /\ b \in Blocks
      BY <1>1 DEF DiscardInv, ReplayInv, LinkInv, BaseSigned
    <2>2. StartLiquidBlock(b) \/ ReplaceLiquidBlock(b) \/ HardenLiquidBlock(b)
      BY <1>1 DEF ProcessBlock, KeepLiquidBlock, RejectBlock, vars
    <2> QED
      BY <1>1, <2>1, <2>2, DiscardedFacts
  <1>2. DiscardInv /\ DiscardInv' /\ [Next]_vars =>
          [ ng' \notin {ng, NoNg} /\ ng'.micros = <<>> =>
              LET b == ng'.base IN ProcessBlock(b) /\ Continues(b) => Exact(b) ]_vars
    BY <1>1
  <1>3. DiscardInv /\ [Next]_vars => DiscardInv'
    BY NextDiscards
  <1> QED
    BY <1>2, <1>3, InitDiscards, PTL DEF Spec, DiscardedIsExact

-----------------------------------------------------------------------------
(* What removeAfter hands back *)

\* The blocks removeAfter returns are those above the height it stops at.
LEMMA RemovedFacts ==
  ASSUME TypeOK, NEW id, ~Contains(id), HeightAt(id) \in 1 .. Len(persisted)
  PROVE  \A h, k, removed :
           h = HeightAt(id) /\ k = Len(persisted) - h /\ removed = RemovedBlocks(id) =>
             /\ \A i \in 1 .. k : removed[i] = persisted[h + i].block
             /\ ng = NoNg => Len(removed) = k /\ DOMAIN removed = 1 .. k
             /\ ng # NoNg => /\ Len(removed) = k + 1 /\ DOMAIN removed = 1 .. k + 1
                             /\ removed[k + 1] = BestLiquidBlock
  <1> SUFFICES ASSUME NEW h, NEW k, NEW removed,
                      h = HeightAt(id), k = Len(persisted) - h, removed = RemovedBlocks(id)
               PROVE  /\ \A i \in 1 .. k : removed[i] = persisted[h + i].block
                      /\ ng = NoNg => Len(removed) = k /\ DOMAIN removed = 1 .. k
                      /\ ng # NoNg => /\ Len(removed) = k + 1 /\ DOMAIN removed = 1 .. k + 1
                                      /\ removed[k + 1] = BestLiquidBlock
    OBVIOUS
  <1> PICK L \in Nat : L = Len(persisted)
    BY PersistedElements
  <1> h \in 1 .. L /\ k \in Nat /\ k = L - h
    OBVIOUS
  <1>1. \A i \in 1 .. L : persisted[i] \in PersistedBlock
    BY PersistedElements
  <1>2. PICK low : low = PersistedAbove(h)
    OBVIOUS
  <1>3. low = [i \in 1 .. k |-> persisted[h + i].block]
    BY <1>2 DEF PersistedAbove
  <1>4. low \in Seq(Block) /\ Len(low) = k
    <2>1. \A i \in 1 .. k : h + i \in 1 .. L
      OBVIOUS
    <2>2. low \in [1 .. k -> Block]
      BY <1>1, <1>3, <2>1 DEF PersistedBlock
    <2>3. low \in Seq(Block)
      BY <2>2, SeqDef
    <2> QED
      BY <1>3, <2>3, LenProperties
  <1>5. removed = low \o (IF ng = NoNg THEN <<>> ELSE <<BestLiquidBlock>>)
    BY <1>2 DEF RemovedBlocks
  <1>6. CASE ng = NoNg
    <2>1. removed = low
      BY <1>4, <1>5, <1>6, ConcatEmptySeq
    <2> QED
      BY <1>3, <1>4, <1>6, <2>1
  <1>7. CASE ng # NoNg
    <2>1. PICK best \in Block : best = BestLiquidBlock
      BY <1>7, WholeLiquid, ForgedType DEF BestLiquidBlock
    <2>2. removed = Append(low, best)
      BY <1>4, <1>5, <1>7, <2>1, AppendIsConcat
    <2>3. /\ Len(removed) = k + 1
          /\ removed \in Seq(Block)
          /\ \A i \in 1 .. k : removed[i] = low[i]
          /\ removed[k + 1] = best
      BY <1>4, <2>2, AppendProperties
    <2>4. DOMAIN removed = 1 .. k + 1
      BY <2>3, LenProperties
    <2>5. \A i \in 1 .. k : removed[i] = persisted[h + i].block
      BY <1>3, <2>3
    <2> QED
      BY <1>7, <2>1, <2>3, <2>4, <2>5
  <1> QED
    BY <1>6, <1>7

\* A block of the persisted chain shares no transaction with those below it,
\* and the liquid block none with the persisted chain.
LEMMA ChainIsDisjoint ==
  ASSUME ReplayInv
  PROVE  /\ \A j \in 1 .. Len(persisted) : \A i \in 1 .. j - 1 :
               persisted[j].block.txs \cap persisted[i].block.txs = {}
         /\ ng # NoNg => LiquidTxs \cap PersistedTxs = {}
  <1>0. TypeOK /\ DOMAIN persisted = 1 .. Len(persisted)
    BY PersistedElements DEF ReplayInv, LinkInv
  <1>1. ASSUME NEW j \in 1 .. Len(persisted), NEW i \in 1 .. j - 1
        PROVE  persisted[j].block.txs \cap persisted[i].block.txs = {}
    <2>1. persisted[j].block.txs \cap TxsBelow(j) = {}
      BY <1>0 DEF ReplayInv, BelowApplies, Applicable
    <2>2. persisted[i].block.txs \subseteq TxsBelow(j)
      BY DEF TxsBelow
    <2> QED
      BY <2>1, <2>2
  <1>2. ng # NoNg => LiquidTxs \cap PersistedTxs = {}
    BY <1>0, WholeLiquid DEF ReplayInv, PrefixesApply, LiquidTxs, Applicable
  <1> QED
    BY <1>1, <1>2

\* A rollback that happens gives back the blocks it took, linked to the block
\* it stopped at and with exactly the transactions that left the chain: none
\* of the liquid block's microblocks is forgotten.
THEOREM RemovedExactly == Spec => RemovedIsReturned
  <1> DEFINE Returned(target, removed) ==
               /\ removed[1].ref = target
               /\ \A i \in 2 .. Len(removed) : removed[i].ref = removed[i - 1].id
               /\ ChainTxs \ ChainTxs' =
                    UNION {removed[i].txs : i \in DOMAIN removed}
  <1>1. ASSUME ReplayInv, ReplayInv', NEW id, RemoveAfter(id), ~Contains(id),
               CanRollbackTo(id), persisted' # persisted,
               NEW target, target = persisted'[Len(persisted')].block.id
        PROVE  Returned(target, RemovedBlocks(target))
    <2>0. PICK L \in Nat :
             /\ L = Len(persisted) /\ DOMAIN persisted = 1 .. L
             /\ \A i \in 1 .. L : persisted[i] \in PersistedBlock
             /\ TypeOK /\ ChainLinked
      BY <1>1, PersistedElements DEF ReplayInv, LinkInv
    <2>1. PICK h \in 1 .. L : h = HeightAt(id) /\ persisted[h].block.id = id
      BY <1>1, <2>0 DEF CanRollbackTo, PersistedAt, HeightAt
    <2>2. persisted' = SubSeq(persisted, 1, h) /\ ng' = NoNg
      BY <1>1, <2>1 DEF RemoveAfter
    <2>3. Len(persisted') = h /\ \A i \in 1 .. h : persisted'[i] = persisted[i]
      <3>1. \A i \in 1 .. h : persisted[i] \in PersistedBlock
        BY <2>0
      <3> QED
        BY <2>2, <3>1, SubSeqProperties
    <2>4. target = id
      BY <1>1, <2>1, <2>3
    <2>5. h < L
      <3>1. CASE h = L
        <4>1. persisted' = persisted
          BY <2>0, <2>2, <3>1, SubSeqFull DEF TypeOK
        <4> QED
          BY <1>1, <4>1
      <3> QED
        BY <3>1
    <2>6. PICK k \in Nat \ {0} : k = L - h
      BY <2>5
    <2>7. PICK removed : removed = RemovedBlocks(id)
      OBVIOUS
    <2>8. /\ \A i \in 1 .. k : removed[i] = persisted[h + i].block
          /\ ng = NoNg => Len(removed) = k /\ DOMAIN removed = 1 .. k
          /\ ng # NoNg => /\ Len(removed) = k + 1 /\ DOMAIN removed = 1 .. k + 1
                          /\ removed[k + 1] = BestLiquidBlock
      <3>1. /\ TypeOK /\ ~Contains(id) /\ L = Len(persisted)
            /\ h = HeightAt(id) /\ k \in Nat /\ k = L - h
        BY <1>1, <2>0, <2>1, <2>6
      <3> QED
        BY <2>7, <3>1, RemovedFacts
    <2>9. ng # NoNg => /\ BestLiquidBlock.ref = persisted[h + k].block.id
                       /\ BestLiquidBlock.txs = LiquidTxs
      <3> SUFFICES ASSUME ng # NoNg
                   PROVE  /\ BestLiquidBlock.ref = persisted[h + k].block.id
                          /\ BestLiquidBlock.txs = LiquidTxs
        OBVIOUS
      <3>1. ng.base \in Block
        BY <2>0 DEF TypeOK, NgState
      <3>2. BestLiquidBlock.ref = ng.base.ref /\ BestLiquidBlock.txs = LiquidTxs
        BY <3>1 DEF BestLiquidBlock, ForgedBlock, LiquidTxs, Block
      <3>3. h + k = L /\ persisted # <<>>
        BY <2>0, <2>6, EmptySeq
      <3> QED
        BY <2>0, <3>2, <3>3 DEF ChainLinked
    <2>10. removed[1].ref = id
      <3>1. h + 1 \in DOMAIN persisted /\ h + 1 > 1 /\ h + 1 - 1 = h
        BY <2>0, <2>5
      <3>2. removed[1] = persisted[h + 1].block
        BY <2>6, <2>8
      <3> QED
        BY <2>0, <2>1, <3>1, <3>2 DEF ChainLinked
    <2>11. ASSUME NEW i \in 2 .. Len(removed)
           PROVE  removed[i].ref = removed[i - 1].id
      <3>1. CASE i \in 1 .. k
        <4>1. /\ i - 1 \in 1 .. k
              /\ h + i \in DOMAIN persisted /\ h + i > 1
              /\ h + i - 1 = h + (i - 1)
          BY <2>0, <2>6, <3>1
        <4>2. persisted[h + i].block.ref = persisted[h + i - 1].block.id
          BY <2>0, <4>1 DEF ChainLinked
        <4>3. /\ removed[i] = persisted[h + i].block
              /\ removed[i - 1] = persisted[h + (i - 1)].block
          BY <2>8, <3>1, <4>1
        <4> QED
          BY <4>1, <4>2, <4>3
      <3>2. CASE i \notin 1 .. k
        <4>1. ng # NoNg /\ i = k + 1 /\ i - 1 = k /\ k \in 1 .. k
          BY <2>6, <2>8, <3>2
        <4> QED
          BY <2>8, <2>9, <4>1
      <3> QED
        BY <3>1, <3>2
    <2>12. ChainTxs \ ChainTxs' = UNION {removed[i].txs : i \in DOMAIN removed}
      <3> DEFINE liquid == IF ng = NoNg THEN {} ELSE LiquidTxs
                 below(i) == persisted[i].block.txs
                 above    == UNION {removed[i].txs : i \in DOMAIN removed}
      <3>1. DOMAIN persisted' = 1 .. h
        BY <1>1, <2>3, LenProperties DEF ReplayInv, LinkInv, TypeOK
      <3>2. \A e : e \in ChainTxs' <=> \E i \in 1 .. h : e \in below(i)
        BY <2>2, <2>3, <3>1 DEF ChainTxs, PersistedTxs
      <3>3. \A e : e \in PersistedTxs <=> \E i \in 1 .. L : e \in below(i)
        BY <2>0 DEF PersistedTxs
      <3>4. \A i : i \in 1 .. L
                     <=> i \in 1 .. h \/ \E j \in 1 .. k : i = h + j
        <4>1. ASSUME NEW i \in 1 .. L, i \notin 1 .. h
              PROVE  \E j \in 1 .. k : i = h + j
          <5>1. i - h \in 1 .. k /\ i = h + (i - h)
            BY <2>6, <4>1
          <5> QED
            BY <5>1
        <4>2. \A j \in 1 .. k : h + j \in 1 .. L
          BY <2>6
        <4>3. \A i \in 1 .. h : i \in 1 .. L
          OBVIOUS
        <4> QED
          BY <4>1, <4>2, <4>3
      <3>5. \A e : e \in above <=> \/ \E j \in 1 .. k : e \in below(h + j)
                                   \/ e \in liquid
        <4>1. \A e : e \in above <=> \E i \in DOMAIN removed : e \in removed[i].txs
          OBVIOUS
        <4>2. CASE ng = NoNg
          <5>1. DOMAIN removed = 1 .. k
            BY <2>8, <4>2
          <5> HIDE DEF above
          <5> QED
            BY <2>8, <4>1, <4>2, <5>1
        <4>3. CASE ng # NoNg
          <5>1. \A i : i \in DOMAIN removed <=> i \in 1 .. k \/ i = k + 1
            BY <2>8, <4>3
          <5> HIDE DEF above
          <5> QED
            BY <2>8, <2>9, <4>1, <4>3, <5>1
        <4> QED
          BY <4>2, <4>3
      <3>6. \A i \in 1 .. h, j \in 1 .. k : below(h + j) \cap below(i) = {}
        <4> SUFFICES ASSUME NEW i \in 1 .. h, NEW j \in 1 .. k
                     PROVE  below(h + j) \cap below(i) = {}
          OBVIOUS
        <4>1. h + j \in 1 .. L /\ i \in 1 .. (h + j) - 1
          BY <2>6
        <4>2. PICK g \in 1 .. L : g = h + j /\ i \in 1 .. g - 1
          BY <4>1
        <4>3. below(g) \cap below(i) = {}
          BY <1>1, <2>0, <4>2, ChainIsDisjoint
        <4> QED
          BY <4>2, <4>3
      <3>7. liquid \cap PersistedTxs = {} /\ ChainTxs = PersistedTxs \cup liquid
        BY <1>1, ChainIsDisjoint DEF ChainTxs
      <3> HIDE DEF liquid, below, above
      <3>8. \A e : e \in ChainTxs \ ChainTxs' <=> e \in above
        BY <3>2, <3>3, <3>4, <3>5, <3>6, <3>7
      <3>9. ChainTxs \ ChainTxs' = above
        BY <3>8
      <3> QED
        BY <3>9 DEF above
    <2> QED
      BY <2>4, <2>7, <2>10, <2>11, <2>12
  <1>2. ASSUME LinkInv, LinkInv', Next, persisted' # persisted, ng' = NoNg
        PROVE  \E id : RemoveAfter(id) /\ ~Contains(id) /\ CanRollbackTo(id)
    <2>1. ASSUME NEW b \in Blocks, HardenLiquidBlock(b) PROVE FALSE
      <3>1. PICK n : n = PositionOf(b.ref)
        OBVIOUS
      <3>2. /\ b \in Block /\ TxsUpTo(n) \in SUBSET Txs
            /\ ng' = NewNgState(b, TxsUpTo(n))
        BY <1>2, <2>1, <3>1, HardenFacts DEF LinkInv
      <3>3. ng' \in NgState
        BY <3>2, EmptySeq DEF NewNgState, NgState
      <3> QED
        BY <1>2, <3>3, NoNgAssumption
    <2>2. \E id : RemoveAfter(id)
      BY <1>2, <2>1
      DEF Next, ProcessBlock, StartLiquidBlock, ReplaceLiquidBlock,
          KeepLiquidBlock, RejectBlock, ProcessMicroBlock, Restart, vars
    <2> QED
      BY <1>2, <2>2 DEF RemoveAfter, vars
  <1> HIDE DEF Returned
  <1>3. ReplayInv /\ ReplayInv' /\ [Next]_vars =>
          [ persisted' # persisted /\ ng' = NoNg =>
              LET target  == persisted'[Len(persisted')].block.id
                  removed == RemovedBlocks(target)
              IN  Returned(target, removed) ]_vars
    <2> SUFFICES ASSUME ReplayInv, ReplayInv', Next, persisted' # persisted,
                        ng' = NoNg,
                        NEW target, target = persisted'[Len(persisted')].block.id
                 PROVE  Returned(target, RemovedBlocks(target))
      OBVIOUS
    <2>1. PICK id : RemoveAfter(id) /\ ~Contains(id) /\ CanRollbackTo(id)
      BY <1>2 DEF ReplayInv
    <2> QED
      BY <1>1, <2>1
  <1>4. ReplayInv /\ [Next]_vars => ReplayInv'
    BY NextReplays
  <1> QED
    BY <1>3, <1>4, InitReplays, PTL DEF Spec, RemovedIsReturned, Returned

-----------------------------------------------------------------------------
(* The appender tasks *)

\* What a task relies on: blocks left to append are signed, and the common
\* block is known, so that removeAfter is never asked for the impossible.
CommonKnown == ~Idle => persisted # <<>> \/ Contains(job.common)
JobFields == ~Idle => job.common \in Ids /\ job.left \in Seq(Blocks)

JobInv == LinkInv /\ JobFields /\ CommonKnown

-----------------------------------------------------------------------------
(* processBlock *)

\* What appendBlock does to the chain is a step of processBlock.
LEMMA ProcessedIsNext ==
  ASSUME NEW b \in Blocks, Processed(b)
  PROVE  Next
  BY DEF Processed, Next, ProcessBlock

\* No other block takes the place of the genesis block while it is liquid.
LEMMA GenesisStays ==
  ASSUME LinkInv, persisted = <<>>, NEW b \in Blocks
  PROVE  ~ReplaceLiquidBlock(b)
  <1> SUFFICES ASSUME ReplaceLiquidBlock(b) PROVE FALSE
    OBVIOUS
  <1>1. ng # NoNg /\ ng.base.ref = b.ref
    BY DEF ReplaceLiquidBlock, Supersedes, IsBetter, IsLongerVersion,
           IsSameVersion, Competes
  <1>2. ng.base = Genesis /\ b = Genesis
    BY <1>1, SignedAssumption DEF LinkInv, ChainLinked, BaseSigned
  <1>3. ~IsBetter(b)
    BY <1>2, SignedAssumption DEF IsBetter, Block
  <1>4. ~IsLongerVersion(b)
    <2>1. LiquidTxs \in SUBSET Txs /\ Genesis.txs \in SUBSET LiquidTxs
      BY <1>1, <1>2, WholeLiquid DEF LinkInv, LiquidTxs, TxsUpTo
    <2>2. IsFiniteSet(LiquidTxs)
      BY <2>1, FiniteAssumption, FS_Subset
    <2>3. /\ Cardinality(Genesis.txs) <= Cardinality(LiquidTxs)
          /\ Cardinality(Genesis.txs) \in Nat /\ Cardinality(LiquidTxs) \in Nat
      BY <2>1, <2>2, FS_Subset, FS_CardinalityType
    <2> QED
      BY <1>2, <2>3 DEF IsLongerVersion
  <1> QED
    BY <1>3, <1>4 DEF ReplaceLiquidBlock, Supersedes

\* A block that is processed leaves the common block known.
LEMMA ProcessedKeepsCommon ==
  ASSUME LinkInv, NEW b \in Blocks, Processed(b),
         NEW id, persisted # <<>> \/ Contains(id)
  PROVE  (persisted # <<>> \/ Contains(id))'
  <1>1. CASE StartLiquidBlock(b)
    BY <1>1 DEF StartLiquidBlock, StartsLiquid, IsLastPersisted
  <1>2. CASE ReplaceLiquidBlock(b)
    <2>1. persisted # <<>> /\ persisted' = persisted
      BY <1>2, GenesisStays DEF ReplaceLiquidBlock
    <2> QED
      BY <2>1
  <1>3. CASE KeepLiquidBlock(b)
    BY <1>3 DEF KeepLiquidBlock, vars, Contains, Positions, IdAt
  <1>4. CASE HardenLiquidBlock(b)
    <2> DEFINE n == PositionOf(b.ref)
    <2>1. Len(persisted') = Len(persisted) + 1
      BY <1>4, HardenFacts DEF LinkInv
    <2>2. Len(persisted) \in Nat
      BY PersistedElements DEF LinkInv
    <2>3. persisted' # <<>>
      BY <2>1, <2>2, EmptySeq
    <2> QED
      BY <2>3
  <1> QED
    BY <1>1, <1>2, <1>3, <1>4 DEF Processed

\* removeAfter of the common block leaves it known.
LEMMA RemoveAfterKeepsCommon ==
  ASSUME LinkInv, NEW id, RemoveAfter(id), persisted # <<>> \/ Contains(id)
  PROVE  (persisted # <<>> \/ Contains(id))'
  <1>1. CASE Contains(id)
    BY <1>1 DEF RemoveAfter, vars, Contains, Positions, IdAt
  <1>2. CASE ~Contains(id)
    <2>1. /\ Len(persisted) > 0 => Len(persisted') > 0
          /\ persisted' \in Seq(PersistedBlock)
      BY <1>2, RemoveAfterCuts DEF LinkInv
    <2>2. Len(persisted) > 0
      BY <1>2, PersistedElements DEF LinkInv
    <2>3. persisted' # <<>>
      BY <2>1, <2>2, EmptySeq
    <2> QED
      BY <2>3
  <1> QED
    BY <1>1, <1>2

-----------------------------------------------------------------------------
(* The tasks *)

\* The new blocks of an extension: no more than LevelDB can undo.
LEMMA NewOnesFacts ==
  ASSUME NEW ext \in Extensions, NewOnes(ext) # <<>>
  PROVE  /\ NewOnes(ext) \in Seq(Blocks)
         /\ NewOnes(ext)[1].ref \in Ids
         /\ Len(NewOnes(ext)) <= MaxRollbackDepth
  <1>1. PICK L \in Nat : L = Len(ext) /\ \A i \in 1 .. L : ext[i] \in Blocks
    <2>1. ext \in Seq(Blocks)
      BY ExtensionsAssumption
    <2> QED
      BY <2>1, LenProperties, ElementOfSeq
  <1>2. PICK n \in 1 .. L + 1 : NewOnes(ext) = SubSeq(ext, n, L)
    <2> DEFINE new == {i \in 1 .. L : \E j \in 1 .. i : ~KnownId(ext[j].id)}
    <2>1. NewOnes(ext) = SubSeq(ext, L - Cardinality(new) + 1, L)
      BY <1>1 DEF NewOnes
    <2>2. IsFiniteSet(1 .. L) /\ Cardinality(1 .. L) = L
      <3>1. 1 \in Int /\ L \in Int /\ L >= 0
        OBVIOUS
      <3>2. /\ IsFiniteSet(1 .. L)
            /\ Cardinality(1 .. L) = IF 1 > L THEN 0 ELSE L - 1 + 1
        BY <3>1, FS_Interval
      <3> QED
        BY <3>1, <3>2
    <2>3. Cardinality(new) \in Nat /\ Cardinality(new) <= L
      <3>1. new \in SUBSET (1 .. L)
        OBVIOUS
      <3> QED
        BY <2>2, <3>1, FS_Subset, FS_CardinalityType
    <2> HIDE DEF new
    <2>4. L - Cardinality(new) + 1 \in 1 .. L + 1
      BY <2>3
    <2> QED
      BY <2>1, <2>4
  <1>3. PICK new : new = NewOnes(ext)
    OBVIOUS
  <1>4. /\ new \in Seq(Blocks) /\ Len(new) = L - n + 1
        /\ \A i \in 1 .. L - n + 1 : new[i] = ext[n + i - 1]
    <2>1. \A i \in n .. L : ext[i] \in Blocks
      BY <1>1
    <2> QED
      BY <1>2, <1>3, <2>1, SubSeqProperties
  <1>5. Len(new) <= MaxRollbackDepth
    BY <1>1, <1>4, ExtensionsAssumption, LimitAssumption
  <1>7. new[1].ref \in Ids
    <2>1. Len(new) > 0
      BY <1>3, <1>4, EmptySeq
    <2>2. new[1] \in Blocks
      BY <1>4, <2>1, ElementOfSeq
    <2> QED
      BY <2>2, SignedAssumption DEF Block
  <1> QED
    BY <1>3, <1>4, <1>5, <1>7

\* Starting an extension is a removeAfter of a known block, or nothing.
LEMMA StartStep ==
  ASSUME JobInv, NEW ext \in Extensions, StartExtension(ext),
         NEW new, new = NewOnes(ext), NEW common, common = new[1].ref
  PROVE  [Next]_vars /\ JobFields' /\ CommonKnown'
  <1>1. new \in Seq(Blocks) /\ common \in Ids
    BY NewOnesFacts DEF StartExtension
  <1>2. persisted # <<>> \/ Contains(common)
    BY DEF StartExtension, KnownId, PersistedAt
  <1>3. UNCHANGED vars \/ RemoveAfter(common)
    BY DEF StartExtension
  <1>4. job' # NoJob => job'.common = common /\ job'.left = new
    BY DEF StartExtension, NewJob
  <1>5. persisted' # <<>> \/ Contains(common)'
    <2>1. CASE UNCHANGED vars
      BY <2>1, <1>2 DEF vars, Contains, Positions, IdAt
    <2>2. CASE RemoveAfter(common)
      BY <2>2, <1>2, RemoveAfterKeepsCommon DEF JobInv
    <2> QED
      BY <2>1, <2>2, <1>3
  <1>6. JobFields' /\ CommonKnown'
    <2> SUFFICES ASSUME job' # NoJob
                 PROVE  /\ job'.common \in Ids /\ job'.left \in Seq(Blocks)
                        /\ persisted' # <<>> \/ Contains(job.common)'
      BY DEF JobFields, CommonKnown, Idle
    <2>1. Contains(job.common)' <=> Contains(common)'
      BY <1>4 DEF Contains
    <2> QED
      BY <1>1, <1>4, <1>5, <2>1
  <1>7. [Next]_vars
    BY <1>1, <1>2, <1>3 DEF Next
  <1> QED
    BY <1>6, <1>7

\* While a task is under way its common block stays the same.
LEMMA SameTask ==
  ASSUME JobFields, CommonKnown, ~Idle,
         job' # NoJob => /\ job'.common = job.common
                         /\ job'.left \in Seq(Blocks),
         (persisted # <<>> \/ Contains(job.common)) =>
            (persisted' # <<>> \/ \A c : c = job.common => Contains(c)')
  PROVE  JobFields' /\ CommonKnown'
  <1> SUFFICES ASSUME job' # NoJob
               PROVE  /\ job'.common \in Ids /\ job'.left \in Seq(Blocks)
                      /\ persisted' # <<>> \/ Contains(job.common)'
    BY DEF JobFields, CommonKnown, Idle
  <1>1. persisted' # <<>> \/ Contains(job.common)'
    BY DEF CommonKnown, Contains
  <1> QED
    BY <1>1 DEF JobFields

\* Every step of the node keeps what the tasks rely on, and is to the chain a
\* step of BlockchainUpdater or none.
LEMMA NodeStep ==
  ASSUME JobInv, [NodeNext]_nodeVars
  PROVE  [Next]_vars /\ JobInv'
  <1>1. SUFFICES [Next]_vars /\ JobFields' /\ CommonKnown'
    BY NextLinked DEF JobInv
  <1> USE DEF JobInv
  <1>2. ASSUME UNCHANGED vars, job' = job PROVE [Next]_vars /\ JobFields' /\ CommonKnown'
    BY <1>2 DEF vars, JobFields, CommonKnown, Idle, Contains, Positions, IdAt
  <1>3. ASSUME Next, job' = NoJob PROVE [Next]_vars /\ JobFields' /\ CommonKnown'
    BY <1>3 DEF JobFields, CommonKnown, Idle
  <1>4. ASSUME NEW b \in Blocks, BlockArrives(b)
        PROVE  [Next]_vars /\ JobFields' /\ CommonKnown'
    <2>1. Next /\ job' = NoJob
      BY <1>4, ProcessedIsNext DEF BlockArrives, AppendedBlock, Idle
    <2> QED
      BY <2>1, <1>3
  <1>5. ASSUME NEW m \in MicroBlocks, MicroBlockArrives(m)
        PROVE  [Next]_vars /\ JobFields' /\ CommonKnown'
    <2>1. Next /\ job' = NoJob
      BY <1>5 DEF MicroBlockArrives, Next, Idle
    <2> QED
      BY <2>1, <1>3
  <1>6. ASSUME NEW ext \in Extensions, StartExtension(ext)
        PROVE  [Next]_vars /\ JobFields' /\ CommonKnown'
    BY <1>6, StartStep
  <1>7. CASE AppendNext
    <2> DEFINE b == Head(job.left)
    <2>1. ~Idle /\ job.left \in Seq(Blocks) /\ job.left # <<>>
      BY <1>7 DEF AppendNext, AtStage, JobFields
    <2>2. b \in Blocks /\ Tail(job.left) \in Seq(Blocks)
      BY <2>1, HeadTailProperties
    <2>3. /\ job'.common = job.common /\ job'.left = Tail(job.left)
          /\ Processed(b)
      BY <1>7 DEF AppendNext, AppendedBlock
    <2> HIDE DEF b
    <2>4. ASSUME NEW c, persisted # <<>> \/ Contains(c)
          PROVE  persisted' # <<>> \/ Contains(c)'
      BY <2>2, <2>3, <2>4, ProcessedKeepsCommon
    <2>5. Next
      BY <2>2, <2>3, ProcessedIsNext
    <2> QED
      BY <2>1, <2>2, <2>3, <2>4, <2>5, SameTask
  <1>8. CASE DeclineNext
    <2>1. /\ ~Idle /\ job' = [job EXCEPT !.stage = "undo"]
          /\ job'.common = job.common /\ job'.left = job.left
      BY <1>8 DEF DeclineNext, AtStage
    <2>2. UNCHANGED vars
      BY <1>8 DEF DeclineNext
    <2>3. \A c : Contains(c) => Contains(c)'
      BY <2>2 DEF vars, Contains, Positions, IdAt
    <2> QED
      BY <2>1, <2>2, <2>3, SameTask DEF JobFields, vars
  <1>9. CASE FinishExtension
    <2>1. UNCHANGED vars /\ job' = NoJob
      BY <1>9 DEF FinishExtension
    <2> QED
      BY <2>1 DEF JobFields, CommonKnown, Idle
  <1>10. CASE UndoExtension
    <2>1. ~Idle /\ RemoveAfter(job.common)
      BY <1>10 DEF UndoExtension, AtStage
    <2>2. job' = NoJob \/ (job'.common = job.common /\ job'.left = job.left)
      BY <1>10 DEF UndoExtension
    <2>3. job.common \in Ids /\ (persisted # <<>> \/ Contains(job.common))
      BY <2>1 DEF JobFields, CommonKnown
    <2>4. ASSUME NEW c, c = job.common PROVE persisted' # <<>> \/ Contains(c)'
      BY <2>1, <2>3, <2>4, RemoveAfterKeepsCommon
    <2>5. Next
      BY <2>1, <2>3 DEF Next
    <2> QED
      BY <2>1, <2>2, <2>4, <2>5, SameTask DEF JobFields
  <1>11. CASE RestoreNext
    <2> DEFINE b == Head(job.dropped)
    <2>1. ~Idle /\ b \in Blocks /\ Processed(b)
      BY <1>11 DEF RestoreNext, AtStage
    <2>2. job' = NoJob \/ (job'.common = job.common /\ job'.left = job.left)
      BY <1>11 DEF RestoreNext, AfterRestoring
    <2> HIDE DEF b
    <2>3. ASSUME NEW c, persisted # <<>> \/ Contains(c)
          PROVE  persisted' # <<>> \/ Contains(c)'
      BY <2>1, <2>3, ProcessedKeepsCommon
    <2>4. Next
      BY <2>1, ProcessedIsNext
    <2> QED
      BY <2>1, <2>2, <2>3, <2>4, SameTask DEF JobFields
  <1>12. CASE RestoreThrows
    <2>1. UNCHANGED vars /\ job' = NoJob
      BY <1>12 DEF RestoreThrows
    <2> QED
      BY <2>1 DEF JobFields, CommonKnown, Idle
  <1>13. ASSUME NEW id \in Ids, NEW keep \in BOOLEAN, RollbackToBlock(id, keep)
         PROVE  [Next]_vars /\ JobFields' /\ CommonKnown'
    <2>1. RemoveAfter(id) /\ (persisted # <<>> \/ Contains(id)) /\ job' = NoJob
      BY <1>13 DEF RollbackToBlock, Idle
    <2> QED
      BY <2>1, <1>3 DEF Next
  <1>14. ASSUME NEW t \in Txs, PutReturned(t) \/ PutIfNew(t) \/ RemoveInvalid(t)
         PROVE  [Next]_vars /\ JobFields' /\ CommonKnown'
    BY <1>14, <1>2 DEF PutReturned, PutIfNew, RemoveInvalid
  <1>15. CASE NodeRestart
    BY <1>15, <1>3 DEF NodeRestart, Next
  <1>16. CASE UNCHANGED nodeVars
    BY <1>16, <1>2 DEF nodeVars, vars
  <1> QED
    BY <1>4, <1>5, <1>6, <1>7, <1>8, <1>9, <1>10, <1>11, <1>12, <1>13, <1>14,
       <1>15, <1>16
    DEF NodeNext

\* Each step of the node, the steps of a fork switch among them, is a step of
\* BlockchainUpdater or leaves the chain alone.
THEOREM NodeImplementsUpdater == NodeSpec => Spec
  <1>1. NodeInit => Init /\ JobInv
    <2>1. NodeInit => Init /\ JobFields /\ CommonKnown
      BY DEF NodeInit, JobFields, CommonKnown, Idle
    <2> QED
      BY <2>1, InitLinked DEF JobInv
  <1>2. JobInv /\ [NodeNext]_nodeVars => [Next]_vars /\ JobInv'
    BY NodeStep
  <1> QED
    BY <1>1, <1>2, PTL DEF NodeSpec, Spec

\* So at every moment of an extension, a rollback or a restart, the chain of
\* the node is one that another node can replay from genesis.
THEOREM NodeChainReplays == NodeSpec => []ChainReplays
  BY NodeImplementsUpdater, ChainAlwaysReplays, PTL

-----------------------------------------------------------------------------
(* Ids are signed in the order of the chain, so no two of them are the same *)

\* Every set of natural numbers has a least one (here because the intervals
\* from 0 to each of them are finite sets, on which inclusion is well founded).
LEMMA Least ==
  ASSUME NEW T, T \subseteq Nat, T # {}
  PROVE  \E m \in T : \A k \in T : m <= k
  <1> DEFINE order == StrictSubsetOrdering(Nat)
             finite == FiniteSubsetsOf(Nat)
             below == {0 .. k : k \in T}
  <1>1. IsWellFoundedOn(order, finite)
    BY FS_StrictSubsetOrderingWellFounded
  <1>2. \A k \in T : 0 .. k \in finite
    <2>1. \A k \in T : IsFiniteSet(0 .. k)
      BY FS_Interval
    <2> QED
      BY <2>1 DEF FiniteSubsetsOf
  <1>3. below \subseteq finite /\ below # {}
    BY <1>2
  <1>4. \E x \in below : \A y \in below : ~(<<y, x>> \in order)
    <2> HIDE DEF order, finite, below
    <2> QED
      BY <1>1, <1>3, WFMin
  <1>5. PICK m \in T : \A k \in T : <<0 .. k, 0 .. m>> \notin order
    BY <1>4
  <1>6. ASSUME NEW k \in T, k < m PROVE FALSE
    <2>1. 0 .. k \subseteq 0 .. m /\ 0 .. k # 0 .. m
      <3>1. m \in 0 .. m /\ m \notin 0 .. k
        BY <1>6
      <3> QED
        BY <1>6, <3>1
    <2>2. <<0 .. k, 0 .. m>> \in order
      BY <1>2, <2>1 DEF StrictSubsetOrdering
    <2> QED
      BY <1>5, <2>2
  <1> QED
    BY <1>6

\* What grows from each place to the next grows from every place to all later
\* ones.
LEMMA Increasing ==
  ASSUME NEW m \in Nat, NEW f, \A i \in 0 .. m : f[i] \in Nat,
         \A i \in 1 .. m : f[i - 1] < f[i],
         NEW i \in 0 .. m, NEW j \in 0 .. m, i < j
  PROVE  f[i] < f[j]
  <1> DEFINE wrong == {k \in i + 1 .. m : ~(f[i] < f[k])}
  <1> SUFFICES ASSUME wrong # {} PROVE FALSE
    OBVIOUS
  <1>1. wrong \subseteq Nat
    OBVIOUS
  <1>2. PICK k \in wrong : \A l \in wrong : k <= l
    <2> HIDE DEF wrong
    <2> QED
      BY <1>1, Least
  <1>3. k - 1 \in 0 .. m /\ k \in 1 .. m /\ f[k - 1] < f[k]
    OBVIOUS
  <1>4. f[i] \in Nat /\ f[k - 1] \in Nat /\ f[k] \in Nat
    BY <1>3
  <1>5. CASE k - 1 = i
    BY <1>3, <1>5
  <1>6. CASE k - 1 # i
    <2>1. k - 1 \in i + 1 .. m /\ k - 1 \notin wrong
      BY <1>2, <1>3, <1>6
    <2>2. f[i] < f[k - 1]
      BY <2>1
    <2> QED
      BY <1>3, <1>4, <2>2
  <1> QED
    BY <1>5, <1>6

MicrosSigned ==
  ng # NoNg => \A i \in DOMAIN ng.micros : ng.micros[i] \in MicroBlocks

\* The chain as a node keeps it: everything in it is signed and linked.
ChainInv == LinkInv /\ SignedPositions /\ MicrosSigned

\* The higher a persisted block, the later it was signed.
LEMMA PersistedInOrder ==
  ASSUME ChainInv, NEW h \in 1 .. Len(persisted), NEW k \in 1 .. Len(persisted), h < k
  PROVE  SignedAt[persisted[h].block.id] < SignedAt[persisted[k].block.id]
  <1> USE DEF ChainInv, LinkInv
  <1>1. PICK L \in Nat : L = Len(persisted) /\ DOMAIN persisted = 1 .. L
    BY PersistedElements
  <1> DEFINE f == [i \in 0 .. L |-> IF i = 0 THEN SignedAt[persisted[1].block.ref]
                                    ELSE SignedAt[persisted[i].block.id]]
  <1>2. \A i \in 1 .. L : persisted[i].block \in Blocks /\ persisted[i].block \in Block
    BY <1>1, SignedAssumption DEF SignedPositions
  <1>3. \A i \in 0 .. L : f[i] \in Nat
    BY <1>1, <1>2, ReferencesAssumption DEF Block
  <1>4. \A i \in 1 .. L : f[i - 1] < f[i]
    <2> SUFFICES ASSUME NEW i \in 1 .. L PROVE f[i - 1] < f[i]
      OBVIOUS
    <2>1. i > 1 => persisted[i].block.ref = persisted[i - 1].block.id
      BY <1>1 DEF ChainLinked
    <2>2. SignedAt[persisted[i].block.ref] < SignedAt[persisted[i].block.id]
      BY <1>2, ReferencesAssumption
    <2>3. i - 1 \in 0 .. L /\ i # 0
      OBVIOUS
    <2> QED
      BY <2>1, <2>2, <2>3
  <1>5. h \in 0 .. L /\ k \in 0 .. L /\ h # 0 /\ k # 0
    BY <1>1
  <1>6. f[h] < f[k]
    <2> HIDE DEF f
    <2> QED
      BY <1>3, <1>4, <1>5, Increasing
  <1> QED
    BY <1>5, <1>6

\* No block is twice in the persisted chain.
LEMMA PersistedOnce ==
  ASSUME ChainInv, NEW h \in 1 .. Len(persisted), NEW id, id = persisted[h].block.id
  PROVE  PersistedAt(id) = {h} /\ HeightAt(id) = h
  <1>1. PICK L \in Nat : L = Len(persisted) /\ DOMAIN persisted = 1 .. L
    BY PersistedElements DEF ChainInv, LinkInv
  <1>2. \A i \in 1 .. L : SignedAt[persisted[i].block.id] \in Nat
    BY <1>1, SignedAssumption, ReferencesAssumption DEF ChainInv, SignedPositions, Block
  <1>3. ASSUME NEW k \in 1 .. L, k # h, persisted[k].block.id = id PROVE FALSE
    <2>1. CASE k < h
      BY <1>1, <1>2, <1>3, <2>1, PersistedInOrder
    <2>2. CASE h < k
      BY <1>1, <1>2, <1>3, <2>2, PersistedInOrder
    <2> QED
      BY <1>1, <1>3, <2>1, <2>2
  <1>4. PersistedAt(id) = {h}
    BY <1>1, <1>3 DEF PersistedAt
  <1> QED
    BY <1>4 DEF HeightAt

\* The positions of the liquid block were signed later than what its key
\* block refers to.
LEMMA LiquidInOrder ==
  ASSUME ChainInv, ng # NoNg, NEW n \in Positions
  PROVE  /\ IdAt(n) \in Ids /\ ng.base.ref \in Ids
         /\ SignedAt[ng.base.ref] < SignedAt[IdAt(n)]
  <1> USE DEF ChainInv, LinkInv
  <1>1. PICK k \in Nat : k = Len(ng.micros) /\ DOMAIN ng.micros = 1 .. k
    BY LenProperties DEF TypeOK, NgState
  <1>2. Positions = 0 .. k
    BY <1>1 DEF Positions
  <1>3. \A i \in 0 .. k : IdAt(i) \in Ids
    BY <1>2, ForgedType
  <1>4. ng.base \in Blocks /\ ng.base.ref \in Ids /\ ng.base.id \in Ids
    BY SignedAssumption DEF BaseSigned, Block
  <1> DEFINE f == [i \in 0 .. k |-> SignedAt[IdAt(i)]]
  <1>5. \A i \in 0 .. k : f[i] \in Nat
    BY <1>3, ReferencesAssumption
  <1>6. \A i \in 1 .. k : f[i - 1] < f[i]
    <2> SUFFICES ASSUME NEW i \in 1 .. k PROVE f[i - 1] < f[i]
      OBVIOUS
    <2>1. ng.micros[i] \in MicroBlocks /\ ng.micros[i].prev = IdAt(i - 1)
      BY <1>1 DEF MicrosSigned, SignedPositions
    <2>2. IdAt(i) = ng.micros[i].id
      BY DEF IdAt
    <2>3. SignedAt[ng.micros[i].prev] < SignedAt[ng.micros[i].id]
      BY <2>1, ReferencesAssumption
    <2>4. i - 1 \in 0 .. k /\ i \in 0 .. k
      OBVIOUS
    <2> QED
      BY <2>1, <2>2, <2>3, <2>4
  <1>7. SignedAt[ng.base.ref] < SignedAt[ng.base.id]
    BY <1>4, ReferencesAssumption
  <1>8. IdAt(0) = ng.base.id /\ 0 \in 0 .. k
    BY DEF IdAt
  <1>9. CASE n = 0
    BY <1>4, <1>7, <1>8, <1>9
  <1>10. CASE n # 0
    <2>1. n \in 0 .. k /\ 0 < n
      BY <1>2, <1>10
    <2>2. f[0] < f[n]
      <3> HIDE DEF f
      <3> QED
        BY <1>5, <1>6, <1>8, <2>1, Increasing
    <2>3. /\ SignedAt[ng.base.ref] \in Nat /\ SignedAt[IdAt(n)] \in Nat
          /\ SignedAt[ng.base.id] \in Nat
      BY <1>3, <1>4, <2>1, ReferencesAssumption
    <2> QED
      BY <1>3, <1>4, <1>7, <1>8, <2>1, <2>2, <2>3
  <1> QED
    BY <1>9, <1>10

\* So a block that builds on the liquid block does not compete with it, and no
\* id of the liquid block is the id of a persisted block.
LEMMA LiquidIsNew ==
  ASSUME ChainInv, NEW id, Contains(id)
  PROVE  ng.base.ref # id /\ PersistedAt(id) = {}
  <1> USE DEF ChainInv, LinkInv
  <1>1. PICK n \in Positions : ng # NoNg /\ n = PositionOf(id) /\ IdAt(n) = id
    BY PositionFound
  <1>2. /\ id \in Ids /\ ng.base.ref \in Ids
        /\ SignedAt[ng.base.ref] < SignedAt[id]
        /\ SignedAt[ng.base.ref] \in Nat /\ SignedAt[id] \in Nat
    BY <1>1, LiquidInOrder, ReferencesAssumption
  <1>3. PICK L \in Nat : L = Len(persisted) /\ DOMAIN persisted = 1 .. L
    BY PersistedElements
  <1>4. ASSUME NEW h \in 1 .. L, persisted[h].block.id = id PROVE FALSE
    <2>1. persisted # <<>> /\ ng.base.ref = persisted[L].block.id
      BY <1>1, <1>3, <1>4, EmptySeq DEF ChainLinked
    <2>2. CASE h = L
      BY <1>2, <1>4, <2>1, <2>2
    <2>3. CASE h < L
      <3>1. SignedAt[id] < SignedAt[ng.base.ref]
        BY <1>3, <1>4, <2>1, <2>3, PersistedInOrder
      <3> QED
        BY <1>2, <3>1
    <2> QED
      BY <2>2, <2>3
  <1> QED
    BY <1>2, <1>3, <1>4 DEF PersistedAt

\* LevelDB can always take back the top block.
Horizon ==
  /\ safeRollbackHeight <= Len(persisted)
  /\ persisted # <<>> => safeRollbackHeight < Len(persisted)

\* Only processMicroBlock adds to the microblocks.
LEMMA NextMicrosSigned ==
  ASSUME LinkInv, MicrosSigned, [Next]_vars
  PROVE  MicrosSigned'
  <1>0. TypeOK /\ TypeOK'
    BY NextTyped DEF LinkInv
  <1>1. ASSUME ng' = NoNg \/ \E b, fees : ng' = NewNgState(b, fees) PROVE MicrosSigned'
    <2> SUFFICES ASSUME ng' # NoNg PROVE DOMAIN ng'.micros = {}
      BY DEF MicrosSigned
    <2>1. ng'.micros = <<>>
      BY <1>1 DEF NewNgState
    <2>2. \A S : DOMAIN <<>> = 1 .. 0
      BY EmptySeq, LenProperties
    <2> QED
      BY <2>1, <2>2
  <1>2. ASSUME ng' = ng PROVE MicrosSigned'
    BY <1>2 DEF MicrosSigned
  <1>3. ASSUME NEW m \in MicroBlocks, ProcessMicroBlock(m) PROVE MicrosSigned'
    <2>1. ng # NoNg /\ ng' = [ng EXCEPT !.micros = Append(@, m)]
      BY <1>3 DEF ProcessMicroBlock, AcceptsMicroBlock
    <2>2. PICK micros : micros = ng.micros /\ micros \in Seq(MicroBlock)
      BY <1>0, <2>1 DEF TypeOK, NgState
    <2>3. PICK k \in Nat : k = Len(micros) /\ DOMAIN micros = 1 .. k
      BY <2>2, LenProperties
    <2>4. ng'.micros = Append(micros, m) /\ m \in MicroBlock
      BY <1>0, <2>1, <2>2, SignedAssumption DEF TypeOK, NgState
    <2>5. /\ Len(ng'.micros) = k + 1 /\ ng'.micros \in Seq(MicroBlock)
          /\ \A i \in 1 .. k : ng'.micros[i] = micros[i]
          /\ ng'.micros[k + 1] = m
      BY <2>2, <2>3, <2>4, AppendProperties
    <2>6. DOMAIN ng'.micros = 1 .. k + 1
      BY <2>5, LenProperties
    <2>7. \A i \in 1 .. k + 1 : i \in 1 .. k \/ i = k + 1
      OBVIOUS
    <2> QED
      BY <2>1, <2>2, <2>3, <2>5, <2>6, <2>7 DEF MicrosSigned
  <1>4. ASSUME NEW b \in Blocks, ProcessBlock(b) PROVE MicrosSigned'
    BY <1>1, <1>2, <1>4
    DEF ProcessBlock, StartLiquidBlock, ReplaceLiquidBlock, KeepLiquidBlock,
        HardenLiquidBlock, RejectBlock, SetLiquid, vars
  <1>5. ASSUME NEW id \in Ids, RemoveAfter(id) PROVE MicrosSigned'
    BY <1>1, <1>2, <1>5 DEF RemoveAfter, vars
  <1>6. CASE Restart
    BY <1>1, <1>6 DEF Restart, LiquidAtStart
  <1>7. CASE UNCHANGED vars
    BY <1>2, <1>7 DEF vars
  <1> QED
    BY <1>3, <1>4, <1>5, <1>6, <1>7 DEF Next

\* The horizon moves up with the chain, and never to its top.
LEMMA NextHorizon ==
  ASSUME ChainInv, Horizon, [Next]_vars
  PROVE  Horizon'
  <1>0. TypeOK /\ TypeOK'
    BY NextTyped DEF ChainInv, LinkInv
  <1>1. PICK L \in Nat : L = Len(persisted) /\ (persisted # <<>> <=> L > 0)
    BY <1>0, PersistedElements
  <1>2. PICK s \in Nat : s = safeRollbackHeight /\ s <= L /\ (L > 0 => s < L)
    BY <1>0, <1>1 DEF TypeOK, Horizon
  <1>3. ASSUME persisted' = persisted, safeRollbackHeight' = safeRollbackHeight
        PROVE  Horizon'
    BY <1>3 DEF Horizon
  <1>4. ASSUME NEW b \in Blocks, HardenLiquidBlock(b) PROVE Horizon'
    <2>1. Len(persisted') = L + 1
      BY <1>0, <1>1, <1>4, HardenFacts
    <2>2. safeRollbackHeight' = IF s < L + 1 - MaxRollbackDepth
                                THEN L + 1 - MaxRollbackDepth ELSE s
      <3>1. \E c, d, e : AppendPersisted(c, d, e)
        BY <1>4 DEF HardenLiquidBlock
      <3> QED
        BY <1>1, <1>2, <3>1, LimitAssumption DEF AppendPersisted
    <2>3. MaxRollbackDepth \in Nat \ {0}
      BY LimitAssumption
    <2>4. safeRollbackHeight' < L + 1
      BY <1>2, <2>2, <2>3
    <2> QED
      BY <2>1, <2>4, <1>0 DEF Horizon, TypeOK
  <1>5. ASSUME NEW b \in Blocks, ProcessBlock(b) PROVE Horizon'
    BY <1>3, <1>4, <1>5
    DEF ProcessBlock, StartLiquidBlock, ReplaceLiquidBlock, KeepLiquidBlock,
        RejectBlock, vars
  <1>6. ASSUME NEW id \in Ids, RemoveAfter(id) PROVE Horizon'
    <2>1. safeRollbackHeight' = safeRollbackHeight
      BY <1>6 DEF RemoveAfter, vars
    <2>2. CASE ~Contains(id) /\ CanRollbackTo(id)
      <3>1. PICK h \in 1 .. L : h > s /\ persisted[h].block.id = id
        BY <1>0, <1>1, <1>2, <2>2, PersistedElements DEF CanRollbackTo, PersistedAt
      <3>2. persisted' = SubSeq(persisted, 1, h)
        BY <1>1, <1>6, <2>2, <3>1, PersistedOnce DEF RemoveAfter
      <3>3. Len(persisted') = h
        <4>1. \A i \in 1 .. h : persisted[i] \in PersistedBlock
          BY <1>0, <1>1, PersistedElements
        <4> QED
          BY <3>2, <4>1, SubSeqProperties
      <3> QED
        BY <1>2, <2>1, <3>1, <3>3 DEF Horizon
    <2>3. CASE ~(~Contains(id) /\ CanRollbackTo(id))
      BY <1>3, <1>6, <2>1, <2>3 DEF RemoveAfter, vars
    <2> QED
      BY <2>2, <2>3
  <1>7. ASSUME NEW m \in MicroBlocks, ProcessMicroBlock(m) PROVE Horizon'
    BY <1>3, <1>7 DEF ProcessMicroBlock
  <1>8. CASE Restart \/ UNCHANGED vars
    BY <1>3, <1>8 DEF Restart, vars
  <1> QED
    BY <1>5, <1>6, <1>7, <1>8 DEF Next

\* What a step of the chain preserves.
NodeInv == DiscardInv /\ ChainInv /\ Horizon

\* An empty node has these invariants, ...
LEMMA InitNodeInv == Init => NodeInv
  <1> SUFFICES ASSUME Init PROVE NodeInv
    OBVIOUS
  <1>1. DiscardInv /\ LinkInv
    BY InitDiscards, InitLinked
  <1>2. persisted = <<>> /\ ng.micros = <<>> /\ safeRollbackHeight = 0
    BY DEF Init, LiquidAtStart, NewNgState
  <1>3. Len(persisted) = 0 /\ DOMAIN persisted = {} /\ DOMAIN ng.micros = {}
    BY <1>2, EmptySeq, LenProperties
  <1> QED
    BY <1>1, <1>2, <1>3
    DEF NodeInv, ChainInv, SignedPositions, MicrosSigned, Horizon

\* ... and every step of BlockchainUpdater keeps them.
LEMMA NextNodeInv == NodeInv /\ [Next]_vars => NodeInv'
  BY NextDiscards, NextSigned, NextMicrosSigned, NextHorizon
  DEF NodeInv, ChainInv, SignedInv

-----------------------------------------------------------------------------
(* The chain as a sequence of blocks *)

\* The transactions of two sequences of blocks, one after the other.
LEMMA TxsInConcat ==
  ASSUME NEW s \in Seq(Block), NEW t \in Seq(Block)
  PROVE  TxsIn(s \o t) = TxsIn(s) \cup TxsIn(t)
  <1>1. PICK m \in Nat, n \in Nat : m = Len(s) /\ n = Len(t)
    BY LenProperties
  <1> PICK u : u = s \o t
    OBVIOUS
  <1>2. /\ u \in Seq(Block) /\ Len(u) = m + n
        /\ \A i \in 1 .. m + n : u[i] = IF i <= m THEN s[i] ELSE t[i - m]
    BY <1>1, ConcatProperties
  <1>3. DOMAIN s = 1 .. m /\ DOMAIN t = 1 .. n /\ DOMAIN u = 1 .. m + n
    BY <1>1, <1>2, LenProperties
  <1>4. ASSUME NEW e, e \in TxsIn(u) PROVE e \in TxsIn(s) \/ e \in TxsIn(t)
    <2>1. PICK i \in 1 .. m + n : e \in u[i].txs
      BY <1>3, <1>4 DEF TxsIn
    <2>2. CASE i <= m
      BY <1>2, <1>3, <2>1, <2>2 DEF TxsIn
    <2>3. CASE i > m
      <3>1. i - m \in 1 .. n /\ u[i] = t[i - m]
        BY <1>2, <2>1, <2>3
      <3> QED
        BY <1>3, <2>1, <3>1 DEF TxsIn
    <2> QED
      BY <2>2, <2>3
  <1>5. TxsIn(s) \subseteq TxsIn(u)
    <2>1. \A i \in 1 .. m : i \in 1 .. m + n /\ u[i] = s[i]
      BY <1>2
    <2> QED
      BY <1>3, <2>1 DEF TxsIn
  <1>6. TxsIn(t) \subseteq TxsIn(u)
    <2>1. \A i \in 1 .. n : i + m \in 1 .. m + n /\ u[i + m] = t[i]
      <3> TAKE i \in 1 .. n
      <3>1. i + m \in 1 .. m + n /\ ~(i + m <= m) /\ (i + m) - m = i
        OBVIOUS
      <3> QED
        BY <1>2, <3>1
    <2> QED
      BY <1>3, <2>1 DEF TxsIn
  <1>7. TxsIn(u) = TxsIn(s) \cup TxsIn(t)
    BY <1>4, <1>5, <1>6
  <1> QED
    BY <1>2, <1>7

\* The transactions of a sequence with one more block.
LEMMA TxsInAppend ==
  ASSUME NEW s \in Seq(Block), NEW b \in Block
  PROVE  TxsIn(Append(s, b)) = TxsIn(s) \cup b.txs
  <1>1. PICK one : one = <<b>>
    OBVIOUS
  <1>2. one \in Seq(Block) /\ TxsIn(one) = b.txs
    BY <1>1 DEF TxsIn
  <1>3. Append(s, b) = s \o one
    BY <1>1, AppendIsConcat
  <1> QED
    BY <1>2, <1>3, TxsInConcat

\* Moving the head of a sequence to the end of another leaves the two, one after
\* the other, as they were.
LEMMA AppendMovesHead ==
  ASSUME NEW S, NEW s \in Seq(S), NEW t \in Seq(S), t # <<>>
  PROVE  Append(s, Head(t)) \o Tail(t) = s \o t
  <1>1. PICK n \in Nat \ {0} : n = Len(t)
    BY EmptySeq
  <1>2. PICK h \in S, r \in Seq(S) : h = Head(t) /\ r = Tail(t) /\ r = SubSeq(t, 2, n)
    BY <1>1, HeadTailProperties, TailIsSubSeq
  <1>3. t[1] = h
    BY <1>1, <1>2
  <1>4. t = <<h>> \o r
    <2>1. 1 \in 1 .. Len(t) /\ n \in 1 .. Len(t)
      BY <1>1
    <2>2. SubSeq(t, 1, n) = <<t[1]>> \o SubSeq(t, 1 + 1, n)
      BY <2>1, SubSeqRecursiveFirst
    <2> QED
      BY <1>1, <1>2, <1>3, <2>2, SubSeqFull
  <1>5. Append(s, h) = s \o <<h>> /\ <<h>> \in Seq(S)
    BY AppendIsConcat
  <1>6. (s \o <<h>>) \o r = s \o (<<h>> \o r)
    BY <1>5, ConcatAssociative
  <1> QED
    BY <1>2, <1>4, <1>5, <1>6

\* The persisted blocks of the chain.
Stem == [h \in DOMAIN persisted |-> persisted[h].block]

\* The persisted part of the chain has its blocks and its transactions.
LEMMA StemFacts ==
  ASSUME TypeOK
  PROVE  /\ Stem \in Seq(Block)
         /\ Len(Stem) = Len(persisted) /\ Len(persisted) \in Nat
         /\ \A h \in 1 .. Len(persisted) : Stem[h] = persisted[h].block
         /\ TxsIn(Stem) = PersistedTxs
  <1>1. PICK L \in Nat : /\ L = Len(persisted) /\ DOMAIN persisted = 1 .. L
                         /\ \A h \in 1 .. L : persisted[h] \in PersistedBlock
    BY PersistedElements
  <1>2. Stem \in [1 .. L -> Block]
    BY <1>1 DEF Stem, PersistedBlock
  <1>3. Stem \in Seq(Block)
    BY <1>2, SeqDef
  <1>4. Len(Stem) = L /\ DOMAIN Stem = 1 .. L
    BY <1>2, <1>3, LenProperties
  <1>5. \A h \in 1 .. L : Stem[h] = persisted[h].block
    BY <1>1 DEF Stem
  <1>6. TxsIn(Stem) = PersistedTxs
    BY <1>1, <1>4, <1>5 DEF TxsIn, PersistedTxs
  <1> QED
    BY <1>1, <1>3, <1>4, <1>5, <1>6

\* The chain is its persisted part, with the liquid block on top if there is one.
LEMMA ChainFacts ==
  ASSUME TypeOK
  PROVE  /\ ChainBlocks \in Seq(Block)
         /\ Len(ChainBlocks) = Height /\ Height \in Nat
         /\ TxsIn(ChainBlocks) = ChainTxs
         /\ \A n \in 0 .. Len(persisted) :
              SubSeq(ChainBlocks, 1, n) = SubSeq(Stem, 1, n)
         /\ ng = NoNg => ChainBlocks = Stem
         /\ ng # NoNg => /\ BestLiquidBlock \in Block
                         /\ ChainBlocks = Append(Stem, BestLiquidBlock)
  <1>1. PICK stem \in Seq(Block), L \in Nat :
          stem = Stem /\ L = Len(persisted) /\ Len(stem) = L /\ TxsIn(stem) = PersistedTxs
    BY StemFacts
  <1>2. ChainBlocks = stem \o (IF ng = NoNg THEN <<>> ELSE <<BestLiquidBlock>>)
    BY <1>1 DEF ChainBlocks, Stem
  <1>3. CASE ng = NoNg
    <2>1. ChainBlocks = stem
      BY <1>2, <1>3, ConcatEmptySeq
    <2>2. ChainTxs = PersistedTxs /\ Height = L
      BY <1>1, <1>3 DEF ChainTxs, Height
    <2> QED
      BY <1>1, <1>3, <2>1, <2>2
  <1>4. CASE ng # NoNg
    <2>1. PICK b \in Block : b = BestLiquidBlock /\ b.txs = LiquidTxs
      BY <1>4, WholeLiquid, ForgedType DEF BestLiquidBlock, ForgedBlock, LiquidTxs, NgState, Block
    <2>2. ChainBlocks = Append(stem, b)
      BY <1>2, <1>4, <2>1, AppendIsConcat
    <2>3. PICK c \in Seq(Block) : /\ c = ChainBlocks /\ Len(c) = L + 1
                                  /\ \A i \in 1 .. L : c[i] = stem[i]
      BY <1>1, <2>2, AppendProperties
    <2>4. ChainTxs = TxsIn(c) /\ Height = L + 1
      BY <1>1, <1>4, <2>1, <2>2, <2>3, TxsInAppend DEF ChainTxs, Height
    <2>5. ASSUME NEW n \in 0 .. L PROVE SubSeq(c, 1, n) = SubSeq(stem, 1, n)
      <3>1. \A i \in 1 .. n : c[i] \in Block /\ stem[i] \in Block /\ c[i] = stem[i]
        BY <1>1, <2>3, ElementOfSeq
      <3>2. /\ SubSeq(c, 1, n) \in Seq(Block) /\ Len(SubSeq(c, 1, n)) = n
            /\ \A i \in 1 .. n : SubSeq(c, 1, n)[i] = c[i]
        BY <3>1, SubSeqProperties
      <3>3. /\ SubSeq(stem, 1, n) \in Seq(Block) /\ Len(SubSeq(stem, 1, n)) = n
            /\ \A i \in 1 .. n : SubSeq(stem, 1, n)[i] = stem[i]
        BY <3>1, SubSeqProperties
      <3> QED
        BY <3>1, <3>2, <3>3, SeqEqual
    <2> QED
      BY <1>1, <1>4, <2>1, <2>2, <2>3, <2>4, <2>5
  <1> QED
    BY <1>3, <1>4

\* The same of the next state.
LEMMA NextStem ==
  ASSUME TypeOK'
  PROVE  /\ Stem' \in Seq(Block) /\ Len(Stem') = Len(persisted')
         /\ \A h \in 1 .. Len(persisted') : Stem'[h] = persisted'[h].block
         /\ ng' = NoNg => ChainBlocks' = Stem'
         /\ ng' # NoNg => ChainBlocks' = Append(Stem', BestLiquidBlock')
         /\ TxsIn(ChainBlocks') = ChainTxs'
         /\ ChainBlocks' \in Seq(Block)
         /\ Len(ChainBlocks') = Height'
  <1>1. (TypeOK => /\ Stem \in Seq(Block) /\ Len(Stem) = Len(persisted)
                   /\ \A h \in 1 .. Len(persisted) : Stem[h] = persisted[h].block)'
    BY StemFacts, PTL
  <1>2. (TypeOK => (ng = NoNg => ChainBlocks = Stem))'
    BY ChainFacts, PTL
  <1>3. (TypeOK => (ng # NoNg => ChainBlocks = Append(Stem, BestLiquidBlock)))'
    BY ChainFacts, PTL
  <1>4. (TypeOK => TxsIn(ChainBlocks) = ChainTxs)'
    BY ChainFacts, PTL
  <1>5. (TypeOK => ChainBlocks \in Seq(Block) /\ Len(ChainBlocks) = Height)'
    BY ChainFacts, PTL
  <1>6. TxsIn(ChainBlocks)' = TxsIn(ChainBlocks')
    BY DEF TxsIn
  <1> QED
    BY <1>1, <1>2, <1>3, <1>4, <1>5, <1>6

\* The chain ends in a block whose id and reference are final: a task's blocks
\* are added to and cut from such chains, but for the first of an extension.
Top(id) == IF ng = NoNg THEN IsLastPersisted(id)
           ELSE ng.micros = <<>> /\ ng.base.id = id

\* The chain up to a persisted block.
LEMMA UpToPersisted ==
  ASSUME ChainInv, NEW h \in 1 .. Len(persisted), NEW id, id = persisted[h].block.id
  PROVE  /\ HeightOf(id) = h
         /\ ChainUpTo(id) = SubSeq(Stem, 1, h)
         /\ ~Contains(id)
  <1>1. PersistedAt(id) = {h} /\ HeightAt(id) = h
    BY PersistedOnce
  <1>2. h \in 0 .. Len(persisted)
    BY PersistedElements DEF ChainInv, LinkInv
  <1> QED
    BY <1>1, <1>2, ChainFacts, LiquidIsNew DEF ChainInv, LinkInv, HeightOf, ChainUpTo

\* The chain up to a position of the liquid block.
LEMMA UpToLiquid ==
  ASSUME ChainInv, NEW id, Contains(id), NEW n, n = PositionOf(id)
  PROVE  /\ HeightOf(id) = Len(persisted) + 1
         /\ ng # NoNg /\ ForgedBlock(n) \in Block /\ ForgedBlock(n).id = id
         /\ ChainUpTo(id) = Append(Stem, ForgedBlock(n))
  <1>1. PersistedAt(id) = {} /\ ng # NoNg /\ n \in Positions /\ IdAt(n) = id
    BY LiquidIsNew, PositionFound
  <1>2. ForgedBlock(n) \in Block /\ ForgedBlock(n).id = id
    <2>1. ForgedBlock(n) \in Block /\ ng.base \in Block
      BY <1>1, ForgedType DEF ChainInv, LinkInv, TypeOK, NgState
    <2> QED
      BY <1>1, <2>1 DEF ForgedBlock, Block
  <1>3. SubSeq(ChainBlocks, 1, Len(persisted)) = Stem
    <2>1. PICK L \in Nat : L = Len(persisted) /\ Len(Stem) = L /\ Stem \in Seq(Block)
      BY StemFacts DEF ChainInv, LinkInv
    <2>2. SubSeq(ChainBlocks, 1, L) = SubSeq(Stem, 1, L)
      <3>1. L \in 0 .. L
        BY <2>1
      <3> QED
        BY <2>1, <3>1, ChainFacts DEF ChainInv, LinkInv
    <2> QED
      BY <2>1, <2>2, SubSeqFull
  <1> QED
    BY <1>1, <1>2, <1>3 DEF HeightOf, Height, ChainUpTo

\* The chain up to its top is the whole of it.
LEMMA UpToTop ==
  ASSUME ChainInv, NEW id, Top(id)
  PROVE  IsLastBlockId(id) /\ ChainUpTo(id) = ChainBlocks
  <1>0. TypeOK
    BY DEF ChainInv, LinkInv
  <1>1. CASE ng = NoNg
    <2>0. persisted # <<>> /\ persisted[Len(persisted)].block.id = id
      BY <1>1 DEF Top, IsLastPersisted
    <2>1. PICK h \in 1 .. Len(persisted) : h = Len(persisted) /\ id = persisted[h].block.id
      <3>1. Len(persisted) \in Nat /\ Len(persisted) > 0
        BY <1>0, <2>0, PersistedElements
      <3> QED
        BY <2>0, <3>1
    <2>2. ChainUpTo(id) = SubSeq(Stem, 1, h) /\ Stem \in Seq(Block) /\ Len(Stem) = h
      BY <1>0, <2>1, UpToPersisted, StemFacts
    <2>3. ChainUpTo(id) = Stem
      BY <2>2, SubSeqFull
    <2> QED
      BY <1>0, <1>1, <2>3, ChainFacts DEF Top, IsLastBlockId
  <1>2. CASE ng # NoNg
    <2>1. /\ ng.micros = <<>> /\ ng.base.id = id
          /\ Len(ng.micros) = 0 /\ Positions = {0}
      BY <1>2, EmptySeq DEF Top, Positions
    <2>2. Contains(id) /\ PositionOf(id) = 0
      BY <1>2, <2>1 DEF Contains, PositionOf, IdAt
    <2>3. ChainUpTo(id) = Append(Stem, ForgedBlock(0))
      BY <2>2, UpToLiquid
    <2> QED
      BY <1>0, <1>2, <2>1, <2>2, <2>3, ChainFacts DEF BestLiquidBlock, IsLastBlockId
  <1> QED
    BY <1>1, <1>2

\* The same for whatever id is on top, ...
LEMMA UpToEachTop ==
  ChainInv => \A c : Top(c) => IsLastBlockId(c) /\ ChainUpTo(c) = ChainBlocks
  BY UpToTop

\* ... and of the next state.
LEMMA NextUpToTop ==
  ASSUME ChainInv', NEW id, Top(id)'
  PROVE  IsLastBlockId(id)' /\ ChainUpTo(id)' = ChainBlocks'
  <1>1. ChainInv' => (\A c : Top(c) => IsLastBlockId(c) /\ ChainUpTo(c) = ChainBlocks)'
    BY UpToEachTop, PTL
  <1> QED
    BY <1>1

\* The chain up to its last id is a chain that ends in that id.
LEMMA UpToLast ==
  ASSUME ChainInv, NEW id, IsLastBlockId(id)
  PROVE  /\ ChainUpTo(id) \in Seq(Block) /\ ChainUpTo(id) # <<>>
         /\ Len(ChainUpTo(id)) = Height
         /\ ChainUpTo(id)[Height].id = id
         /\ KnownId(id) /\ HeightOf(id) = Height
  <1>0. TypeOK
    BY DEF ChainInv, LinkInv
  <1>1. CASE Contains(id)
    <2>1. PICK n : n = PositionOf(id)
      OBVIOUS
    <2>2. PICK b \in Block : /\ b = ForgedBlock(n) /\ b.id = id /\ ng # NoNg
                             /\ ChainUpTo(id) = Append(Stem, b)
                             /\ HeightOf(id) = Len(persisted) + 1
      BY <1>1, <2>1, UpToLiquid
    <2>3. PICK stem \in Seq(Block), L \in Nat :
            stem = Stem /\ Len(stem) = L /\ Len(persisted) = L
      BY <1>0, StemFacts
    <2>4. Append(stem, b) \in Seq(Block) /\ Append(stem, b) # <<>>
          /\ Len(Append(stem, b)) = L + 1 /\ Append(stem, b)[L + 1] = b
      BY <2>3, AppendProperties
    <2> QED
      BY <1>1, <2>2, <2>3, <2>4 DEF Height, KnownId
  <1>2. CASE ~Contains(id)
    <2>0. ng = NoNg /\ IsLastPersisted(id) /\ Top(id) /\ Len(persisted) \in Nat
      BY <1>0, <1>2, PersistedElements DEF IsLastBlockId, Top
    <2>1. /\ ng = NoNg /\ Top(id) /\ Height = Len(persisted)
          /\ persisted # <<>> /\ persisted[Len(persisted)].block.id = id
      BY <2>0 DEF Height, IsLastPersisted
    <2>2. PICK h \in 1 .. Len(persisted) : h = Len(persisted) /\ id = persisted[h].block.id
      BY <1>0, <2>1, PersistedElements
    <2>3. ChainUpTo(id) = Stem /\ Stem \in Seq(Block) /\ Len(Stem) = h /\ Stem[h].id = id
      BY <1>0, <2>1, <2>2, UpToTop, ChainFacts, StemFacts
    <2>4. Stem # <<>>
      BY <2>2, <2>3, EmptySeq
    <2>5. KnownId(id) /\ HeightOf(id) = Height
      <3>1. PersistedAt(id) = {h} /\ HeightOf(id) = h
        BY <2>2, UpToPersisted, PersistedOnce
      <3> QED
        BY <2>1, <2>2, <3>1 DEF KnownId
    <2> QED
      BY <2>1, <2>2, <2>3, <2>4, <2>5
  <1> QED
    BY <1>1, <1>2

\* A block that refers to the last id of the chain is appended to it: it does
\* not compete with the liquid block, and replaces nothing.
LEMMA ProcessedOnTop ==
  ASSUME ChainInv, NEW b \in Blocks, IsLastBlockId(b.ref), Processed(b)
  PROVE  /\ ~Competes(b)
         /\ StartLiquidBlock(b) \/ HardenLiquidBlock(b)
         /\ \E fees \in SUBSET Txs : ng' = NewNgState(b, fees)
  <1>1. ~Competes(b)
    BY LiquidIsNew DEF IsLastBlockId, Competes
  <1>2. StartLiquidBlock(b) \/ HardenLiquidBlock(b)
    BY <1>1
    DEF Processed, ReplaceLiquidBlock, KeepLiquidBlock, Supersedes, IsBetter,
        IsLongerVersion, IsSameVersion
  <1>3. StartLiquidBlock(b) => ng' = NewNgState(b, PersistedCarry)
    BY DEF StartLiquidBlock, SetLiquid
  <1>4. PersistedCarry \in SUBSET Txs
    BY PersistedType DEF ChainInv, LinkInv
  <1>5. ASSUME HardenLiquidBlock(b), NEW n, n = PositionOf(b.ref)
        PROVE  ng' = NewNgState(b, TxsUpTo(n)) /\ TxsUpTo(n) \in SUBSET Txs
    BY <1>5, HardenFacts DEF ChainInv, LinkInv
  <1> QED
    BY <1>1, <1>2, <1>3, <1>4, <1>5

\* A new liquid block is its key.
LEMMA FreshBest ==
  ASSUME NEW b \in Block, NEW fees, ng' = NewNgState(b, fees)
  PROVE  BestLiquidBlock' = b
  <1>1. /\ ng'.micros = <<>> /\ ng'.base = b
        /\ Positions' = {0} /\ TxsUpTo(0)' = b.txs
    BY NewLiquid
  <1>2. Len(ng'.micros) = 0
    BY <1>1, EmptySeq
  <1>3. BestLiquidBlock' = ForgedBlock(0)'
    BY <1>2 DEF BestLiquidBlock
  <1>4. ForgedBlock(0)' = [b EXCEPT !.id = b.id, !.txs = b.txs]
    BY <1>1 DEF ForgedBlock, IdAt
  <1> QED
    BY <1>3, <1>4 DEF Block

\* A block that refers to the last one, or to a position of the liquid block,
\* extends the chain up to there.
LEMMA ProcessedAppends ==
  ASSUME ChainInv, TypeOK', NEW b \in Blocks, IsLastBlockId(b.ref), Processed(b)
  PROVE  /\ ChainBlocks' = Append(ChainUpTo(b.ref), b)
         /\ ng' # NoNg /\ ng'.micros = <<>> /\ ng'.base = b
         /\ Top(b.id)'
  <1>0. TypeOK /\ b \in Block
    BY SignedAssumption DEF ChainInv, LinkInv
  <1>1. PICK fees \in SUBSET Txs : ng' = NewNgState(b, fees)
    BY ProcessedOnTop
  <1>2. /\ ng'.micros = <<>> /\ ng'.base = b
        /\ Positions' = {0} /\ TxsUpTo(0)' = b.txs
    BY <1>1, NewLiquid
  <1>3. ng' # NoNg
    <2>1. ng' \in NgState
      BY <1>0, <1>1, EmptySeq DEF NewNgState, NgState
    <2> QED
      BY <2>1, NoNgAssumption
  <1>4. Top(b.id)'
    BY <1>2, <1>3 DEF Top
  <1>5. BestLiquidBlock' = b
    BY <1>0, <1>1, FreshBest
  <1>6. ChainBlocks' = Append(Stem', b)
    BY <1>3, <1>5, NextStem
  <1>7. CASE StartLiquidBlock(b)
    <2>1. persisted' = persisted /\ ng = NoNg /\ Top(b.ref)
      BY <1>7 DEF StartLiquidBlock, StartsLiquid, Top
    <2>2. Stem' = Stem /\ ChainUpTo(b.ref) = Stem
      BY <1>0, <2>1, UpToTop, ChainFacts DEF Stem
    <2> QED
      BY <1>2, <1>3, <1>4, <1>6, <2>2
  <1>8. CASE HardenLiquidBlock(b)
    <2>1. PICK n : n = PositionOf(b.ref)
      OBVIOUS
    <2>2. Contains(b.ref)
      BY <1>8 DEF HardenLiquidBlock, Hardens, BuildsOnLiquid
    <2>3. PICK f \in Block : f = ForgedBlock(n) /\ ChainUpTo(b.ref) = Append(Stem, f)
      BY <2>1, <2>2, UpToLiquid
    <2>4. PICK L \in Nat : L = Len(persisted) /\ Len(Stem) = L /\ Stem \in Seq(Block)
                           /\ \A h \in 1 .. L : Stem[h] = persisted[h].block
      BY <1>0, StemFacts
    <2>5. /\ Len(persisted') = L + 1
          /\ \A h \in 1 .. L : persisted'[h] = persisted[h]
          /\ persisted'[L + 1].block = f
      BY <1>0, <1>8, <2>1, <2>3, <2>4, HardenFacts
    <2>6. /\ Stem' \in Seq(Block) /\ Len(Stem') = L + 1
          /\ \A h \in 1 .. L + 1 : Stem'[h] = persisted'[h].block
      BY <2>5, NextStem
    <2>7. Stem' = Append(Stem, f)
      <3>1. /\ Append(Stem, f) \in Seq(Block) /\ Len(Append(Stem, f)) = L + 1
            /\ \A h \in 1 .. L : Append(Stem, f)[h] = Stem[h]
            /\ Append(Stem, f)[L + 1] = f
        BY <2>4, AppendProperties
      <3>2. \A h \in 1 .. L + 1 : Stem'[h] = Append(Stem, f)[h]
        <4> TAKE h \in 1 .. L + 1
        <4>1. h \in 1 .. L \/ h = L + 1
          OBVIOUS
        <4> QED
          BY <2>4, <2>5, <2>6, <3>1, <4>1
      <3> QED
        BY <2>6, <3>1, <3>2, SeqEqual
    <2> QED
      BY <1>2, <1>3, <1>4, <1>6, <2>3, <2>7
  <1> QED
    BY <1>7, <1>8, ProcessedOnTop

\* The chain of a node is linked.
LEMMA ChainIsChained ==
  ASSUME TypeOK, ChainLinked
  PROVE  Chained(ChainBlocks)
  <1>0. PICK L \in Nat : L = Len(persisted) /\ DOMAIN persisted = 1 .. L
    BY PersistedElements
  <1>1. PICK stem \in Seq(Block) :
          /\ stem = Stem /\ Len(stem) = L
          /\ L = Len(persisted) /\ DOMAIN persisted = 1 .. L
          /\ \A h \in 1 .. L : stem[h] = persisted[h].block
    BY <1>0, StemFacts
  <1>2. \A i \in 2 .. L : stem[i].ref = stem[i - 1].id
    <2> TAKE i \in 2 .. L
    <2>1. i \in 1 .. L /\ i - 1 \in 1 .. L /\ i > 1
      OBVIOUS
    <2> QED
      BY <1>1, <2>1 DEF ChainLinked
  <1>3. CASE ng = NoNg
    BY <1>1, <1>2, <1>3, ChainFacts DEF Chained
  <1>4. CASE ng # NoNg
    <2>1. PICK b \in Block : b = BestLiquidBlock /\ ChainBlocks = Append(stem, b)
      BY <1>1, <1>4, ChainFacts
    <2>2. b.ref = ng.base.ref
      <3>1. ng.base \in Block
        BY <1>4 DEF TypeOK, NgState
      <3> QED
        BY <2>1, <3>1 DEF BestLiquidBlock, ForgedBlock, Block
    <2>3. PICK c : /\ c = ChainBlocks /\ Len(c) = L + 1
                   /\ \A i \in 1 .. L : c[i] = stem[i]
                   /\ c[L + 1] = b
      BY <1>1, <2>1, AppendProperties
    <2>4. L > 0 => b.ref = stem[L].id
      <3>1. L > 0 => persisted # <<>>
        BY <1>1, EmptySeq
      <3> QED
        BY <1>1, <1>4, <2>2, <3>1 DEF ChainLinked
    <2>5. \A i \in 2 .. L + 1 : c[i].ref = c[i - 1].id
      <3> TAKE i \in 2 .. L + 1
      <3>1. CASE i = L + 1
        <4>1. i - 1 = L /\ L > 0 /\ L \in 1 .. L
          BY <3>1
        <4> QED
          BY <2>3, <2>4, <3>1, <4>1
      <3>2. CASE i # L + 1
        <4>1. i \in 2 .. L /\ i \in 1 .. L /\ i - 1 \in 1 .. L
          BY <3>2
        <4> QED
          BY <1>2, <2>3, <4>1
      <3> QED
        BY <3>1, <3>2
    <2> QED
      BY <2>3, <2>5 DEF Chained
  <1> QED
    BY <1>3, <1>4

\* The end of a linked sequence is linked, and to what it is the end of.
LEMMA EndIsChained ==
  ASSUME NEW s \in Seq(Block), NEW t \in Seq(Block), Chained(s \o t)
  PROVE  /\ Chained(t)
         /\ s # <<>> /\ t # <<>> => t[1].ref = s[Len(s)].id
  <1>1. PICK m \in Nat, n \in Nat : m = Len(s) /\ n = Len(t)
    BY LenProperties
  <1> PICK u : u = s \o t
    OBVIOUS
  <1>2. /\ Len(u) = m + n
        /\ \A i \in 1 .. m + n : u[i] = IF i <= m THEN s[i] ELSE t[i - m]
    BY <1>1, ConcatProperties
  <1>3. \A i \in 2 .. m + n : u[i].ref = u[i - 1].id
    BY <1>2 DEF Chained
  <1>4. \A i \in 1 .. n : u[m + i] = t[i]
    <2> TAKE i \in 1 .. n
    <2>1. m + i \in 1 .. m + n /\ ~(m + i <= m) /\ (m + i) - m = i
      OBVIOUS
    <2> QED
      BY <1>2, <2>1
  <1>5. Chained(t)
    <2> SUFFICES ASSUME NEW i \in 2 .. n PROVE t[i].ref = t[i - 1].id
      BY <1>1 DEF Chained
    <2>1. /\ i \in 1 .. n /\ i - 1 \in 1 .. n
          /\ m + i \in 2 .. m + n /\ (m + i) - 1 = m + (i - 1)
      OBVIOUS
    <2> QED
      BY <1>3, <1>4, <2>1
  <1>6. ASSUME s # <<>>, t # <<>> PROVE t[1].ref = s[m].id
    <2>1. m > 0 /\ n > 0
      BY <1>1, <1>6, EmptySeq
    <2>2. /\ m + 1 \in 2 .. m + n /\ (m + 1) - 1 = m
          /\ 1 \in 1 .. n /\ m \in 1 .. m + n /\ m <= m
      BY <2>1
    <2>3. u[m + 1] = t[1] /\ u[m] = s[m]
      BY <1>2, <1>4, <2>2
    <2> QED
      BY <1>3, <2>2, <2>3
  <1> QED
    BY <1>1, <1>5, <1>6

\* A linked sequence without its first block.
LEMMA TailIsChained ==
  ASSUME NEW s \in Seq(Block), s # <<>>, Chained(s)
  PROVE  /\ Chained(Tail(s))
         /\ Tail(s) # <<>> => Tail(s)[1].ref = Head(s).id
  <1>1. PICK b \in Block, t \in Seq(Block) : b = Head(s) /\ t = Tail(s)
    BY HeadTailProperties
  <1>2. <<b>> \in Seq(Block) /\ <<b>> # <<>> /\ Len(<<b>>) = 1 /\ <<b>>[1] = b
    OBVIOUS
  <1>3. <<b>> \o t = s
    <2>1. <<>> \in Seq(Block)
      BY EmptySeq
    <2>2. Append(<<>>, b) \o t = <<>> \o s
      BY <1>1, <2>1, AppendMovesHead
    <2>3. Append(<<>>, b) = <<b>>
      OBVIOUS
    <2> QED
      BY <2>1, <2>2, <2>3, ConcatEmptySeq
  <1> QED
    BY <1>1, <1>2, <1>3, EndIsChained

\* Three parts of a chain.
LEMMA ThreeParts ==
  ASSUME NEW a \in Seq(Block), NEW b \in Seq(Block), NEW c \in Seq(Block)
  PROVE  (a \o b) \o c = a \o (b \o c)
  BY ConcatAssociative

\* What removeAfter would return is what the chain has above the block.
LEMMA RemovedIsTheEnd ==
  ASSUME ChainInv, NEW h \in 1 .. Len(persisted), NEW id, id = persisted[h].block.id,
         h < Height
  PROVE  /\ RemovedBlocks(id) \in Seq(Block) /\ RemovedBlocks(id) # <<>>
         /\ SubSeq(Stem, 1, h) \in Seq(Block) /\ SubSeq(Stem, 1, h) # <<>>
         /\ Len(SubSeq(Stem, 1, h)) = h
         /\ SubSeq(Stem, 1, h)[h].id = id
         /\ SubSeq(Stem, 1, h) \o RemovedBlocks(id) = ChainBlocks
         /\ RemovedBlocks(id)[1].ref = id
         /\ Chained(RemovedBlocks(id))
  <1>0. TypeOK /\ ChainLinked
    BY DEF ChainInv, LinkInv
  <1>1. PICK stem \in Seq(Block), L \in Nat :
          /\ stem = Stem /\ Len(stem) = L /\ L = Len(persisted)
          /\ \A i \in 1 .. L : stem[i] = persisted[i].block
    BY <1>0, StemFacts
  <1>2. HeightAt(id) = h /\ ~Contains(id)
    BY PersistedOnce, UpToPersisted
  <1>3. PICK low : low = SubSeq(stem, 1, h)
    OBVIOUS
  <1>4. PICK high : high = SubSeq(stem, h + 1, L)
    OBVIOUS
  <1>5. \A i \in 1 .. L : stem[i] \in Block
    BY <1>1, ElementOfSeq
  <1>6. /\ low \in Seq(Block) /\ Len(low) = h /\ low[h] = persisted[h].block
    <2>1. h \in 1 .. L /\ \A i \in 1 .. h : stem[i] \in Block
      BY <1>1, <1>5
    <2> QED
      BY <1>1, <1>3, <2>1, SubSeqProperties
  <1>7. high \in Seq(Block) /\ high = PersistedAbove(h)
    <2>1. h \in 1 .. L /\ \A i \in h + 1 .. L : stem[i] \in Block
      BY <1>1, <1>5
    <2>2. /\ high \in Seq(Block) /\ Len(high) = L - h
          /\ \A i \in 1 .. L - h : high[i] = stem[h + i]
      <3>1. /\ high \in Seq(Block)
            /\ Len(high) = IF h + 1 <= L THEN L - (h + 1) + 1 ELSE 0
            /\ \A i \in 1 .. L - (h + 1) + 1 : high[i] = stem[(h + 1) + i - 1]
        BY <1>4, <2>1, SubSeqProperties
      <3>2. L - (h + 1) + 1 = L - h /\ \A i \in 1 .. L - h : (h + 1) + i - 1 = h + i
        BY <2>1
      <3> QED
        BY <2>1, <3>1, <3>2
    <2>3. \A i \in 1 .. L - h : h + i \in 1 .. L
      BY <2>1
    <2>4. DOMAIN high = 1 .. L - h
      BY <2>2, LenProperties
    <2>5. high = [i \in 1 .. L - h |-> persisted[h + i].block]
      <3>1. high = [i \in 1 .. L - h |-> high[i]]
        BY <2>2, <2>4, LenProperties
      <3> QED
        BY <1>1, <2>2, <2>3, <3>1
    <2> QED
      BY <1>1, <2>2, <2>5 DEF PersistedAbove
  <1>8. low \o high = stem
    <2>1. 1 \in 1 .. Len(stem) + 1 /\ h \in 1 - 1 .. Len(stem) /\ L \in h .. Len(stem)
      BY <1>1
    <2>2. SubSeq(stem, 1, h) \o SubSeq(stem, h + 1, L) = SubSeq(stem, 1, L)
      BY <2>1, ConcatAdjacentSubSeq
    <2> QED
      BY <1>1, <1>3, <1>4, <2>2, SubSeqFull
  <1>9. PICK top \in Seq(Block) :
          /\ top = IF ng = NoNg THEN <<>> ELSE <<BestLiquidBlock>>
          /\ ChainBlocks = stem \o top
    <2>1. CASE ng = NoNg
      BY <1>0, <1>1, <2>1, ChainFacts, ConcatEmptySeq, EmptySeq
    <2>2. CASE ng # NoNg
      <3>1. PICK b \in Block : b = BestLiquidBlock /\ ChainBlocks = Append(stem, b)
        BY <1>0, <1>1, <2>2, ChainFacts
      <3>2. <<b>> \in Seq(Block) /\ Append(stem, b) = stem \o <<b>>
        BY AppendIsConcat
      <3> QED
        BY <2>2, <3>1, <3>2
    <2> QED
      BY <2>1, <2>2
  <1>10. RemovedBlocks(id) = high \o top
    BY <1>2, <1>7, <1>9 DEF RemovedBlocks
  <1>11. PICK removed \in Seq(Block) : removed = high \o top
    BY <1>7, <1>9, ConcatProperties
  <1>12. low \o removed = ChainBlocks
    <2>1. (low \o high) \o top = low \o (high \o top)
      BY <1>6, <1>7, ThreeParts
    <2> QED
      BY <1>8, <1>9, <1>11, <2>1
  <1>13. removed # <<>>
    <2>1. CASE removed = <<>>
      <3>1. ChainBlocks = low
        BY <1>6, <1>12, <2>1, ConcatEmptySeq
      <3>2. Len(ChainBlocks) = h
        BY <1>6, <3>1
      <3> QED
        BY <1>0, <3>2, ChainFacts
    <2> QED
      BY <2>1
  <1>14. low # <<>>
    BY <1>6, EmptySeq
  <1>15. Chained(removed) /\ removed[1].ref = low[h].id
    BY <1>0, <1>6, <1>11, <1>12, <1>13, <1>14, ChainIsChained, EndIsChained
  <1> QED
    BY <1>1, <1>3, <1>6, <1>10, <1>11, <1>12, <1>13, <1>14, <1>15

\* removeAfter of a persisted block above the horizon leaves the chain up to it.
LEMMA RemoveAfterCutsTo ==
  ASSUME ChainInv, TypeOK', NEW h \in 1 .. Len(persisted),
         NEW id, id = persisted[h].block.id, h > safeRollbackHeight, RemoveAfter(id)
  PROVE  /\ ng' = NoNg /\ ChainBlocks' = SubSeq(Stem, 1, h)
         /\ Len(persisted') = h
         /\ safeRollbackHeight' = safeRollbackHeight
         /\ CanRollbackTo(id)
         /\ Top(id)'
  <1>0. TypeOK
    BY DEF ChainInv, LinkInv
  <1>1. PICK stem \in Seq(Block), L \in Nat :
          /\ stem = Stem /\ Len(stem) = L /\ L = Len(persisted)
          /\ \A i \in 1 .. L : stem[i] = persisted[i].block
    BY <1>0, StemFacts
  <1>2. PersistedAt(id) = {h} /\ HeightAt(id) = h /\ ~Contains(id)
    BY PersistedOnce, UpToPersisted
  <1>3. CanRollbackTo(id)
    BY <1>2 DEF CanRollbackTo
  <1>4. /\ ng' = NoNg /\ persisted' = SubSeq(persisted, 1, h)
        /\ safeRollbackHeight' = safeRollbackHeight
    BY <1>2, <1>3 DEF RemoveAfter
  <1>5. Len(persisted') = h /\ \A i \in 1 .. h : persisted'[i] = persisted[i]
    <2>1. \A i \in 1 .. h : persisted[i] \in PersistedBlock
      BY <1>0, <1>1, PersistedElements
    <2> QED
      BY <1>4, <2>1, SubSeqProperties
  <1>6. Top(id)'
    <2>1. persisted' # <<>>
      BY <1>5, EmptySeq
    <2> QED
      BY <1>4, <1>5, <2>1 DEF Top, IsLastPersisted
  <1>7. /\ ChainBlocks' = Stem' /\ Stem' \in Seq(Block) /\ Len(Stem') = h
        /\ \A i \in 1 .. h : Stem'[i] = persisted'[i].block
    BY <1>4, <1>5, NextStem
  <1>8. Stem' = SubSeq(stem, 1, h)
    <2>1. \A i \in 1 .. h : i \in 1 .. L /\ stem[i] \in Block
      BY <1>1, ElementOfSeq
    <2>2. /\ SubSeq(stem, 1, h) \in Seq(Block) /\ Len(SubSeq(stem, 1, h)) = h
          /\ \A i \in 1 .. h : SubSeq(stem, 1, h)[i] = stem[i]
      BY <2>1, SubSeqProperties
    <2>3. \A i \in 1 .. h : Stem'[i] = SubSeq(stem, 1, h)[i]
      BY <1>1, <1>5, <1>7, <2>1, <2>2
    <2> QED
      BY <1>7, <2>2, <2>3, SeqEqual
  <1> QED
    BY <1>1, <1>3, <1>4, <1>5, <1>6, <1>7, <1>8

-----------------------------------------------------------------------------
(* The extension task *)

\* What a task is about: the part of the chain it keeps ends in the common
\* block, the new blocks build on that, and so do the dropped ones, which with
\* the kept ones were the chain.
Plan(j) ==
  /\ j \in Jobs
  /\ j.new # <<>> /\ j.new[1].ref = j.common /\ Len(j.new) <= MaxRollbackDepth
  /\ j.kept # <<>> /\ j.kept[Len(j.kept)].id = j.common
  /\ j.left = j.new \/ Len(j.left) < Len(j.new)
  /\ TxsIn(j.left) \subseteq TxsIn(j.new)
  /\ Chained(j.new) => Chained(j.left)
  /\ Chained(j.dropped)
  /\ j.stage = "restore" => j.dropped # <<>>
  /\ j.stage # "restore" /\ j.dropped # <<>> =>
       j.was = j.kept \o j.dropped /\ j.dropped[1].ref = j.common

\* A transaction of the chain before the task is in the kept part of the chain,
\* in a dropped block or in the pool, or the pool had no room for it.
Saved(j) ==
  \A t \in (TxsIn(j.was) \ TxsIn(j.new)) \ Doubtful :
    Needs[t] \subseteq TxsIn(j.kept) =>
      t \in TxsIn(j.kept) \cup TxsIn(j.dropped) \cup utx \cup j.crowded

\* No block of the extension is appended yet.  The common block may be a
\* position of the liquid block that others are on top of.
Untouched(j) ==
  /\ IsLastBlockId(j.common) /\ ChainUpTo(j.common) = j.kept
  /\ IF j.dropped = <<>> THEN j.was = ChainBlocks ELSE ng = NoNg

\* The kept part is persisted, what is above it is no longer than the blocks
\* that were taken from the extension, and the last one of them is liquid.
Grown(j) ==
  /\ ng # NoNg /\ ng.micros = <<>>
  /\ Len(j.kept) <= Len(persisted)
  /\ \A i \in 1 .. Len(j.kept) : ChainBlocks[i] = j.kept[i]
  /\ Height + Len(j.left) <= Len(j.kept) + Len(j.new)
  /\ ChainTxs \subseteq TxsIn(j.kept) \cup TxsIn(j.new)
  /\ Chained(j.new) =>
       /\ ChainBlocks \o j.left = j.kept \o j.new
       /\ j.left # <<>> => j.left[1].ref = ng.base.id
  /\ Saved(j)

Restoring(j) == Top(j.dropped[1].ref) /\ ChainBlocks \o j.dropped = j.was

\* Until the task processes the dropped blocks again, LevelDB can take back all
\* that it appended.
OnTrack(j) ==
  IF j.stage = "restore" THEN Restoring(j)
  ELSE /\ safeRollbackHeight < Len(j.kept)
       /\ IF j.left = j.new THEN Untouched(j) ELSE Grown(j)

Task == ~Idle => Plan(job) /\ OnTrack(job)

-----------------------------------------------------------------------------

\* What does not change the chain leaves all that is read off it.
LEMMA SameChain ==
  ASSUME UNCHANGED vars
  PROVE  /\ ChainBlocks' = ChainBlocks /\ ChainTxs' = ChainTxs /\ Height' = Height
         /\ ng' = ng /\ safeRollbackHeight' = safeRollbackHeight
         /\ \A id : /\ IsLastBlockId(id)' <=> IsLastBlockId(id)
                    /\ Top(id)' <=> Top(id)
                    /\ ChainUpTo(id)' = ChainUpTo(id)
  <1> USE DEF vars
  <1>1. \A n : IdAt(n)' = IdAt(n) /\ TxsUpTo(n)' = TxsUpTo(n)
    BY DEF IdAt, TxsUpTo
  <1>2. LiquidTxs' = LiquidTxs /\ BestLiquidBlock' = BestLiquidBlock
        /\ Positions' = Positions
    BY DEF LiquidTxs, TxsUpTo, BestLiquidBlock, ForgedBlock, IdAt, Positions
  <1>3. ChainBlocks' = ChainBlocks /\ ChainTxs' = ChainTxs /\ Height' = Height
    BY <1>2 DEF ChainBlocks, ChainTxs, PersistedTxs, Height
  <1>4. ASSUME NEW id
        PROVE  /\ IsLastBlockId(id)' <=> IsLastBlockId(id)
               /\ Top(id)' <=> Top(id)
               /\ ChainUpTo(id)' = ChainUpTo(id)
    <2>1. /\ IsLastBlockId(id)' <=> IsLastBlockId(id)
          /\ Top(id)' <=> Top(id)
      BY DEF IsLastBlockId, Contains, Positions, IdAt, IsLastPersisted, Top
    <2>2. PositionOf(id)' = PositionOf(id)
      BY DEF PositionOf, Positions, IdAt
    <2>3. \A n : ForgedBlock(n)' = ForgedBlock(n)
      BY DEF ForgedBlock, IdAt, TxsUpTo
    <2>4. PersistedAt(id)' = PersistedAt(id)
      BY DEF PersistedAt
    <2>5. HeightOf(id)' = HeightOf(id)
      BY <2>4 DEF HeightOf, HeightAt, Height
    <2> QED
      BY <1>3, <2>1, <2>2, <2>3, <2>4, <2>5 DEF ChainUpTo
  <1> QED
    BY <1>3, <1>4

\* A task that is started, at the end of the chain or after removeAfter.
LEMMA StartOnTrack ==
  ASSUME ChainInv, Horizon, ChainInv', NEW ext \in Extensions, StartExtension(ext)
  PROVE  Task'
  <1>0. TypeOK /\ TypeOK'
    BY DEF ChainInv, LinkInv
  <1>1. PICK new : new = NewOnes(ext)
    OBVIOUS
  <1>2. PICK common : common = new[1].ref
    OBVIOUS
  <1>3. /\ new # <<>> /\ KnownId(common)
        /\ new \in Seq(Blocks) /\ common \in Ids
        /\ Len(new) <= MaxRollbackDepth
    BY <1>1, <1>2, NewOnesFacts DEF StartExtension
  <1>4. PICK was \in Seq(Block) : was = ChainBlocks
    BY <1>0, ChainFacts
  <1>5. PICK kept : kept = ChainUpTo(common)
    OBVIOUS
  <1>6. Idle /\ IF HeightOf(common) = Height
                THEN UNCHANGED vars /\ job' = NewJob(common, new, <<>>)
                ELSE /\ RemoveAfter(common)
                     /\ job' = IF CanRollbackTo(common)
                               THEN NewJob(common, new, RemovedBlocks(common))
                               ELSE NoJob
    BY <1>1, <1>2 DEF StartExtension
  <1>7. ASSUME NEW dropped \in Seq(Block), job' = NewJob(common, new, dropped),
               kept \in Seq(Block), kept # <<>>, kept[Len(kept)].id = common,
               Chained(dropped),
               dropped # <<>> => was = kept \o dropped /\ dropped[1].ref = common
        PROVE  Plan(job)' /\ job'.stage = "append" /\ job'.left = job'.new
               /\ job'.common = common /\ job'.kept = kept
               /\ job'.was = was /\ job'.dropped = dropped
    <2>1. job' = [stage |-> "append", common |-> common, left |-> new,
                  dropped |-> dropped, was |-> was, kept |-> kept, new |-> new,
                  crowded |-> {}]
      BY <1>4, <1>5, <1>7 DEF NewJob
    <2>2. job' \in Jobs
      BY <1>3, <1>7, <2>1 DEF Jobs
    <2> QED
      BY <1>2, <1>3, <1>7, <2>1, <2>2 DEF Plan
  <1>8. PICK L \in Nat : L = Len(persisted) /\ safeRollbackHeight \in Nat
                         /\ DOMAIN persisted = 1 .. L
    BY <1>0, PersistedElements DEF TypeOK
  <1>9. CASE HeightOf(common) = Height
    <2>1. IsLastBlockId(common)
      <3>1. CASE Contains(common)
        BY <3>1 DEF IsLastBlockId
      <3>2. CASE ~Contains(common)
        <4>1. PICK h \in 1 .. L : common = persisted[h].block.id
          BY <1>3, <1>8, <3>2 DEF KnownId, PersistedAt
        <4>2. h = Height
          BY <1>8, <1>9, <4>1, UpToPersisted
        <4>3. ng = NoNg /\ h = L /\ persisted # <<>>
          BY <1>8, <4>1, <4>2, EmptySeq DEF Height
        <4> QED
          BY <1>8, <4>1, <4>3 DEF IsLastBlockId, IsLastPersisted
      <3> QED
        BY <3>1, <3>2
    <2>2. /\ kept \in Seq(Block) /\ kept # <<>> /\ Len(kept) = Height
          /\ kept[Len(kept)].id = common
      BY <1>5, <2>1, UpToLast
    <2>3. <<>> \in Seq(Block) /\ Chained(<<>>)
      BY EmptySeq DEF Chained
    <2>4. /\ Plan(job)' /\ job'.stage = "append" /\ job'.left = job'.new
          /\ job'.common = common /\ job'.kept = kept
          /\ job'.was = was /\ job'.dropped = <<>>
      BY <1>6, <1>7, <1>9, <2>2, <2>3
    <2>5. safeRollbackHeight < Len(kept)
      <3>1. CASE ng = NoNg
        <4>1. persisted # <<>>
          BY <2>1, <3>1 DEF IsLastBlockId, IsLastPersisted, Contains
        <4> QED
          BY <1>8, <2>2, <3>1, <4>1 DEF Height, Horizon
      <3>2. CASE ng # NoNg
        BY <1>8, <2>2, <3>2 DEF Height, Horizon
      <3> QED
        BY <3>1, <3>2
    <2>6. /\ IsLastBlockId(common)' /\ ChainUpTo(common)' = kept
          /\ was = ChainBlocks' /\ safeRollbackHeight' = safeRollbackHeight
      BY <1>4, <1>5, <1>6, <1>9, <2>1, SameChain
    <2>7. Untouched(job)'
      BY <2>4, <2>6 DEF Untouched
    <2> QED
      BY <2>4, <2>5, <2>6, <2>7 DEF Task, OnTrack
  <1>10. CASE HeightOf(common) # Height
    <2>1. ~Contains(common)
      BY <1>10, UpToLast DEF IsLastBlockId
    <2>2. PICK h \in 1 .. L : common = persisted[h].block.id
      BY <1>3, <1>8, <2>1 DEF KnownId, PersistedAt
    <2>3. PersistedAt(common) = {h} /\ HeightOf(common) = h /\ kept = SubSeq(Stem, 1, h)
      BY <1>5, <1>8, <2>2, UpToPersisted, PersistedOnce
    <2>4. h < Height
      BY <1>8, <1>10, <2>3 DEF Height
    <2>5. PICK dropped : dropped = RemovedBlocks(common)
      OBVIOUS
    <2>6. /\ dropped \in Seq(Block) /\ dropped # <<>>
          /\ kept \in Seq(Block) /\ kept # <<>> /\ Len(kept) = h /\ kept[h].id = common
          /\ kept \o dropped = was /\ dropped[1].ref = common /\ Chained(dropped)
      BY <1>4, <1>8, <2>2, <2>3, <2>4, <2>5, RemovedIsTheEnd
    <2>7. SUFFICES ASSUME CanRollbackTo(common) PROVE Task'
      BY <1>6, <1>10 DEF Task, Idle
    <2>8. h > safeRollbackHeight
      BY <2>3, <2>7 DEF CanRollbackTo
    <2>9. /\ ng' = NoNg /\ ChainBlocks' = kept /\ Top(common)'
          /\ safeRollbackHeight' = safeRollbackHeight
      BY <1>0, <1>6, <1>8, <1>10, <2>2, <2>3, <2>8, RemoveAfterCutsTo
    <2>10. /\ Plan(job)' /\ job'.stage = "append" /\ job'.left = job'.new
           /\ job'.common = common /\ job'.kept = kept /\ job'.dropped = dropped
      BY <1>6, <1>7, <1>10, <2>5, <2>6, <2>7
    <2>11. IsLastBlockId(common)' /\ ChainUpTo(common)' = ChainBlocks'
      BY <2>9, NextUpToTop
    <2>12. Untouched(job)'
      BY <2>6, <2>9, <2>10, <2>11 DEF Untouched
    <2> QED
      BY <2>6, <2>8, <2>9, <2>10, <2>12 DEF Task, OnTrack
  <1> QED
    BY <1>9, <1>10

\* What the pool is given it takes, but what is doubtful and what it has no
\* room for.
LEMMA PutsFacts ==
  ASSUME NEW pool, NEW txs, NEW after \in AfterPuts(pool, txs)
  PROVE  /\ pool \subseteq after /\ after \subseteq pool \cup txs
         /\ \A t \in txs \ Doubtful : t \in after \/ after \cup {t} \notin Holdable
  BY DEF AfterPuts

\* Only what the block holds, and what is doubtful, leaves the pool with it.
LEMMA PoolKeeps ==
  ASSUME NEW b, AppendedBlock(b)
  PROVE  (utx \ b.txs) \ Doubtful \subseteq utx'
  <1>1. PICK pool \in AfterRemoveAll(b.txs) :
          utx' \in AfterPuts(pool, {t \in Discarded(b) : CanPut(t)'})
    BY DEF AppendedBlock
  <1>2. (utx \ b.txs) \ Doubtful \subseteq pool
    BY DEF AfterRemoveAll
  <1> QED
    BY <1>1, <1>2, PutsFacts

\* The pool when a block is appended to the chain.
LEMMA AppendedPool ==
  ASSUME DiscardInv, ChainInv, TypeOK',
         NEW b \in Blocks, IsLastBlockId(b.ref), AppendedBlock(b)
  PROVE  /\ utx' \cap (ChainTxs' \ ChainTxs) = {}
         /\ \A t \in (ChainTxs \ ChainTxs') \ Doubtful :
               CanPut(t)' => t \in utx' \/ ~HasRoom(t)'
         /\ ChainTxs \ ChainTxs' \subseteq Discarded(b)
  <1>1. Processed(b)
    BY DEF AppendedBlock
  <1>2. PICK pool \in AfterRemoveAll(b.txs) :
          utx' \in AfterPuts(pool, {t \in Discarded(b) : CanPut(t)'})
    BY DEF AppendedBlock
  <1>3. ~Competes(b) /\ (StartLiquidBlock(b) \/ HardenLiquidBlock(b))
    BY <1>1, ProcessedOnTop
  <1>4. ng' # NoNg
    BY <1>1, ProcessedAppends
  <1>5. Continues(b)
    BY <1>3 DEF Continues, IsLongerVersion, IsSameVersion
  <1>6. /\ ChainTxs \ ChainTxs' \subseteq Discarded(b)
        /\ ChainTxs' \subseteq ChainTxs \cup b.txs
    BY <1>3, <1>4, <1>5, DiscardedFacts
  <1>7. \A t : CanPut(t)' => t \notin ChainTxs'
    BY DEF CanPut, Applicable
  <1>8. pool \cap b.txs = {}
    BY DEF AfterRemoveAll
  <1>9. utx' \subseteq pool \cup {t \in Discarded(b) : CanPut(t)'}
    BY <1>2, PutsFacts
  <1>10. \A t \in {u \in Discarded(b) : CanPut(u)'} \ Doubtful : t \in utx' \/ ~HasRoom(t)'
    BY <1>2, PutsFacts DEF HasRoom
  <1> QED
    BY <1>6, <1>7, <1>8, <1>9, <1>10

\* What is discarded is in the liquid block.
LEMMA DiscardedTyped ==
  ASSUME TypeOK, NEW b
  PROVE  Discarded(b) \subseteq Txs
  <1>1. CASE IsBetter(b)
    BY <1>1, WholeLiquid DEF Discarded, IsBetter, Competes
  <1>2. CASE ~IsBetter(b) /\ BuildsOnLiquid(b)
    <2>1. ng # NoNg /\ ng \in NgState
      BY <1>2 DEF BuildsOnLiquid, Contains, TypeOK
    <2>2. PICK n : n = PositionOf(b.ref)
      OBVIOUS
    <2>3. n \in Nat
      BY <1>2, <2>1, <2>2, PositionFound DEF BuildsOnLiquid, Positions
    <2>4. \A i \in n + 1 .. Len(ng.micros) : ng.micros[i].txs \subseteq Txs
      <3> TAKE i \in n + 1 .. Len(ng.micros)
      <3>1. ng.micros \in Seq(MicroBlock)
        BY <2>1 DEF NgState
      <3>2. i \in 1 .. Len(ng.micros)
        BY <2>3, <3>1, LenProperties
      <3>3. ng.micros[i] \in MicroBlock
        BY <3>1, <3>2, ElementOfSeq
      <3> QED
        BY <3>3 DEF MicroBlock
    <2> QED
      BY <1>2, <2>2, <2>4 DEF Discarded
  <1>3. CASE ~IsBetter(b) /\ ~BuildsOnLiquid(b)
    BY <1>3 DEF Discarded
  <1> QED
    BY <1>1, <1>2, <1>3

\* Where the rollback horizon goes with a block.
LEMMA HorizonMoves ==
  ASSUME TypeOK, NEW b, Processed(b), NEW n \in Nat,
         safeRollbackHeight < n, Height - MaxRollbackDepth < n
  PROVE  safeRollbackHeight' < n
  <1>1. CASE StartLiquidBlock(b) \/ ReplaceLiquidBlock(b) \/ KeepLiquidBlock(b)
    BY <1>1 DEF StartLiquidBlock, ReplaceLiquidBlock, KeepLiquidBlock, vars
  <1>2. CASE HardenLiquidBlock(b)
    <2>1. PICK c, d, e : AppendPersisted(c, d, e)
      BY <1>2 DEF HardenLiquidBlock
    <2>2. PICK L \in Nat, k \in Nat, m \in Nat :
            L = Len(persisted) /\ k = safeRollbackHeight /\ m = MaxRollbackDepth
      BY PersistedElements, LimitAssumption DEF TypeOK
    <2>3. Height = L + 1
      BY <1>2, <2>2 DEF HardenLiquidBlock, Hardens, BuildsOnLiquid, Contains, Height
    <2>4. safeRollbackHeight' = IF k < L + 1 - m THEN L + 1 - m ELSE k
      BY <2>1, <2>2 DEF AppendPersisted
    <2>5. k < n /\ L + 1 - m < n
      BY <2>2, <2>3
    <2> QED
      BY <2>4, <2>5
  <1> QED
    BY <1>1, <1>2 DEF Processed

\* The first block of an extension stands on the kept part of the chain.
LEMMA FirstAppended ==
  ASSUME ChainInv, TypeOK', NEW b \in Blocks, IsLastBlockId(b.ref), Processed(b),
         NEW kept \in Seq(Block), kept = ChainUpTo(b.ref)
  PROVE  /\ ng' # NoNg /\ ng'.micros = <<>>
         /\ Len(kept) = Len(persisted') /\ Height' = Len(kept) + 1
         /\ Len(kept) = Height
         /\ \A i \in 1 .. Len(kept) : ChainBlocks'[i] = kept[i]
         /\ ChainTxs' = TxsIn(kept) \cup b.txs
  <1>1. ChainBlocks' = Append(kept, b) /\ ng' # NoNg /\ ng'.micros = <<>>
    BY ProcessedAppends
  <1>2. b \in Block
    BY SignedAssumption
  <1>3. /\ Len(Append(kept, b)) = Len(kept) + 1 /\ Len(kept) \in Nat
        /\ \A i \in 1 .. Len(kept) : Append(kept, b)[i] = kept[i]
    BY <1>2, AppendProperties, LenProperties
  <1>4. Height' = Len(kept) + 1 /\ TxsIn(ChainBlocks') = ChainTxs'
    BY <1>1, <1>3, NextStem
  <1>5. Len(persisted') \in Nat /\ Height' = Len(persisted') + 1
    BY <1>1, LenProperties DEF Height, TypeOK
  <1>6. Len(kept) = Len(persisted')
    BY <1>3, <1>4, <1>5
  <1> QED
    BY <1>1, <1>2, <1>3, <1>4, <1>6, TxsInAppend, UpToLast

\* A later one stands on the one before it or, where the extension is not
\* chained, takes its place or is a version of it: what is persisted stays.
LEMMA NextAppended ==
  ASSUME ChainInv, TypeOK', NEW b \in Blocks, Processed(b), ng # NoNg, ng.micros = <<>>
  PROVE  /\ ng' # NoNg /\ ng'.micros = <<>>
         /\ Len(persisted) <= Len(persisted') /\ Height' <= Height + 1
         /\ \A i \in 1 .. Len(persisted) : ChainBlocks'[i] = ChainBlocks[i]
         /\ ChainTxs' \subseteq ChainTxs \cup b.txs
  <1>0. TypeOK /\ b \in Block
    BY SignedAssumption DEF ChainInv, LinkInv
  <1>1. PICK L \in Nat : L = Len(persisted) /\ Len(Stem) = L /\ Stem \in Seq(Block)
    BY <1>0, StemFacts
  <1>2. Height = L + 1
    BY <1>1 DEF Height
  <1>3. CASE StartLiquidBlock(b)
    BY <1>3 DEF StartLiquidBlock, StartsLiquid
  <1>4. CASE KeepLiquidBlock(b)
    <2>1. UNCHANGED vars /\ persisted' = persisted
      BY <1>4 DEF KeepLiquidBlock, vars
    <2> QED
      BY <1>1, <1>2, <2>1, SameChain
  <1>5. CASE ReplaceLiquidBlock(b)
    <2>1. persisted' = persisted /\ ng' = NewNgState(b, PersistedCarry)
      BY <1>5 DEF ReplaceLiquidBlock, SetLiquid
    <2>2. ng'.micros = <<>> /\ LiquidTxs' = b.txs
      BY <2>1, NewLiquid
    <2>3. ng' # NoNg
      <3>1. PersistedCarry \in SUBSET Txs
        BY <1>0, PersistedType
      <3>2. ng' \in NgState
        BY <1>0, <2>1, <3>1, EmptySeq DEF NewNgState, NgState
      <3> QED
        BY <3>2, NoNgAssumption
    <2>4. ChainTxs' \subseteq ChainTxs \cup b.txs
      BY <2>1, <2>2 DEF ChainTxs, PersistedTxs
    <2>5. Height' = Height
      BY <2>1, <2>3 DEF Height
    <2>6. Stem' = Stem
      BY <2>1 DEF Stem
    <2>7. /\ ChainBlocks' = Append(Stem, BestLiquidBlock')
          /\ ChainBlocks = Append(Stem, BestLiquidBlock)
          /\ ChainBlocks' \in Seq(Block) /\ Len(ChainBlocks') = L + 1
          /\ BestLiquidBlock \in Block
      BY <1>0, <1>2, <2>3, <2>5, <2>6, ChainFacts, NextStem
    <2>8. BestLiquidBlock' \in Block
      BY <1>0, <2>1, FreshBest
    <2>9. \A i \in 1 .. L : ChainBlocks'[i] = Stem[i] /\ ChainBlocks[i] = Stem[i]
      BY <1>1, <2>7, <2>8, AppendProperties
    <2> QED
      BY <1>1, <1>2, <2>1, <2>2, <2>3, <2>4, <2>5, <2>9
  <1>6. CASE HardenLiquidBlock(b)
    <2>1. b.ref = ng.base.id
      <3>1. PICK n \in Positions : IdAt(n) = b.ref
        BY <1>6 DEF HardenLiquidBlock, Hardens, BuildsOnLiquid, Contains
      <3>2. n = 0
        BY EmptySeq DEF Positions
      <3> QED
        BY <3>1, <3>2 DEF IdAt
    <2>2. IsLastBlockId(b.ref) /\ ChainUpTo(b.ref) = ChainBlocks
      BY <2>1, UpToTop DEF Top
    <2>3. ChainBlocks \in Seq(Block) /\ Len(ChainBlocks) = L + 1 /\ TxsIn(ChainBlocks) = ChainTxs
      BY <1>0, <1>2, ChainFacts
    <2>4. /\ ng' # NoNg /\ ng'.micros = <<>>
          /\ L + 1 = Len(persisted') /\ Height' = L + 2
          /\ \A i \in 1 .. L + 1 : ChainBlocks'[i] = ChainBlocks[i]
          /\ ChainTxs' = ChainTxs \cup b.txs
      BY <2>2, <2>3, FirstAppended
    <2>5. \A i \in 1 .. L : ChainBlocks'[i] = ChainBlocks[i]
      BY <2>4
    <2> QED
      BY <1>1, <1>2, <2>4, <2>5
  <1> QED
    BY <1>3, <1>4, <1>5, <1>6 DEF Processed

\* The next block to append, where it builds on, and what the chain is up to
\* there.
LEMMA NextToAppend ==
  ASSUME ChainInv, Task, ~Idle, job.stage # "restore", job.left # <<>>,
         NEW b, b = Head(job.left)
  PROVE  /\ b \in Blocks /\ b \in Block /\ b = job.left[1]
         /\ b.txs \subseteq TxsIn(job.new)
         /\ job.left = job.new => IsLastBlockId(b.ref) /\ ChainUpTo(b.ref) = job.kept
         /\ Chained(job.new) =>
              /\ IsLastBlockId(b.ref)
              /\ ChainUpTo(b.ref) \in Seq(Block)
              /\ ChainUpTo(b.ref) \o job.left = job.kept \o job.new
  <1>1. Plan(job) /\ OnTrack(job) /\ job.left \in Seq(Blocks)
    BY DEF Task, Plan, Jobs
  <1>2. b \in Blocks /\ b \in Block /\ b = job.left[1]
    BY <1>1, HeadTailProperties, SignedAssumption
  <1>3. b.txs \subseteq TxsIn(job.new)
    <2>1. 1 \in DOMAIN job.left
      <3>1. DOMAIN job.left = 1 .. Len(job.left) /\ Len(job.left) \in Nat
        BY <1>1, LenProperties
      <3>2. Len(job.left) # 0
        BY <1>1, EmptySeq
      <3> QED
        BY <3>1, <3>2
    <2>2. b.txs \subseteq TxsIn(job.left)
      BY <1>2, <2>1 DEF TxsIn
    <2> QED
      BY <1>1, <2>2 DEF Plan
  <1>4. CASE job.left = job.new
    <2>1. b.ref = job.common /\ IsLastBlockId(b.ref) /\ ChainUpTo(b.ref) = job.kept
      BY <1>1, <1>2, <1>4 DEF Plan, OnTrack, Untouched
    <2> QED
      BY <1>2, <1>3, <1>4, <2>1, UpToLast
  <1>5. CASE job.left # job.new
    <2>1. SUFFICES ASSUME Chained(job.new)
                   PROVE  /\ IsLastBlockId(b.ref)
                          /\ ChainUpTo(b.ref) \in Seq(Block)
                          /\ ChainUpTo(b.ref) \o job.left = job.kept \o job.new
      BY <1>2, <1>3, <1>5
    <2>2. Top(b.ref) /\ ChainBlocks \o job.left = job.kept \o job.new
      BY <1>1, <1>2, <1>5, <2>1 DEF OnTrack, Grown, Top
    <2>3. IsLastBlockId(b.ref) /\ ChainUpTo(b.ref) = ChainBlocks
      BY <2>2, UpToTop
    <2> QED
      BY <2>2, <2>3, UpToLast
  <1> QED
    BY <1>4, <1>5

\* Appending the next block of the extension keeps to the plan.
LEMMA AppendOnTrack ==
  ASSUME DiscardInv, ChainInv, TypeOK', Task, AppendNext
  PROVE  Task'
  <1>0. TypeOK
    BY DEF ChainInv, LinkInv
  <1>1. PICK j : j = job
    OBVIOUS
  <1>2. /\ ~Idle /\ j.stage = "append" /\ j.left # <<>>
        /\ Plan(j) /\ OnTrack(j) /\ j \in Jobs
    BY <1>1 DEF AppendNext, AtStage, Task, Plan
  <1>3. /\ j.left \in Seq(Blocks) /\ j.left \in Seq(Block) /\ j.new \in Seq(Block)
        /\ j.kept \in Seq(Block) /\ j.dropped \in Seq(Block)
    <2>1. j.left \in Seq(Blocks) /\ j.new \in Seq(Blocks) /\ Blocks \subseteq Block
      BY <1>2, SignedAssumption DEF Jobs
    <2> QED
      BY <1>2, <2>1, SeqMonotonic DEF Jobs
  <1>4. PICK b \in Blocks :
          /\ b = Head(j.left) /\ b = j.left[1] /\ b \in Block
          /\ b.txs \subseteq TxsIn(j.new)
          /\ j.left = j.new => IsLastBlockId(b.ref) /\ ChainUpTo(b.ref) = j.kept
          /\ Chained(j.new) => /\ IsLastBlockId(b.ref)
                               /\ ChainUpTo(b.ref) \in Seq(Block)
                               /\ ChainUpTo(b.ref) \o j.left = j.kept \o j.new
    BY <1>1, <1>2, NextToAppend
  <1>5. PICK rest, out : rest = Tail(j.left) /\ out = {t \in Discarded(b) : ~HasRoom(t)'}
    OBVIOUS
  <1>6. /\ rest \in Seq(Blocks) /\ rest \in Seq(Block)
        /\ Len(rest) = Len(j.left) - 1
        /\ \A i \in 1 .. Len(rest) : rest[i] = j.left[i + 1]
    BY <1>2, <1>3, <1>5, HeadTailProperties
  <1>7. AppendedBlock(b) /\ Processed(b)
    BY <1>1, <1>4 DEF AppendNext, AppendedBlock
  <1>8. job' = [j EXCEPT !.left = rest, !.crowded = @ \cup out]
    BY <1>1, <1>4, <1>5 DEF AppendNext
  <1>9. out \subseteq Txs
    BY <1>0, <1>5, DiscardedTyped
  <1>10. PICK k \in Nat, n \in Nat, m \in Nat \ {0} :
           /\ k = Len(rest) /\ Len(j.left) = k + 1
           /\ n = Len(j.kept) /\ m = Len(j.new) /\ k + 1 <= m
    BY <1>2, <1>3, <1>6, LenProperties DEF Plan
  <1>11. /\ job' \in Jobs /\ job'.stage = "append" /\ job'.left = rest
         /\ job'.new = j.new /\ job'.kept = j.kept /\ job'.dropped = j.dropped
         /\ job'.was = j.was /\ job'.common = j.common
         /\ job'.crowded = j.crowded \cup out
    BY <1>2, <1>6, <1>8, <1>9 DEF Jobs
  <1>12. Chained(j.new) => Chained(rest) /\ (rest # <<>> => rest[1].ref = b.id)
    BY <1>2, <1>3, <1>4, <1>5, TailIsChained DEF Plan
  <1>13. TxsIn(rest) \subseteq TxsIn(j.new)
    <2>1. TxsIn(rest) \subseteq TxsIn(j.left)
      <3>1. DOMAIN rest = 1 .. k /\ DOMAIN j.left = 1 .. k + 1
        BY <1>3, <1>6, <1>10, LenProperties
      <3>2. \A i \in 1 .. k : i + 1 \in 1 .. k + 1 /\ rest[i] = j.left[i + 1]
        BY <1>6, <1>10
      <3> QED
        BY <3>1, <3>2 DEF TxsIn
    <2> QED
      BY <1>2, <2>1 DEF Plan
  <1>14. Plan(job)'
    <2>1. job'.left = job'.new \/ Len(job'.left) < Len(job'.new)
      BY <1>10, <1>11
    <2>2. (Chained(job'.new) => Chained(job'.left)) /\ Chained(job'.dropped)
      BY <1>2, <1>11, <1>12 DEF Plan
    <2>3. TxsIn(job'.left) \subseteq TxsIn(job'.new)
      BY <1>11, <1>13
    <2> QED
      BY <1>2, <1>11, <2>1, <2>2, <2>3 DEF Plan, TxsIn
  <1>15. job'.left # job'.new
    BY <1>10, <1>11
  <1>16. j.left = j.new => Height = n
    BY <1>3, <1>4, <1>10, FirstAppended, <1>7
  <1>17. j.left # j.new =>
           /\ ng # NoNg /\ ng.micros = <<>> /\ n <= Len(persisted)
           /\ \A i \in 1 .. n : ChainBlocks[i] = j.kept[i]
           /\ Height + (k + 1) <= n + m
           /\ ChainTxs \subseteq TxsIn(j.kept) \cup TxsIn(j.new)
           /\ Saved(j)
    BY <1>2, <1>10 DEF OnTrack, Grown
  <1>18. /\ ng' # NoNg /\ ng'.micros = <<>>
         /\ n <= Len(persisted')
         /\ \A i \in 1 .. n : ChainBlocks'[i] = j.kept[i]
         /\ Height' + k <= n + m
         /\ ChainTxs' \subseteq TxsIn(j.kept) \cup TxsIn(j.new)
    <2>1. CASE j.left = j.new
      <3>1. /\ ng' # NoNg /\ ng'.micros = <<>>
            /\ n = Len(persisted') /\ Height' = n + 1
            /\ \A i \in 1 .. n : ChainBlocks'[i] = j.kept[i]
            /\ ChainTxs' = TxsIn(j.kept) \cup b.txs
        BY <1>3, <1>4, <1>7, <1>10, <2>1, FirstAppended
      <3> QED
        BY <1>4, <1>10, <3>1
    <2>2. CASE j.left # j.new
      <3>1. PICK L \in Nat, g \in Nat : L = Len(persisted) /\ g = Height
        BY <1>0, PersistedElements, ChainFacts
      <3>2. PICK M \in Nat, h \in Nat : M = Len(persisted') /\ h = Height'
        BY NextStem, LenProperties DEF TypeOK
      <3>3. /\ ng' # NoNg /\ ng'.micros = <<>>
            /\ L <= M /\ h <= g + 1
            /\ \A i \in 1 .. L : ChainBlocks'[i] = ChainBlocks[i]
            /\ ChainTxs' \subseteq ChainTxs \cup b.txs
        BY <1>7, <1>17, <2>2, <3>1, <3>2, NextAppended
      <3>4. n <= L /\ g + (k + 1) <= n + m
        BY <1>17, <2>2, <3>1
      <3>5. \A i \in 1 .. n : i \in 1 .. L
        BY <3>4
      <3>6. n <= M /\ h + k <= n + m
        BY <3>3, <3>4
      <3> QED
        BY <1>4, <1>17, <2>2, <3>2, <3>3, <3>5, <3>6
    <2> QED
      BY <2>1, <2>2
  <1>19. Chained(j.new) =>
           /\ ChainBlocks' \o rest = j.kept \o j.new
           /\ rest # <<>> => rest[1].ref = ng'.base.id
    <2> SUFFICES ASSUME Chained(j.new)
                 PROVE  /\ ChainBlocks' \o rest = j.kept \o j.new
                        /\ rest # <<>> => rest[1].ref = ng'.base.id
      OBVIOUS
    <2>1. PICK base \in Seq(Block) :
            base = ChainUpTo(b.ref) /\ base \o j.left = j.kept \o j.new
      BY <1>4
    <2>2. ChainBlocks' = Append(base, b) /\ ng'.base = b
      BY <1>4, <1>7, <2>1, ProcessedAppends
    <2>3. Append(base, Head(j.left)) \o Tail(j.left) = base \o j.left
      BY <1>2, <1>3, <2>1, AppendMovesHead
    <2> QED
      BY <1>4, <1>5, <1>12, <2>1, <2>2, <2>3
  <1>20. Saved(job)'
    <2> SUFFICES ASSUME NEW t \in (TxsIn(j.was) \ TxsIn(j.new)) \ Doubtful,
                        Needs[t] \subseteq TxsIn(j.kept),
                        t \notin TxsIn(j.kept) \cup TxsIn(j.dropped)
                 PROVE  t \in utx' \/ t \in job'.crowded
      BY <1>11 DEF Saved, TxsIn
    <2>1. j.dropped = <<>>
      <3> SUFFICES ASSUME j.dropped # <<>> PROVE FALSE
        OBVIOUS
      <3>1. j.was = j.kept \o j.dropped
        BY <1>2 DEF Plan
      <3> QED
        BY <1>3, <3>1, TxsInConcat
    <2>2. t \notin b.txs
      BY <1>4
    <2>3. CASE j.left = j.new
      <3>1. j.was = ChainBlocks /\ IsLastBlockId(b.ref) /\ ChainUpTo(b.ref) = j.kept
        BY <1>2, <1>4, <2>1, <2>3 DEF OnTrack, Untouched
      <3>2. t \in ChainTxs
        BY <1>0, <3>1, ChainFacts
      <3>3. ChainTxs' = TxsIn(j.kept) \cup b.txs
        BY <1>3, <1>7, <3>1, FirstAppended
      <3>4. CanPut(t)' /\ t \notin ChainTxs'
        BY <2>2, <3>3 DEF CanPut, Applicable
      <3>5. (t \in utx' \/ ~HasRoom(t)') /\ t \in Discarded(b)
        <4>1. /\ \A u \in (ChainTxs \ ChainTxs') \ Doubtful :
                   CanPut(u)' => u \in utx' \/ ~HasRoom(u)'
              /\ ChainTxs \ ChainTxs' \subseteq Discarded(b)
          BY <1>7, <3>1, AppendedPool
        <4> QED
          BY <3>2, <3>4, <4>1
      <3> QED
        BY <1>5, <1>11, <3>5
    <2>4. CASE j.left # j.new
      <3>1. t \in utx \/ t \in j.crowded
        BY <1>17, <2>4 DEF Saved
      <3> QED
        BY <1>7, <1>11, <2>2, <3>1, PoolKeeps
    <2> QED
      BY <2>3, <2>4
  <1>21. safeRollbackHeight' < Len(j.kept)
    <2>1. PICK g \in Nat, d \in Nat \ {0} : g = Height /\ d = MaxRollbackDepth
      BY <1>0, ChainFacts, LimitAssumption
    <2>2. safeRollbackHeight < n /\ m <= d
      BY <1>2, <1>10, <2>1 DEF OnTrack, Plan
    <2>3. g - d < n
      <3>1. CASE j.left = j.new
        BY <1>16, <2>1, <3>1
      <3>2. CASE j.left # j.new
        <4>1. g + (k + 1) <= n + m
          BY <1>17, <2>1, <3>2
        <4> QED
          BY <2>2, <4>1
      <3> QED
        BY <3>1, <3>2
    <2> QED
      BY <1>0, <1>7, <1>10, <2>1, <2>2, <2>3, HorizonMoves
  <1>22. Grown(job)'
    <2>1. /\ Len(job'.kept) <= Len(persisted')
          /\ \A i \in 1 .. Len(job'.kept) : ChainBlocks'[i] = job'.kept[i]
          /\ Height' + Len(job'.left) <= Len(job'.kept) + Len(job'.new)
      BY <1>10, <1>11, <1>18
    <2>2. ChainTxs' \subseteq TxsIn(job'.kept) \cup TxsIn(job'.new)
      BY <1>11, <1>18
    <2>3. Chained(job'.new) =>
            /\ ChainBlocks' \o job'.left = job'.kept \o job'.new
            /\ job'.left # <<>> => job'.left[1].ref = ng'.base.id
      BY <1>11, <1>19
    <2> QED
      BY <1>18, <1>20, <2>1, <2>2, <2>3 DEF Grown, TxsIn, Chained
  <1>23. OnTrack(job)'
    BY <1>11, <1>15, <1>21, <1>22 DEF OnTrack
  <1> QED
    BY <1>14, <1>23 DEF Task

\* A chain that starts with another one is that one when cut to its length.
LEMMA CutToStart ==
  ASSUME NEW S, NEW s \in Seq(S), NEW u \in Seq(S), Len(u) <= Len(s),
         \A i \in 1 .. Len(u) : s[i] = u[i]
  PROVE  SubSeq(s, 1, Len(u)) = u
  <1>1. PICK n \in Nat : n = Len(u)
    BY LenProperties
  <1>2. \A i \in 1 .. n : s[i] = u[i] /\ s[i] \in S
    BY <1>1, ElementOfSeq
  <1>3. /\ SubSeq(s, 1, n) \in Seq(S) /\ Len(SubSeq(s, 1, n)) = n
        /\ \A i \in 1 .. n : SubSeq(s, 1, n)[i] = s[i]
    BY <1>2, SubSeqProperties
  <1> QED
    BY <1>1, <1>2, <1>3, SeqEqual

\* Undoing an extension goes back to the common block and never further: what
\* was appended is within LevelDB's reach.
LEMMA UndoLeaves ==
  ASSUME ChainInv, TypeOK', Task, UndoExtension, NEW common, common = job.common
  PROVE  \/ /\ Contains(common) /\ UNCHANGED vars
            /\ job.left = job.new /\ ng # NoNg
         \/ /\ ~Contains(common) /\ CanRollbackTo(common)
            /\ ChainBlocks' = job.kept /\ ng' = NoNg
            /\ Top(common)'
  <1>0. TypeOK
    BY DEF ChainInv, LinkInv
  <1>1. PICK j : j = job
    OBVIOUS
  <1>2. /\ ~Idle /\ j.stage = "undo" /\ j \in Jobs
        /\ Plan(j) /\ OnTrack(j) /\ RemoveAfter(common)
        /\ safeRollbackHeight < Len(j.kept) /\ j.common = common
    BY <1>1 DEF UndoExtension, AtStage, Task, OnTrack, Plan
  <1>3. PICK h \in Nat \ {0} : h = Len(j.kept) /\ j.kept \in Seq(Block) /\ j.kept[h].id = common
    BY <1>2, EmptySeq DEF Plan, Jobs
  <1>4. PICK L \in Nat : L = Len(persisted) /\ L = Len(Stem) /\ Stem \in Seq(Block)
                         /\ \A i \in 1 .. L : Stem[i] = persisted[i].block
    BY <1>0, StemFacts
  <1>5. ASSUME h \in 1 .. L, persisted[h].block.id = common, SubSeq(Stem, 1, h) = j.kept
        PROVE  /\ ~Contains(common) /\ CanRollbackTo(common)
               /\ ChainBlocks' = j.kept /\ ng' = NoNg /\ Top(common)'
    <2>1. ~Contains(common)
      BY <1>4, <1>5, UpToPersisted
    <2>2. /\ ng' = NoNg /\ ChainBlocks' = SubSeq(Stem, 1, h)
          /\ CanRollbackTo(common) /\ Top(common)'
      BY <1>2, <1>3, <1>4, <1>5, RemoveAfterCutsTo
    <2> QED
      BY <1>5, <2>1, <2>2
  <1>6. CASE j.left = j.new
    <2>1. IsLastBlockId(common) /\ ChainUpTo(common) = j.kept
      BY <1>2, <1>6 DEF OnTrack, Untouched
    <2>2. CASE Contains(common)
      BY <1>1, <1>2, <1>6, <2>2 DEF RemoveAfter, Contains
    <2>3. CASE ~Contains(common)
      <3>1. ng = NoNg /\ persisted # <<>> /\ persisted[L].block.id = common
        BY <1>4, <2>1, <2>3 DEF IsLastBlockId, IsLastPersisted
      <3>2. L \in 1 .. L
        BY <1>0, <1>4, <3>1, PersistedElements
      <3>3. h = L
        BY <1>3, <1>4, <2>1, <3>1, UpToLast DEF Height
      <3>4. SubSeq(Stem, 1, h) = j.kept
        BY <1>4, <2>1, <3>1, <3>2, <3>3, UpToPersisted
      <3> QED
        BY <1>1, <1>5, <3>1, <3>2, <3>3, <3>4
    <2> QED
      BY <2>2, <2>3
  <1>7. CASE j.left # j.new
    <2>1. /\ ng # NoNg /\ h <= L
          /\ \A i \in 1 .. h : ChainBlocks[i] = j.kept[i]
      BY <1>2, <1>3, <1>4, <1>7 DEF OnTrack, Grown
    <2>2. ChainBlocks \in Seq(Block) /\ Len(ChainBlocks) = L + 1
      BY <1>0, <1>4, <2>1, ChainFacts DEF Height
    <2>3. h <= L + 1
      BY <2>1
    <2>4. SubSeq(ChainBlocks, 1, h) = j.kept
      BY <1>3, <2>1, <2>2, <2>3, CutToStart
    <2>5. h \in 1 .. L /\ SubSeq(Stem, 1, h) = j.kept
      <3>1. h \in 0 .. Len(persisted)
        BY <1>4, <2>1
      <3> QED
        BY <1>0, <1>4, <2>1, <2>4, <3>1, ChainFacts
    <2>6. persisted[h].block.id = common
      <3>1. \A i \in 1 .. h : i \in 1 .. L /\ Stem[i] \in Block
        BY <1>4, <2>5, ElementOfSeq
      <3>2. \A i \in 1 .. h - 1 + 1 : SubSeq(Stem, 1, h)[i] = Stem[1 + i - 1]
        BY <3>1, SubSeqProperties
      <3>3. h \in 1 .. h - 1 + 1 /\ 1 + h - 1 = h
        OBVIOUS
      <3>4. j.kept[h] = Stem[h]
        BY <2>5, <3>2, <3>3
      <3> QED
        BY <1>3, <1>4, <2>5, <3>4
    <2> QED
      BY <1>1, <1>5, <2>5, <2>6
  <1> QED
    BY <1>6, <1>7

\* A task that is undone has the dropped blocks to process again.
LEMMA UndoOnTrack ==
  ASSUME ChainInv, TypeOK', Task, UndoExtension
  PROVE  Task'
  <1>1. PICK j : j = job
    OBVIOUS
  <1>2. /\ ~Idle /\ j.stage = "undo" /\ j \in Jobs /\ Plan(j) /\ OnTrack(j)
        /\ job' = IF (Contains(j.common) \/ CanRollbackTo(j.common)) /\ j.dropped # <<>>
                  THEN [j EXCEPT !.stage = "restore"] ELSE NoJob
    BY <1>1 DEF UndoExtension, AtStage, Task, Plan
  <1>3. SUFFICES ASSUME j.dropped # <<>>, job' = [j EXCEPT !.stage = "restore"] PROVE Task'
    BY <1>2 DEF Task, Idle
  <1>4. /\ job' \in Jobs /\ job'.stage = "restore" /\ job'.left = j.left
        /\ job'.new = j.new /\ job'.kept = j.kept /\ job'.dropped = j.dropped
        /\ job'.was = j.was /\ job'.common = j.common
    BY <1>2, <1>3 DEF Jobs
  <1>5. Plan(job)'
    BY <1>2, <1>3, <1>4 DEF Plan
  <1>6. ChainBlocks' = j.kept /\ Top(j.common)'
    <2>1. j.left = j.new => ng = NoNg
      BY <1>2, <1>3 DEF OnTrack, Untouched
    <2> QED
      BY <1>1, <2>1, UndoLeaves
  <1>7. j.was = j.kept \o j.dropped /\ j.dropped[1].ref = j.common
    BY <1>2, <1>3 DEF Plan
  <1>8. Restoring(job)'
    BY <1>4, <1>6, <1>7 DEF Restoring, Top, IsLastPersisted
  <1> QED
    BY <1>4, <1>5, <1>8 DEF Task, OnTrack

\* A dropped block that is processed again comes back on top of the chain.
LEMMA RestoreAppends ==
  ASSUME ChainInv, TypeOK', Task, RestoreNext, NEW rest, rest = Tail(job.dropped)
  PROVE  /\ rest \in Seq(Block) /\ Len(job.dropped) = Len(rest) + 1 /\ Len(rest) \in Nat
         /\ rest # job.dropped
         /\ ChainBlocks' \o rest = job.was
         /\ ng' # NoNg /\ ChainBlocks' \in Seq(Block)
         /\ Chained(rest)
         /\ rest # <<>> => Top(rest[1].ref)'
  <1>1. PICK j : j = job
    OBVIOUS
  <1>2. /\ ~Idle /\ j.stage = "restore" /\ Plan(j) /\ Restoring(j)
        /\ j.dropped \in Seq(Block) /\ j.dropped # <<>> /\ Chained(j.dropped)
    BY <1>1 DEF RestoreNext, AtStage, Task, OnTrack, Plan, Jobs
  <1>3. PICK b \in Blocks : b = Head(j.dropped) /\ Processed(b)
    BY <1>1 DEF RestoreNext
  <1>4. /\ rest \in Seq(Block) /\ Len(j.dropped) = Len(rest) + 1 /\ Len(rest) \in Nat
        /\ b = j.dropped[1]
    <2>1. rest \in Seq(Block) /\ Len(rest) = Len(j.dropped) - 1
      BY <1>1, <1>2, HeadTailProperties
    <2>2. Len(rest) \in Nat /\ Len(j.dropped) \in Nat
      BY <1>2, <2>1, LenProperties
    <2>3. b = j.dropped[1]
      BY <1>2, <1>3
    <2> QED
      BY <2>1, <2>2, <2>3
  <1>5. rest # j.dropped
    <2>1. \A n \in Nat : n # n + 1
      OBVIOUS
    <2> QED
      BY <1>4, <2>1
  <1>6. Top(b.ref) /\ ChainBlocks \o j.dropped = j.was
    BY <1>2, <1>4 DEF Restoring
  <1>7. IsLastBlockId(b.ref) /\ ChainUpTo(b.ref) = ChainBlocks
    BY <1>6, UpToTop
  <1>8. ChainBlocks' = Append(ChainBlocks, b) /\ Top(b.id)' /\ ng' # NoNg
    BY <1>3, <1>7, ProcessedAppends
  <1>9. ChainBlocks \in Seq(Block)
    BY ChainFacts DEF ChainInv, LinkInv
  <1>10. Append(ChainBlocks, Head(j.dropped)) \o Tail(j.dropped) = ChainBlocks \o j.dropped
    BY <1>2, <1>9, AppendMovesHead
  <1>11. Chained(rest) /\ (rest # <<>> => rest[1].ref = b.id)
    BY <1>1, <1>2, <1>3, TailIsChained
  <1>12. rest # <<>> => Top(rest[1].ref)'
    BY <1>8, <1>11 DEF Top, IsLastPersisted
  <1> QED
    BY <1>1, <1>3, <1>4, <1>5, <1>6, <1>8, <1>10, <1>11, <1>12, NextStem

\* Each dropped block that is processed again brings the old chain nearer.
LEMMA RestoreOnTrack ==
  ASSUME ChainInv, TypeOK', Task, RestoreNext
  PROVE  Task'
  <1>1. PICK j, rest : j = job /\ rest = Tail(j.dropped)
    OBVIOUS
  <1>2. /\ ~Idle /\ j.stage = "restore" /\ j \in Jobs /\ Plan(j)
        /\ job' = IF Len(j.dropped) = 1 THEN NoJob ELSE [j EXCEPT !.dropped = rest]
    BY <1>1 DEF RestoreNext, AtStage, AfterRestoring, Task, Plan
  <1>3. /\ rest \in Seq(Block) /\ Len(j.dropped) = Len(rest) + 1 /\ Len(rest) \in Nat
        /\ ChainBlocks' \o rest = j.was
        /\ Chained(rest)
        /\ rest # <<>> => Top(rest[1].ref)'
    BY <1>1, RestoreAppends
  <1>4. SUFFICES ASSUME Len(j.dropped) # 1, job' = [j EXCEPT !.dropped = rest] PROVE Task'
    BY <1>2 DEF Task, Idle
  <1>5. /\ job' \in Jobs /\ job'.stage = "restore" /\ job'.left = j.left
        /\ job'.new = j.new /\ job'.kept = j.kept /\ job'.dropped = rest
        /\ job'.was = j.was /\ job'.common = j.common
    BY <1>2, <1>3, <1>4 DEF Jobs
  <1>6. rest # <<>>
    BY <1>3, <1>4, EmptySeq
  <1>7. Plan(job)'
    BY <1>2, <1>3, <1>5, <1>6 DEF Plan
  <1>8. Restoring(job)'
    BY <1>3, <1>5, <1>6 DEF Restoring, Top, IsLastPersisted
  <1> QED
    BY <1>5, <1>7, <1>8 DEF Task, OnTrack

\* While new blocks are appended the chain has the transactions it kept.
LEMMA GrownTxs ==
  ASSUME TypeOK, NEW j, Plan(j), Grown(j)
  PROVE  TxsIn(j.kept) \subseteq ChainTxs
  <1>1. /\ j.kept \in Seq(Block) /\ ChainBlocks \in Seq(Block)
        /\ Len(ChainBlocks) = Height /\ TxsIn(ChainBlocks) = ChainTxs
    BY ChainFacts DEF Plan, Jobs
  <1>2. PICK n \in Nat, L \in Nat : n = Len(j.kept) /\ L = Len(persisted)
    BY <1>1, LenProperties, PersistedElements
  <1>3. /\ n <= L /\ Height = L + 1
        /\ \A i \in 1 .. n : ChainBlocks[i] = j.kept[i]
    BY <1>2 DEF Grown, Height
  <1>4. DOMAIN j.kept = 1 .. n /\ DOMAIN ChainBlocks = 1 .. L + 1
    BY <1>1, <1>2, <1>3, LenProperties
  <1>5. \A i \in 1 .. n : i \in 1 .. L + 1
    BY <1>3
  <1>6. TxsIn(j.kept) \subseteq TxsIn(ChainBlocks)
    BY <1>3, <1>4, <1>5 DEF TxsIn
  <1> QED
    BY <1>1, <1>6

\* What was appended is as it was when neither the chain nor the blocks change.
LEMMA GrownStays ==
  ASSUME UNCHANGED vars, NEW j, Grown(j), Saved(job)',
         job'.kept = j.kept, job'.left = j.left, job'.new = j.new
  PROVE  Grown(job)'
  <1>1. /\ ChainBlocks' = ChainBlocks /\ ChainTxs' = ChainTxs /\ Height' = Height
        /\ ng' = ng /\ persisted' = persisted
    BY SameChain DEF vars
  <1>2. /\ Len(job'.kept) <= Len(persisted')
        /\ \A i \in 1 .. Len(job'.kept) : ChainBlocks'[i] = job'.kept[i]
        /\ Height' + Len(job'.left) <= Len(job'.kept) + Len(job'.new)
    BY <1>1 DEF Grown
  <1>3. ChainTxs' \subseteq TxsIn(job'.kept) \cup TxsIn(job'.new)
    BY <1>1 DEF Grown
  <1>4. Chained(job'.new) =>
          /\ ChainBlocks' \o job'.left = job'.kept \o job'.new
          /\ job'.left # <<>> => job'.left[1].ref = ng'.base.id
    BY <1>1 DEF Grown
  <1>5. ng' # NoNg /\ ng'.micros = <<>>
    BY <1>1 DEF Grown
  <1> QED
    BY <1>2, <1>3, <1>4, <1>5 DEF Grown, TxsIn, Chained

\* Steps that leave the chain and the task alone keep the task on track, when
\* what they remove from the pool no longer applies to the chain or is doubtful.
LEMMA PoolOnTrack ==
  ASSUME ChainInv, Task, UNCHANGED vars, job' = job,
         \A t \in utx \ utx' : ~CanPut(t) \/ t \in Doubtful
  PROVE  Task'
  <1> SUFFICES ASSUME ~Idle, NEW j, j = job PROVE Plan(job)' /\ OnTrack(job)'
    BY DEF Task, Idle
  <1>1. Plan(j) /\ OnTrack(j) /\ j \in Jobs
    BY DEF Task, Plan
  <1>2. Plan(job)'
    BY <1>1 DEF Plan
  <1>3. ASSUME Grown(j) PROVE Saved(job)'
    <2> SUFFICES ASSUME NEW t \in (TxsIn(j.was) \ TxsIn(j.new)) \ Doubtful,
                        Needs[t] \subseteq TxsIn(j.kept),
                        t \in utx, t \notin utx', t \notin TxsIn(j.kept)
                 PROVE  FALSE
      BY <1>3 DEF Saved, TxsIn, Grown
    <2>1. /\ ChainTxs \subseteq TxsIn(j.kept) \cup TxsIn(j.new)
          /\ TxsIn(j.kept) \subseteq ChainTxs
      BY <1>1, <1>3, GrownTxs DEF ChainInv, LinkInv, Grown
    <2> QED
      BY <2>1 DEF CanPut, Applicable
  <1>4. /\ job' = j /\ persisted' = persisted
        /\ Untouched(j) => Untouched(job)'
        /\ Restoring(j) => Restoring(job)'
    BY SameChain DEF Untouched, Restoring, vars
  <1>5. Grown(j) => Grown(job)'
    BY <1>3, <1>4, GrownStays
  <1> QED
    BY <1>1, <1>2, <1>4, <1>5, SameChain DEF OnTrack

TaskInv == JobInv /\ NodeInv /\ Task

\* A node that starts runs no task, ...
LEMMA InitTask == NodeInit => TaskInv
  <1> SUFFICES ASSUME NodeInit PROVE TaskInv
    OBVIOUS
  <1>1. Init /\ Idle
    BY DEF NodeInit, Idle
  <1> QED
    BY <1>1, InitLinked, InitNodeInv
    DEF TaskInv, JobInv, JobFields, CommonKnown, Task

\* ... and every step of the node keeps the task on track.
LEMMA NextTask == TaskInv /\ [NodeNext]_nodeVars => TaskInv'
  <1> SUFFICES ASSUME TaskInv, [NodeNext]_nodeVars PROVE TaskInv'
    OBVIOUS
  <1>1. JobInv' /\ NodeInv'
    BY NodeStep, NextNodeInv DEF TaskInv
  <1>2. /\ ChainInv /\ ChainInv' /\ DiscardInv /\ Horizon /\ Task
        /\ TypeOK'
    BY <1>1 DEF TaskInv, NodeInv, ChainInv, LinkInv
  <1>3. SUFFICES Task'
    BY <1>1 DEF TaskInv
  <1>4. ASSUME job' = NoJob PROVE Task'
    BY <1>4 DEF Task, Idle
  <1>5. ASSUME UNCHANGED vars, job' = job,
               \A t \in utx \ utx' : ~CanPut(t) \/ t \in Doubtful
        PROVE  Task'
    BY <1>2, <1>5, PoolOnTrack
  <1>6. ASSUME NEW b \in Blocks, BlockArrives(b) PROVE Task'
    BY <1>4, <1>6 DEF BlockArrives, Idle
  <1>7. ASSUME NEW m \in MicroBlocks, MicroBlockArrives(m) PROVE Task'
    BY <1>4, <1>7 DEF MicroBlockArrives, Idle
  <1>8. ASSUME NEW ext \in Extensions, StartExtension(ext) PROVE Task'
    BY <1>2, <1>8, StartOnTrack
  <1>9. CASE AppendNext
    BY <1>2, <1>9, AppendOnTrack
  <1>10. CASE DeclineNext
    <2>1. PICK j : j = job
      OBVIOUS
    <2>2. /\ ~Idle /\ j.stage = "append" /\ j \in Jobs /\ Plan(j) /\ OnTrack(j)
          /\ job' = [j EXCEPT !.stage = "undo"] /\ UNCHANGED vars /\ utx' = utx
      BY <1>2, <1>10, <2>1 DEF DeclineNext, AtStage, Task, Plan
    <2>3. /\ job' \in Jobs /\ job'.stage = "undo" /\ job'.left = j.left
          /\ job'.new = j.new /\ job'.kept = j.kept /\ job'.dropped = j.dropped
          /\ job'.was = j.was /\ job'.common = j.common
          /\ job'.crowded = j.crowded
      BY <2>2 DEF Jobs
    <2>4. Plan(job)'
      <3>1. /\ TxsIn(job'.left) \subseteq TxsIn(job'.new)
            /\ Chained(job'.new) => Chained(job'.left)
            /\ Chained(job'.dropped)
        BY <2>2, <2>3 DEF Plan
      <3>2. job'.left = job'.new \/ Len(job'.left) < Len(job'.new)
        BY <2>2, <2>3 DEF Plan
      <3> QED
        BY <2>2, <2>3, <3>1, <3>2 DEF Plan, TxsIn, Chained
    <2>5. Untouched(j) => Untouched(job)'
      BY <2>2, <2>3, SameChain DEF Untouched
    <2>6. Saved(j) => Saved(job)'
      BY <2>2, <2>3 DEF Saved, TxsIn
    <2>7. Grown(j) => Grown(job)'
      <3>1. Grown(j) => Saved(j)
        BY DEF Grown
      <3> QED
        BY <2>2, <2>3, <2>6, <3>1, GrownStays
    <2>8. OnTrack(job)'
      BY <2>2, <2>3, <2>5, <2>7, SameChain DEF OnTrack
    <2> QED
      BY <2>4, <2>8 DEF Task
  <1>11. CASE FinishExtension
    BY <1>4, <1>11 DEF FinishExtension
  <1>12. CASE UndoExtension
    BY <1>2, <1>12, UndoOnTrack
  <1>13. CASE RestoreNext
    BY <1>2, <1>13, RestoreOnTrack
  <1>14. CASE RestoreThrows
    BY <1>4, <1>14 DEF RestoreThrows
  <1>15. ASSUME NEW id \in Ids, NEW keep \in BOOLEAN, RollbackToBlock(id, keep) PROVE Task'
    BY <1>4, <1>15 DEF RollbackToBlock, Idle
  <1>16. ASSUME NEW t \in Txs, PutReturned(t) \/ PutIfNew(t) \/ RemoveInvalid(t) PROVE Task'
    <2>1. CASE PutReturned(t)
      <3>1. utx \subseteq utx'
        BY <2>1, PutsFacts DEF PutReturned
      <3> QED
        BY <1>5, <2>1, <3>1 DEF PutReturned
    <2> QED
      BY <1>5, <1>16, <2>1 DEF PutIfNew, RemoveInvalid
  <1>17. CASE NodeRestart
    BY <1>4, <1>17 DEF NodeRestart
  <1>18. CASE UNCHANGED nodeVars
    BY <1>5, <1>18 DEF nodeVars, vars
  <1> QED
    BY <1>6, <1>7, <1>8, <1>9, <1>10, <1>11, <1>12, <1>13, <1>14, <1>15, <1>16,
       <1>17, <1>18
    DEF NodeNext

\* Appending an extension and undoing it keep to the plan, in whatever state the
\* liquid block was when the extension came, and however many of its blocks were
\* appended: the kept part of the chain stays, and the dropped blocks come back,
\* whatever the extension; of a chained one no block is skipped, duplicated or
\* reordered.
THEOREM ExtensionStaysOnTrack == NodeSpec => []ExtensionOnTrack
  <1>1. ASSUME TaskInv PROVE ExtensionOnTrack
    <2>1. Task /\ TypeOK
      BY <1>1 DEF TaskInv, JobInv, LinkInv
    <2>2. PICK j : j = job
      OBVIOUS
    <2>3. ASSUME AtStage("append"), j.left # j.new
          PROVE  /\ SubSeq(ChainBlocks, 1, Len(j.kept)) = j.kept
                 /\ Chained(j.new) => ChainBlocks \o j.left = j.kept \o j.new
      <3>1. Plan(j) /\ Grown(j)
        BY <2>1, <2>2, <2>3 DEF Task, OnTrack, AtStage
      <3>2. j.kept \in Seq(Block) /\ ChainBlocks \in Seq(Block) /\ Len(ChainBlocks) = Height
        BY <2>1, <3>1, ChainFacts DEF Plan, Jobs
      <3>3. PICK n \in Nat, L \in Nat : n = Len(j.kept) /\ L = Len(persisted)
        BY <2>1, <3>2, LenProperties, PersistedElements
      <3>4. n <= L + 1 /\ Height = L + 1 /\ \A i \in 1 .. n : ChainBlocks[i] = j.kept[i]
        BY <3>1, <3>3 DEF Grown, Height
      <3> QED
        BY <3>1, <3>2, <3>3, <3>4, CutToStart DEF Grown
    <2>4. ASSUME AtStage("restore") PROVE ChainBlocks \o j.dropped = j.was
      BY <2>1, <2>2, <2>4 DEF Task, OnTrack, Restoring, AtStage
    <2> QED
      BY <2>2, <2>3, <2>4 DEF ExtensionOnTrack
  <1> QED
    BY <1>1, InitTask, NextTask, PTL DEF NodeSpec

\* The pool is in step with the chain after every block and microblock, those
\* of a chained extension too, as far as it has room.
THEOREM PoolInStep == NodeSpec => PoolFollowsChain
  <1> DEFINE InStep == /\ utx' \cap (ChainTxs' \ ChainTxs) = {}
                       /\ ng' # NoNg /\ ~NodeRestart =>
                            \A t \in (ChainTxs \ ChainTxs') \ Doubtful :
                              CanPut(t)' => t \in utx' \/ ~HasRoom(t)'
  <1>1. ASSUME TaskInv, TaskInv', NodeNext,
               job = job' \/ (AtStage("append") /\ Chained(job.new))
        PROVE  InStep
    <2>1. /\ ChainInv /\ DiscardInv /\ Task /\ TypeOK /\ TypeOK'
      BY <1>1 DEF TaskInv, NodeInv, ChainInv, LinkInv
    <2>2. ASSUME UNCHANGED vars PROVE InStep
      BY <2>2, SameChain
    <2>22. ASSUME ChainTxs' \subseteq ChainTxs, ng' = NoNg PROVE InStep
      BY <2>22
    <2>3. ASSUME NEW id, RemoveAfter(id) PROVE InStep
      <3>1. CASE Contains(id)
        BY <2>2, <2>3, <3>1 DEF RemoveAfter
      <3>2. CASE ~Contains(id)
        <4>1. ng' = NoNg
          BY <2>3, <3>2 DEF RemoveAfter
        <4>2. /\ \A h \in 1 .. Len(persisted') : persisted'[h] = persisted[h]
              /\ Len(persisted') <= Len(persisted)
          BY <2>1, <2>3, <3>2, RemoveAfterCuts
        <4>3. DOMAIN persisted = 1 .. Len(persisted) /\ Len(persisted) \in Nat
          BY <2>1, PersistedElements
        <4>4. DOMAIN persisted' = 1 .. Len(persisted') /\ Len(persisted') \in Nat
          BY <2>1, LenProperties DEF TypeOK
        <4>5. PersistedTxs' \subseteq PersistedTxs
          BY <4>2, <4>3, <4>4 DEF PersistedTxs
        <4>6. ChainTxs' \subseteq ChainTxs
          BY <4>1, <4>5 DEF ChainTxs
        <4> QED
          BY <2>22, <4>1, <4>6
      <3> QED
        BY <3>1, <3>2
    <2>4. ASSUME NEW b \in Blocks, BlockArrives(b) PROVE InStep
      BY <2>1, <2>4, AppendedPool DEF BlockArrives
    <2>5. ASSUME NEW m \in MicroBlocks, MicroBlockArrives(m) PROVE InStep
      <3>1. /\ persisted' = persisted /\ utx' \cap m.txs = {}
            /\ ProcessMicroBlock(m) /\ ng' = [ng EXCEPT !.micros = Append(@, m)]
        BY <2>5 DEF MicroBlockArrives, ProcessMicroBlock, AfterRemoveAll
      <3>2. ng # NoNg /\ ng' # NoNg /\ LiquidTxs' = LiquidTxs \cup m.txs
        <4>1. /\ ng # NoNg /\ LiquidTxs' = LiquidTxs \cup m.txs
              /\ DOMAIN ng'.micros = 1 .. Len(ng.micros) + 1
          BY <2>1, <3>1, MicroBlockAdds
        <4>2. ng' # NoNg
          <5>1. ng \in NgState /\ m \in MicroBlock
            BY <2>1, <3>1, MicroBlockAdds
          <5>2. Append(ng.micros, m) \in Seq(MicroBlock)
            BY <5>1, AppendProperties DEF NgState
          <5>3. ng' \in NgState
            BY <3>1, <5>1, <5>2 DEF NgState
          <5> QED
            BY <5>3, NoNgAssumption
        <4> QED
          BY <4>1, <4>2
      <3>3. ChainTxs' = ChainTxs \cup m.txs
        BY <3>1, <3>2 DEF ChainTxs, PersistedTxs
      <3> QED
        BY <3>1, <3>3
    <2>6. CASE AppendNext
      <3>1. PICK b \in Blocks : b = Head(job.left) /\ IsLastBlockId(b.ref) /\ AppendedBlock(b)
        <4>1. /\ ~Idle /\ job.stage = "append" /\ job.left # <<>>
              /\ AppendedBlock(Head(job.left))
          BY <2>6 DEF AppendNext, AtStage
        <4>2. Chained(job.new)
          <5>1. Plan(job) /\ job \in Jobs
            BY <2>1, <4>1 DEF Task, Plan
          <5>2. job' # job
            <6>1. job'.left = Tail(job.left)
              BY <2>6, <5>1 DEF AppendNext, Jobs
            <6>2. job.left \in Seq(Blocks)
              BY <5>1 DEF Jobs
            <6>3. Len(Tail(job.left)) = Len(job.left) - 1 /\ Len(job.left) \in Nat
              BY <4>1, <6>2, HeadTailProperties, LenProperties
            <6>4. Tail(job.left) # job.left
              <7>1. \A n \in Nat : n # n - 1
                OBVIOUS
              <7> QED
                BY <6>3, <7>1
            <6> QED
              BY <6>1, <6>4
          <5> QED
            BY <1>1, <5>2
        <4>3. PICK b : b = Head(job.left)
          OBVIOUS
        <4>4. b \in Blocks /\ IsLastBlockId(b.ref)
          BY <2>1, <4>1, <4>2, <4>3, NextToAppend
        <4> QED
          BY <4>1, <4>3, <4>4
      <3> QED
        BY <2>1, <3>1, AppendedPool
    <2>7. CASE RestoreNext
      <3>1. PICK rest : rest = Tail(job.dropped)
        OBVIOUS
      <3>2. rest # job.dropped
        BY <2>1, <2>7, <3>1, RestoreAppends
      <3>3. ~Idle /\ job.stage = "restore" /\ job \in Jobs
            /\ job' = IF Len(job.dropped) = 1 THEN NoJob ELSE [job EXCEPT !.dropped = rest]
        BY <2>1, <2>7, <3>1 DEF RestoreNext, AtStage, AfterRestoring, Task, Plan
      <3>4. job' # job
        BY <3>2, <3>3 DEF Idle, Jobs
      <3> QED
        BY <1>1, <3>3, <3>4 DEF AtStage
    <2>8. ASSUME NEW ext \in Extensions, StartExtension(ext) PROVE InStep
      BY <2>2, <2>3, <2>8 DEF StartExtension
    <2>9. CASE DeclineNext \/ FinishExtension \/ RestoreThrows
      BY <2>2, <2>9 DEF DeclineNext, FinishExtension, RestoreThrows
    <2>10. CASE UndoExtension
      BY <2>3, <2>10 DEF UndoExtension
    <2>11. ASSUME NEW id \in Ids, NEW keep \in BOOLEAN, RollbackToBlock(id, keep) PROVE InStep
      BY <2>3, <2>11 DEF RollbackToBlock
    <2>12. ASSUME NEW t \in Txs, PutReturned(t) \/ PutIfNew(t) \/ RemoveInvalid(t) PROVE InStep
      BY <2>2, <2>12 DEF PutReturned, PutIfNew, RemoveInvalid
    <2>13. CASE NodeRestart
      BY <2>13 DEF NodeRestart
    <2> QED
      BY <1>1, <2>4, <2>5, <2>6, <2>7, <2>8, <2>9, <2>10, <2>11, <2>12, <2>13 DEF NodeNext
  <1>2. TaskInv /\ TaskInv' /\ [NodeNext]_nodeVars =>
          [ job = job' \/ (AtStage("append") /\ Chained(job.new)) => InStep ]_nodeVars
    BY <1>1
  <1> QED
    BY <1>2, InitTask, NextTask, PTL DEF NodeSpec, PoolFollowsChain

\* A task that leaves the chain it started from, or that has it again.
LEMMA ChainIsWas ==
  ASSUME TypeOK', ChainBlocks' = job.was
  PROVE  TxsIn(job.was) = ChainTxs'
  BY NextStem

\* An attempt at an extension, whatever its outcome, loses no transaction but
\* for want of room.
THEOREM NothingLost == NodeSpec => ExtensionLosesNothing
  <1> DEFINE Safe == \A t \in (TxsIn(job.was) \ TxsIn(job.new)) \ Doubtful :
                       Needs[t] \subseteq TxsIn(job.kept) /\ t \notin job.crowded =>
                         t \in ChainTxs' \cup utx' \/ ~HasRoom(t)'
             Ends == ~Idle /\ job' = NoJob /\ ~NodeRestart /\ ~RestoreThrows
  <1>1. ASSUME TaskInv, TaskInv', NodeNext, Ends PROVE Safe
    <2>1. /\ ChainInv /\ Task /\ TypeOK /\ TypeOK'
      BY <1>1 DEF TaskInv, NodeInv, ChainInv, LinkInv
    <2>2. PICK j : j = job
      OBVIOUS
    <2>3. Plan(j) /\ OnTrack(j) /\ j \in Jobs /\ job # NoJob
      BY <1>1, <2>1, <2>2 DEF Task, Plan, Idle
    <2>4. ASSUME ChainBlocks' = job.was PROVE Safe
      BY <2>1, <2>4, ChainIsWas
    <2>5. CASE FinishExtension
      <3>1. /\ j.stage = "append" /\ j.left = <<>> /\ UNCHANGED vars
            /\ utx' \in AfterPuts(utx, {t \in TxsIn(j.dropped) : CanPut(t)})
        BY <2>2, <2>5 DEF FinishExtension, AtStage
      <3>2. j.left # j.new
        BY <2>3, <3>1 DEF Plan
      <3>3. Grown(j) /\ Saved(j)
        BY <2>3, <3>1, <3>2 DEF OnTrack, Grown
      <3>4. ChainTxs' = ChainTxs /\ TxsIn(j.kept) \subseteq ChainTxs
        BY <2>1, <2>3, <3>1, <3>2, <3>3, GrownTxs, SameChain
      <3>5. ASSUME NEW t \in (TxsIn(j.was) \ TxsIn(j.new)) \ Doubtful,
                   Needs[t] \subseteq TxsIn(j.kept), t \notin j.crowded
            PROVE  t \in ChainTxs' \cup utx' \/ ~HasRoom(t)'
        <4>1. t \in TxsIn(j.kept) \cup TxsIn(j.dropped) \cup utx
          BY <3>3, <3>5 DEF Saved
        <4>2. t \in ChainTxs \/ CanPut(t)
          BY <3>4, <3>5 DEF CanPut, Applicable
        <4>3. /\ utx \subseteq utx'
              /\ \A u \in {v \in TxsIn(j.dropped) : CanPut(v)} \ Doubtful :
                    u \in utx' \/ ~HasRoom(u)'
          BY <3>1, PutsFacts DEF HasRoom
        <4> QED
          BY <3>4, <3>5, <4>1, <4>2, <4>3
      <3> QED
        BY <2>2, <3>5
    <2>6. CASE UndoExtension
      <3>1. PICK common : common = job.common
        OBVIOUS
      <3>2. /\ ~Idle /\ j.stage = "undo" /\ utx' = utx
            /\ job' = IF (Contains(common) \/ CanRollbackTo(common)) /\ j.dropped # <<>>
                      THEN [j EXCEPT !.stage = "restore"] ELSE NoJob
        BY <2>2, <2>6, <3>1 DEF UndoExtension, AtStage
      <3>3. \/ /\ Contains(common) /\ UNCHANGED vars
               /\ j.left = j.new /\ ng # NoNg
            \/ /\ ~Contains(common) /\ CanRollbackTo(common)
               /\ ChainBlocks' = j.kept /\ ng' = NoNg
        BY <2>1, <2>2, <2>6, <3>1, UndoLeaves
      <3>4. [j EXCEPT !.stage = "restore"] \in Jobs
        BY <2>3 DEF Jobs
      <3>5. j.dropped = <<>>
        BY <1>1, <3>2, <3>3, <3>4, NoJobAssumption
      <3>6. CASE j.left = j.new
        <4>1. j.was = ChainBlocks /\ IsLastBlockId(j.common) /\ ChainUpTo(j.common) = j.kept
          BY <2>3, <3>2, <3>5, <3>6 DEF OnTrack, Untouched
        <4>2. CASE UNCHANGED vars
          BY <2>2, <2>4, <4>1, <4>2, SameChain
        <4>3. CASE ~Contains(common) /\ ChainBlocks' = j.kept
          <5>1. Top(common)
            BY <2>2, <3>1, <4>1, <4>3 DEF IsLastBlockId, Top
          <5>2. ChainBlocks = j.kept
            BY <2>1, <2>2, <3>1, <4>1, <5>1, UpToTop
          <5> QED
            BY <2>2, <2>4, <4>1, <4>3, <5>2
        <4> QED
          BY <3>3, <4>2, <4>3
      <3>7. CASE j.left # j.new
        <4>1. Saved(j) /\ ChainBlocks' = j.kept
          BY <2>3, <3>2, <3>3, <3>7 DEF OnTrack, Grown
        <4>2. TxsIn(j.dropped) = {}
          BY <3>5 DEF TxsIn
        <4>3. TxsIn(j.kept) = ChainTxs'
          BY <2>1, <4>1, NextStem
        <4> QED
          BY <2>2, <3>2, <4>1, <4>2, <4>3 DEF Saved
      <3> QED
        BY <3>6, <3>7
    <2>7. CASE RestoreNext
      <3>1. PICK rest : rest = Tail(j.dropped)
        OBVIOUS
      <3>2. /\ rest \in Seq(Block) /\ Len(j.dropped) = Len(rest) + 1 /\ Len(rest) \in Nat
            /\ ChainBlocks' \o rest = j.was /\ ChainBlocks' \in Seq(Block)
        BY <2>1, <2>2, <2>7, <3>1, RestoreAppends
      <3>3. job' = IF Len(j.dropped) = 1 THEN NoJob ELSE [j EXCEPT !.dropped = rest]
        BY <2>2, <2>7, <3>1 DEF RestoreNext, AfterRestoring
      <3>4. [j EXCEPT !.dropped = rest] \in Jobs
        BY <2>3, <3>2 DEF Jobs
      <3>5. Len(j.dropped) = 1
        BY <1>1, <3>3, <3>4, NoJobAssumption
      <3>6. rest = <<>>
        <4>1. PICK n \in Nat : n = Len(rest) /\ 1 = n + 1
          BY <3>2, <3>5
        <4>2. n = 0
          BY <4>1
        <4> QED
          BY <3>2, <4>1, <4>2, EmptySeq
      <3>7. ChainBlocks' = j.was
        BY <3>2, <3>6, ConcatEmptySeq
      <3> QED
        BY <2>2, <2>4, <3>7
    <2>8. CASE AppendNext \/ DeclineNext
      <3>1. j.stage = "append" /\ j.left # <<>>
            /\ \/ job' = [j EXCEPT !.left = Tail(j.left), !.crowded =
                                 @ \cup {t \in Discarded(Head(j.left)) : ~HasRoom(t)'}]
               \/ job' = [j EXCEPT !.stage = "undo"]
        BY <2>2, <2>8 DEF AppendNext, DeclineNext, AtStage
      <3>2. PICK rest \in Seq(Blocks) : rest = Tail(j.left)
        BY <2>3, <3>1, HeadTailProperties DEF Jobs
      <3>3. job' \in Jobs
        <4>1. PICK out : out = {t \in Discarded(Head(j.left)) : ~HasRoom(t)'}
          OBVIOUS
        <4>2. out \subseteq Txs
          BY <2>1, <4>1, DiscardedTyped
        <4> QED
          BY <2>3, <3>1, <3>2, <4>1, <4>2 DEF Jobs
      <3> QED
        BY <1>1, <3>3, NoJobAssumption
    <2>9. ASSUME NEW t \in Txs, PutReturned(t) \/ PutIfNew(t) \/ RemoveInvalid(t) PROVE Safe
      BY <1>1, <2>3, <2>9 DEF PutReturned, PutIfNew, RemoveInvalid
    <2> QED
      BY <1>1, <2>5, <2>6, <2>7, <2>8, <2>9
      DEF NodeNext, BlockArrives, MicroBlockArrives, StartExtension, RollbackToBlock
  <1>2. TaskInv /\ TaskInv' /\ [NodeNext]_nodeVars => [ Ends => Safe ]_nodeVars
    BY <1>1
  <1> QED
    BY <1>2, InitTask, NextTask, PTL DEF NodeSpec, ExtensionLosesNothing
=============================================================================
