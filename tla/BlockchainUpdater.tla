------------------------- MODULE BlockchainUpdater -------------------------
(***************************************************************************)
(* The NG block tree of one node: the persisted chain (a Blockchain kept   *)
(* in LevelDB) and, on top of it, the liquid block (an NgState: a key      *)
(* block plus the microblocks appended to it since).                       *)
(* state/BlockchainUpdaterImpl.scala, state/NgState.scala.                 *)
(*                                                                         *)
(* Data abstraction.  A transaction is an element of Txs and a diff is the *)
(* set of transactions it applies.  An amount of fees is the set of the    *)
(* transactions it comes from.  A valid signature is membership in Blocks  *)
(* or MicroBlocks: everything any generator of the network ever signed.    *)
(***************************************************************************)
EXTENDS Integers, Sequences, FiniteSets

CONSTANTS
  Ids,              \* block signatures, of key blocks and of forged blocks
  Txs,              \* transactions
  Generators,       \* accounts that sign blocks
  Blocks,           \* blocks whose signature is valid
  MicroBlocks,      \* microblocks whose own signature is valid
  Genesis,          \* the configured genesis block
  Needs,            \* Needs[t]: the transactions t spends the results of
  Size(_),          \* what a set of transactions takes of a block's limit
  LimitBefore,      \* that limit below ActivationHeight, ...
  LimitAfter,       \* ... and from there on
  ActivationHeight, \* where a feature that changes the limit is activated
  MaxRollbackDepth, \* how many persisted blocks LevelDB can take back
  NoNg              \* ngState = None

\* A block with its header fields.  `score' stands for the base target, which
\* determines it.  Transactions in a block are in a valid order, so a set will do.
Block == [id : Ids, ref : Ids, gen : Generators, ts : Nat, score : Nat,
          txs : SUBSET Txs]

\* `id' is totalResBlockSig, `prev' is prevResBlockSig.
MicroBlock == [id : Ids, prev : Ids, gen : Generators, txs : SUBSET Txs]

ASSUME SignedAssumption ==
  /\ Blocks \subseteq Block
  /\ MicroBlocks \subseteq MicroBlock
  /\ Genesis \in Blocks
  /\ \A b, c \in Blocks : b.id = c.id => b = c
  /\ \A b \in Blocks : b.ref = Genesis.ref => b = Genesis

ASSUME TxsAssumption ==
  /\ Needs \in [Txs -> SUBSET Txs]
  /\ \A t \in Genesis.txs : Needs[t] \subseteq Genesis.txs

ASSUME FiniteAssumption == IsFiniteSet(Txs)

ASSUME SizeAssumption ==
  /\ Size({}) = 0
  /\ \A T \in SUBSET Txs : Size(T) \in Nat
  /\ \A T, U \in SUBSET Txs :
        T \cap U = {} => Size(T \cup U) = Size(T) + Size(U)

ASSUME LimitAssumption ==
  /\ LimitBefore \in Nat /\ LimitAfter \in Nat
  /\ ActivationHeight \in Nat \ {0}
  /\ Size(Genesis.txs) <= LimitBefore
  /\ MaxRollbackDepth \in Nat \ {0}

VARIABLES
  persisted,           \* the blocks in LevelDB, from height 1
  ng,                  \* ngState: the liquid block, or NoNg
  restTotalConstraint, \* room left in the liquid block
  safeRollbackHeight   \* LevelDB's Keys.safeRollbackHeight

vars == <<persisted, ng, restTotalConstraint, safeRollbackHeight>>

\* A persisted block: `carry' is the fee share left to the next block,
\* `inherited' the share its generator got from the block before it and
\* `score' the cumulative score of the chain up to it.
PersistedBlock == [block : Block, carry : SUBSET Txs, inherited : SUBSET Txs,
                   score : Nat]

\* The liquid block; `micros' from the oldest to the freshest.
NgState == [base : Block, inherited : SUBSET Txs, micros : Seq(MicroBlock)]

ASSUME NoNgAssumption == NoNg \notin NgState

TypeOK ==
  /\ persisted \in Seq(PersistedBlock)
  /\ ng \in NgState \cup {NoNg}
  /\ restTotalConstraint \in Nat
  /\ safeRollbackHeight \in Nat

-----------------------------------------------------------------------------
(* The persisted chain *)

PersistedTxs == UNION {persisted[h].block.txs : h \in DOMAIN persisted}
PersistedScore ==
  IF persisted = <<>> THEN 0 ELSE persisted[Len(persisted)].score
PersistedCarry ==
  IF persisted = <<>> THEN {} ELSE persisted[Len(persisted)].carry
IsLastPersisted(id) ==
  persisted # <<>> /\ persisted[Len(persisted)].block.id = id
PersistedAt(id) == {h \in DOMAIN persisted : persisted[h].block.id = id}
HeightAt(id) == CHOOSE h \in PersistedAt(id) : TRUE

-----------------------------------------------------------------------------
(* The liquid block *)

NewNgState(b, fees) == [base |-> b, inherited |-> fees, micros |-> <<>>]

\* Position n of the liquid block is its key block with the first n microblocks.
Positions == 0 .. Len(ng.micros)
IdAt(n) == IF n = 0 THEN ng.base.id ELSE ng.micros[n].id
Contains(id) == ng # NoNg /\ \E n \in Positions : IdAt(n) = id
PositionOf(id) == CHOOSE n \in Positions : IdAt(n) = id

\* diffFor, and the carry that comes with it, at position n.
TxsUpTo(n) == ng.base.txs \cup UNION {ng.micros[i].txs : i \in 1 .. n}
LiquidTxs == TxsUpTo(Len(ng.micros))
BestLiquidBlockId == IdAt(Len(ng.micros))

\* The key block closed at position n: it takes the microblock's
\* totalResBlockSig for its signature, valid or not.
ForgedBlock(n) == [ng.base EXCEPT !.id = IdAt(n), !.txs = TxsUpTo(n)]
BestLiquidBlock == ForgedBlock(Len(ng.micros))

Height == Len(persisted) + (IF ng = NoNg THEN 0 ELSE 1)
Score == PersistedScore + (IF ng = NoNg THEN 0 ELSE ng.base.score)
ChainTxs == PersistedTxs \cup (IF ng = NoNg THEN {} ELSE LiquidTxs)
IsLastBlockId(id) == Contains(id) \/ (ng = NoNg /\ IsLastPersisted(id))
KnownId(id) == PersistedAt(id) # {} \/ Contains(id)

-----------------------------------------------------------------------------
(* What processBlock decides before it changes anything *)

\* BlockDiffer.fromBlock on a state in which the transactions of `on' have
\* been applied: no transaction twice, nothing spent before it exists.
Applicable(txs, on) ==
  /\ txs \cap on = {}
  /\ \A t \in txs : Needs[t] \subseteq on \cup txs

\* MiningConstraints(blockchain, height).total
TotalConstraint(height) ==
  IF height >= ActivationHeight THEN LimitAfter ELSE LimitBefore

\* Every branch takes its limit at the height of the persisted chain: that is
\* the parent of a block that starts or replaces the liquid block, but the
\* grandparent of one that builds on the liquid block.
BlockLimit == TotalConstraint(Len(persisted))

Fits(b, on) ==
  /\ Applicable(b.txs, on)
  /\ Size(b.txs) <= BlockLimit

AreVersionsOfSameBlock(b, c) ==
  /\ b.gen = c.gen
  /\ b.score = c.score
  /\ b.ref = c.ref
  /\ b.ts = c.ts

Competes(b) == ng # NoNg /\ ng.base.ref = b.ref
\* Bug: the scores of competitors are not compared.
IsBetter_AnyScore(b) == Competes(b)
IsBetter(b) == Competes(b) /\ b.score > ng.base.score
IsSameVersion(b) ==
  Competes(b) /\ ~IsBetter(b) /\ AreVersionsOfSameBlock(b, ng.base)
IsLongerVersion(b) ==
  IsSameVersion(b) /\ Cardinality(b.txs) > Cardinality(LiquidTxs)

\* Bug: the forged block is trusted because its microblocks were signed.
BuildsOnLiquid_Unsigned(b) == ~Competes(b) /\ Contains(b.ref)

\* The new block builds on some position of the liquid block, and the block
\* forged there is really signed.
BuildsOnLiquid(b) ==
  /\ ~Competes(b)
  /\ Contains(b.ref)
  /\ ForgedBlock(PositionOf(b.ref)) \in Blocks

StartsLiquid(b) ==
  /\ ng = NoNg
  /\ IsLastPersisted(b.ref)
  /\ Fits(b, PersistedTxs)

Supersedes(b) ==
  /\ IsBetter(b) \/ IsLongerVersion(b)
  /\ Fits(b, PersistedTxs)

\* Bug: the new block is applied to the persisted state alone.
Hardens_OnPersisted(b) == BuildsOnLiquid(b) /\ Fits(b, PersistedTxs)

Hardens(b) ==
  /\ BuildsOnLiquid(b)
  /\ Fits(b, PersistedTxs \cup TxsUpTo(PositionOf(b.ref)))

Accepts(b) == StartsLiquid(b) \/ Supersedes(b) \/ Hardens(b)

\* Bug: the referenced microblock is discarded with those above it.
Discarded_OffByOne(b) ==
  IF IsBetter(b) THEN LiquidTxs
  ELSE IF BuildsOnLiquid(b)
       THEN UNION {ng.micros[i].txs :
                     i \in (PositionOf(b.ref) .. Len(ng.micros)) \ {0}}
       ELSE {}

\* The DiscardedTransactions that processBlock returns with Right(Some(_)).
Discarded(b) ==
  IF IsBetter(b) THEN LiquidTxs
  ELSE IF BuildsOnLiquid(b)
       THEN UNION {ng.micros[i].txs :
                     i \in PositionOf(b.ref) + 1 .. Len(ng.micros)}
       ELSE {}

-----------------------------------------------------------------------------
(* processBlock, one action per outcome *)

\* Bug: the limit is set anew but the block's own transactions not counted.
SetLiquid_FullRest(b, fees) ==
  ng' = NewNgState(b, fees) /\ restTotalConstraint' = BlockLimit

SetLiquid(b, fees) ==
  /\ ng' = NewNgState(b, fees)
  /\ restTotalConstraint' = BlockLimit - Size(b.txs)

\* LevelDBWriter.doAppend: the new height moves the rollback horizon.
AppendPersisted(b, carry, inherited) ==
  LET height == Len(persisted) + 1 IN
  /\ persisted' = Append(persisted,
        [block |-> b, carry |-> carry, inherited |-> inherited,
         score |-> PersistedScore + b.score])
  /\ safeRollbackHeight' =
        IF safeRollbackHeight < height - MaxRollbackDepth
        THEN height - MaxRollbackDepth ELSE safeRollbackHeight

\* No liquid block: the first block on the persisted chain.
StartLiquidBlock(b) ==
  /\ StartsLiquid(b)
  /\ SetLiquid(b, PersistedCarry)
  /\ UNCHANGED <<persisted, safeRollbackHeight>>

\* A better competitor, or a longer version, takes the liquid block's place.
ReplaceLiquidBlock(b) ==
  /\ Supersedes(b)
  /\ SetLiquid(b, PersistedCarry)
  /\ UNCHANGED <<persisted, safeRollbackHeight>>

\* A version that is not longer: Right(None).
KeepLiquidBlock(b) ==
  /\ IsSameVersion(b) /\ ~IsLongerVersion(b)
  /\ UNCHANGED vars

\* Bug: the new block is given the fees of the whole liquid block.
HardenLiquidBlock_AllFees(b) ==
  LET n == PositionOf(b.ref) IN
  /\ Hardens(b)
  /\ AppendPersisted(ForgedBlock(n), TxsUpTo(n), ng.inherited)
  /\ SetLiquid(b, LiquidTxs)

\* The liquid block is forged at the referenced position and persisted; what
\* was above that position is dropped; the new block becomes the liquid one.
HardenLiquidBlock(b) ==
  LET n == PositionOf(b.ref) IN
  /\ Hardens(b)
  /\ AppendPersisted(ForgedBlock(n), TxsUpTo(n), ng.inherited)
  /\ SetLiquid(b, TxsUpTo(n))

\* Left(_): nothing was assigned yet.
RejectBlock(b) ==
  /\ ~Accepts(b) /\ ~(IsSameVersion(b) /\ ~IsLongerVersion(b))
  /\ UNCHANGED vars

ProcessBlock(b) ==
  \/ StartLiquidBlock(b)
  \/ ReplaceLiquidBlock(b)
  \/ KeepLiquidBlock(b)
  \/ HardenLiquidBlock(b)
  \/ RejectBlock(b)

-----------------------------------------------------------------------------
(* processMicroBlock, removeAfter and a restart of the node *)

\* Bug: the room left in the liquid block is not checked.
AcceptsMicroBlock_NoLimit(m) ==
  /\ ng # NoNg
  /\ ng.base.gen = m.gen
  /\ BestLiquidBlockId = m.prev
  /\ Applicable(m.txs, ChainTxs)

AcceptsMicroBlock(m) ==
  /\ ng # NoNg
  /\ ng.base.gen = m.gen
  /\ BestLiquidBlockId = m.prev
  /\ Applicable(m.txs, ChainTxs)
  /\ Size(m.txs) <= restTotalConstraint

ProcessMicroBlock(m) ==
  /\ AcceptsMicroBlock(m)
  /\ restTotalConstraint' = restTotalConstraint - Size(m.txs)
  /\ ng' = [ng EXCEPT !.micros = Append(@, m)]
  /\ UNCHANGED <<persisted, safeRollbackHeight>>

CanRollbackTo(id) == \E h \in PersistedAt(id) : h > safeRollbackHeight

\* Bug: the liquid block outlives the chain it was built on.
RemoveAfter_KeepsLiquid(id) ==
  /\ persisted' = IF ~Contains(id) /\ CanRollbackTo(id)
                  THEN SubSeq(persisted, 1, HeightAt(id))
                  ELSE persisted
  /\ UNCHANGED <<ng, restTotalConstraint, safeRollbackHeight>>

\* Any position of the liquid block will do: nothing is removed then.
\* (Left out: the debug API asking a node that has nothing but the genesis
\* block to go back to a block it never had.)
\* Otherwise the liquid block goes first, whether or not LevelDB can roll back.
RemoveAfter(id) ==
  IF Contains(id)
  THEN UNCHANGED vars
  ELSE /\ ng' = NoNg
       /\ persisted' =
            IF CanRollbackTo(id)
            THEN SubSeq(persisted, 1, HeightAt(id))
            ELSE persisted
       /\ UNCHANGED <<restTotalConstraint, safeRollbackHeight>>

PersistedAbove(h) == [i \in 1 .. Len(persisted) - h |-> persisted[h + i].block]

\* Bug: the liquid block is not among the removed ones.
RemovedBlocks_NoLiquid(id) == PersistedAbove(HeightAt(id))

\* The blocks removeAfter returns, lowest first.
RemovedBlocks(id) ==
  IF Contains(id) THEN <<>>
  ELSE PersistedAbove(HeightAt(id)) \o (IF ng = NoNg THEN <<>> ELSE <<BestLiquidBlock>>)

\* The liquid block lives in memory only.  On an empty chain the start-up code
\* (checkGenesis) processes the genesis block.
LiquidAtStart == IF persisted = <<>> THEN NewNgState(Genesis, {}) ELSE NoNg
RestAtStart ==
  BlockLimit - (IF persisted = <<>> THEN Size(Genesis.txs) ELSE 0)

Restart ==
  /\ ng' = LiquidAtStart
  /\ restTotalConstraint' = RestAtStart
  /\ UNCHANGED <<persisted, safeRollbackHeight>>

Init ==
  /\ persisted = <<>>
  /\ ng = LiquidAtStart
  /\ restTotalConstraint = RestAtStart
  /\ safeRollbackHeight = 0

Next ==
  \/ \E b \in Blocks : ProcessBlock(b)
  \/ \E m \in MicroBlocks : ProcessMicroBlock(m)
  \/ \E id \in Ids : (persisted # <<>> \/ Contains(id)) /\ RemoveAfter(id)
  \/ Restart

Spec == Init /\ [][Next]_vars

-----------------------------------------------------------------------------
(* Properties *)

\* The chain starts at the genesis block, every persisted block references the
\* one below it, and the liquid block's key references the last persisted one:
\* hardening, replacing, rolling back and restarting never leave the node on a
\* chain with a missing link.
ChainLinked ==
  /\ \A h \in DOMAIN persisted :
        h > 1 => persisted[h].block.ref = persisted[h - 1].block.id
  /\ persisted # <<>> => persisted[1].block.ref = Genesis.ref
  /\ ng # NoNg =>
        ng.base.ref = IF persisted = <<>> THEN Genesis.ref
                      ELSE persisted[Len(persisted)].block.id

\* A node that replays this node's blocks from genesis accepts the
\* transactions of each: none is applied twice (in two blocks, or in a block
\* and again after a microblock fork was dropped) and none before what it
\* needs.
TxsBelow(h) == UNION {persisted[i].block.txs : i \in 1 .. h - 1}
ChainReplays ==
  /\ \A h \in DOMAIN persisted : Applicable(persisted[h].block.txs, TxsBelow(h))
  /\ ng # NoNg => Applicable(LiquidTxs, PersistedTxs)

\* Only validly signed blocks are persisted, although the signature of a
\* forged block is not looked at until another block references it; and every
\* position of the liquid block is a path of microblocks its own generator
\* signed, whatever forks of them arrive in between.
SignedPositions ==
  /\ \A h \in DOMAIN persisted : persisted[h].block \in Blocks
  /\ ng # NoNg =>
       \A i \in DOMAIN ng.micros :
         /\ ng.micros[i].prev = IdAt(i - 1)
         /\ ng.micros[i].gen = ng.base.gen

\* The fee share a generator takes over is the one the block below left: for
\* a block that hardened a part of the liquid block, that part's fees and not
\* those of the dropped microblocks.
FeesPassedOn ==
  /\ \A h \in DOMAIN persisted :
        /\ persisted[h].carry = persisted[h].block.txs
        /\ persisted[h].inherited =
             IF h = 1 THEN {} ELSE persisted[h - 1].carry
  /\ ng # NoNg => ng.inherited = PersistedCarry

\* restTotalConstraint, which no object ties to the liquid block, is what that
\* block leaves of the limit at one of the two heights it can be taken at.
RestMatchesLiquid ==
  ng # NoNg =>
    restTotalConstraint + Size(LiquidTxs) \in
      {TotalConstraint(Len(persisted)), TotalConstraint(Len(persisted) - 1)}

\* Blocks and microblocks, which are the steps that leave a liquid block, never
\* make the node's score fall: only removeAfter and a restart can.
ScoreNeverFalls == [][ng' # NoNg => Score' >= Score]_vars

\* What processBlock hands back to its caller, which returns it to the UTX
\* pool, is all it takes out of the chain, and nothing that stays in it but
\* what the new block itself brings in again.  (A longer version of the liquid
\* block is taken to continue it and nothing is handed back; a generator that
\* signs two microblocks on one position can make that wrong, and is left out.)
Continues(b) == IsLongerVersion(b) => LiquidTxs \subseteq b.txs
DiscardedIsExact ==
  [][ ng' \notin {ng, NoNg} /\ ng'.micros = <<>> =>
        LET b == ng'.base
        IN ProcessBlock(b) /\ Continues(b) =>
             /\ ChainTxs \ ChainTxs' \subseteq Discarded(b)
             /\ Discarded(b) \cap ChainTxs' \subseteq b.txs ]_vars

\* When removeAfter cuts the chain back, the blocks it returns hold exactly the
\* transactions that left the chain, and build on the block it stopped at.
RemovedIsReturned ==
  [][ persisted' # persisted /\ ng' = NoNg =>
        LET target  == persisted'[Len(persisted')].block.id
            removed == RemovedBlocks(target)
        IN /\ removed[1].ref = target
           /\ \A i \in 2 .. Len(removed) : removed[i].ref = removed[i - 1].id
           /\ ChainTxs \ ChainTxs' =
                UNION {removed[i].txs : i \in DOMAIN removed} ]_vars
=============================================================================
