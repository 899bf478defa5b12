----------------------------- MODULE Appenders -----------------------------
(***************************************************************************)
(* The tasks of the appender thread, which alone changes the chain of a    *)
(* node once it has started, and the UTX pool they keep in step with it:   *)
(* state/appender/BlockAppender.scala, MicroblockAppender.scala,           *)
(* ExtensionAppender.scala, package.scala and the rollback of              *)
(* http/DebugApiRoute.scala, over BlockchainUpdater.                       *)
(*                                                                         *)
(* The thread runs one task at a time.  An extension task takes many       *)
(* steps, between which the threads that feed and clean the UTX pool run.  *)
(* blockConsensusValidation (clock, stakes, base target) may decline any   *)
(* block that processBlock would take.                                     *)
(***************************************************************************)
EXTENDS BlockchainUpdater

CONSTANTS
  Extensions,  \* the sequences of blocks a peer can send for an extension
  SignedAt,    \* the moment at which a block got its id, which is its signature
  Holdable,    \* the sets of transactions within maxSize and maxBytesSize
  Doubtful,    \* transactions whose place in the pool depends on more than the
               \* chain and the pool's limits
  NoJob        \* the appender thread runs no extension task

\* An extension is shorter (max-chain-length) than what LevelDB can take back
\* (max-rollback-depth).  That each of its blocks builds on the one before it
\* is checked nowhere.
ASSUME ExtensionsAssumption ==
  /\ Extensions \subseteq Seq(Blocks)
  /\ \A ext \in Extensions : ext # <<>> /\ Len(ext) <= MaxRollbackDepth

\* Less of what fits fits.
ASSUME PoolAssumption ==
  /\ Doubtful \subseteq Txs
  /\ Holdable \subseteq SUBSET Txs
  /\ {} \in Holdable
  /\ \A T \in Holdable : SUBSET T \subseteq Holdable

\* A signature covers the reference, so what is referred to was signed before:
\* references never lead round in a circle.
ASSUME ReferencesAssumption ==
  /\ SignedAt \in [Ids -> Nat]
  /\ \A b \in Blocks : SignedAt[b.ref] < SignedAt[b.id]
  /\ \A m \in MicroBlocks : SignedAt[m.prev] < SignedAt[m.id]

VARIABLES
  utx,        \* UtxPoolImpl.transactions
  job,        \* the extension task under way, or NoJob
  returning   \* transactions a rollback has yet to put into the pool

nodeVars == <<persisted, ng, restTotalConstraint, safeRollbackHeight,
              utx, job, returning>>

\* A job is a record: its stage, the last common block, the blocks of the
\* extension not appended yet (left) and those removed or, in stage "restore", not
\* processed again yet (dropped).  The code keeps no more; the other fields are
\* history: the chain before the task (was), the part of it up to the common
\* block (kept), all the blocks of the extension above that (new), and the
\* transactions the task handed to a pool that had no room for them (crowded).
Jobs == [stage : {"append", "undo", "restore"}, common : Ids,
         left : Seq(Blocks), dropped : Seq(Block),
         was : Seq(Block), kept : Seq(Block), new : Seq(Blocks),
         crowded : SUBSET Txs]

ASSUME NoJobAssumption == NoJob \notin Jobs

Idle == job = NoJob
AtStage(stage) == ~Idle /\ job.stage = stage

TxsIn(blocks) == UNION {blocks[i].txs : i \in DOMAIN blocks}

\* Each block builds on the one before it.
Chained(blocks) == \A i \in 2 .. Len(blocks) : blocks[i].ref = blocks[i - 1].id

-----------------------------------------------------------------------------
(* The pool.  A transaction is judged on the chain, without regard to the   *)
(* rest of the pool.  A doubtful one can fare badly all the same: its       *)
(* sender is blacklisted or has got a script, its alias is taken or its     *)
(* asset no longer reissuable, it has expired, or it is at odds with others *)
(* that packUnconfirmed takes before it.  (UtxPool has the steps inside an  *)
(* operation and two operations at once.)                                   *)

CanPut(t) == Applicable({t}, ChainTxs)
HasRoom(t) == utx \cup {t} \in Holdable

\* What the pool can be after removeAll(txs), which ends with removeExpired.
AfterRemoveAll(txs) == {(utx \ txs) \ expired : expired \in SUBSET Doubtful}

\* What a pool can become when it is given applicable transactions, one by one:
\* some doubtful ones are refused, and whatever there is no room for.  The
\* Left of putIfNew goes unnoticed.
AfterPuts(pool, txs) ==
  {after \in {pool \cup taken : taken \in SUBSET txs} :
     /\ after \in Holdable
     /\ \A t \in (txs \ after) \ Doubtful : after \cup {t} \notin Holdable}

-----------------------------------------------------------------------------
(* The node's chain as a sequence of blocks *)

ChainBlocks ==
  [h \in DOMAIN persisted |-> persisted[h].block]
    \o (IF ng = NoNg THEN <<>> ELSE <<BestLiquidBlock>>)

HeightOf(id) ==
  IF PersistedAt(id) # {} THEN HeightAt(id) ELSE Height

ChainUpTo(id) ==
  IF PersistedAt(id) # {} THEN SubSeq(ChainBlocks, 1, HeightOf(id))
  ELSE Append(SubSeq(ChainBlocks, 1, Len(persisted)), ForgedBlock(PositionOf(id)))

-----------------------------------------------------------------------------
(* appendBlock: processBlock, and the pool follows *)

Processed(b) ==
  \/ StartLiquidBlock(b)
  \/ ReplaceLiquidBlock(b)
  \/ KeepLiquidBlock(b)
  \/ HardenLiquidBlock(b)

\* Bug: the discarded transactions are put back before the block is applied.
AppendedBlock_StalePool(b) ==
  /\ Processed(b)
  /\ \E pool \in AfterRemoveAll(b.txs) :
        utx' \in AfterPuts(pool, {t \in Discarded(b) : CanPut(t)})

AppendedBlock(b) ==
  /\ Processed(b)
  /\ \E pool \in AfterRemoveAll(b.txs) :
        utx' \in AfterPuts(pool, {t \in Discarded(b) : CanPut(t)'})

\* processBlock gives a Right.
Takes(b) == Accepts(b) \/ (IsSameVersion(b) /\ ~IsLongerVersion(b))

\* BlockAppender.  Without a reference to the last block nothing changes.
BlockArrives(b) ==
  /\ Idle
  /\ IsLastBlockId(b.ref)
  /\ AppendedBlock(b)
  /\ UNCHANGED <<job, returning>>

\* MicroblockAppender
MicroBlockArrives(m) ==
  /\ Idle
  /\ ProcessMicroBlock(m)
  /\ utx' \in AfterRemoveAll(m.txs)
  /\ UNCHANGED <<job, returning>>

-----------------------------------------------------------------------------
(* ExtensionAppender *)

\* newBlocks.dropWhile(blockchainUpdater.contains): from the first one that is
\* not known on.
NewOnes(ext) ==
  LET new == {i \in 1 .. Len(ext) : \E j \in 1 .. i : ~KnownId(ext[j].id)}
  IN SubSeq(ext, Len(ext) - Cardinality(new) + 1, Len(ext))

NewJob(common, new, dropped) ==
  [stage |-> "append", common |-> common, left |-> new, dropped |-> dropped,
   was |-> ChainBlocks, kept |-> ChainUpTo(common), new |-> new, crowded |-> {}]

\* Bug: the liquid block is not remembered with the removed ones.
StartExtension_NoLiquid(ext) ==
  LET new    == NewOnes(ext)
      common == new[1].ref
  IN
  /\ Idle
  /\ new # <<>>
  /\ KnownId(common)
  /\ IF HeightOf(common) = Height
     THEN UNCHANGED vars /\ job' = NewJob(common, new, <<>>)
     ELSE /\ RemoveAfter(common)
          /\ job' = IF CanRollbackTo(common)
                    THEN NewJob(common, new, RemovedBlocks_NoLiquid(common))
                    ELSE NoJob
  /\ UNCHANGED <<utx, returning>>

\* The blocks above the common one are removed.  When LevelDB cannot roll back
\* that far the task is over, and the liquid block is gone.
StartExtension(ext) ==
  LET new    == NewOnes(ext)
      common == new[1].ref
  IN
  /\ Idle
  /\ new # <<>>
  /\ KnownId(common)
  /\ IF HeightOf(common) = Height
     THEN UNCHANGED vars /\ job' = NewJob(common, new, <<>>)
     ELSE /\ RemoveAfter(common)
          /\ job' = IF CanRollbackTo(common)
                    THEN NewJob(common, new, RemovedBlocks(common))
                    ELSE NoJob
  /\ UNCHANGED <<utx, returning>>

AppendNext ==
  /\ AtStage("append") /\ job.left # <<>>
  /\ AppendedBlock(Head(job.left))
  /\ job' = [job EXCEPT !.left = Tail(@),
                         !.crowded = @ \cup {t \in Discarded(Head(job.left)) : ~HasRoom(t)'}]
  /\ UNCHANGED returning

\* Declined by the validation of its consensus data, or by processBlock.
DeclineNext ==
  /\ AtStage("append") /\ job.left # <<>>
  /\ job' = [job EXCEPT !.stage = "undo"]
  /\ UNCHANGED <<vars, utx, returning>>

\* Bug: the pool is not given the transactions of the dropped blocks.
FinishExtension_NoReturn ==
  /\ AtStage("append") /\ job.left = <<>>
  /\ job' = NoJob
  /\ UNCHANGED <<vars, utx, returning>>

FinishExtension ==
  /\ AtStage("append") /\ job.left = <<>>
  /\ utx' \in AfterPuts(utx, {t \in TxsIn(job.dropped) : CanPut(t)})
  /\ job' = NoJob
  /\ UNCHANGED <<vars, returning>>

\* Bug: LevelDB is rolled back, and the liquid block on top of it forgotten.
UndoExtension_LevelDbOnly ==
  /\ AtStage("undo")
  /\ RemoveAfter_KeepsLiquid(job.common)
  /\ job' = IF job.dropped # <<>> THEN [job EXCEPT !.stage = "restore"] ELSE NoJob
  /\ UNCHANGED <<utx, returning>>

\* removeAfter(lastCommonBlockId).explicitGet(), which throws when LevelDB
\* cannot roll back that far.
UndoExtension ==
  /\ AtStage("undo")
  /\ RemoveAfter(job.common)
  /\ job' = IF (Contains(job.common) \/ CanRollbackTo(job.common))
               /\ job.dropped # <<>>
            THEN [job EXCEPT !.stage = "restore"] ELSE NoJob
  /\ UNCHANGED <<utx, returning>>

AfterRestoring == IF Len(job.dropped) = 1 THEN NoJob
                  ELSE [job EXCEPT !.dropped = Tail(@)]

\* processBlock(_).explicitGet() on each dropped block: the pool is not told.
RestoreNext ==
  /\ AtStage("restore")
  /\ Head(job.dropped) \in Blocks
  /\ Processed(Head(job.dropped))
  /\ job' = AfterRestoring
  /\ UNCHANGED <<utx, returning>>

\* explicitGet() throws: the forged block at the top was never signed, or
\* processBlock declines.  The other dropped blocks are lost.
RestoreThrows ==
  /\ AtStage("restore")
  /\ Head(job.dropped) \notin Blocks \/ ~Takes(Head(job.dropped))
  /\ job' = NoJob
  /\ UNCHANGED <<vars, utx, returning>>

-----------------------------------------------------------------------------
(* The rollback of the debug API: its first part runs on the appender       *)
(* thread, its second one, after asyncBoundary, on another                  *)

\* Going back to a position of the liquid block changes nothing; going back to a
\* block the node never had fails, and the liquid block is gone all the same.
RollbackToBlock(id, returnTransactionsToUtx) ==
  /\ Idle /\ returning = {}
  /\ persisted # <<>> \/ Contains(id)
  /\ RemoveAfter(id)
  /\ returning' = IF returnTransactionsToUtx /\ CanRollbackTo(id)
                  THEN TxsIn(RemovedBlocks(id)) ELSE {}
  /\ UNCHANGED <<utx, job>>

PutReturned(t) ==
  /\ t \in returning
  /\ returning' = returning \ {t}
  /\ utx' \in AfterPuts(utx, {u \in {t} : CanPut(u)})
  /\ UNCHANGED <<vars, job>>

-----------------------------------------------------------------------------
(* The other users of the pool: peers and the API, cleanup and mining *)

PutIfNew(t) ==
  /\ t \notin utx /\ CanPut(t) /\ HasRoom(t)
  /\ utx' = utx \cup {t}
  /\ UNCHANGED <<vars, job, returning>>

\* removeInvalid and packUnconfirmed, and what expires meanwhile.
RemoveInvalid(t) ==
  /\ t \in utx /\ (~CanPut(t) \/ t \in Doubtful)
  /\ utx' = utx \ {t}
  /\ UNCHANGED <<vars, job, returning>>

\* The pool and the task under way live in memory only.
NodeRestart ==
  /\ Restart
  /\ utx' = {} /\ job' = NoJob /\ returning' = {}

NodeInit == Init /\ utx = {} /\ job = NoJob /\ returning = {}

NodeNext ==
  \/ \E b \in Blocks : BlockArrives(b)
  \/ \E m \in MicroBlocks : MicroBlockArrives(m)
  \/ \E ext \in Extensions : StartExtension(ext)
  \/ AppendNext \/ DeclineNext \/ FinishExtension
  \/ UndoExtension \/ RestoreNext \/ RestoreThrows
  \/ \E id \in Ids, keep \in BOOLEAN : RollbackToBlock(id, keep)
  \/ \E t \in Txs : PutReturned(t) \/ PutIfNew(t) \/ RemoveInvalid(t)
  \/ NodeRestart

NodeSpec == NodeInit /\ [][NodeNext]_nodeVars

-----------------------------------------------------------------------------
(* Properties.  One more is Spec of BlockchainUpdater: each step of the     *)
(* node is one of its steps or leaves the chain alone.                      *)

\* While an extension is appended the chain stays on top of the common part and,
\* when the extension is chained, consists of that and the first of the new
\* blocks, from the first one on; while it is undone and the dropped blocks are
\* processed again, the chain and the blocks still to process are the chain the
\* node had: no block is skipped, duplicated or reordered.  (Of an extension
\* that is not chained a block may replace the one before it.)
ExtensionOnTrack ==
  /\ AtStage("append") /\ job.left # job.new =>
       /\ SubSeq(ChainBlocks, 1, Len(job.kept)) = job.kept
       /\ Chained(job.new) => ChainBlocks \o job.left = job.kept \o job.new
  /\ AtStage("restore") => ChainBlocks \o job.dropped = job.was

\* A failed extension leaves the node on the chain it had: processBlock takes
\* every dropped block again, as the explicitGet() on its result asserts.
RestoreSucceeds ==
  AtStage("restore") =>
    Head(job.dropped) \in Blocks /\ Takes(Head(job.dropped))

\* An attempt at an extension, successful or not, loses no transaction of the
\* chain the node had but for want of room in the pool: each is in the chain or
\* in the pool at the end.  Not covered are those the pool may refuse or drop
\* for a reason of their own (Doubtful), those the extension carried too (a
\* block of it may take them from the pool and then be removed itself) and
\* those that need what the attempt took out of the chain (the pool takes only
\* what applies to the chain alone), nor an attempt that ends with the exception
\* of RestoreThrows.
ExtensionLosesNothing ==
  [][ ~Idle /\ job' = NoJob /\ ~NodeRestart /\ ~RestoreThrows =>
        \A t \in (TxsIn(job.was) \ TxsIn(job.new)) \ Doubtful :
          Needs[t] \subseteq TxsIn(job.kept) /\ t \notin job.crowded =>
            t \in ChainTxs' \cup utx' \/ ~HasRoom(t)' ]_nodeVars

\* What a block or a microblock adds to the chain leaves the pool in the same
\* step; what it takes out of the chain and is still good is in the pool in the
\* same step, unless that is full or has a reason of its own to refuse it.
\* (Left out: a block of an extension that is not chained and a version of the
\* one before it, see DiscardedIsExact.)
PoolFollowsChain ==
  [][ job = job' \/ (AtStage("append") /\ Chained(job.new)) =>
        /\ utx' \cap (ChainTxs' \ ChainTxs) = {}
        /\ ng' # NoNg /\ ~NodeRestart =>
             \A t \in (ChainTxs \ ChainTxs') \ Doubtful :
               CanPut(t)' => t \in utx' \/ ~HasRoom(t)' ]_nodeVars
=============================================================================
