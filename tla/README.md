# A formal model of the Earths node

TLA+ modules, TLC configurations and TLAPS proofs for the node in
`src/src/main/scala/com/earthspay`. Paths below are relative to that directory.
Every module was translated from the code; where a test, a comment or a config
default decided something, it is named.

- [Components](#components)
- [Modules](#modules): what each models and how it maps to the code
- [Runs](#runs): questions, bounds, results
- [Proofs](#proofs)
- [Where the code disagrees with itself](#where-the-code-disagrees-with-itself)
- [Not modelled](#not-modelled)
- [Plan](#plan)

To check everything: `tlc -config X.cfg M` for each row of the table of runs,
`tlapm M.tla` for each `*Proofs.tla`.

## Components

The node keeps a Waves-NG chain: a *key block* can be extended, until the next
key block, by *microblocks* of the same generator. The key block with its
microblocks is the *liquid block*. It lives in memory; everything below it is in
LevelDB.

| component | state | operations | talks to | what is hard | what makes it correct |
|---|---|---|---|---|---|
| **NG updater** `state/BlockchainUpdaterImpl`, `state/NgState` | persisted chain, liquid block, room left in it | `processBlock`, `processMicroBlock`, `removeAfter`, start | LevelDB below, appenders above; publishes the last block | forks of blocks and of microblocks, versions of one block, an unsigned forged block, a refused rollback, restarts | the chain is linked and can be replayed; fees and the room follow the liquid block; what leaves the chain is handed back |
| **Appenders** `state/appender/*` | the extension task under way | block, microblock, extension tasks; rollback | NG updater, UTX pool, miner, peers | an extension that fails in the middle, other threads in the pool meanwhile, a pool that refuses what it is given back, crashes | all of an extension or none; no transaction lost but by a refusal of the pool |
| **Persistent state** `database/LevelDBWriter`, `Caches` | histories, values by height, caches | `append`, `rollbackTo`, reads | updater, every reader of state | pruning against rollbacks, one batch per removed block, loads that begin before a change and end after it | each height still reachable is readable; a cached value is the stored one |
| **Features** (`BlockchainUpdaterImpl`, `LevelDBWriter`, `features`) | approval and activation heights | vote, approve, activate | updater, store | two counts in two places; rollbacks | approval follows the votes of the chain |
| **Score observer** `network/RxScoreObserver` | scores, best channel | local/remote score, closed channel, expiry | peers, loader | debounce, filtering, thread of its own | never a closed channel for ever |
| **Extension loader** `network/RxExtensionLoader`, `HistoryReplier`, `InvalidBlockStorage` | loader, applier, timer | event, signatures, block, timeout, applied | observer, peers, appender | late and lost replies, optimistic loading, failed extensions | one extension at a time, waits end, the node catches up |
| **UTX pool** `utx/UtxPoolImpl` | transactions, pessimistic portfolios | put, remove, clean, pack | API, peers, appenders, miner | concurrent put / remove on maps without a common lock, limits, a diff that changes between two puts, a chain seen half way | the pending balance counts the pool, and what is invalid leaves |
| **Miner** `mining/Miner` | attempts, accumulated block | block and microblock attempts | updater, pool, peers | reads that do not belong together, cancellation | mines on; never two microblocks on one |
| **Microblock synchronizer** `network/MicroBlockSynchronizer` | owners, announcements, awaited, received | announcement, response, last block | peers, appender | expiry, two attempts, late responses | what can be had is fetched |
| **Connections** `network/*Handler`, `NetworkServer` | channels by peer, established | handshake, timeout, close | peer database | races of two connections | one channel per peer; books in step |
| **Peer database** `network/PeerDatabaseImpl` | known, candidates, black list | touch, blacklist, pick | connections, loader | expiry | a blacklisted host is not picked |
| **UTX synchronizer** `network/UtxPoolSynchronizer` | ids seen lately | receive, broadcast | pool, peers | - | - |
| **Consensus** `consensus/*` | none | delay, base target, generating balance | miner, appenders | arithmetic | - |
| **Diffs** `state/diffs/*` | none | one differ per transaction type | updater, pool | arithmetic, overflow | balances are conserved |
| **Order book** `matcher/model/*` | bids, asks | add, cancel, match | order book actor | rounding through prices | not crossed, no order overfilled |
| **Matcher recovery** `matcher/market/*`, `queue/*`, `LocalQueueStore` | queue, snapshots, offsets | place, snapshot, restart | queue, journal, snapshot store | crash between any two writes, redelivery | a book is the replay of its queue |
| **Address actors** `matcher/AddressActor`, `OrderDB` | active orders, promises, timers | place, cancel, expire, execution | queue, order books | commands and events crossing, executions against oneself, restarts with redelivery | the volume reserved is what the active orders need; a final status is true and final; each caller answered |
| **API, wallet, crypto, RIDE, tools** | - | - | - | - | - |

Threads: chain changes run on the one `appender` thread (`Application.scala:80`);
the loader, the observer and the microblock synchronizer have one each, the miner
two; the API, the actors and Netty read the chain and feed the pool at any time.

## Modules

```
SmallNetwork ──┐
               MCBlockchainUpdater ── BlockchainUpdater
               MCAppenders ────────── Appenders ────────── AppendersProofs
                                        └ EXTENDS BlockchainUpdater
MCLevelDBWriter ──── LevelDBWriter ──── LevelDBWriterProofs
MCFeatureApproval ── FeatureApproval ── FeatureApprovalProofs
MCExtensionLoader ── ExtensionLoader ── ExtensionLoaderProofs
                       └ EXTENDS ScoreObserver
MCUtxPool ────────── UtxPool ────────── UtxPoolProofs
MCMatcher ────────── Matcher ────────── MatcherProofs ─ EXTENDS OrderBookProofs
                       └ EXTENDS OrderBook
MCAddressActors ──── AddressActors ──── AddressActorsProofs ─ EXTENDS OrderBookProofs
                       └ EXTENDS OrderBook, implements OrderLifecycle
```

A definition whose name has an underscore (`IsBetter_AnyScore`) is a faulty
variant of the one after it and is used by no specification; the comment says
which fault. Put in the place of the real one, each makes a property of a run
fail: that is how we know the properties look at the code.

### BlockchainUpdater

`persisted` is LevelDB's chain, each block with its cumulative score, the carry
fee it left and the one it inherited; `ng` is `ngState`; `restTotalConstraint` and
`safeRollbackHeight` are the fields of those names. The actions are the outcomes
of `processBlock`:

| action | code |
|---|---|
| `StartLiquidBlock` | no liquid block, the block references the last persisted one (118-130) |
| `ReplaceLiquidBlock` | same parent as the liquid block: a better competitor, or a longer version (131-156) |
| `KeepLiquidBlock` | a version that is not longer: `Right(None)` (145-147) |
| `HardenLiquidBlock` | references a position of the liquid block whose forged block is signed: persisted at that position, the rest discarded (161-191) |
| `RejectBlock` | every `Left` |
| `ProcessMicroBlock` | `processMicroBlock` (255-297) |
| `RemoveAfter` | `removeAfter` (217-235): the liquid block goes first, LevelDB may refuse |
| `Restart` | the process starts again: LevelDB is as it was, `ngState` is `None`, on an empty chain `checkGenesis` processes the genesis block |

Data: a diff is the set of transactions it applies; `Needs` says whose results a
transaction spends and `Applicable` is what `BlockDiffer` decides; fees are the
set of transactions they come from; a signature is valid when the signed thing is
in `Blocks` or `MicroBlocks`. One `Size` and one limit stand for the dimensions of
`MiningConstraints`. Two known ends are left out: the debug rollback of a node
with only a genesis block to an id it never had, and a generator that signs two
microblocks on one position *and* a longer version that drops one of them
(`Continues`).

### Appenders

Adds the UTX pool `utx`, the extension task `job` and `returning`, what a rollback
has yet to put into the pool. `BlockArrives`, `MicroBlockArrives` are
`BlockAppender` and `MicroblockAppender`; an `ExtensionAppender` task is
`StartExtension`, one `AppendNext` per block, then `FinishExtension`, or
`DeclineNext`, `UndoExtension` and one `RestoreNext` per dropped block
(`RestoreThrows` is `explicitGet` on a `Left`). Between those steps `PutIfNew` and
`RemoveInvalid` run on other threads. `RollbackToBlock` and `PutReturned` are the
debug API's; a rollback to an id the node never had is refused and takes the liquid
block with it. What `blockConsensusValidation` checks (clock, stake, base target) is
the free choice of `DeclineNext`. `was`, `kept`, `new` and `crowded` of a job are
history the code does not keep.

The pool is where `putIfNew` can say no, and nobody looks at its `Left`:

| check | here |
|---|---|
| `maxSize`, `maxBytesSize` (204-211) | `HasRoom`: the pool with the transaction is one of `Holdable`, any family of sets that holds the subsets of its members |
| the transaction's own validation (217) | `CanPut`: it applies to the chain |
| black list, scripted sender, alias, reissuable asset, age (213-216); expiry in `removeAll`; removal by `packUnconfirmed` of one at odds with better ones | a free choice for the transactions in `Doubtful`, which may be all of them |

`AfterPuts` says what the pool can become when it is given several, one after the
other. `ExtensionLosesNothing` and `PoolFollowsChain` therefore name three ways to
lose a transaction: it is doubtful, there is no room for it now, or there was none
when it was handed over in the middle of an extension task (`crowded`).

Two things are assumptions on the constants. An extension is not longer than LevelDB
can roll back: replies have at most `max-chain-length` signatures, 100, and
`max-rollback-depth` is 2000 (`ExtensionsAssumption`). References lead back in time,
since an id is a signature over the reference (`SignedAt`, `ReferencesAssumption`).
That each block of an extension builds on the one before is *not* assumed: neither
`RxExtensionLoader` nor `ExtensionAppender` checks it. `processBlock` declines a block
whose reference it does not find, but a block with the parent of the one before it may
replace that one, or be ignored as a version of it. The properties that say which
blocks the chain has while such an extension is appended do so only for a chained one
(`Chained`); that the common part stays, that the undoing is possible and the restored
chain is the old one, and that no transaction is lost, they say for all.

### LevelDBWriter

One history of heights per key and the value under each height, as in `Keys`.
`Append1` is `doAppend` (one batch), `Append2` the cache updates after it;
a rollback is `Begin`, and for each height `DiscardLeases` (what is discarded while
the batch is filled), `RollbackBatch` and `DiscardRest` (the invalidations after
it). `Crash` may come at any point. Transactions are shapes: which keys a type writes
(`Writes`), which addresses it lists (`Listed`), what its rollback reverts
(`RevertedByType`). An asset is issued with a script or without one; the script is one
more key that the issue writes, and that its rollback leaves (487-488).
`Those` stands for the `partition`, `dropWhile` and `filter` calls on a history, which
all keep some of its heights in their order.

A reader of another thread that misses a cache loads in two steps: `LoadBegin` reads
the store, `LoadEnd` caches what was read. In between the entry may be put, which wins,
or invalidated, which does not stop the load: that is Guava's behaviour, modelled from
its use in `Caches`. A cached entry is made of the keys its loader reads (`Parts`): a
portfolio of three, the description of an asset of its info, its sponsorship and its
script. Only a change of the first two discards a description (`Triggers`).

`past`, `left` and `overtaken` are auxiliary: the state each height left, the keys some
rollback did not revert, and the entries that were invalidated while their load was
under way. `WindowExact` compares with the first and leaves out the second; `CacheFresh`
leaves out the third. Left out of the module: the caches of balances at a height
(`balanceAtHeightCache`, `leaseBalanceAtHeightCache`, 660-672), which a rollback
invalidates while it fills its batch, as it does lease balances (461-463), the eviction
of cache entries, and the tables without a history (aliases, transactions by address).

### FeatureApproval

`chain` holds the votes of the persisted blocks, `liquid` the liquid block with the
approvals computed for it by `featuresApprovedWithBlock`; `approved` and
`activated` are the stored maps (`NewlyApproved`, `LevelDBWriter` 380-395).
`HardenLiquid` is the moment both counts meet. `abandoned` is auxiliary: the
features whose approving block was rolled back, for which the code keeps the old
answer (see the findings).

### ScoreObserver and ExtensionLoader

`ScoreObserver` has the score table, `best` and the events it published;
`ExtensionLoader` extends it with `loader`, `applier`, `timer`, the messages to and
from the peers (sets: any order, any delay), the channels and their closing signals,
and the local chain. Each handler of `RxExtensionLoader` is an action (`OnSyncWith`,
`OnSignatures`, `OnBlock`, `OnExtensionApplied`, `Timeout`). `lastSyncWith` is set
when an event is published, before the loader handles it: that is why `LastSyncWith`
reads `lastOut`. A chain is the last block of a path in a tree; its score is its
length, since every block is taken to have one base target and `Block.blockScore` is a
function of that. `Idle`, the state of a loader or an applier with nothing to do, is a value
no other state can have. `ValidNotRefused` holds until the first refusal only: in a
tree where a bad block forks off in the middle, TLC finds an extension of valid
blocks that is refused, because what is being *loaded* on top of a failed extension
goes on, while what is in the buffer is dropped.

And it holds until a late answer is taken for the one awaited. `onNewSignatures`
compares the channel only (`RxExtensionLoader.scala:102`), so when the loader asked a
peer, went idle (its own score had caught up) and asks it again, the first answer can
come when the chain has been switched to another fork meanwhile; it starts on a block
the node no longer has, all of it counts as unknown, is loaded and refused, and the
peer is blacklisted although all its blocks are valid. Nothing in the runs' six blocks
is deep enough for that: it was found while the theorem was being proved, and TLC then
showed it with a peer that is not `Prompt`, chains `g a1 a2 a3 a4` and `g b1 b2 b3`, own
blocks `a1` and `a2`, replies of 2 and requests of 3 signatures, in 21 steps. The
history variable `mistaken` records that an answer was accepted whose first id is none
of those asked about; no action reads it. `ProcessFork` is atomic here; that
it is all or nothing is what `Appenders` shows. Left out: local scores in the middle
of a fork switch, a Signatures reply with the common id twice, a timer that was
cancelled when it was already queued, peers' liquid blocks.

### UtxPool

`pool`, `portfolios` and `counted` are the three concurrent maps: `transactions`, and
of `PessimisticPortfolios` the keys of `transactionPortfolios` and its
`transactions` by address. `op` is what a thread is in the middle of and `todo`
what it will do after that; each access to a map is a step:

| action | code |
|---|---|
| `PutIfNew`, `BeginPut`, `Validate`, `AddPortfolios`, `ReadSet`, `WriteSet`, `Insert` | `putIfNew` (199-224): the limits and other refusals (204-216), the diff (217), `PessimisticPortfolios.add`: the portfolios (246), then for each account the read and the write of its set (248), the insertion (220) |
| `BeginRemove`, `Forget`, `Uncount` | `remove` (123-126): from the pool, then the portfolios, then each account's set by `computeIfPresent` |
| `RemoveInvalid`, `RemoveExpired` | `removeInvalid` (128-134) and `removeExpired` (81-89) |
| `PackUnconfirmed`, `RemoveUnpackable` | `packUnconfirmed` (151-179): each transaction, the better ones first (`Ranked`), is judged on top of the valid ones before it (`PackedBefore`), and removed when it fails there; one that does not fit into the block is passed over |
| `AppendMicroBlock`, `Harden` with `ReplaceLiquid`, `RemoveAfter` | the appender thread, with what it removes from the pool and puts into it after each |

What a transaction does to the balances is `Effect[t][S]`, where `S` is the set of the
transactions in the chain: an invocation asks the state what it pays. So the same
transaction may take from one account when it is put first and from another when it is
put again, and the second put replaces its portfolios without adding it to the set of
the new account (245-250): nobody counts it there until it leaves the pool. `diffs` is
auxiliary: what the puts of a transaction took from since it was forgotten last.
`Harden` and `ReplaceLiquid` are the two writes of `processBlock` (188, 204): between
them a reader sees the hardened transactions twice (`Seen`), and a validation in
that moment may let a transaction in that nobody can pay for. Which transactions
may expire is a free choice for those in `Old`. `raced` is auxiliary too: two
operations were once at work on one transaction or account at the same time. That loses
an update, which is the code as it is; `PendingExact` states that beside a changed diff
nothing else does, and `NoGhosts` that what is lost, by either, is never a removal that
would hold the money of an account for ever. Left out: the notifications of changed
balances.

### OrderBook and Matcher

`OrderBook` is `OrderBook.add` and `cancel` as operators: a side is the sequence of
its limit orders, best first, which is the `TreeMap` with its levels one after the
other; `DoMatch` is one turn of `doMatch`, `Turns` the matching after each turn, and
`AddOrder` its end. Prices, amounts and
the two roundings (`Settled`, `CorrectedAmount`) are those of `MatcherModel.scala`
with a small `PriceConstant`; fees, which follow from the amounts, and the upper
bound `MaxAmount` are left out.

`Matcher` is what is around it:

| action | code |
|---|---|
| `Enqueue` | `LocalQueueStore.enqueue`, for a command of the API or of an address actor |
| `MatcherHandlesEvent` | `LocalMatcherQueue` reads the next command, `MatcherActor.runFor` forwards it, makes a new order book if there is none, asks a book for a snapshot (`requiredSnapshot`) |
| `BookHandles` | the book's next message: a command, skipped if not after the last one, or `SaveSnapshot` |
| `JournalWritten`, `SnapshotSaved` | the two writes that end later: `OrderBookCreated`, and a snapshot with what `SaveSnapshotSuccess` does |
| `BookRecovered` | `receiveRecover` of a book |
| `MatcherHandlesUpdate` | `OrderBookSnapshotUpdated`, when working or while collecting (`collectOrderBooks`, with the last book `becomeWorking` and `startConsume`) |
| `Restart` | the process dies at any point and starts again |

Offsets count from 0, and -1 is "none yet", as in the code. The offset of a command
is also its timestamp, so orders can expire in the book. Stored are the queue, the
journal of pairs and a snapshot for each pair; everything else is lost at a restart.
`oldestIdx` is what `dropUntil` deletes (`clean-before-consume`, the default).
`trades` is auxiliary: all executions there ever were, those of a replay being equal
to the first ones. `Replay` is what the commands of a pair, read one after the other
up to an offset, make of an empty book: the specification a book is compared with.

Assumed, and named `PromptJournal`: the record of a new pair is written before a
snapshot that was asked for later. The journal and the snapshot store are two
plugins that write asynchronously and nothing orders them; without it
`NothingSkipped` fails, because the start offset can be above the first command of a
pair that is not in the journal (listed under the hazards). Left out: deliveries out
of order or twice when `getFrom` changes from the store to the queue in memory,
deleted pairs (`OrderBookDeleted`), `Shutdown` and the matcher actor's own
snapshots, snapshots that fail, stopped book actors, the Kafka queue.

### AddressActors and OrderLifecycle

`AddressActors` has one order book behind the queue and, for each owner, an actor:
`actors` holds the fields of `AddressActor` by order or owner, and what
`OrderDB` keeps of final orders (`info`). Commands (`PlaceOrder`, `CancelActive`,
`CancelAll`, `CancelExpired`, `BalanceUpdated`) change the actor and store a command
in the queue; `BookHandles` lets `OrderBook.Handle` execute the next one and sends
its events to the owners they concern, `AddressDirectory`'s way; `ActorHandles` is
`handleExecutionEvents` for the next of them. Between any two of these steps others
can come: events of an order reach its owner long after newer commands were stored.
`Restart` starts the book from a snapshot of any of its first commands, offers its
orders as added to actors that know nothing, and the rest of the queue is read again;
`BecomeWorking` opens the API.

`pendingPlacement` and `pendingCancellation` hold the orders with a promise in the maps
of those names. There is room for one per order in each: when a batch of cancellations
or the expiration stores another cancellation of an order that has one pending,
`ReplacePromises` records the order in `orphaned`, because the promise that was there is
never completed. `Answered` says that every promise an actor keeps is completed, and of
the orphaned ones only that their order ends.

Two orders of an owner may trade with each other. An order whose command may fail to be
stored is in `Unreliable`: the code keeps it reserved, with a promise nobody will
complete, until the next start, and the properties exempt it. Two assumptions are named:
`SnapshotsAreLate` (the actors have handled the events of a command by the time a
snapshot of the book that covers it is stored) and the guard `CaughtUp` of
`BecomeWorking` (what has been read from the queue has been handled when the API opens).
Neither is enforced by the code; without the first an order can be executed and have no
status at all (see the hazards). Left out: fees, the answers' contents, the lists of an
owner's orders, the on-chain check of the validator.

`OrderLifecycle` is what a client may rely on when he asks for the status of an
order, without actors, queues or a book. `AddressActors` implements it
(`ImplementsLifecycle`), with `Status`, the answer to `GetOrderStatus`, as the
refinement mapping.

## Runs

| run | question | bounds |
|---|---|---|
| `ng_updater` | any order of blocks, microblocks, rollbacks, restarts | ids are paths of up to 5 labels over two generators and three transactions; one forged block unsigned; limit 1 then 2 from height 2; rollback depth 2 |
| `appenders` | extension, block and rollback tasks with a live pool; is every step of the node one of `BlockchainUpdater`? | paths of 4 labels, two transactions of sizes 1 and 2 of which one needs the other, a third that is in no block and may expire, a pool with room for one, extensions of up to 3 blocks in a row or of two blocks on one parent, a limit that falls from 2 to 1 at height 2, so that a restore can throw |
| `appenders_limit` | is a dropped block always taken back? **violated** | the same |
| `leveldb` | histories, pruning, rollbacks, crashes, every shape of transaction, concurrent readers | rollback depth 2, balances kept 3 longer; five focuses, each some shapes, the entries readers look at, and a height: 7 for balances, 3 or 4 for the others |
| `leveldb_invocation` | does a rollback revert every data entry? **violated** | height 3 |
| `feature_approval` | do approvals follow the votes? | windows of two blocks, of four after height 4, height 8, three features of which one is pre-activated |
| `feature_rollback` | is a status rolled back with its block? **violated** | same |
| `sync_one_peer` | does the node catch up with a peer? | six blocks, a fork, a bad block, replies of 3 signatures, requests of 2 |
| `sync_two_peers` | does a wait always end? | two peers of any speed, three blocks, one bad |
| `utx_pool` | do puts, removals and a changing chain keep the pool's maps in step? | a payment and an invocation whose payer depends on it, two accounts, a limit of one, a thread that puts, one that cleans, one that appends and mines in turn |
| `matcher_recovery` | are books the replay of their commands through a restart? | two pairs, four orders, four commands, a snapshot every two, one restart, price constant 3 |
| `address_actors` | do the actors agree with the book, and clients with both? | two owners, four orders, four commands, one restart, two balances |

What the properties say is in the comment above each. A type invariant is checked
where proofs build on it; elsewhere the comments on the variables give their types.
Why the bounds are enough:

- `ng_updater`: a path of five labels holds a persisted block, a liquid block with
  two microblocks and a block on top, or three persisted blocks with a liquid one,
  enough for a rollback to be possible, impossible and exactly on the horizon.
  Every fork, microblock fork and version of a block up to that length is in the
  network, and so is a rollback after each.
- `appenders`: a chain of three blocks replaced by another of three from any common
  block, declined after any of its blocks; and two competing blocks sent as one
  extension. With room for one transaction in the pool and a third transaction around,
  each way out that `ExtensionLosesNothing` and `PoolFollowsChain` leave is needed:
  without the conditions on `HasRoom`, on `crowded` or, in `ExtensionOnTrack`, on
  `Chained`, TLC finds a behaviour that violates the property. (`Chained` in
  `PoolFollowsChain` would need a third transaction in the blocks.)
- `leveldb`: the history of a key passes through the states "newer than the
  threshold", "just at it" and "pruned", and back by a rollback. Balances are kept five
  blocks, so that at height 7 some are pruned; transfers and leases in any order change
  the two histories of an account at different heights, and `balanceSnapshots` is asked
  about every period of up to three blocks, with none, one or several changes of either
  in it and before it. The other keys are pruned after two blocks: height 4 is twice
  that. A behaviour keeps to one focus, since what two focuses do to different keys is
  independent; nothing is appended once a key that a rollback left behind has more than
  `MaxLeft` heights in its history, where they would add up for ever. Two values tell a
  stale cache from a fresh one.
- `feature_approval`: four ends of windows, on both sides of the doubling.
- `sync_one_peer`: one extension under way, one buffered and one asked for; a reply
  shorter than the chain; a fork older than the request.
- `matcher_recovery`: four commands and a snapshot every two are enough for a
  snapshot of one pair, a restart, a redelivery that starts below that snapshot
  because the other pair's is older, and the next snapshot falling due. The three
  orders of `p` fill each other wholly and in part, leave a rest too small for one
  price unit, share a level, and one expires while it rests.

- `utx_pool`: the three threads can be inside `putIfNew` and `remove` of the same
  transaction, and of two transactions of one account, at once. With a limit of one
  a single put that overtakes another exceeds it. `call` takes from alice before the
  payment and from bob after it, who can pay only while the payment counts twice: so
  one put of it can follow another with a different diff, and what the pool let in can
  be invalid. The payment is the better transaction and leaves `call` invalid in the
  block it is packed into.
- `address_actors`: four commands are a placement, one it meets, a cancellation and
  one more; among the four orders are a partial execution of either side, an
  execution of an owner's order against his own, a rest that is cancelled and one
  that rests, an order that expires in the book and by its timer, and one whose
  command is not stored. The restart can come anywhere and from any snapshot.

`CHECK_DEADLOCK FALSE` stands in the LevelDB configurations (the height bound stops
appends when nothing can be rolled back), in the loader's (when all peers are
gone nothing is left to do), in the pool's, and in the two of the matcher (the queue is
full and every command is handled).

**Fairness.** `ExtensionLoader`, `Matcher`, `UtxPool` and `AddressActors` have
liveness properties. In the first weak fairness is assumed of the node's own steps:
the observer and the loader consume their queues, a scheduled timeout fires, the
appender finishes a task; each runs on a thread of its own that blocks on nothing
else (`Application.scala:77-80`). Nothing is assumed of peers in `sync_two_peers`,
which is why `LoaderRests` there is about the timeouts. In `sync_one_peer` peers are
`Prompt`: they answer what they can before the second for which the observer holds
their next score back (`Application.scala:152`); without it an announcement can be
swallowed while an older request is open and `CatchesUp` does not hold. With two
peers it does not either: an event that arrives while another peer is waited for is
dropped (`RxExtensionLoader.scala:114`), and the node can stay behind until some
score changes. A peer may still leave, hold a bad block or not know the ids it is
asked about. In `Matcher`, `FairSpec` asks only that some step of `Step` happens
while one can: the dispatchers go on reading mailboxes and writes end. That is less
than fairness for each actor, and enough for `CatchesUp` since the steps run out. In
`AddressActors` each mailbox is read as long as there is something in it, the book's
and each actor's: each actor runs on a dispatcher of the actor system and blocks on
nothing. In `UtxPool` each thread goes on with what it has begun, and the cleanup
comes round again (`UtxPoolImpl.scala:52-57`, a task that sleeps and repeats);
nobody is assumed to put anything.

## Proofs

For every value of the constants under the assumptions each module names.

| module | theorem | says |
|---|---|---|
| AppendersProofs | `TypeCorrect` | `TypeOK`, with the room left in a liquid block never negative |
| | `ChainStaysLinked` | `ChainLinked` |
| | `ChainAlwaysReplays` | `ChainReplays` |
| | `RoomMatchesLiquid` | `RestMatchesLiquid` |
| | `ScoreIsMonotone` | `ScoreNeverFalls` |
| | `OnlySignedPersisted` | `SignedPositions` |
| | `FeesAlwaysPassedOn` | `FeesPassedOn` |
| | `DiscardedExactly` | `DiscardedIsExact` |
| | `RemovedExactly` | `RemovedIsReturned` |
| | `NodeImplementsUpdater` | `NodeSpec => Spec`: each step of a task is a step of `BlockchainUpdater` |
| | `NodeChainReplays` | so the node's chain can always be replayed |
| | `ExtensionStaysOnTrack` | `ExtensionOnTrack` |
| | `NothingLost` | `ExtensionLosesNothing` |
| | `PoolInStep` | `PoolFollowsChain` |
| LevelDBWriterProofs | `NeverBelowSafeHeight` | `AboveSafeHeight` |
| | `CacheStaysFresh` | `CacheFresh` |
| | `WindowStaysReadable` | `WindowExact` |
| | `OnlyTheseSurvive` | what rollbacks leave alone is the data of invoked accounts and the scripts assets were issued with, nothing else |
| | `OnlyInvocationsSurvive` | `DataRolledBack`, if an invocation writes its sender's data only |
| | `SnapshotsAreStates` | `SnapshotsExact` |
| FeatureApprovalProofs | `FeatureInvariant` | the inductive invariant |
| | `AnnouncedStored` | `AnnouncedIsStored` |
| | `ApprovalKept` | `ApprovalFixed` |
| | `VotesAreFollowed` | `ApprovalFollowsVotes`, if one vote is not enough |
| ExtensionLoaderProofs | `OneExtensionAtATime` | `OneAtATime` |
| | `NoValidExtensionRefused` | `ValidNotRefused` |
| UtxPoolProofs | `PendingOwned` | `NoGhosts` |
| | `LimitKept` | `WithinLimit` |
| | `PendingCounted` | `PendingExact` |
| OrderBookProofs | `ExecutedWithinBoth` | an execution is positive, settles for at least one price unit and is within what remains of both orders |
| | `ExecutionTakesWhatItExecutes` | an execution leaves exactly the difference of each order, less than before |
| | `MatchingEnds` | the turns `AddOrder` takes are enough, and leave a good book |
| | `BookStaysGood` | every command keeps a good book good, and what it executes settles |
| | `NothingOverfilled` | what a command executes of any order fits in what was left of it, and so does what rests of it after that |
| MatcherProofs | `Recovery` | the inductive invariant |
| | `BooksAreReplays` | `BookIsReplay` |
| | `NothingIsSkipped` | `NothingSkipped` |
| | `PriorityIsKept` | `PriceTimePriority` |
| | `RestingStaysValid` | `RestingIsValid` |
| | `TradesCanBeSettled` | `EachTradeSettles`, half of `TradesSettle` |
| | `WhatIsExecutedSettles` | `TradesSettle`: also that no order is executed for more than its amount |
| | `NoBookIsForgotten` | `NoBookForgotten` |
| AddressActorsProofs | `ReservedStays` | `ReservedExact` |
| | `ActiveRests` | `ActiveIsResting` |

**BlockchainUpdater.** `ChainReplays` is not inductive: hardening persists the
liquid block *at a position*, so the invariant has to say that every prefix of the
liquid block applies to the persisted chain (`PrefixesApply`), which
`processMicroBlock` extends by one and `BuildsOnLiquid` picks from. `ChainLinked`
needs that a forged block keeps its key's reference. `SignedPositions` and
`FeesPassedOn` are inductive once the chain is linked: a position of the liquid
block determines the block that is forged for it. `RestMatchesLiquid` rests on
`Size` being additive over disjoint sets (`SizeAssumption`) and on a microblock
bringing nothing the chain has (`Applicable`); the two heights of the limit are the
two cases of `BlockLimit`. `ScoreNeverFalls` needs that the cumulative score of a
persisted block is that of the one below plus its own. For `DiscardedIsExact` every
microblock has to bring only what the liquid block does not hold yet
(`MicrosFresh`), so that cutting the block at a position splits its transactions in
two (`AbovePosition`); for `RemovedIsReturned` the blocks of the chain have to be
disjoint (`ChainIsDisjoint`), or a transaction of a removed block could also be in
one that stays. With these two every property of `ng_updater` is a theorem. Assumed:
signed blocks have unique ids and only genesis has genesis' reference
(`SignedAssumption`), genesis needs nothing (`TxsAssumption`), finitely many
transactions, `Size` a measure, and `NoNg`, which stands for an absent liquid block,
is none (`NoNgAssumption`).

**Appenders.** The refinement mapping is the identity on the four variables of
`BlockchainUpdater`. The work is in the invariant: blocks still to be appended are
signed (`JobFields`), so that each step of a task is a `ProcessBlock`, a `RemoveAfter`
or a stutter; and the common block of the task is known as long as nothing is
persisted (`CommonKnown`), so that `removeAfter` is never asked for the impossible. The
second needs `GenesisStays`: no other block takes the place of a liquid genesis.

`ExtensionOnTrack` and `ExtensionLosesNothing` need to know what the chain is at
each moment of a task (`TaskInv`). `Plan` relates the fields of the task: what was
the chain is `kept` and `dropped`, each of the dropped blocks on the one before. `OnTrack`
says what the chain is, by stage: still what it was (`Untouched`), what was kept
with what the new blocks have become (`Grown`), or growing back (`Restoring`). For an
extension that is not chained `Grown` cannot say which of its blocks the chain has; it
says what is true of all: the kept part is below, what is above is liquid at the top, no
higher than the blocks taken so far and made of their transactions. `GrownStays` carries
that over one more block: it starts a liquid block, hardens the one before
(`NextAppended`), or takes its place or leaves it (`HorizonMoves` has the four cases). If
the extension is chained only the second can happen, and the chain is `kept` with the
blocks in their order.

Three facts of the chain carry them. No id is in it twice, nor among the blocks still to
come of a chained extension: each reference was signed before the block that holds it,
so the moments of signing increase along a chain (`PersistedInOrder`,
`LiquidInOrder`). The liquid block that leaves with `removeAfter` is returned as the
block forged at its last position. And LevelDB still has the common block when an
extension is undone: the horizon moves by at most one per block, an extension is not
longer than the horizon is deep, and the horizon is below the chain to begin with
(`Horizon`). The transactions of the old chain are in what was kept, in what was
dropped, in the pool, or were handed to a pool without room (`Saved`). What a pool makes
of what it is given is `PutsFacts`: only a doubtful one is refused while there is room,
and less of what fits fits. `PoolFollowsChain` follows from what `DiscardedExactly` and
`RemovedExactly` establish of the two steps. Assumed of the pool: `PoolAssumption`.

**LevelDBWriter.** A rollback goes down one height per batch and a crash may leave it
anywhere; `AboveSafeHeight` is inductive with the target of the rollback under way,
which `rollbackTo` compares with the horizon once and which stays above it
(`TargetAbove`). `CacheFresh` speaks of the idle moments; the invariant says which
entries may be stale between a batch and the invalidations after it (`Pending`), and
that all the others are fresh (`OthersFresh`). A load in flight is treated like an
entry: what it has read is what the store holds, or the entry is pending, or there, in
which case the load will not replace it, or was invalidated under it (`overtaken`).
Assumed: the watched entries are of the kinds that have a cache (`WatchedAssumption`).

What can be read back is the invariant `WindowInv`. Histories fall strictly and hold
no height above the chain (`StoreType`); the block at a height of a history is one
whose removal reverts that key (`Accountable`), or is known not to (`Leftover`), by which
a rollback leaves no other change behind; every height above the horizon reads back what
it left, balances `ExtraBalanceDepth` heights further (`PastReadable`); and below its
first change a key has no value (`GenesisReadable`), since `slice` puts height 1 at the
end of a history that has nothing older. That pruning keeps enough is `PrunedIs`,
`AppendedRead`: the newest change at or below the threshold is the one that answers
for all heights from the threshold up. The invariant is about the keys rollbacks have
restored so far (`Restored`, those not in `left`). That `left` is no loophole is a
theorem of its own: `OnlyTheseSurvive` names the keys that can ever be in it, the data
of accounts that others invoke and the scripts of assets issued with one. So when an
invocation writes its sender's data only (`OwnDataOnly`) all data is reverted
(`OnlyInvocationsSurvive`): the finding below is the only case. Balances are never in
`left`, and `SnapshotsAreStates` has no exception. Its lemma `MergeVisits` says that
`merge` meets exactly the pairs of heights current at some height of the period: each
step goes past the higher of the two, so the heights that are neither met nor left are
none, and as each step moves at least one of the two indices the steps are enough.

**FeatureApproval.** The inductive invariant says that the liquid block's approvals
are those `featuresApprovedWithBlock` gives on the chain it *still* stands on, and
that a stored approval comes with its activation one window later. Then hardening
computes what was announced, pre-activated features apart. For
`ApprovalFollowsVotes` what is stored of a feature is the first end of a window at
which the persisted chain has enough votes for it (`StoredFollows`); a block above
does not change the votes of a window below. `Enough > 1` is needed: a feature that
only the last block of its window votes for is not among those `featureVotes` lists
(`Voted`), which makes no difference unless one vote is enough.

**ExtensionLoader.** `OneAtATime` says nothing of the loader when the applier is
idle and nothing of a buffer's shape; the invariant does (`ApplierShape`): an
applier has an extension and perhaps a buffered one, and the extension under way is
the one handed over (`Agree`). The heart is `BufferStopsLoader`: `syncNext` asks for
nothing while an extension waits, so the one that comes always finds room, whatever
arrives late. For `ValidNotRefused` the invariant (`GroundInv`) says where each thing
the node has in hand begins. `Ground` is what will be on the local chain once the
extension under way is applied, as far as the loader can know: that extension's blocks,
or the chain's when there is none. What is asked about lies on the ground, what is
being loaded begins with a child of a block of it, what waits in the buffer with a child
of one of the extension under way, and that one with a child of one of the local chain
(`LoaderOk`, `ApplierOk`); all are runs, each block the parent of the next, because peers
answer with pieces of chains (`SignaturesAreRun`). Then `dropWhile(contains)` leaves the
end of a run whose parent is there (`DropWhileRun`), and the chain that ends in the last
block of a run holds all of it (`RunOnChain`), so the ground becomes chain as promised.
All this while `Clean`; no step leads back to it. That the recursion of `Chain` has a
solution, and so that a chain is that of the parent and the block (`ChainOf`), is
proved, from the assumption that going from parent to parent ends at the genesis block.

**UtxPool.** `NoGhosts` speaks of the quiet moments; the invariant has to speak of
all: portfolios belong to a transaction that is in the pool, or that a thread is
about to insert or has just taken out (`Owned`), and an account's set holds only
transactions that take from it (`SetsRight`). The order of the steps does it:
portfolios come before the transaction and go after it. For `WithinLimit` the
invariant counts the threads that have passed the comparison (`Room`); only threads
that put ever are (`OnlyDrops`). Assumed: finitely many threads, a transaction
touches finitely many accounts, whatever the chain (`EffectAssumption`). `PendingExact`
is the other direction: while no two operations were at work on one transaction or
account (`Apart`), what a thread has read of an account's set is still that set when it
writes (`Orderly`); the portfolios of a transaction whose diff was the same at every put
are that diff (`Kept`), so they are counted for each account of its, or a thread is about
to (`Complete`); and the puts of a transaction in the pool are known (`Held`).

**OrderBook.** What an amount costs, `Settled`, is a division rounded down, and the
amount that is executed, `CorrectedAmount`, is the smallest that costs as much
(`DivIsLargest`, `CeilDivIsSmallest`, `CorrectedCostsTheSame`); so it is never more
than the amount one started from. An amount of at least `MinimalAmount` settles for
at least one unit (`MinimalSettles`), which `IsValidAt` asks of the submitted order
and `RestingIsValid` says of the counter order. The only assumption is that
`PriceConstant` is positive. A book is good (`GoodBook`) when its sides are in order
of price and time, do not cross, and hold only what can still be executed. Each turn
of a matching keeps that, in the form that allows for the order that is being
matched (`GoodMatching`): what is left of it may cross only the part of the other
side it has not met. A turn ends the matching or shortens the other side, so the
turns of `AddOrder` are enough. What is executed of an order is a sum over a set of
executions (`Total`). A book fits them (`BookFits`) when that sum and what rests of
the order are together no more than its amount: an execution moves the same amount
from one to the other (`ExecutionFits`), and only of the two orders it is about,
since an order is at one place of one side (`SideOrders`). It may be an execution
that is in the set already, then the sum does not grow (`OneMoreTrade`).

**Matcher.** A restart makes the whole state a function of what is stored, so the
invariant is mostly about that. `StoredExact`: a snapshot is the replay of its pair
up to its offset. `Recorded`: nothing a snapshot covers is of a pair a restart would
not find, in the journal; this needs `PromptJournal`. `Deleted`: what is deleted
from the queue is in a snapshot. Of a running process: a book is the replay up to
what it handled last, and the snapshot it saves too (`BooksExact`); what is in a
mailbox is in the order of the queue, a request for a snapshot after its command
(`Mailboxes`); what was read is handled, in the snapshot, or in the mailbox
(`Read`); and what a book handled last comes before what it will still get, or its
snapshot covers it, in which case a redelivered command is skipped (`Behind`).
`BookIsReplay` needs all of it: a snapshot is right only when no command of its pair
was passed over, and that is known only because those before it were in the mailbox
first. `PriceTimePriority`, `RestingIsValid` and `EachTradeSettles` then follow from
`BookStaysGood` along the replay. So does `NoOrderOverfilled`: what the commands of a
pair execute in the replay fits in their orders (`ReplayFits`, from
`NothingOverfilled` command after command), and whatever was executed in any life
of the process is what the replay executes (`TradesReplayed`), because a book that
takes a command again is then the book it was. `NoBookForgotten` rests on a second invariant,
`Rotation`: a book is in exactly one of four stages, due for a snapshot, asked for
one, saving, reporting; a request reaches it after what it has to cover, so it is
never taken for an old one and ignored. While the books are being recovered, each
has reported or is about to (`Gathering`). Assumed: what `Order.isValid` asks of an
order (`OrdersAssumption`), an order of recovery among pairs (`KeyRankAssumption`),
and that "no snapshot" and "no book" are none (`NothingAssumption`).

**AddressActors.** `ReservedExact` is nearly inductive: with the types of the state
(`Types`) it is `Exact`, a formula about the actors' fields alone. The work is in
what one event does. Whatever the branch, `HandleOrderAdded`, `HandleOrderExecuted`
and `OnOrderCanceled` have one effect on what is active and on the volume: the order
becomes active with some amount, and the volume of its asset moves by the difference
of what it needs after and before (`Sets`; `AddedSets`, `ExecutedSets`,
`CanceledSets`). That is `release` before `reserve`, in every branch; it takes an order
that is active already as one that is not, which is why a second `OrderAdded`, or an
execution on its own order, does no harm. `SetsKeepsExact` does the sum: the terms of
the other orders stay (`SumWithout`). An event of the book's is typed because a turn
of a matching is one of four (`TurnCases`).

`ActiveIsResting` speaks of a moment at which nothing is under way, so its invariant
(`TrackInv`) has to say what is under way. The mail an actor has not read yet is the
*tale* of an order (`Tale`): it takes the order from what is active to what rests in
the book, and each of its events says of the order what the one before it left. In the
life of a process that has read its queue an order is in one of three situations
(`Tracked`): followed, by such a tale; expected, with its command in the queue once
and nothing told of it; or lost, its command never stored, which can only be an
unreliable one. Until the queue has been read the tale may begin at nothing, because
the actor has forgotten the order (`Forgetful`), and the book may offer it as it
rested at the snapshot. That the tale goes on as it should is a fact about matching:
what a command tells of an order is what it does to it in the book, turn by turn
(`TurnReports`, `PlacingTells`, `CancellingTells`), and `AddressDirectory` leaves out
only what concerns others (`TaleAmong`). For the replay after a restart one more fact
is needed, about the whole queue: an order is placed only when it rests nowhere
(`Placeable`). It holds because the validator asks that the order be inactive: an
inactive order is followed by a tale that starts, and so ends, at nothing
(`TaleIsOver`, `PlacesTracked`).

Assumed: what `Order.isValid` asks (`OrdersAssumption`), and that a balance is a
natural number (`SpendableAssumption`).

**Induction.** The library's theorems on induction take a predicate, which these provers
cannot instantiate. Where one is needed (what a recursive function computes, what grows
along a sequence) the lemma `Least` stands in for it: a set of natural numbers that is
not empty has a least one, proved from the well-foundedness of inclusion among finite
sets; so the first place at which a claim fails has one before it at which it
holds. The same lemma, over the sizes of finite sets, shows that the sum
`MapThenSumSet` computes exists, does not depend on the order of its terms and grows
with the set (`SumExists`, `SumTakes`, `SumOfPart`).

Along the tree of blocks it is simpler: `TreeAssumption` says that every set of blocks
that is not empty has one whose parent is not in it (`FirstBlock`).

Model-checked only: liveness (`LoaderRests`, `CatchesUp`, `InvalidLeaves`,
`Answered`), out of the prover's reach; `FinalIsTrue` and `ImplementsLifecycle` of
`AddressActors`. Nothing stands in the way of proving those two but their invariant,
which the [plan](#plan) names.

## Where the code disagrees with itself

Three runs show a disagreement as a counterexample of TLC; each is a finding in
`PROJECT.json`.

- **A failed extension may not be undone** (`appenders_limit`, `RestoreSucceeds`).
  `ExtensionAppender.scala:87` asserts with `explicitGet` that each dropped block is
  taken back. The limit of a block is taken at its grandparent's height when it builds
  on a liquid block and at its parent's otherwise (`BlockchainUpdaterImpl.scala:172`), so
  around the activation of a feature that changes the limit a dropped block can be
  declined; the exception leaves the node on the shortened chain.
- **Data of an invoked account survives the rollback** (`leveldb_invocation`,
  `DataRolledBack`). `LevelDBWriter.scala:514` relies on the changed data keys, which are
  removed for the addresses in the portfolios only.
- **An approval survives the rollback of its block** (`feature_rollback`,
  `StatusRolledBack`). `doRollback` touches neither the approved nor the activated
  features.

The following were met while modelling. The models contain them, and the properties
name them as the exceptions they allow:

| what | where | in |
|---|---|---|
| What a block discards, an extension drops or a rollback returns goes through `putIfNew`, and its `Left` goes unnoticed: at the limits of the pool, or when a check has changed, the transaction is lost | `UtxPoolImpl.scala:204-217`, `state/appender/package.scala:96`, `ExtensionAppender.scala:100` | `ExtensionLosesNothing`, `PoolFollowsChain` |
| A rollback to an id the node does not have is refused after the liquid block was forgotten | `BlockchainUpdaterImpl.scala:226-230` | `RollbackToBlock` |
| An extension whose blocks do not build on each other is appended all the same, as far as `processBlock` takes them | `RxExtensionLoader.scala`, `ExtensionAppender.scala:42-51` | `ExtensionOnTrack` |
| The rollback of an asset issued with a script leaves the script | `LevelDBWriter.scala:487-488` | `WindowExact`, `OnlyTheseSurvive` |
| The description of an asset holds the script, and stays cached when the script changes | `Caches.scala:315`, `LevelDBWriter.scala:181` | `CacheFresh` |
| A lease balance is discarded before the batch is written, so a reader may cache the old one again | `LevelDBWriter.scala:463` | `CacheFresh` |
| A load that is under way when its entry is invalidated caches what it read before | `Caches.scala:128-168` | `CacheFresh` |
| A lost update of an account's set, when `add` meets another `add` or `remove` of that account | `UtxPoolImpl.scala:248` | `PendingExact` |
| A second put of an invocation replaces its portfolios and does not count them for new accounts | `UtxPoolImpl.scala:245-250` | `PendingExact` |
| The promise of a cancellation is replaced by that of a later one, and never completed | `AddressActor.scala:141` | `Answered` |
| A late answer of a peer is taken for the one awaited, and an honest peer may be blacklisted; so may one whose blocks are being loaded on top of a failed extension | `RxExtensionLoader.scala:102` | `ValidNotRefused` |
| With two peers an event that arrives while another peer is waited for is dropped | `RxExtensionLoader.scala:114` | `CatchesUp` (stated for one peer) |

Others would break a property and are kept out by an assumption that the section on the
module names: `PromptJournal` in `Matcher`, `SnapshotsAreLate` and `CaughtUp` in
`AddressActors`, and that a snapshot is saved whenever it is asked for.

## Not modelled

- **Miner, microblock synchronizer, connections, peer database, UTX synchronizer**: in
  the plan below; their hazards are listed. What they do to the modelled parts is there:
  packing and removing transactions (`UtxPool`), microblocks arriving in any order
  (`BlockchainUpdater`), channels that close at any time (`ExtensionLoader`).
- **Consensus and diffs**: arithmetic without state. Whether a block passes the
  consensus checks is a free choice (`DeclineNext`, `RejectBlock`); what a transaction
  does is a constant of each model (`Needs`, `Writes`, `Effect`).
- **API, wallet, crypto, RIDE, serialisation, tools**: no state the properties are about.
- Inside the modelled parts: what each section above names after "left out".

## Plan

Done, in this order: the NG updater and its proofs; the appenders, as a refinement of
it; the store; features; synchronisation; matching and the matcher's recovery; the
UTX pool and its proofs; the address actors, as a refinement of the life of an order.

Next:

1. `Miner`: block and microblock attempts against the appender thread, with `UtxPool`.
2. `MicroBlockSynchronizer` with expiring caches. Read from the code: an answer that
   comes after its request has expired is dropped and the microblock refused for three
   minutes (99); the announcement of a fork (88) or a new last block restarts the
   download of the first microblock at once, a second request to the same peer; a
   download that runs out of owners leaves `awaiting` set, and a later announcement
   does not restart it.
3. `Connections`: handshake, timeout, close and the books.
4. Balance conservation over the differs of transfers, leases and exchanges.
5. `AddressActors` with the crash between an event and a snapshot, once it is decided
   what a client may then expect.

What would be proved next, and what it needs beside `TrackInv`:

- `FinalIsTrue`: that the events not yet read, with the final status, sum up to what
  the queue executes of an order; after a restart, that an order with a final status
  that is replayed ends as it did.
- `ImplementsLifecycle`: from the same invariant, that an order which the mail still
  speaks of has no final status while the API is open.
