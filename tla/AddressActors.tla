--------------------------- MODULE AddressActors ---------------------------
(***************************************************************************)
(* The accounts of the matcher, matcher/AddressActor.scala: what each      *)
(* owner's actor believes of his orders while their commands are on the    *)
(* way to the order book through the queue, and the book's events on their *)
(* way back.  One order book; a restart starts it from one of its          *)
(* snapshots and reads the queue from there (Matcher shows that this       *)
(* rebuilds the book), while the actors start with nothing.                *)
(*                                                                         *)
(* As in Matcher the n-th command of the queue has offset n - 1, which is  *)
(* also its timestamp, and the time is the length of the queue.  Fees are  *)
(* left out.                                                               *)
(***************************************************************************)
EXTENDS OrderBook, FiniteSets, FiniteSetsExt

CONSTANTS
  Owners,
  Orders,
  Spendable,    \* what the blockchain may say an owner can spend of an asset
  MaxActiveOrders,
  Unreliable,   \* orders whose commands the queue may fail to store
  MaxEvents,    \* bound on the length of the queue
  MaxRestarts   \* bound on the number of restarts

\* Order.isValid lets nothing else in.
ASSUME OrdersAssumption ==
  /\ IsFiniteSet(Orders)
  /\ \A o \in Orders :
       /\ o.owner \in Owners /\ o.side \in {"buy", "sell"}
       /\ o.expiration \in Nat /\ o.timestamp \in Nat
       /\ o.price \in Nat \ {0} /\ o.amount \in Nat \ {0} /\ Settled(o.amount, o.price) > 0

ASSUME SpendableAssumption == Spendable \subseteq Nat

Assets == {"amount", "price"}
NoInfo == [is |-> "not found", amount |-> 0]

VARIABLES
  queue,        \* the commands stored
  handled,      \* how many of them the order book has handled
  book,
  events,       \* to each owner's actor, with the offset of its command, in the
                \* order the book published them
  actors,       \* the actors' fields, by order or by owner, and the OrderDB
  orphaned,     \* orders with the promise of a cancellation that another one
                \* has replaced: who waits for it waits for ever
  working,      \* Matcher.status: the API accepts commands
  restarts      \* for the bound

vars == <<queue, handled, book, events, actors, orphaned, working, restarts>>

-----------------------------------------------------------------------------
(* The state of the actors.  An order that is not active has amount 0: what *)
(* is active always has some left.                                          *)

\* A process that starts knows the final statuses that are stored, nothing else.
Started(info) ==
  [info       |-> info,
   active     |-> [o \in Orders |-> 0],
   openVolume |-> [w \in Owners |-> [a \in Assets |-> 0]],
   pendingPlacement    |-> {},
   pendingCancellation |-> {},
   expiration |-> [o \in Orders |-> 0]]   \* timers that are running

Init ==
  /\ queue = <<>> /\ handled = 0 /\ book = EmptyBook
  /\ events = [w \in Owners |-> <<>>]
  /\ actors = Started([o \in Orders |-> NoInfo])
  /\ orphaned = {}
  /\ working = TRUE
  /\ restarts = 0

\* What an order holds back, and of what.
SpentAsset(o) == IF o.side = "buy" THEN "price" ELSE "amount"
RequiredBalance(lo) == IF lo.order.side = "buy" THEN Settled(lo.amount, lo.order.price) ELSE lo.amount

ActiveOrder(s, o) == [order |-> o, amount |-> s.active[o]]

Reserve(s, lo) ==
  [s EXCEPT !.active[lo.order] = lo.amount,
            !.openVolume[lo.order.owner][SpentAsset(lo.order)] = @ + RequiredBalance(lo)]

\* Nothing for an order that is not active.
Release(s, o) ==
  [s EXCEPT !.openVolume[o.owner][SpentAsset(o)] = @ - RequiredBalance(ActiveOrder(s, o))]

ConfirmPlacement(s, o) == [s EXCEPT !.pendingPlacement = @ \ {o}]

\* The timer that runs already is not stopped when another one is started.
HandleOrderAdded(s, lo) ==
  [ConfirmPlacement(Reserve(s, lo), lo.order) EXCEPT !.expiration[lo.order] = @ + 1]

\* Bug: a cancellation under way stays without an answer.
HandleOrderTerminated_Unanswered(s, o, status) ==
  [s EXCEPT !.expiration[o] = 0, !.active[o] = 0,
            !.info[o] = IF @ = NoInfo THEN status ELSE @]

\* A final status is written once (OrderDB.saveOrderInfo).  A timer that is not
\* stopped will find the order inactive and do nothing.
HandleOrderTerminated(s, o, status) ==
  [s EXCEPT !.pendingCancellation = @ \ {o}, !.expiration[o] = 0, !.active[o] = 0,
            !.info[o] = IF @ = NoInfo THEN status ELSE @]

Filled(lo) == [is |-> "filled", amount |-> lo.order.amount - lo.amount]
Cancelled(lo) == [is |-> "cancelled", amount |-> lo.order.amount - lo.amount]

\* Bug: an order that fills is taken for filled completely.
FilledStatus_Completely(lo) == [is |-> "filled", amount |-> lo.order.amount]

FilledStatus(lo) == Filled(lo)

\* OrderStatus.finalStatus
FinalStatus(lo, unmatchable) ==
  IF unmatchable /\ lo.amount < lo.order.amount THEN Filled(lo) ELSE Cancelled(lo)

HandleOrderExecuted(s, left) ==
  LET o == left.order IN
  IF IsValid(left) THEN HandleOrderAdded(Release(s, o), left)
  ELSE HandleOrderTerminated(ConfirmPlacement(Release(s, o), o), o, FilledStatus(left))

\* Bug: the amount reserved when the order was placed is not released.
OnOrderAdded_Reserves(s, e) == HandleOrderAdded(s, e.lo)

OnOrderAdded(s, e) == HandleOrderAdded(Release(s, e.lo.order), e.lo)

\* Bug: only the order that was submitted is looked at.
OnOrderExecuted_Submitted(s, w, e) ==
  IF e.submitted.order.owner = w THEN HandleOrderExecuted(s, Remaining(e.submitted, e.amount)) ELSE s

\* Each of the two orders if it is the owner's.
OnOrderExecuted(s, w, e) ==
  LET Of(t, lo) == IF lo.order.owner = w THEN HandleOrderExecuted(t, Remaining(lo, e.amount)) ELSE t
  IN  Of(Of(s, e.submitted), e.counter)

OnOrderCanceled(s, e) ==
  LET o == e.lo.order
      t == [ConfirmPlacement(s, o) EXCEPT !.pendingCancellation = @ \ {o}]
  IN  IF s.active[o] = 0 THEN t
      ELSE HandleOrderTerminated(Release(t, o), o, FinalStatus(e.lo, e.unmatchable))

\* handleExecutionEvents
HandleEvent(s, w, e) ==
  CASE e.type = "added"    -> OnOrderAdded(s, e)
    [] e.type = "executed" -> OnOrderExecuted(s, w, e)
    [] e.type = "canceled" -> OnOrderCanceled(s, e)

-----------------------------------------------------------------------------
(* The way to the order book and back *)

\* Those of a sequence that are in S, in their order.
Among(s, S) ==
  LET kept[i \in 0 .. Len(s)] ==
        IF i = 0 THEN <<>>
        ELSE IF s[i] \in S THEN Append(kept[i - 1], s[i])
        ELSE kept[i - 1]
  IN  kept[Len(s)]

Placed(o) == [type |-> "placed", order |-> o]
Canceled(o) == [type |-> "canceled", order |-> o]

\* Each command is stored, or the store fails.  The promise of the answer stays
\* where it is either way.
Store(commands) ==
  \E failed \in SUBSET Unreliable :
    LET stored == Among(commands, {c \in ToSet(commands) : c.order \notin failed}) IN
    /\ failed \subseteq {c.order : c \in ToSet(commands)}
    /\ Len(queue) + Len(stored) <= MaxEvents
    /\ queue' = queue \o stored

\* AddressDirectory: an event goes to the owners of its orders.
Concerns(e, w) ==
  IF e.type = "executed" THEN w \in {e.submitted.order.owner, e.counter.order.owner}
  ELSE e.lo.order.owner = w

\* What an owner gets of some events that the command at an offset has caused.
ToOwner(w, es, offset) ==
  LET own == Among(es, {e \in ToSet(es) : Concerns(e, w)})
  IN  [i \in DOMAIN own |-> [event |-> own[i], offset |-> offset]]

Publish(es) == events' = [w \in Owners |-> events[w] \o ToOwner(w, es, handled)]

\* The order book handles the next command.
BookHandles ==
  /\ handled < Len(queue)
  /\ \E r \in {Handle(book, queue[handled + 1], handled)} : book' = r.book /\ Publish(r.events)
  /\ handled' = handled + 1
  /\ UNCHANGED <<queue, actors, orphaned, working, restarts>>

\* An actor handles the next event.
ActorHandles(w) ==
  /\ events[w] # <<>>
  /\ actors' = HandleEvent(actors, w, Head(events[w]).event)
  /\ events' = [events EXCEPT ![w] = Tail(@)]
  /\ UNCHANGED <<queue, handled, book, orphaned, working, restarts>>

-----------------------------------------------------------------------------
(* Commands to the actors *)

ActiveOf(w) == {o \in Orders : o.owner = w /\ actors.active[o] > 0}

\* Bug: the final statuses of earlier orders are not asked.
CanPlace_Again(o) ==
  /\ Cardinality(ActiveOf(o.owner)) < MaxActiveOrders
  /\ actors.active[o] = 0
  /\ \E b \in Spendable :
       RequiredBalance(LimitOrder(o)) <= b - actors.openVolume[o.owner][SpentAsset(o)]

\* The validator: the limit, an order that exists, the balance.
CanPlace(o) ==
  /\ Cardinality(ActiveOf(o.owner)) < MaxActiveOrders
  /\ actors.active[o] = 0 /\ actors.info[o] = NoInfo
  /\ \E b \in Spendable :
       RequiredBalance(LimitOrder(o)) <= b - actors.openVolume[o.owner][SpentAsset(o)]

\* PlaceOrder; for one that is pending the sender gets the same promise.  The
\* API has checked that the order has not expired.
PlaceOrder(o) ==
  /\ working
  /\ o.expiration > Len(queue)
  /\ o \notin actors.pendingPlacement
  /\ CanPlace(o)
  /\ Store(<<Placed(o)>>)
  /\ actors' = [Reserve(actors, LimitOrder(o)) EXCEPT !.pendingPlacement = @ \cup {o}]
  /\ UNCHANGED <<handled, book, events, orphaned, working, restarts>>

\* A new promise of the cancellation of some orders takes the place of the one
\* that is pending (eventCache += id -> promise), which nobody will complete.
ReplacePromises(orders) == orphaned' = orphaned \cup (orders \cap actors.pendingCancellation)

\* storeCanceled for each of some orders.
StoreCanceled(orders) ==
  /\ Store([i \in DOMAIN orders |-> Canceled(orders[i])])
  /\ ReplacePromises(ToSet(orders))
  /\ actors' = [actors EXCEPT !.pendingCancellation = @ \cup ToSet(orders)]
  /\ UNCHANGED <<handled, book, events, working, restarts>>

\* CancelOrder; a cancellation that is pending is not stored again.
CancelActive(o) ==
  /\ working
  /\ actors.active[o] > 0 /\ o \notin actors.pendingCancellation
  /\ StoreCanceled(<<o>>)

\* CancelAllOrders stores every one, pending or not.
CancelAll(w) ==
  /\ working
  /\ ActiveOf(w) # {}
  /\ StoreCanceled(SetToSeq(ActiveOf(w)))

\* CancelExpiredOrder, when its time has come: likewise.
CancelExpired(o) ==
  /\ actors.expiration[o] > 0 /\ o.expiration <= Len(queue)
  /\ \E failed \in SUBSET ({o} \cap Unreliable) :
       /\ Len(queue) < MaxEvents
       /\ queue' = IF failed = {} THEN Append(queue, Canceled(o)) ELSE queue
  /\ ReplacePromises({o})
  /\ actors' = [actors EXCEPT !.expiration[o] = @ - 1, !.pendingCancellation = @ \cup {o}]
  /\ UNCHANGED <<handled, book, events, working, restarts>>

\* Orders with the same timestamp may come in any order.
OldestFirst(orders) ==
  {s \in [1 .. Cardinality(orders) -> orders] :
     /\ orders = ToSet(s)
     /\ \A i, j \in DOMAIN s : i < j => s[i].timestamp <= s[j].timestamp}

\* What the balance cannot cover any more is to be cancelled.
OrdersToDelete(sorted, balance) ==
  LET Cover(r, o) ==
        LET rest == r.rest - RequiredBalance(ActiveOrder(actors, o)) IN
        IF rest >= 0 THEN [rest |-> rest, toDelete |-> r.toDelete]
        ELSE IF o \in actors.pendingCancellation THEN r
        ELSE [rest |-> r.rest, toDelete |-> Append(r.toDelete, o)]
      covered[i \in 0 .. Len(sorted)] ==
        IF i = 0 THEN [rest |-> balance, toDelete |-> <<>>] ELSE Cover(covered[i - 1], sorted[i])
  IN  covered[Len(sorted)].toDelete

\* BalanceUpdated: the owner has spent elsewhere.
BalanceUpdated(w, asset, balance) ==
  \E sorted \in OldestFirst({o \in ActiveOf(w) : SpentAsset(o) = asset}) :
    LET toDelete == OrdersToDelete(sorted, balance) IN
    /\ toDelete # <<>>
    /\ StoreCanceled(toDelete)

-----------------------------------------------------------------------------
\* What the first n commands make of an empty book, and every event till then.
Replay(commands, n) ==
  LET Then(r, i) ==
        LET h == Handle(r.book, commands[i], i - 1)
        IN  [book |-> h.book, events |-> r.events \o h.events]
      after[i \in 0 .. Len(commands)] ==
        IF i = 0 THEN [book |-> EmptyBook, events |-> <<>>]
        ELSE CHOOSE r \in {Then(q, i) : q \in {after[i - 1]}} : TRUE
  IN  after[n]

AllOrders(b) == b["buy"] \o b["sell"]

\* The assumption that the actors have handled what came of a command by the time
\* a snapshot of the book that covers it is stored.
SnapshotsAreLate(n) == \A w \in Owners : \A i \in DOMAIN events[w] : n <= events[w][i].offset

\* The process dies and starts again: the book has a snapshot of its first n
\* commands and offers the orders in it to the actors as added.
Restart ==
  /\ restarts < MaxRestarts
  /\ restarts' = restarts + 1
  /\ working' = FALSE
  /\ actors' = Started(actors.info)
  /\ orphaned' = {}
  /\ \E n \in 0 .. handled :
       /\ SnapshotsAreLate(n)
       /\ \E b \in {Replay(queue, n).book} :
            LET resting == AllOrders(b)
                offers  == [i \in DOMAIN resting |-> OrderAdded(resting[i])]
            IN  /\ handled' = n
                /\ book' = b
                /\ events' = [w \in Owners |-> ToOwner(w, offers, n)]
  /\ UNCHANGED queue

CaughtUp == handled = Len(queue) /\ \A w \in Owners : events[w] = <<>>

\* waitOffsetReached: the API opens when the queue has been read.  The assumption
\* is that what was read has been handled by then.
BecomeWorking ==
  /\ ~working /\ CaughtUp
  /\ working' = TRUE
  /\ UNCHANGED <<queue, handled, book, events, actors, orphaned, restarts>>

-----------------------------------------------------------------------------
Step == BookHandles \/ (\E w \in Owners : ActorHandles(w)) \/ BecomeWorking

Next ==
  \/ Step
  \/ \E o \in Orders : PlaceOrder(o) \/ CancelActive(o) \/ CancelExpired(o)
  \/ \E w \in Owners : CancelAll(w)
  \/ \E w \in Owners, a \in Assets, b \in Spendable : BalanceUpdated(w, a, b)
  \/ Restart

Spec == Init /\ [][Next]_vars

\* Every mailbox is read as long as there is something in it.
FairSpec ==
  /\ Spec
  /\ WF_vars(BookHandles) /\ WF_vars(BecomeWorking)
  /\ \A w \in Owners : WF_vars(ActorHandles(w))

-----------------------------------------------------------------------------
\* What the actors hold back of an owner's balance is what his active orders
\* need, at every moment: an execution, a cancellation and a second OrderAdded
\* of the same order release exactly what they reserved.
ReservedExact ==
  \A w \in Owners, a \in Assets :
    actors.openVolume[w][a] =
      MapThenSumSet(LAMBDA o : RequiredBalance(ActiveOrder(actors, o)),
                    {o \in ActiveOf(w) : SpentAsset(o) = a})

Resting(o) == {lo \in ToSet(AllOrders(book)) : lo.order = o}

\* When everything is handled, the active orders are those that rest in the book,
\* with what is left of them there.  (One whose command could not be stored stays
\* active until the next start.)
ActiveIsResting ==
  CaughtUp =>
    \A o \in Orders \ Unreliable :
      Resting(o) = IF actors.active[o] > 0 THEN {ActiveOrder(actors, o)} ELSE {}

\* What was executed of an order according to the whole queue.
FilledAmount(o) ==
  LET own == {e \in Executed(Replay(queue, Len(queue)).events) : o \in {e.submitted, e.counter}}
  IN  MapThenSumSet(LAMBDA e : e.amount, own)

\* A final status tells what was executed of the order, whether it was written
\* in this life of the process or in an earlier one, and that is at most its
\* amount; once the API is open an order that has one rests nowhere.
FinalIsTrue ==
  \A o \in Orders : actors.info[o] # NoInfo =>
    /\ actors.info[o].amount = FilledAmount(o)
    /\ actors.info[o].amount <= o.amount
    /\ working => Resting(o) = {} /\ actors.active[o] = 0

\* The promise that an actor keeps for a placement or a cancellation is completed,
\* whether the order is added, executed or cancelled meanwhile: by the order itself
\* or by the one it meets.  So who asks for a placement gets an answer, and who asks
\* for a cancellation gets one unless a batch of cancellations or the expiration of
\* the order has replaced his promise: he waits until the process ends, although the
\* order that he wanted to cancel is terminated.
Answered ==
  \A o \in Orders \ Unreliable :
    /\ o \in actors.pendingPlacement ~> o \notin actors.pendingPlacement
    /\ o \in actors.pendingCancellation ~> o \notin actors.pendingCancellation
    /\ o \in orphaned ~> actors.active[o] = 0

\* GetOrderStatus.  While the API is closed an order may be active again although
\* it has its final status.
Status(o) ==
  IF actors.active[o] = 0 \/ (~working /\ actors.info[o] # NoInfo) THEN actors.info[o]
  ELSE [is     |-> IF actors.active[o] = o.amount THEN "accepted" ELSE "partially filled",
        amount |-> o.amount - actors.active[o]]

Lifecycle == INSTANCE OrderLifecycle WITH status <- [o \in Orders |-> Status(o)]

\* What clients see of their orders is what OrderLifecycle promises.
ImplementsLifecycle == Lifecycle!Spec
=============================================================================
