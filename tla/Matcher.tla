------------------------------ MODULE Matcher ------------------------------
(***************************************************************************)
(* Recovery of the matcher's order books.  Commands are stored in a queue; *)
(* MatcherActor reads it and forwards each command to the order book actor *)
(* of its pair, and now and then asks one of the books for a snapshot.     *)
(* After a restart each book starts from its last snapshot, and the queue  *)
(* is read again from the oldest of them.                                  *)
(*                                                                         *)
(* The n-th command of the queue has offset n - 1.  An offset of -1 stands *)
(* for "none yet" as in the code.  The offset of a command is also its     *)
(* timestamp.                                                              *)
(***************************************************************************)
EXTENDS OrderBook, FiniteSets

CONSTANTS
    Pairs,
    KeyRank,            \* the order of the pairs' keys
    Orders,             \* what users may place
    SnapshotsInterval,  \* settings.snapshotsInterval
    SnapshotOffset,     \* a pair's key.hashCode % interval
    NoBook, NoSnapshot,
    MaxEvents,          \* bound on the length of the queue
    MaxRestarts         \* bound on the number of restarts

ASSUME IntervalAssumption ==
    /\ SnapshotsInterval \in Nat \ {0, 1}
    /\ SnapshotOffset \in [Pairs -> 0 .. SnapshotsInterval - 1]

ASSUME KeyRankAssumption == KeyRank \in [Pairs -> Nat]

\* Order.isValid lets nothing else in.
ASSUME OrdersAssumption ==
    \A o \in Orders :
        /\ o.pair \in Pairs /\ o.side \in {"buy", "sell"} /\ o.expiration \in Nat
        /\ o.price \in Nat \ {0} /\ o.amount \in Nat \ {0} /\ Settled(o.amount, o.price) > 0

\* What a book holds, what its store keeps, and the state of its actor.
Books == [{"buy", "sell"} -> Seq([order : Orders, amount : Nat])]
Snapshots == [nr : Int, book : Books]
BookActors == [live : BOOLEAN, book : Books, lastProcessed : Int, lastSaved : Int,
               saving : Snapshots \cup {NoSnapshot}]

ASSUME NothingAssumption == NoSnapshot \notin Snapshots /\ NoBook \notin BookActors

VARIABLES
    queue,       \* LocalQueueStore: the commands stored so far
    oldestIdx,   \* LocalQueueStore: commands below it are deleted
    journal,     \* the pairs of the OrderBookCreated that are written
    journalling, \* those of persistAsync that are not yet
    stored,      \* MatcherSnapshotStore: the last snapshot of each pair
    unread,      \* LocalMatcherQueue.lastUnreadOffset
    matcher,     \* MatcherActor
    books,       \* the order book actors, by pair
    inbox,       \* what MatcherActor sent to each of them
    updates,     \* the OrderBookSnapshotUpdated on their way to MatcherActor
    trades,      \* auxiliary: every OrderExecuted there ever was
    restarts     \* for the bound

stores == <<queue, journal, stored>>
vars == <<queue, oldestIdx, journal, journalling, stored, unread, matcher, books,
          inbox, updates, trades, restarts>>

Later(a, b) == IF a > b THEN a ELSE b

----------------------------------------------------------------------------
\* SnapshotsState

\* The first offset after last at which pair p is due, counted from nr on.
NextSnapshotOffset(p, nr, last) ==
    LET z == (IF nr < 0 THEN 0 ELSE nr \div SnapshotsInterval) * SnapshotsInterval
               + SnapshotOffset[p]
    IN  IF z > last THEN z
        ELSE z + SnapshotsInterval * ((last - z) \div SnapshotsInterval + 1)

\* Bug: a pair is due at the first multiple, which its snapshot may cover.
InitiallyNearest_NotShifted(offsets) ==
    {<<x[1], NextSnapshotOffset(x[1], x[2], 0)>> : x \in offsets}

\* SnapshotsState.apply, when the snapshots of all books are known.
InitiallyNearest(offsets) ==
    {<<x[1], x[2] + NextSnapshotOffset(x[1], x[2], 0)>> : x \in offsets}

\* The head of nearestSnapshotOffsets.
Nearest(nearest) ==
    CHOOSE x \in nearest : \A y \in nearest :
      x[2] < y[2] \/ (x[2] = y[2] /\ KeyRank[x[1]] <= KeyRank[y[1]])

\* requiredSnapshot: at most one pair at a time.
Required(m, offset) ==
    IF offset > m.startOffset /\ m.nearest # {} /\ offset >= Nearest(m.nearest)[2]
    THEN {Nearest(m.nearest)} ELSE {}

----------------------------------------------------------------------------
EmptySnapshot == [nr |-> -1, book |-> EmptyBook]

\* An order book actor that has not recovered yet.
Recovering == [live |-> FALSE, book |-> EmptyBook, lastProcessed |-> -1,
               lastSaved |-> -1, saving |-> NoSnapshot]

\* Bug: it waits for the books' reports even if there are no books.
RecoveredMatcher_Waits(pairs) ==
    [working |-> FALSE, offsets |-> {}, lastProcessedNr |-> 0,
     startOffset |-> -1, nearest |-> {}]

\* MatcherActor as it is when it has recovered with these pairs in its journal.
\* Without any it starts at once, from SnapshotsState.empty.
RecoveredMatcher(pairs) ==
    [working |-> pairs = {}, offsets |-> {}, lastProcessedNr |-> 0,
     startOffset |-> -1, nearest |-> {}]

Init ==
    /\ queue = <<>> /\ oldestIdx = 0
    /\ journal = {} /\ journalling = {}
    /\ stored = [p \in Pairs |-> EmptySnapshot]
    /\ unread = 0
    /\ matcher = RecoveredMatcher({})
    /\ books = [p \in Pairs |-> NoBook]
    /\ inbox = [p \in Pairs |-> <<>>]
    /\ updates = {}
    /\ trades = {} /\ restarts = 0

----------------------------------------------------------------------------
Placed == {queue[i].order : i \in {j \in DOMAIN queue : queue[j].type = "placed"}}
Canceled == {queue[i].order : i \in {j \in DOMAIN queue : queue[j].type = "canceled"}}

\* The API stores a command while the matcher works.  An order is placed once
\* and has not expired then; it is cancelled by its owner or by a timer.
Enqueue ==
    /\ matcher.working
    /\ Len(queue) < MaxEvents
    /\ \/ \E o \in Orders \ Placed :
            /\ o.expiration > Len(queue)
            /\ queue' = Append(queue, [type |-> "placed", order |-> o])
       \/ \E o \in Placed \ Canceled :
            queue' = Append(queue, [type |-> "canceled", order |-> o])
    /\ UNCHANGED <<oldestIdx, journal, journalling, stored, unread, matcher, books,
                   inbox, updates, trades, restarts>>

\* The next offset getFrom returns; deleted ones are not there.
NextOffset == Later(unread, oldestIdx)
PairOf(offset) == queue[offset + 1].order.pair

SendTo(box, p, message) == [box EXCEPT ![p] = Append(@, message)]
EventMessage(offset) == [type |-> "event", offset |-> offset]
SaveMessage(offset) == [type |-> "save", offset |-> offset]

\* runFor with a book: the command first, then SaveSnapshot to the book due.
ForwardToOrderBook(p, offset) ==
    LET due == Required(matcher, offset)
        box == SendTo(inbox, p, EventMessage(offset))
    IN  /\ inbox' = [q \in Pairs |->
                       IF \E x \in due : x[1] = q
                       THEN Append(box[q], SaveMessage(offset)) ELSE box[q]]
        /\ matcher' = [matcher EXCEPT !.lastProcessedNr = Later(@, offset),
                                      !.nearest = @ \ due]
        /\ UNCHANGED <<books, journalling>>

\* runFor without one.
ForwardToNewBook(p, offset) ==
    /\ books' = [books EXCEPT ![p] = Recovering]
    /\ journalling' = journalling \cup {p}
    /\ inbox' = SendTo(inbox, p, EventMessage(offset))
    /\ matcher' = [matcher EXCEPT !.lastProcessedNr = Later(@, offset)]

\* MatcherActor handles the next command of the queue.
MatcherHandlesEvent ==
    /\ matcher.working
    /\ NextOffset < Len(queue)
    /\ unread' = NextOffset + 1
    /\ LET p == PairOf(NextOffset)
       IN  IF books[p] = NoBook THEN ForwardToNewBook(p, NextOffset)
           ELSE ForwardToOrderBook(p, NextOffset)
    /\ UNCHANGED <<oldestIdx, stores, updates, trades, restarts>>

\* The plugin has written an OrderBookCreated.
JournalWritten(p) ==
    /\ p \in journalling
    /\ journalling' = journalling \ {p}
    /\ journal' = journal \cup {p}
    /\ UNCHANGED <<queue, oldestIdx, stored, unread, matcher, books, inbox, updates,
                   trades, restarts>>

\* receiveRecover of a book: it has its last snapshot and tells MatcherActor.
BookRecovered(p) ==
    /\ books[p] # NoBook /\ ~books[p].live
    /\ books' = [books EXCEPT ![p] =
                   [live |-> TRUE, book |-> stored[p].book, lastProcessed |-> stored[p].nr,
                    lastSaved |-> stored[p].nr, saving |-> NoSnapshot]]
    /\ updates' = updates \cup {<<p, stored[p].nr>>}
    /\ UNCHANGED <<stores, oldestIdx, journalling, unread, matcher, inbox, trades, restarts>>

\* Bug: only a command that was the last one handled is skipped.
IsNew_NotLast(b, offset) == offset # b.lastProcessed

IsNew(b, offset) == offset > b.lastProcessed

\* executeCommands
HandleEvent(p, offset) ==
    IF IsNew(books[p], offset)
    THEN \E r \in {Handle(books[p].book, queue[offset + 1], offset)} :
           /\ books' = [books EXCEPT ![p].book = r.book, ![p].lastProcessed = offset]
           /\ trades' = trades \cup Executed(r.events)
    ELSE UNCHANGED <<books, trades>>

\* SaveSnapshot: the book as it is now, under the offset it was asked for at.
HandleSaveSnapshot(p, offset) ==
    LET b == books[p] IN
    /\ books' = IF b.saving = NoSnapshot /\ b.lastSaved < offset
                THEN [books EXCEPT ![p].saving = [nr |-> offset, book |-> b.book]]
                ELSE books
    /\ UNCHANGED trades

\* A book that has recovered handles its next message.
BookHandles(p) ==
    /\ books[p] # NoBook /\ books[p].live
    /\ inbox[p] # <<>>
    /\ inbox' = [inbox EXCEPT ![p] = Tail(@)]
    /\ LET message == Head(inbox[p])
       IN  IF message.type = "event" THEN HandleEvent(p, message.offset)
           ELSE HandleSaveSnapshot(p, message.offset)
    /\ UNCHANGED <<stores, oldestIdx, journalling, unread, matcher, updates, restarts>>

\* The assumption that the record of a new pair is written before any snapshot
\* asked for after it was sent.
PromptJournal == journalling = {}

\* The store has written a snapshot, and SaveSnapshotSuccess is handled.
SnapshotSaved(p) ==
    /\ books[p] # NoBook /\ books[p].saving # NoSnapshot
    /\ PromptJournal
    /\ stored' = [stored EXCEPT ![p] = books[p].saving]
    /\ books' = [books EXCEPT ![p].lastSaved = books[p].saving.nr, ![p].saving = NoSnapshot]
    /\ updates' = updates \cup {<<p, books[p].saving.nr>>}
    /\ UNCHANGED <<queue, oldestIdx, journal, journalling, unread, matcher, inbox, trades,
                   restarts>>

\* Bug: consumption starts from the newest snapshot.
StartOffset_Newest(offsets) ==
    CHOOSE n \in {x[2] : x \in offsets} : \A x \in offsets : x[2] <= n

\* oldestEventNr: the offset of the oldest snapshot.
StartOffset(offsets) ==
    CHOOSE n \in {x[2] : x \in offsets} : \A x \in offsets : n <= x[2]

\* collectOrderBooks and, with the last book, becomeWorking and startConsume:
\* what is below the start offset is deleted from the queue.
CollectOrderBook(x) ==
    LET offsets == matcher.offsets \cup {x}
        last == {y[1] : y \in offsets} = {p \in Pairs : books[p] # NoBook}
        from == StartOffset(offsets) + 1
    IN  IF last
        THEN /\ matcher' = [matcher EXCEPT !.working = TRUE,
                                           !.offsets = {},
                                           !.startOffset = matcher.lastProcessedNr,
                                           !.nearest = InitiallyNearest(offsets)]
             /\ unread' = from
             /\ oldestIdx' = Later(oldestIdx, from)
        ELSE /\ matcher' = [matcher EXCEPT !.offsets = offsets]
             /\ UNCHANGED <<unread, oldestIdx>>

\* MatcherActor handles an OrderBookSnapshotUpdated.
MatcherHandlesUpdate(x) ==
    /\ x \in updates
    /\ updates' = updates \ {x}
    /\ IF matcher.working
       THEN /\ matcher' = [matcher EXCEPT !.nearest = @ \cup
                             {<<x[1], NextSnapshotOffset(x[1], x[2], matcher.lastProcessedNr)>>}]
            /\ UNCHANGED <<unread, oldestIdx>>
       ELSE CollectOrderBook(x)
    /\ UNCHANGED <<stores, journalling, books, inbox, trades, restarts>>

\* The process dies and starts again: MatcherActor replays its journal and makes
\* the actors of the pairs in it.  Without any it consumes from the beginning.
Restart ==
    /\ restarts < MaxRestarts
    /\ restarts' = restarts + 1
    /\ journalling' = {}
    /\ matcher' = RecoveredMatcher(journal)
    /\ books' = [p \in Pairs |-> IF p \in journal THEN Recovering ELSE NoBook]
    /\ inbox' = [p \in Pairs |-> <<>>]
    /\ updates' = {}
    /\ unread' = 0
    /\ UNCHANGED <<stores, oldestIdx, trades>>

\* What the actors, the queue's reader and the stores do by themselves.
Step ==
    \/ MatcherHandlesEvent
    \/ \E p \in Pairs :
         JournalWritten(p) \/ BookRecovered(p) \/ BookHandles(p) \/ SnapshotSaved(p)
    \/ \E x \in updates : MatcherHandlesUpdate(x)

Next == Enqueue \/ Restart \/ Step

Spec == Init /\ [][Next]_vars

\* Some mailbox is read or some write ends as long as there is one: dispatchers
\* and futures stop for good only with the process.
FairSpec == Spec /\ WF_vars(Step)

----------------------------------------------------------------------------
\* What the commands for a pair up to an offset make of an empty book.
Replay(p, offset) ==
    LET after[n \in 0 .. Len(queue)] ==
          IF n = 0 THEN EmptyBook
          ELSE IF queue[n].order.pair = p THEN CHOOSE b \in {Handle(a, queue[n], n - 1).book : a \in {after[n - 1]}} : TRUE
          ELSE after[n - 1]
    IN  after[offset + 1]

LiveBooks == {p \in Pairs : books[p] # NoBook /\ books[p].live}

\* A book is what the commands up to the last one it handled make of an empty
\* book, and so is each durable snapshot for the offset it is labelled with:
\* through any number of restarts no command is missing and none counts twice.
BookIsReplay ==
    /\ \A p \in LiveBooks : books[p].book = Replay(p, books[p].lastProcessed)
    /\ \A p \in Pairs : stored[p].book = Replay(p, stored[p].nr)

\* What was read from the queue since the start is handled by its book, is in
\* its snapshot, or on its way to it.
NothingSkipped ==
    matcher.working =>
      \A n \in 0 .. NextOffset - 1 : n < Len(queue) =>
        LET p == PairOf(n) IN
        /\ books[p] # NoBook
        /\ \/ n <= stored[p].nr \/ n <= books[p].lastProcessed
           \/ \E i \in DOMAIN inbox[p] : inbox[p][i] = EventMessage(n)

\* No book drops out of the rotation of snapshots: it is due at some offset, or
\* asked for a snapshot it will not ignore, saving one, or about to report.
NoBookForgotten ==
    matcher.working =>
      \A p \in LiveBooks :
        \/ \E x \in matcher.nearest \cup updates : x[1] = p
        \/ \E i \in DOMAIN inbox[p] : /\ inbox[p][i].type = "save"
                                     /\ inbox[p][i].offset > books[p].lastSaved
        \/ books[p].saving # NoSnapshot

\* No order is executed for more than its amount, over the distinct executions
\* of all lives of the process (a replayed one is the same one).
NoOrderOverfilled ==
    \A o \in Placed :
      LET own == {t \in trades : o \in {t.submitted, t.counter}}
      IN  MapThenSumSet(LAMBDA t : t.amount, own) <= o.amount

\* Each execution moves some of both assets, so that a transaction can be made
\* of it, at a price within both orders.
EachTradeSettles ==
    \A t \in trades :
      /\ t.amount > 0 /\ Settled(t.amount, t.counter.price) > 0
      /\ \E buy, sell \in {t.submitted, t.counter} :
           buy.side = "buy" /\ sell.side = "sell" /\ sell.price <= buy.price

\* What was executed can be settled.
TradesSettle == NoOrderOverfilled /\ EachTradeSettles

\* The offset at which an order was placed.
PlacedAt(o) == CHOOSE i \in DOMAIN queue : queue[i] = [type |-> "placed", order |-> o]

\* Price-time priority: of two orders of a side the one ahead has the better
\* price, or the same price and was placed first.  What is left of a partly
\* filled order keeps its place.  And the sides do not cross: orders that could
\* be matched have been.
PriceTimePriority ==
    \A p \in LiveBooks :
      /\ \A side \in {"buy", "sell"} :
           LET s == books[p].book[side] IN
           \A i, j \in DOMAIN s : i < j =>
             /\ IsAhead(s[i], s[j])
             /\ s[i].order.price = s[j].order.price => PlacedAt(s[i].order) < PlacedAt(s[j].order)
      /\ \A bid \in ToSet(books[p].book["buy"]), ask \in ToSet(books[p].book["sell"]) :
           bid.order.price < ask.order.price

\* What rests in a book is of its pair and side, in the form an order has, and
\* not too small to be executed at its own price: every order that matches
\* such a one would be cancelled against it.
RestingIsValid ==
    \A p \in LiveBooks, side \in {"buy", "sell"} :
      \A i \in DOMAIN books[p].book[side] :
        LET lo == books[p].book[side][i] IN
        /\ lo.order.pair = p /\ lo.order.side = side
        /\ lo.amount \in 1 .. lo.order.amount
        /\ Settled(lo.amount, lo.order.price) > 0

\* Everything in the queue has been handled by its book.
AllHandled ==
    /\ matcher.working
    /\ \A n \in 0 .. Len(queue) - 1 :
         books[PairOf(n)] # NoBook /\ n <= books[PairOf(n)].lastProcessed

\* Once no more commands come and the process stays up, every command is
\* handled, whatever was lost at the restarts.
CatchesUp == <>[]AllHandled
=============================================================================
