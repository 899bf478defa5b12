----------------------------- MODULE OrderBook -----------------------------
(***************************************************************************)
(* The order book of one asset pair: how an order is matched.  A side is   *)
(* the sequence of its limit orders, best price first and oldest first     *)
(* within a price: the levels of the TreeMap one after the other, none of  *)
(* which is ever empty.  Amounts are in the amount asset; PriceConstant    *)
(* units of it cost one price.  Fees are left out: they follow from the    *)
(* amounts.                                                                *)
(***************************************************************************)
EXTENDS Integers, Sequences, FiniteSets, SequencesExt

CONSTANT PriceConstant   \* Order.PriceConstant, 10^8 in the code

ASSUME PriceConstantAssumption == PriceConstant \in Nat \ {0}

CeilDiv(a, b) == (a + b - 1) \div b

\* A limit order: what remains of an order.
LimitOrder(o) == [order |-> o, amount |-> o.amount]

\* What amount a costs at price p, and the smallest amount that costs as much.
Settled(a, p) == (a * p) \div PriceConstant
CorrectedAmount(a, p) == CeilDiv(Settled(a, p) * PriceConstant, p)

MinimalAmount(p) == CeilDiv(PriceConstant, p)

\* LimitOrder.isValid(counterPrice).  One of the last two conjuncts is about
\* what is spent, the other about what is received, whatever the side.
IsValidAt(lo, p) ==
    /\ lo.amount > 0
    /\ lo.amount >= MinimalAmount(p)
    /\ Settled(lo.amount, lo.order.price) > 0
    /\ CorrectedAmount(lo.amount, lo.order.price) > 0

\* Bug: whatever is left may rest.
IsValid_Positive(lo) == lo.amount > 0

IsValid(lo) == IsValidAt(lo, lo.order.price)

\* Bug: only the submitted order's amount counts.
ExecutedAmount_Submitted(submitted, counter) ==
    CorrectedAmount(submitted.amount, counter.order.price)

\* LimitOrder.executedAmount: both sides at the price of the counter order.
ExecutedAmount(submitted, counter) ==
    LET a == CorrectedAmount(submitted.amount, counter.order.price)
        b == CorrectedAmount(counter.amount, counter.order.price)
    IN  IF a < b THEN a ELSE b

\* OrderExecuted's remaining amounts.
Remaining(lo, executed) ==
    [lo EXCEPT !.amount = IF @ > executed THEN @ - executed ELSE 0]

Expired(lo, ts) == lo.order.expiration < ts

----------------------------------------------------------------------------
CanMatch(submitted, counter) ==
    IF submitted.order.side = "buy"
    THEN submitted.order.price >= counter.order.price
    ELSE submitted.order.price <= counter.order.price

\* Whether a is ahead of a newcomer b of its side.
IsAhead(a, b) ==
    IF b.order.side = "buy"
    THEN a.order.price >= b.order.price
    ELSE a.order.price <= b.order.price

\* A newcomer goes to the end of the level of its price.
Insert(side, lo) ==
    InsertAt(side, Cardinality({i \in DOMAIN side : IsAhead(side[i], lo)}) + 1, lo)

\* The state of doMatch: what is left to match, both sides, the events.
Matching(lo, own, counter) ==
    [submitted |-> lo, own |-> own, counter |-> counter, events |-> <<>>, done |-> FALSE]

\* model/Events
OrderAdded(lo) == [type |-> "added", lo |-> lo]
OrderCanceled(lo, unmatchable) == [type |-> "canceled", lo |-> lo, unmatchable |-> unmatchable]
OrderExecuted(submitted, counter, ts) ==
    [type |-> "executed", submitted |-> submitted, counter |-> counter,
     amount |-> ExecutedAmount(submitted, counter), ts |-> ts]

\* Bug: a partly filled counter order loses its place in its level.
ReplaceBest_ToTheEnd(side, lo) == Insert(Tail(side), lo)

\* What is left of the best order stands where it stood.
ReplaceBest(side, lo) == <<lo>> \o Tail(side)

\* The branch of doMatch that executes.  When something valid remains of the
\* counter order, what remains of the submitted one is cancelled.
Execute(m, ts) ==
    LET counter     == Head(m.counter)
        x           == OrderExecuted(m.submitted, counter, ts)
        counterLeft == Remaining(counter, x.amount)
        left        == Remaining(m.submitted, x.amount)
        n == [m EXCEPT !.submitted = left, !.events = Append(@, x)]
    IN  IF IsValid(counterLeft)
        THEN [n EXCEPT !.counter = ReplaceBest(@, counterLeft), !.done = TRUE,
                       !.events = IF IsValid(left) THEN Append(@, OrderCanceled(left, TRUE)) ELSE @]
        ELSE [n EXCEPT !.counter = Tail(@), !.done = ~IsValid(left)]

\* One turn of doMatch.
DoMatch(m, ts) ==
    LET Ends(event) == [m EXCEPT !.events = Append(@, event), !.done = TRUE] IN
    IF Expired(m.submitted, ts) THEN Ends(OrderCanceled(m.submitted, FALSE))
    ELSE IF m.counter = <<>> \/ ~CanMatch(m.submitted, Head(m.counter))
    THEN [Ends(OrderAdded(m.submitted)) EXCEPT !.own = Insert(@, m.submitted)]
    ELSE IF ~IsValidAt(m.submitted, Head(m.counter).order.price)
    THEN Ends(OrderCanceled(m.submitted, TRUE))
    ELSE IF Expired(Head(m.counter), ts)
    THEN [m EXCEPT !.counter = Tail(@), !.events = Append(@, OrderCanceled(Head(m.counter), FALSE))]
    ELSE Execute(m, ts)

----------------------------------------------------------------------------
Opposite(side) == IF side = "buy" THEN "sell" ELSE "buy"

EmptyBook == [side \in {"buy", "sell"} |-> <<>>]

\* A turn of a matching that has not ended.  (What TLC chooses from a singleton it
\* evaluates once.)
Turn(m, ts) ==
    CHOOSE r \in {IF n.done THEN n ELSE DoMatch(n, ts) : n \in {m}} : TRUE

\* The matching of o after each turn.
Turns(book, o, ts) ==
    LET counter == book[Opposite(o.side)]
        turns[i \in 0 .. Len(counter) + 1] ==
          IF i = 0 THEN Matching(LimitOrder(o), book[o.side], counter) ELSE Turn(turns[i - 1], ts)
    IN  turns

\* OrderBook.add.  A turn ends the matching or removes a counter order, so one
\* turn more than there are counter orders is enough.
AddOrder(book, o, ts) ==
    LET Result(m) ==
          [book |-> [side \in {"buy", "sell"} |-> IF side = o.side THEN m.own ELSE m.counter],
           events |-> m.events]
    IN  CHOOSE r \in {Result(m) : m \in {Turns(book, o, ts)[Len(book[Opposite(o.side)]) + 1]}} : TRUE

\* OrderBook.cancel; an order that is not there is not an error.
CancelOrder(book, o) ==
    LET places == {i \in DOMAIN book[o.side] : book[o.side][i].order = o}
        place  == CHOOSE i \in places : TRUE
    IN  IF places = {} THEN [book |-> book, events |-> <<>>]
        ELSE [book   |-> [book EXCEPT ![o.side] = RemoveAt(@, place)],
              events |-> <<OrderCanceled(book[o.side][place], FALSE)>>]

\* What a command does to a book, and the events it publishes.
Handle(book, event, ts) ==
    IF event.type = "placed" THEN AddOrder(book, event.order, ts)
    ELSE CancelOrder(book, event.order)

\* The executions among some events, by their orders.
Executed(events) ==
    {[submitted |-> e.submitted.order, counter |-> e.counter.order, amount |-> e.amount, ts |-> e.ts]
       : e \in {x \in ToSet(events) : x.type = "executed"}}
=============================================================================
