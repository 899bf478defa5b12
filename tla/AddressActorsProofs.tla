------------------------ MODULE AddressActorsProofs ------------------------
(***************************************************************************)
(* What the actors of the accounts believe, for any orders, owners,        *)
(* balances and limits, and for any number of restarts.                    *)
(***************************************************************************)
EXTENDS AddressActors, OrderBookProofs

-----------------------------------------------------------------------------
(* Inductions, with the set of what is fine as a parameter *)

\* A set with 0 that every step up to n stays in has all up to n.
LEMMA CountUp ==
  ASSUME NEW n \in Nat, NEW S, 0 \in S, \A i \in 1 .. n : i - 1 \in S => i \in S
  PROVE  0 .. n \subseteq S
  <1> DEFINE Bad == {i \in 0 .. n : i \notin S}
  <1>1. ASSUME Bad # {} PROVE FALSE
    <2>1. Bad \subseteq Nat
      OBVIOUS
    <2>2. PICK i \in Bad : \A k \in Bad : i <= k
      <3> HIDE DEF Bad
      <3> QED
        BY <1>1, <2>1, Least
    <2>3. i \in 1 .. n /\ i - 1 \in 0 .. n
      OBVIOUS
    <2> QED
      BY <2>2, <2>3
  <1> QED
    BY <1>1

\* Whatever holds of a matching at its start and is kept by each turn holds at
\* its end.
LEMMA MatchingInduction ==
  ASSUME NEW b, NEW o, NEW ts, Len(b[Opposite(o.side)]) \in Nat, NEW S,
         Matching(LimitOrder(o), b[o.side], b[Opposite(o.side)]) \in S,
         \A m \in S : ~m.done => DoMatch(m, ts) \in S
  PROVE  Turns(b, o, ts)[Len(b[Opposite(o.side)]) + 1] \in S
  <1> DEFINE N == Len(b[Opposite(o.side)]) + 1
             t == Turns(b, o, ts)
             Fine == {i \in 0 .. N : t[i] \in S}
  <1>1. N \in Nat /\ N = Len(b[Opposite(o.side)]) + 1
    OBVIOUS
  <1>2. t = [i \in 0 .. N |->
               IF i = 0 THEN Matching(LimitOrder(o), b[o.side], b[Opposite(o.side)])
               ELSE Turn(t[i - 1], ts)]
    BY TurnsAre
  <1> HIDE DEF t, N
  <1>3. 0 \in Fine
    BY <1>1, <1>2
  <1>4. ASSUME NEW i \in 1 .. N, i - 1 \in Fine PROVE i \in Fine
    <2>1. i \in 0 .. N /\ i # 0
      BY <1>1
    <2>2. t[i] = Turn(t[i - 1], ts)
      BY <1>2, <2>1
    <2>3. t[i] = IF t[i - 1].done THEN t[i - 1] ELSE DoMatch(t[i - 1], ts)
      BY <2>2, TurnIs
    <2> QED
      BY <1>4, <2>1, <2>3
  <1> HIDE DEF Fine
  <1>5. 0 .. N \subseteq Fine
    BY <1>1, <1>3, <1>4, CountUp
  <1>6. N \in Fine
    BY <1>1, <1>5
  <1> QED
    BY <1>6 DEF Fine, t, N

-----------------------------------------------------------------------------
(* What a turn of a matching does, case by case *)

\* m has the fields of a matching; the matching with given ones.
IsMatching(m) ==
  m = [submitted |-> m.submitted, own |-> m.own, counter |-> m.counter,
       events |-> m.events, done |-> m.done]

Made(submitted, own, counter, published, done) ==
  [submitted |-> submitted, own |-> own, counter |-> counter, events |-> published, done |-> done]

Best(m) == Head(m.counter)

\* What is submitted is cancelled, or rests.
Drops(m, ts, n) ==
  \E unmatchable \in BOOLEAN :
    n = Made(m.submitted, m.own, m.counter, Append(m.events, OrderCanceled(m.submitted, unmatchable)), TRUE)

Adds(m, ts, n) ==
  n = Made(m.submitted, Insert(m.own, m.submitted), m.counter, Append(m.events, OrderAdded(m.submitted)), TRUE)

\* The best order of the other side has expired.
DropsBest(m, ts, n) ==
  /\ m.counter # <<>>
  /\ n = Made(m.submitted, m.own, Tail(m.counter), Append(m.events, OrderCanceled(Best(m), FALSE)), m.done)

\* The two are executed.
Traded(m, ts) == OrderExecuted(m.submitted, Best(m), ts)
Left(m, ts) == Remaining(m.submitted, Traded(m, ts).amount)
BestLeft(m, ts) == Remaining(Best(m), Traded(m, ts).amount)

Trades(m, ts, n) ==
  /\ m.counter # <<>> /\ IsValidAt(m.submitted, Best(m).order.price)
  /\ \/ /\ IsValid(BestLeft(m, ts)) /\ IsValid(Left(m, ts))
        /\ n = Made(Left(m, ts), m.own, ReplaceBest(m.counter, BestLeft(m, ts)),
                    Append(Append(m.events, Traded(m, ts)), OrderCanceled(Left(m, ts), TRUE)), TRUE)
     \/ /\ IsValid(BestLeft(m, ts)) /\ ~IsValid(Left(m, ts))
        /\ n = Made(Left(m, ts), m.own, ReplaceBest(m.counter, BestLeft(m, ts)),
                    Append(m.events, Traded(m, ts)), TRUE)
     \/ /\ ~IsValid(BestLeft(m, ts))
        /\ n = Made(Left(m, ts), m.own, Tail(m.counter),
                    Append(m.events, Traded(m, ts)), ~IsValid(Left(m, ts)))

\* When the two prices meet, Execute trades the best of the other side.
LEMMA ExecuteTrades ==
  ASSUME NEW m, IsMatching(m), NEW ts, m.counter # <<>>, IsValidAt(m.submitted, Best(m).order.price)
  PROVE  Trades(m, ts, Execute(m, ts))
  <1> DEFINE x == Traded(m, ts)
             left == Left(m, ts)
             cLeft == BestLeft(m, ts)
             ev == Append(m.events, x)
             k == [m EXCEPT !.submitted = left, !.events = ev]
             n == Execute(m, ts)
             events2 == IF IsValid(left) THEN Append(ev, OrderCanceled(left, TRUE)) ELSE ev
  <1>1. n = IF IsValid(cLeft)
            THEN [k EXCEPT !.counter = ReplaceBest(@, cLeft), !.done = TRUE,
                           !.events = IF IsValid(left) THEN Append(@, OrderCanceled(left, TRUE)) ELSE @]
            ELSE [k EXCEPT !.counter = Tail(@), !.done = ~IsValid(left)]
    BY DEF Execute, Traded, Left, BestLeft, Best
  <1> HIDE DEF left, cLeft, x, n, ev
  <1>2. k = Made(left, m.own, m.counter, ev, m.done)
    <2>1. m = [submitted |-> m.submitted, own |-> m.own, counter |-> m.counter,
               events |-> m.events, done |-> m.done]
      BY DEF IsMatching
    <2>2. k = [m EXCEPT !.submitted = left, !.events = ev]
      OBVIOUS
    <2> HIDE DEF k
    <2>3. k = [submitted |-> left, own |-> m.own, counter |-> m.counter, events |-> ev, done |-> m.done]
      BY <2>1, <2>2, MatchingExcept
    <2> QED
      BY <2>3 DEF Made
  <1>3. k.counter = m.counter /\ k.events = ev /\ k.own = m.own /\ k.submitted = left
    BY <1>2 DEF Made
  <1>4. n = IF IsValid(cLeft)
            THEN [k EXCEPT !.counter = ReplaceBest(m.counter, cLeft), !.done = TRUE, !.events = events2]
            ELSE [k EXCEPT !.counter = Tail(m.counter), !.done = ~IsValid(left)]
    <2> HIDE DEF k
    <2> QED
      BY <1>1, <1>3
  <1> HIDE DEF k
  <1>5. CASE IsValid(cLeft)
    <2> DEFINE counter == ReplaceBest(m.counter, cLeft)
    <2> HIDE DEF counter, events2
    <2>1. n = [k EXCEPT !.counter = counter, !.done = TRUE, !.events = events2]
      BY <1>4, <1>5 DEF counter
    <2>2. n = Made(left, m.own, counter, events2, TRUE)
      BY <1>2, <2>1, MatchingExcept DEF Made
    <2> QED
      BY <1>5, <2>2 DEF counter, events2, left, cLeft, ev, x, n, Trades
  <1>6. CASE ~IsValid(cLeft)
    <2> DEFINE counter == Tail(m.counter)
               done == ~IsValid(left)
    <2> HIDE DEF counter, done
    <2>1. n = [k EXCEPT !.counter = counter, !.done = done]
      BY <1>4, <1>6 DEF counter, done
    <2>2. n = Made(left, m.own, counter, ev, done)
      BY <1>2, <2>1, MatchingExcept DEF Made
    <2> QED
      BY <1>6, <2>2 DEF counter, done, left, cLeft, ev, x, n, Trades
  <1> QED
    BY <1>5, <1>6

\* A turn of a matching (DoMatch) is one of four: it drops what is submitted, adds
\* it to its side, drops the best of the other side, or trades with it.
LEMMA TurnCases ==
  ASSUME NEW m, IsMatching(m), NEW ts
  PROVE  LET n == DoMatch(m, ts) IN
         Drops(m, ts, n) \/ Adds(m, ts, n) \/ DropsBest(m, ts, n) \/ Trades(m, ts, n)
  <1> DEFINE n == DoMatch(m, ts)
             Ends(event) == [m EXCEPT !.events = Append(@, event), !.done = TRUE]
  <1>1. ASSUME NEW e PROVE Ends(e) = Made(m.submitted, m.own, m.counter, Append(m.events, e), TRUE)
    <2> DEFINE ev == Append(m.events, e)
    <2>1. Ends(e) = [m EXCEPT !.events = ev, !.done = TRUE]
      BY DEF IsMatching
    <2> HIDE DEF ev, Ends
    <2>2. Ends(e) = Made(m.submitted, m.own, m.counter, ev, TRUE)
      BY <2>1, MatchingExcept DEF IsMatching, Made
    <2> QED
      BY <2>2 DEF ev
  <1>2. CASE Expired(m.submitted, ts)
    <2>1. n = Ends(OrderCanceled(m.submitted, FALSE))
      BY <1>2 DEF DoMatch
    <2> HIDE DEF n, Ends
    <2>2. Drops(m, ts, n)
      BY <1>1, <2>1 DEF Drops
    <2> QED
      BY <2>2 DEF n
  <1>3. CASE ~Expired(m.submitted, ts) /\ (m.counter = <<>> \/ ~CanMatch(m.submitted, Head(m.counter)))
    <2> DEFINE k == Ends(OrderAdded(m.submitted))
               own == Insert(m.own, m.submitted)
    <2>1. n = [k EXCEPT !.own = Insert(@, m.submitted)]
      BY <1>3 DEF DoMatch
    <2> HIDE DEF n, Ends, own
    <2>2. k = Made(m.submitted, m.own, m.counter, Append(m.events, OrderAdded(m.submitted)), TRUE)
      BY <1>1
    <2> HIDE DEF k
    <2>3. n = [k EXCEPT !.own = own]
      BY <2>1, <2>2 DEF Made, own
    <2>4. n = Made(m.submitted, own, m.counter, Append(m.events, OrderAdded(m.submitted)), TRUE)
      BY <2>2, <2>3, MatchingExcept DEF Made
    <2>5. Adds(m, ts, n)
      BY <2>4 DEF Adds, own
    <2> QED
      BY <2>5 DEF n
  <1>4. CASE /\ ~Expired(m.submitted, ts) /\ m.counter # <<>> /\ CanMatch(m.submitted, Head(m.counter))
             /\ ~IsValidAt(m.submitted, Head(m.counter).order.price)
    <2>1. n = Ends(OrderCanceled(m.submitted, TRUE))
      BY <1>4 DEF DoMatch
    <2> HIDE DEF n, Ends
    <2>2. Drops(m, ts, n)
      BY <1>1, <2>1 DEF Drops
    <2> QED
      BY <2>2 DEF n
  <1>5. CASE /\ ~Expired(m.submitted, ts) /\ m.counter # <<>> /\ CanMatch(m.submitted, Head(m.counter))
             /\ IsValidAt(m.submitted, Head(m.counter).order.price) /\ Expired(Head(m.counter), ts)
    <2> DEFINE ev == Append(m.events, OrderCanceled(Best(m), FALSE))
               counter == Tail(m.counter)
    <2>1. n = [m EXCEPT !.counter = counter, !.events = ev]
      BY <1>5 DEF DoMatch, Best, IsMatching
    <2> HIDE DEF n, ev, counter
    <2>2. n = Made(m.submitted, m.own, counter, ev, m.done)
      BY <2>1, MatchingExcept DEF IsMatching, Made
    <2>3. DropsBest(m, ts, n)
      BY <1>5, <2>2 DEF DropsBest, ev, counter
    <2> QED
      BY <2>3 DEF n
  <1>6. CASE /\ ~Expired(m.submitted, ts) /\ m.counter # <<>> /\ CanMatch(m.submitted, Head(m.counter))
             /\ IsValidAt(m.submitted, Head(m.counter).order.price) /\ ~Expired(Head(m.counter), ts)
    <2>1. n = Execute(m, ts)
      BY <1>6 DEF DoMatch
    <2>2. Trades(m, ts, n)
      BY <1>6, <2>1, ExecuteTrades DEF Best
    <2> QED
      BY <2>2
  <1> QED
    BY <1>2, <1>3, <1>4, <1>5, <1>6

-----------------------------------------------------------------------------
(* Types *)

Limits == LimitOrders(Orders)

Commands == [type : {"placed", "canceled"}, order : Orders]

Events ==
  [type : {"added"}, lo : Limits] \cup [type : {"canceled"}, lo : Limits, unmatchable : BOOLEAN]
    \cup [type : {"executed"}, submitted : Limits, counter : Limits, amount : Nat, ts : Int]

Books == [{"buy", "sell"} -> Seq(Limits)]

Matchings ==
  [submitted : Limits, own : Seq(Limits), counter : Seq(Limits), events : Seq(Events), done : BOOLEAN]

\* What the assumption says of each order.
LEMMA OrdersAreValid ==
  /\ IsFiniteSet(Orders)
  /\ \A o \in Orders : ValidOrder(o) /\ o.owner \in Owners /\ o.expiration \in Nat
  BY OrdersAssumption DEF ValidOrder, Positive

\* The events there are.
LEMMA EventsAre ==
  /\ \A lo \in Limits : OrderAdded(lo) \in Events
  /\ \A lo \in Limits, u \in BOOLEAN : OrderCanceled(lo, u) \in Events
  /\ \A s, c \in Limits, ts \in Int : OrderExecuted(s, c, ts) \in Events
  <1>1. ASSUME NEW s \in Limits, NEW c \in Limits, NEW ts \in Int
        PROVE  OrderExecuted(s, c, ts) \in Events
    <2>1. /\ s.amount \in Nat /\ c.amount \in Nat /\ c.order.price \in Positive
      BY OrdersAreValid DEF Limits, LimitOrders, ValidOrder
    <2>2. ExecutedAmount(s, c) \in Nat
      BY <2>1, CorrectedWithin DEF ExecutedAmount
    <2> QED
      BY <2>2 DEF OrderExecuted, Events
  <1> QED
    BY <1>1 DEF OrderAdded, OrderCanceled, Events

\* What remains of a limit order is one.
LEMMA RemainingTyped ==
  ASSUME NEW lo \in Limits, NEW a \in Nat
  PROVE  /\ Remaining(lo, a) \in Limits /\ Remaining(lo, a).order = lo.order
         /\ Remaining(lo, a).amount = IF lo.amount > a THEN lo.amount - a ELSE 0
  <1>1. lo = [order |-> lo.order, amount |-> lo.amount] /\ lo.order \in Orders /\ lo.amount \in Nat
    BY DEF Limits, LimitOrders
  <1>2. Remaining(lo, a) = [order |-> lo.order, amount |-> IF lo.amount > a THEN lo.amount - a ELSE 0]
    BY <1>1 DEF Remaining
  <1> QED
    BY <1>1, <1>2 DEF Limits, LimitOrders

\* Inserting in a sequence gives a sequence.
LEMMA InsertTyped ==
  ASSUME NEW S, NEW s \in Seq(S), NEW lo \in S
  PROVE  Insert(s, lo) \in Seq(S)
  <1> DEFINE A == {i \in DOMAIN s : IsAhead(s[i], lo)}
             k == Cardinality(A)
  <1>1. Len(s) \in Nat /\ DOMAIN s = 1 .. Len(s)
    OBVIOUS
  <1>2. IsFiniteSet(1 .. Len(s)) /\ Cardinality(1 .. Len(s)) = Len(s)
    BY <1>1, FS_Interval
  <1>3. k \in Nat /\ k <= Len(s)
    <2>1. A \subseteq 1 .. Len(s)
      BY <1>1
    <2> HIDE DEF A
    <2> QED
      BY <1>2, <2>1, FS_Subset, FS_CardinalityType
  <1>4. Insert(s, lo) = InsertAt(s, k + 1, lo)
    BY DEF Insert
  <1> HIDE DEF k
  <1>5. k + 1 \in 1 .. Len(s) + 1
    BY <1>1, <1>3
  <1> QED
    BY <1>4, <1>5, InsertAtElements

\* A turn keeps the types of a matching.
LEMMA TurnTyped ==
  ASSUME NEW m \in Matchings, NEW ts \in Int
  PROVE  DoMatch(m, ts) \in Matchings
  <1> DEFINE n == DoMatch(m, ts)
             x == Traded(m, ts)
             left == Left(m, ts)
             cLeft == BestLeft(m, ts)
  <1>1. /\ IsMatching(m) /\ m.submitted \in Limits /\ m.own \in Seq(Limits) /\ m.counter \in Seq(Limits)
        /\ m.events \in Seq(Events) /\ m.done \in BOOLEAN
    BY DEF Matchings, IsMatching
  <1>2. \A e \in Events : Append(m.events, e) \in Seq(Events)
    BY <1>1
  <1>3. ASSUME NEW a \in Limits, NEW own \in Seq(Limits), NEW c \in Seq(Limits),
               NEW ev \in Seq(Events), NEW d \in BOOLEAN
        PROVE  Made(a, own, c, ev, d) \in Matchings
    BY DEF Made, Matchings
  <1>4. m.counter # <<>> => Best(m) \in Limits /\ Tail(m.counter) \in Seq(Limits)
    BY <1>1 DEF Best
  <1>5. m.counter # <<>> => x \in Events /\ x.amount \in Nat
    <2>1. SUFFICES ASSUME m.counter # <<>> PROVE x \in Events /\ x.amount \in Nat
      OBVIOUS
    <2>2. x \in Events
      BY <1>1, <1>4, <2>1, EventsAre DEF Traded
    <2>3. x.type = "executed"
      BY DEF Traded, OrderExecuted
    <2> HIDE DEF x
    <2> QED
      BY <2>2, <2>3 DEF Events
  <1>6. m.counter # <<>> => left \in Limits /\ cLeft \in Limits /\ ReplaceBest(m.counter, cLeft) \in Seq(Limits)
    <2>1. SUFFICES ASSUME m.counter # <<>>
          PROVE left \in Limits /\ cLeft \in Limits /\ ReplaceBest(m.counter, cLeft) \in Seq(Limits)
      OBVIOUS
    <2>2. left \in Limits /\ cLeft \in Limits
      BY <1>1, <1>4, <1>5, <2>1, RemainingTyped DEF Left, BestLeft
    <2> HIDE DEF cLeft
    <2> QED
      BY <1>4, <2>1, <2>2 DEF ReplaceBest
  <1>7. \A lo \in Limits : IsValid(lo) \in BOOLEAN /\ (~IsValid(lo)) \in BOOLEAN
    BY DEF IsValid, IsValidAt
  <1>8. CASE Drops(m, ts, n)
    <2>1. PICK u \in BOOLEAN :
            n = Made(m.submitted, m.own, m.counter, Append(m.events, OrderCanceled(m.submitted, u)), TRUE)
      BY <1>8 DEF Drops
    <2> HIDE DEF n
    <2>2. Append(m.events, OrderCanceled(m.submitted, u)) \in Seq(Events)
      BY <1>1, <1>2, EventsAre
    <2>3. n \in Matchings
      BY <1>1, <1>3, <2>1, <2>2
    <2> QED
      BY <2>3 DEF n
  <1>9. CASE Adds(m, ts, n)
    <2> HIDE DEF n
    <2>1. Append(m.events, OrderAdded(m.submitted)) \in Seq(Events) /\ Insert(m.own, m.submitted) \in Seq(Limits)
      BY <1>1, <1>2, EventsAre, InsertTyped
    <2>2. n \in Matchings
      BY <1>1, <1>3, <1>9, <2>1 DEF Adds
    <2> QED
      BY <2>2 DEF n
  <1>10. CASE DropsBest(m, ts, n)
    <2> HIDE DEF n
    <2>1. m.counter # <<>> /\ Append(m.events, OrderCanceled(Best(m), FALSE)) \in Seq(Events)
      BY <1>2, <1>4, <1>10, EventsAre DEF DropsBest
    <2>2. n \in Matchings
      BY <1>1, <1>3, <1>4, <1>10, <2>1 DEF DropsBest
    <2> QED
      BY <2>2 DEF n
  <1>11. CASE Trades(m, ts, n)
    <2> HIDE DEF n, x, left, cLeft
    <2>1. m.counter # <<>>
      BY <1>11 DEF Trades
    <2>2. /\ Append(m.events, x) \in Seq(Events)
          /\ Append(Append(m.events, x), OrderCanceled(left, TRUE)) \in Seq(Events)
      <3>1. Append(m.events, x) \in Seq(Events)
        BY <1>2, <1>5, <2>1
      <3>2. OrderCanceled(left, TRUE) \in Events
        BY <1>6, <2>1, EventsAre
      <3> DEFINE ev == Append(m.events, x)
                 e == OrderCanceled(left, TRUE)
      <3>3. ev \in Seq(Events) /\ e \in Events
        BY <3>1, <3>2
      <3> HIDE DEF ev, e
      <3>4. Append(ev, e) \in Seq(Events)
        BY <3>3
      <3> QED
        BY <3>3, <3>4 DEF ev, e
    <2>3. IsValid(left) \in BOOLEAN /\ (~IsValid(left)) \in BOOLEAN
      <3>1. left \in Limits
        BY <1>6, <2>1
      <3> QED
        BY <1>7, <3>1, Zenon
    <2> DEFINE counter == ReplaceBest(m.counter, cLeft)
               rest == Tail(m.counter)
    <2>4. counter \in Seq(Limits) /\ rest \in Seq(Limits)
      BY <1>4, <1>6, <2>1
    <2>5. \/ n = Made(left, m.own, counter, Append(Append(m.events, x), OrderCanceled(left, TRUE)), TRUE)
          \/ n = Made(left, m.own, counter, Append(m.events, x), TRUE)
          \/ n = Made(left, m.own, rest, Append(m.events, x), ~IsValid(left))
      BY <1>11 DEF Trades, x, left, cLeft
    <2> DEFINE ev == Append(m.events, x)
               ev2 == Append(ev, OrderCanceled(left, TRUE))
               done == ~IsValid(left)
    <2>6. ev \in Seq(Events) /\ ev2 \in Seq(Events) /\ done \in BOOLEAN
      BY <2>2, <2>3
    <2> HIDE DEF counter, rest, ev, ev2, done
    <2>7. \/ n = Made(left, m.own, counter, ev2, TRUE)
          \/ n = Made(left, m.own, counter, ev, TRUE)
          \/ n = Made(left, m.own, rest, ev, done)
      BY <2>5 DEF ev, ev2, done
    <2>8. left \in Limits /\ m.own \in Seq(Limits)
      BY <1>1, <1>6, <2>1
    <2>9. n \in Matchings
      BY <1>3, <2>4, <2>6, <2>7, <2>8
    <2> QED
      BY <2>9 DEF n
  <1> QED
    BY <1>1, <1>8, <1>9, <1>10, <1>11, TurnCases

\* A cancellation finds its order on its side or does nothing.
CancelsAt(b, o, i, r) ==
  /\ i \in DOMAIN b[o.side] /\ b[o.side][i].order = o
  /\ r.book = [b EXCEPT ![o.side] = RemoveAt(b[o.side], i)]
  /\ r.events = <<OrderCanceled(b[o.side][i], FALSE)>>

CancelsNothing(b, o, r) ==
  r.book = b /\ r.events = <<>> /\ \A i \in DOMAIN b[o.side] : b[o.side][i].order # o

\* A cancellation takes an order from its place, or does nothing.
LEMMA CancelCases ==
  ASSUME NEW b, NEW o
  PROVE  CancelsNothing(b, o, CancelOrder(b, o)) \/ \E i : CancelsAt(b, o, i, CancelOrder(b, o))
  <1> DEFINE r == CancelOrder(b, o)
             own == b[o.side]
             places == {i \in DOMAIN own : own[i].order = o}
             place == CHOOSE i \in places : TRUE
  <1>1. CASE places = {}
    BY <1>1 DEF CancelOrder, CancelsNothing
  <1>2. CASE places # {}
    <2>1. place \in DOMAIN own /\ own[place].order = o
      BY <1>2
    <2>2. /\ r.book = [b EXCEPT ![o.side] = RemoveAt(own, place)]
          /\ r.events = <<OrderCanceled(own[place], FALSE)>>
      BY <1>2 DEF CancelOrder
    <2> HIDE DEF place, r
    <2>3. CancelsAt(b, o, place, r)
      BY <2>1, <2>2 DEF CancelsAt
    <2> QED
      BY <2>3 DEF r
  <1> QED
    BY <1>1, <1>2

\* A command leaves a book and publishes events.
LEMMA HandleTyped ==
  ASSUME NEW b \in Books, NEW c \in Commands, NEW ts \in Int
  PROVE  Handle(b, c, ts).book \in Books /\ Handle(b, c, ts).events \in Seq(Events)
  <1> DEFINE o == c.order
             r == Handle(b, c, ts)
  <1>1. o \in Orders /\ o.side \in {"buy", "sell"} /\ Opposite(o.side) \in {"buy", "sell"} /\ ValidOrder(o)
    BY OrdersAreValid DEF Commands, ValidOrder, Opposite
  <1>2. b[o.side] \in Seq(Limits) /\ b[Opposite(o.side)] \in Seq(Limits)
    BY <1>1 DEF Books
  <1>3. CASE c.type = "placed"
    <2> DEFINE first == Matching(LimitOrder(o), b[o.side], b[Opposite(o.side)])
               m == Turns(b, o, ts)[Len(b[Opposite(o.side)]) + 1]
               Result(n) ==
                 [book |-> [side \in {"buy", "sell"} |-> IF side = o.side THEN n.own ELSE n.counter],
                  events |-> n.events]
    <2>1. first \in Matchings
      <3>1. LimitOrder(o) \in Limits
        BY <1>1 DEF LimitOrder, Limits, LimitOrders, ValidOrder, Positive
      <3>2. <<>> \in Seq(Events)
        OBVIOUS
      <3> QED
        BY <1>2, <3>1, <3>2 DEF Matching, Matchings
    <2>2. m \in Matchings
      <3>1. Len(b[Opposite(o.side)]) \in Nat
        BY <1>2
      <3>2. \A n \in Matchings : ~n.done => DoMatch(n, ts) \in Matchings
        BY TurnTyped
      <3> HIDE DEF o
      <3> QED
        BY <2>1, <3>1, <3>2, MatchingInduction
    <2>3. r = Result(m)
      <3>1. {Result(n) : n \in {m}} = {Result(m)}
        OBVIOUS
      <3>2. r = AddOrder(b, o, ts)
        BY <1>3 DEF Handle
      <3> QED
        BY <3>1, <3>2 DEF AddOrder
    <2> HIDE DEF m, r
    <2>4. m.own \in Seq(Limits) /\ m.counter \in Seq(Limits) /\ m.events \in Seq(Events)
      BY <2>2 DEF Matchings
    <2>5. r.book \in Books /\ r.events \in Seq(Events)
      BY <2>3, <2>4 DEF Books
    <2> QED
      BY <2>5 DEF r
  <1>4. CASE c.type # "placed"
    <2>1. r = CancelOrder(b, o)
      BY <1>4 DEF Handle
    <2> HIDE DEF o, r
    <2>2. CASE CancelsNothing(b, o, r)
      <3>1. r.book \in Books /\ r.events \in Seq(Events)
        BY <2>2 DEF CancelsNothing
      <3> QED
        BY <3>1 DEF r
    <2>3. ASSUME NEW i, CancelsAt(b, o, i, r)
          PROVE  r.book \in Books /\ r.events \in Seq(Events)
      <3> DEFINE own == b[o.side]
      <3>1. /\ own \in Seq(Limits) /\ own[i] \in Limits /\ i \in 1 .. Len(own)
            /\ r.book = [b EXCEPT ![o.side] = RemoveAt(own, i)]
            /\ r.events = <<OrderCanceled(own[i], FALSE)>>
        BY <1>2, <2>3 DEF CancelsAt
      <3> HIDE DEF own
      <3>2. OrderCanceled(own[i], FALSE) \in Events
        BY <3>1, EventsAre
      <3>3. RemoveAt(own, i) \in Seq(Limits)
        BY <3>1, RemoveAtElements
      <3> DEFINE e == OrderCanceled(own[i], FALSE)
                 q == RemoveAt(own, i)
      <3>4. r.book = [b EXCEPT ![o.side] = q] /\ r.events = <<e>> /\ e \in Events /\ q \in Seq(Limits)
        BY <3>1, <3>2, <3>3
      <3> HIDE DEF e, q
      <3> QED
        BY <1>1, <3>4 DEF Books
    <2>4. r.book \in Books /\ r.events \in Seq(Events)
      BY <2>1, <2>2, <2>3, CancelCases DEF r
    <2> QED
      BY <2>4 DEF r, o
  <1> QED
    BY <1>3, <1>4

-----------------------------------------------------------------------------
(* Recursive functions, for any step *)

\* f starts with a and goes on by G.
Repeats(f, a, N, G, V) ==
  f \in [0 .. N -> V] /\ f[0] = a /\ \A i \in 1 .. N : f[i] = G[<<f[i - 1], i>>]

\* A step that stays in a set can be repeated.
LEMMA Recursion ==
  ASSUME NEW V, NEW a \in V, NEW N \in Nat, NEW G \in [V \X (1 .. N) -> V]
  PROVE  \E f : Repeats(f, a, N, G, V)
  <1> DEFINE Is(f, n) == f \in [0 .. n -> V] /\ f[0] = a /\ \A i \in 1 .. n : f[i] = G[<<f[i - 1], i>>]
             Reached == {n \in 0 .. N : \E f : Is(f, n)}
  <1>1. 0 \in Reached
    <2>1. Is([i \in 0 .. 0 |-> a], 0)
      OBVIOUS
    <2> HIDE DEF Is
    <2> QED
      BY <2>1
  <1>2. ASSUME NEW n \in 1 .. N, n - 1 \in Reached PROVE n \in Reached
    <2>1. PICK f : Is(f, n - 1)
      BY <1>2
    <2> DEFINE g == [i \in 0 .. n |-> IF i = n THEN G[<<f[n - 1], n>>] ELSE f[i]]
    <2>2. n - 1 \in 0 .. n - 1 /\ f[n - 1] \in V /\ G[<<f[n - 1], n>>] \in V
      BY <2>1
    <2>3. g \in [0 .. n -> V] /\ g[0] = a
      BY <2>1, <2>2
    <2>4. \A i \in 1 .. n : g[i] = G[<<g[i - 1], i>>]
      <3>1. \A i \in 0 .. n : g[i] = IF i = n THEN G[<<f[n - 1], n>>] ELSE f[i]
        OBVIOUS
      <3>2. \A i \in 0 .. n - 1 : i \in 0 .. n /\ i # n
        OBVIOUS
      <3>3. \A i \in 1 .. n : i - 1 \in 0 .. n - 1 /\ (i # n => i \in 1 .. n - 1) /\ i \in 0 .. n
        OBVIOUS
      <3> HIDE DEF g
      <3>4. \A i \in 0 .. n - 1 : g[i] = f[i]
        BY <3>1, <3>2
      <3>5. SUFFICES ASSUME NEW i \in 1 .. n PROVE g[i] = G[<<g[i - 1], i>>]
        OBVIOUS
      <3>6. g[i - 1] = f[i - 1]
        BY <3>3, <3>4
      <3>7. CASE i = n
        BY <3>1, <3>3, <3>6, <3>7
      <3>8. CASE i # n
        BY <2>1, <3>1, <3>3, <3>6, <3>8
      <3> QED
        BY <3>7, <3>8
    <2>5. Is(g, n)
      BY <2>3, <2>4
    <2> HIDE DEF Is, g
    <2> QED
      BY <2>5
  <1> HIDE DEF Reached
  <1>3. 0 .. N \subseteq Reached
    BY <1>1, <1>2, CountUp
  <1>4. N \in Reached
    BY <1>3
  <1> QED
    BY <1>4 DEF Reached, Repeats
\* f is what is kept of each prefix of s.
Keeps(f, s, S, T) ==
  /\ f \in [0 .. Len(s) -> Seq(T)] /\ f[0] = <<>>
  /\ \A i \in 1 .. Len(s) : f[i] = IF s[i] \in S THEN Append(f[i - 1], s[i]) ELSE f[i - 1]

\* Among is what its recursion has at the last place.
LEMMA AmongIs ==
  ASSUME NEW T, NEW s \in Seq(T), NEW S
  PROVE  \E f : Keeps(f, s, S, T) /\ Among(s, S) = f[Len(s)]
  <1> DEFINE N == Len(s)
             Is(f) == f = [i \in 0 .. N |-> IF i = 0 THEN <<>>
                                            ELSE IF s[i] \in S THEN Append(f[i - 1], s[i]) ELSE f[i - 1]]
             V == Seq(T)
             G == [x \in V \X (1 .. N) |-> IF s[x[2]] \in S THEN Append(x[1], s[x[2]]) ELSE x[1]]
  <1>1. N \in Nat /\ <<>> \in V /\ \A i \in 1 .. N : s[i] \in T
    OBVIOUS
  <1>2. G \in [V \X (1 .. N) -> V]
    <2> HIDE DEF N
    <2>1. \A v \in V, i \in 1 .. N : Append(v, s[i]) \in V
      BY <1>1
    <2> HIDE DEF V
    <2> QED
      BY <2>1
  <1>3. \A v \in V, i \in 1 .. N : G[<<v, i>>] = IF s[i] \in S THEN Append(v, s[i]) ELSE v
    <2> HIDE DEF N, V
    <2> QED
      OBVIOUS
  <1> DEFINE none == <<>>
  <1>12. none \in V /\ none = <<>>
    BY <1>1
  <1> HIDE DEF N, V, G, none
  <1>4. PICK f \in [0 .. N -> V] : f[0] = none /\ \A i \in 1 .. N : f[i] = G[<<f[i - 1], i>>]
    <2>1. N \in Nat
      BY <1>1
    <2>2. \E f : Repeats(f, none, N, G, V)
      BY <1>12, <1>2, <2>1, Recursion
    <2> QED
      BY <2>2 DEF Repeats
  <1>5. \A i \in 1 .. N : f[i] = IF s[i] \in S THEN Append(f[i - 1], s[i]) ELSE f[i - 1]
    <2>1. \A i \in 1 .. N : i - 1 \in 0 .. N
      BY <1>1
    <2> QED
      BY <1>3, <1>4, <2>1
  <1>6. Is(f)
    <2>1. f = [i \in 0 .. N |-> f[i]]
      BY <1>4
    <2>2. \A i \in 0 .. N : f[i] = IF i = 0 THEN <<>>
                                   ELSE IF s[i] \in S THEN Append(f[i - 1], s[i]) ELSE f[i - 1]
      <3>1. \A i \in 0 .. N : i = 0 \/ i \in 1 .. N
        BY <1>1
      <3> QED
        BY <1>12, <1>4, <1>5, <3>1
    <2> QED
      BY <2>1, <2>2
  <1> DEFINE g == CHOOSE h : Is(h)
  <1>7. Is(g)
    <2> HIDE DEF Is
    <2> QED
      BY <1>6
  <1>8. Among(s, S) = g[N]
    BY DEF Among, N
  <1> HIDE DEF g
  <1>9. g \in [0 .. N -> V] /\ \A i \in 0 .. N : g[i] = f[i]
    <2> DEFINE Same == {i \in 0 .. N : g[i] = f[i]}
    <2>6. \A i \in 0 .. N : g[i] = IF i = 0 THEN <<>>
                                   ELSE IF s[i] \in S THEN Append(g[i - 1], s[i]) ELSE g[i - 1]
      BY <1>7
    <2>1. 0 \in Same
      BY <1>1, <1>12, <1>4, <2>6
    <2>2. ASSUME NEW i \in 1 .. N, i - 1 \in Same PROVE i \in Same
      <3>1. i \in 0 .. N /\ i # 0
        BY <1>1
      <3> QED
        BY <1>5, <2>2, <2>6, <3>1
    <2> HIDE DEF Same
    <2>3. 0 .. N \subseteq Same
      BY <1>1, <2>1, <2>2, CountUp
    <2>4. \A i \in 0 .. N : g[i] = f[i]
      BY <2>3 DEF Same
    <2>5. g = [i \in 0 .. N |-> g[i]]
      BY <1>7
    <2> QED
      BY <1>4, <2>4, <2>5
  <1>10. Among(s, S) = f[N]
    BY <1>1, <1>8, <1>9
  <1>11. Keeps(f, s, S, T)
    BY <1>4, <1>5, <1>12 DEF Keeps, N, V
  <1> QED
    BY <1>10, <1>11 DEF N

\* What is among the elements of a sequence is of their type.
LEMMA AmongTyped ==
  ASSUME NEW T, NEW s \in Seq(T), NEW S
  PROVE  Among(s, S) \in Seq(T)
  <1>1. PICK f : Keeps(f, s, S, T) /\ Among(s, S) = f[Len(s)]
    BY AmongIs
  <1>2. Len(s) \in 0 .. Len(s)
    OBVIOUS
  <1> QED
    BY <1>1, <1>2 DEF Keeps

-----------------------------------------------------------------------------
(* The replay of the queue *)

Replays == [book : Books, events : Seq(Events)]

\* One more command.
Replayed(r, c, ts) ==
  [book |-> Handle(r.book, c, ts).book, events |-> r.events \o Handle(r.book, c, ts).events]

\* One command more of a replay keeps its types.
LEMMA ReplayedTyped ==
  ASSUME NEW r \in Replays, NEW c \in Commands, NEW ts \in Int
  PROVE  Replayed(r, c, ts) \in Replays
  <1> DEFINE h == Handle(r.book, c, ts)
  <1>1. r.book \in Books /\ r.events \in Seq(Events)
    BY DEF Replays
  <1>2. h.book \in Books /\ h.events \in Seq(Events)
    BY <1>1, HandleTyped
  <1> HIDE DEF h
  <1>3. r.events \o h.events \in Seq(Events)
    BY <1>1, <1>2, ConcatProperties
  <1>4. [book |-> h.book, events |-> r.events \o h.events] \in Replays
    BY <1>2, <1>3 DEF Replays
  <1> QED
    BY <1>4 DEF Replayed, h

\* A replay starts with nothing and handles one command after the other.
LEMMA ReplayIs ==
  ASSUME NEW q \in Seq(Commands)
  PROVE  /\ Replay(q, 0) = [book |-> EmptyBook, events |-> <<>>]
         /\ \A n \in 0 .. Len(q) : Replay(q, n) \in Replays
         /\ \A n \in 1 .. Len(q) : Replay(q, n) = Replayed(Replay(q, n - 1), q[n], n - 1)
  <1> DEFINE N == Len(q)
             V == Replays
             first == [book |-> EmptyBook, events |-> <<>>]
             Then(r, i) == LET h == Handle(r.book, q[i], i - 1)
                           IN  [book |-> h.book, events |-> r.events \o h.events]
             Step1(r, i) == CHOOSE x \in {Then(y, i) : y \in {r}} : TRUE
             Is(f) == f = [i \in 0 .. N |-> IF i = 0 THEN first ELSE Step1(f[i - 1], i)]
             G == [x \in V \X (1 .. N) |-> Replayed(x[1], q[x[2]], x[2] - 1)]
  <1>1. N \in Nat /\ \A i \in 1 .. N : q[i] \in Commands
    OBVIOUS
  <1>2. first \in V
    BY DEF EmptyBook, Books, Replays
  <1>3. \A r, i : Step1(r, i) = Replayed(r, q[i], i - 1)
    <2>1. SUFFICES ASSUME NEW r, NEW i PROVE Step1(r, i) = Replayed(r, q[i], i - 1)
      OBVIOUS
    <2>2. Then(r, i) = Replayed(r, q[i], i - 1)
      BY DEF Replayed
    <2> HIDE DEF Then
    <2>3. {Then(y, i) : y \in {r}} = {Then(r, i)}
      OBVIOUS
    <2> QED
      BY <2>2, <2>3
  <1>4. G \in [V \X (1 .. N) -> V]
    <2> HIDE DEF N
    <2>1. \A v \in V, i \in 1 .. N : Replayed(v, q[i], i - 1) \in V
      BY <1>1, ReplayedTyped
    <2> HIDE DEF V
    <2> QED
      BY <2>1
  <1>5. \A v \in V, i \in 1 .. N : G[<<v, i>>] = Replayed(v, q[i], i - 1)
    <2> HIDE DEF N, V
    <2> QED
      OBVIOUS
  <1>6. \A n : Replay(q, n) = (CHOOSE f : Is(f))[n]
    BY DEF Replay
  <1> HIDE DEF N, V, G, first, Step1
  <1>7. \E f : Repeats(f, first, N, G, V)
    BY <1>1, <1>2, <1>4, Recursion
  <1>8. PICK f : Repeats(f, first, N, G, V)
    BY <1>7
  <1>9. f \in [0 .. N -> V] /\ f[0] = first /\ \A i \in 1 .. N : f[i] = Replayed(f[i - 1], q[i], i - 1)
    <2>1. \A i \in 1 .. N : i - 1 \in 0 .. N
      BY <1>1
    <2> QED
      BY <1>5, <1>8, <2>1 DEF Repeats
  <1>10. Is(f)
    <2>1. f = [i \in 0 .. N |-> f[i]]
      BY <1>9
    <2>2. \A i \in 0 .. N : f[i] = IF i = 0 THEN first ELSE Step1(f[i - 1], i)
      <3>1. \A i \in 0 .. N : i = 0 \/ i \in 1 .. N
        BY <1>1
      <3> QED
        BY <1>3, <1>9, <3>1
    <2> QED
      BY <2>1, <2>2
  <1> DEFINE g == CHOOSE h : Is(h)
  <1>11. Is(g)
    <2> HIDE DEF Is
    <2> QED
      BY <1>10
  <1>12. \A n : Replay(q, n) = g[n]
    BY <1>6
  <1> HIDE DEF g
  <1>13. \A i \in 0 .. N : g[i] = IF i = 0 THEN first ELSE Replayed(g[i - 1], q[i], i - 1)
    BY <1>3, <1>11
  <1>14. \A i \in 0 .. N : g[i] = f[i]
    <2> DEFINE Same == {i \in 0 .. N : g[i] = f[i]}
    <2>1. 0 \in Same
      BY <1>1, <1>9, <1>13
    <2>2. ASSUME NEW i \in 1 .. N, i - 1 \in Same PROVE i \in Same
      <3>1. i \in 0 .. N /\ i # 0
        BY <1>1
      <3> QED
        BY <1>9, <1>13, <2>2, <3>1
    <2> HIDE DEF Same
    <2>3. 0 .. N \subseteq Same
      BY <1>1, <2>1, <2>2, CountUp
    <2> QED
      BY <2>3 DEF Same
  <1>15. \A n \in 0 .. N : Replay(q, n) = f[n]
    BY <1>12, <1>14
  <1>16. 0 \in 0 .. N /\ \A n \in 1 .. N : n \in 0 .. N /\ n - 1 \in 0 .. N
    BY <1>1
  <1>17. /\ Replay(q, 0) = first
         /\ \A n \in 0 .. N : Replay(q, n) \in V
         /\ \A n \in 1 .. N : Replay(q, n) = Replayed(Replay(q, n - 1), q[n], n - 1)
    BY <1>9, <1>15, <1>16
  <1> QED
    BY <1>17 DEF N, V, first

-----------------------------------------------------------------------------
(* What an event does to the state of an actor *)

Infos == [is : {"not found", "filled", "cancelled"}, amount : Int]
InfoMaps == [Orders -> Infos]
Counts == [Orders -> Nat]
Volumes == [Owners -> [Assets -> Int]]
OrderSets == SUBSET Orders

ActorStates ==
  [info : InfoMaps, active : Counts, openVolume : Volumes,
   pendingPlacement : OrderSets, pendingCancellation : OrderSets, expiration : Counts]

\* What an order needs when n is left of it.
Needs(o, n) == RequiredBalance([order |-> o, amount |-> n])

\* The volume of what o spends is more by d.
More(v, o, d) == [v EXCEPT ![o.owner][SpentAsset(o)] = @ + d]

\* In t, of o there is n left, and all else is active as in s.
Leaves(s, o, n, t) ==
  /\ t \in ActorStates
  /\ t.active = [s.active EXCEPT ![o] = n]
  /\ t.openVolume = More(s.openVolume, o, Needs(o, n) - Needs(o, s.active[o]))

Sets(s, o, n, t) == Leaves(s, o, n, t) /\ t.pendingPlacement = s.pendingPlacement \ {o}

SetsInfo(s, o, i, t) == t.info = [s.info EXCEPT ![o] = IF @ = NoInfo THEN i ELSE @]

\* What an order needs is a natural number, and nothing for one that is not active.
LEMMA NeedsTyped ==
  ASSUME NEW o \in Orders, NEW n \in Nat
  PROVE  Needs(o, n) \in Nat /\ Needs(o, 0) = 0 /\ SpentAsset(o) \in Assets /\ o.owner \in Owners
  <1>1. o.price \in Positive /\ o.owner \in Owners
    BY OrdersAreValid DEF ValidOrder
  <1>2. Settled(n, o.price) \in Nat /\ Settled(0, o.price) = 0
    <2>1. 0 * o.price = 0
      BY <1>1 DEF Positive
    <2>2. 0 \div PriceConstant = 0
      BY PriceConstantAssumption
    <2> QED
      BY <1>1, <2>1, <2>2, SettledBounds DEF Settled
  <1> QED
    BY <1>1, <1>2 DEF Needs, RequiredBalance, SpentAsset, Assets

\* Amounts added to the volume of one order's asset add up.
LEMMA MoreTyped ==
  ASSUME NEW v \in Volumes, NEW o \in Orders, NEW d \in Int, NEW e \in Int
  PROVE  /\ More(v, o, d) \in Volumes
         /\ More(More(v, o, d), o, e) = More(v, o, d + e)
         /\ More(v, o, 0) = v
  <1> DEFINE w == o.owner
             a == SpentAsset(o)
             M(u, x) == [u EXCEPT ![w][a] = @ + x]
  <1>1. w \in Owners /\ a \in Assets
    BY NeedsTyped, 0 \in Nat
  <1>2. \A u, x : More(u, o, x) = M(u, x)
    BY DEF More
  <1> HIDE DEF w, a
  <1>3. \A u \in Volumes, x \in Int :
          /\ M(u, x) \in Volumes
          /\ \A k \in Owners, b \in Assets : M(u, x)[k][b] = IF k = w /\ b = a THEN u[k][b] + x ELSE u[k][b]
    BY <1>1 DEF Volumes
  <1> HIDE DEF M
  <1>4. \A u1, u2 \in Volumes :
          (\A k \in Owners, b \in Assets : u1[k][b] = u2[k][b]) => u1 = u2
    <2>1. SUFFICES ASSUME NEW u1 \in Volumes, NEW u2 \in Volumes,
                          \A k \in Owners, b \in Assets : u1[k][b] = u2[k][b]
                   PROVE  u1 = u2
      OBVIOUS
    <2>2. \A k \in Owners : u1[k] = u2[k]
      <3>1. SUFFICES ASSUME NEW k \in Owners PROVE u1[k] = u2[k]
        OBVIOUS
      <3>2. u1[k] \in [Assets -> Int] /\ u2[k] \in [Assets -> Int]
        BY DEF Volumes
      <3> QED
        BY <2>1, <3>2
    <2> QED
      BY <2>2 DEF Volumes
  <1>5. M(v, d) \in Volumes /\ d + e \in Int
    BY <1>3
  <1>6. M(M(v, d), e) = M(v, d + e)
    <2>1. M(M(v, d), e) \in Volumes /\ M(v, d + e) \in Volumes
      BY <1>3, <1>5
    <2>2. \A k \in Owners, b \in Assets : M(M(v, d), e)[k][b] = M(v, d + e)[k][b]
      <3>1. SUFFICES ASSUME NEW k \in Owners, NEW b \in Assets
            PROVE  M(M(v, d), e)[k][b] = M(v, d + e)[k][b]
        OBVIOUS
      <3>2. v[k][b] \in Int /\ M(v, d)[k][b] = IF k = w /\ b = a THEN v[k][b] + d ELSE v[k][b]
        BY <1>3 DEF Volumes
      <3>3. M(v, d + e)[k][b] = IF k = w /\ b = a THEN v[k][b] + (d + e) ELSE v[k][b]
        BY <1>3, <1>5
      <3>4. M(M(v, d), e)[k][b] = IF k = w /\ b = a THEN M(v, d)[k][b] + e ELSE M(v, d)[k][b]
        BY <1>3, <1>5
      <3> QED
        BY <3>2, <3>3, <3>4
    <2> QED
      BY <1>4, <2>1, <2>2
  <1>7. M(v, 0) = v
    <2>1. \A k \in Owners, b \in Assets : v[k][b] \in Int
      BY DEF Volumes
    <2>2. M(v, 0) \in Volumes /\ \A k \in Owners, b \in Assets : M(v, 0)[k][b] = v[k][b]
      BY <1>3, <2>1
    <2> QED
      BY <1>4, <2>2
  <1> QED
    BY <1>2, <1>5, <1>6, <1>7

\* The fields of a state one by one.
IsState(t, info, active, openVolume, placing, cancelling, expiration) ==
  t = [info |-> info, active |-> active, openVolume |-> openVolume, pendingPlacement |-> placing,
       pendingCancellation |-> cancelling, expiration |-> expiration]

\* The state is its fields.
LEMMA StateIs ==
  ASSUME NEW s \in ActorStates
  PROVE  IsState(s, s.info, s.active, s.openVolume, s.pendingPlacement, s.pendingCancellation, s.expiration)
  BY DEF ActorStates, IsState

\* The fields after Reserve.
LEMMA ReserveIs ==
  ASSUME NEW s, NEW i, NEW a, NEW v, NEW p, NEW c, NEW e, IsState(s, i, a, v, p, c, e), NEW lo
  PROVE  IsState(Reserve(s, lo), i, [a EXCEPT ![lo.order] = lo.amount],
                 More(v, lo.order, RequiredBalance(lo)), p, c, e)
  <1> DEFINE a2 == [a EXCEPT ![lo.order] = lo.amount]
             v2 == More(v, lo.order, RequiredBalance(lo))
  <1>1. s.active = a /\ s.openVolume = v
    BY DEF IsState
  <1>2. Reserve(s, lo) = [s EXCEPT !.active = a2, !.openVolume = v2]
    BY <1>1 DEF Reserve, More, IsState
  <1> HIDE DEF a2, v2
  <1> DEFINE t == [s EXCEPT !.active = a2]
  <1>4. IsState(t, i, a2, v, p, c, e)
    BY DEF IsState
  <1>5. [s EXCEPT !.active = a2, !.openVolume = v2] = [t EXCEPT !.openVolume = v2]
    OBVIOUS
  <1> HIDE DEF t
  <1>3. IsState([t EXCEPT !.openVolume = v2], i, a2, v2, p, c, e)
    BY <1>4 DEF IsState
  <1> QED
    BY <1>2, <1>3, <1>5 DEF a2, v2

\* The fields after Release.
LEMMA ReleaseIs ==
  ASSUME NEW s, NEW i, NEW a, NEW v \in Volumes, NEW p, NEW c, NEW e,
         IsState(s, i, a, v, p, c, e), NEW o \in Orders, a[o] \in Nat
  PROVE  IsState(Release(s, o), i, a, More(v, o, -Needs(o, a[o])), p, c, e)
  <1> DEFINE w == o.owner
             b == SpentAsset(o)
             n == Needs(o, a[o])
             v2 == [v EXCEPT ![w][b] = @ - n]
             v3 == [v EXCEPT ![w][b] = @ + (-n)]
  <1>1. w \in Owners /\ b \in Assets /\ n \in Nat
    BY NeedsTyped
  <1>2. s.active = a /\ s.openVolume = v
    BY DEF IsState
  <1>3. RequiredBalance(ActiveOrder(s, o)) = n
    BY <1>2 DEF ActiveOrder, Needs
  <1>4. Release(s, o) = [s EXCEPT !.openVolume = v2]
    BY <1>2, <1>3 DEF Release, IsState
  <1>5. v2 = v3
    <2> HIDE DEF w, b, n
    <2>1. v[w][b] - n = v[w][b] + (-n)
      BY <1>1
    <2> QED
      BY <1>1, <2>1
  <1>6. v3 = More(v, o, -n)
    BY DEF More
  <1> HIDE DEF v2, v3
  <1>7. IsState([s EXCEPT !.openVolume = v2], i, a, v2, p, c, e)
    BY DEF IsState
  <1> QED
    BY <1>4, <1>5, <1>6, <1>7

\* The fields after ConfirmPlacement.
LEMMA ConfirmIs ==
  ASSUME NEW s, NEW i, NEW a, NEW v, NEW p, NEW c, NEW e, IsState(s, i, a, v, p, c, e), NEW o
  PROVE  IsState(ConfirmPlacement(s, o), i, a, v, p \ {o}, c, e)
  BY DEF IsState, ConfirmPlacement

\* The fields after HandleOrderAdded.
LEMMA AddedIs ==
  ASSUME NEW s, NEW i, NEW a, NEW v, NEW p, NEW c, NEW e, IsState(s, i, a, v, p, c, e), NEW lo
  PROVE  IsState(HandleOrderAdded(s, lo), i, [a EXCEPT ![lo.order] = lo.amount],
                 More(v, lo.order, RequiredBalance(lo)), p \ {lo.order}, c, [e EXCEPT ![lo.order] = @ + 1])
  <1> DEFINE a2 == [a EXCEPT ![lo.order] = lo.amount]
             v2 == More(v, lo.order, RequiredBalance(lo))
             t == ConfirmPlacement(Reserve(s, lo), lo.order)
             e2 == [e EXCEPT ![lo.order] = @ + 1]
             p2 == p \ {lo.order}
  <1>1. IsState(t, i, a2, v2, p2, c, e)
    BY ReserveIs, ConfirmIs
  <1>2. t.expiration = e
    BY <1>1 DEF IsState
  <1>3. HandleOrderAdded(s, lo) = [t EXCEPT !.expiration[lo.order] = @ + 1]
    BY DEF HandleOrderAdded
  <1> HIDE DEF t, a2, v2, p2
  <1>4. [t EXCEPT !.expiration[lo.order] = @ + 1] = [t EXCEPT !.expiration = e2]
    BY <1>1, <1>2 DEF IsState
  <1> HIDE DEF e2
  <1>5. IsState([t EXCEPT !.expiration = e2], i, a2, v2, p2, c, e2)
    BY <1>1 DEF IsState
  <1> QED
    BY <1>3, <1>4, <1>5 DEF a2, v2, p2, e2

\* The fields after HandleOrderTerminated.
LEMMA TerminatedIs ==
  ASSUME NEW s, NEW i, NEW a, NEW v, NEW p, NEW c, NEW e, IsState(s, i, a, v, p, c, e), NEW o, NEW status
  PROVE  IsState(HandleOrderTerminated(s, o, status), [i EXCEPT ![o] = IF @ = NoInfo THEN status ELSE @],
                 [a EXCEPT ![o] = 0], v, p, c \ {o}, [e EXCEPT ![o] = 0])
  <1> DEFINE i2 == [i EXCEPT ![o] = IF @ = NoInfo THEN status ELSE @]
             a2 == [a EXCEPT ![o] = 0]
             c2 == c \ {o}
             e2 == [e EXCEPT ![o] = 0]
             u == [s EXCEPT !.pendingCancellation = c2, !.expiration = e2, !.active = a2, !.info = i2]
  <1>1. s.info = i /\ s.active = a /\ s.pendingCancellation = c /\ s.expiration = e
    BY DEF IsState
  <1>2. HandleOrderTerminated(s, o, status) = u
    BY <1>1 DEF HandleOrderTerminated, IsState
  <1> HIDE DEF i2, a2, c2, e2
  <1> DEFINE s1 == [s EXCEPT !.pendingCancellation = c2]
             s2 == [s1 EXCEPT !.expiration = e2]
             s3 == [s2 EXCEPT !.active = a2]
  <1>4. u = [s3 EXCEPT !.info = i2]
    OBVIOUS
  <1>5. IsState(s1, i, a, v, p, c2, e)
    BY DEF IsState
  <1> HIDE DEF s1
  <1>6. IsState(s2, i, a, v, p, c2, e2)
    BY <1>5 DEF IsState
  <1> HIDE DEF s2
  <1>7. IsState(s3, i, a2, v, p, c2, e2)
    BY <1>6 DEF IsState
  <1> HIDE DEF s3, u
  <1>3. IsState(u, i2, a2, v, p, c2, e2)
    BY <1>4, <1>7 DEF IsState
  <1> QED
    BY <1>2, <1>3 DEF i2, a2, c2, e2

\* What a limit order counts for: nothing when it is not valid.
Lasts(lo) == IF IsValid(lo) THEN lo.amount ELSE 0

\* What is left of an order: what it needs, and the statuses it can end with.
LEMMA LimitIs ==
  ASSUME NEW lo \in Limits
  PROVE  /\ lo.order \in Orders /\ lo.amount \in Nat /\ lo = [order |-> lo.order, amount |-> lo.amount]
         /\ RequiredBalance(lo) = Needs(lo.order, lo.amount)
         /\ Lasts(lo) \in Nat
         /\ Filled(lo) \in Infos /\ Cancelled(lo) \in Infos /\ \A u \in BOOLEAN : FinalStatus(lo, u) \in Infos
  <1>1. lo.order \in Orders /\ lo.amount \in Nat /\ lo = [order |-> lo.order, amount |-> lo.amount]
    BY DEF Limits, LimitOrders
  <1>2. lo.order.amount \in Nat
    BY <1>1, OrdersAssumption
  <1>3. lo.order.amount - lo.amount \in Int
    BY <1>1, <1>2
  <1>4. Filled(lo) \in Infos /\ Cancelled(lo) \in Infos
    BY <1>3 DEF Filled, Cancelled, Infos
  <1>5. RequiredBalance(lo) = Needs(lo.order, lo.amount)
    BY <1>1 DEF Needs
  <1> QED
    BY <1>1, <1>4, <1>5 DEF FinalStatus, Lasts

\* A state with fields of their types, and the other way round.
LEMMA StateTyped ==
  ASSUME NEW t, NEW i \in InfoMaps, NEW a \in Counts, NEW v \in Volumes,
         NEW p \in OrderSets, NEW c \in OrderSets, NEW e \in Counts, IsState(t, i, a, v, p, c, e)
  PROVE  /\ t \in ActorStates /\ t.info = i /\ t.active = a /\ t.openVolume = v
         /\ t.pendingPlacement = p /\ t.pendingCancellation = c /\ t.expiration = e
  BY DEF IsState, ActorStates

\* The types of the fields.
LEMMA StateFields ==
  ASSUME NEW s \in ActorStates
  PROVE  /\ s.info \in InfoMaps /\ s.active \in Counts
         /\ s.openVolume \in Volumes /\ s.pendingPlacement \in OrderSets
         /\ s.pendingCancellation \in OrderSets /\ s.expiration \in Counts
  BY DEF ActorStates

\* OrderAdded makes the order active with what the event says is left of it, whatever
\* was active before.
LEMMA AddedSets ==
  ASSUME NEW s \in ActorStates, NEW lo \in Limits
  PROVE  LET t == HandleOrderAdded(Release(s, lo.order), lo)
         IN  Sets(s, lo.order, lo.amount, t) /\ t.info = s.info
  <1> DEFINE o == lo.order
             n == lo.amount
             t == HandleOrderAdded(Release(s, lo.order), lo)
             i == s.info
             a == s.active
             v == s.openVolume
             p == s.pendingPlacement
             c == s.pendingCancellation
             e == s.expiration
             old == Needs(o, a[o])
             new == Needs(o, n)
             v1 == More(v, o, -old)
             a2 == [a EXCEPT ![o] = n]
             v2 == More(v1, o, new)
             e2 == [e EXCEPT ![o] = @ + 1]
  <1>1. o \in Orders /\ n \in Nat /\ RequiredBalance(lo) = new
    BY LimitIs
  <1>2. /\ i \in InfoMaps /\ a \in Counts /\ v \in Volumes
        /\ p \in OrderSets /\ c \in OrderSets /\ e \in Counts
    BY StateFields
  <1>3. old \in Nat /\ new \in Nat
    BY <1>1, <1>2, NeedsTyped DEF Counts
  <1>4. IsState(s, i, a, v, p, c, e)
    BY StateIs
  <1>5. IsState(Release(s, o), i, a, v1, p, c, e)
    <2> HIDE DEF i, a, v, p, c, e, o
    <2>1. a[o] \in Nat
      BY <1>1, <1>2 DEF Counts
    <2> QED
      BY <1>1, <1>2, <1>4, <2>1, ReleaseIs
  <1>6. IsState(t, i, a2, v2, p \ {o}, c, e2)
    <2> DEFINE s1 == Release(s, o)
    <2>1. IsState(s1, i, a, v1, p, c, e)
      BY <1>5
    <2> HIDE DEF i, a, v, p, c, e, v1, s1
    <2>2. IsState(HandleOrderAdded(s1, lo), i, [a EXCEPT ![lo.order] = lo.amount],
                 More(v1, lo.order, RequiredBalance(lo)), p \ {lo.order}, c, [e EXCEPT ![lo.order] = @ + 1])
      BY <2>1, AddedIs
    <2> QED
      BY <1>1, <2>2 DEF s1
  <1>7. /\ v2 = More(v, o, new - old) /\ v2 \in Volumes
        /\ a2 \in Counts /\ e2 \in Counts
    <2> HIDE DEF i, a, v, p, c, e, o, n, old, new
    <2>1. (-old) \in Int /\ new \in Int /\ (-old) + new = new - old /\ new - old \in Int
      BY <1>3
    <2> DEFINE d == -old
    <2>3. d \in Int /\ new \in Int /\ d + new = new - old /\ new - old \in Int
      BY <2>1
    <2>4. v2 = More(More(v, o, d), o, new)
      OBVIOUS
    <2> HIDE DEF d, v2
    <2>2. More(More(v, o, d), o, new) = More(v, o, d + new) /\ More(v, o, new - old) \in Volumes
      BY <1>1, <1>2, <2>3, MoreTyped
    <2>5. v2 = More(v, o, new - old) /\ v2 \in Volumes
      BY <2>2, <2>3, <2>4
    <2>6. a2 \in Counts /\ e2 \in Counts
      BY <1>1, <1>2 DEF Counts
    <2> QED
      BY <2>5, <2>6
  <1> DEFINE p2 == p \ {o}
  <1>8. p2 \in OrderSets
    BY <1>2 DEF OrderSets
  <1> HIDE DEF t, a2, e2, v2, p2
  <1>9. /\ t \in ActorStates /\ t.info = s.info /\ t.active = a2 /\ t.openVolume = v2 /\ t.pendingPlacement = p2
    <2>1. i = s.info /\ IsState(t, i, a2, v2, p2, c, e2)
      BY <1>6 DEF p2
    <2>2. i \in InfoMaps /\ c \in OrderSets
      BY <1>2
    <2> HIDE DEF i, c
    <2>3. /\ t \in ActorStates /\ t.info = i /\ t.active = a2 /\ t.openVolume = v2
         /\ t.pendingPlacement = p2 /\ t.pendingCancellation = c /\ t.expiration = e2
      BY <1>7, <1>8, <2>1, <2>2, StateTyped
    <2> QED
      BY <2>1, <2>3
  <1>10. t.active = [s.active EXCEPT ![o] = n] /\ t.openVolume = More(s.openVolume, o, Needs(o, n) - Needs(o, s.active[o]))
         /\ t.pendingPlacement = s.pendingPlacement \ {o}
    BY <1>7, <1>9 DEF a2, p2
  <1> QED
    BY <1>9, <1>10 DEF Sets, Leaves, t

\* u is s without what o holds back and without the wait for its placement.
Released(s, o, c, u) ==
  IsState(u, s.info, s.active, More(s.openVolume, o, -Needs(o, s.active[o])), s.pendingPlacement \ {o}, c, s.expiration)

\* Ending an order that was released makes it inactive and gives it a status.
LEMMA TerminatedSets ==
  ASSUME NEW s \in ActorStates, NEW o \in Orders, NEW c \in OrderSets, NEW u, Released(s, o, c, u), NEW status \in Infos
  PROVE  LET t == HandleOrderTerminated(u, o, status)
         IN  Sets(s, o, 0, t) /\ SetsInfo(s, o, status, t)
  <1> DEFINE t == HandleOrderTerminated(u, o, status)
             i == s.info
             a == s.active
             v == s.openVolume
             p == s.pendingPlacement
             e == s.expiration
             old == Needs(o, a[o])
             d == -old
             v2 == More(v, o, d)
             i2 == [i EXCEPT ![o] = IF @ = NoInfo THEN status ELSE @]
             a2 == [a EXCEPT ![o] = 0]
             e2 == [e EXCEPT ![o] = 0]
             p2 == p \ {o}
             c2 == c \ {o}
  <1>1. i \in InfoMaps /\ a \in Counts /\ v \in Volumes /\ p \in OrderSets /\ e \in Counts
    BY StateFields
  <1>2. old \in Nat /\ Needs(o, 0) = 0
    BY <1>1, NeedsTyped DEF Counts
  <1>3. IsState(u, i, a, v2, p2, c, e)
    BY DEF Released
  <1>4. IsState(t, i2, a2, v2, p2, c2, e2)
    <2> HIDE DEF i, a, v, p, e, v2, p2
    <2> QED
      BY <1>3, TerminatedIs
  <1>5. p2 \in OrderSets /\ c2 \in OrderSets
    BY <1>1 DEF OrderSets
  <1>6. a2 \in Counts /\ e2 \in Counts /\ i2 \in InfoMaps
    <2> HIDE DEF a, e, i
    <2> QED
      BY <1>1 DEF Counts, InfoMaps
  <1>7. d \in Int /\ d = Needs(o, 0) - Needs(o, a[o])
    <2> HIDE DEF a
    <2> QED
      BY <1>2
  <1>8. v2 \in Volumes
    <2> HIDE DEF d, v
    <2> QED
      BY <1>1, <1>7, MoreTyped
  <1>9. /\ t \in ActorStates /\ t.info = i2 /\ t.active = a2 /\ t.openVolume = v2 /\ t.pendingPlacement = p2
    <2> HIDE DEF t, i2, a2, v2, p2, c2, e2
    <2> QED
      BY <1>4, <1>5, <1>6, <1>8, StateTyped
  <1> HIDE DEF t
  <1>10. v2 = More(s.openVolume, o, Needs(o, 0) - Needs(o, s.active[o]))
    <2> HIDE DEF d
    <2> QED
      BY <1>7
  <1>11. Sets(s, o, 0, t)
    <2> HIDE DEF v2
    <2> QED
      BY <1>9, <1>10 DEF Sets, Leaves
  <1>12. SetsInfo(s, o, status, t)
    BY <1>9 DEF SetsInfo
  <1> QED
    BY <1>11, <1>12 DEF t

\* An execution leaves an order active with the rest, or ends it as filled.
LEMMA ExecutedSets ==
  ASSUME NEW s \in ActorStates, NEW left \in Limits
  PROVE  LET t == HandleOrderExecuted(s, left)
         IN  /\ Sets(s, left.order, Lasts(left), t)
             /\ IF IsValid(left) THEN t.info = s.info ELSE SetsInfo(s, left.order, Filled(left), t)
  <1> DEFINE o == left.order
             u == ConfirmPlacement(Release(s, o), o)
             c == s.pendingCancellation
  <1>1. o \in Orders /\ Filled(left) \in Infos
    BY LimitIs
  <1>2. CASE IsValid(left)
    <2>1. HandleOrderExecuted(s, left) = HandleOrderAdded(Release(s, o), left) /\ Lasts(left) = left.amount
      BY <1>2 DEF HandleOrderExecuted, Lasts
    <2> QED
      BY <1>2, <2>1, AddedSets
  <1>3. CASE ~IsValid(left)
    <2>1. HandleOrderExecuted(s, left) = HandleOrderTerminated(u, o, FilledStatus(left)) /\ Lasts(left) = 0
      BY <1>3 DEF HandleOrderExecuted, Lasts
    <2>2. FilledStatus(left) = Filled(left)
      BY DEF FilledStatus
    <2>3. Released(s, o, c, u) /\ c \in OrderSets
      <3>1. s.openVolume \in Volumes /\ s.active[o] \in Nat /\ c \in OrderSets
        BY <1>1, StateFields DEF Counts
      <3>2. IsState(Release(s, o), s.info, s.active, More(s.openVolume, o, -Needs(o, s.active[o])),
                    s.pendingPlacement, c, s.expiration)
        <4>1. IsState(s, s.info, s.active, s.openVolume, s.pendingPlacement, c, s.expiration)
          BY StateIs
        <4> HIDE DEF c, o
        <4> QED
          BY <1>1, <3>1, <4>1, ReleaseIs
      <3> QED
        BY <3>1, <3>2, ConfirmIs DEF Released
    <2> HIDE DEF o, u, c
    <2>4. Sets(s, o, 0, HandleOrderTerminated(u, o, Filled(left)))
          /\ SetsInfo(s, o, Filled(left), HandleOrderTerminated(u, o, Filled(left)))
      BY <1>1, <2>3, TerminatedSets
    <2> QED
      BY <1>3, <2>1, <2>2, <2>4 DEF o
  <1> QED
    BY <1>2, <1>3

\* A cancellation makes an order inactive; one that was inactive gets no status by it.
LEMMA CanceledSets ==
  ASSUME NEW s \in ActorStates, NEW e, e.lo \in Limits, e.unmatchable \in BOOLEAN
  PROVE  LET t == OnOrderCanceled(s, e)
             o == e.lo.order
         IN  /\ Sets(s, o, 0, t)
             /\ IF s.active[o] = 0 THEN t.info = s.info ELSE SetsInfo(s, o, FinalStatus(e.lo, e.unmatchable), t)
  <1> DEFINE o == e.lo.order
             r == ConfirmPlacement(s, o)
             c == s.pendingCancellation
             c2 == c \ {o}
             t0 == [r EXCEPT !.pendingCancellation = @ \ {o}]
             p2 == s.pendingPlacement \ {o}
             status == FinalStatus(e.lo, e.unmatchable)
  <1>1. o \in Orders /\ status \in Infos
    BY LimitIs
  <1>2. /\ s.info \in InfoMaps /\ s.active \in Counts /\ s.openVolume \in Volumes
        /\ p2 \in OrderSets /\ c2 \in OrderSets /\ s.expiration \in Counts
    BY StateFields DEF OrderSets
  <1>3. IsState(r, s.info, s.active, s.openVolume, p2, c, s.expiration)
    BY StateIs, ConfirmIs
  <1>4. r.pendingCancellation = c
    BY <1>3 DEF IsState
  <1>5. t0 = [r EXCEPT !.pendingCancellation = c2]
    <2> HIDE DEF r, c
    <2> QED
      BY <1>3, <1>4 DEF IsState
  <1>6. IsState(t0, s.info, s.active, s.openVolume, p2, c2, s.expiration)
    <2> HIDE DEF r, c, c2, p2, t0
    <2> QED
      BY <1>3, <1>5 DEF IsState
  <1>7. OnOrderCanceled(s, e) = IF s.active[o] = 0 THEN t0 ELSE HandleOrderTerminated(Release(t0, o), o, status)
    BY DEF OnOrderCanceled
  <1>8. CASE s.active[o] = 0
    <2>1. /\ t0 \in ActorStates /\ t0.info = s.info /\ t0.active = s.active /\ t0.openVolume = s.openVolume
          /\ t0.pendingPlacement = p2
      <3> HIDE DEF t0, p2, c2
      <3> QED
        BY <1>2, <1>6, StateTyped
    <2> HIDE DEF t0
    <2>2. s.active = [s.active EXCEPT ![o] = 0]
      BY <1>1, <1>2, <1>8 DEF Counts
    <2>3. s.openVolume = More(s.openVolume, o, Needs(o, 0) - Needs(o, s.active[o]))
      <3>1. Needs(o, 0) - Needs(o, s.active[o]) = 0
        BY <1>1, <1>8, NeedsTyped
      <3>2. More(s.openVolume, o, 0) = s.openVolume
        <4> HIDE DEF o
        <4> QED
          BY <1>1, <1>2, MoreTyped
      <3> QED
        BY <3>1, <3>2
    <2>4. Sets(s, o, 0, t0)
      BY <2>1, <2>2, <2>3 DEF Sets, Leaves
    <2> QED
      BY <1>7, <1>8, <2>1, <2>4
  <1>9. CASE s.active[o] # 0
    <2> DEFINE u == Release(t0, o)
    <2>1. Released(s, o, c2, u)
      <3>1. s.active[o] \in Nat
        BY <1>1, <1>2 DEF Counts
      <3> HIDE DEF o, p2, c2, t0
      <3>2. IsState(Release(t0, o), s.info, s.active, More(s.openVolume, o, -Needs(o, s.active[o])), p2, c2, s.expiration)
        BY <1>1, <1>2, <1>6, <3>1, ReleaseIs
      <3> QED
        BY <3>2 DEF Released, p2
    <2> HIDE DEF u, o, c2, status, t0
    <2>2. Sets(s, o, 0, HandleOrderTerminated(u, o, status)) /\ SetsInfo(s, o, status, HandleOrderTerminated(u, o, status))
      BY <1>1, <1>2, <2>1, TerminatedSets
    <2> QED
      BY <1>7, <1>9, <2>2 DEF u, o, status
  <1> QED
    BY <1>8, <1>9

-----------------------------------------------------------------------------
(* What is held back *)

\* What counts for nothing may be left out of a sum.
LEMMA SumWithout ==
  ASSUME NEW V, IsFiniteSet(V), NEW w, \A x \in V : w[x] \in Nat,
         NEW S, S \subseteq V, \A x \in V \ S : w[x] = 0
  PROVE  SumOf(w, S) = SumOf(w, V)
  <1> DEFINE Same(R) == SumOf(w, S) = SumOf(w, R)
             Bad == {R \in SUBSET V : S \subseteq R /\ ~Same(R)}
             T == {Cardinality(R) : R \in Bad}
  <1>1. \A R \in SUBSET V : /\ IsFiniteSet(R) /\ Cardinality(R) \in Nat
                            /\ \A x \in R : Cardinality(R \ {x}) = Cardinality(R) - 1
    BY FS_Subset, FS_CardinalityType, FS_RemoveElement
  <1>2. \A R \in SUBSET V : /\ SumOf(w, R) \in Nat
                            /\ \A x \in R : SumOf(w, R) = w[x] + SumOf(w, R \ {x})
    <2>1. SUFFICES ASSUME NEW R \in SUBSET V
          PROVE  /\ SumOf(w, R) \in Nat
                 /\ \A x \in R : SumOf(w, R) = w[x] + SumOf(w, R \ {x})
      OBVIOUS
    <2>2. IsFiniteSet(R) /\ \A x \in R : w[x] \in Nat
      BY <1>1
    <2> QED
      BY <2>2, SumTakes
  <1>3. ASSUME Bad # {} PROVE FALSE
    <2>1. T \subseteq Nat /\ T # {}
      <3> HIDE DEF Same
      <3> QED
        BY <1>1, <1>3
    <2> HIDE DEF T
    <2>2. PICK n \in T : \A k \in T : n <= k
      BY <2>1, Least
    <2>3. PICK R \in SUBSET V : S \subseteq R /\ ~Same(R) /\ n = Cardinality(R)
      <3> HIDE DEF Same
      <3> QED
        BY <2>2 DEF T
    <2>4. S # R
      BY <2>3
    <2>5. PICK x \in R : x \notin S
      BY <2>3, <2>4
    <2> DEFINE Q == R \ {x}
    <2>6. Q \in SUBSET V /\ S \subseteq Q /\ Cardinality(Q) = n - 1 /\ n \in Nat
      BY <1>1, <2>3, <2>5
    <2>7. SumOf(w, R) = w[x] + SumOf(w, Q) /\ w[x] = 0 /\ SumOf(w, Q) \in Nat
      BY <1>2, <2>3, <2>5, <2>6
    <2> HIDE DEF Q
    <2>8. Same(Q)
      <3>1. SUFFICES ASSUME ~Same(Q) PROVE FALSE
        OBVIOUS
      <3>2. n - 1 \in T
        <4> HIDE DEF Same
        <4> QED
          BY <2>6, <3>1 DEF T
      <3> QED
        BY <2>2, <2>6, <3>2
    <2> QED
      BY <2>3, <2>7, <2>8
  <1> QED
    BY <1>2, <1>3

Held(w, a) == {o \in Orders : o.owner = w /\ SpentAsset(o) = a}
Needed(s) == [o \in Orders |-> Needs(o, s.active[o])]
Exact(s) == \A w \in Owners, a \in Assets : s.openVolume[w][a] = SumOf(Needed(s), Held(w, a))

\* When what is left of one order changes, the volume of its asset does as well.
LEMMA SetsKeepsExact ==
  ASSUME NEW s \in ActorStates, Exact(s), NEW o \in Orders, NEW n \in Nat, NEW t, Leaves(s, o, n, t)
  PROVE  Exact(t)
  <1>1. /\ s.active \in Counts /\ s.openVolume \in Volumes /\ t.active = [s.active EXCEPT ![o] = n]
        /\ t.openVolume = More(s.openVolume, o, Needs(o, n) - Needs(o, s.active[o]))
    BY StateFields DEF Leaves
  <1>2. \A x \in Orders : s.active[x] \in Nat /\ t.active[x] = IF x = o THEN n ELSE s.active[x]
    BY <1>1 DEF Counts
  <1> DEFINE v == Needed(s)
             u == Needed(t)
             d == Needs(o, n) - Needs(o, s.active[o])
  <1>3. \A x \in Orders : v[x] \in Nat /\ u[x] \in Nat /\ (x # o => u[x] = v[x])
    BY <1>2, NeedsTyped DEF Needed
  <1>4. v[o] = Needs(o, s.active[o]) /\ u[o] = Needs(o, n)
    BY <1>2 DEF Needed
  <1> HIDE DEF v, u
  <1>5. ASSUME NEW w \in Owners, NEW a \in Assets
        PROVE  t.openVolume[w][a] = SumOf(u, Held(w, a))
    <2> DEFINE H == Held(w, a)
               R == H \ {o}
    <2>1. IsFiniteSet(H) /\ IsFiniteSet(R) /\ H \subseteq Orders
      BY OrdersAssumption, FS_Subset DEF Held
    <2>2. o \in H <=> o.owner = w /\ SpentAsset(o) = a
      BY DEF Held
    <2>3. s.openVolume[w][a] = SumOf(v, H) /\ s.openVolume[w][a] \in Int
      BY <1>1 DEF Exact, v, Volumes
    <2>4. t.openVolume[w][a] = IF o \in H THEN s.openVolume[w][a] + d ELSE s.openVolume[w][a]
      <3> HIDE DEF H, d
      <3>1. t.openVolume = More(s.openVolume, o, d)
        BY <1>1 DEF d
      <3> QED
        BY <1>1, <2>2, <3>1 DEF More, Volumes
    <2> HIDE DEF H
    <2>5. CASE o \in H
      <3>1. /\ SumOf(v, H) = v[o] + SumOf(v, R) /\ SumOf(u, H) = u[o] + SumOf(u, R)
            /\ SumOf(v, R) \in Nat
        <4>1. (\A x \in H : v[x] \in Nat) /\ (\A x \in H : u[x] \in Nat) /\ (\A x \in R : v[x] \in Nat)
          BY <1>3, <2>1
        <4> QED
          BY <2>1, <2>5, <4>1, SumTakes
      <3>2. SumOf(u, R) = SumOf(v, R)
        <4>1. \A x \in R : u[x] = v[x]
          BY <1>3, <2>1
        <4> HIDE DEF R
        <4> QED
          BY <2>1, <4>1, SumIsSame
      <3>3. v[o] \in Nat /\ u[o] \in Nat
        BY <1>3
      <3> QED
        BY <1>4, <2>3, <2>4, <2>5, <3>1, <3>2, <3>3 DEF H
    <2>6. CASE o \notin H
      <3>1. \A x \in H : u[x] = v[x]
        BY <1>3, <2>1, <2>6
      <3>2. SumOf(u, H) = SumOf(v, H)
        BY <2>1, <3>1, SumIsSame
      <3> QED
        BY <2>3, <2>4, <2>6, <3>2 DEF H
    <2> QED
      BY <2>5, <2>6
  <1> QED
    BY <1>5 DEF Exact, u

\* What the active orders of an owner need is what is counted here.
LEMMA HeldIs ==
  ASSUME NEW s \in ActorStates, NEW w, NEW a
  PROVE  MapThenSumSet(LAMBDA o : RequiredBalance(ActiveOrder(s, o)),
                       {o \in {x \in Orders : x.owner = w /\ s.active[x] > 0} : SpentAsset(o) = a})
           = SumOf(Needed(s), Held(w, a))
  <1> DEFINE S == {o \in {x \in Orders : x.owner = w /\ s.active[x] > 0} : SpentAsset(o) = a}
             R(o) == RequiredBalance(ActiveOrder(s, o))
             v == [o \in S |-> R(o)]
             Is(f) == f = [r \in SUBSET S |-> IF r = {} THEN 0 ELSE R(Pick(r)) + f[r \ {Pick(r)}]]
  <1>1. IsFiniteSet(S) /\ IsFiniteSet(Held(w, a)) /\ S \subseteq Held(w, a) /\ Held(w, a) \subseteq Orders
    BY OrdersAssumption, FS_Subset DEF Held
  <1>2. MapThenSumSet(LAMBDA o : RequiredBalance(ActiveOrder(s, o)), S) = (CHOOSE h : Is(h))[S]
    BY DEF MapThenSumSet, MapThenFoldSet, Pick
  <1>3. \A r \in SUBSET S : r # {} => Pick(r) \in S /\ v[Pick(r)] = R(Pick(r))
    BY DEF Pick
  <1>4. \A f : Is(f) <=> SumsTo(f, v, S)
    <2> HIDE DEF v, S, R
    <2> QED
      BY <1>3 DEF SumsTo
  <1>5. SumsTo(CHOOSE h : SumsTo(h, v, S), v, S)
    <2> HIDE DEF v, S
    <2> QED
      BY <1>1, SumOfIs
  <1>6. \E f : Is(f)
    <2> HIDE DEF v, Is, S
    <2> QED
      BY <1>4, <1>5
  <1>7. Is(CHOOSE h : Is(h))
    <2> HIDE DEF Is
    <2> QED
      BY <1>6
  <1> DEFINE f == CHOOSE h : Is(h)
             g == CHOOSE h : SumsTo(h, v, S)
  <1>8. SumsTo(f, v, S) /\ SumsTo(g, v, S)
    <2> HIDE DEF v, Is, S
    <2> QED
      BY <1>4, <1>5, <1>7
  <1>9. SumOf(v, S) = g[S]
    BY DEF SumOf
  <1> HIDE DEF f, g
  <1>10. SumOf(v, S) = f[S]
    <2> HIDE DEF v, S
    <2>1. \A r \in SUBSET S : g[r] = f[r]
      BY <1>1, <1>8, SumIsUnique
    <2>2. S \in SUBSET S
      OBVIOUS
    <2> QED
      BY <1>9, <2>1, <2>2
  <1>11. \A x \in Orders : s.active[x] \in Nat
    BY StateFields DEF Counts
  <1>12. SumOf(v, S) = SumOf(Needed(s), S)
    <2>1. \A x \in S : v[x] = Needed(s)[x]
      BY DEF Needed, Needs, ActiveOrder
    <2> HIDE DEF v, S
    <2> QED
      BY <1>1, <2>1, SumIsSame
  <1>13. SumOf(Needed(s), S) = SumOf(Needed(s), Held(w, a))
    <2>1. \A x \in Held(w, a) : Needed(s)[x] \in Nat
      BY <1>1, <1>11, NeedsTyped DEF Needed
    <2>2. \A x \in Held(w, a) \ S : Needed(s)[x] = 0
      BY <1>1, <1>11, NeedsTyped DEF Needed, Held
    <2> HIDE DEF S
    <2> QED
      BY <1>1, <2>1, <2>2, SumWithout
  <1> QED
    BY <1>2, <1>10, <1>12, <1>13 DEF f

\* Every event of the book keeps the volume exact.
LEMMA EventKeepsExact ==
  ASSUME NEW s \in ActorStates, Exact(s), NEW w \in Owners, NEW e \in Events
  PROVE  HandleEvent(s, w, e) \in ActorStates /\ Exact(HandleEvent(s, w, e))
  <1>1. CASE e.type = "added"
    <2> DEFINE t == HandleOrderAdded(Release(s, e.lo.order), e.lo)
    <2>1. e.lo \in Limits /\ e.lo.order \in Orders /\ e.lo.amount \in Nat
      BY <1>1, LimitIs DEF Events
    <2>2. HandleEvent(s, w, e) = t
      BY <1>1 DEF HandleEvent, OnOrderAdded
    <2>3. Sets(s, e.lo.order, e.lo.amount, t)
      BY <2>1, AddedSets
    <2> HIDE DEF t
    <2> QED
      BY <2>1, <2>2, <2>3, SetsKeepsExact DEF Sets, Leaves
  <1>2. CASE e.type = "canceled"
    <2> DEFINE t == OnOrderCanceled(s, e)
    <2>1. e.lo \in Limits /\ e.lo.order \in Orders /\ e.unmatchable \in BOOLEAN
      BY <1>2, LimitIs DEF Events
    <2>2. HandleEvent(s, w, e) = t
      BY <1>2 DEF HandleEvent
    <2>3. Sets(s, e.lo.order, 0, t)
      BY <2>1, CanceledSets
    <2> HIDE DEF t
    <2> QED
      BY <2>1, <2>2, <2>3, SetsKeepsExact DEF Sets, Leaves
  <1>3. CASE e.type = "executed"
    <2> DEFINE Of1(t, lo) == IF lo.order.owner = w THEN HandleOrderExecuted(t, Remaining(lo, e.amount)) ELSE t
               t1 == Of1(s, e.submitted)
               t2 == Of1(t1, e.counter)
    <2>1. e.submitted \in Limits /\ e.counter \in Limits /\ e.amount \in Nat
      BY <1>3 DEF Events
    <2>2. HandleEvent(s, w, e) = t2
      BY <1>3 DEF HandleEvent, OnOrderExecuted
    <2>3. ASSUME NEW t \in ActorStates, Exact(t), NEW lo \in Limits
          PROVE  Of1(t, lo) \in ActorStates /\ Exact(Of1(t, lo))
      <3> DEFINE left == Remaining(lo, e.amount)
                 u == HandleOrderExecuted(t, left)
      <3>1. left \in Limits /\ left.order \in Orders /\ Lasts(left) \in Nat
        BY <2>1, RemainingTyped, LimitIs
      <3>2. Sets(t, left.order, Lasts(left), u)
        BY <3>1, ExecutedSets
      <3> HIDE DEF u, left
      <3>3. u \in ActorStates /\ Exact(u)
        BY <2>3, <3>1, <3>2, SetsKeepsExact DEF Sets, Leaves
      <3> QED
        BY <2>3, <3>3 DEF u, left
    <2> HIDE DEF Of1
    <2>4. t1 \in ActorStates /\ Exact(t1)
      BY <2>1, <2>3
    <2> HIDE DEF t1
    <2>5. t2 \in ActorStates /\ Exact(t2)
      BY <2>1, <2>3, <2>4
    <2> QED
      BY <2>2, <2>5
  <1> QED
    BY <1>1, <1>2, <1>3 DEF Events

\* What is submitted is held back.
LEMMA PlacesExact ==
  ASSUME NEW s \in ActorStates, Exact(s), NEW o \in Orders, s.active[o] = 0, NEW t,
         t = [Reserve(s, LimitOrder(o)) EXCEPT !.pendingPlacement = @ \cup {o}]
  PROVE  /\ t \in ActorStates /\ Exact(t) /\ t.active = [s.active EXCEPT ![o] = o.amount] /\ t.info = s.info
         /\ t.pendingPlacement = s.pendingPlacement \cup {o}
  <1> DEFINE i == s.info
             a == s.active
             v == s.openVolume
             p == s.pendingPlacement
             c == s.pendingCancellation
             e == s.expiration
             r == Reserve(s, LimitOrder(o))
             a2 == [a EXCEPT ![o] = o.amount]
             d == Needs(o, o.amount)
             v2 == More(v, o, d)
             p2 == p \cup {o}
  <1>1. i \in InfoMaps /\ a \in Counts /\ v \in Volumes /\ p \in OrderSets /\ c \in OrderSets /\ e \in Counts
    BY StateFields
  <1>2. o.amount \in Nat /\ d \in Nat /\ Needs(o, a[o]) = 0
    BY OrdersAssumption, NeedsTyped
  <1>3. LimitOrder(o) = [order |-> o, amount |-> o.amount] /\ RequiredBalance(LimitOrder(o)) = d
    BY DEF LimitOrder, Needs
  <1>4. IsState(r, i, a2, v2, p, c, e)
    <2>1. IsState(s, i, a, v, p, c, e)
      BY StateIs
    <2> DEFINE lo == LimitOrder(o)
    <2>2. lo.order = o /\ lo.amount = o.amount /\ RequiredBalance(lo) = d
      BY <1>3
    <2> HIDE DEF i, a, v, p, c, e, lo, d
    <2>3. IsState(Reserve(s, lo), i, [a EXCEPT ![lo.order] = lo.amount], More(v, lo.order, RequiredBalance(lo)), p, c, e)
      BY <2>1, ReserveIs
    <2> QED
      BY <2>2, <2>3 DEF lo
  <1> HIDE DEF r
  <1>5. t = [r EXCEPT !.pendingPlacement = p2]
    <2>1. r.pendingPlacement = p
      BY <1>4 DEF IsState
    <2> QED
      BY <1>4, <2>1 DEF r, IsState
  <1>6. IsState(t, i, a2, v2, p2, c, e)
    <2> HIDE DEF i, a2, v2, p, p2, c, e
    <2> QED
      BY <1>4, <1>5 DEF IsState
  <1>7. a2 \in Counts /\ v2 \in Volumes /\ p2 \in OrderSets
    <2>1. a2 \in Counts
      BY <1>1, <1>2 DEF Counts
    <2>2. v2 \in Volumes
      <3> HIDE DEF d, v
      <3> QED
        BY <1>1, <1>2, MoreTyped
    <2>3. p2 \in OrderSets
      BY <1>1 DEF OrderSets
    <2> QED
      BY <2>1, <2>2, <2>3
  <1>8. t \in ActorStates /\ t.info = i /\ t.active = a2 /\ t.openVolume = v2 /\ t.pendingPlacement = p2
    <2> HIDE DEF i, a2, v2, p2, c, e
    <2> QED
      BY <1>1, <1>6, <1>7, StateTyped
  <1>9. Leaves(s, o, o.amount, t)
    <2>1. d = Needs(o, o.amount) - Needs(o, s.active[o])
      BY <1>2
    <2> HIDE DEF d
    <2> QED
      BY <1>8, <2>1 DEF Leaves
  <1>10. Exact(t)
    BY <1>2, <1>9, SetsKeepsExact
  <1> QED
    BY <1>8, <1>10

\* A process that starts holds nothing back.
LEMMA StartsExact ==
  ASSUME NEW i \in InfoMaps
  PROVE  /\ Started(i) \in ActorStates /\ Exact(Started(i))
         /\ Started(i).info = i /\ Started(i).active = [o \in Orders |-> 0] /\ Started(i).pendingPlacement = {}
  <1> DEFINE t == Started(i)
             a == [o \in Orders |-> 0]
             v == [w \in Owners |-> [b \in Assets |-> 0]]
  <1>1. IsState(t, i, a, v, {}, {}, a)
    BY DEF Started, IsState
  <1>2. a \in Counts /\ v \in Volumes /\ {} \in OrderSets
    BY DEF Counts, Volumes, OrderSets
  <1>3. t \in ActorStates /\ t.info = i /\ t.active = a /\ t.openVolume = v /\ t.pendingPlacement = {}
    <2> HIDE DEF t, a, v
    <2> QED
      BY <1>1, <1>2, StateTyped
  <1>4. ASSUME NEW w \in Owners, NEW b \in Assets
        PROVE  t.openVolume[w][b] = SumOf(Needed(t), Held(w, b))
    <2>1. \A x \in Orders : Needed(t)[x] = 0
      BY <1>3, NeedsTyped, 0 \in Nat DEF Needed
    <2>2. IsFiniteSet(Held(w, b)) /\ Held(w, b) \subseteq Orders
      BY OrdersAssumption, FS_Subset DEF Held
    <2>3. SumOf(Needed(t), {}) = SumOf(Needed(t), Held(w, b))
      BY <2>1, <2>2, SumWithout
    <2>4. SumOf(Needed(t), {}) = 0
      BY SumPicks, FS_EmptySet
    <2>5. t.openVolume[w][b] = 0
      BY <1>3
    <2> QED
      BY <2>3, <2>4, <2>5
  <1> QED
    BY <1>3, <1>4 DEF Exact

-----------------------------------------------------------------------------
(* The types of what is on the way, and the first theorem *)

Letters == [event : Events, offset : Int]

Types ==
  /\ queue \in Seq(Commands) /\ handled \in 0 .. Len(queue) /\ book \in Books
  /\ events \in [Owners -> Seq(Letters)]
  /\ actors \in ActorStates

\* What an owner gets is a letter for each event.
LEMMA ToOwnerTyped ==
  ASSUME NEW es \in Seq(Events), NEW w, NEW offset \in Int
  PROVE  /\ ToOwner(w, es, offset) \in Seq(Letters)
         /\ \E own \in Seq(Events) : /\ own = Among(es, {e \in ToSet(es) : Concerns(e, w)})
                                     /\ ToOwner(w, es, offset) = [i \in 1 .. Len(own) |-> [event |-> own[i], offset |-> offset]]
  <1> DEFINE own == Among(es, {e \in ToSet(es) : Concerns(e, w)})
             letters == [i \in DOMAIN own |-> [event |-> own[i], offset |-> offset]]
  <1>1. own \in Seq(Events)
    BY AmongTyped
  <1>2. ToOwner(w, es, offset) = letters
    BY DEF ToOwner
  <1> HIDE DEF own
  <1>3. DOMAIN own = 1 .. Len(own) /\ Len(own) \in Nat /\ \A i \in DOMAIN own : own[i] \in Events
    BY <1>1
  <1>4. letters \in Seq(Letters)
    <2>1. \A i \in 1 .. Len(own) : letters[i] \in Letters
      BY <1>3 DEF Letters
    <2>2. letters \in [1 .. Len(own) -> Letters]
      BY <1>3, <2>1
    <2> QED
      BY <1>3, <2>2, SeqDef
  <1>5. letters = [i \in 1 .. Len(own) |-> [event |-> own[i], offset |-> offset]]
    BY <1>3
  <1> HIDE DEF letters
  <1> QED
    BY <1>1, <1>2, <1>4, <1>5 DEF own

\* The commands that are stored are at the end of the queue, in their order.
LEMMA StoreAppends ==
  ASSUME Types, NEW C, C \subseteq Commands, NEW commands \in Seq(C), Store(commands)
  PROVE  \E stored \in Seq(C) : queue' = queue \o stored /\ stored \in Seq(Commands)
  <1>1. PICK failed \in SUBSET Unreliable :
          queue' = queue \o Among(commands, {c \in ToSet(commands) : c.order \notin failed})
    BY DEF Store
  <1> DEFINE stored == Among(commands, {c \in ToSet(commands) : c.order \notin failed})
  <1>2. stored \in Seq(C)
    BY AmongTyped
  <1>3. stored \in Seq(Commands)
    <2> HIDE DEF stored
    <2> QED
      BY <1>2, SeqMonotonic
  <1> QED
    BY <1>1, <1>2, <1>3

\* A longer queue.
LEMMA LongerQueue ==
  ASSUME Types, NEW stored \in Seq(Commands), queue' = queue \o stored
  PROVE  /\ queue' \in Seq(Commands) /\ Len(queue') = Len(queue) + Len(stored) /\ handled \in 0 .. Len(queue')
         /\ \A i \in 1 .. Len(queue) : queue'[i] = queue[i]
         /\ \A i \in Len(queue) + 1 .. Len(queue') : queue'[i] = stored[i - Len(queue)] /\ i - Len(queue) \in 1 .. Len(stored)
  <1>1. queue \in Seq(Commands) /\ handled \in 0 .. Len(queue)
    BY DEF Types
  <1>2. queue' \in Seq(Commands) /\ Len(queue') = Len(queue) + Len(stored)
    BY <1>1, ConcatProperties
  <1>3. Len(queue) \in Nat /\ Len(stored) \in Nat
    BY <1>1
  <1>4. \A i \in 1 .. Len(queue) + Len(stored) :
          queue'[i] = IF i <= Len(queue) THEN queue[i] ELSE stored[i - Len(queue)]
    BY <1>1, ConcatProperties
  <1> QED
    BY <1>1, <1>2, <1>3, <1>4

\* What is to be deleted are orders.
LEMMA DeletesOrders ==
  ASSUME Types, NEW S, S \subseteq Orders, NEW sorted \in OldestFirst(S), NEW balance \in Int
  PROVE  OrdersToDelete(sorted, balance) \in Seq(Orders)
  <1> DEFINE N == Len(sorted)
             Cover(r, o) ==
               LET rest == r.rest - RequiredBalance(ActiveOrder(actors, o)) IN
               IF rest >= 0 THEN [rest |-> rest, toDelete |-> r.toDelete]
               ELSE IF o \in actors.pendingCancellation THEN r
               ELSE [rest |-> r.rest, toDelete |-> Append(r.toDelete, o)]
             V == [rest : Int, toDelete : Seq(Orders)]
             first == [rest |-> balance, toDelete |-> <<>>]
             Is(f) == f = [i \in 0 .. N |-> IF i = 0 THEN first ELSE Cover(f[i - 1], sorted[i])]
             G == [x \in V \X (1 .. N) |-> Cover(x[1], sorted[x[2]])]
  <1>1. N \in Nat /\ \A i \in 1 .. N : sorted[i] \in Orders
    <2>1. IsFiniteSet(S)
      BY OrdersAssumption, FS_Subset
    <2>2. Cardinality(S) \in Nat
      BY <2>1, FS_CardinalityType
    <2>3. sorted \in [1 .. Cardinality(S) -> S]
      BY DEF OldestFirst
    <2>4. sorted \in Seq(S)
      BY <2>2, <2>3, SeqDef
    <2> QED
      BY <2>4
  <1>2. first \in V
    OBVIOUS
  <1>3. \A v \in V, o \in Orders : Cover(v, o) \in V
    <2>1. SUFFICES ASSUME NEW v \in V, NEW o \in Orders PROVE Cover(v, o) \in V
      OBVIOUS
    <2>2. actors.active[o] \in Nat
      BY StateFields DEF Types, Counts
    <2>3. RequiredBalance(ActiveOrder(actors, o)) \in Nat
      <3>1. RequiredBalance(ActiveOrder(actors, o)) = Needs(o, actors.active[o])
        BY DEF ActiveOrder, Needs
      <3> QED
        BY <2>2, <3>1, NeedsTyped
    <2>4. v.rest \in Int /\ v.toDelete \in Seq(Orders) /\ Append(v.toDelete, o) \in Seq(Orders)
      OBVIOUS
    <2> QED
      BY <2>3, <2>4
  <1> HIDE DEF N, V, first, Cover
  <1>4. G \in [V \X (1 .. N) -> V]
    BY <1>1, <1>3
  <1>5. \A v \in V, i \in 1 .. N : G[<<v, i>>] = Cover(v, sorted[i])
    OBVIOUS
  <1>6. OrdersToDelete(sorted, balance) = (CHOOSE f : Is(f))[N].toDelete
    BY DEF OrdersToDelete, N, Cover, first
  <1> HIDE DEF G
  <1>7. PICK f : Repeats(f, first, N, G, V)
    <2>1. \E f : Repeats(f, first, N, G, V)
      BY <1>1, <1>2, <1>4, Recursion
    <2> QED
      BY <2>1
  <1>8. Is(f)
    <2>1. f = [i \in 0 .. N |-> f[i]] /\ \A i \in 0 .. N : f[i] \in V
      BY <1>7 DEF Repeats
    <2>2. \A i \in 0 .. N : f[i] = IF i = 0 THEN first ELSE Cover(f[i - 1], sorted[i])
      <3>1. \A i \in 0 .. N : i = 0 \/ (i \in 1 .. N /\ i - 1 \in 0 .. N)
        BY <1>1
      <3> QED
        BY <1>5, <1>7, <2>1, <3>1 DEF Repeats
    <2> QED
      BY <2>1, <2>2
  <1> DEFINE g == CHOOSE h : Is(h)
  <1>9. Is(g)
    <2> HIDE DEF Is
    <2> QED
      BY <1>8
  <1>10. OrdersToDelete(sorted, balance) = g[N].toDelete
    BY <1>6
  <1> HIDE DEF g
  <1>11. 0 .. N \subseteq {i \in 0 .. N : g[i] \in V}
    <2> DEFINE Fine == {i \in 0 .. N : g[i] \in V}
    <2>1. 0 \in Fine
      BY <1>1, <1>2, <1>9
    <2>2. ASSUME NEW i \in 1 .. N, i - 1 \in Fine PROVE i \in Fine
      <3>1. i \in 0 .. N /\ i # 0 /\ g[i] = Cover(g[i - 1], sorted[i])
        BY <1>1, <1>9
      <3> QED
        BY <1>1, <1>3, <2>2, <3>1
    <2> HIDE DEF Fine
    <2>3. 0 .. N \subseteq Fine
      BY <1>1, <2>1, <2>2, CountUp
    <2> QED
      BY <2>3 DEF Fine
  <1>12. g[N] \in V
    BY <1>1, <1>11
  <1> QED
    BY <1>10, <1>12 DEF V

ReservedInv == Types /\ Exact(actors)

\* A process that starts reserves nothing and has nothing active.
LEMMA ReservedInit == Init => ReservedInv
  <1>1. SUFFICES ASSUME Init PROVE ReservedInv
    OBVIOUS
  <1>2. [o \in Orders |-> NoInfo] \in InfoMaps
    BY DEF NoInfo, Infos, InfoMaps
  <1>3. actors \in ActorStates /\ Exact(actors)
    BY <1>1, <1>2, StartsExact DEF Init
  <1>4. book \in Books
    BY <1>1 DEF Init, EmptyBook, Books
  <1>5. events \in [Owners -> Seq(Letters)]
    BY <1>1 DEF Init
  <1>6. queue \in Seq(Commands) /\ handled \in 0 .. Len(queue)
    BY <1>1 DEF Init
  <1> QED
    BY <1>3, <1>4, <1>5, <1>6 DEF ReservedInv, Types

\* Whoever does not move leaves the types as they are.
LEMMA TypesStored ==
  ASSUME Types, NEW stored \in Seq(Commands), queue' = queue \o stored,
         UNCHANGED <<handled, book, events>>, actors' \in ActorStates
  PROVE  Types'
  <1>1. queue' \in Seq(Commands) /\ handled \in 0 .. Len(queue')
    BY LongerQueue
  <1> QED
    BY <1>1 DEF Types

\* The book's events are events, each in the mailbox of owners it concerns.
LEMMA ReservedBookHandles ==
  ASSUME ReservedInv, BookHandles
  PROVE  ReservedInv'
  <1> DEFINE c == queue[handled + 1]
             r == Handle(book, c, handled)
  <1>1. /\ Types /\ handled \in 0 .. Len(queue) /\ handled < Len(queue) /\ c \in Commands /\ handled \in Int
    BY DEF ReservedInv, Types, BookHandles
  <1>2. r.book \in Books /\ r.events \in Seq(Events)
    BY <1>1, HandleTyped DEF Types
  <1>3. /\ book' = r.book /\ Publish(r.events) /\ handled' = handled + 1 /\ queue' = queue /\ actors' = actors
    BY DEF BookHandles
  <1> HIDE DEF r
  <1>4. events' \in [Owners -> Seq(Letters)]
    <2>1. \A w \in Owners : ToOwner(w, r.events, handled) \in Seq(Letters)
      BY <1>1, <1>2, ToOwnerTyped
    <2>2. \A w \in Owners : events[w] \in Seq(Letters)
      BY <1>1 DEF Types
    <2>3. \A w \in Owners : events[w] \o ToOwner(w, r.events, handled) \in Seq(Letters)
      BY <2>1, <2>2, ConcatProperties
    <2> QED
      BY <1>3, <2>3 DEF Publish
  <1> QED
    BY <1>1, <1>2, <1>3, <1>4 DEF ReservedInv, Types, Exact, Needed

\* An actor's next event keeps the volume exact.
LEMMA ReservedActorHandles ==
  ASSUME ReservedInv, NEW w \in Owners, ActorHandles(w)
  PROVE  ReservedInv'
  <1> DEFINE e == Head(events[w]).event
             t == HandleEvent(actors, w, e)
  <1>1. /\ Types /\ events \in [Owners -> Seq(Letters)] /\ actors \in ActorStates /\ Exact(actors)
        /\ events[w] \in Seq(Letters) /\ events[w] # <<>>
    BY DEF ReservedInv, Types, ActorHandles
  <1>2. Head(events[w]) \in Letters /\ Tail(events[w]) \in Seq(Letters)
    BY <1>1
  <1>3. e \in Events
    BY <1>2 DEF Letters
  <1>4. /\ actors' = t /\ events' = [events EXCEPT ![w] = Tail(events[w])]
        /\ UNCHANGED <<queue, handled, book>>
    BY DEF ActorHandles
  <1> HIDE DEF e
  <1>5. t \in ActorStates /\ Exact(t)
    BY <1>1, <1>3, EventKeepsExact
  <1>6. events' \in [Owners -> Seq(Letters)]
    BY <1>1, <1>2, <1>4
  <1> HIDE DEF t
  <1>7. Types'
    BY <1>1, <1>4, <1>5, <1>6 DEF Types
  <1>8. Exact(actors')
    BY <1>4, <1>5
  <1>9. Exact(actors)'
    BY <1>8 DEF Exact, Needed
  <1> QED
    BY <1>7, <1>9 DEF ReservedInv

\* One more order waits for a cancellation, or some do.
Cancelling(s, t) == t \in ActorStates /\ t.active = s.active /\ t.info = s.info /\ t.openVolume = s.openVolume
                      /\ t.pendingPlacement = s.pendingPlacement

\* A cancellation that is only asked for changes no volume.
LEMMA CancellingExact ==
  ASSUME NEW s, NEW t, Exact(s), Cancelling(s, t)
  PROVE  Exact(t)
  <1>1. Needed(t) = Needed(s) /\ t.openVolume = s.openVolume
    BY DEF Needed, Cancelling
  <1> QED
    BY <1>1 DEF Exact

\* Asking for cancellations keeps what is active and the volume.
LEMMA CancellingIs ==
  ASSUME NEW s \in ActorStates, NEW S \in OrderSets, NEW e \in Counts, NEW t,
         t = [s EXCEPT !.pendingCancellation = @ \cup S]
           \/ t = [s EXCEPT !.expiration = e, !.pendingCancellation = @ \cup S]
  PROVE  Cancelling(s, t)
  <1> DEFINE c == s.pendingCancellation \cup S
             s1 == [s EXCEPT !.expiration = e]
  <1>1. /\ s.info \in InfoMaps /\ s.active \in Counts /\ s.openVolume \in Volumes
        /\ s.pendingPlacement \in OrderSets /\ c \in OrderSets /\ s.expiration \in Counts
    BY StateFields DEF OrderSets
  <1>2. IsState(s, s.info, s.active, s.openVolume, s.pendingPlacement, s.pendingCancellation, s.expiration)
    BY StateIs
  <1>3. IsState(s1, s.info, s.active, s.openVolume, s.pendingPlacement, s.pendingCancellation, e)
    BY <1>2 DEF IsState
  <1>4. t = [s EXCEPT !.pendingCancellation = c] \/ t = [s1 EXCEPT !.pendingCancellation = c]
    BY <1>2 DEF IsState
  <1> HIDE DEF c, s1
  <1>5. CASE t = [s EXCEPT !.pendingCancellation = c]
    <2>1. IsState(t, s.info, s.active, s.openVolume, s.pendingPlacement, c, s.expiration)
      BY <1>2, <1>5 DEF IsState
    <2> QED
      BY <1>1, <2>1, StateTyped DEF Cancelling
  <1>6. CASE t = [s1 EXCEPT !.pendingCancellation = c]
    <2>1. IsState(t, s.info, s.active, s.openVolume, s.pendingPlacement, c, e)
      BY <1>3, <1>6 DEF IsState
    <2> QED
      BY <1>1, <2>1, StateTyped DEF Cancelling
  <1> QED
    BY <1>4, <1>5, <1>6

Cancellations == [type : {"canceled"}, order : Orders]

\* Some cancellations are stored.
StoresCancellations ==
  /\ \E stored \in Seq(Cancellations) : queue' = queue \o stored /\ stored \in Seq(Commands)
  /\ UNCHANGED <<handled, book, events, working, restarts>>
  /\ Cancelling(actors, actors')

\* StoreCanceled stores cancellations.
LEMMA StoreCanceledIs ==
  ASSUME Types, NEW orders \in Seq(Orders), StoreCanceled(orders)
  PROVE  StoresCancellations
  <1> DEFINE commands == [i \in DOMAIN orders |-> Canceled(orders[i])]
             c == actors.pendingCancellation
             S == ToSet(orders)
  <1>1. DOMAIN orders = 1 .. Len(orders) /\ Len(orders) \in Nat /\ \A i \in 1 .. Len(orders) : orders[i] \in Orders
    OBVIOUS
  <1>2. commands \in Seq(Cancellations)
    <2>1. \A i \in 1 .. Len(orders) : commands[i] \in Cancellations
      BY <1>1 DEF Canceled, Cancellations
    <2>2. commands \in [1 .. Len(orders) -> Cancellations]
      BY <1>1, <2>1
    <2> QED
      BY <1>1, <2>2, SeqDef
  <1>3. Store(commands) /\ UNCHANGED <<handled, book, events, working, restarts>>
        /\ actors' = [actors EXCEPT !.pendingCancellation = @ \cup S]
    BY DEF StoreCanceled
  <1>4. S \in OrderSets
    BY <1>1 DEF ToSet, OrderSets
  <1>5. Cancelling(actors, actors')
    <2> HIDE DEF S
    <2>1. actors \in ActorStates
      BY DEF Types
    <2> DEFINE s == actors
               t == actors'
    <2>2. t = [s EXCEPT !.pendingCancellation = @ \cup S]
      BY <1>3
    <2>3. \A e \in Counts : Cancelling(s, t)
      <3>1. s \in ActorStates
        BY <2>1
      <3> HIDE DEF s, t
      <3> QED
        BY <1>4, <2>2, <3>1, CancellingIs
    <2> QED
      BY <2>1, <2>3, StateFields
  <1> HIDE DEF commands
  <1>6. Cancellations \subseteq Commands
    BY DEF Cancellations, Commands
  <1>7. \E stored \in Seq(Cancellations) : queue' = queue \o stored /\ stored \in Seq(Commands)
    BY <1>2, <1>3, <1>6, StoreAppends
  <1> QED
    BY <1>3, <1>5, <1>7 DEF StoresCancellations

\* So does each of the four handlers that cancel.
LEMMA CancellationsAre ==
  ASSUME Types,
         \/ \E o \in Orders : CancelActive(o) \/ CancelExpired(o)
         \/ \E w \in Owners : CancelAll(w)
         \/ \E w \in Owners, a \in Assets, b \in Spendable : BalanceUpdated(w, a, b)
  PROVE  StoresCancellations
  <1>1. ASSUME NEW o \in Orders, CancelActive(o) PROVE StoresCancellations
    <2>1. StoreCanceled(<<o>>) /\ <<o>> \in Seq(Orders)
      BY <1>1 DEF CancelActive
    <2> QED
      BY <2>1, StoreCanceledIs
  <1>2. ASSUME NEW o \in Orders, CancelExpired(o) PROVE StoresCancellations
    <2>1. queue \in Seq(Commands) /\ actors \in ActorStates
      BY DEF Types
    <2>2. PICK stored \in {<<Canceled(o)>>, <<>>} : queue' = queue \o stored
      <3>1. queue' = Append(queue, Canceled(o)) \/ queue' = queue
        BY <1>2 DEF CancelExpired
      <3>2. Canceled(o) \in Commands
        BY DEF Canceled, Commands
      <3>3. Append(queue, Canceled(o)) = queue \o <<Canceled(o)>> /\ queue = queue \o <<>>
        BY <2>1, <3>2, AppendIsConcat, ConcatEmptySeq
      <3> QED
        BY <3>1, <3>3
    <2>3. stored \in Seq(Cancellations) /\ stored \in Seq(Commands)
      <3> DEFINE c == Canceled(o)
      <3>1. c \in Cancellations /\ c \in Commands
        BY DEF Canceled, Cancellations, Commands
      <3>2. stored \in {<<c>>, <<>>}
        OBVIOUS
      <3> HIDE DEF c
      <3>3. <<c>> \in Seq(Cancellations) /\ <<c>> \in Seq(Commands)
        BY <3>1
      <3>4. <<>> \in Seq(Cancellations) /\ <<>> \in Seq(Commands)
        OBVIOUS
      <3> QED
        BY <3>2, <3>3, <3>4
    <2> DEFINE s == actors
               t == actors'
               e == [actors.expiration EXCEPT ![o] = @ - 1]
               S == {o}
    <2>4. actors.expiration \in Counts /\ actors.expiration[o] \in Nat /\ actors.expiration[o] > 0
      BY <1>2, <2>1, StateFields DEF Counts, CancelExpired
    <2>5. e \in Counts /\ S \in OrderSets
      BY <2>4 DEF Counts, OrderSets
    <2>6. t = [s EXCEPT !.expiration = e, !.pendingCancellation = @ \cup S]
      BY <1>2, <2>1 DEF CancelExpired, ActorStates
    <2>7. Cancelling(s, t)
      <3>1. s \in ActorStates
        BY <2>1
      <3> HIDE DEF s, t, e, S
      <3> QED
        BY <2>5, <2>6, <3>1, CancellingIs
    <2> QED
      BY <1>2, <2>2, <2>3, <2>7 DEF CancelExpired, StoresCancellations
  <1>3. ASSUME NEW w \in Owners, CancelAll(w) PROVE StoresCancellations
    <2> DEFINE S == ActiveOf(w)
               s == SetToSeq(S)
    <2>1. S \subseteq Orders /\ IsFiniteSet(S)
      BY OrdersAssumption, FS_Subset DEF ActiveOf
    <2>2. StoreCanceled(s)
      BY <1>3 DEF CancelAll
    <2> HIDE DEF S
    <2>3. s \in Seq(S)
      <3>1. PICK f : f \in Bijection(1 .. Cardinality(S), S)
        BY <2>1, FS_CardinalityType DEF ExistsBijection
      <3>2. Cardinality(S) \in Nat
        BY <2>1, FS_CardinalityType
      <3>3. f \in [1 .. Cardinality(S) -> S] /\ IsInjective(f)
        BY <3>1 DEF Bijection, Injection, Surjection, IsInjective
      <3>4. s \in [1 .. Cardinality(S) -> S]
        BY <3>3 DEF SetToSeq
      <3> QED
        BY <3>2, <3>4, SeqDef
    <2> HIDE DEF s
    <2>4. s \in Seq(Orders)
      BY <2>1, <2>3, SeqMonotonic
    <2> QED
      BY <2>2, <2>4, StoreCanceledIs
  <1>4. ASSUME NEW w \in Owners, NEW a \in Assets, NEW b \in Spendable, BalanceUpdated(w, a, b)
        PROVE  StoresCancellations
    <2> DEFINE S == {o \in ActiveOf(w) : SpentAsset(o) = a}
    <2>1. S \subseteq Orders /\ b \in Int
      BY SpendableAssumption DEF ActiveOf
    <2>2. PICK sorted \in OldestFirst(S) : StoreCanceled(OrdersToDelete(sorted, b))
      BY <1>4 DEF BalanceUpdated
    <2> HIDE DEF S
    <2>3. OrdersToDelete(sorted, b) \in Seq(Orders)
      BY <2>1, DeletesOrders
    <2> QED
      BY <2>2, <2>3, StoreCanceledIs
  <1> QED
    BY <1>1, <1>2, <1>3, <1>4

\* A placement is stored, or it is lost.
LEMMA PlacementIs ==
  ASSUME Types, NEW o \in Orders, PlaceOrder(o)
  PROVE  \E stored \in {<<Placed(o)>>, <<>>} :
           queue' = queue \o stored /\ stored \in Seq(Commands) /\ (stored = <<>> => o \in Unreliable)
  <1> DEFINE p == Placed(o)
             s == <<p>>
  <1>1. PICK failed \in SUBSET Unreliable :
          queue' = queue \o Among(s, {c \in ToSet(s) : c.order \notin failed})
    BY DEF PlaceOrder, Store
  <1> DEFINE S == {c \in ToSet(s) : c.order \notin failed}
  <1>2. p \in Commands /\ p.order = o
    BY DEF Placed, Commands
  <1>3. p \in S <=> o \notin failed
    BY <1>2 DEF ToSet
  <1> HIDE DEF p, S
  <1>4. s \in Seq(Commands) /\ Len(s) = 1 /\ s[1] = p
    BY <1>2
  <1> HIDE DEF s
  <1>5. PICK f : Keeps(f, s, S, Commands) /\ Among(s, S) = f[Len(s)]
    BY <1>4, AmongIs
  <1>6. f[0] = <<>> /\ f[1] = IF p \in S THEN Append(f[0], p) ELSE f[0]
    BY <1>4, <1>5 DEF Keeps
  <1>7. Among(s, S) = IF p \in S THEN <<p>> ELSE <<>>
    BY <1>4, <1>5, <1>6
  <1>10. queue' = queue \o Among(s, S)
    BY <1>1 DEF S
  <1>11. p = Placed(o)
    BY DEF p
  <1>8. CASE o \notin failed
    <2>1. queue' = queue \o <<p>> /\ <<p>> \in Seq(Commands) /\ <<p>> # <<>>
      BY <1>2, <1>3, <1>7, <1>8, <1>10
    <2> QED
      BY <1>11, <2>1
  <1>9. CASE o \in failed
    <2>1. queue' = queue \o <<>> /\ o \in Unreliable
      BY <1>3, <1>7, <1>9, <1>10
    <2>2. <<>> \in Seq(Commands)
      OBVIOUS
    <2> QED
      BY <2>1, <2>2
  <1> QED
    BY <1>8, <1>9

\* A restart starts the actors with nothing and offers them what rests.
LEMMA ReservedRestart ==
  ASSUME ReservedInv, Restart
  PROVE  ReservedInv'
  <1>1. Types /\ queue \in Seq(Commands) /\ actors \in ActorStates /\ handled \in 0 .. Len(queue) /\ Len(queue) \in Nat
    BY DEF ReservedInv, Types
  <1>2. PICK n \in 0 .. handled :
          LET resting == AllOrders(Replay(queue, n).book)
              offers  == [i \in DOMAIN resting |-> OrderAdded(resting[i])]
          IN  /\ handled' = n /\ book' = Replay(queue, n).book
              /\ events' = [w \in Owners |-> ToOwner(w, offers, n)]
    BY DEF Restart
  <1> DEFINE b == Replay(queue, n).book
             resting == AllOrders(b)
             offers == [i \in DOMAIN resting |-> OrderAdded(resting[i])]
  <1>3. n \in 0 .. Len(queue) /\ n \in Int
    BY <1>1
  <1>4. b \in Books
    BY <1>1, <1>3, ReplayIs DEF Replays
  <1> HIDE DEF b
  <1>5. resting \in Seq(Limits)
    BY <1>4, ConcatProperties DEF AllOrders, Books
  <1> HIDE DEF resting
  <1>6. offers \in Seq(Events)
    <2>1. DOMAIN resting = 1 .. Len(resting) /\ Len(resting) \in Nat
      BY <1>5
    <2>2. \A i \in 1 .. Len(resting) : offers[i] \in Events
      BY <1>5, <2>1, EventsAre
    <2>3. offers \in [1 .. Len(resting) -> Events]
      BY <2>1, <2>2
    <2> QED
      BY <2>1, <2>3, SeqDef
  <1>7. handled' = n /\ book' = b /\ events' = [w \in Owners |-> ToOwner(w, offers, n)]
    BY <1>2 DEF b, resting
  <1> HIDE DEF offers
  <1>8. events' \in [Owners -> Seq(Letters)]
    BY <1>3, <1>6, <1>7, ToOwnerTyped
  <1>9. queue' = queue /\ actors' = Started(actors.info)
    BY DEF Restart
  <1>10. actors' \in ActorStates /\ Exact(actors')
    <2>1. actors.info \in InfoMaps
      BY <1>1, StateFields
    <2> QED
      BY <1>9, <2>1, StartsExact
  <1>11. Exact(actors)'
    BY <1>10 DEF Exact, Needed
  <1> QED
    BY <1>1, <1>3, <1>4, <1>7, <1>8, <1>9, <1>10, <1>11 DEF ReservedInv, Types

\* Every step keeps the invariant.
LEMMA ReservedNext ==
  ASSUME ReservedInv, [Next]_vars
  PROVE  ReservedInv'
  <1>1. Types /\ Exact(actors) /\ actors \in ActorStates
    BY DEF ReservedInv, Types
  <1>2. CASE BookHandles
    BY <1>2, ReservedBookHandles
  <1>3. CASE \E w \in Owners : ActorHandles(w)
    BY <1>3, ReservedActorHandles
  <1>4. CASE BecomeWorking
    BY <1>1, <1>4 DEF BecomeWorking, ReservedInv, Types, Exact, Needed
  <1>5. ASSUME NEW o \in Orders, PlaceOrder(o) PROVE ReservedInv'
    <2> DEFINE t == actors'
               s == actors
    <2>1. t = [Reserve(s, LimitOrder(o)) EXCEPT !.pendingPlacement = @ \cup {o}] /\ s.active[o] = 0
          /\ UNCHANGED <<handled, book, events>>
      BY <1>5 DEF PlaceOrder, CanPlace
    <2>2. t \in ActorStates /\ Exact(t)
      <3>1. s \in ActorStates /\ Exact(s)
        BY <1>1
      <3> HIDE DEF s, t
      <3> QED
        BY <2>1, <3>1, PlacesExact
    <2>3. Types'
      BY <1>1, <1>5, <2>1, <2>2, PlacementIs, TypesStored
    <2>4. Exact(actors)'
      BY <2>2 DEF Exact, Needed
    <2> QED
      BY <2>3, <2>4 DEF ReservedInv
  <1>6. CASE StoresCancellations
    <2>1. Types'
      BY <1>1, <1>6, TypesStored DEF StoresCancellations, Cancelling
    <2>2. Exact(actors')
      BY <1>1, <1>6, CancellingExact DEF StoresCancellations
    <2>3. Exact(actors)'
      BY <2>2 DEF Exact, Needed
    <2> QED
      BY <2>1, <2>3 DEF ReservedInv
  <1>7. CASE Restart
    BY <1>7, ReservedRestart
  <1>8. CASE UNCHANGED vars
    BY <1>1, <1>8 DEF vars, ReservedInv, Types, Exact, Needed
  <1> QED
    BY <1>1, <1>2, <1>3, <1>4, <1>5, <1>6, <1>7, <1>8, CancellationsAre DEF Next, Step

\* The volume an actor counts as held back is at every moment exactly what the
\* owner's active orders need: nothing is released twice, nothing stays reserved
\* after an execution, a cancellation, a second OrderAdded or a start.
THEOREM ReservedStays == Spec => []ReservedExact
  <1>1. ReservedInv => ReservedExact
    <2>1. SUFFICES ASSUME ReservedInv, NEW w \in Owners, NEW a \in Assets
          PROVE  actors.openVolume[w][a] =
                   MapThenSumSet(LAMBDA o : RequiredBalance(ActiveOrder(actors, o)),
                                 {o \in ActiveOf(w) : SpentAsset(o) = a})
      BY DEF ReservedExact
    <2>2. actors \in ActorStates /\ actors.openVolume[w][a] = SumOf(Needed(actors), Held(w, a))
      BY <2>1 DEF ReservedInv, Types, Exact
    <2>3. MapThenSumSet(LAMBDA o : RequiredBalance(ActiveOrder(actors, o)),
                        {o \in ActiveOf(w) : SpentAsset(o) = a}) = SumOf(Needed(actors), Held(w, a))
      <3> DEFINE s == actors
      <3>1. s \in ActorStates
        BY <2>2
      <3>2. ActiveOf(w) = {x \in Orders : x.owner = w /\ s.active[x] > 0}
        BY DEF ActiveOf
      <3>3. MapThenSumSet(LAMBDA o : RequiredBalance(ActiveOrder(s, o)),
                       {o \in {x \in Orders : x.owner = w /\ s.active[x] > 0} : SpentAsset(o) = a})
             = SumOf(Needed(s), Held(w, a))
        <4> HIDE DEF s
        <4> QED
          BY <3>1, HeldIs
      <3> QED
        BY <3>2, <3>3
    <2> QED
      BY <2>2, <2>3
  <1> QED
    BY <1>1, ReservedInit, ReservedNext, PTL DEF Spec

-----------------------------------------------------------------------------
(* What events tell of an order *)

\* Whether an event is about an order, what it says was left of the order before,
\* and what it leaves of it.
About(e, x) ==
  IF e.type = "executed" THEN x \in {e.submitted.order, e.counter.order} ELSE e.lo.order = x

Part(e, x) ==
  IF e.type # "executed" THEN e.lo
  ELSE IF e.submitted.order = x THEN e.submitted ELSE e.counter

LeftBy(e, x) ==
  IF e.type = "added" THEN e.lo.amount
  ELSE IF e.type = "canceled" THEN 0
  ELSE Lasts(Remaining(Part(e, x), e.amount))

\* What is left before an event, and what the event says of that: the same, or
\* also nothing.  Nothing is ever said of an order of which nothing was left.
Strict == {p \in Nat \X Positive : p[1] = p[2]}
Forgetful == {p \in Nat \X Positive : p[1] \in {0, p[2]}}

\* f is what is left of x after each of the events s.
Traces(f, s, x, a, b, R) ==
  /\ f \in [0 .. Len(s) -> Nat] /\ f[0] = a /\ f[Len(s)] = b
  /\ \A i \in 1 .. Len(s) :
       IF About(s[i], x) THEN f[i] = LeftBy(s[i], x) /\ <<f[i - 1], Part(s[i], x).amount>> \in R
       ELSE f[i] = f[i - 1]

\* The events take x from a left to b left.
Tale(s, x, a, b, R) == \E f : Traces(f, s, x, a, b, R)

Silent(s, x) == \A i \in 1 .. Len(s) : ~About(s[i], x)

\* What an event is about, and what it leaves, has the types it should.
LEMMA AboutTyped ==
  ASSUME NEW e \in Events, NEW x, About(e, x)
  PROVE  /\ x \in Orders /\ Part(e, x) \in Limits /\ Part(e, x).order = x /\ LeftBy(e, x) \in Nat
         /\ Part(e, x).amount \in Nat
  <1>1. CASE e.type = "executed"
    <2>1. /\ e.submitted \in Limits /\ e.counter \in Limits /\ e.amount \in Nat
          /\ x \in {e.submitted.order, e.counter.order}
      BY <1>1 DEF Events, About
    <2>2. Part(e, x) \in Limits /\ Part(e, x).order = x
      BY <1>1, <2>1 DEF Part
    <2>3. Remaining(Part(e, x), e.amount) \in Limits
      BY <2>1, <2>2, RemainingTyped
    <2>4. LeftBy(e, x) = Lasts(Remaining(Part(e, x), e.amount))
      BY <1>1 DEF LeftBy
    <2> QED
      BY <2>2, <2>3, <2>4, LimitIs
  <1>2. CASE e.type # "executed"
    <2>1. e.lo \in Limits /\ e.lo.order = x /\ e.type \in {"added", "canceled"}
      BY <1>2 DEF Events, About
    <2>2. Part(e, x) = e.lo /\ LeftBy(e, x) \in {0, e.lo.amount}
      BY <1>2, <2>1 DEF Part, LeftBy
    <2> QED
      BY <2>1, <2>2, LimitIs
  <1> QED
    BY <1>1, <1>2

\* No events leave what there was.
LEMMA TaleOfNothing ==
  ASSUME NEW s \in Seq(Events), NEW x, Silent(s, x), NEW a \in Nat, NEW R
  PROVE  Tale(s, x, a, a, R) /\ \A c, b : Tale(s, x, c, b, R) => c = b
  <1>1. Len(s) \in Nat
    OBVIOUS
  <1>2. Tale(s, x, a, a, R)
    <2> DEFINE f == [i \in 0 .. Len(s) |-> a]
    <2>1. f \in [0 .. Len(s) -> Nat] /\ f[0] = a /\ f[Len(s)] = a /\ \A i \in 1 .. Len(s) : f[i] = f[i - 1]
      BY <1>1
    <2> HIDE DEF f
    <2>2. Traces(f, s, x, a, a, R)
      BY <2>1 DEF Traces, Silent
    <2> QED
      BY <2>2 DEF Tale
  <1>3. ASSUME NEW c, NEW b, NEW f, Traces(f, s, x, c, b, R) PROVE c = b
    <2> DEFINE S == {i \in 0 .. Len(s) : f[i] = c}
    <2>1. 0 \in S
      BY <1>1, <1>3 DEF Traces
    <2>2. ASSUME NEW i \in 1 .. Len(s), i - 1 \in S PROVE i \in S
      BY <1>1, <1>3, <2>2 DEF Traces, Silent
    <2> HIDE DEF S
    <2>3. 0 .. Len(s) \subseteq S
      BY <1>1, <2>1, <2>2, CountUp
    <2>4. Len(s) \in S
      BY <1>1, <2>3
    <2> QED
      BY <1>3, <2>4 DEF S, Traces
  <1> QED
    BY <1>2, <1>3 DEF Tale

\* Before the first event.
LEMMA TaleBegins ==
  ASSUME NEW x, NEW a \in Nat, NEW R
  PROVE  Tale(<<>>, x, a, a, R) /\ \A c, b : Tale(<<>>, x, c, b, R) => c = b
  <1>1. <<>> \in Seq(Events) /\ Len(<<>>) = 0
    OBVIOUS
  <1>2. Silent(<<>>, x)
    BY <1>1 DEF Silent
  <1> QED
    BY <1>1, <1>2, TaleOfNothing

\* One more event.
LEMMA TaleGoesOn ==
  ASSUME NEW s \in Seq(Events), NEW e \in Events, NEW x, NEW a, NEW b, NEW R, Tale(s, x, a, b, R)
  PROVE  /\ b \in Nat /\ a \in Nat
         /\ About(e, x) /\ <<b, Part(e, x).amount>> \in R => Tale(Append(s, e), x, a, LeftBy(e, x), R)
         /\ ~About(e, x) => Tale(Append(s, e), x, a, b, R)
  <1>1. PICK f : Traces(f, s, x, a, b, R)
    BY DEF Tale
  <1> DEFINE n == Len(s)
             t == Append(s, e)
  <1>2. n \in Nat /\ Len(t) = n + 1 /\ t[n + 1] = e /\ \A i \in 1 .. n : t[i] = s[i]
    OBVIOUS
  <1> HIDE DEF t
  <1>3. /\ f \in [0 .. n -> Nat] /\ f[0] = a /\ f[n] = b
        /\ \A i \in 1 .. n :
             IF About(s[i], x) THEN f[i] = LeftBy(s[i], x) /\ <<f[i - 1], Part(s[i], x).amount>> \in R
             ELSE f[i] = f[i - 1]
    BY <1>1 DEF Traces
  <1> HIDE DEF n
  <1>4. ASSUME NEW c \in Nat,
               IF About(e, x) THEN c = LeftBy(e, x) /\ <<b, Part(e, x).amount>> \in R ELSE c = b
        PROVE  Tale(t, x, a, c, R)
    <2> DEFINE g == [i \in 0 .. n + 1 |-> IF i <= n THEN f[i] ELSE c]
    <2>1. g \in [0 .. n + 1 -> Nat] /\ g[0] = a /\ g[n + 1] = c /\ g[n] = b
      BY <1>2, <1>3
    <2>2. \A i \in 1 .. n : g[i] = f[i] /\ g[i - 1] = f[i - 1]
      BY <1>2
    <2> HIDE DEF g
    <2>3. ASSUME NEW i \in 1 .. n + 1
          PROVE  IF About(t[i], x) THEN g[i] = LeftBy(t[i], x) /\ <<g[i - 1], Part(t[i], x).amount>> \in R
                 ELSE g[i] = g[i - 1]
      <3>1. CASE i \in 1 .. n
        BY <1>2, <1>3, <2>2, <3>1
      <3>2. CASE i = n + 1
        <4>1. g[i] = c /\ t[i] = e /\ g[i - 1] = b
          BY <1>2, <2>1, <3>2
        <4> QED
          BY <1>4, <4>1
      <3> QED
        BY <1>2, <3>1, <3>2
    <2>4. Traces(g, t, x, a, c, R)
      BY <1>2, <2>1, <2>3 DEF Traces
    <2> QED
      BY <2>4 DEF Tale
  <1>5. a \in Nat /\ b \in Nat
    BY <1>2, <1>3
  <1>6. ASSUME About(e, x), <<b, Part(e, x).amount>> \in R PROVE Tale(t, x, a, LeftBy(e, x), R)
    BY <1>4, <1>6, AboutTyped
  <1>7. ASSUME ~About(e, x) PROVE Tale(t, x, a, b, R)
    BY <1>4, <1>5, <1>7
  <1> QED
    BY <1>5, <1>6, <1>7 DEF t

\* More events.
LEMMA TaleContinues ==
  ASSUME NEW s \in Seq(Events), NEW t \in Seq(Events), NEW x, NEW a, NEW b, NEW c, NEW R,
         Tale(s, x, a, b, R), Tale(t, x, b, c, R)
  PROVE  Tale(s \o t, x, a, c, R)
  <1>1. PICK f : Traces(f, s, x, a, b, R)
    BY DEF Tale
  <1>2. PICK g : Traces(g, t, x, b, c, R)
    BY DEF Tale
  <1> DEFINE n == Len(s)
             m == Len(t)
             u == s \o t
             h == [i \in 0 .. n + m |-> IF i <= n THEN f[i] ELSE g[i - n]]
  <1>3. /\ n \in Nat /\ m \in Nat /\ Len(u) = n + m
        /\ \A i \in 1 .. n : u[i] = s[i]
        /\ \A i \in n + 1 .. n + m : u[i] = t[i - n]
    OBVIOUS
  <1> HIDE DEF u
  <1>4. /\ f \in [0 .. n -> Nat] /\ f[0] = a /\ f[n] = b
        /\ \A i \in 1 .. n :
             IF About(s[i], x) THEN f[i] = LeftBy(s[i], x) /\ <<f[i - 1], Part(s[i], x).amount>> \in R
             ELSE f[i] = f[i - 1]
    BY <1>1 DEF Traces
  <1>5. /\ g \in [0 .. m -> Nat] /\ g[0] = b /\ g[m] = c
        /\ \A i \in 1 .. m :
             IF About(t[i], x) THEN g[i] = LeftBy(t[i], x) /\ <<g[i - 1], Part(t[i], x).amount>> \in R
             ELSE g[i] = g[i - 1]
    BY <1>2 DEF Traces
  <1> HIDE DEF n, m
  <1>6. h \in [0 .. n + m -> Nat]
    <2>1. \A i \in 0 .. n + m : h[i] \in Nat
      BY <1>3, <1>4, <1>5
    <2> QED
      BY <2>1
  <1>7. h[0] = a /\ \A i \in 0 .. n : h[i] = f[i]
    BY <1>3, <1>4
  <1>8. ASSUME NEW i \in 0 .. m PROVE h[n + i] = g[i]
    <2>1. n + i \in 0 .. n + m /\ (n + i) - n = i /\ i \in Nat
      BY <1>3
    <2>2. h[n + i] = IF n + i <= n THEN f[n + i] ELSE g[(n + i) - n]
      BY <2>1
    <2>3. CASE i = 0
      <3>1. n + i = n /\ n + i <= n
        BY <1>3, <2>3
      <3> QED
        BY <1>4, <1>5, <2>2, <2>3, <3>1
    <2>4. CASE i # 0
      <3>1. ~(n + i <= n)
        BY <1>3, <2>1, <2>4
      <3> QED
        BY <2>1, <2>2, <3>1
    <2> QED
      BY <2>3, <2>4
  <1> HIDE DEF h
  <1>9. h[n + m] = c
    BY <1>3, <1>5, <1>8
  <1>10. ASSUME NEW i \in 1 .. n + m
         PROVE  IF About(u[i], x) THEN h[i] = LeftBy(u[i], x) /\ <<h[i - 1], Part(u[i], x).amount>> \in R
                ELSE h[i] = h[i - 1]
    <2>1. CASE i \in 1 .. n
      <3>1. i \in 0 .. n /\ i - 1 \in 0 .. n
        BY <1>3, <2>1
      <3>2. h[i] = f[i] /\ h[i - 1] = f[i - 1] /\ u[i] = s[i]
        BY <1>3, <1>7, <2>1, <3>1
      <3> QED
        BY <1>4, <2>1, <3>2
    <2>2. CASE i \in n + 1 .. n + m
      <3>1. i - n \in 1 .. m /\ u[i] = t[i - n]
        BY <1>3, <2>2
      <3>3. i - n \in 0 .. m /\ (i - n) - 1 \in 0 .. m /\ n + (i - n) = i /\ n + ((i - n) - 1) = i - 1
        BY <1>3, <2>2
      <3>2. h[i] = g[i - n] /\ h[i - 1] = g[(i - n) - 1]
        BY <1>8, <3>3
      <3> QED
        BY <1>5, <3>1, <3>2
    <2> QED
      BY <1>3, <2>1, <2>2
  <1>11. Traces(h, u, x, a, c, R)
    BY <1>3, <1>6, <1>7, <1>9, <1>10 DEF Traces
  <1> QED
    BY <1>11 DEF Tale, u

\* After the first event.
LEMMA TaleProceeds ==
  ASSUME NEW s \in Seq(Events), s # <<>>, NEW x, NEW a, NEW b, NEW R, Tale(s, x, a, b, R)
  PROVE  /\ About(Head(s), x) => /\ <<a, Part(Head(s), x).amount>> \in R
                                 /\ Tale(Tail(s), x, LeftBy(Head(s), x), b, R)
         /\ ~About(Head(s), x) => Tale(Tail(s), x, a, b, R)
  <1>1. PICK f : Traces(f, s, x, a, b, R)
    BY DEF Tale
  <1> DEFINE n == Len(s)
             t == Tail(s)
             g == [i \in 0 .. n - 1 |-> f[i + 1]]
  <1>2. /\ n \in Nat /\ n >= 1 /\ Len(t) = n - 1 /\ Head(s) = s[1]
        /\ \A i \in 1 .. n - 1 : t[i] = s[i + 1]
    OBVIOUS
  <1> HIDE DEF t
  <1>3. /\ f \in [0 .. n -> Nat] /\ f[0] = a /\ f[n] = b
        /\ \A i \in 1 .. n :
             IF About(s[i], x) THEN f[i] = LeftBy(s[i], x) /\ <<f[i - 1], Part(s[i], x).amount>> \in R
             ELSE f[i] = f[i - 1]
    BY <1>1 DEF Traces
  <1> HIDE DEF n
  <1>4. g \in [0 .. n - 1 -> Nat] /\ g[0] = f[1] /\ g[n - 1] = b /\ \A i \in 1 .. n - 1 : g[i] = f[i + 1] /\ g[i - 1] = f[i]
    BY <1>2, <1>3
  <1> HIDE DEF g
  <1>5. \A i \in 1 .. n - 1 :
          IF About(t[i], x) THEN g[i] = LeftBy(t[i], x) /\ <<g[i - 1], Part(t[i], x).amount>> \in R
          ELSE g[i] = g[i - 1]
    <2>1. \A i \in 1 .. n - 1 : i + 1 \in 1 .. n /\ (i + 1) - 1 = i
      BY <1>2
    <2> QED
      BY <1>2, <1>3, <1>4, <2>1
  <1>6. Traces(g, t, x, f[1], b, R)
    BY <1>2, <1>4, <1>5 DEF Traces
  <1>7. 1 \in 1 .. n /\ 1 - 1 = 0
    BY <1>2
  <1>8. IF About(s[1], x) THEN f[1] = LeftBy(s[1], x) /\ <<f[0], Part(s[1], x).amount>> \in R ELSE f[1] = f[0]
    BY <1>3, <1>7
  <1>9. Tale(t, x, f[1], b, R)
    BY <1>6 DEF Tale
  <1> QED
    BY <1>2, <1>3, <1>8, <1>9 DEF t

\* Of an order of which nothing is left nothing more is told.
LEMMA TaleIsOver ==
  ASSUME NEW s \in Seq(Events), NEW x, NEW b, Tale(s, x, 0, b, Strict)
  PROVE  b = 0 /\ Silent(s, x)
  <1>1. PICK f : Traces(f, s, x, 0, b, Strict)
    BY DEF Tale
  <1> DEFINE S == {i \in 0 .. Len(s) : f[i] = 0}
  <1>2. Len(s) \in Nat
    OBVIOUS
  <1>3. 0 \in S
    BY <1>1, <1>2 DEF Traces
  <1>4. \A p : <<0, p>> \notin Strict
    BY DEF Strict, Positive
  <1>5. ASSUME NEW i \in 1 .. Len(s), i - 1 \in S PROVE i \in S /\ ~About(s[i], x)
    <2>1. f[i - 1] = 0
      BY <1>5
    <2>2. ~About(s[i], x)
      BY <1>1, <1>4, <2>1 DEF Traces
    <2>3. f[i] = 0
      BY <1>1, <2>1, <2>2 DEF Traces
    <2> QED
      BY <1>2, <2>2, <2>3
  <1> HIDE DEF S
  <1>6. 0 .. Len(s) \subseteq S
    BY <1>2, <1>3, <1>5, CountUp
  <1>7. b = 0
    BY <1>1, <1>2, <1>6 DEF S, Traces
  <1>8. \A i \in 1 .. Len(s) : i - 1 \in 0 .. Len(s)
    BY <1>2
  <1> QED
    BY <1>5, <1>6, <1>7, <1>8 DEF Silent

\* What is told strictly is told to one who has forgotten the order too.
LEMMA TaleRetold ==
  ASSUME NEW s \in Seq(Events), NEW x, NEW a, NEW b, Tale(s, x, a, b, Strict)
  PROVE  /\ Tale(s, x, a, b, Forgetful)
         /\ ~Silent(s, x) => Tale(s, x, 0, b, Forgetful)
  <1>1. PICK f : Traces(f, s, x, a, b, Strict)
    BY DEF Tale
  <1> DEFINE n == Len(s)
             Heard(i) == \E j \in 1 .. i : About(s[j], x)
             g == [i \in 0 .. n |-> IF Heard(i) THEN f[i] ELSE 0]
  <1>2. n \in Nat
    OBVIOUS
  <1>3. /\ f \in [0 .. n -> Nat] /\ f[0] = a /\ f[n] = b
        /\ \A i \in 1 .. n :
             IF About(s[i], x) THEN f[i] = LeftBy(s[i], x) /\ <<f[i - 1], Part(s[i], x).amount>> \in Strict
             ELSE f[i] = f[i - 1]
    BY <1>1 DEF Traces
  <1> HIDE DEF n
  <1>4. \A k, p : <<k, p>> \in Strict => <<k, p>> \in Forgetful /\ <<0, p>> \in Forgetful
    BY DEF Strict, Forgetful
  <1>5. Tale(s, x, a, b, Forgetful)
    <2>1. Traces(f, s, x, a, b, Forgetful)
      BY <1>3, <1>4 DEF Traces, n
    <2> QED
      BY <2>1 DEF Tale
  <1>6. ASSUME ~Silent(s, x) PROVE Tale(s, x, 0, b, Forgetful)
    <2>1. Heard(n)
      BY <1>6 DEF Silent, n
    <2>2. ~Heard(0)
      OBVIOUS
    <2>3. \A i \in 1 .. n : Heard(i) <=> About(s[i], x) \/ Heard(i - 1)
      BY <1>2
    <2> HIDE DEF Heard
    <2>4. g \in [0 .. n -> Nat]
      BY <1>3
    <2>5. g[0] = 0 /\ g[n] = b
      BY <1>2, <1>3, <2>1, <2>2
    <2>6. \A i \in 1 .. n : /\ g[i] = IF Heard(i) THEN f[i] ELSE 0
                            /\ g[i - 1] = IF Heard(i - 1) THEN f[i - 1] ELSE 0
      BY <1>2
    <2> HIDE DEF g
    <2>7. ASSUME NEW i \in 1 .. n
          PROVE  IF About(s[i], x) THEN g[i] = LeftBy(s[i], x) /\ <<g[i - 1], Part(s[i], x).amount>> \in Forgetful
                 ELSE g[i] = g[i - 1]
      <3>1. CASE About(s[i], x)
        <4>1. g[i] = f[i] /\ f[i] = LeftBy(s[i], x) /\ <<f[i - 1], Part(s[i], x).amount>> \in Strict
          BY <1>3, <2>3, <2>6, <3>1
        <4>2. g[i - 1] \in {0, f[i - 1]}
          BY <2>6
        <4> QED
          BY <1>4, <3>1, <4>1, <4>2
      <3>2. CASE ~About(s[i], x)
        BY <1>3, <2>3, <2>6, <3>2
      <3> QED
        BY <3>1, <3>2
    <2>8. Traces(g, s, x, 0, b, Forgetful)
      BY <2>4, <2>5, <2>7 DEF Traces, n
    <2> QED
      BY <2>8 DEF Tale
  <1> QED
    BY <1>5, <1>6

\* Who gets all that is told of an order gets its tale.
LEMMA TaleAmong ==
  ASSUME NEW s \in Seq(Events), NEW x, NEW a, NEW b, NEW R, Tale(s, x, a, b, R),
         NEW S, \A i \in 1 .. Len(s) : About(s[i], x) => s[i] \in S
  PROVE  Tale(Among(s, S), x, a, b, R)
  <1>1. PICK f : Traces(f, s, x, a, b, R)
    BY DEF Tale
  <1>2. PICK k : Keeps(k, s, S, Events) /\ Among(s, S) = k[Len(s)]
    BY AmongIs
  <1> DEFINE n == Len(s)
             Fine == {i \in 0 .. n : Tale(k[i], x, a, f[i], R)}
  <1>3. n \in Nat /\ \A i \in 1 .. n : s[i] \in Events /\ i - 1 \in 0 .. n
    OBVIOUS
  <1>4. 0 \in Fine
    <2>1. k[0] = <<>> /\ f[0] = a /\ a \in Nat
      BY <1>1, <1>2, <1>3 DEF Keeps, Traces
    <2>2. Tale(<<>>, x, a, a, R)
      BY <2>1, TaleBegins
    <2> QED
      BY <1>3, <2>1, <2>2
  <1>5. ASSUME NEW i \in 1 .. n, i - 1 \in Fine PROVE i \in Fine
    <2>1. k[i - 1] \in Seq(Events) /\ s[i] \in Events /\ Tale(k[i - 1], x, a, f[i - 1], R)
      BY <1>2, <1>3, <1>5 DEF Keeps
    <2>2. IF About(s[i], x) THEN f[i] = LeftBy(s[i], x) /\ <<f[i - 1], Part(s[i], x).amount>> \in R
          ELSE f[i] = f[i - 1]
      BY <1>1 DEF Traces
    <2>3. k[i] = IF s[i] \in S THEN Append(k[i - 1], s[i]) ELSE k[i - 1]
      BY <1>2 DEF Keeps
    <2>4. Tale(k[i], x, a, f[i], R)
      <3>1. CASE About(s[i], x)
        <4>1. k[i] = Append(k[i - 1], s[i])
          BY <2>3, <3>1
        <4> QED
          BY <2>1, <2>2, <3>1, <4>1, TaleGoesOn
      <3>2. CASE ~About(s[i], x)
        BY <2>1, <2>2, <2>3, <3>2, TaleGoesOn
      <3> QED
        BY <3>1, <3>2
    <2> QED
      BY <1>3, <2>4
  <1> HIDE DEF Fine
  <1>6. 0 .. n \subseteq Fine
    BY <1>3, <1>4, <1>5, CountUp
  <1>7. n \in 0 .. n /\ f[n] = b
    BY <1>1, <1>3 DEF Traces
  <1>8. Tale(k[n], x, a, f[n], R)
    BY <1>6, <1>7 DEF Fine
  <1> QED
    BY <1>2, <1>7, <1>8

-----------------------------------------------------------------------------
(* What rests of an order, and what a command tells of it *)

\* Of x, n rests on a side; none when it is not there.
Has(s, x, n) ==
  IF n = 0 THEN \A i \in DOMAIN s : s[i].order # x
  ELSE \E i \in DOMAIN s : s[i].order = x /\ s[i].amount = n

\* What changes a side at most for y.
Others(s, t, y) == \A x, n : x # y /\ Has(s, x, n) => Has(t, x, n)

\* Each order has one place on a side at most, so one amount rests of it.
LEMMA HasOne ==
  ASSUME NEW s, NEW side, NEW A, SideHolds(s, side, A), NEW x, NEW n, NEW k, Has(s, x, n), Has(s, x, k)
  PROVE  n = k
  BY DEF SideHolds, Has

\* Something or nothing rests of each.
LEMMA HasSome ==
  ASSUME NEW A, NEW side, NEW when, NEW s, GoodSide(s, side, A, when), NEW x
  PROVE  \E n \in Nat : Has(s, x, n)
  <1>1. CASE \A i \in DOMAIN s : s[i].order # x
    <2>1. Has(s, x, 0)
      BY <1>1 DEF Has
    <2> QED
      BY <2>1
  <1>2. CASE \E i \in DOMAIN s : s[i].order = x
    <2>1. PICK i \in DOMAIN s : s[i].order = x
      BY <1>2
    <2>2. s[i] \in LimitOrders(A) /\ Rests(s[i], side)
      <3>1. s \in Seq(LimitOrders(A))
        BY DEF GoodSide
      <3>2. s[i] \in LimitOrders(A)
        BY <2>1, <3>1
      <3> QED
        BY <2>1, <3>2 DEF GoodSide
    <2>3. s[i].amount \in Nat /\ s[i].amount # 0
      BY <2>2 DEF LimitOrders, Rests
    <2>4. Has(s, x, s[i].amount)
      BY <2>1, <2>3 DEF Has
    <2> QED
      BY <2>3, <2>4
  <1> QED
    BY <1>1, <1>2

\* What each change of a side does.
LEMMA InsertHas ==
  ASSUME NEW A, \A y \in A : ValidOrder(y), NEW when, NEW side,
         NEW s, GoodSide(s, side, A, when), NEW lo \in LimitOrders(A), Rests(lo, side)
  PROVE  Others(s, Insert(s, lo), lo.order) /\ Has(Insert(s, lo), lo.order, lo.amount)
  <1> DEFINE k == Cardinality({i \in DOMAIN s : IsAhead(s[i], lo)}) + 1
             t == Insert(s, lo)
  <1>1. s \in Seq(LimitOrders(A)) /\ Len(s) \in Nat /\ DOMAIN s = 1 .. Len(s)
    BY DEF GoodSide
  <1>2. k \in 1 .. Len(s) + 1
    BY AheadAreFirst
  <1>3. t = InsertAt(s, k, lo)
    BY DEF Insert
  <1> HIDE DEF k, t
  <1>4. /\ DOMAIN t = 1 .. Len(s) + 1
        /\ \A i \in 1 .. Len(s) + 1 :
             t[i] = IF i < k THEN s[i] ELSE IF i = k THEN lo ELSE s[i - 1]
    <2>1. /\ DOMAIN InsertAt(s, k, lo) = 1 .. Len(s) + 1
          /\ \A i \in 1 .. Len(s) + 1 :
               InsertAt(s, k, lo)[i] = IF i < k THEN s[i] ELSE IF i = k THEN lo ELSE s[i - 1]
      BY <1>1, <1>2, InsertAtElements
    <2> QED
      BY <1>3, <2>1
  <1>5. \A i \in DOMAIN t : t[i] = lo \/ \E j \in DOMAIN s : t[i] = s[j]
    BY InsertElements DEF t
  <1>6. ASSUME NEW i \in DOMAIN s PROVE \E j \in DOMAIN t : t[j] = s[i]
    <2>1. CASE i < k
      <3>1. i \in DOMAIN t /\ t[i] = s[i]
        BY <1>1, <1>4, <2>1
      <3> QED
        BY <3>1
    <2>2. CASE i >= k
      <3>1. i + 1 \in 1 .. Len(s) + 1 /\ ~(i + 1 < k) /\ i + 1 # k /\ (i + 1) - 1 = i
        BY <1>1, <1>2, <2>2
      <3>2. i + 1 \in DOMAIN t /\ t[i + 1] = s[i]
        BY <1>4, <3>1
      <3> QED
        BY <3>2
    <2> QED
      BY <1>1, <1>2, <2>1, <2>2
  <1>7. Others(s, t, lo.order)
    <2>1. ASSUME NEW x, NEW n, x # lo.order, Has(s, x, n) PROVE Has(t, x, n)
      <3>1. CASE n = 0
        BY <1>5, <2>1, <3>1 DEF Has
      <3>2. CASE n # 0
        <4>1. PICK i \in DOMAIN s : s[i].order = x /\ s[i].amount = n
          BY <2>1, <3>2 DEF Has
        <4>2. PICK j \in DOMAIN t : t[j] = s[i]
          BY <1>6, <4>1
        <4>3. t[j].order = x /\ t[j].amount = n
          BY <4>1, <4>2
        <4> QED
          BY <3>2, <4>2, <4>3 DEF Has
      <3> QED
        BY <3>1, <3>2
    <2> QED
      BY <2>1 DEF Others
  <1>8. Has(t, lo.order, lo.amount)
    <2>1. k \in DOMAIN t /\ t[k] = lo
      BY <1>1, <1>2, <1>4
    <2>2. lo.amount # 0
      BY DEF Rests
    <2> QED
      BY <2>1, <2>2 DEF Has
  <1> QED
    BY <1>7, <1>8 DEF t

\* The best order of a side leaves it.
LEMMA TailHas ==
  ASSUME NEW A, NEW side, NEW S, NEW s \in Seq(S), SideHolds(s, side, A), s # <<>>
  PROVE  LET y == Head(s).order IN
         /\ (Has(s, y, Head(s).amount) \/ Head(s).amount = 0)
         /\ Others(s, Tail(s), y) /\ Has(Tail(s), y, 0)
  <1> DEFINE y == Head(s).order
             t == Tail(s)
  <1>1. /\ Len(s) \in Nat /\ DOMAIN s = 1 .. Len(s) /\ 1 \in DOMAIN s /\ Head(s) = s[1]
        /\ t \in Seq(S) /\ DOMAIN t = 1 .. Len(s) - 1 /\ \A i \in 1 .. Len(s) - 1 : t[i] = s[i + 1]
    OBVIOUS
  <1> HIDE DEF t
  <1>2. \A i \in DOMAIN t : i + 1 \in DOMAIN s /\ i + 1 # 1 /\ t[i] = s[i + 1]
    BY <1>1
  <1>3. \A i \in DOMAIN s : i # 1 => i - 1 \in DOMAIN t /\ t[i - 1] = s[i]
    BY <1>1
  <1>4. \A i \in DOMAIN s : s[i].order = y => i = 1
    BY <1>1 DEF SideHolds
  <1>5. Has(t, y, 0)
    BY <1>2, <1>4 DEF Has
  <1>6. ASSUME NEW x, NEW n, x # y, Has(s, x, n) PROVE Has(t, x, n)
    <2>1. CASE n = 0
      BY <1>2, <1>6, <2>1 DEF Has
    <2>2. CASE n # 0
      <3>1. PICK i \in DOMAIN s : s[i].order = x /\ s[i].amount = n
        BY <1>6, <2>2 DEF Has
      <3>2. i # 1
        BY <1>1, <1>6, <3>1
      <3>3. i - 1 \in DOMAIN t /\ t[i - 1].order = x /\ t[i - 1].amount = n
        BY <1>3, <3>1, <3>2
      <3> QED
        BY <2>2, <3>3 DEF Has
    <2> QED
      BY <2>1, <2>2
  <1>7. Has(s, y, Head(s).amount) \/ Head(s).amount = 0
    BY <1>1 DEF Has
  <1> QED
    BY <1>5, <1>6, <1>7 DEF Others, t

\* What remains of the best order takes its place.
LEMMA ReplaceHas ==
  ASSUME NEW A, NEW side, NEW S, NEW s \in Seq(S), SideHolds(s, side, A), s # <<>>,
         NEW lo \in S, lo.order = Head(s).order, lo.amount # 0
  PROVE  Others(s, ReplaceBest(s, lo), lo.order) /\ Has(ReplaceBest(s, lo), lo.order, lo.amount)
  <1> DEFINE t == ReplaceBest(s, lo)
             y == lo.order
  <1>1. Len(s) \in Nat /\ DOMAIN s = 1 .. Len(s) /\ 1 \in DOMAIN s /\ Head(s) = s[1]
    OBVIOUS
  <1>2. DOMAIN t = DOMAIN s /\ t[1] = lo /\ \A i \in DOMAIN s : i # 1 => t[i] = s[i]
    <2>1. /\ Tail(s) \in Seq(S) /\ Len(Tail(s)) = Len(s) - 1
          /\ \A i \in 1 .. Len(s) - 1 : Tail(s)[i] = s[i + 1]
      BY <1>1
    <2>2. /\ t \in Seq(S) /\ Len(t) = Len(s) /\ DOMAIN t = 1 .. Len(s)
          /\ \A i \in 1 .. Len(s) : t[i] = IF i <= 1 THEN <<lo>>[i] ELSE Tail(s)[i - 1]
      BY <1>1, <2>1 DEF ReplaceBest
    <2> HIDE DEF t
    <2>3. \A i \in 1 .. Len(s) : i # 1 => i - 1 \in 1 .. Len(s) - 1 /\ (i - 1) + 1 = i /\ ~(i <= 1)
      BY <1>1
    <2>4. <<lo>>[1] = lo
      OBVIOUS
    <2> QED
      BY <1>1, <2>1, <2>2, <2>3, <2>4
  <1> HIDE DEF t
  <1>3. ASSUME NEW x, NEW n, x # y, Has(s, x, n) PROVE Has(t, x, n)
    <2>1. \A i \in DOMAIN s : s[i].order = x => i # 1
      BY <1>1, <1>3
    <2>2. CASE n = 0
      <3>1. ASSUME NEW i \in DOMAIN t PROVE t[i].order # x
        BY <1>2, <1>3, <2>2 DEF Has
      <3> QED
        BY <2>2, <3>1 DEF Has
    <2>3. CASE n # 0
      BY <1>2, <1>3, <2>1, <2>3 DEF Has
    <2> QED
      BY <2>2, <2>3
  <1>4. Has(t, y, lo.amount)
    BY <1>1, <1>2 DEF Has
  <1> QED
    BY <1>3, <1>4 DEF Others, t

\* An order leaves its place.
LEMMA RemoveHas ==
  ASSUME NEW A, NEW side, NEW S, NEW s \in Seq(S), SideHolds(s, side, A), NEW k \in DOMAIN s
  PROVE  Others(s, RemoveAt(s, k), s[k].order) /\ Has(RemoveAt(s, k), s[k].order, 0)
  <1> DEFINE t == RemoveAt(s, k)
             y == s[k].order
  <1>1. Len(s) \in Nat /\ DOMAIN s = 1 .. Len(s) /\ k \in 1 .. Len(s)
    OBVIOUS
  <1>2. DOMAIN t = 1 .. Len(s) - 1 /\ \A i \in 1 .. Len(s) - 1 : t[i] = IF i < k THEN s[i] ELSE s[i + 1]
    BY <1>1, RemoveAtElements
  <1> HIDE DEF t
  <1>3. ASSUME NEW i \in DOMAIN t PROVE \E j \in DOMAIN s : j # k /\ t[i] = s[j]
    <2>1. CASE i < k
      BY <1>1, <1>2, <1>3, <2>1
    <2>2. CASE i >= k
      <3>1. i + 1 \in DOMAIN s /\ i + 1 # k /\ t[i] = s[i + 1]
        BY <1>1, <1>2, <1>3, <2>2
      <3> QED
        BY <3>1
    <2> QED
      BY <1>1, <1>2, <2>1, <2>2
  <1>4. ASSUME NEW j \in DOMAIN s, j # k PROVE \E i \in DOMAIN t : t[i] = s[j]
    <2>1. CASE j < k
      <3>1. j \in DOMAIN t /\ t[j] = s[j]
        BY <1>1, <1>2, <2>1
      <3> QED
        BY <3>1
    <2>2. CASE j > k
      <3>1. j - 1 \in 1 .. Len(s) - 1 /\ ~(j - 1 < k) /\ (j - 1) + 1 = j
        BY <1>1, <2>2
      <3>2. j - 1 \in DOMAIN t /\ t[j - 1] = s[j]
        BY <1>2, <3>1
      <3> QED
        BY <3>2
    <2> QED
      BY <1>1, <1>4, <2>1, <2>2
  <1>5. \A j \in DOMAIN s : s[j].order = y => j = k
    BY DEF SideHolds
  <1>6. Has(t, y, 0)
    BY <1>3, <1>5 DEF Has
  <1>7. ASSUME NEW x, NEW n, x # y, Has(s, x, n) PROVE Has(t, x, n)
    <2>1. CASE n = 0
      BY <1>3, <1>7, <2>1 DEF Has
    <2>2. CASE n # 0
      <3>1. PICK j \in DOMAIN s : s[j].order = x /\ s[j].amount = n
        BY <1>7, <2>2 DEF Has
      <3>2. PICK i \in DOMAIN t : t[i] = s[j]
        BY <1>4, <1>7, <3>1
      <3>3. t[i].order = x /\ t[i].amount = n
        BY <3>1, <3>2
      <3> QED
        BY <2>2, <3>2, <3>3 DEF Has
    <2> QED
      BY <2>1, <2>2
  <1> QED
    BY <1>6, <1>7 DEF Others, t

-----------------------------------------------------------------------------
(* What the turns of a matching tell *)

\* The events of a matching of o, from the two sides it started with: nothing of
\* the orders of its own side, what is left of those it meets, and of o what
\* rests of it at the end.
Reports(m, o, own, counter) ==
  /\ \A x \in Orders \ {o}, n \in Nat :
       x.side = o.side /\ Has(own, x, n) => Has(m.own, x, n) /\ Tale(m.events, x, n, n, Strict)
  /\ \A x \in Orders, n \in Nat :
       x.side # o.side /\ Has(counter, x, n) =>
         \E k \in Nat : Has(m.counter, x, k) /\ Tale(m.events, x, n, k, Strict)
  /\ \E k \in Nat :
       /\ Tale(m.events, o, o.amount, k, Strict)
       /\ IF m.done THEN Has(m.own, o, k) /\ ~Silent(m.events, o) ELSE k = m.submitted.amount

\* It starts with nothing told.
LEMMA ReportsStart ==
  ASSUME NEW o \in Orders, NEW own, NEW counter
  PROVE  Reports(Matching(LimitOrder(o), own, counter), o, own, counter)
  <1> DEFINE m == Matching(LimitOrder(o), own, counter)
  <1>1. m.own = own /\ m.counter = counter /\ m.events = <<>> /\ m.done = FALSE /\ m.submitted.amount = o.amount
    BY DEF Matching, LimitOrder
  <1> HIDE DEF m
  <1>2. o.amount \in Nat
    BY OrdersAssumption
  <1>3. \A x, n : n \in Nat => Tale(m.events, x, n, n, Strict)
    BY <1>1, TaleBegins
  <1> QED
    BY <1>1, <1>2, <1>3 DEF Reports, m

\* Which of the orders the event of a turn is about.
LEMMA SpeaksOf ==
  ASSUME NEW e \in Events, NEW x
  PROVE  /\ \A lo \in Limits : e = OrderAdded(lo) =>
              /\ About(e, x) <=> x = lo.order
              /\ Part(e, x) = lo /\ LeftBy(e, x) = lo.amount
         /\ \A lo \in Limits : \A u : e = OrderCanceled(lo, u) =>
              /\ About(e, x) <=> x = lo.order
              /\ Part(e, x) = lo /\ LeftBy(e, x) = 0
         /\ \A s, c \in Limits : \A ts : e = OrderExecuted(s, c, ts) =>
              /\ About(e, x) <=> x \in {s.order, c.order}
              /\ x = s.order => Part(e, x) = s /\ LeftBy(e, x) = Lasts(Remaining(s, e.amount))
              /\ x = c.order /\ x # s.order => Part(e, x) = c /\ LeftBy(e, x) = Lasts(Remaining(c, e.amount))
  BY DEF OrderAdded, OrderCanceled, OrderExecuted, About, Part, LeftBy

\* A sequence of events goes on with one that is about an order.
LEMMA Speaks ==
  ASSUME NEW s \in Seq(Events), NEW e \in Events, NEW x, About(e, x)
  PROVE  ~Silent(Append(s, e), x)
  <1>1. Len(s) + 1 \in 1 .. Len(Append(s, e)) /\ Append(s, e)[Len(s) + 1] = e
    OBVIOUS
  <1> QED
    BY <1>1 DEF Silent

\* A matching of o that goes on.
Ongoing(m, o, own, counter, when) ==
  /\ m \in Matchings /\ GoodMatching(m, o, Orders, when) /\ Reports(m, o, own, counter)
  /\ when \in [Orders -> Int]

\* What is known in the middle of one.
LEMMA OngoingIs ==
  ASSUME NEW m, NEW o \in Orders, NEW own, NEW counter, NEW when, Ongoing(m, o, own, counter, when), ~m.done
  PROVE  /\ m.submitted \in Limits /\ m.submitted.order = o /\ m.submitted.amount \in Positive
         /\ m.own \in Seq(Limits) /\ m.counter \in Seq(Limits) /\ m.events \in Seq(Events)
         /\ GoodSide(m.own, o.side, Orders, when) /\ Has(m.own, o, 0)
         /\ SideHolds(m.counter, Opposite(o.side), Orders) /\ Opposite(o.side) # o.side
         /\ Rests(m.submitted, o.side)
         /\ m.counter # <<>> => /\ Best(m) \in Limits /\ Best(m).amount \in Positive /\ Best(m).order \in Orders
                                /\ Best(m).order # o /\ Best(m).order.side # o.side
                                /\ Has(m.counter, Best(m).order, Best(m).amount)
  <1>1. /\ m.submitted \in LimitOrders({o}) /\ GoodSide(m.own, o.side, Orders, when)
        /\ GoodSide(m.counter, Opposite(o.side), Orders, when)
        /\ Rests(m.submitted, o.side) /\ o \notin OrdersIn(m.own)
    BY DEF Ongoing, GoodMatching, GoodParts
  <1>2. /\ m.submitted \in Limits /\ m.own \in Seq(Limits) /\ m.counter \in Seq(Limits) /\ m.events \in Seq(Events)
    BY DEF Ongoing, Matchings
  <1>3. m.submitted.order = o /\ m.submitted.amount \in Positive
    BY <1>1 DEF LimitOrders, Rests, Positive
  <1>4. Has(m.own, o, 0)
    BY <1>1 DEF OrdersIn, Has
  <1>5. (\A y \in Orders : ValidOrder(y)) /\ \A y \in Orders : when[y] \in Int
    BY OrdersAreValid DEF Ongoing
  <1>6. SideHolds(m.counter, Opposite(o.side), Orders)
    BY <1>1, <1>5, SideOrders
  <1>7. Opposite(o.side) # o.side
    BY <1>5 DEF ValidOrder, Opposite
  <1>8. ASSUME m.counter # <<>>
        PROVE  /\ Best(m) \in Limits /\ Best(m).amount \in Positive /\ Best(m).order \in Orders
               /\ Best(m).order # o /\ Best(m).order.side # o.side
               /\ Has(m.counter, Best(m).order, Best(m).amount)
    <2>1. 1 \in DOMAIN m.counter /\ Best(m) = m.counter[1]
      BY <1>2, <1>8 DEF Best
    <2>2. Rests(Best(m), Opposite(o.side))
      BY <1>1, <2>1 DEF GoodSide
    <2>3. Best(m) \in Limits /\ Best(m).order \in Orders /\ Best(m).order.side = Opposite(o.side)
      BY <1>2, <1>6, <2>1 DEF SideHolds
    <2>4. Best(m).amount \in Positive
      BY <2>2, <2>3 DEF Rests, Limits, LimitOrders, Positive
    <2>5. Has(m.counter, Best(m).order, Best(m).amount)
      BY <2>1, <2>4 DEF Has, Positive
    <2> QED
      BY <1>7, <2>3, <2>4, <2>5
  <1> QED
    BY <1>1, <1>2, <1>3, <1>4, <1>6, <1>7, <1>8

\* The parts of what is reported, from the parts of it a turn ago.
LEMMA ReportsMore ==
  ASSUME NEW m, NEW n, NEW o \in Orders, NEW own, NEW counter,
         Reports(m, o, own, counter), ~m.done,
         \A x \in Orders \ {o}, k \in Nat : x.side = o.side /\ Has(m.own, x, k) => Has(n.own, x, k),
         \A x \in Orders \ {o} : \A a, b : x.side = o.side /\ Tale(m.events, x, a, b, Strict) => Tale(n.events, x, a, b, Strict),
         \A x \in Orders \ {o}, a \in Nat, b \in Nat :
           x.side # o.side /\ Has(m.counter, x, b) /\ Tale(m.events, x, a, b, Strict) =>
             \E k \in Nat : Has(n.counter, x, k) /\ Tale(n.events, x, a, k, Strict),
         Tale(m.events, o, o.amount, m.submitted.amount, Strict) =>
           \E k \in Nat : /\ Tale(n.events, o, o.amount, k, Strict)
                          /\ IF n.done THEN Has(n.own, o, k) /\ ~Silent(n.events, o) ELSE k = n.submitted.amount
  PROVE  Reports(n, o, own, counter)
  <1>1. \A x \in Orders \ {o}, k \in Nat :
          x.side = o.side /\ Has(own, x, k) => Has(n.own, x, k) /\ Tale(n.events, x, k, k, Strict)
    BY DEF Reports
  <1>2. ASSUME NEW x \in Orders, NEW a \in Nat, x.side # o.side, Has(counter, x, a)
        PROVE  \E k \in Nat : Has(n.counter, x, k) /\ Tale(n.events, x, a, k, Strict)
    <2>1. PICK b \in Nat : Has(m.counter, x, b) /\ Tale(m.events, x, a, b, Strict)
      BY <1>2 DEF Reports
    <2>2. x \in Orders \ {o}
      BY <1>2
    <2> QED
      BY <1>2, <2>1, <2>2
  <1>3. Tale(m.events, o, o.amount, m.submitted.amount, Strict)
    BY DEF Reports
  <1> QED
    BY <1>1, <1>2, <1>3 DEF Reports

\* A turn reports what it does.
LEMMA DropReports ==
  ASSUME NEW m, NEW o \in Orders, NEW own, NEW counter, NEW when, Ongoing(m, o, own, counter, when), ~m.done,
         NEW ts, NEW n, Drops(m, ts, n)
  PROVE  Reports(n, o, own, counter)
  <1>1. PICK u \in BOOLEAN :
          n = Made(m.submitted, m.own, m.counter, Append(m.events, OrderCanceled(m.submitted, u)), TRUE)
    BY DEF Drops
  <1> DEFINE e == OrderCanceled(m.submitted, u)
             more == Append(m.events, e)
  <1>2. /\ m.submitted \in Limits /\ m.submitted.order = o /\ m.submitted.amount \in Positive
        /\ m.events \in Seq(Events) /\ Has(m.own, o, 0)
    BY OngoingIs
  <1>3. e \in Events
    BY <1>2, EventsAre
  <1>4. \A x : /\ About(e, x) <=> x = o
               /\ Part(e, x) = m.submitted /\ LeftBy(e, x) = 0
    BY <1>2, <1>3, SpeaksOf
  <1> HIDE DEF e
  <1>5. n.own = m.own /\ n.counter = m.counter /\ n.events = more /\ n.done = TRUE
    BY <1>1 DEF Made, e
  <1>6. \A x \in Orders \ {o} : \A a, b : Tale(m.events, x, a, b, Strict) => Tale(more, x, a, b, Strict)
    BY <1>2, <1>3, <1>4, TaleGoesOn
  <1>7. ASSUME Tale(m.events, o, o.amount, m.submitted.amount, Strict) PROVE Tale(more, o, o.amount, 0, Strict)
    <2>1. <<m.submitted.amount, m.submitted.amount>> \in Strict
      BY <1>2 DEF Strict, Positive
    <2> QED
      BY <1>2, <1>3, <1>4, <1>7, <2>1, TaleGoesOn
  <1>8. ~Silent(more, o)
    BY <1>2, <1>3, <1>4, Speaks
  <1> HIDE DEF more
  <1>9. Reports(m, o, own, counter)
    BY DEF Ongoing
  <1>10. \A x \in Orders \ {o}, a \in Nat, b \in Nat :
           x.side # o.side /\ Has(m.counter, x, b) /\ Tale(m.events, x, a, b, Strict) =>
             \E k \in Nat : Has(n.counter, x, k) /\ Tale(n.events, x, a, k, Strict)
    BY <1>5, <1>6
  <1>11. Tale(m.events, o, o.amount, m.submitted.amount, Strict) =>
           \E k \in Nat : /\ Tale(n.events, o, o.amount, k, Strict)
                          /\ IF n.done THEN Has(n.own, o, k) /\ ~Silent(n.events, o) ELSE k = n.submitted.amount
    BY <1>2, <1>5, <1>7, <1>8, 0 \in Nat
  <1> QED
    BY <1>5, <1>6, <1>9, <1>10, <1>11, ReportsMore

\* The rest of it comes to rest.
LEMMA AddReports ==
  ASSUME NEW m, NEW o \in Orders, NEW own, NEW counter, NEW when, Ongoing(m, o, own, counter, when), ~m.done,
         NEW ts, NEW n, Adds(m, ts, n)
  PROVE  Reports(n, o, own, counter)
  <1> DEFINE e == OrderAdded(m.submitted)
             more == Append(m.events, e)
             own2 == Insert(m.own, m.submitted)
  <1>2. /\ m.submitted \in Limits /\ m.submitted.order = o /\ m.submitted.amount \in Positive
        /\ m.events \in Seq(Events) /\ Rests(m.submitted, o.side) /\ GoodSide(m.own, o.side, Orders, when)
    BY OngoingIs
  <1>3. e \in Events
    BY <1>2, EventsAre
  <1>4. \A x : /\ About(e, x) <=> x = o
               /\ Part(e, x) = m.submitted /\ LeftBy(e, x) = m.submitted.amount
    BY <1>2, <1>3, SpeaksOf
  <1>5. Others(m.own, own2, o) /\ Has(own2, o, m.submitted.amount)
    <2>1. (\A y \in Orders : ValidOrder(y)) /\ m.submitted \in LimitOrders(Orders)
      BY <1>2, OrdersAreValid DEF Limits
    <2>2. Others(m.own, own2, m.submitted.order) /\ Has(own2, m.submitted.order, m.submitted.amount)
      BY <1>2, <2>1, InsertHas
    <2> QED
      BY <1>2, <2>2
  <1> HIDE DEF e
  <1>6. n.own = own2 /\ n.counter = m.counter /\ n.events = more /\ n.done = TRUE
    BY DEF Made, Adds, e
  <1> HIDE DEF own2
  <1>7. \A x \in Orders \ {o} : \A a, b : Tale(m.events, x, a, b, Strict) => Tale(more, x, a, b, Strict)
    BY <1>2, <1>3, <1>4, TaleGoesOn
  <1>8. ASSUME Tale(m.events, o, o.amount, m.submitted.amount, Strict)
        PROVE  Tale(more, o, o.amount, m.submitted.amount, Strict)
    <2>1. <<m.submitted.amount, m.submitted.amount>> \in Strict
      BY <1>2 DEF Strict, Positive
    <2> QED
      BY <1>2, <1>3, <1>4, <1>8, <2>1, TaleGoesOn
  <1>9. ~Silent(more, o)
    BY <1>2, <1>3, <1>4, Speaks
  <1> HIDE DEF more
  <1>10. Reports(m, o, own, counter)
    BY DEF Ongoing
  <1>11. \A x \in Orders \ {o}, a \in Nat, b \in Nat :
           x.side # o.side /\ Has(m.counter, x, b) /\ Tale(m.events, x, a, b, Strict) =>
             \E k \in Nat : Has(n.counter, x, k) /\ Tale(n.events, x, a, k, Strict)
    BY <1>6, <1>7
  <1>12. Tale(m.events, o, o.amount, m.submitted.amount, Strict) =>
           \E k \in Nat : /\ Tale(n.events, o, o.amount, k, Strict)
                          /\ IF n.done THEN Has(n.own, o, k) /\ ~Silent(n.events, o) ELSE k = n.submitted.amount
    <2>1. m.submitted.amount \in Nat
      BY <1>2 DEF Positive
    <2> QED
      BY <1>5, <1>6, <1>8, <1>9, <2>1
  <1>13. \A x \in Orders \ {o}, k \in Nat : x.side = o.side /\ Has(m.own, x, k) => Has(n.own, x, k)
    BY <1>5, <1>6 DEF Others
  <1> QED
    BY <1>6, <1>7, <1>10, <1>11, <1>12, <1>13, ReportsMore

\* An expired order of the other side leaves the book.
LEMMA DropBestReports ==
  ASSUME NEW m, NEW o \in Orders, NEW own, NEW counter, NEW when, Ongoing(m, o, own, counter, when), ~m.done,
         NEW ts, NEW n, DropsBest(m, ts, n)
  PROVE  Reports(n, o, own, counter)
  <1> DEFINE e == OrderCanceled(Best(m), FALSE)
             more == Append(m.events, e)
             y == Best(m).order
  <1>1. m.counter # <<>>
    BY DEF DropsBest
  <1>2. /\ m.counter \in Seq(Limits) /\ m.events \in Seq(Events)
        /\ SideHolds(m.counter, Opposite(o.side), Orders)
        /\ Best(m) \in Limits /\ Best(m).amount \in Positive /\ y \in Orders /\ y # o /\ y.side # o.side
        /\ Has(m.counter, y, Best(m).amount)
    BY <1>1, OngoingIs
  <1>3. e \in Events
    BY <1>2, EventsAre, FALSE \in BOOLEAN
  <1>4. \A x : /\ About(e, x) <=> x = y
               /\ Part(e, x) = Best(m) /\ LeftBy(e, x) = 0
    BY <1>2, <1>3, SpeaksOf
  <1>5. Others(m.counter, Tail(m.counter), y) /\ Has(Tail(m.counter), y, 0)
    BY <1>1, <1>2, TailHas DEF Best
  <1> HIDE DEF e
  <1>6. n.own = m.own /\ n.counter = Tail(m.counter) /\ n.events = more /\ n.done = m.done /\ n.submitted = m.submitted
    BY DEF Made, DropsBest, e
  <1>7. \A x, a, b : x # y /\ Tale(m.events, x, a, b, Strict) => Tale(more, x, a, b, Strict)
    BY <1>2, <1>3, <1>4, TaleGoesOn
  <1>8. ASSUME NEW a, NEW b, Tale(m.events, y, a, b, Strict), Has(m.counter, y, b)
        PROVE  Tale(more, y, a, 0, Strict)
    <2>1. b = Best(m).amount
      BY <1>2, <1>8, HasOne
    <2>2. <<b, Best(m).amount>> \in Strict
      BY <1>2, <2>1 DEF Strict, Positive
    <2> QED
      BY <1>2, <1>3, <1>4, <1>8, <2>2, TaleGoesOn
  <1> HIDE DEF more
  <1>9. Reports(m, o, own, counter)
    BY DEF Ongoing
  <1>10. ASSUME NEW x \in Orders \ {o}, NEW a \in Nat, NEW b \in Nat,
                x.side # o.side, Has(m.counter, x, b), Tale(m.events, x, a, b, Strict)
         PROVE  \E k \in Nat : Has(n.counter, x, k) /\ Tale(n.events, x, a, k, Strict)
    <2>1. CASE x = y
      BY <1>5, <1>6, <1>8, <1>10, <2>1, 0 \in Nat
    <2>2. CASE x # y
      BY <1>5, <1>6, <1>7, <1>10, <2>2 DEF Others
    <2> QED
      BY <2>1, <2>2
  <1>11. Tale(m.events, o, o.amount, m.submitted.amount, Strict) =>
           \E k \in Nat : /\ Tale(n.events, o, o.amount, k, Strict)
                          /\ IF n.done THEN Has(n.own, o, k) /\ ~Silent(n.events, o) ELSE k = n.submitted.amount
    <2>1. m.submitted.amount \in Nat
      BY OngoingIs DEF Positive
    <2> QED
      BY <1>2, <1>6, <1>7, <2>1
  <1>12. \A x \in Orders \ {o} : \A a, b : x.side = o.side /\ Tale(m.events, x, a, b, Strict) => Tale(n.events, x, a, b, Strict)
    BY <1>2, <1>6, <1>7
  <1> QED
    BY <1>6, <1>9, <1>10, <1>11, <1>12, ReportsMore

\* What is left of the two orders of an execution.
LEMMA TradeLeaves ==
  ASSUME NEW m, NEW o \in Orders, NEW own, NEW counter, NEW when, Ongoing(m, o, own, counter, when), ~m.done,
         NEW ts \in Int, m.counter # <<>>
  PROVE  LET x    == Traded(m, ts)
             more == Append(m.events, x)
             y    == Best(m).order
             rest == IF IsValid(BestLeft(m, ts)) THEN ReplaceBest(m.counter, BestLeft(m, ts)) ELSE Tail(m.counter)
         IN  /\ Left(m, ts) \in Limits /\ Left(m, ts).order = o
             /\ more \in Seq(Events) /\ ~Silent(more, o)
             /\ \A z, a, b : z # o /\ z # y /\ Tale(m.events, z, a, b, Strict) => Tale(more, z, a, b, Strict)
             /\ Tale(m.events, o, o.amount, m.submitted.amount, Strict) =>
                  Tale(more, o, o.amount, Lasts(Left(m, ts)), Strict)
             /\ \A a, b : Tale(m.events, y, a, b, Strict) /\ Has(m.counter, y, b) =>
                  Tale(more, y, a, Lasts(BestLeft(m, ts)), Strict)
             /\ Others(m.counter, rest, y) /\ Has(rest, y, Lasts(BestLeft(m, ts)))
             /\ y \in Orders /\ y # o /\ y.side # o.side
             /\ Lasts(Left(m, ts)) \in Nat /\ Lasts(BestLeft(m, ts)) \in Nat
  <1> DEFINE x == Traded(m, ts)
             more == Append(m.events, x)
             y == Best(m).order
             left == Left(m, ts)
             yLeft == BestLeft(m, ts)
             rest == IF IsValid(yLeft) THEN ReplaceBest(m.counter, yLeft) ELSE Tail(m.counter)
  <1>1. /\ m.counter \in Seq(Limits) /\ m.events \in Seq(Events)
        /\ SideHolds(m.counter, Opposite(o.side), Orders)
        /\ Best(m) \in Limits /\ Best(m).amount \in Positive /\ y \in Orders /\ y # o /\ y.side # o.side
        /\ Has(m.counter, y, Best(m).amount)
        /\ m.submitted \in Limits /\ m.submitted.order = o /\ m.submitted.amount \in Positive
    BY OngoingIs
  <1>2. x \in Events /\ x = OrderExecuted(m.submitted, Best(m), ts)
    BY <1>1, EventsAre DEF Traded
  <1>3. x.amount \in Nat
    BY <1>2 DEF Events, OrderExecuted
  <1>4. /\ left = Remaining(m.submitted, x.amount) /\ yLeft = Remaining(Best(m), x.amount)
        /\ left \in Limits /\ yLeft \in Limits /\ left.order = o /\ yLeft.order = y
    <2>1. left = Remaining(m.submitted, x.amount) /\ yLeft = Remaining(Best(m), x.amount)
      BY DEF Left, BestLeft
    <2>2. Remaining(m.submitted, x.amount) \in Limits /\ Remaining(Best(m), x.amount) \in Limits
      BY <1>1, <1>3, RemainingTyped
    <2>3. Remaining(m.submitted, x.amount).order = m.submitted.order /\ Remaining(Best(m), x.amount).order = y
      BY <1>1, LimitIs DEF Remaining, Limits, LimitOrders
    <2> QED
      BY <1>1, <2>1, <2>2, <2>3
  <1>5. \A z : /\ About(x, z) <=> z \in {o, y}
               /\ z = o => Part(x, z) = m.submitted /\ LeftBy(x, z) = Lasts(left)
               /\ z = y => Part(x, z) = Best(m) /\ LeftBy(x, z) = Lasts(yLeft)
    <2>1. ASSUME NEW z
          PROVE  /\ About(x, z) <=> z \in {m.submitted.order, Best(m).order}
                 /\ z = m.submitted.order => Part(x, z) = m.submitted /\ LeftBy(x, z) = Lasts(Remaining(m.submitted, x.amount))
                 /\ z = Best(m).order /\ z # m.submitted.order =>
                      Part(x, z) = Best(m) /\ LeftBy(x, z) = Lasts(Remaining(Best(m), x.amount))
      BY <1>1, <1>2, SpeaksOf
    <2> HIDE DEF x, left, yLeft
    <2> QED
      BY <1>1, <1>4, <2>1
  <1>6. Lasts(left) \in Nat /\ Lasts(yLeft) \in Nat
    BY <1>4, LimitIs
  <1>7. Others(m.counter, rest, y) /\ Has(rest, y, Lasts(yLeft))
    <2>1. CASE IsValid(yLeft)
      <3>1. yLeft.amount \in Nat /\ yLeft.amount # 0
        <4>1. yLeft.amount > 0 /\ yLeft.amount \in Nat
          BY <1>4, <2>1, LimitIs DEF IsValid, IsValidAt
        <4> QED
          BY <4>1
      <3>2. yLeft.order = Head(m.counter).order
        BY <1>4 DEF Best
      <3> HIDE DEF yLeft
      <3>3. Others(m.counter, ReplaceBest(m.counter, yLeft), yLeft.order)
            /\ Has(ReplaceBest(m.counter, yLeft), yLeft.order, yLeft.amount)
        BY <1>1, <1>4, <3>1, <3>2, ReplaceHas
      <3> QED
        BY <1>4, <2>1, <3>3 DEF Lasts
    <2>2. CASE ~IsValid(yLeft)
      <3>1. Others(m.counter, Tail(m.counter), y) /\ Has(Tail(m.counter), y, 0)
        BY <1>1, TailHas DEF Best
      <3> QED
        BY <2>2, <3>1 DEF Lasts
    <2> QED
      BY <2>1, <2>2
  <1> HIDE DEF x, left, yLeft, rest, y
  <1>8. more \in Seq(Events) /\ ~Silent(more, o)
    BY <1>1, <1>2, <1>5, Speaks
  <1>9. \A z, a, b : z # o /\ z # y /\ Tale(m.events, z, a, b, Strict) => Tale(more, z, a, b, Strict)
    BY <1>1, <1>2, <1>5, TaleGoesOn
  <1>10. ASSUME Tale(m.events, o, o.amount, m.submitted.amount, Strict)
         PROVE  Tale(more, o, o.amount, Lasts(left), Strict)
    <2>1. <<m.submitted.amount, m.submitted.amount>> \in Strict
      BY <1>1 DEF Strict, Positive
    <2> QED
      BY <1>1, <1>2, <1>5, <1>10, <2>1, TaleGoesOn
  <1>11. ASSUME NEW a, NEW b, Tale(m.events, y, a, b, Strict), Has(m.counter, y, b)
         PROVE  Tale(more, y, a, Lasts(yLeft), Strict)
    <2>1. b = Best(m).amount
      BY <1>1, <1>11, HasOne
    <2>2. <<b, Best(m).amount>> \in Strict
      BY <1>1, <2>1 DEF Strict, Positive
    <2> QED
      BY <1>1, <1>2, <1>5, <1>11, <2>2, TaleGoesOn
  <1> HIDE DEF more
  <1>12. /\ left \in Limits /\ left.order = o
         /\ more \in Seq(Events) /\ ~Silent(more, o)
         /\ \A z, a, b : z # o /\ z # y /\ Tale(m.events, z, a, b, Strict) => Tale(more, z, a, b, Strict)
         /\ Tale(m.events, o, o.amount, m.submitted.amount, Strict) => Tale(more, o, o.amount, Lasts(left), Strict)
         /\ \A a, b : Tale(m.events, y, a, b, Strict) /\ Has(m.counter, y, b) => Tale(more, y, a, Lasts(yLeft), Strict)
         /\ Others(m.counter, rest, y) /\ Has(rest, y, Lasts(yLeft))
         /\ y \in Orders /\ y # o /\ y.side # o.side
         /\ Lasts(left) \in Nat /\ Lasts(yLeft) \in Nat
    BY <1>1, <1>4, <1>6, <1>7, <1>8, <1>9, <1>10, <1>11
  <1> QED
    BY <1>12 DEF x, more, y, left, yLeft, rest

\* The two are executed.
LEMMA TradeReports ==
  ASSUME NEW m, NEW o \in Orders, NEW own, NEW counter, NEW when, Ongoing(m, o, own, counter, when), ~m.done,
         NEW ts \in Int, NEW n, Trades(m, ts, n)
  PROVE  Reports(n, o, own, counter)
  <1> DEFINE x == Traded(m, ts)
             more == Append(m.events, x)
             y == Best(m).order
             left == Left(m, ts)
             yLeft == BestLeft(m, ts)
             rest == IF IsValid(yLeft) THEN ReplaceBest(m.counter, yLeft) ELSE Tail(m.counter)
             e == OrderCanceled(left, TRUE)
             more2 == Append(more, e)
  <1>1. m.counter # <<>>
    BY DEF Trades
  <1>2. /\ left \in Limits /\ left.order = o
        /\ more \in Seq(Events) /\ ~Silent(more, o)
        /\ \A z, a, b : z # o /\ z # y /\ Tale(m.events, z, a, b, Strict) => Tale(more, z, a, b, Strict)
        /\ Tale(m.events, o, o.amount, m.submitted.amount, Strict) => Tale(more, o, o.amount, Lasts(left), Strict)
        /\ \A a, b : Tale(m.events, y, a, b, Strict) /\ Has(m.counter, y, b) => Tale(more, y, a, Lasts(yLeft), Strict)
        /\ Others(m.counter, rest, y) /\ Has(rest, y, Lasts(yLeft))
        /\ y \in Orders /\ y # o /\ y.side # o.side
        /\ Lasts(left) \in Nat /\ Lasts(yLeft) \in Nat
    BY <1>1, TradeLeaves
  <1>3. Has(m.own, o, 0) /\ Reports(m, o, own, counter)
    BY OngoingIs DEF Ongoing
  <1>4. /\ n.own = m.own /\ n.counter = rest
        /\ \/ IsValid(left) /\ n.events = more2 /\ n.done = TRUE
           \/ n.events = more /\ n.done = ~IsValid(left) /\ n.submitted = left
    <2>1. CASE IsValid(yLeft) /\ IsValid(left) /\ n = Made(left, m.own, ReplaceBest(m.counter, yLeft), more2, TRUE)
      BY <2>1 DEF Made
    <2>2. CASE IsValid(yLeft) /\ ~IsValid(left) /\ n = Made(left, m.own, ReplaceBest(m.counter, yLeft), more, TRUE)
      <3>1. n.own = m.own /\ n.counter = rest /\ n.events = more /\ n.submitted = left /\ n.done = TRUE
        BY <2>2 DEF Made
      <3> QED
        BY <2>2, <3>1
    <2>3. CASE ~IsValid(yLeft) /\ n = Made(left, m.own, Tail(m.counter), more, ~IsValid(left))
      BY <2>3 DEF Made
    <2> QED
      BY <2>1, <2>2, <2>3 DEF Trades
  <1>5. e \in Events
    BY <1>2, EventsAre, TRUE \in BOOLEAN
  <1>6. \A z : /\ About(e, z) <=> z = o
               /\ Part(e, z) = left /\ LeftBy(e, z) = 0
    <2>1. e = OrderCanceled(left, TRUE)
      OBVIOUS
    <2> HIDE DEF e, left
    <2>2. \A z : /\ About(e, z) <=> z = left.order
                 /\ Part(e, z) = left /\ LeftBy(e, z) = 0
      BY <1>2, <1>5, <2>1, SpeaksOf
    <2> QED
      BY <1>2, <2>2
  <1> HIDE DEF x, left, yLeft, rest, y, more, e
  <1>7. \A z, a, b : z # o /\ Tale(more, z, a, b, Strict) => Tale(more2, z, a, b, Strict)
    BY <1>2, <1>5, <1>6, TaleGoesOn
  <1>8. ASSUME IsValid(left), Tale(more, o, o.amount, Lasts(left), Strict) PROVE Tale(more2, o, o.amount, 0, Strict)
    <2>1. Lasts(left) = left.amount /\ left.amount \in Nat /\ left.amount > 0
      BY <1>2, <1>8, LimitIs DEF Lasts, IsValid, IsValidAt
    <2>2. <<Lasts(left), left.amount>> \in Strict
      BY <2>1 DEF Strict, Positive
    <2> QED
      BY <1>2, <1>5, <1>6, <1>8, <2>2, TaleGoesOn
  <1>9. ~Silent(more2, o)
    BY <1>2, <1>5, <1>6, Speaks
  <1> HIDE DEF more2
  <1>10. \A z, a, b : z # o /\ Tale(more, z, a, b, Strict) => Tale(n.events, z, a, b, Strict)
    BY <1>4, <1>7
  <1>11. ASSUME NEW z \in Orders \ {o}, NEW a \in Nat, NEW b \in Nat,
                z.side # o.side, Has(m.counter, z, b), Tale(m.events, z, a, b, Strict)
         PROVE  \E k \in Nat : Has(n.counter, z, k) /\ Tale(n.events, z, a, k, Strict)
    <2>1. CASE z = y
      <3>1. Tale(more, y, a, Lasts(yLeft), Strict)
        BY <1>2, <1>11, <2>1
      <3>2. Has(n.counter, z, Lasts(yLeft)) /\ Tale(n.events, z, a, Lasts(yLeft), Strict)
        BY <1>2, <1>4, <1>10, <2>1, <3>1
      <3> QED
        BY <1>2, <3>2
    <2>2. CASE z # y
      BY <1>2, <1>4, <1>10, <1>11, <2>2 DEF Others
    <2> QED
      BY <2>1, <2>2
  <1>12. ASSUME Tale(m.events, o, o.amount, m.submitted.amount, Strict)
         PROVE  \E k \in Nat : /\ Tale(n.events, o, o.amount, k, Strict)
                               /\ IF n.done THEN Has(n.own, o, k) /\ ~Silent(n.events, o) ELSE k = n.submitted.amount
    <2>1. Tale(more, o, o.amount, Lasts(left), Strict)
      BY <1>2, <1>12
    <2>2. CASE IsValid(left) /\ n.events = more2 /\ n.done = TRUE
      <3>1. Tale(n.events, o, o.amount, 0, Strict) /\ Has(n.own, o, 0) /\ ~Silent(n.events, o)
        BY <1>3, <1>4, <1>8, <1>9, <2>1, <2>2
      <3> QED
        BY <2>2, <3>1, 0 \in Nat
    <2>3. CASE n.events = more /\ n.done = ~IsValid(left) /\ n.submitted = left
      <3>1. CASE IsValid(left)
        <4>1. Lasts(left) = left.amount /\ ~n.done
          BY <2>3, <3>1 DEF Lasts
        <4> QED
          BY <1>2, <2>1, <2>3, <4>1
      <3>2. CASE ~IsValid(left)
        <4>1. Lasts(left) = 0 /\ n.done
          BY <2>3, <3>2 DEF Lasts
        <4>2. Has(n.own, o, 0) /\ ~Silent(n.events, o)
          BY <1>2, <1>3, <1>4, <2>3
        <4> QED
          BY <1>2, <2>1, <2>3, <4>1, <4>2
      <3> QED
        BY <3>1, <3>2
    <2> QED
      BY <1>4, <2>2, <2>3
  <1>13. \A z \in Orders \ {o} : \A a, b : z.side = o.side /\ Tale(m.events, z, a, b, Strict) => Tale(n.events, z, a, b, Strict)
    BY <1>2, <1>10
  <1> QED
    BY <1>3, <1>4, <1>11, <1>12, <1>13, ReportsMore

\* Whatever the turn is.
LEMMA TurnReports ==
  ASSUME NEW o \in Orders, NEW own, NEW counter, NEW when, \A x \in Orders \ {o} : when[x] < when[o],
         NEW ts \in Int, NEW m, Ongoing(m, o, own, counter, when), ~m.done
  PROVE  Ongoing(DoMatch(m, ts), o, own, counter, when)
  <1> DEFINE n == DoMatch(m, ts)
  <1>1. m \in Matchings /\ GoodMatching(m, o, Orders, when) /\ when \in [Orders -> Int]
    BY DEF Ongoing
  <1>2. n \in Matchings
    BY <1>1, TurnTyped
  <1>3. GoodMatching(n, o, Orders, when)
    BY <1>1, OrdersAreValid, GoodTurn
  <1>4. Drops(m, ts, n) \/ Adds(m, ts, n) \/ DropsBest(m, ts, n) \/ Trades(m, ts, n)
    <2>1. IsMatching(m)
      BY <1>1 DEF Matchings, IsMatching
    <2> QED
      BY <2>1, TurnCases
  <1> HIDE DEF n
  <1>5. Reports(n, o, own, counter)
    BY <1>4, DropReports, AddReports, DropBestReports, TradeReports
  <1> QED
    BY <1>1, <1>2, <1>3, <1>5 DEF Ongoing, n

\* What a command tells of an order of which n rested: what rests of it now.  One
\* that is placed starts with its amount, and something is told of it.
Tells(b, c, r, x, n) ==
  \E k \in Nat :
    /\ Has(r.book[x.side], x, k)
    /\ IF c = Placed(x) THEN Tale(r.events, x, x.amount, k, Strict) /\ ~Silent(r.events, x)
       ELSE Tale(r.events, x, n, k, Strict)

\* A command that places an order.
LEMMA PlacingTells ==
  ASSUME NEW b \in Books, NEW when \in [Orders -> Int], GoodBook(b, Orders, when),
         NEW c \in Commands, c.type = "placed", Newest(c.order, b, Orders, when), NEW ts \in Int,
         NEW x \in Orders, NEW n \in Nat, Has(b[x.side], x, n)
  PROVE  Tells(b, c, Handle(b, c, ts), x, n)
  <1> DEFINE o == c.order
             r == Handle(b, c, ts)
             own == b[o.side]
             counter == b[Opposite(o.side)]
             m == Turns(b, o, ts)[Len(b[Opposite(o.side)]) + 1]
             S == {y \in Matchings : Ongoing(y, o, own, counter, when)}
             Result(y) ==
               [book |-> [side \in {"buy", "sell"} |-> IF side = o.side THEN y.own ELSE y.counter],
                events |-> y.events]
  <1>1. o \in Orders /\ o.side \in {"buy", "sell"} /\ Opposite(o.side) \in {"buy", "sell"} /\ ValidOrder(o)
    BY OrdersAreValid DEF Commands, ValidOrder, Opposite
  <1>2. own \in Seq(Limits) /\ counter \in Seq(Limits) /\ Len(counter) \in Nat
    BY <1>1 DEF Books
  <1>3. \A y \in Orders \ {o} : when[y] < when[o]
    BY DEF Newest
  <1>4. c = Placed(o) /\ \A y : c = Placed(y) <=> y = o
    <2>1. c = [type |-> "placed", order |-> c.order]
      BY DEF Commands
    <2> QED
      BY <2>1 DEF Placed
  <1>5. Matching(LimitOrder(o), own, counter) \in S
    <2> DEFINE first == Matching(LimitOrder(o), own, counter)
    <2>1. LimitOrder(o) \in Limits
      BY <1>1 DEF LimitOrder, Limits, LimitOrders, ValidOrder, Positive
    <2>2. <<>> \in Seq(Events)
      OBVIOUS
    <2>3. first \in Matchings
      BY <1>2, <2>1, <2>2 DEF Matching, Matchings
    <2>4. GoodMatching(first, o, Orders, when)
      BY OrdersAreValid, MatchingStartsGood
    <2>5. Reports(first, o, own, counter)
      BY <1>1, ReportsStart
    <2> HIDE DEF first
    <2> QED
      BY <2>3, <2>4, <2>5 DEF Ongoing, first
  <1>6. ASSUME NEW y \in S, ~y.done PROVE DoMatch(y, ts) \in S
    <2>1. Ongoing(y, o, own, counter, when)
      BY <1>6
    <2> HIDE DEF own, counter, o
    <2>2. Ongoing(DoMatch(y, ts), o, own, counter, when)
      BY <1>1, <1>3, <1>6, <2>1, TurnReports
    <2>3. DoMatch(y, ts) \in Matchings
      BY <2>2 DEF Ongoing
    <2> QED
      BY <2>2, <2>3
  <1> HIDE DEF S
  <1>7. m \in S
    <2> HIDE DEF o
    <2> QED
      BY <1>2, <1>5, <1>6, MatchingInduction
  <1>8. m.done
    BY OrdersAreValid, MatchingEnds
  <1>9. r = Result(m)
    <2>1. {Result(y) : y \in {m}} = {Result(m)}
      OBVIOUS
    <2>2. r = AddOrder(b, o, ts)
      BY DEF Handle
    <2> QED
      BY <2>1, <2>2 DEF AddOrder
  <1> HIDE DEF m, r
  <1>10. r.book[o.side] = m.own /\ r.book[Opposite(o.side)] = m.counter /\ r.events = m.events
    BY <1>1, <1>9 DEF Opposite
  <1>11. Reports(m, o, own, counter)
    BY <1>7 DEF S, Ongoing
  <1> HIDE DEF own, counter, o
  <1>12. CASE x = o
    <2>1. PICK k \in Nat : Tale(m.events, o, o.amount, k, Strict) /\ Has(m.own, o, k) /\ ~Silent(m.events, o)
      BY <1>8, <1>11 DEF Reports
    <2> QED
      BY <1>4, <1>10, <1>12, <2>1 DEF Tells, r
  <1>13. CASE x # o /\ x.side = o.side
    <2>1. Has(m.own, x, n) /\ Tale(m.events, x, n, n, Strict)
      BY <1>11, <1>13 DEF Reports, own
    <2> QED
      BY <1>4, <1>10, <1>13, <2>1 DEF Tells, r
  <1>14. CASE x.side # o.side
    <2>1. x.side = Opposite(o.side)
      BY <1>1, <1>14, OrdersAreValid DEF ValidOrder, Opposite
    <2>2. PICK k \in Nat : Has(m.counter, x, k) /\ Tale(m.events, x, n, k, Strict)
      BY <1>11, <1>14, <2>1 DEF Reports, counter
    <2> QED
      BY <1>4, <1>10, <1>14, <2>1, <2>2 DEF Tells, r
  <1> QED
    BY <1>12, <1>13, <1>14

\* A command that cancels one.
LEMMA CancellingTells ==
  ASSUME NEW b \in Books, NEW when \in [Orders -> Int], GoodBook(b, Orders, when),
         NEW c \in Commands, c.type # "placed", NEW ts \in Int,
         NEW x \in Orders, NEW n \in Nat, Has(b[x.side], x, n)
  PROVE  Tells(b, c, Handle(b, c, ts), x, n)
  <1> DEFINE o == c.order
             r == Handle(b, c, ts)
  <1>1. /\ o \in Orders /\ o.side \in {"buy", "sell"} /\ x.side \in {"buy", "sell"} /\ \A y : c # Placed(y)
        /\ (\A y \in Orders : ValidOrder(y)) /\ \A y \in Orders : when[y] \in Int
    BY OrdersAreValid DEF Commands, ValidOrder, Placed
  <1>2. GoodSide(b[o.side], o.side, Orders, when) /\ SideHolds(b[o.side], o.side, Orders) /\ b[o.side] \in Seq(Limits)
    <2>1. GoodSide(b[o.side], o.side, Orders, when) /\ b[o.side] \in Seq(Limits)
      BY <1>1 DEF GoodBook, Books
    <2> QED
      BY <1>1, <2>1, SideOrders
  <1>3. r = CancelOrder(b, o)
    BY DEF Handle
  <1>4. CancelsNothing(b, o, r) \/ \E i : CancelsAt(b, o, i, r)
    BY <1>3, CancelCases
  <1> HIDE DEF o, r
  <1>5. CASE CancelsNothing(b, o, r)
    <2>1. r.book = b /\ r.events = <<>>
      BY <1>5 DEF CancelsNothing
    <2>2. Tale(r.events, x, n, n, Strict)
      BY <2>1, TaleBegins
    <2> QED
      BY <1>1, <2>1, <2>2 DEF Tells, r
  <1>6. ASSUME NEW i, CancelsAt(b, o, i, r) PROVE Tells(b, c, r, x, n)
    <2> DEFINE own == b[o.side]
               e == OrderCanceled(own[i], FALSE)
    <2>1. /\ i \in DOMAIN own /\ own[i].order = o /\ own[i] \in Limits
          /\ r.book = [b EXCEPT ![o.side] = RemoveAt(own, i)] /\ r.events = <<e>>
      <3>1. /\ i \in DOMAIN b[o.side] /\ b[o.side][i].order = o
            /\ r.book = [b EXCEPT ![o.side] = RemoveAt(b[o.side], i)]
            /\ r.events = <<OrderCanceled(b[o.side][i], FALSE)>>
        BY <1>6 DEF CancelsAt
      <3>2. b[o.side][i] \in Limits
        BY <1>2, <3>1
      <3> QED
        BY <3>1, <3>2
    <2> HIDE DEF own
    <2>2. e \in Events
      BY <2>1, EventsAre, FALSE \in BOOLEAN
    <2>3. \A z : /\ About(e, z) <=> z = o
                 /\ Part(e, z) = own[i] /\ LeftBy(e, z) = 0
      <3>1. e = OrderCanceled(own[i], FALSE)
        OBVIOUS
      <3>2. own[i] \in Limits /\ own[i].order = o
        BY <2>1
      <3> HIDE DEF e
      <3> DEFINE lo == own[i]
      <3>3. lo \in Limits /\ e = OrderCanceled(lo, FALSE)
        BY <3>1, <3>2
      <3> HIDE DEF lo
      <3>4. \A z : /\ About(e, z) <=> z = lo.order
                   /\ Part(e, z) = lo /\ LeftBy(e, z) = 0
        BY <2>2, <3>3, SpeaksOf
      <3> QED
        BY <3>2, <3>4 DEF lo
    <2>4. own \in Seq(Limits) /\ SideHolds(own, o.side, Orders)
      BY <1>2 DEF own
    <2>5. Others(own, RemoveAt(own, i), o) /\ Has(RemoveAt(own, i), o, 0)
      BY <2>1, <2>4, RemoveHas
    <2> DEFINE rest == RemoveAt(own, i)
    <2>6. r.book = [b EXCEPT ![o.side] = rest] /\ Others(own, rest, o) /\ Has(rest, o, 0)
      BY <2>1, <2>5
    <2> HIDE DEF rest, e
    <2>7. r.book[o.side] = rest /\ \A side \in {"buy", "sell"} : side # o.side => r.book[side] = b[side]
      BY <1>1, <2>6 DEF Books
    <2>8. <<>> \in Seq(Events) /\ r.events = Append(<<>>, e)
      BY <2>1
    <2>9. Tale(<<>>, x, n, n, Strict)
      BY TaleBegins
    <2>10. CASE x = o
      <3>1. Has(own, o, n)
        BY <2>10 DEF own
      <3>2. own[i].amount \in Positive
        <4>1. Rests(own[i], o.side)
          BY <1>2, <2>1 DEF GoodSide, own
        <4> QED
          BY <2>1, <4>1 DEF Rests, Limits, LimitOrders, Positive
      <3>3. Has(own, o, own[i].amount)
        BY <2>1, <3>2 DEF Has, Positive
      <3>4. n = own[i].amount
        BY <2>4, <3>1, <3>3, HasOne
      <3>5. <<n, own[i].amount>> \in Strict
        BY <3>2, <3>4 DEF Strict, Positive
      <3>6. Tale(r.events, x, n, 0, Strict)
        BY <2>2, <2>3, <2>8, <2>9, <2>10, <3>5, TaleGoesOn
      <3> QED
        BY <1>1, <2>6, <2>7, <2>10, <3>6, 0 \in Nat DEF Tells
    <2>11. CASE x # o
      <3>1. Tale(r.events, x, n, n, Strict)
        BY <2>2, <2>3, <2>8, <2>9, <2>11, TaleGoesOn
      <3>2. Has(r.book[x.side], x, n)
        BY <1>1, <2>6, <2>7, <2>11 DEF Others, own
      <3> QED
        BY <1>1, <3>1, <3>2 DEF Tells
    <2> QED
      BY <2>10, <2>11
  <1> QED
    BY <1>4, <1>5, <1>6 DEF r

\* The time at which an order was placed that does not rest does not matter.
LEMMA Redated ==
  ASSUME NEW b, NEW when \in [Orders -> Int], GoodBook(b, Orders, when),
         NEW o \in Orders, Has(b[o.side], o, 0), NEW now \in Int
  PROVE  GoodBook(b, Orders, [when EXCEPT ![o] = now])
  <1> DEFINE new == [when EXCEPT ![o] = now]
  <1>1. \A y \in Orders : new[y] = IF y = o THEN now ELSE when[y]
    OBVIOUS
  <1> HIDE DEF new
  <1>2. ASSUME NEW side \in {"buy", "sell"} PROVE GoodSide(b[side], side, Orders, new)
    <2>1. GoodSide(b[side], side, Orders, when)
      BY DEF GoodBook
    <2>2. SideHolds(b[side], side, Orders)
      BY <2>1, OrdersAreValid, SideOrders
    <2>3. ASSUME NEW i \in DOMAIN b[side] PROVE b[side][i].order \in Orders /\ b[side][i].order # o
      <3>1. b[side][i].order \in Orders /\ b[side][i].order.side = side
        BY <2>2 DEF SideHolds
      <3>2. CASE side = o.side
        BY <3>1, <3>2 DEF Has
      <3> QED
        BY <3>1, <3>2
    <2> QED
      BY <1>1, <2>1, <2>3 DEF GoodSide, InOrder
  <1> QED
    BY <1>2 DEF GoodBook, new

-----------------------------------------------------------------------------
(* The books along the queue *)

BookAfter(q, n) == Replay(q, n).book

\* A good book of the first n commands.
Dated(b, n) ==
  \E when \in [Orders -> Int] : GoodBook(b, Orders, when) /\ \A x \in Orders : when[x] < n

\* An order is placed only when it rests nowhere.
Placeable(q) ==
  \A j \in 1 .. Len(q), o \in Orders : q[j] = Placed(o) => Has(BookAfter(q, j - 1)[o.side], o, 0)

\* One command more: the book stays good, and it tells of every order.
LEMMA HandleDated ==
  ASSUME NEW b \in Books, NEW n \in Int, Dated(b, n), NEW c \in Commands,
         \A o \in Orders : c = Placed(o) => Has(b[o.side], o, 0)
  PROVE  LET r == Handle(b, c, n) IN
         /\ Dated(r.book, n + 1) /\ GoodEvents(r.events)
         /\ \A x \in Orders, k \in Nat : Has(b[x.side], x, k) => Tells(b, c, r, x, k)
  <1> DEFINE r == Handle(b, c, n)
             o == c.order
  <1>1. PICK when \in [Orders -> Int] : GoodBook(b, Orders, when) /\ \A x \in Orders : when[x] < n
    BY DEF Dated
  <1>2. o \in Orders /\ ValidOrder(o) /\ c.type \in {"placed", "canceled"} /\ (c.type = "placed" => c = Placed(o))
    BY OrdersAreValid DEF Commands, Placed
  <1>3. CASE c.type = "placed"
    <2> DEFINE new == [when EXCEPT ![o] = n]
    <2>1. Has(b[o.side], o, 0)
      BY <1>2, <1>3
    <2>2. GoodBook(b, Orders, new)
      BY <1>1, <1>2, <2>1, Redated
    <2>3. new \in [Orders -> Int] /\ \A x \in Orders : new[x] = IF x = o THEN n ELSE when[x]
      BY <1>1, <1>2
    <2> HIDE DEF new
    <2>4. Newest(o, b, Orders, new)
      <3>1. o \notin OrdersIn(b[o.side])
        BY <2>1 DEF Has, OrdersIn
      <3>2. \A x \in Orders \ {o} : new[x] < new[o]
        BY <1>1, <1>2, <2>3
      <3> QED
        BY <1>2, <3>1, <3>2 DEF Newest
    <2>5. GoodBook(r.book, Orders, new) /\ GoodEvents(r.events)
      BY <1>2, <1>3, <2>2, <2>4, OrdersAreValid, BookStaysGood
    <2>6. \A x \in Orders : new[x] < n + 1
      BY <1>1, <2>3
    <2>7. Dated(r.book, n + 1)
      BY <2>3, <2>5, <2>6 DEF Dated
    <2>8. \A x \in Orders, k \in Nat : Has(b[x.side], x, k) => Tells(b, c, r, x, k)
      BY <1>3, <2>2, <2>3, <2>4, PlacingTells
    <2> QED
      BY <2>5, <2>7, <2>8
  <1>4. CASE c.type # "placed"
    <2>1. GoodBook(r.book, Orders, when) /\ GoodEvents(r.events)
      BY <1>1, <1>2, <1>4, OrdersAreValid, BookStaysGood
    <2>2. \A x \in Orders : when[x] < n + 1
      BY <1>1
    <2>3. Dated(r.book, n + 1)
      BY <2>1, <2>2 DEF Dated
    <2>4. \A x \in Orders, k \in Nat : Has(b[x.side], x, k) => Tells(b, c, r, x, k)
      BY <1>1, <1>4, CancellingTells
    <2> QED
      BY <2>1, <2>3, <2>4
  <1> QED
    BY <1>3, <1>4

\* Step by step along the queue.
LEMMA BooksAlong ==
  ASSUME NEW q \in Seq(Commands), Placeable(q)
  PROVE  /\ \A n \in 0 .. Len(q) : BookAfter(q, n) \in Books /\ Dated(BookAfter(q, n), n)
         /\ \A n \in 1 .. Len(q) :
              LET r == Handle(BookAfter(q, n - 1), q[n], n - 1) IN
              /\ BookAfter(q, n) = r.book
              /\ \A x \in Orders, k \in Nat :
                   Has(BookAfter(q, n - 1)[x.side], x, k) => Tells(BookAfter(q, n - 1), q[n], r, x, k)
  <1> DEFINE N == Len(q)
             S == {n \in 0 .. N : Dated(BookAfter(q, n), n)}
  <1>1. N \in Nat /\ \A n \in 1 .. N : q[n] \in Commands /\ n - 1 \in 0 .. N /\ n - 1 \in Int /\ (n - 1) + 1 = n
    OBVIOUS
  <1>2. \A n \in 0 .. N : BookAfter(q, n) \in Books
    BY ReplayIs DEF BookAfter, Replays
  <1>3. ASSUME NEW n \in 1 .. N PROVE BookAfter(q, n) = Handle(BookAfter(q, n - 1), q[n], n - 1).book
    <2> DEFINE p == Replay(q, n - 1)
    <2>1. Replay(q, n) = Replayed(p, q[n], n - 1)
      BY ReplayIs
    <2>2. BookAfter(q, n - 1) = p.book /\ BookAfter(q, n) = Replayed(p, q[n], n - 1).book
      BY <2>1 DEF BookAfter
    <2> HIDE DEF p
    <2>3. Replayed(p, q[n], n - 1).book = Handle(p.book, q[n], n - 1).book
      BY DEF Replayed
    <2> QED
      BY <2>2, <2>3
  <1>4. 0 \in S
    <2> DEFINE when == [x \in Orders |-> -1]
    <2>1. BookAfter(q, 0) = EmptyBook
      BY ReplayIs DEF BookAfter
    <2>2. when \in [Orders -> Int] /\ \A x \in Orders : when[x] < 0
      OBVIOUS
    <2> HIDE DEF when
    <2>3. GoodBook(EmptyBook, Orders, when)
      BY DEF EmptyBook, GoodBook, GoodSide, InOrder, NotCrossed, OrdersIn
    <2> QED
      BY <1>1, <2>1, <2>2, <2>3 DEF Dated
  <1>5. ASSUME NEW n \in 1 .. N, n - 1 \in S
        PROVE  /\ n \in S
               /\ LET r == Handle(BookAfter(q, n - 1), q[n], n - 1) IN
                  \A x \in Orders, k \in Nat :
                    Has(BookAfter(q, n - 1)[x.side], x, k) => Tells(BookAfter(q, n - 1), q[n], r, x, k)
    <2> DEFINE b == BookAfter(q, n - 1)
               i == n - 1
    <2>1. b \in Books /\ i \in Int /\ Dated(b, i) /\ q[n] \in Commands /\ i + 1 = n
      BY <1>1, <1>2, <1>5
    <2>2. \A o \in Orders : q[n] = Placed(o) => Has(b[o.side], o, 0)
      BY DEF Placeable
    <2>3. BookAfter(q, n) = Handle(b, q[n], i).book
      BY <1>3
    <2> HIDE DEF b, i
    <2>4. LET r == Handle(b, q[n], i) IN
          /\ Dated(r.book, i + 1)
          /\ \A x \in Orders, k \in Nat : Has(b[x.side], x, k) => Tells(b, q[n], r, x, k)
      BY <2>1, <2>2, HandleDated
    <2>5. n \in S
      BY <1>1, <2>1, <2>3, <2>4
    <2> QED
      BY <2>4, <2>5 DEF b, i
  <1> HIDE DEF S
  <1>6. 0 .. N \subseteq S
    BY <1>1, <1>4, <1>5, CountUp
  <1>7. \A n \in 0 .. N : Dated(BookAfter(q, n), n)
    BY <1>6 DEF S
  <1>8. \A n \in 1 .. N : n - 1 \in S
    BY <1>1, <1>6
  <1> QED
    BY <1>2, <1>3, <1>5, <1>7, <1>8

\* What is stored later changes no book before.
LEMMA ReplayPrefix ==
  ASSUME NEW q \in Seq(Commands), NEW r \in Seq(Commands)
  PROVE  \A n \in 0 .. Len(q) : Replay(q \o r, n) = Replay(q, n)
  <1> DEFINE N == Len(q)
             u == q \o r
             S == {n \in 0 .. N : Replay(u, n) = Replay(q, n)}
  <1>1. N \in Nat /\ u \in Seq(Commands) /\ Len(u) = N + Len(r) /\ Len(r) \in Nat
    BY ConcatProperties
  <1>2. \A n \in 1 .. N : u[n] = q[n] /\ n \in 1 .. Len(u) /\ n - 1 \in 0 .. N
    <2>1. \A n \in 1 .. Len(q) + Len(r) : u[n] = IF n <= Len(q) THEN q[n] ELSE r[n - Len(q)]
      BY ConcatProperties
    <2>2. \A n \in 1 .. N : n \in 1 .. Len(q) + Len(r) /\ n <= Len(q)
      BY <1>1
    <2> HIDE DEF u
    <2> QED
      BY <1>1, <2>1, <2>2
  <1> HIDE DEF u
  <1>3. 0 \in S
    <2>1. Replay(u, 0) = Replay(q, 0)
      BY <1>1, ReplayIs
    <2> QED
      BY <1>1, <2>1
  <1>4. ASSUME NEW n \in 1 .. N, n - 1 \in S PROVE n \in S
    <2>1. Replay(u, n) = Replayed(Replay(u, n - 1), u[n], n - 1)
      BY <1>1, <1>2, ReplayIs
    <2>2. Replay(q, n) = Replayed(Replay(q, n - 1), q[n], n - 1)
      BY ReplayIs
    <2>3. Replay(u, n) = Replay(q, n)
      BY <1>2, <1>4, <2>1, <2>2
    <2> QED
      BY <1>1, <2>3
  <1> HIDE DEF S, N
  <1>5. 0 .. N \subseteq S
    BY <1>1, <1>3, <1>4, CountUp
  <1> QED
    BY <1>5 DEF S, N, u

\* An order that rests nowhere does not come to rest until it is placed.
LEMMA StaysAway ==
  ASSUME NEW q \in Seq(Commands), Placeable(q), NEW i \in 0 .. Len(q), NEW o \in Orders,
         Has(BookAfter(q, i)[o.side], o, 0), \A j \in i + 1 .. Len(q) : q[j] # Placed(o)
  PROVE  Has(BookAfter(q, Len(q))[o.side], o, 0)
  <1> DEFINE N == Len(q)
             M == N - i
             S == {k \in 0 .. M : Has(BookAfter(q, i + k)[o.side], o, 0)}
  <1>1. N \in Nat /\ M \in Nat /\ i + M = N /\ i \in Nat
    OBVIOUS
  <1>2. 0 \in S
    <2>1. i + 0 = i
      BY <1>1
    <2> QED
      BY <1>1, <2>1
  <1> HIDE DEF M
  <1>3. ASSUME NEW k \in 1 .. M, k - 1 \in S PROVE k \in S
    <2> DEFINE n == i + k
               b == BookAfter(q, n - 1)
               r == Handle(b, q[n], n - 1)
    <2>1. n \in 1 .. N /\ n \in i + 1 .. N /\ n - 1 = i + (k - 1) /\ k \in 0 .. M
      BY <1>1
    <2>2. Has(b[o.side], o, 0) /\ q[n] # Placed(o)
      BY <1>3, <2>1
    <2> HIDE DEF n
    <2>3. BookAfter(q, n) = r.book /\ Tells(b, q[n], r, o, 0)
      <3>1. 0 \in Nat
        OBVIOUS
      <3> QED
        BY <2>1, <2>2, <3>1, BooksAlong
    <2> HIDE DEF b, r
    <2>4. PICK m \in Nat : Has(r.book[o.side], o, m) /\ Tale(r.events, o, 0, m, Strict)
      BY <2>2, <2>3 DEF Tells
    <2>5. m = 0
      <3>1. r.events \in Seq(Events)
        <4>1. b \in Books /\ q[n] \in Commands /\ n - 1 \in Int
          BY <1>1, <2>1, BooksAlong DEF b
        <4> QED
          BY <4>1, HandleTyped DEF r
      <3> QED
        BY <2>4, <3>1, TaleIsOver
    <2>6. Has(BookAfter(q, n)[o.side], o, 0)
      BY <2>3, <2>4, <2>5
    <2> QED
      BY <2>1, <2>6 DEF n
  <1> HIDE DEF S
  <1>4. 0 .. M \subseteq S
    BY <1>1, <1>2, <1>3, CountUp
  <1>5. M \in S
    BY <1>1, <1>4
  <1> QED
    BY <1>1, <1>5 DEF S, N

\* The queue with more commands.
LEMMA PlaceableMore ==
  ASSUME NEW q \in Seq(Commands), Placeable(q), NEW r \in Seq(Commands),
         \A j \in 1 .. Len(r), o \in Orders :
           r[j] = Placed(o) => j = 1 /\ Has(BookAfter(q, Len(q))[o.side], o, 0)
  PROVE  Placeable(q \o r)
  <1> DEFINE u == q \o r
             N == Len(q)
  <1>1. /\ N \in Nat /\ Len(r) \in Nat /\ Len(u) = N + Len(r)
        /\ \A n \in 1 .. N + Len(r) : u[n] = IF n <= N THEN q[n] ELSE r[n - N]
    BY ConcatProperties
  <1>2. \A n \in 0 .. N : BookAfter(u, n) = BookAfter(q, n)
    BY ReplayPrefix DEF BookAfter
  <1> HIDE DEF u
  <1>3. ASSUME NEW n \in 1 .. Len(u), NEW o \in Orders, u[n] = Placed(o)
        PROVE  Has(BookAfter(u, n - 1)[o.side], o, 0)
    <2>1. CASE n <= N
      <3>1. n \in 1 .. N /\ n - 1 \in 0 .. N /\ u[n] = q[n]
        BY <1>1, <2>1
      <3> QED
        BY <1>2, <1>3, <3>1 DEF Placeable
    <2>2. CASE n > N
      <3>1. n - N \in 1 .. Len(r) /\ u[n] = r[n - N]
        BY <1>1, <2>2
      <3>2. n - N = 1 /\ Has(BookAfter(q, N)[o.side], o, 0)
        BY <1>3, <3>1
      <3>3. n - 1 = N /\ N \in 0 .. N
        BY <1>1, <3>2
      <3> QED
        BY <1>2, <3>2, <3>3
    <2> QED
      BY <1>1, <2>1, <2>2
  <1> QED
    BY <1>3 DEF Placeable, u

-----------------------------------------------------------------------------
(* The mail of an actor *)

\* The events of some letters.
Mail(letters) == [i \in 1 .. Len(letters) |-> letters[i].event]

\* An execution is of two orders.
Proper(e) == e.type = "executed" => e.submitted.order # e.counter.order

\* What an owner should get.
Mine(w, m) == \A i \in 1 .. Len(m) : Concerns(m[i], w) /\ Proper(m[i])

\* The events of the first letter, of the rest, of more letters.
LEMMA MailIs ==
  ASSUME NEW s \in Seq(Letters)
  PROVE  /\ Mail(s) \in Seq(Events) /\ Len(Mail(s)) = Len(s)
         /\ s = <<>> <=> Mail(s) = <<>>
         /\ s # <<>> => Head(Mail(s)) = Head(s).event /\ Tail(Mail(s)) = Mail(Tail(s))
         /\ \A t \in Seq(Letters) : Mail(s \o t) = Mail(s) \o Mail(t)
  <1> DEFINE M(u) == Mail(u)
  <1>1. ASSUME NEW u \in Seq(Letters)
        PROVE  M(u) \in Seq(Events) /\ Len(M(u)) = Len(u) /\ \A i \in 1 .. Len(u) : M(u)[i] = u[i].event
    <2>1. \A i \in 1 .. Len(u) : u[i].event \in Events
      <3>1. \A i \in 1 .. Len(u) : u[i] \in Letters
        OBVIOUS
      <3> QED
        BY <3>1 DEF Letters
    <2>2. M(u) = [i \in 1 .. Len(u) |-> u[i].event] /\ Len(u) \in Nat
      BY DEF Mail
    <2> QED
      BY <2>1, <2>2
  <1>2. M(s) = Mail(s) /\ \A t \in Seq(Letters) : M(s \o t) = Mail(s \o t) /\ M(t) = Mail(t)
    OBVIOUS
  <1>3. M(Tail(s)) = Mail(Tail(s))
    OBVIOUS
  <1> HIDE DEF M
  <1>4. s = <<>> <=> M(s) = <<>>
    BY <1>1
  <1>5. ASSUME s # <<>> PROVE Head(M(s)) = Head(s).event /\ Tail(M(s)) = M(Tail(s))
    <2>1. Tail(s) \in Seq(Letters) /\ Len(Tail(s)) = Len(s) - 1 /\ Len(s) \in Nat /\ Len(s) # 0
      BY <1>5
    <2>2. \A i \in 1 .. Len(s) - 1 : Tail(s)[i] = s[i + 1]
      BY <1>5
    <2>3. Head(M(s)) = Head(s).event
      BY <1>1, <1>4, <1>5, <2>1
    <2> DEFINE p == Tail(M(s))
               q == M(Tail(s))
    <2>4. p \in Seq(Events) /\ Len(p) = Len(s) - 1 /\ \A i \in 1 .. Len(s) - 1 : p[i] = M(s)[i + 1]
      BY <1>1, <1>4, <1>5, <2>1
    <2>5. q \in Seq(Events) /\ Len(q) = Len(s) - 1 /\ \A i \in 1 .. Len(s) - 1 : q[i] = Tail(s)[i].event
      BY <1>1, <2>1
    <2>6. \A i \in 1 .. Len(s) - 1 : M(s)[i + 1] = s[i + 1].event
      BY <1>1, <2>1
    <2>7. \A i \in 1 .. Len(s) - 1 : p[i] = q[i]
      BY <2>2, <2>4, <2>5, <2>6
    <2> HIDE DEF p, q
    <2>8. p = q
      BY <2>4, <2>5, <2>7, SeqEqual
    <2> QED
      BY <2>3, <2>8 DEF p, q
  <1>6. ASSUME NEW t \in Seq(Letters) PROVE M(s \o t) = M(s) \o M(t)
    <2> DEFINE N == Len(s)
               K == Len(t)
               p == M(s \o t)
               q == M(s) \o M(t)
    <2>1. /\ N \in Nat /\ K \in Nat /\ s \o t \in Seq(Letters) /\ Len(s \o t) = N + K
          /\ \A i \in 1 .. N + K : (s \o t)[i] = IF i <= N THEN s[i] ELSE t[i - N]
      BY ConcatProperties
    <2>2. p \in Seq(Events) /\ Len(p) = N + K /\ \A i \in 1 .. N + K : p[i] = (s \o t)[i].event
      BY <1>1, <2>1
    <2>3. /\ q \in Seq(Events) /\ Len(q) = N + K
          /\ \A i \in 1 .. N + K : q[i] = IF i <= N THEN M(s)[i] ELSE M(t)[i - N]
      <3> DEFINE a == M(s)
                 b == M(t)
      <3>1. a \in Seq(Events) /\ Len(a) = N /\ b \in Seq(Events) /\ Len(b) = K
        BY <1>1
      <3> HIDE DEF a, b, N, K
      <3>2. /\ a \o b \in Seq(Events) /\ Len(a \o b) = N + K
            /\ \A i \in 1 .. N + K : (a \o b)[i] = IF i <= N THEN a[i] ELSE b[i - N]
        BY <3>1, ConcatProperties
      <3> QED
        BY <3>2 DEF a, b
    <2>4. ASSUME NEW i \in 1 .. N + K PROVE p[i] = q[i]
      <3>1. CASE i <= N
        <4>1. i \in 1 .. N
          BY <2>1, <3>1
        <4>2. M(s)[i] = s[i].event
          BY <1>1, <4>1
        <4> HIDE DEF p, q, N, K
        <4> QED
          BY <2>1, <2>2, <2>3, <3>1, <4>2
      <3>2. CASE ~(i <= N)
        <4>1. i - N \in 1 .. K
          BY <2>1, <3>2
        <4>2. M(t)[i - N] = t[i - N].event
          BY <1>1, <4>1
        <4> HIDE DEF p, q, N, K
        <4> QED
          BY <2>1, <2>2, <2>3, <3>2, <4>2
      <3> QED
        BY <3>1, <3>2
    <2> HIDE DEF p, q, N, K
    <2>5. p = q
      BY <2>2, <2>3, <2>4, SeqEqual
    <2> QED
      BY <2>5 DEF p, q
  <1> QED
    BY <1>1, <1>2, <1>3, <1>4, <1>5, <1>6

\* What is among the elements of a sequence is one of those that are kept.
LEMMA AmongIn ==
  ASSUME NEW T, NEW s \in Seq(T), NEW S
  PROVE  Among(s, S) \in Seq(S)
  <1>1. PICK f : Keeps(f, s, S, T) /\ Among(s, S) = f[Len(s)]
    BY AmongIs
  <1> DEFINE N == Len(s)
             Fine == {i \in 0 .. N : f[i] \in Seq(S)}
  <1>2. N \in Nat
    OBVIOUS
  <1>3. 0 \in Fine
    BY <1>1, <1>2 DEF Keeps
  <1>4. ASSUME NEW i \in 1 .. N, i - 1 \in Fine PROVE i \in Fine
    <2>1. f[i] = IF s[i] \in S THEN Append(f[i - 1], s[i]) ELSE f[i - 1]
      BY <1>1 DEF Keeps
    <2>2. f[i - 1] \in Seq(S)
      BY <1>4
    <2>3. f[i] \in Seq(S)
      BY <2>1, <2>2
    <2> QED
      BY <1>2, <2>3
  <1> HIDE DEF Fine, N
  <1>5. 0 .. N \subseteq Fine
    BY <1>2, <1>3, <1>4, CountUp
  <1> QED
    BY <1>1, <1>2, <1>5 DEF Fine, N

\* What the book publishes comes to the owner of each order it is about.
LEMMA DeliveredIs ==
  ASSUME NEW es \in Seq(Events), NEW offset \in Int, NEW w
  PROVE  LET d == Mail(ToOwner(w, es, offset)) IN
         /\ d \in Seq(Events) /\ ToOwner(w, es, offset) \in Seq(Letters)
         /\ \A x \in Orders : \A a, b, R : x.owner = w /\ Tale(es, x, a, b, R) => Tale(d, x, a, b, R)
         /\ (\A i \in 1 .. Len(es) : Proper(es[i])) => Mine(w, d)
  <1> DEFINE S == {e \in ToSet(es) : Concerns(e, w)}
             own == Among(es, S)
             letters == ToOwner(w, es, offset)
  <1>1. letters \in Seq(Letters) /\ own \in Seq(Events)
        /\ letters = [i \in 1 .. Len(own) |-> [event |-> own[i], offset |-> offset]]
    BY ToOwnerTyped
  <1>2. own \in Seq(S)
    BY AmongIn
  <1>3. Len(es) \in Nat /\ ToSet(es) = {es[i] : i \in 1 .. Len(es)} /\ \A i \in 1 .. Len(es) : es[i] \in Events
    BY DEF ToSet
  <1>4. ASSUME NEW x \in Orders, x.owner = w, NEW a, NEW b, NEW R, Tale(es, x, a, b, R)
        PROVE  Tale(own, x, a, b, R)
    <2>1. ASSUME NEW i \in 1 .. Len(es), About(es[i], x) PROVE es[i] \in S
      <3>1. Concerns(es[i], w)
        BY <1>4, <2>1 DEF About, Concerns
      <3> QED
        BY <1>3, <3>1
    <2> HIDE DEF S
    <2> QED
      BY <1>4, <2>1, TaleAmong
  <1>5. ASSUME \A i \in 1 .. Len(es) : Proper(es[i]) PROVE Mine(w, own)
    <2>1. \A e \in S : Concerns(e, w) /\ Proper(e)
      BY <1>3, <1>5
    <2> HIDE DEF S
    <2>2. \A i \in 1 .. Len(own) : own[i] \in S
      BY <1>2
    <2> QED
      BY <2>1, <2>2 DEF Mine
  <1> HIDE DEF own, letters
  <1>6. Mail(letters) = own
    <2>1. Len(own) \in Nat /\ own = [i \in 1 .. Len(own) |-> own[i]]
      BY <1>1
    <2>2. Len(letters) = Len(own)
      BY <1>1, <2>1
    <2>3. \A i \in 1 .. Len(own) : letters[i].event = own[i]
      BY <1>1
    <2>4. Mail(letters) = [i \in 1 .. Len(own) |-> letters[i].event]
      BY <2>2 DEF Mail
    <2> QED
      BY <2>1, <2>3, <2>4
  <1> QED
    BY <1>1, <1>4, <1>5, <1>6 DEF letters

\* What is left of each order after an actor's next event.
LEMMA EventLeaves ==
  ASSUME NEW s \in ActorStates, NEW w \in Owners, NEW e \in Events, Concerns(e, w), Proper(e), NEW x \in Orders
  PROVE  HandleEvent(s, w, e).active[x] =
           IF x.owner = w /\ About(e, x) THEN LeftBy(e, x) ELSE s.active[x]
  <1> DEFINE t == HandleEvent(s, w, e)
  <1>0. ASSUME NEW u, NEW r \in ActorStates, NEW o \in Orders, NEW n \in Nat, Sets(r, o, n, u)
        PROVE  u \in ActorStates /\ u.active[x] = IF x = o THEN n ELSE r.active[x]
    <2>1. u \in ActorStates /\ u.active = [r.active EXCEPT ![o] = n]
      BY <1>0 DEF Sets, Leaves
    <2>2. r.active \in Counts
      BY StateFields
    <2> QED
      BY <2>1, <2>2 DEF Counts
  <1>1. CASE e.type = "added"
    <2>1. e.lo \in Limits /\ e.lo.order \in Orders /\ e.lo.amount \in Nat /\ e.lo.order.owner = w
      BY <1>1, LimitIs DEF Events, Concerns
    <2>2. t = HandleOrderAdded(Release(s, e.lo.order), e.lo)
      BY <1>1 DEF HandleEvent, OnOrderAdded
    <2>3. Sets(s, e.lo.order, e.lo.amount, t)
      BY <2>1, <2>2, AddedSets
    <2> HIDE DEF t
    <2>4. t.active[x] = IF x = e.lo.order THEN e.lo.amount ELSE s.active[x]
      BY <1>0, <2>1, <2>3
    <2> QED
      BY <1>1, <2>1, <2>4 DEF t, About, LeftBy
  <1>2. CASE e.type = "canceled"
    <2>1. e.lo \in Limits /\ e.lo.order \in Orders /\ e.unmatchable \in BOOLEAN /\ e.lo.order.owner = w /\ 0 \in Nat
      BY <1>2, LimitIs DEF Events, Concerns
    <2>2. t = OnOrderCanceled(s, e)
      BY <1>2 DEF HandleEvent
    <2>3. Sets(s, e.lo.order, 0, t)
      BY <2>1, <2>2, CanceledSets
    <2> HIDE DEF t
    <2>4. t.active[x] = IF x = e.lo.order THEN 0 ELSE s.active[x]
      BY <1>0, <2>1, <2>3
    <2> QED
      BY <1>2, <2>1, <2>4 DEF t, About, LeftBy
  <1>3. CASE e.type = "executed"
    <2> DEFINE Of1(r, lo) == IF lo.order.owner = w THEN HandleOrderExecuted(r, Remaining(lo, e.amount)) ELSE r
               t1 == Of1(s, e.submitted)
               t2 == Of1(t1, e.counter)
    <2>1. e.submitted \in Limits /\ e.counter \in Limits /\ e.amount \in Nat
      BY <1>3 DEF Events
    <2>2. t = t2
      BY <1>3 DEF HandleEvent, OnOrderExecuted
    <2>3. ASSUME NEW r \in ActorStates, NEW lo \in Limits
          PROVE  /\ Of1(r, lo) \in ActorStates
                 /\ Of1(r, lo).active[x] =
                      IF lo.order.owner = w /\ x = lo.order THEN Lasts(Remaining(lo, e.amount)) ELSE r.active[x]
      <3> DEFINE left == Remaining(lo, e.amount)
                 u == HandleOrderExecuted(r, left)
      <3>1. left \in Limits /\ left.order = lo.order /\ left.order \in Orders /\ Lasts(left) \in Nat
        BY <2>1, RemainingTyped, LimitIs
      <3>2. Sets(r, left.order, Lasts(left), u)
        BY <3>1, ExecutedSets
      <3> HIDE DEF u, left
      <3>3. u \in ActorStates /\ u.active[x] = IF x = left.order THEN Lasts(left) ELSE r.active[x]
        BY <1>0, <3>1, <3>2
      <3> QED
        BY <2>3, <3>1, <3>3 DEF u, left
    <2> HIDE DEF Of1
    <2>4. t1 \in ActorStates /\ t1.active[x] =
            IF e.submitted.order.owner = w /\ x = e.submitted.order THEN Lasts(Remaining(e.submitted, e.amount))
            ELSE s.active[x]
      BY <2>1, <2>3
    <2> HIDE DEF t1
    <2>5. t2.active[x] =
            IF e.counter.order.owner = w /\ x = e.counter.order THEN Lasts(Remaining(e.counter, e.amount))
            ELSE t1.active[x]
      BY <2>1, <2>3, <2>4
    <2>6. e.submitted.order # e.counter.order
      BY <1>3 DEF Proper
    <2>7. About(e, x) <=> x \in {e.submitted.order, e.counter.order}
      BY <1>3 DEF About
    <2>8. About(e, x) => LeftBy(e, x) = IF x = e.submitted.order THEN Lasts(Remaining(e.submitted, e.amount))
                                       ELSE Lasts(Remaining(e.counter, e.amount))
      BY <1>3, <2>7 DEF LeftBy, Part
    <2> HIDE DEF t2, t
    <2> QED
      BY <2>2, <2>4, <2>5, <2>6, <2>7, <2>8 DEF t
  <1> QED
    BY <1>1, <1>2, <1>3 DEF Events

-----------------------------------------------------------------------------
(* An order in the queue, the book, the mail and its owner's actor *)

\* The command that places an order is not in the queue any more, or is there once.
Unplaced(q, h, x) == \A j \in h + 1 .. Len(q) : q[j] # Placed(x)

OnceComing(q, h, x) ==
  \E j \in h + 1 .. Len(q) : q[j] = Placed(x) /\ \A i \in h + 1 .. Len(q) : i # j => q[i] # Placed(x)

\* The mail m takes x from the n that is active to what rests in the book.
Followed(q, h, b, m, n, x) ==
  Unplaced(q, h, x) /\ \E k \in Nat : Has(b[x.side], x, k) /\ Tale(m, x, n, k, Strict)

\* Nothing is known of the order but at its actor.
Unheard(b, m, x) == Has(b[x.side], x, 0) /\ Tale(m, x, 0, 0, Strict)

\* Its command is on the way.
Expected(q, h, b, m, n, x) == OnceComing(q, h, x) /\ n = x.amount /\ Unheard(b, m, x)

\* Its command could not be stored.
Lost(q, h, b, m, n, x) == Unplaced(q, h, x) /\ x \in Unreliable /\ n # 0 /\ Unheard(b, m, x)

\* After a start the actor may not have heard of the order yet.
Recovering(b, m, n, x) == \E k \in Nat : Has(b[x.side], x, k) /\ Tale(m, x, n, k, Forgetful)

Tracked(q, h, b, m, n, x, on) ==
  IF on THEN Followed(q, h, b, m, n, x) \/ Expected(q, h, b, m, n, x) \/ Lost(q, h, b, m, n, x)
  ELSE Recovering(b, m, n, x)

\* The order book handles the next command.
LEMMA HandlesTracked ==
  ASSUME NEW q \in Seq(Commands), Placeable(q), NEW h \in 0 .. Len(q), h < Len(q),
         NEW r, r = Handle(BookAfter(q, h), q[h + 1], h), NEW x \in Orders, NEW m \in Seq(Events),
         NEW d \in Seq(Events), \A a, c, R : Tale(r.events, x, a, c, R) => Tale(d, x, a, c, R),
         NEW n \in Nat, NEW on \in BOOLEAN, Tracked(q, h, BookAfter(q, h), m, n, x, on)
  PROVE  Tracked(q, h + 1, r.book, m \o d, n, x, on)
  <1> DEFINE b == BookAfter(q, h)
             c == q[h + 1]
  <1>1. h + 1 \in 1 .. Len(q) /\ (h + 1) - 1 = h /\ h \in Int /\ h \in Nat /\ Len(q) \in Nat
    OBVIOUS
  <1>2. b \in Books /\ Dated(b, h) /\ c \in Commands
    BY <1>1, BooksAlong
  <1>3. r.events \in Seq(Events)
    BY <1>1, <1>2, HandleTyped
  <1>4. \A k \in Nat : Has(b[x.side], x, k) => Tells(b, c, r, x, k)
    <2> DEFINE j == h + 1
    <2>1. LET u == Handle(BookAfter(q, j - 1), q[j], j - 1) IN
          \A k \in Nat : Has(BookAfter(q, j - 1)[x.side], x, k) => Tells(BookAfter(q, j - 1), q[j], u, x, k)
      BY <1>1, BooksAlong
    <2> QED
      BY <1>1, <2>1
  <1>5. \A k \in Nat : Has(b[x.side], x, k) /\ c = Placed(x) => k = 0
    <2>1. c = Placed(x) => Has(b[x.side], x, 0)
      <3> DEFINE j == h + 1
      <3>1. q[j] = Placed(x) => Has(BookAfter(q, j - 1)[x.side], x, 0)
        BY <1>1 DEF Placeable
      <3> QED
        BY <1>1, <3>1
    <2> QED
      BY <2>1 DEF Has
  <1>6. b[x.side] = BookAfter(q, h)[x.side]
    OBVIOUS
  <1>7. Tracked(q, h, b, m, n, x, on) /\ c = q[h + 1]
    OBVIOUS
  <1> HIDE DEF b, c
  <1>8. CASE ~on
    <2>1. PICK k \in Nat : Has(b[x.side], x, k) /\ Tale(m, x, n, k, Forgetful)
      BY <1>7, <1>8 DEF Tracked, Recovering
    <2>2. Tells(b, c, r, x, k)
      BY <1>4, <2>1
    <2>3. PICK l \in Nat : Has(r.book[x.side], x, l) /\ IF c = Placed(x) THEN Tale(r.events, x, x.amount, l, Strict) /\ ~Silent(r.events, x)
                                                       ELSE Tale(r.events, x, k, l, Strict)
      BY <2>2 DEF Tells
    <2>4. Tale(r.events, x, k, l, Forgetful)
      <3>1. CASE c = Placed(x)
        <4>1. k = 0
          BY <1>5, <2>1, <3>1
        <4> QED
          BY <1>3, <2>3, <3>1, <4>1, TaleRetold
      <3>2. CASE c # Placed(x)
        BY <1>3, <2>3, <3>2, TaleRetold
      <3> QED
        BY <3>1, <3>2
    <2>5. Tale(m \o d, x, n, l, Forgetful)
      BY <2>1, <2>4, TaleContinues
    <2> QED
      BY <1>8, <2>3, <2>5 DEF Tracked, Recovering
  <1>9. ASSUME Unplaced(q, h, x) PROVE Unplaced(q, h + 1, x) /\ c # Placed(x)
    <2>1. \A j \in (h + 1) + 1 .. Len(q) : j \in h + 1 .. Len(q)
      BY <1>1
    <2>2. h + 1 \in h + 1 .. Len(q)
      BY <1>1
    <2> QED
      BY <1>9, <2>1, <2>2, <1>7 DEF Unplaced
  <1>10. ASSUME Unheard(b, m, x), c # Placed(x) PROVE Unheard(r.book, m \o d, x)
    <2>1. 0 \in Nat
      OBVIOUS
    <2>2. Tells(b, c, r, x, 0)
      BY <1>4, <1>10, <2>1 DEF Unheard
    <2>3. PICK l \in Nat : Has(r.book[x.side], x, l) /\ Tale(r.events, x, 0, l, Strict)
      BY <1>10, <2>2 DEF Tells
    <2>4. l = 0
      BY <1>3, <2>3, TaleIsOver
    <2>5. Tale(m \o d, x, 0, 0, Strict)
      BY <1>10, <2>3, <2>4, TaleContinues DEF Unheard
    <2> QED
      BY <2>3, <2>4, <2>5 DEF Unheard
  <1>11. CASE on /\ Followed(q, h, b, m, n, x)
    <2>1. PICK k \in Nat : Has(b[x.side], x, k) /\ Tale(m, x, n, k, Strict)
      BY <1>11 DEF Followed
    <2>2. Unplaced(q, h + 1, x) /\ c # Placed(x)
      BY <1>9, <1>11 DEF Followed
    <2>3. Tells(b, c, r, x, k)
      BY <1>4, <2>1
    <2>4. PICK l \in Nat : Has(r.book[x.side], x, l) /\ Tale(r.events, x, k, l, Strict)
      BY <2>2, <2>3 DEF Tells
    <2>5. Tale(m \o d, x, n, l, Strict)
      BY <2>1, <2>4, TaleContinues
    <2> QED
      BY <1>11, <2>2, <2>4, <2>5 DEF Tracked, Followed
  <1>12. CASE on /\ Lost(q, h, b, m, n, x)
    <2>1. Unplaced(q, h + 1, x) /\ c # Placed(x)
      BY <1>9, <1>12 DEF Lost
    <2> QED
      BY <1>10, <1>12, <2>1 DEF Tracked, Lost
  <1>13. CASE on /\ Expected(q, h, b, m, n, x)
    <2>1. PICK j \in h + 1 .. Len(q) : q[j] = Placed(x) /\ \A i \in h + 1 .. Len(q) : i # j => q[i] # Placed(x)
      BY <1>13 DEF Expected, OnceComing
    <2>2. \A i \in (h + 1) + 1 .. Len(q) : i \in h + 1 .. Len(q) /\ i # h + 1
      BY <1>1
    <2>3. h + 1 \in h + 1 .. Len(q)
      BY <1>1
    <2>4. CASE j = h + 1
      <3>1. c = Placed(x)
        BY <1>7, <2>1, <2>4
      <3>2. Unplaced(q, h + 1, x)
        BY <2>1, <2>2, <2>4 DEF Unplaced
      <3>3. 0 \in Nat /\ Unheard(b, m, x) /\ n = x.amount
        BY <1>13 DEF Expected
      <3>4. Tells(b, c, r, x, 0)
        BY <1>4, <3>3 DEF Unheard
      <3>5. PICK l \in Nat : Has(r.book[x.side], x, l) /\ Tale(r.events, x, x.amount, l, Strict)
        BY <3>1, <3>4 DEF Tells
      <3>6. Silent(m, x)
        BY <3>3, TaleIsOver DEF Unheard
      <3>7. Tale(m, x, n, n, Strict)
        BY <3>6, TaleOfNothing
      <3>8. Tale(d, x, n, l, Strict)
        BY <3>3, <3>5
      <3>9. Tale(m \o d, x, n, l, Strict)
        BY <3>7, <3>8, TaleContinues
      <3> QED
        BY <1>13, <3>2, <3>5, <3>9 DEF Tracked, Followed
    <2>5. CASE j # h + 1
      <3>1. c # Placed(x)
        BY <1>7, <2>1, <2>3, <2>5
      <3>2. j \in (h + 1) + 1 .. Len(q)
        BY <1>1, <2>1, <2>5
      <3>3. OnceComing(q, h + 1, x)
        BY <2>1, <2>2, <3>2 DEF OnceComing
      <3> QED
        BY <1>10, <1>13, <3>1, <3>3 DEF Tracked, Expected
    <2> QED
      BY <2>4, <2>5
  <1> QED
    BY <1>7, <1>8, <1>11, <1>12, <1>13 DEF Tracked

\* The owner's actor reads the next of its mail.
LEMMA ActsTracked ==
  ASSUME NEW q, NEW h, NEW b, NEW x \in Orders, NEW m \in Seq(Events), m # <<>>,
         NEW n, NEW on \in BOOLEAN, Tracked(q, h, b, m, n, x, on)
  PROVE  Tracked(q, h, b, Tail(m), IF About(Head(m), x) THEN LeftBy(Head(m), x) ELSE n, x, on)
  <1> DEFINE e == Head(m)
             l == IF About(e, x) THEN LeftBy(e, x) ELSE n
  <1>1. ASSUME NEW k, NEW R, Tale(m, x, n, k, R) PROVE Tale(Tail(m), x, l, k, R)
    BY <1>1, TaleProceeds
  <1>2. ASSUME Tale(m, x, 0, 0, Strict) PROVE l = n /\ Tale(Tail(m), x, 0, 0, Strict)
    <2>1. Silent(m, x)
      BY <1>2, TaleIsOver
    <2>2. 1 \in 1 .. Len(m) /\ e = m[1]
      OBVIOUS
    <2>3. ~About(e, x)
      BY <2>1, <2>2 DEF Silent
    <2> QED
      BY <1>2, <2>3, TaleProceeds
  <1> HIDE DEF l
  <1>3. CASE ~on
    BY <1>1, <1>3 DEF Tracked, Recovering, l
  <1>4. CASE on /\ Followed(q, h, b, m, n, x)
    BY <1>1, <1>4 DEF Tracked, Followed, l
  <1>5. CASE on /\ (Expected(q, h, b, m, n, x) \/ Lost(q, h, b, m, n, x))
    BY <1>2, <1>5 DEF Tracked, Expected, Lost, Unheard, l
  <1> QED
    BY <1>3, <1>4, <1>5 DEF Tracked

\* Commands that do not place an order change nothing for it.
LEMMA StoresTracked ==
  ASSUME NEW q \in Seq(Commands), NEW r \in Seq(Commands), NEW h \in 0 .. Len(q), NEW b, NEW m, NEW n,
         NEW x \in Orders, \A j \in 1 .. Len(r) : r[j] # Placed(x), NEW on \in BOOLEAN, Tracked(q, h, b, m, n, x, on)
  PROVE  Tracked(q \o r, h, b, m, n, x, on)
  <1> DEFINE u == q \o r
             N == Len(q)
  <1>1. /\ N \in Nat /\ Len(r) \in Nat /\ Len(u) = N + Len(r)
        /\ \A j \in 1 .. N + Len(r) : u[j] = IF j <= N THEN q[j] ELSE r[j - N]
    BY ConcatProperties
  <1> HIDE DEF u
  <1>2. ASSUME NEW j \in h + 1 .. Len(u)
        PROVE  u[j] = Placed(x) => j \in h + 1 .. N /\ q[j] = Placed(x)
    <2>1. j \in 1 .. N + Len(r)
      BY <1>1
    <2>2. CASE j <= N
      BY <1>1, <2>1, <2>2
    <2>3. CASE ~(j <= N)
      <3>1. j - N \in 1 .. Len(r) /\ u[j] = r[j - N]
        BY <1>1, <2>1, <2>3
      <3> QED
        BY <3>1
    <2> QED
      BY <2>2, <2>3
  <1>3. \A j \in h + 1 .. N : j \in h + 1 .. Len(u) /\ u[j] = q[j]
    BY <1>1
  <1>4. Unplaced(q, h, x) => Unplaced(u, h, x)
    BY <1>2 DEF Unplaced
  <1>5. OnceComing(q, h, x) => OnceComing(u, h, x)
    BY <1>2, <1>3 DEF OnceComing
  <1> QED
    BY <1>4, <1>5 DEF Tracked, Followed, Expected, Lost, Recovering, u

\* An order that is placed: its command is stored, or it is lost.
LEMMA PlacesTracked ==
  ASSUME NEW q \in Seq(Commands), NEW h \in 0 .. Len(q), NEW b, NEW m \in Seq(Events), NEW x \in Orders,
         Tracked(q, h, b, m, 0, x, TRUE), NEW r \in {<<Placed(x)>>, <<>>}, r \in Seq(Commands),
         r = <<>> => x \in Unreliable
  PROVE  /\ Tracked(q \o r, h, b, m, x.amount, x, TRUE)
         /\ Unplaced(q, h, x) /\ Has(b[x.side], x, 0)
  <1>1. x.amount \in Nat /\ x.amount # 0
    BY OrdersAssumption
  <1>2. Followed(q, h, b, m, 0, x)
    BY <1>1 DEF Tracked, Expected, Lost
  <1>3. PICK k \in Nat : Has(b[x.side], x, k) /\ Tale(m, x, 0, k, Strict)
    BY <1>2 DEF Followed
  <1>4. k = 0
    BY <1>3, TaleIsOver
  <1>5. Unplaced(q, h, x) /\ Unheard(b, m, x)
    BY <1>2, <1>3, <1>4 DEF Followed, Unheard
  <1>6. CASE r = <<>>
    <2>1. q \o r = q
      BY <1>6
    <2>2. Lost(q, h, b, m, x.amount, x)
      BY <1>1, <1>5, <1>6 DEF Lost
    <2> QED
      BY <1>5, <2>1, <2>2 DEF Tracked, Unheard
  <1>7. CASE r = <<Placed(x)>>
    <2> DEFINE u == q \o r
               N == Len(q)
    <2>1. Len(r) = 1 /\ r[1] = Placed(x)
      BY <1>7
    <2>2. N \in Nat /\ Len(u) = N + 1 /\ \A j \in 1 .. N + 1 : u[j] = IF j <= N THEN q[j] ELSE r[j - N]
      <3>1. /\ N \in Nat /\ Len(u) = N + Len(r)
            /\ \A j \in 1 .. N + Len(r) : u[j] = IF j <= N THEN q[j] ELSE r[j - N]
        <4> HIDE <1>7
        <4> QED
          BY ConcatProperties
      <3> HIDE DEF u, N
      <3> QED
        BY <2>1, <3>1
    <2> HIDE DEF u, N
    <2>3. u[N + 1] = Placed(x)
      BY <2>1, <2>2
    <2>4. N + 1 \in h + 1 .. Len(u)
      BY <2>2 DEF N
    <2>5. ASSUME NEW i \in h + 1 .. Len(u), i # N + 1 PROVE u[i] # Placed(x)
      <3>1. i \in h + 1 .. N /\ u[i] = q[i]
        BY <2>2, <2>5
      <3> QED
        BY <1>5, <3>1 DEF Unplaced, N
    <2>6. OnceComing(u, h, x)
      BY <2>3, <2>4, <2>5 DEF OnceComing
    <2>7. Expected(u, h, b, m, x.amount, x)
      BY <1>5, <2>6 DEF Expected
    <2> QED
      BY <1>5, <2>7 DEF Tracked, Unheard, u
  <1> QED
    BY <1>6, <1>7

\* When everything is handled what is active is what rests.
LEMMA TrackedAtEnd ==
  ASSUME NEW q \in Seq(Commands), NEW h, h = Len(q), NEW b, NEW x \in Orders, NEW n, NEW on \in BOOLEAN,
         Tracked(q, h, b, <<>>, n, x, on)
  PROVE  /\ (on /\ x \notin Unreliable) \/ ~on => n \in Nat /\ Has(b[x.side], x, n)
         /\ ~on => Tracked(q, h, b, <<>>, n, x, TRUE)
  <1>1. h + 1 .. Len(q) = {}
    OBVIOUS
  <1>2. \A k, R : Tale(<<>>, x, n, k, R) => n = k
    <2>1. 0 \in Nat
      OBVIOUS
    <2> QED
      BY <2>1, TaleBegins
  <1>3. ASSUME on, x \notin Unreliable PROVE n \in Nat /\ Has(b[x.side], x, n)
    <2>1. Followed(q, h, b, <<>>, n, x)
      BY <1>1, <1>3 DEF Tracked, Expected, Lost, OnceComing
    <2> QED
      BY <1>2, <2>1 DEF Followed
  <1>4. ASSUME ~on PROVE n \in Nat /\ Has(b[x.side], x, n) /\ Tracked(q, h, b, <<>>, n, x, TRUE)
    <2>1. PICK k \in Nat : Has(b[x.side], x, k) /\ Tale(<<>>, x, n, k, Forgetful)
      BY <1>4 DEF Tracked, Recovering
    <2>2. n = k
      BY <1>2, <2>1
    <2>3. Tale(<<>>, x, n, k, Strict)
      BY <2>2, TaleBegins
    <2>4. Unplaced(q, h, x)
      BY <1>1 DEF Unplaced
    <2> QED
      BY <2>1, <2>2, <2>3, <2>4 DEF Tracked, Followed
  <1> QED
    BY <1>3, <1>4

\* Each order rests at one place of a dated book at most, on its side.
LEMMA BookHolds ==
  ASSUME NEW b \in Books, NEW n, Dated(b, n), NEW side \in {"buy", "sell"}
  PROVE  b[side] \in Seq(Limits) /\ SideHolds(b[side], side, Orders)
  <1>1. PICK when \in [Orders -> Int] : GoodBook(b, Orders, when)
    BY DEF Dated
  <1>2. GoodSide(b[side], side, Orders, when)
    BY <1>1 DEF GoodBook
  <1>3. \A y \in Orders : ValidOrder(y) /\ when[y] \in Int
    BY <1>1, OrdersAreValid
  <1>4. SideHolds(b[side], side, Orders)
    BY <1>2, <1>3, SideOrders
  <1> QED
    BY <1>4 DEF Books

\* At most one of some limit orders is of x: the p-th, or none.
OnlyAt(s, x, n) ==
  IF n = 0 THEN \A i \in 1 .. Len(s) : s[i].order # x
  ELSE \E p \in 1 .. Len(s) : s[p] = [order |-> x, amount |-> n] /\ \A i \in 1 .. Len(s) : s[i].order = x => i = p

\* What rests of an order among all that rests.
LEMMA RestingIs ==
  ASSUME NEW b \in Books, NEW t, Dated(b, t), NEW x \in Orders, NEW n \in Nat, Has(b[x.side], x, n)
  PROVE  AllOrders(b) \in Seq(Limits) /\ OnlyAt(AllOrders(b), x, n)
  <1> DEFINE p == b["buy"]
             q == b["sell"]
             N == Len(p)
             s == AllOrders(b)
  <1>1. p \in Seq(Limits) /\ SideHolds(p, "buy", Orders) /\ q \in Seq(Limits) /\ SideHolds(q, "sell", Orders)
    BY BookHolds
  <1>2. s = p \o q
    BY DEF AllOrders
  <1>3. (x.side = "buy" /\ Has(p, x, n)) \/ (x.side = "sell" /\ Has(q, x, n))
    <2>1. x.side \in {"buy", "sell"}
      BY OrdersAssumption
    <2>2. Has(b[x.side], x, n)
      OBVIOUS
    <2>3. CASE x.side = "buy"
      BY <2>2, <2>3
    <2>4. CASE x.side = "sell"
      BY <2>2, <2>4
    <2> QED
      BY <2>1, <2>3, <2>4
  <1> HIDE DEF p, q, s
  <1>4. /\ s \in Seq(Limits) /\ Len(s) = N + Len(q) /\ N \in Nat /\ Len(q) \in Nat
        /\ \A i \in 1 .. N + Len(q) : s[i] = IF i <= N THEN p[i] ELSE q[i - N]
    BY <1>1, <1>2, ConcatProperties
  <1>5. DOMAIN p = 1 .. N /\ DOMAIN q = 1 .. Len(q)
    BY <1>1
  <1>6. /\ \A i \in 1 .. N : p[i] \in Limits /\ p[i].order.side = "buy"
        /\ \A i, j \in 1 .. N : p[i].order = p[j].order => i = j
        /\ \A i \in 1 .. Len(q) : q[i] \in Limits /\ q[i].order.side = "sell"
        /\ \A i, j \in 1 .. Len(q) : q[i].order = q[j].order => i = j
    BY <1>1, <1>5 DEF SideHolds, Limits
  <1> HIDE DEF N
  <1>7. ASSUME NEW i \in 1 .. N + Len(q)
        PROVE  \/ i \in 1 .. N /\ s[i] = p[i] /\ s[i].order.side = "buy"
               \/ i - N \in 1 .. Len(q) /\ s[i] = q[i - N] /\ s[i].order.side = "sell"
    <2>1. CASE i <= N
      <3>1. i \in 1 .. N
        BY <1>4, <2>1
      <3> QED
        BY <1>4, <1>6, <2>1, <3>1
    <2>2. CASE ~(i <= N)
      <3>1. i - N \in 1 .. Len(q) /\ s[i] = q[i - N]
        BY <1>4, <2>2
      <3> QED
        BY <1>6, <3>1
    <2> QED
      BY <2>1, <2>2
  <1>8. \A lo \in Limits : lo = [order |-> lo.order, amount |-> lo.amount]
    BY LimitIs
  <1>9. CASE x.side = "buy" /\ Has(p, x, n)
    <2>1. CASE n = 0
      <3>1. \A i \in 1 .. N : p[i].order # x
        BY <1>5, <1>9, <2>1 DEF Has
      <3>2. \A i \in 1 .. N + Len(q) : s[i].order # x
        BY <1>7, <1>9, <3>1
      <3> QED
        BY <1>4, <2>1, <3>2 DEF OnlyAt, s
    <2>2. CASE n # 0
      <3>1. PICK k \in 1 .. N : p[k].order = x /\ p[k].amount = n
        BY <1>5, <1>9, <2>2 DEF Has
      <3>2. k \in 1 .. N + Len(q) /\ s[k] = p[k]
        BY <1>4, <3>1
      <3>3. s[k] = [order |-> x, amount |-> n]
        BY <1>6, <1>8, <3>1, <3>2
      <3>4. \A i \in 1 .. N + Len(q) : s[i].order = x => i = k
        BY <1>6, <1>7, <1>9, <3>1
      <3> QED
        BY <1>4, <2>2, <3>2, <3>3, <3>4 DEF OnlyAt, s
    <2> QED
      BY <2>1, <2>2
  <1>10. CASE x.side = "sell" /\ Has(q, x, n)
    <2>1. CASE n = 0
      <3>1. \A i \in 1 .. Len(q) : q[i].order # x
        BY <1>5, <1>10, <2>1 DEF Has
      <3>2. \A i \in 1 .. N + Len(q) : s[i].order # x
        BY <1>7, <1>10, <3>1
      <3> QED
        BY <1>4, <2>1, <3>2 DEF OnlyAt, s
    <2>2. CASE n # 0
      <3>1. PICK k \in 1 .. Len(q) : q[k].order = x /\ q[k].amount = n
        BY <1>5, <1>10, <2>2 DEF Has
      <3>2. N + k \in 1 .. N + Len(q) /\ ~(N + k <= N) /\ (N + k) - N = k
        BY <1>4, <3>1
      <3>3. s[N + k] = q[k]
        BY <1>4, <3>2
      <3>4. s[N + k] = [order |-> x, amount |-> n]
        BY <1>6, <1>8, <3>1, <3>3
      <3>5. ASSUME NEW i \in 1 .. N + Len(q), s[i].order = x PROVE i = N + k
        <4>1. i - N \in 1 .. Len(q) /\ s[i] = q[i - N]
          BY <1>7, <1>10, <3>5
        <4>2. i - N = k
          BY <1>6, <3>1, <3>5, <4>1
        <4> QED
          BY <1>4, <4>2
      <3> QED
        BY <1>4, <2>2, <3>2, <3>4, <3>5 DEF OnlyAt, s
    <2> QED
      BY <2>1, <2>2
  <1> QED
    BY <1>3, <1>9, <1>10

\* What a started book offers tells of what rests, to an actor that knows nothing.
LEMMA OffersTell ==
  ASSUME NEW s \in Seq(Limits), NEW x \in Orders, NEW n \in Nat, OnlyAt(s, x, n),
         NEW offers, offers = [i \in DOMAIN s |-> OrderAdded(s[i])]
  PROVE  /\ offers \in Seq(Events) /\ \A i \in 1 .. Len(offers) : Proper(offers[i])
         /\ Tale(offers, x, 0, n, Forgetful)
  <1>1. DOMAIN s = 1 .. Len(s) /\ Len(s) \in Nat /\ \A i \in 1 .. Len(s) : s[i] \in Limits
    OBVIOUS
  <1>2. \A i \in 1 .. Len(s) : offers[i] = OrderAdded(s[i]) /\ offers[i] \in Events
    BY <1>1, EventsAre
  <1>3. offers \in Seq(Events) /\ Len(offers) = Len(s)
    <2>1. offers \in [1 .. Len(s) -> Events]
      BY <1>1, <1>2
    <2> QED
      BY <1>1, <2>1, SeqDef
  <1>4. ASSUME NEW i \in 1 .. Len(s)
        PROVE  Proper(offers[i]) /\ (About(offers[i], x) <=> s[i].order = x) /\ Part(offers[i], x) = s[i]
               /\ LeftBy(offers[i], x) = s[i].amount
    BY <1>2 DEF Proper, About, Part, LeftBy, OrderAdded
  <1>5. CASE n = 0
    <2>1. Silent(offers, x)
      BY <1>3, <1>4, <1>5 DEF Silent, OnlyAt
    <2> QED
      BY <1>3, <1>4, <1>5, <2>1, TaleOfNothing
  <1>6. CASE n # 0
    <2>1. PICK p \in 1 .. Len(s) : s[p] = [order |-> x, amount |-> n] /\ \A i \in 1 .. Len(s) : s[i].order = x => i = p
      BY <1>6 DEF OnlyAt
    <2> DEFINE f == [i \in 0 .. Len(s) |-> IF i < p THEN 0 ELSE n]
    <2>2. f \in [0 .. Len(offers) -> Nat] /\ f[0] = 0 /\ f[Len(offers)] = n
      BY <1>1, <1>3
    <2>3. ASSUME NEW i \in 1 .. Len(s), i = p
          PROVE  About(offers[i], x) /\ f[i] = LeftBy(offers[i], x) /\ <<f[i - 1], Part(offers[i], x).amount>> \in Forgetful
      <3>1. s[i].order = x /\ s[i].amount = n
        BY <2>1, <2>3
      <3>2. f[i] = n /\ f[i - 1] = 0
        BY <1>1, <2>3
      <3>3. <<0, n>> \in Forgetful
        <4>1. n \in Positive /\ 0 \in Nat
          BY <1>6 DEF Positive
        <4> QED
          BY <4>1 DEF Forgetful
      <3> HIDE DEF f
      <3> QED
        BY <1>4, <3>1, <3>2, <3>3
    <2>4. ASSUME NEW i \in 1 .. Len(s), i # p PROVE ~About(offers[i], x) /\ f[i] = f[i - 1]
      <3>1. f[i] = f[i - 1]
        BY <1>1, <2>4
      <3> QED
        BY <1>4, <2>1, <2>4, <3>1
    <2> HIDE DEF f
    <2>5. Traces(f, offers, x, 0, n, Forgetful)
      BY <1>3, <2>2, <2>3, <2>4 DEF Traces
    <2> QED
      BY <1>3, <1>4, <2>5 DEF Tale
  <1> QED
    BY <1>5, <1>6

\* A list of all that rests.
LEMMA AllOffered ==
  ASSUME NEW b \in Books, NEW offset \in Int, NEW w, NEW offers,
         offers = [i \in DOMAIN AllOrders(b) |-> OrderAdded(AllOrders(b)[i])]
  PROVE  /\ offers \in Seq(Events) /\ ToOwner(w, offers, offset) \in Seq(Letters)
         /\ Mine(w, Mail(ToOwner(w, offers, offset)))
  <1> DEFINE s == AllOrders(b)
  <1>1. s \in Seq(Limits)
    BY ConcatProperties DEF AllOrders, Books
  <1>2. offers = [i \in DOMAIN s |-> OrderAdded(s[i])]
    OBVIOUS
  <1> HIDE DEF s
  <1>3. DOMAIN s = 1 .. Len(s) /\ Len(s) \in Nat /\ \A i \in 1 .. Len(s) : s[i] \in Limits
    BY <1>1
  <1>4. \A i \in 1 .. Len(s) : offers[i] = OrderAdded(s[i]) /\ offers[i] \in Events /\ Proper(offers[i])
    <2>1. SUFFICES ASSUME NEW i \in 1 .. Len(s)
          PROVE  offers[i] = OrderAdded(s[i]) /\ offers[i] \in Events /\ Proper(offers[i])
      OBVIOUS
    <2>2. offers[i] = OrderAdded(s[i]) /\ offers[i] \in Events
      BY <1>2, <1>3, EventsAre
    <2>3. offers[i].type # "executed"
      BY <2>2 DEF OrderAdded
    <2> QED
      BY <2>2, <2>3 DEF Proper
  <1>5. offers \in Seq(Events) /\ Len(offers) = Len(s)
    <2>1. offers \in [1 .. Len(s) -> Events]
      BY <1>2, <1>3, <1>4
    <2> QED
      BY <1>3, <2>1, SeqDef
  <1> QED
    BY <1>4, <1>5, DeliveredIs

-----------------------------------------------------------------------------
(* The orders of the system, and the theorem *)

\* The mail of each order's owner takes the order from what is active to what rests.
Following ==
  \A x \in Orders :
    Tracked(queue, handled, book, Mail(events[x.owner]), actors.active[x], x, working)

TrackInv ==
  /\ ReservedInv /\ working \in BOOLEAN
  /\ Placeable(queue) /\ book = BookAfter(queue, handled)
  /\ \A w \in Owners : Mine(w, Mail(events[w]))
  /\ Following

\* Nothing is anywhere at first.
LEMMA TrackInit == Init => TrackInv
  <1> SUFFICES ASSUME Init PROVE TrackInv
    OBVIOUS
  <1>2. ReservedInv /\ Types
    BY ReservedInit DEF ReservedInv
  <1>3. queue = <<>> /\ handled = 0 /\ working = TRUE /\ book = EmptyBook /\ Len(<<>>) = 0
    BY DEF Init
  <1>4. Placeable(queue)
    BY <1>3 DEF Placeable
  <1>5. book = BookAfter(queue, handled)
    <2>1. queue \in Seq(Commands)
      BY <1>2 DEF Types
    <2>2. Replay(queue, 0) = [book |-> EmptyBook, events |-> <<>>]
      BY <2>1, ReplayIs
    <2>3. Replay(queue, 0).book = EmptyBook
      BY <2>2
    <2> QED
      BY <1>3, <2>3 DEF BookAfter
  <1>6. \A w \in Owners : Mail(events[w]) = <<>>
    <2>1. \A w \in Owners : events[w] = <<>> /\ events[w] \in Seq(Letters)
      BY <1>2 DEF Init, Types
    <2> QED
      BY <2>1, MailIs
  <1>7. \A w \in Owners : Mine(w, Mail(events[w]))
    BY <1>3, <1>6 DEF Mine
  <1>8. ASSUME NEW x \in Orders
        PROVE  Tracked(queue, handled, book, Mail(events[x.owner]), actors.active[x], x, working)
    <2>1. x.owner \in Owners /\ x.side \in {"buy", "sell"} /\ 0 \in Nat
      BY OrdersAssumption
    <2>2. actors.active[x] = 0
      BY DEF Init, Started
    <2>3. Has(book[x.side], x, 0)
      BY <1>3, <2>1 DEF Has, EmptyBook
    <2>4. Tale(<<>>, x, 0, 0, Strict)
      BY <2>1, TaleBegins
    <2>5. Unplaced(queue, handled, x)
      BY <1>3 DEF Unplaced
    <2> QED
      BY <1>3, <1>6, <2>1, <2>2, <2>3, <2>4, <2>5 DEF Tracked, Followed
  <1> QED
    BY <1>2, <1>3, <1>4, <1>5, <1>7, <1>8 DEF TrackInv, Following


\* What the invariant says.
LEMMA TrackedIs ==
  ASSUME TrackInv
  PROVE  /\ ReservedInv /\ Types /\ working \in BOOLEAN
         /\ queue \in Seq(Commands) /\ handled \in 0 .. Len(queue) /\ Len(queue) \in Nat
         /\ actors \in ActorStates /\ actors.active \in Counts
         /\ Placeable(queue) /\ book = BookAfter(queue, handled) /\ book \in Books /\ Dated(book, handled)
         /\ \A w \in Owners : /\ events[w] \in Seq(Letters) /\ Mail(events[w]) \in Seq(Events)
                              /\ Mine(w, Mail(events[w]))
         /\ \A x \in Orders : x.owner \in Owners /\ actors.active[x] \in Nat
         /\ Following
  <1>1. ReservedInv /\ Types /\ working \in BOOLEAN /\ Placeable(queue) /\ book = BookAfter(queue, handled)
        /\ Following /\ \A w \in Owners : Mine(w, Mail(events[w]))
    BY DEF TrackInv, ReservedInv
  <1>2. queue \in Seq(Commands) /\ handled \in 0 .. Len(queue) /\ events \in [Owners -> Seq(Letters)]
        /\ actors \in ActorStates
    BY <1>1 DEF Types
  <1>3. Len(queue) \in Nat
    BY <1>2
  <1>4. actors.active \in Counts
    <2> DEFINE s == actors
    <2>1. s \in ActorStates
      BY <1>2
    <2> HIDE DEF s
    <2>2. s.active \in Counts
      BY <2>1, StateFields
    <2> QED
      BY <2>2 DEF s
  <1>5. book \in Books /\ Dated(book, handled)
    BY <1>1, <1>2, BooksAlong
  <1>6. \A w \in Owners : events[w] \in Seq(Letters) /\ Mail(events[w]) \in Seq(Events)
    <2>1. \A w \in Owners : events[w] \in Seq(Letters)
      BY <1>2
    <2> QED
      BY <2>1, MailIs
  <1>7. \A x \in Orders : x.owner \in Owners /\ actors.active[x] \in Nat
    BY <1>4, OrdersAssumption DEF Counts
  <1> QED
    BY <1>1, <1>2, <1>3, <1>4, <1>5, <1>6, <1>7

\* The order book handles a command.
LEMMA TrackBookHandles ==
  ASSUME TrackInv, BookHandles, ReservedInv'
  PROVE  TrackInv'
  <1> DEFINE q == queue
             h == handled
             b == BookAfter(q, h)
             c == q[h + 1]
             r == Handle(b, c, h)
             D(w) == ToOwner(w, r.events, h)
  <1>1. /\ q \in Seq(Commands) /\ Placeable(q) /\ h \in 0 .. Len(q) /\ h < Len(q) /\ Len(q) \in Nat
        /\ book = b /\ b \in Books /\ Dated(b, h)
    BY TrackedIs DEF BookHandles
  <1>2. /\ book' = r.book /\ handled' = h + 1 /\ queue' = q /\ actors' = actors /\ working' = working
        /\ events' = [w \in Owners |-> events[w] \o D(w)]
    BY <1>1 DEF BookHandles, Publish
  <1>3. \A w \in Owners : /\ events[w] \in Seq(Letters) /\ Mail(events[w]) \in Seq(Events)
                          /\ Mine(w, Mail(events[w]))
    BY TrackedIs
  <1>4. \A x \in Orders : /\ x.owner \in Owners /\ actors.active[x] \in Nat
                          /\ Tracked(q, h, b, Mail(events[x.owner]), actors.active[x], x, working)
    BY <1>1, TrackedIs DEF Following
  <1>5. working \in BOOLEAN
    BY TrackedIs
  <1> HIDE DEF q, h
  <1>6. h + 1 \in 1 .. Len(q) /\ h \in Int /\ c \in Commands /\ (h + 1) - 1 = h
    BY <1>1
  <1>7. r.events \in Seq(Events)
    BY <1>1, <1>6, HandleTyped
  <1>8. BookAfter(q, h + 1) = r.book
    <2> DEFINE j == h + 1
    <2>1. BookAfter(q, j) = Handle(BookAfter(q, j - 1), q[j], j - 1).book
      BY <1>1, <1>6, BooksAlong
    <2> QED
      BY <1>6, <2>1
  <1>9. \A i \in 1 .. Len(r.events) : Proper(r.events[i])
    <2>1. \A o \in Orders : c = Placed(o) => Has(b[o.side], o, 0)
      <3> DEFINE j == h + 1
      <3>1. \A o \in Orders : q[j] = Placed(o) => Has(BookAfter(q, j - 1)[o.side], o, 0)
        BY <1>1, <1>6 DEF Placeable
      <3> QED
        BY <1>6, <3>1
    <2> HIDE DEF b, c
    <2>2. GoodEvents(r.events)
      BY <1>1, <1>6, <2>1, HandleDated
    <2> HIDE DEF r
    <2>3. DOMAIN r.events = 1 .. Len(r.events)
      BY <1>7
    <2> QED
      BY <2>2, <2>3 DEF GoodEvents, GoodExecution, Proper
  <1> HIDE DEF r
  <1>10. \A w \in Owners : D(w) \in Seq(Letters) /\ Mail(D(w)) \in Seq(Events) /\ Mine(w, Mail(D(w)))
    BY <1>6, <1>7, <1>9, DeliveredIs
  <1>11. \A x \in Orders : \A a, k, R : Tale(r.events, x, a, k, R) => Tale(Mail(D(x.owner)), x, a, k, R)
    BY <1>6, <1>7, DeliveredIs
  <1> HIDE DEF D
  <1>12. \A w \in Owners : Mail(events'[w]) = Mail(events[w]) \o Mail(D(w))
    BY <1>2, <1>3, <1>10, MailIs
  <1>13. \A w \in Owners : Mine(w, Mail(events'[w]))
    <2>1. SUFFICES ASSUME NEW w \in Owners PROVE Mine(w, Mail(events[w]) \o Mail(D(w)))
      BY <1>12
    <2> DEFINE m == Mail(events[w])
               d == Mail(D(w))
               N == Len(m)
    <2>2. m \in Seq(Events) /\ d \in Seq(Events) /\ Mine(w, m) /\ Mine(w, d)
      BY <1>3, <1>10
    <2> HIDE DEF m, d
    <2>3. /\ N \in Nat /\ Len(d) \in Nat /\ Len(m \o d) = N + Len(d)
          /\ \A i \in 1 .. N + Len(d) : (m \o d)[i] = IF i <= N THEN m[i] ELSE d[i - N]
      BY <2>2, ConcatProperties
    <2>4. ASSUME NEW i \in 1 .. N + Len(d) PROVE Concerns((m \o d)[i], w) /\ Proper((m \o d)[i])
      <3>1. CASE i <= N
        <4>1. i \in 1 .. N /\ (m \o d)[i] = m[i]
          BY <2>3, <3>1
        <4> QED
          BY <2>2, <4>1 DEF Mine
      <3>2. CASE ~(i <= N)
        <4>1. i - N \in 1 .. Len(d) /\ (m \o d)[i] = d[i - N]
          BY <2>3, <3>2
        <4> QED
          BY <2>2, <4>1 DEF Mine
      <3> QED
        BY <3>1, <3>2
    <2>5. Mine(w, m \o d)
      BY <2>3, <2>4 DEF Mine
    <2> QED
      BY <2>5 DEF m, d
  <1>14. ASSUME NEW x \in Orders
         PROVE  Tracked(q, h + 1, r.book, Mail(events[x.owner]) \o Mail(D(x.owner)), actors.active[x], x, working)
    <2> DEFINE m == Mail(events[x.owner])
               d == Mail(D(x.owner))
               n == actors.active[x]
               on == working
    <2>1. /\ m \in Seq(Events) /\ d \in Seq(Events) /\ n \in Nat /\ on \in BOOLEAN
          /\ Tracked(q, h, b, m, n, x, on)
          /\ \A a, k, R : Tale(r.events, x, a, k, R) => Tale(d, x, a, k, R)
      BY <1>3, <1>4, <1>5, <1>10, <1>11
    <2>2. r = Handle(BookAfter(q, h), q[h + 1], h)
      BY DEF r
    <2>3. Tracked(q, h, BookAfter(q, h), m, n, x, on)
      BY <2>1
    <2> HIDE DEF m, d, n, on, b, c
    <2>4. Tracked(q, h + 1, r.book, m \o d, n, x, on)
      BY <1>1, <2>1, <2>2, <2>3, HandlesTracked
    <2> QED
      BY <2>4 DEF m, d, n, on
  <1>15. Following'
    <2>1. \A x \in Orders : Tracked(queue', handled', book', Mail(events'[x.owner]), actors'.active[x], x, working')
      BY <1>2, <1>4, <1>12, <1>14
    <2> QED
      BY <2>1 DEF Following
  <1> QED
    BY <1>1, <1>2, <1>5, <1>8, <1>13, <1>15 DEF TrackInv

\* An actor handles an event.
LEMMA TrackActorHandles ==
  ASSUME TrackInv, NEW w \in Owners, ActorHandles(w), ReservedInv'
  PROVE  TrackInv'
  <1> DEFINE e == Head(events[w]).event
             s == actors
             m == Mail(events[w])
  <1>1. /\ events[w] # <<>> /\ events \in [Owners -> Seq(Letters)]
        /\ actors' = HandleEvent(s, w, e) /\ events' = [events EXCEPT ![w] = Tail(events[w])]
        /\ queue' = queue /\ handled' = handled /\ book' = book /\ working' = working
    BY TrackedIs DEF ActorHandles, Types
  <1>2. /\ events[w] \in Seq(Letters) /\ m \in Seq(Events) /\ Mine(w, m)
    BY TrackedIs
  <1>3. m # <<>> /\ Head(m) = e /\ Tail(m) = Mail(Tail(events[w]))
    BY <1>1, <1>2, MailIs
  <1>4. s \in ActorStates /\ working \in BOOLEAN
    BY TrackedIs
  <1>5. \A v \in Owners : Mail(events'[v]) = IF v = w THEN Tail(m) ELSE Mail(events[v])
    BY <1>1, <1>3
  <1>6. \A x \in Orders : /\ x.owner \in Owners
                          /\ Tracked(queue, handled, book, Mail(events[x.owner]), s.active[x], x, working)
    BY TrackedIs DEF Following
  <1>7. \A v \in Owners : Mine(v, Mail(events[v]))
    BY TrackedIs
  <1>8. Placeable(queue) /\ book = BookAfter(queue, handled)
    BY TrackedIs
  <1> HIDE DEF e, s, m
  <1>9. e \in Events /\ Concerns(e, w) /\ Proper(e)
    <2>1. 1 \in 1 .. Len(m) /\ m[1] = e /\ m[1] \in Events
      BY <1>2, <1>3
    <2> QED
      BY <1>2, <2>1 DEF Mine
  <1>10. ASSUME NEW x \in Orders
         PROVE  Tracked(queue, handled, book, Mail(events'[x.owner]), actors'.active[x], x, working)
    <2> DEFINE n == s.active[x]
               on == working
               old == Mail(events[x.owner])
    <2>1. actors'.active[x] = IF x.owner = w /\ About(e, x) THEN LeftBy(e, x) ELSE n
      BY <1>1, <1>4, <1>9, EventLeaves
    <2>2. on \in BOOLEAN /\ Tracked(queue, handled, book, old, n, x, on) /\ x.owner \in Owners
      BY <1>4, <1>6
    <2>3. CASE x.owner = w
      <3> DEFINE l == IF About(e, x) THEN LeftBy(e, x) ELSE n
      <3>1. actors'.active[x] = l
        BY <2>1, <2>3
      <3>2. Tracked(queue, handled, book, m, n, x, on)
        BY <2>2, <2>3 DEF m
      <3>3. Mail(events'[x.owner]) = Tail(m)
        BY <1>5, <2>2, <2>3
      <3> HIDE DEF n, on
      <3>4. Tracked(queue, handled, book, Tail(m), l, x, on)
        BY <1>2, <1>3, <2>2, <3>2, ActsTracked
      <3> QED
        BY <3>1, <3>3, <3>4 DEF on
    <2>4. CASE x.owner # w
      BY <1>5, <2>1, <2>2, <2>4
    <2> QED
      BY <2>3, <2>4
  <1>11. Following'
    <2>1. \A x \in Orders : Tracked(queue', handled', book', Mail(events'[x.owner]), actors'.active[x], x, working')
      BY <1>1, <1>10
    <2> QED
      BY <2>1 DEF Following
  <1>12. \A v \in Owners : Mine(v, Mail(events'[v]))
    <2>1. Tail(m) \in Seq(Events) /\ Len(Tail(m)) = Len(m) - 1 /\ Len(m) \in Nat
      BY <1>2, <1>3
    <2>2. \A i \in 1 .. Len(m) - 1 : Tail(m)[i] = m[i + 1] /\ i + 1 \in 1 .. Len(m)
      BY <1>2, <1>3, <2>1
    <2>3. Mine(w, Tail(m))
      BY <1>2, <2>1, <2>2 DEF Mine
    <2> QED
      BY <1>5, <1>7, <2>3
  <1> QED
    BY <1>1, <1>4, <1>8, <1>11, <1>12 DEF TrackInv

\* An order is placed.
LEMMA TrackPlaces ==
  ASSUME TrackInv, NEW o \in Orders, PlaceOrder(o), ReservedInv'
  PROVE  TrackInv'
  <1> DEFINE s == actors
             t == actors'
  <1>1. /\ working = TRUE /\ s.active[o] = 0
        /\ t = [Reserve(s, LimitOrder(o)) EXCEPT !.pendingPlacement = @ \cup {o}]
        /\ handled' = handled /\ book' = book /\ events' = events /\ working' = working
    BY TrackedIs DEF PlaceOrder, CanPlace
  <1>2. /\ s \in ActorStates /\ Exact(s)
        /\ queue \in Seq(Commands) /\ handled \in 0 .. Len(queue) /\ Placeable(queue)
        /\ book = BookAfter(queue, handled) /\ Types
    BY TrackedIs DEF ReservedInv
  <1>3. s.active \in Counts
    BY TrackedIs
  <1>4. \A x \in Orders : /\ Mail(events[x.owner]) \in Seq(Events)
                          /\ Tracked(queue, handled, book, Mail(events[x.owner]), s.active[x], x, working)
    BY TrackedIs DEF Following
  <1>5. \A v \in Owners : Mine(v, Mail(events[v]))
    BY TrackedIs
  <1>6. PICK r \in {<<Placed(o)>>, <<>>} : queue' = queue \o r /\ r \in Seq(Commands) /\ (r = <<>> => o \in Unreliable)
    BY <1>2, PlacementIs
  <1> HIDE DEF s, t
  <1>7. t.active = [s.active EXCEPT ![o] = o.amount]
    <2>1. s.active[o] = 0 /\ t = [Reserve(s, LimitOrder(o)) EXCEPT !.pendingPlacement = @ \cup {o}]
      BY <1>1
    <2>2. s \in ActorStates /\ Exact(s)
      BY <1>2
    <2>3. /\ t \in ActorStates /\ Exact(t) /\ t.active = [s.active EXCEPT ![o] = o.amount] /\ t.info = s.info
          /\ t.pendingPlacement = s.pendingPlacement \cup {o}
      BY <2>1, <2>2, PlacesExact
    <2> QED
      BY <2>3
  <1>8. \A x \in Orders : t.active[x] = IF x = o THEN o.amount ELSE s.active[x]
    BY <1>3, <1>7 DEF Counts
  <1>9. /\ Tracked(queue \o r, handled, book, Mail(events[o.owner]), o.amount, o, TRUE)
        /\ Unplaced(queue, handled, o) /\ Has(book[o.side], o, 0)
    <2> DEFINE m == Mail(events[o.owner])
    <2>1. m \in Seq(Events) /\ Tracked(queue, handled, book, m, 0, o, TRUE)
      BY <1>1, <1>4
    <2> HIDE DEF m
    <2>2. /\ Tracked(queue \o r, handled, book, m, o.amount, o, TRUE)
          /\ Unplaced(queue, handled, o) /\ Has(book[o.side], o, 0)
      BY <1>2, <1>6, <2>1, PlacesTracked
    <2> QED
      BY <2>2 DEF m
  <1>10. \A j \in 1 .. Len(r), x \in Orders : r[j] = Placed(x) => j = 1 /\ x = o
    <2>1. r = <<>> \/ (Len(r) = 1 /\ r[1] = Placed(o))
      BY <1>6
    <2> QED
      BY <2>1 DEF Placed
  <1>11. Has(BookAfter(queue, Len(queue))[o.side], o, 0)
    BY <1>2, <1>9, StaysAway DEF Unplaced
  <1>12. Placeable(queue \o r)
    BY <1>2, <1>6, <1>10, <1>11, PlaceableMore
  <1>13. BookAfter(queue \o r, handled) = book
    BY <1>2, <1>6, ReplayPrefix DEF BookAfter
  <1>14. ASSUME NEW x \in Orders
         PROVE  Tracked(queue \o r, handled, book, Mail(events[x.owner]), t.active[x], x, working)
    <2>1. CASE x = o
      BY <1>1, <1>8, <1>9, <2>1
    <2>2. CASE x # o
      <3> DEFINE m == Mail(events[x.owner])
                 n == s.active[x]
                 on == working
      <3>1. Tracked(queue, handled, book, m, n, x, on) /\ on \in BOOLEAN
        BY <1>1, <1>4
      <3>2. \A j \in 1 .. Len(r) : r[j] # Placed(x)
        BY <1>10, <2>2
      <3> HIDE DEF m, n, on
      <3>3. Tracked(queue \o r, handled, book, m, n, x, on)
        BY <1>2, <1>6, <3>1, <3>2, StoresTracked
      <3> QED
        BY <1>8, <2>2, <3>3 DEF m, n, on
    <2> QED
      BY <2>1, <2>2
  <1>15. Following'
    <2>1. \A x \in Orders : Tracked(queue', handled', book', Mail(events'[x.owner]), actors'.active[x], x, working')
      BY <1>1, <1>6, <1>14 DEF t
    <2> QED
      BY <2>1 DEF Following
  <1> QED
    BY <1>1, <1>5, <1>6, <1>12, <1>13, <1>15 DEF TrackInv

\* Cancellations are stored.
LEMMA TrackCancels ==
  ASSUME TrackInv, StoresCancellations, ReservedInv'
  PROVE  TrackInv'
  <1>1. PICK r \in Seq(Cancellations) : queue' = queue \o r /\ r \in Seq(Commands)
    BY DEF StoresCancellations
  <1>2. /\ handled' = handled /\ book' = book /\ events' = events /\ working' = working
        /\ actors'.active = actors.active
    BY DEF StoresCancellations, Cancelling
  <1>3. /\ queue \in Seq(Commands) /\ handled \in 0 .. Len(queue) /\ Placeable(queue)
        /\ book = BookAfter(queue, handled) /\ working \in BOOLEAN
    BY TrackedIs
  <1>4. \A x \in Orders : Tracked(queue, handled, book, Mail(events[x.owner]), actors.active[x], x, working)
    BY TrackedIs DEF Following
  <1>5. \A v \in Owners : Mine(v, Mail(events[v]))
    BY TrackedIs
  <1>6. \A j \in 1 .. Len(r), x \in Orders : r[j] # Placed(x)
    <2>1. \A j \in 1 .. Len(r) : r[j] \in Cancellations
      BY <1>1
    <2> QED
      BY <2>1 DEF Cancellations, Placed
  <1>7. Placeable(queue \o r)
    BY <1>1, <1>3, <1>6, PlaceableMore
  <1>8. BookAfter(queue \o r, handled) = book
    BY <1>1, <1>3, ReplayPrefix DEF BookAfter
  <1>9. ASSUME NEW x \in Orders
        PROVE  Tracked(queue \o r, handled, book, Mail(events[x.owner]), actors.active[x], x, working)
    <2> DEFINE m == Mail(events[x.owner])
               n == actors.active[x]
               on == working
    <2>1. Tracked(queue, handled, book, m, n, x, on) /\ on \in BOOLEAN
      BY <1>3, <1>4
    <2> HIDE DEF m, n, on
    <2>2. Tracked(queue \o r, handled, book, m, n, x, on)
      BY <1>1, <1>3, <1>6, <2>1, StoresTracked
    <2> QED
      BY <2>2 DEF m, n, on
  <1>10. Following'
    <2>1. \A x \in Orders : Tracked(queue', handled', book', Mail(events'[x.owner]), actors'.active[x], x, working')
      BY <1>1, <1>2, <1>9
    <2> QED
      BY <2>1 DEF Following
  <1> QED
    BY <1>1, <1>2, <1>3, <1>5, <1>7, <1>8, <1>10 DEF TrackInv

\* The process dies and starts again.
LEMMA TrackRestarts ==
  ASSUME TrackInv, Restart, ReservedInv'
  PROVE  TrackInv'
  <1>1. PICK n \in 0 .. handled :
          LET resting == AllOrders(Replay(queue, n).book)
              offers  == [i \in DOMAIN resting |-> OrderAdded(resting[i])]
          IN  /\ handled' = n /\ book' = Replay(queue, n).book
              /\ events' = [w \in Owners |-> ToOwner(w, offers, n)]
    BY DEF Restart
  <1> DEFINE b == BookAfter(queue, n)
             resting == AllOrders(b)
             offers == [i \in DOMAIN resting |-> OrderAdded(resting[i])]
  <1>2. /\ handled' = n /\ book' = b /\ events' = [w \in Owners |-> ToOwner(w, offers, n)]
    BY <1>1 DEF BookAfter
  <1>3. queue' = queue /\ working' = FALSE /\ actors' = Started(actors.info)
    BY DEF Restart
  <1>4. queue \in Seq(Commands) /\ handled \in 0 .. Len(queue) /\ Placeable(queue) /\ actors \in ActorStates
    BY TrackedIs
  <1>5. n \in 0 .. Len(queue) /\ n \in Int
    BY <1>4
  <1>6. b \in Books /\ Dated(b, n)
    BY <1>4, <1>5, BooksAlong
  <1> HIDE DEF b
  <1>7. \A w : /\ offers \in Seq(Events) /\ ToOwner(w, offers, n) \in Seq(Letters)
               /\ Mine(w, Mail(ToOwner(w, offers, n)))
    BY <1>5, <1>6, AllOffered
  <1>8. \A w \in Owners : Mine(w, Mail(events'[w]))
    BY <1>2, <1>7
  <1>9. ASSUME NEW x \in Orders
        PROVE  Recovering(b, Mail(ToOwner(x.owner, offers, n)), 0, x)
    <2>1. PICK k \in Nat : Has(b[x.side], x, k)
      <3>1. PICK when \in [Orders -> Int] : GoodBook(b, Orders, when)
        BY <1>6 DEF Dated
      <3>2. GoodSide(b[x.side], x.side, Orders, when)
        BY <3>1, OrdersAssumption DEF GoodBook
      <3> QED
        BY <3>2, HasSome
    <2>2. resting \in Seq(Limits) /\ OnlyAt(resting, x, k)
      BY <1>6, <2>1, RestingIs
    <2> HIDE DEF resting
    <2>3. Tale(offers, x, 0, k, Forgetful)
      BY <2>2, OffersTell
    <2> HIDE DEF offers
    <2>4. Tale(Mail(ToOwner(x.owner, offers, n)), x, 0, k, Forgetful)
      BY <1>5, <1>7, <2>3, DeliveredIs
    <2> QED
      BY <2>1, <2>4 DEF Recovering
  <1>10. \A x \in Orders : x.owner \in Owners /\ Started(actors.info).active[x] = 0
    BY OrdersAssumption DEF Started
  <1>11. Following'
    <2>1. \A x \in Orders : Tracked(queue', handled', book', Mail(events'[x.owner]), actors'.active[x], x, working')
      BY <1>2, <1>3, <1>9, <1>10 DEF Tracked
    <2> QED
      BY <2>1 DEF Following
  <1> QED
    BY <1>2, <1>3, <1>4, <1>8, <1>11 DEF TrackInv, b

\* The API opens.
LEMMA TrackOpens ==
  ASSUME TrackInv, BecomeWorking, ReservedInv'
  PROVE  TrackInv'
  <1>1. /\ working = FALSE /\ handled = Len(queue) /\ \A w \in Owners : events[w] = <<>>
        /\ working' = TRUE /\ queue' = queue /\ handled' = handled /\ book' = book /\ events' = events
        /\ actors' = actors
    BY TrackedIs DEF BecomeWorking, CaughtUp
  <1>2. queue \in Seq(Commands) /\ Placeable(queue) /\ book = BookAfter(queue, handled)
        /\ \A w \in Owners : Mine(w, Mail(events[w]))
    BY TrackedIs
  <1>3. \A x \in Orders : /\ x.owner \in Owners
                          /\ Tracked(queue, handled, book, Mail(events[x.owner]), actors.active[x], x, FALSE)
    BY <1>1, TrackedIs DEF Following
  <1>4. Mail(<<>>) = <<>>
    <2>1. <<>> \in Seq(Letters)
      OBVIOUS
    <2> QED
      BY <2>1, MailIs
  <1>5. ASSUME NEW x \in Orders
        PROVE  Tracked(queue, handled, book, Mail(events[x.owner]), actors.active[x], x, TRUE)
    <2> DEFINE n == actors.active[x]
    <2>1. Mail(events[x.owner]) = <<>>
      BY <1>1, <1>3, <1>4
    <2>2. Tracked(queue, handled, book, <<>>, n, x, FALSE) /\ FALSE \in BOOLEAN
      BY <1>3, <2>1
    <2> HIDE DEF n
    <2>3. Tracked(queue, handled, book, <<>>, n, x, TRUE)
      BY <1>1, <1>2, <2>2, TrackedAtEnd
    <2> QED
      BY <2>1, <2>3 DEF n
  <1>6. Following'
    <2>1. \A x \in Orders : Tracked(queue', handled', book', Mail(events'[x.owner]), actors'.active[x], x, working')
      BY <1>1, <1>5
    <2> QED
      BY <2>1 DEF Following
  <1> QED
    BY <1>1, <1>2, <1>6 DEF TrackInv

\* Every step keeps the invariant.
LEMMA TrackNext ==
  ASSUME TrackInv, [Next]_vars
  PROVE  TrackInv'
  <1>1. ReservedInv /\ Types
    BY TrackedIs
  <1>2. ReservedInv'
    BY <1>1, ReservedNext
  <1>3. CASE BookHandles
    BY <1>2, <1>3, TrackBookHandles
  <1>4. CASE \E w \in Owners : ActorHandles(w)
    BY <1>2, <1>4, TrackActorHandles
  <1>5. CASE BecomeWorking
    BY <1>2, <1>5, TrackOpens
  <1>6. CASE \E o \in Orders : PlaceOrder(o)
    BY <1>2, <1>6, TrackPlaces
  <1>7. CASE StoresCancellations
    BY <1>2, <1>7, TrackCancels
  <1>8. CASE Restart
    BY <1>2, <1>8, TrackRestarts
  <1>9. CASE UNCHANGED vars
    <2>1. queue' = queue /\ handled' = handled /\ book' = book /\ events' = events /\ actors' = actors
          /\ working' = working
      BY <1>9 DEF vars
    <2>2. Following' = Following
      BY <2>1 DEF Following
    <2> QED
      BY <1>2, <2>1, <2>2 DEF TrackInv
  <1> QED
    BY <1>1, <1>3, <1>4, <1>5, <1>6, <1>7, <1>8, <1>9, CancellationsAre DEF Next, Step

\* When every command and every event is handled, what the actors believe active
\* of an owner's orders is what rests of them in the book, whatever was placed,
\* matched, cancelled or expired, lost or replayed before, and in whatever order
\* the actors read their mail.
THEOREM ActiveRests == Spec => []ActiveIsResting
  <1>1. TrackInv => ActiveIsResting
    <2> SUFFICES ASSUME TrackInv, CaughtUp, NEW o \in Orders \ Unreliable
                 PROVE  Resting(o) = IF actors.active[o] > 0 THEN {ActiveOrder(actors, o)} ELSE {}
      BY DEF ActiveIsResting
    <2> DEFINE n == actors.active[o]
               on == working
               s == AllOrders(book)
    <2>1. /\ book \in Books /\ Dated(book, handled) /\ on \in BOOLEAN /\ queue \in Seq(Commands) /\ o.owner \in Owners
          /\ Tracked(queue, handled, book, Mail(events[o.owner]), n, o, on)
      BY TrackedIs DEF Following
    <2>2. handled = Len(queue) /\ Mail(events[o.owner]) = <<>>
      <3>1. <<>> \in Seq(Letters)
        OBVIOUS
      <3> QED
        BY <2>1, <3>1, MailIs DEF CaughtUp
    <2>3. ActiveOrder(actors, o) = [order |-> o, amount |-> n]
      BY DEF ActiveOrder
    <2>4. Tracked(queue, handled, book, <<>>, n, o, on)
      BY <2>1, <2>2
    <2> HIDE DEF n, on
    <2>5. n \in Nat /\ Has(book[o.side], o, n)
      BY <2>1, <2>2, <2>4, TrackedAtEnd
    <2>6. s \in Seq(Limits) /\ OnlyAt(s, o, n)
      BY <2>1, <2>5, RestingIs
    <2>7. Resting(o) = {lo \in ToSet(s) : lo.order = o}
      BY DEF Resting
    <2> HIDE DEF s
    <2>8. ToSet(s) = {s[i] : i \in 1 .. Len(s)}
      BY <2>6 DEF ToSet
    <2>9. CASE n = 0
      <3>1. Resting(o) = {}
        BY <2>6, <2>7, <2>8, <2>9 DEF OnlyAt
      <3> QED
        BY <2>9, <3>1 DEF n
    <2>10. CASE n # 0
      <3>1. PICK p \in 1 .. Len(s) : s[p] = [order |-> o, amount |-> n] /\ \A i \in 1 .. Len(s) : s[i].order = o => i = p
        BY <2>6, <2>10 DEF OnlyAt
      <3>2. Resting(o) = {[order |-> o, amount |-> n]}
        BY <2>7, <2>8, <3>1
      <3>3. n > 0
        BY <2>5, <2>10
      <3> QED
        BY <2>3, <3>2, <3>3 DEF n
    <2> QED
      BY <2>9, <2>10
  <1> QED
    BY <1>1, TrackInit, TrackNext, PTL DEF Spec
=============================================================================
