-------------------------- MODULE OrderBookProofs --------------------------
(***************************************************************************)
(* What a command does to an order book, for every PriceConstant, price,   *)
(* amount and number of orders: an execution is positive, worth something  *)
(* in the price asset and within what remains of both orders; a matching   *)
(* ends; a book stays sorted by price and time, uncrossed, with orders     *)
(* that can be executed; and no order is executed for more than its amount.*)
(***************************************************************************)
EXTENDS OrderBook, SequenceTheorems, FiniteSetTheorems, WellFoundedInduction, TLAPS

Positive == Nat \ {0}

\* A limit order as it rests in a book or arrives at it.
IsLimitOrder(lo) ==
    lo = [order |-> lo.order, amount |-> lo.amount]
      /\ lo.amount \in Nat /\ lo.order.price \in Positive

----------------------------------------------------------------------------
\* The quotient of two numbers and what it leaves.
LEMMA DivBounds ==
  ASSUME NEW a \in Nat, NEW b \in Positive
  PROVE  /\ a \div b \in Nat
         /\ (a \div b) * b <= a
         /\ a < (a \div b) * b + b
  BY SMT DEF Positive

\* The quotient is the largest number whose product stays below.
LEMMA DivIsLargest ==
  ASSUME NEW a \in Nat, NEW b \in Positive, NEW c \in Nat, c * b <= a
  PROVE  c <= a \div b
  <1> DEFINE q == a \div b
  <1>1. q \in Nat /\ a < q * b + b
    BY DivBounds
  <1>2. CASE c <= q
    BY <1>2
  <1>3. CASE c >= q + 1
    <2>1. c * b >= (q + 1) * b
      BY <1>1, <1>3, SMT DEF Positive
    <2>2. (q + 1) * b = q * b + b
      BY <1>1, SMT DEF Positive
    <2> QED
      BY <1>1, <2>1, <2>2, SMT DEF Positive
  <1> QED
    BY <1>1, <1>2, <1>3

\* The rounded-up quotient is the smallest number whose product is enough.
LEMMA CeilDivBounds ==
  ASSUME NEW a \in Nat, NEW b \in Positive
  PROVE  /\ CeilDiv(a, b) \in Nat
         /\ a <= CeilDiv(a, b) * b
         /\ CeilDiv(a, b) * b < a + b
  <1>1. a + b - 1 \in Nat
    BY DEF Positive
  <1>2. /\ (a + b - 1) \div b \in Nat
        /\ ((a + b - 1) \div b) * b <= a + b - 1
        /\ a + b - 1 < ((a + b - 1) \div b) * b + b
    BY <1>1, DivBounds
  <1>3. ((a + b - 1) \div b) * b \in Nat
    BY <1>2, SMT DEF Positive
  <1> QED
    BY <1>2, <1>3, SMT DEF CeilDiv, Positive

LEMMA CeilDivIsSmallest ==
  ASSUME NEW a \in Nat, NEW b \in Positive, NEW c \in Nat, a <= c * b
  PROVE  CeilDiv(a, b) <= c
  <1> DEFINE q == CeilDiv(a, b)
  <1>1. q \in Nat /\ q * b < a + b
    BY CeilDivBounds
  <1>2. CASE q <= c
    BY <1>2
  <1>3. CASE q >= c + 1
    <2>1. q * b >= (c + 1) * b
      BY <1>1, <1>3, SMT DEF Positive
    <2>2. (c + 1) * b = c * b + b
      BY SMT DEF Positive
    <2> QED
      BY <1>1, <2>1, <2>2, SMT DEF Positive
  <1> QED
    BY <1>1, <1>2, <1>3

----------------------------------------------------------------------------
\* What an amount costs.
LEMMA SettledBounds ==
  ASSUME NEW a \in Nat, NEW p \in Positive
  PROVE  /\ Settled(a, p) \in Nat
         /\ Settled(a, p) * PriceConstant \in Nat
         /\ Settled(a, p) * PriceConstant <= a * p
  <1>1. a * p \in Nat
    BY SMT DEF Positive
  <1>2. PriceConstant \in Positive
    BY PriceConstantAssumption DEF Positive
  <1>3. /\ Settled(a, p) \in Nat
        /\ Settled(a, p) * PriceConstant <= a * p
    BY <1>1, <1>2, DivBounds DEF Settled
  <1> QED
    BY <1>2, <1>3, SMT DEF Positive

\* Correction never adds to an amount.
LEMMA CorrectedWithin ==
  ASSUME NEW a \in Nat, NEW p \in Positive
  PROVE  CorrectedAmount(a, p) \in Nat /\ CorrectedAmount(a, p) <= a
  <1>1. /\ Settled(a, p) * PriceConstant \in Nat
        /\ Settled(a, p) * PriceConstant <= a * p
    BY SettledBounds
  <1>2. CorrectedAmount(a, p) \in Nat
    BY <1>1, CeilDivBounds DEF CorrectedAmount
  <1>3. CorrectedAmount(a, p) <= a
    BY <1>1, CeilDivIsSmallest DEF CorrectedAmount
  <1> QED
    BY <1>2, <1>3

\* An amount that passes the minimum at a price costs at least one there.
LEMMA MinimalSettles ==
  ASSUME NEW a \in Nat, NEW p \in Positive, a >= MinimalAmount(p)
  PROVE  Settled(a, p) >= 1
  <1>1. PriceConstant \in Positive /\ PriceConstant \in Nat
    BY PriceConstantAssumption DEF Positive
  <1>2. /\ MinimalAmount(p) \in Nat
        /\ PriceConstant <= MinimalAmount(p) * p
    BY <1>1, CeilDivBounds DEF MinimalAmount
  <1>3. MinimalAmount(p) * p <= a * p
    BY <1>2, SMT DEF Positive
  <1>4. a * p \in Nat /\ MinimalAmount(p) * p \in Nat
    BY <1>2, SMT DEF Positive
  <1>5. 1 * PriceConstant <= a * p
    BY <1>1, <1>2, <1>3, <1>4
  <1>6. 1 <= (a * p) \div PriceConstant
    BY <1>1, <1>4, <1>5, DivIsLargest
  <1> QED
    BY <1>6, <1>1, <1>4, SettledBounds DEF Settled

\* Correction loses nothing: what is cut off an amount costs nothing.
LEMMA CorrectedCostsTheSame ==
  ASSUME NEW a \in Nat, NEW p \in Positive
  PROVE  Settled(CorrectedAmount(a, p), p) = Settled(a, p)
  <1> DEFINE s == Settled(a, p)
             c == CorrectedAmount(a, p)
  <1>1. PriceConstant \in Positive
    BY PriceConstantAssumption DEF Positive
  <1>2. s \in Nat /\ s * PriceConstant \in Nat
    BY SettledBounds
  <1>3. c \in Nat /\ c <= a /\ c * p \in Nat /\ a * p \in Nat
    BY CorrectedWithin, SMT DEF Positive
  <1>4. s * PriceConstant <= c * p
    BY <1>2, CeilDivBounds DEF CorrectedAmount
  <1>5. s <= Settled(c, p)
    BY <1>1, <1>2, <1>3, <1>4, DivIsLargest DEF Settled
  <1>6. Settled(c, p) \in Nat /\ Settled(c, p) * PriceConstant <= c * p
    BY <1>3, SettledBounds
  <1>7. c * p <= a * p
    BY <1>3, SMT DEF Positive
  <1>8. Settled(c, p) * PriceConstant \in Nat
    BY <1>3, SettledBounds
  <1>9. Settled(c, p) * PriceConstant <= a * p
    BY <1>3, <1>6, <1>7, <1>8
  <1>10. Settled(c, p) <= s
    BY <1>1, <1>3, <1>6, <1>9, DivIsLargest DEF Settled
  <1> QED
    BY <1>2, <1>5, <1>6, <1>10

----------------------------------------------------------------------------
\* Matching executes an order with a counter order that is valid at its own
\* price, when the submitted one is valid at that price too.
Matchable(submitted, counter) ==
    /\ IsLimitOrder(submitted) /\ IsLimitOrder(counter)
    /\ IsValid(counter) /\ IsValidAt(submitted, counter.order.price)

\* An execution is positive and within what remains of both orders, and it is
\* worth something: neither order is overfilled, whatever the rounding
\* (LimitOrder.executedAmount).
THEOREM ExecutedWithinBoth ==
  ASSUME NEW submitted, NEW counter, Matchable(submitted, counter)
  PROVE  LET amount == ExecutedAmount(submitted, counter) IN
         /\ amount \in Positive
         /\ amount <= submitted.amount /\ amount <= counter.amount
         /\ Settled(amount, counter.order.price) >= 1
  <1> DEFINE p == counter.order.price
             a == CorrectedAmount(submitted.amount, p)
             b == CorrectedAmount(counter.amount, p)
  <1>1. /\ p \in Positive /\ submitted.amount \in Nat /\ counter.amount \in Nat
        /\ submitted.amount >= MinimalAmount(p) /\ counter.amount >= MinimalAmount(p)
    BY DEF Matchable, IsLimitOrder, IsValid, IsValidAt
  <1>2. /\ a \in Nat /\ a <= submitted.amount /\ b \in Nat /\ b <= counter.amount
    BY <1>1, CorrectedWithin
  <1>3. Settled(a, p) >= 1
    BY <1>1, MinimalSettles, CorrectedCostsTheSame
  <1>4. Settled(b, p) >= 1
    BY <1>1, MinimalSettles, CorrectedCostsTheSame
  <1>5. ASSUME NEW c \in Nat, Settled(c, p) >= 1
        PROVE  c # 0
    <2>1. SUFFICES ASSUME c = 0 PROVE FALSE
      OBVIOUS
    <2>2. /\ Settled(c, p) \in Nat /\ Settled(c, p) * PriceConstant \in Nat
          /\ Settled(c, p) * PriceConstant <= c * p
      BY <1>1, <1>5, SettledBounds
    <2>3. c * p = 0
      BY <1>1, <2>1, SMT DEF Positive
    <2>4. PriceConstant \in Positive
      BY PriceConstantAssumption DEF Positive
    <2>5. Settled(c, p) * PriceConstant >= 1
      BY <1>5, <2>2, <2>4, SMT DEF Positive
    <2> QED
      BY <2>2, <2>3, <2>5
  <1>6. a # 0 /\ b # 0
    BY <1>2, <1>3, <1>4, <1>5
  <1>7. ExecutedAmount(submitted, counter) = IF a < b THEN a ELSE b
    BY DEF ExecutedAmount
  <1> DEFINE amount == ExecutedAmount(submitted, counter)
  <1> HIDE DEF a, b
  <1>8. CASE a < b
    <2>1. amount = a
      BY <1>7, <1>8
    <2> HIDE DEF amount
    <2>2. amount \in Positive /\ amount <= submitted.amount /\ amount <= counter.amount
      BY <1>1, <1>2, <1>6, <1>8, <2>1 DEF Positive
    <2>3. Settled(amount, p) >= 1
      BY <1>3, <2>1
    <2> QED
      BY <2>2, <2>3 DEF amount
  <1>9. CASE b <= a
    <2>1. amount = b
      BY <1>2, <1>7, <1>9
    <2> HIDE DEF amount
    <2>2. amount \in Positive /\ amount <= submitted.amount /\ amount <= counter.amount
      BY <1>1, <1>2, <1>6, <1>9, <2>1 DEF Positive
    <2>3. Settled(amount, p) >= 1
      BY <1>4, <2>1
    <2> QED
      BY <2>2, <2>3 DEF amount
  <1> QED
    BY <1>2, <1>8, <1>9

\* What is taken from an order is what was executed: the remaining amounts of
\* OrderExecuted never need their max with 0, and both orders get smaller, so
\* that matching comes to an end.
THEOREM ExecutionTakesWhatItExecutes ==
  ASSUME NEW submitted, NEW counter, Matchable(submitted, counter)
  PROVE  LET amount == ExecutedAmount(submitted, counter) IN
         \A lo \in {submitted, counter} :
           /\ Remaining(lo, amount).amount = lo.amount - amount
           /\ Remaining(lo, amount).amount \in Nat
           /\ Remaining(lo, amount).amount < lo.amount
           /\ Remaining(lo, amount).order = lo.order
  <1> DEFINE amount == ExecutedAmount(submitted, counter)
  <1>1. /\ amount \in Positive
        /\ amount <= submitted.amount /\ amount <= counter.amount
    BY ExecutedWithinBoth
  <1>2. SUFFICES ASSUME NEW lo \in {submitted, counter}
        PROVE  /\ Remaining(lo, amount).amount = lo.amount - amount
               /\ Remaining(lo, amount).amount \in Nat
               /\ Remaining(lo, amount).amount < lo.amount
               /\ Remaining(lo, amount).order = lo.order
    OBVIOUS
  <1>3. /\ lo = [order |-> lo.order, amount |-> lo.amount]
        /\ lo.amount \in Nat /\ amount <= lo.amount
    BY <1>1, <1>2 DEF Matchable, IsLimitOrder
  <1>4. /\ Remaining(lo, amount).amount = IF lo.amount > amount THEN lo.amount - amount ELSE 0
        /\ Remaining(lo, amount).order = lo.order
    BY <1>3 DEF Remaining
  <1> QED
    BY <1>1, <1>3, <1>4 DEF Positive
----------------------------------------------------------------------------
(* Books that are as they should be, for a set Os of orders and the times   *)
(* they were placed at.                                                     *)

LimitOrders(Os) == [order : Os, amount : Nat]

\* What Order.isValid asks of an order.
ValidOrder(o) ==
    /\ o.side \in {"buy", "sell"} /\ o.price \in Positive /\ o.amount \in Positive
    /\ Settled(o.amount, o.price) > 0

Rests(lo, side) ==
    /\ lo.order.side = side /\ lo.amount \in 1 .. lo.order.amount
    /\ Settled(lo.amount, lo.order.price) > 0

InOrder(s, when) ==
    \A i, j \in DOMAIN s : i < j =>
        /\ IsAhead(s[i], s[j])
        /\ s[i].order.price = s[j].order.price => when[s[i].order] < when[s[j].order]

GoodSide(s, side, Os, when) ==
    /\ s \in Seq(LimitOrders(Os))
    /\ \A i \in DOMAIN s : Rests(s[i], side)
    /\ InOrder(s, when)

OrdersIn(s) == {s[i].order : i \in DOMAIN s}

NotCrossed(bids, asks) == \A x \in OrdersIn(bids), y \in OrdersIn(asks) : x.price < y.price

GoodBook(book, Os, when) ==
    /\ book = [side \in {"buy", "sell"} |-> book[side]]
    /\ \A side \in {"buy", "sell"} : GoodSide(book[side], side, Os, when)
    /\ NotCrossed(book["buy"], book["sell"])

\* A resting order can be executed at its own price.
LEMMA RestsIsValid ==
  ASSUME NEW Os, \A o \in Os : ValidOrder(o), NEW lo \in LimitOrders(Os), NEW side, Rests(lo, side)
  PROVE  IsLimitOrder(lo) /\ IsValid(lo)
  <1> DEFINE a == lo.amount
             p == lo.order.price
  <1>1. /\ lo = [order |-> lo.order, amount |-> lo.amount]
        /\ a \in Nat /\ p \in Positive /\ a > 0 /\ Settled(a, p) > 0
    BY DEF LimitOrders, Rests, ValidOrder, Positive
  <1> HIDE DEF a, p
  <1>2. PriceConstant \in Positive /\ PriceConstant \in Nat
    BY PriceConstantAssumption DEF Positive
  <1>3. /\ Settled(a, p) \in Nat /\ Settled(a, p) * PriceConstant \in Nat
        /\ Settled(a, p) * PriceConstant <= a * p
    BY <1>1, SettledBounds
  <1>4. a * p \in Nat
    BY <1>1, SMT DEF Positive
  <1>5. PriceConstant <= Settled(a, p) * PriceConstant
    <2> DEFINE n == Settled(a, p)
    <2>1. n \in Nat /\ n >= 1
      BY <1>1, <1>3
    <2> HIDE DEF n
    <2>2. 1 * PriceConstant <= n * PriceConstant
      BY <1>2, <2>1, SMT
    <2> QED
      BY <1>2, <2>2 DEF n
  <1>6. PriceConstant <= a * p
    BY <1>2, <1>3, <1>4, <1>5
  <1>7. MinimalAmount(p) <= a
    BY <1>1, <1>2, <1>6, CeilDivIsSmallest DEF MinimalAmount
  <1>8. CorrectedAmount(a, p) > 0
    <2>1. CorrectedAmount(a, p) \in Nat
      BY <1>1, CorrectedWithin
    <2>2. ASSUME CorrectedAmount(a, p) = 0 PROVE FALSE
      <3>1. Settled(a, p) * PriceConstant <= CorrectedAmount(a, p) * p
        BY <1>1, <1>3, CeilDivBounds DEF CorrectedAmount
      <3>2. CorrectedAmount(a, p) * p = 0
        BY <1>1, <2>2, SMT DEF Positive
      <3> QED
        BY <1>2, <1>3, <1>5, <3>1, <3>2 DEF Positive
    <2> QED
      BY <2>1, <2>2
  <1>9. MinimalAmount(p) \in Nat
    BY <1>1, <1>2, CeilDivBounds DEF MinimalAmount
  <1>10. IsLimitOrder(lo)
    BY <1>1 DEF IsLimitOrder, a, p
  <1>11. a >= MinimalAmount(p)
    BY <1>1, <1>7, <1>9
  <1> QED
    BY <1>1, <1>8, <1>10, <1>11 DEF IsValid, IsValidAt, a, p

\* A side stays good when orders leave it or get smaller.
LEMMA GoodPart ==
  ASSUME NEW Os, \A o \in Os : ValidOrder(o), NEW when, NEW side,
         NEW s, GoodSide(s, side, Os, when),
         NEW t \in Seq(LimitOrders(Os)), \A i \in DOMAIN t : Rests(t[i], side),
         NEW g \in [DOMAIN t -> DOMAIN s],
         \A i, j \in DOMAIN t : i < j => g[i] < g[j],
         \A i \in DOMAIN t : t[i].order = s[g[i]].order
  PROVE  GoodSide(t, side, Os, when) /\ OrdersIn(t) \subseteq OrdersIn(s)
  <1>1. OrdersIn(t) \subseteq OrdersIn(s)
    BY DEF OrdersIn
  <1>2. ASSUME NEW i \in DOMAIN t, NEW j \in DOMAIN t, i < j
        PROVE  /\ IsAhead(t[i], t[j])
               /\ t[i].order.price = t[j].order.price => when[t[i].order] < when[t[j].order]
    <2>1. /\ IsAhead(s[g[i]], s[g[j]])
          /\ s[g[i]].order.price = s[g[j]].order.price => when[s[g[i]].order] < when[s[g[j]].order]
      BY <1>2 DEF GoodSide, InOrder
    <2> QED
      BY <2>1 DEF IsAhead
  <1> QED
    BY <1>1, <1>2 DEF GoodSide, InOrder

\* What InsertAt and RemoveAt do, position by position.
LEMMA InsertAtElements ==
  ASSUME NEW S, NEW s \in Seq(S), NEW e \in S, NEW k \in 1 .. Len(s) + 1
  PROVE  /\ InsertAt(s, k, e) \in Seq(S)
         /\ Len(InsertAt(s, k, e)) = Len(s) + 1
         /\ DOMAIN InsertAt(s, k, e) = 1 .. Len(s) + 1
         /\ \A i \in 1 .. Len(s) + 1 :
              InsertAt(s, k, e)[i] = IF i < k THEN s[i] ELSE IF i = k THEN e ELSE s[i - 1]
  <1> DEFINE a == SubSeq(s, 1, k - 1)
             b == SubSeq(s, k, Len(s))
             t == InsertAt(s, k, e)
  <1>1. Len(s) \in Nat /\ k \in Nat /\ 1 <= k /\ k <= Len(s) + 1
    OBVIOUS
  <1>2. a \in Seq(S) /\ Len(a) = k - 1 /\ \A i \in 1 .. k - 1 : a[i] = s[i]
    BY <1>1
  <1>3. b \in Seq(S) /\ Len(b) = Len(s) - k + 1 /\ \A i \in 1 .. Len(s) - k + 1 : b[i] = s[k + i - 1]
    BY <1>1
  <1>4. t = a \o <<e>> \o b
    BY DEF InsertAt
  <1> HIDE DEF a, b, t
  <1>5. /\ a \o <<e>> \in Seq(S) /\ Len(a \o <<e>>) = k
        /\ \A i \in 1 .. k : (a \o <<e>>)[i] = IF i < k THEN s[i] ELSE e
    BY <1>1, <1>2
  <1>6. /\ t \in Seq(S) /\ Len(t) = Len(s) + 1
        /\ \A i \in 1 .. Len(s) + 1 : t[i] = IF i <= k THEN (a \o <<e>>)[i] ELSE b[i - k]
    BY <1>1, <1>3, <1>4, <1>5
  <1>7. ASSUME NEW i \in 1 .. Len(s) + 1
        PROVE  t[i] = IF i < k THEN s[i] ELSE IF i = k THEN e ELSE s[i - 1]
    <2>1. CASE i <= k
      BY <1>1, <1>5, <1>6, <2>1
    <2>2. CASE i > k
      <3>1. i - k \in 1 .. Len(s) - k + 1 /\ k + (i - k) - 1 = i - 1
        BY <1>1, <2>2
      <3>2. t[i] = b[i - k] /\ b[i - k] = s[i - 1]
        BY <1>1, <1>3, <1>6, <2>2, <3>1
      <3> QED
        BY <1>1, <2>2, <3>2
    <2> QED
      BY <1>1, <2>1, <2>2
  <1> QED
    BY <1>6, <1>7 DEF t

LEMMA RemoveAtElements ==
  ASSUME NEW S, NEW s \in Seq(S), NEW k \in 1 .. Len(s)
  PROVE  /\ RemoveAt(s, k) \in Seq(S)
         /\ DOMAIN RemoveAt(s, k) = 1 .. Len(s) - 1
         /\ \A i \in 1 .. Len(s) - 1 : RemoveAt(s, k)[i] = IF i < k THEN s[i] ELSE s[i + 1]
  <1> DEFINE a == SubSeq(s, 1, k - 1)
             b == SubSeq(s, k + 1, Len(s))
             t == RemoveAt(s, k)
  <1>1. Len(s) \in Nat /\ k \in Nat /\ 1 <= k /\ k <= Len(s)
    OBVIOUS
  <1>2. a \in Seq(S) /\ Len(a) = k - 1 /\ \A i \in 1 .. k - 1 : a[i] = s[i]
    BY <1>1
  <1>3. b \in Seq(S) /\ Len(b) = Len(s) - k /\ \A i \in 1 .. Len(s) - k : b[i] = s[k + i]
    BY <1>1
  <1>4. t = a \o b
    BY DEF RemoveAt
  <1> HIDE DEF a, b, t
  <1>5. /\ t \in Seq(S) /\ Len(t) = Len(s) - 1
        /\ \A i \in 1 .. Len(s) - 1 : t[i] = IF i <= k - 1 THEN a[i] ELSE b[i - (k - 1)]
    <2>1. /\ a \o b \in Seq(S) /\ Len(a \o b) = Len(a) + Len(b)
          /\ \A i \in 1 .. Len(a) + Len(b) :
               (a \o b)[i] = IF i <= Len(a) THEN a[i] ELSE b[i - Len(a)]
      BY <1>2, <1>3, ConcatProperties
    <2>2. Len(a) + Len(b) = Len(s) - 1
      BY <1>1, <1>2, <1>3
    <2> QED
      BY <1>2, <1>4, <2>1, <2>2
  <1>6. ASSUME NEW i \in 1 .. Len(s) - 1 PROVE t[i] = IF i < k THEN s[i] ELSE s[i + 1]
    <2>1. CASE i < k
      BY <1>1, <1>2, <1>5, <2>1
    <2>2. CASE i >= k
      <3>1. i - (k - 1) \in 1 .. Len(s) - k /\ k + (i - (k - 1)) = i + 1
        BY <1>1, <2>2
      <3>2. t[i] = b[i - (k - 1)] /\ b[i - (k - 1)] = s[i + 1]
        BY <1>1, <1>3, <1>5, <2>2, <3>1
      <3> QED
        BY <1>1, <2>2, <3>2
    <2> QED
      BY <1>1, <2>1, <2>2
  <1> QED
    BY <1>5, <1>6 DEF t

\* The best order leaves, or gets smaller; any order leaves.
LEMMA GoodTail ==
  ASSUME NEW Os, \A o \in Os : ValidOrder(o), NEW when, NEW side,
         NEW s, GoodSide(s, side, Os, when), s # <<>>
  PROVE  /\ GoodSide(Tail(s), side, Os, when) /\ OrdersIn(Tail(s)) \subseteq OrdersIn(s)
         /\ Head(s) \in LimitOrders(Os) /\ Rests(Head(s), side) /\ Head(s).order \in OrdersIn(s)
         /\ Head(s) = s[1]
  <1> DEFINE t == Tail(s)
             g == [i \in DOMAIN t |-> i + 1]
  <1>1. s \in Seq(LimitOrders(Os)) /\ Len(s) \in Nat /\ DOMAIN s = 1 .. Len(s) /\ Len(s) >= 1
    BY DEF GoodSide
  <1>2. /\ t \in Seq(LimitOrders(Os)) /\ DOMAIN t = 1 .. Len(s) - 1
        /\ \A i \in 1 .. Len(s) - 1 : t[i] = s[i + 1]
    BY <1>1
  <1>3. Head(s) = s[1] /\ s[1] \in LimitOrders(Os) /\ Rests(s[1], side) /\ s[1].order \in OrdersIn(s)
    BY <1>1 DEF GoodSide, OrdersIn
  <1> HIDE DEF t
  <1>4. g \in [DOMAIN t -> DOMAIN s] /\ \A i \in DOMAIN t : t[i] = s[g[i]]
    BY <1>1, <1>2
  <1>5. \A i \in DOMAIN t : Rests(t[i], side)
    BY <1>4 DEF GoodSide
  <1>6. \A i, j \in DOMAIN t : i < j => g[i] < g[j]
    BY <1>2
  <1> HIDE DEF g
  <1>7. \A i \in DOMAIN t : t[i].order = s[g[i]].order
    BY <1>4
  <1>8. t \in Seq(LimitOrders(Os)) /\ g \in [DOMAIN t -> DOMAIN s]
    BY <1>2, <1>4
  <1>9. GoodSide(t, side, Os, when) /\ OrdersIn(t) \subseteq OrdersIn(s)
    BY <1>5, <1>6, <1>7, <1>8, GoodPart
  <1> QED
    BY <1>3, <1>9 DEF t

LEMMA GoodReplace ==
  ASSUME NEW Os, \A o \in Os : ValidOrder(o), NEW when, NEW side,
         NEW s, GoodSide(s, side, Os, when), s # <<>>,
         NEW lo \in LimitOrders(Os), Rests(lo, side), lo.order = Head(s).order
  PROVE  /\ GoodSide(ReplaceBest(s, lo), side, Os, when)
         /\ OrdersIn(ReplaceBest(s, lo)) \subseteq OrdersIn(s)
  <1> DEFINE t == ReplaceBest(s, lo)
             g == [i \in DOMAIN t |-> i]
  <1>1. s \in Seq(LimitOrders(Os)) /\ Len(s) \in Nat /\ DOMAIN s = 1 .. Len(s) /\ Len(s) >= 1
    BY DEF GoodSide
  <1>2. /\ Tail(s) \in Seq(LimitOrders(Os)) /\ Len(Tail(s)) = Len(s) - 1
        /\ \A i \in 1 .. Len(s) - 1 : Tail(s)[i] = s[i + 1]
    BY <1>1
  <1>3. /\ t \in Seq(LimitOrders(Os)) /\ Len(t) = Len(s)
        /\ \A i \in 1 .. Len(s) : t[i] = IF i <= 1 THEN <<lo>>[i] ELSE Tail(s)[i - 1]
    BY <1>1, <1>2 DEF ReplaceBest
  <1>4. /\ DOMAIN t = DOMAIN s /\ t[1] = lo
        /\ \A i \in DOMAIN t : i # 1 => t[i] = s[i]
    BY <1>1, <1>2, <1>3
  <1>5. Head(s) = s[1]
    BY <1>1
  <1> HIDE DEF t
  <1>6. g \in [DOMAIN t -> DOMAIN s] /\ \A i \in DOMAIN t : t[i].order = s[g[i]].order
    BY <1>4, <1>5
  <1>7. \A i \in DOMAIN t : Rests(t[i], side)
    BY <1>4 DEF GoodSide
  <1>8. \A i, j \in DOMAIN t : i < j => g[i] < g[j]
    BY <1>4
  <1> HIDE DEF g
  <1> QED
    BY <1>3, <1>6, <1>7, <1>8, GoodPart DEF t

LEMMA GoodRemove ==
  ASSUME NEW Os, \A o \in Os : ValidOrder(o), NEW when, NEW side,
         NEW s, GoodSide(s, side, Os, when), NEW k \in DOMAIN s
  PROVE  /\ GoodSide(RemoveAt(s, k), side, Os, when)
         /\ OrdersIn(RemoveAt(s, k)) \subseteq OrdersIn(s)
  <1> DEFINE t == RemoveAt(s, k)
             g == [i \in DOMAIN t |-> IF i < k THEN i ELSE i + 1]
  <1>1. s \in Seq(LimitOrders(Os)) /\ Len(s) \in Nat /\ DOMAIN s = 1 .. Len(s) /\ k \in 1 .. Len(s)
    BY DEF GoodSide
  <1>2. /\ t \in Seq(LimitOrders(Os)) /\ DOMAIN t = 1 .. Len(s) - 1
        /\ \A i \in 1 .. Len(s) - 1 : t[i] = IF i < k THEN s[i] ELSE s[i + 1]
    BY <1>1, RemoveAtElements
  <1> HIDE DEF t
  <1>3. g \in [DOMAIN t -> DOMAIN s] /\ \A i \in DOMAIN t : t[i] = s[g[i]]
    BY <1>1, <1>2
  <1>4. \A i \in DOMAIN t : Rests(t[i], side)
    BY <1>3 DEF GoodSide
  <1>5. \A i, j \in DOMAIN t : i < j => g[i] < g[j]
    BY <1>1, <1>2
  <1> HIDE DEF g
  <1>6. \A i \in DOMAIN t : t[i].order = s[g[i]].order
    BY <1>3
  <1>7. t \in Seq(LimitOrders(Os)) /\ g \in [DOMAIN t -> DOMAIN s]
    BY <1>2, <1>3
  <1>8. GoodSide(t, side, Os, when) /\ OrdersIn(t) \subseteq OrdersIn(s)
    BY <1>4, <1>5, <1>6, <1>7, GoodPart
  <1> QED
    BY <1>8 DEF t

\* Every set of natural numbers has a least one (here because the intervals
\* from 0 to each of them are finite sets, on which inclusion is well founded).
LEMMA Least ==
  ASSUME NEW T, T \subseteq Nat, T # {}
  PROVE  \E m \in T : \A k \in T : m <= k
  <1> DEFINE order == StrictSubsetOrdering(Nat)
             finite == FiniteSubsetsOf(Nat)
             below == {0 .. k : k \in T}
  <1>1. IsWellFoundedOn(order, finite)
    BY FS_StrictSubsetOrderingWellFounded
  <1>2. \A k \in T : 0 .. k \in finite
    <2>1. \A k \in T : IsFiniteSet(0 .. k)
      BY FS_Interval
    <2> QED
      BY <2>1 DEF FiniteSubsetsOf
  <1>3. below \subseteq finite /\ below # {}
    BY <1>2
  <1>4. \E x \in below : \A y \in below : ~(<<y, x>> \in order)
    <2> HIDE DEF order, finite, below
    <2> QED
      BY <1>1, <1>3, WFMin
  <1>5. PICK m \in T : \A k \in T : <<0 .. k, 0 .. m>> \notin order
    BY <1>4
  <1>6. ASSUME NEW k \in T, k < m PROVE FALSE
    <2>1. 0 .. k \subseteq 0 .. m /\ 0 .. k # 0 .. m
      <3>1. m \in 0 .. m /\ m \notin 0 .. k
        BY <1>6
      <3> QED
        BY <1>6, <3>1
    <2>2. <<0 .. k, 0 .. m>> \in order
      BY <1>2, <2>1 DEF StrictSubsetOrdering
    <2> QED
      BY <1>5, <2>2
  <1> QED
    BY <1>6

\* The orders ahead of a newcomer are the first of the side.
LEMMA AheadAreFirst ==
  ASSUME NEW Os, \A o \in Os : ValidOrder(o), NEW when, NEW side,
         NEW s, GoodSide(s, side, Os, when), NEW lo \in LimitOrders(Os), Rests(lo, side)
  PROVE  LET k == Cardinality({i \in DOMAIN s : IsAhead(s[i], lo)}) + 1
         IN  /\ k \in 1 .. Len(s) + 1
             /\ \A i \in DOMAIN s : i < k <=> IsAhead(s[i], lo)
  <1> DEFINE A == {i \in DOMAIN s : IsAhead(s[i], lo)}
  <1>1. s \in Seq(LimitOrders(Os)) /\ Len(s) \in Nat /\ DOMAIN s = 1 .. Len(s)
    BY DEF GoodSide
  <1>2. ASSUME NEW i \in DOMAIN s, NEW j \in A, i < j PROVE i \in A
    <2>1. IsAhead(s[i], s[j]) /\ IsAhead(s[j], lo) /\ Rests(s[j], side)
      BY <1>2 DEF GoodSide, InOrder
    <2>2. /\ s[i].order.price \in Nat /\ s[j].order.price \in Nat /\ lo.order.price \in Nat
          /\ lo.order.side = side /\ s[j].order.side = side
      <3>1. s[i] \in LimitOrders(Os) /\ s[j] \in LimitOrders(Os)
        BY <1>1, <1>2
      <3> QED
        BY <2>1, <3>1 DEF LimitOrders, ValidOrder, Positive, Rests
    <2> QED
      BY <2>1, <2>2 DEF IsAhead
  <1> HIDE DEF A
  <1>3. \E n \in 0 .. Len(s) : A = 1 .. n
    <2> DEFINE T == {n \in Nat : \A i \in DOMAIN s : i > n => i \notin A}
    <2>1. Len(s) \in T
      BY <1>1
    <2>2. PICK n \in T : \A k \in T : n <= k
      BY <2>1, Least
    <2>3. n <= Len(s) /\ n \in Nat
      BY <2>1, <2>2
    <2>4. CASE n = 0
      <3>1. A = {}
        BY <1>1, <2>2, <2>4 DEF A
      <3>2. A = 1 .. 0
        BY <3>1
      <3> QED
        BY <1>1, <3>2
    <2>5. CASE n > 0
      <3>1. n - 1 \notin T /\ n - 1 \in Nat
        BY <2>2, <2>3, <2>5
      <3>2. PICK i \in DOMAIN s : i > n - 1 /\ i \in A
        BY <3>1
      <3>3. i = n
        BY <1>1, <2>2, <2>3, <3>2
      <3>4. A = 1 .. n
        <4>1. \A j \in A : j \in 1 .. n
          BY <1>1, <2>2, <2>3 DEF A
        <4>2. \A j \in 1 .. n : j \in A
          BY <1>1, <1>2, <2>3, <3>2, <3>3
        <4> QED
          BY <4>1, <4>2
      <3> QED
        BY <1>1, <2>3, <3>4
    <2> QED
      BY <2>3, <2>4, <2>5
  <1>4. PICK n \in 0 .. Len(s) : A = 1 .. n
    BY <1>3
  <1>5. Cardinality(A) = n
    BY <1>1, <1>4, FS_Interval
  <1>6. Cardinality(A) + 1 \in 1 .. Len(s) + 1
    BY <1>1, <1>4, <1>5
  <1>7. \A i \in DOMAIN s : i < Cardinality(A) + 1 <=> i \in A
    BY <1>1, <1>4, <1>5
  <1> QED
    BY <1>6, <1>7 DEF A

\* A newcomer goes behind what is ahead of it and before all others, none of
\* which has its price.
LEMMA GoodInsert ==
  ASSUME NEW Os, \A o \in Os : ValidOrder(o), NEW when, NEW side \in {"buy", "sell"},
         NEW s, GoodSide(s, side, Os, when), NEW lo \in LimitOrders(Os), Rests(lo, side),
         \A o \in OrdersIn(s) : when[o] < when[lo.order]
  PROVE  /\ GoodSide(Insert(s, lo), side, Os, when)
         /\ OrdersIn(Insert(s, lo)) \subseteq OrdersIn(s) \cup {lo.order}
  <1> DEFINE k == Cardinality({i \in DOMAIN s : IsAhead(s[i], lo)}) + 1
             t == Insert(s, lo)
  <1>1. s \in Seq(LimitOrders(Os)) /\ Len(s) \in Nat /\ DOMAIN s = 1 .. Len(s)
    BY DEF GoodSide
  <1>2. k \in 1 .. Len(s) + 1 /\ \A i \in DOMAIN s : i < k <=> IsAhead(s[i], lo)
    BY AheadAreFirst
  <1>3. t = InsertAt(s, k, lo)
    BY DEF Insert
  <1> HIDE DEF k, t
  <1>4. /\ t \in Seq(LimitOrders(Os)) /\ DOMAIN t = 1 .. Len(s) + 1
        /\ \A i \in 1 .. Len(s) + 1 :
             t[i] = IF i < k THEN s[i] ELSE IF i = k THEN lo ELSE s[i - 1]
    <2>1. k \in 1 .. Len(s) + 1
      BY <1>2
    <2>2. \A n \in 1 .. Len(s) + 1 :
            /\ InsertAt(s, n, lo) \in Seq(LimitOrders(Os))
            /\ DOMAIN InsertAt(s, n, lo) = 1 .. Len(s) + 1
            /\ \A i \in 1 .. Len(s) + 1 :
                 InsertAt(s, n, lo)[i] = IF i < n THEN s[i] ELSE IF i = n THEN lo ELSE s[i - 1]
      BY <1>1, InsertAtElements
    <2> QED
      BY <1>3, <2>1, <2>2
  <1> DEFINE g == [i \in DOMAIN t |-> IF i < k THEN i ELSE i - 1]
  <1>5. /\ t[k] = lo /\ k \in DOMAIN t
        /\ \A i \in DOMAIN t \ {k} : g[i] \in DOMAIN s /\ t[i] = s[g[i]]
    BY <1>1, <1>2, <1>4
  <1>6. \A i, j \in DOMAIN t \ {k} : i < j => g[i] < g[j]
    BY <1>2, <1>4
  <1>7. \A i \in DOMAIN t \ {k} : (i < k => g[i] < k) /\ (i > k => g[i] >= k)
    BY <1>2, <1>4
  <1> HIDE DEF g
  <1>8. \A i \in DOMAIN t : Rests(t[i], side)
    BY <1>5 DEF GoodSide
  <1>9. OrdersIn(t) \subseteq OrdersIn(s) \cup {lo.order}
    BY <1>5 DEF OrdersIn
  <1>10. ASSUME NEW i \in DOMAIN t, NEW j \in DOMAIN t, i < j
         PROVE  /\ IsAhead(t[i], t[j])
                /\ t[i].order.price = t[j].order.price => when[t[i].order] < when[t[j].order]
    <2>1. CASE i # k /\ j # k
      BY <1>5, <1>6, <1>10, <2>1 DEF GoodSide, InOrder
    <2>2. CASE j = k
      <3>1. i # k /\ g[i] \in DOMAIN s /\ t[i] = s[g[i]] /\ IsAhead(s[g[i]], lo)
        BY <1>2, <1>5, <1>7, <1>10, <2>2
      <3>2. s[g[i]].order \in OrdersIn(s)
        BY <3>1 DEF OrdersIn
      <3> QED
        BY <1>5, <2>2, <3>1, <3>2
    <2>3. CASE i = k
      <3>1. j # k /\ j > k /\ g[j] \in DOMAIN s /\ t[j] = s[g[j]] /\ g[j] >= k
        <4>1. j > k /\ j # k
          BY <1>2, <1>4, <1>10, <2>3
        <4>2. j \in DOMAIN t \ {k}
          BY <4>1
        <4> QED
          BY <1>5, <1>7, <4>1, <4>2
      <3>2. ~IsAhead(s[g[j]], lo)
        BY <1>1, <1>2, <3>1
      <3>3. /\ s[g[j]].order.price \in Nat /\ lo.order.price \in Nat
            /\ lo.order.side = side /\ s[g[j]].order.side = side
        <4>1. s[g[j]] \in LimitOrders(Os) /\ Rests(s[g[j]], side)
          BY <1>1, <3>1 DEF GoodSide
        <4> QED
          BY <4>1 DEF LimitOrders, ValidOrder, Positive, Rests
      <3> QED
        BY <1>5, <2>3, <3>1, <3>2, <3>3 DEF IsAhead
    <2> QED
      BY <2>1, <2>2, <2>3
  <1> QED
    BY <1>4, <1>8, <1>9, <1>10 DEF GoodSide, InOrder, t

----------------------------------------------------------------------------
(* A matching, turn by turn: o is the order matched, A the orders there are, *)
(* of which o was placed last.                                              *)

\* An execution of a buy and a sell whose prices meet, which is worth something.
GoodExecution(e) ==
    /\ e.amount \in Positive /\ Settled(e.amount, e.counter.order.price) > 0
    /\ \E buy, sell \in {e.submitted.order, e.counter.order} :
         buy.side = "buy" /\ sell.side = "sell" /\ sell.price <= buy.price

GoodEvents(events) == \A i \in DOMAIN events : events[i].type = "executed" => GoodExecution(events[i])

Uncrossed(own, counter, side) ==
    IF side = "buy" THEN NotCrossed(own, counter) ELSE NotCrossed(counter, own)

GoodParts(submitted, own, counter, events, done, o, A, when) ==
    /\ submitted \in LimitOrders({o})
    /\ GoodSide(own, o.side, A, when)
    /\ GoodSide(counter, Opposite(o.side), A, when)
    /\ Uncrossed(own, counter, o.side)
    /\ events \in Seq({events[i] : i \in DOMAIN events}) /\ GoodEvents(events)
    /\ done \in BOOLEAN
    /\ ~done => Rests(submitted, o.side) /\ o \notin OrdersIn(own)

GoodMatching(m, o, A, when) ==
    /\ m = [submitted |-> m.submitted, own |-> m.own, counter |-> m.counter,
            events |-> m.events, done |-> m.done]
    /\ GoodParts(m.submitted, m.own, m.counter, m.events, m.done, o, A, when)

\* Sides that do not cross still do not when orders leave them.
LEMMA UncrossedPart ==
  ASSUME NEW own, NEW counter, NEW side, Uncrossed(own, counter, side),
         NEW own2, OrdersIn(own2) \subseteq OrdersIn(own),
         NEW counter2, OrdersIn(counter2) \subseteq OrdersIn(counter)
  PROVE  Uncrossed(own2, counter2, side)
  BY DEF Uncrossed, NotCrossed

\* One more event.
LEMMA OneMoreEvent ==
  ASSUME NEW events, events \in Seq({events[i] : i \in DOMAIN events}), GoodEvents(events),
         NEW e, e.type = "executed" => GoodExecution(e)
  PROVE  LET more == Append(events, e) IN
         more \in Seq({more[i] : i \in DOMAIN more}) /\ GoodEvents(more)
  <1> DEFINE more == Append(events, e)
  <1>1. /\ more \in Seq({events[i] : i \in DOMAIN events} \cup {e})
        /\ DOMAIN more = 1 .. Len(events) + 1 /\ Len(more) = Len(events) + 1
        /\ \A i \in 1 .. Len(events) : more[i] = events[i]
        /\ more[Len(events) + 1] = e
    <2>1. events \in Seq({events[i] : i \in DOMAIN events} \cup {e})
      OBVIOUS
    <2> QED
      BY <2>1
  <1>2. Len(events) \in Nat /\ DOMAIN events = 1 .. Len(events)
    OBVIOUS
  <1> HIDE DEF more
  <1>3. more \in Seq({more[i] : i \in DOMAIN more})
    <2> DEFINE S == {more[i] : i \in DOMAIN more}
    <2>1. more = [i \in 1 .. Len(more) |-> more[i]] /\ Len(more) \in Nat
      BY <1>1, <1>2
    <2>2. \A i \in 1 .. Len(more) : more[i] \in S
      BY <1>1, <1>2
    <2> HIDE DEF S
    <2>3. more \in [1 .. Len(more) -> S]
      BY <2>1, <2>2
    <2> QED
      BY <2>1, <2>3 DEF S
  <1>4. GoodEvents(more)
    BY <1>1, <1>2 DEF GoodEvents
  <1> QED
    BY <1>3, <1>4 DEF more

\* Behind a head that does not match, nothing does.
LEMMA NothingMatches ==
  ASSUME NEW A, \A x \in A : ValidOrder(x), NEW when, NEW side \in {"buy", "sell"},
         NEW counter, GoodSide(counter, Opposite(side), A, when),
         NEW lo, lo.order \in A, lo.order.side = side,
         counter = <<>> \/ ~CanMatch(lo, Head(counter))
  PROVE  \A x \in OrdersIn(counter) :
            IF side = "buy" THEN lo.order.price < x.price ELSE x.price < lo.order.price
  <1>1. SUFFICES ASSUME NEW x \in OrdersIn(counter)
        PROVE  IF side = "buy" THEN lo.order.price < x.price ELSE x.price < lo.order.price
    OBVIOUS
  <1>2. PICK i \in DOMAIN counter : x = counter[i].order
    BY DEF OrdersIn
  <1>3. /\ counter \in Seq(LimitOrders(A)) /\ Len(counter) \in Nat
        /\ DOMAIN counter = 1 .. Len(counter) /\ 1 \in DOMAIN counter
        /\ counter # <<>> /\ Head(counter) = counter[1]
    BY <1>2 DEF GoodSide
  <1>4. \A j \in DOMAIN counter :
          /\ counter[j].order \in A /\ counter[j].order.side = Opposite(side)
          /\ counter[j].order.price \in Nat
    <2>1. \A j \in DOMAIN counter : counter[j] \in LimitOrders(A) /\ Rests(counter[j], Opposite(side))
      BY <1>3 DEF GoodSide
    <2> QED
      BY <2>1 DEF Rests, LimitOrders, ValidOrder, Positive
  <1>5. lo.order.price \in Nat
    BY DEF ValidOrder, Positive
  <1>6. i = 1 \/ IsAhead(counter[1], counter[i])
    BY <1>2, <1>3 DEF GoodSide, InOrder
  <1>7. ~CanMatch(lo, counter[1])
    BY <1>3
  <1>8. CASE side = "buy"
    <2>1. lo.order.price < counter[1].order.price
      BY <1>3, <1>4, <1>5, <1>7, <1>8 DEF CanMatch
    <2>2. counter[1].order.price <= counter[i].order.price
      BY <1>2, <1>3, <1>4, <1>6, <1>8 DEF IsAhead, Opposite
    <2> QED
      BY <1>2, <1>3, <1>4, <1>5, <1>8, <2>1, <2>2
  <1>9. CASE side = "sell"
    <2>1. lo.order.price > counter[1].order.price
      BY <1>3, <1>4, <1>5, <1>7, <1>9 DEF CanMatch
    <2>2. counter[1].order.price >= counter[i].order.price
      BY <1>2, <1>3, <1>4, <1>6, <1>9 DEF IsAhead, Opposite
    <2> QED
      BY <1>2, <1>3, <1>4, <1>5, <1>9, <2>1, <2>2
  <1> QED
    BY <1>8, <1>9

\* What is left of an order by an execution is one that may rest, if it is valid.
LEMMA WhatIsLeft ==
  ASSUME NEW submitted, NEW counter, Matchable(submitted, counter),
         NEW A, \A x \in A : ValidOrder(x),
         NEW lo \in {submitted, counter}, lo \in LimitOrders(A), NEW side, Rests(lo, side)
  PROVE  LET left == Remaining(lo, ExecutedAmount(submitted, counter)) IN
         /\ left \in LimitOrders({lo.order}) /\ left \in LimitOrders(A)
         /\ IsValid(left) => Rests(left, side)
         /\ IsValid(left) \in BOOLEAN
  <1> DEFINE amount == ExecutedAmount(submitted, counter)
             left == Remaining(lo, amount)
  <1>1. /\ left.amount \in Nat /\ left.amount < lo.amount /\ left.order = lo.order
    BY ExecutionTakesWhatItExecutes
  <1>2. /\ lo = [order |-> lo.order, amount |-> lo.amount] /\ lo.amount \in Nat /\ lo.order \in A
    BY DEF LimitOrders
  <1>3. left = [order |-> left.order, amount |-> left.amount]
    BY <1>2 DEF Remaining
  <1> HIDE DEF left
  <1>4. left \in LimitOrders({lo.order}) /\ left \in LimitOrders(A)
    BY <1>1, <1>2, <1>3 DEF LimitOrders
  <1>5. ASSUME IsValid(left) PROVE Rests(left, side)
    <2>1. left.amount > 0 /\ Settled(left.amount, left.order.price) > 0
      BY <1>5 DEF IsValid, IsValidAt
    <2>2. left.order.side = side /\ left.order = lo.order /\ lo.amount \in 1 .. lo.order.amount
      BY <1>1 DEF Rests
    <2>3. lo.order.amount \in Nat
      BY <1>2 DEF ValidOrder, Positive
    <2>4. left.amount \in 1 .. left.order.amount
      <3>1. lo.amount <= lo.order.amount
        BY <1>2, <2>2, <2>3
      <3>2. left.amount <= lo.order.amount /\ left.amount >= 1
        BY <1>1, <1>2, <2>1, <2>3, <3>1
      <3> QED
        BY <1>1, <2>3, <3>2
    <2> QED
      BY <2>1, <2>2, <2>4 DEF Rests
  <1>6. IsValid(left) \in BOOLEAN
    BY DEF IsValid, IsValidAt
  <1> QED
    BY <1>4, <1>5, <1>6 DEF left

\* A matching with some of its fields changed.
LEMMA MatchingExcept ==
  ASSUME NEW m, NEW a, NEW b, NEW c, NEW d, NEW e,
         m = [submitted |-> a, own |-> b, counter |-> c, events |-> d, done |-> e],
         NEW v, NEW w, NEW z
  PROVE  /\ [m EXCEPT !.own = v] = [submitted |-> a, own |-> v, counter |-> c, events |-> d, done |-> e]
         /\ [m EXCEPT !.submitted = v, !.events = w]
              = [submitted |-> v, own |-> b, counter |-> c, events |-> w, done |-> e]
         /\ [m EXCEPT !.counter = v, !.done = w]
              = [submitted |-> a, own |-> b, counter |-> v, events |-> d, done |-> w]
         /\ [m EXCEPT !.events = v, !.done = w]
              = [submitted |-> a, own |-> b, counter |-> c, events |-> v, done |-> w]
         /\ [m EXCEPT !.counter = v, !.events = w]
              = [submitted |-> a, own |-> b, counter |-> v, events |-> w, done |-> e]
         /\ [m EXCEPT !.counter = v, !.done = w, !.events = z]
              = [submitted |-> a, own |-> b, counter |-> v, events |-> z, done |-> w]
  <1>1. [m EXCEPT !.own = v] = [submitted |-> a, own |-> v, counter |-> c, events |-> d, done |-> e]
    OBVIOUS
  <1>2. [m EXCEPT !.submitted = v, !.events = w] = [submitted |-> v, own |-> b, counter |-> c, events |-> w, done |-> e]
    <2> DEFINE k == [m EXCEPT !.submitted = v]
    <2>1. k = [submitted |-> v, own |-> b, counter |-> c, events |-> d, done |-> e]
      OBVIOUS
    <2>2. [m EXCEPT !.submitted = v, !.events = w] = [k EXCEPT !.events = w]
      OBVIOUS
    <2> HIDE DEF k
    <2> QED
      BY <2>1, <2>2
  <1>3. [m EXCEPT !.counter = v, !.done = w] = [submitted |-> a, own |-> b, counter |-> v, events |-> d, done |-> w]
    <2> DEFINE k == [m EXCEPT !.counter = v]
    <2>1. k = [submitted |-> a, own |-> b, counter |-> v, events |-> d, done |-> e]
      OBVIOUS
    <2>2. [m EXCEPT !.counter = v, !.done = w] = [k EXCEPT !.done = w]
      OBVIOUS
    <2> HIDE DEF k
    <2> QED
      BY <2>1, <2>2
  <1>4. [m EXCEPT !.events = v, !.done = w] = [submitted |-> a, own |-> b, counter |-> c, events |-> v, done |-> w]
    <2> DEFINE k == [m EXCEPT !.events = v]
    <2>1. k = [submitted |-> a, own |-> b, counter |-> c, events |-> v, done |-> e]
      OBVIOUS
    <2>2. [m EXCEPT !.events = v, !.done = w] = [k EXCEPT !.done = w]
      OBVIOUS
    <2> HIDE DEF k
    <2> QED
      BY <2>1, <2>2
  <1>5. [m EXCEPT !.counter = v, !.events = w] = [submitted |-> a, own |-> b, counter |-> v, events |-> w, done |-> e]
    <2> DEFINE k == [m EXCEPT !.counter = v]
    <2>1. k = [submitted |-> a, own |-> b, counter |-> v, events |-> d, done |-> e]
      OBVIOUS
    <2>2. [m EXCEPT !.counter = v, !.events = w] = [k EXCEPT !.events = w]
      OBVIOUS
    <2> HIDE DEF k
    <2> QED
      BY <2>1, <2>2
  <1>6. [m EXCEPT !.counter = v, !.done = w, !.events = z] = [submitted |-> a, own |-> b, counter |-> v, events |-> z, done |-> w]
    <2> DEFINE k == [m EXCEPT !.counter = v, !.done = w]
    <2>1. [m EXCEPT !.counter = v, !.done = w, !.events = z] = [k EXCEPT !.events = z]
      OBVIOUS
    <2>2. k = [submitted |-> a, own |-> b, counter |-> v, events |-> d, done |-> w]
      BY <1>3
    <2> HIDE DEF k
    <2> QED
      BY <2>1, <2>2
  <1> QED
    BY <1>1, <1>2, <1>3, <1>4, <1>5, <1>6

\* The branch that executes.
LEMMA GoodExecute ==
  ASSUME NEW A, \A x \in A : ValidOrder(x), NEW when, NEW o \in A, NEW ts,
         NEW m, GoodMatching(m, o, A, when), ~m.done,
         m.counter # <<>>, CanMatch(m.submitted, Head(m.counter)),
         IsValidAt(m.submitted, Head(m.counter).order.price)
  PROVE  LET n == Execute(m, ts) IN
         /\ GoodMatching(n, o, A, when)
         /\ ~n.done => n.counter = Tail(m.counter)
  <1> DEFINE s == m.submitted
             c == Head(m.counter)
             x == OrderExecuted(s, c, ts)
             amount == ExecutedAmount(s, c)
             cLeft == Remaining(c, amount)
             left == Remaining(s, amount)
             ev == Append(m.events, x)
             n == Execute(m, ts)
  <1>1. /\ m = [submitted |-> m.submitted, own |-> m.own, counter |-> m.counter,
                events |-> m.events, done |-> m.done]
        /\ GoodParts(m.submitted, m.own, m.counter, m.events, m.done, o, A, when)
    BY DEF GoodMatching
  <1>2. o.side \in {"buy", "sell"} /\ s \in LimitOrders({o}) /\ s \in LimitOrders(A) /\ s.order = o
        /\ Rests(s, o.side) /\ o \notin OrdersIn(m.own)
    BY <1>1 DEF GoodParts, ValidOrder, LimitOrders
  <1>3. /\ GoodSide(Tail(m.counter), Opposite(o.side), A, when)
        /\ OrdersIn(Tail(m.counter)) \subseteq OrdersIn(m.counter)
        /\ c \in LimitOrders(A) /\ Rests(c, Opposite(o.side)) /\ c.order \in OrdersIn(m.counter)
    BY <1>1, GoodTail DEF GoodParts
  <1>4. Matchable(s, c)
    <2>1. IsLimitOrder(s) /\ IsLimitOrder(c) /\ IsValid(c)
      BY <1>2, <1>3, RestsIsValid
    <2> QED
      BY <2>1 DEF Matchable
  <1>5. /\ left \in LimitOrders({o}) /\ (IsValid(left) => Rests(left, o.side))
        /\ IsValid(left) \in BOOLEAN
    BY <1>2, <1>4, WhatIsLeft
  <1>6. /\ cLeft \in LimitOrders(A) /\ (IsValid(cLeft) => Rests(cLeft, Opposite(o.side)))
        /\ cLeft.order = c.order
    <2>1. cLeft \in LimitOrders({c.order}) /\ cLeft \in LimitOrders(A)
          /\ (IsValid(cLeft) => Rests(cLeft, Opposite(o.side)))
      BY <1>3, <1>4, WhatIsLeft
    <2> QED
      BY <2>1 DEF LimitOrders
  <1>7. GoodExecution(x)
    <2>1. amount \in Positive /\ Settled(amount, c.order.price) >= 1
      BY <1>4, ExecutedWithinBoth
    <2>2. x.amount = amount /\ x.counter = c /\ x.submitted = s /\ x.type = "executed"
      BY DEF OrderExecuted
    <2>3. c.order.side = Opposite(o.side) /\ c.order \in A
      BY <1>3 DEF Rests, LimitOrders
    <2>4. \E buy, sell \in {s.order, c.order} :
            buy.side = "buy" /\ sell.side = "sell" /\ sell.price <= buy.price
      <3>1. c.order.price \in Nat /\ o.price \in Nat
        BY <2>3 DEF ValidOrder, Positive
      <3>2. CASE o.side = "buy"
        <4>1. c.order.side = "sell" /\ s.order.side = "buy" /\ c.order.price <= s.order.price
          BY <1>2, <2>3, <3>1, <3>2 DEF CanMatch, Opposite
        <4> QED
          BY <4>1
      <3>3. CASE o.side = "sell"
        <4>1. c.order.side = "buy" /\ s.order.side = "sell" /\ s.order.price <= c.order.price
          BY <1>2, <2>3, <3>1, <3>3 DEF CanMatch, Opposite
        <4> QED
          BY <4>1
      <3> QED
        BY <1>2, <3>2, <3>3
    <2>5. Settled(amount, c.order.price) > 0
      <3>1. Settled(amount, c.order.price) \in Nat
        <4>1. c.order.price \in Positive
          BY <2>3 DEF ValidOrder
        <4> QED
          BY <2>1, <4>1, SettledBounds DEF Positive
      <3> QED
        BY <2>1, <3>1
    <2> QED
      BY <2>1, <2>2, <2>4, <2>5 DEF GoodExecution
  <1>8. ev \in Seq({ev[i] : i \in DOMAIN ev}) /\ GoodEvents(ev)
    <2>1. m.events \in Seq({m.events[i] : i \in DOMAIN m.events}) /\ GoodEvents(m.events)
      BY <1>1 DEF GoodParts
    <2> HIDE DEF x
    <2> QED
      BY <1>7, <2>1, OneMoreEvent
  <1>9. CASE IsValid(cLeft)
    <2> DEFINE e == OrderCanceled(left, TRUE)
               ev2 == IF IsValid(left) THEN Append(ev, e) ELSE ev
               counter == ReplaceBest(m.counter, cLeft)
    <2>1. n = [submitted |-> left, own |-> m.own, counter |-> counter, events |-> ev2, done |-> TRUE]
      <3> DEFINE n1 == [m EXCEPT !.submitted = left, !.events = Append(@, x)]
      <3>1. n1 = [submitted |-> left, own |-> m.own, counter |-> m.counter, events |-> ev,
                  done |-> m.done]
        <4>1. n1 = [m EXCEPT !.submitted = left, !.events = ev]
          OBVIOUS
        <4> HIDE DEF n1, left, x, ev
        <4> QED
          BY <1>1, <4>1, MatchingExcept
      <3>2. n = [n1 EXCEPT !.counter = ReplaceBest(@, cLeft), !.done = TRUE,
                           !.events = IF IsValid(left) THEN Append(@, e) ELSE @]
        BY <1>9 DEF Execute, OrderExecuted
      <3>3. n = [n1 EXCEPT !.counter = counter, !.done = TRUE, !.events = ev2]
        <4> HIDE DEF n1, n, left, cLeft, ev, e, x
        <4> QED
          BY <3>1, <3>2
      <3> HIDE DEF n1, n, left, cLeft, ev, ev2, counter
      <3> QED
        BY <3>1, <3>3, MatchingExcept
    <2>2. ev2 \in Seq({ev2[i] : i \in DOMAIN ev2}) /\ GoodEvents(ev2)
      <3>1. e.type = "canceled"
        BY DEF OrderCanceled
      <3>2. LET more == Append(ev, e) IN
            more \in Seq({more[i] : i \in DOMAIN more}) /\ GoodEvents(more)
        <4> HIDE DEF ev, e
        <4> QED
          BY <1>8, <3>1, OneMoreEvent
      <3> HIDE DEF ev, e
      <3> QED
        BY <1>8, <3>2
    <2>3. /\ GoodSide(counter, Opposite(o.side), A, when)
          /\ OrdersIn(counter) \subseteq OrdersIn(m.counter)
      <3>1. GoodSide(m.counter, Opposite(o.side), A, when)
        BY <1>1 DEF GoodParts
      <3>2. Rests(cLeft, Opposite(o.side)) /\ cLeft.order = Head(m.counter).order
            /\ cLeft \in LimitOrders(A)
        BY <1>6, <1>9
      <3> HIDE DEF cLeft
      <3> QED
        BY <3>1, <3>2, GoodReplace
    <2>4. Uncrossed(m.own, counter, o.side)
      <3>1. Uncrossed(m.own, m.counter, o.side)
        BY <1>1 DEF GoodParts
      <3> HIDE DEF counter
      <3> QED
        BY <2>3, <3>1, UncrossedPart
    <2> HIDE DEF n, left, ev2, counter
    <2>5. GoodParts(left, m.own, counter, ev2, TRUE, o, A, when)
      <3>1. left \in LimitOrders({o}) /\ GoodSide(m.own, o.side, A, when)
        BY <1>1, <1>5 DEF GoodParts
      <3> QED
        BY <2>2, <2>3, <2>4, <3>1 DEF GoodParts
    <2>6. /\ n.submitted = left /\ n.own = m.own /\ n.counter = counter /\ n.events = ev2
          /\ n.done = TRUE
      BY <2>1
    <2>7. GoodMatching(n, o, A, when) /\ n.done
      BY <2>1, <2>5, <2>6 DEF GoodMatching
    <2> QED
      BY <2>7 DEF n
  <1>10. CASE ~IsValid(cLeft)
    <2> DEFINE done == ~IsValid(left)
    <2>1. n = [submitted |-> left, own |-> m.own, counter |-> Tail(m.counter), events |-> ev,
               done |-> done]
      <3> DEFINE n1 == [m EXCEPT !.submitted = left, !.events = Append(@, x)]
      <3>1. n1 = [submitted |-> left, own |-> m.own, counter |-> m.counter, events |-> ev,
                  done |-> m.done]
        <4>1. n1 = [m EXCEPT !.submitted = left, !.events = ev]
          OBVIOUS
        <4> HIDE DEF n1, left, x, ev
        <4> QED
          BY <1>1, <4>1, MatchingExcept
      <3>2. n = [n1 EXCEPT !.counter = Tail(@), !.done = done]
        BY <1>10 DEF Execute, OrderExecuted
      <3>3. n = [n1 EXCEPT !.counter = Tail(m.counter), !.done = done]
        <4> HIDE DEF n1, n, left, cLeft, ev, x, done
        <4> QED
          BY <3>1, <3>2
      <3> HIDE DEF n1, n, left, cLeft, ev, x, done
      <3> QED
        BY <3>1, <3>3, MatchingExcept
    <2>2. Uncrossed(m.own, Tail(m.counter), o.side)
      <3>1. Uncrossed(m.own, m.counter, o.side)
        BY <1>1 DEF GoodParts
      <3> QED
        BY <1>3, <3>1, UncrossedPart
    <2>3. done \in BOOLEAN /\ (~done => Rests(left, o.side))
      BY <1>5
    <2> HIDE DEF n, left, ev, done
    <2>4. GoodParts(left, m.own, Tail(m.counter), ev, done, o, A, when)
      BY <1>1, <1>2, <1>3, <1>5, <1>8, <2>2, <2>3 DEF GoodParts
    <2>5. /\ n.submitted = left /\ n.own = m.own /\ n.counter = Tail(m.counter) /\ n.events = ev
          /\ n.done = done
      BY <2>1
    <2>6. GoodMatching(n, o, A, when) /\ n.counter = Tail(m.counter)
      BY <2>1, <2>4, <2>5 DEF GoodMatching
    <2> QED
      BY <2>6 DEF n
  <1> QED
    BY <1>9, <1>10

\* A turn keeps the matching good; it ends it or takes an order off the other side.
LEMMA GoodTurn ==
  ASSUME NEW A, \A x \in A : ValidOrder(x), NEW when, NEW o \in A, NEW ts,
         \A x \in A \ {o} : when[x] < when[o],
         NEW m, GoodMatching(m, o, A, when), ~m.done
  PROVE  LET n == DoMatch(m, ts) IN
         /\ GoodMatching(n, o, A, when)
         /\ ~n.done => m.counter # <<>> /\ n.counter = Tail(m.counter)
  <1> DEFINE n == DoMatch(m, ts)
             c == Head(m.counter)
  <1>1. /\ m = [submitted |-> m.submitted, own |-> m.own, counter |-> m.counter,
                events |-> m.events, done |-> m.done]
        /\ GoodParts(m.submitted, m.own, m.counter, m.events, m.done, o, A, when)
    BY DEF GoodMatching
  <1>2. /\ o.side \in {"buy", "sell"} /\ m.submitted \in LimitOrders({o})
        /\ m.submitted \in LimitOrders(A) /\ m.submitted.order = o
        /\ Rests(m.submitted, o.side) /\ o \notin OrdersIn(m.own)
        /\ GoodSide(m.own, o.side, A, when) /\ GoodSide(m.counter, Opposite(o.side), A, when)
        /\ Uncrossed(m.own, m.counter, o.side)
        /\ m.events \in Seq({m.events[i] : i \in DOMAIN m.events}) /\ GoodEvents(m.events)
    BY <1>1 DEF GoodParts, ValidOrder, LimitOrders
  <1>3. ASSUME NEW lo, NEW unmatchable, NEW e, e = OrderCanceled(lo, unmatchable)
        PROVE  LET more == Append(m.events, e) IN
               more \in Seq({more[i] : i \in DOMAIN more}) /\ GoodEvents(more)
    <2>1. e.type = "canceled"
      BY <1>3 DEF OrderCanceled
    <2> QED
      BY <1>2, <2>1, OneMoreEvent
  <1>4. ASSUME NEW ev, n = [m EXCEPT !.events = ev, !.done = TRUE],
               ev \in Seq({ev[i] : i \in DOMAIN ev}), GoodEvents(ev)
        PROVE  GoodMatching(n, o, A, when) /\ n.done
    <2> HIDE DEF n
    <2>1. n = [submitted |-> m.submitted, own |-> m.own, counter |-> m.counter,
               events |-> ev, done |-> TRUE]
      BY <1>1, <1>4, MatchingExcept
    <2>2. GoodParts(m.submitted, m.own, m.counter, ev, TRUE, o, A, when)
      BY <1>2, <1>4 DEF GoodParts
    <2>3. /\ n.submitted = m.submitted /\ n.own = m.own /\ n.counter = m.counter
          /\ n.events = ev /\ n.done = TRUE
      BY <2>1
    <2> QED
      BY <2>1, <2>2, <2>3 DEF GoodMatching
  <1>5. CASE Expired(m.submitted, ts)
    <2> DEFINE ev == Append(m.events, OrderCanceled(m.submitted, FALSE))
    <2>1. n = [m EXCEPT !.events = ev, !.done = TRUE]
      BY <1>5 DEF DoMatch
    <2>2. ev \in Seq({ev[i] : i \in DOMAIN ev}) /\ GoodEvents(ev)
      BY <1>3
    <2> HIDE DEF ev, n
    <2>3. GoodMatching(n, o, A, when) /\ n.done
      BY <1>4, <2>1, <2>2
    <2> QED
      BY <2>3 DEF n
  <1>6. CASE ~Expired(m.submitted, ts) /\ (m.counter = <<>> \/ ~CanMatch(m.submitted, c))
    <2> DEFINE ev == Append(m.events, OrderAdded(m.submitted))
               own == Insert(m.own, m.submitted)
               k == [m EXCEPT !.events = ev, !.done = TRUE]
    <2>1. n = [k EXCEPT !.own = own]
      <3>1. k.own = m.own
        BY <1>1
      <3>2. n = [k EXCEPT !.own = Insert(@, m.submitted)]
        BY <1>6 DEF DoMatch
      <3> HIDE DEF k, n
      <3> QED
        BY <3>1, <3>2
    <2>2. n = [submitted |-> m.submitted, own |-> own, counter |-> m.counter,
               events |-> ev, done |-> TRUE]
      <3> HIDE DEF ev, own
      <3>1. k = [submitted |-> m.submitted, own |-> m.own, counter |-> m.counter,
                 events |-> ev, done |-> TRUE]
        <4>1. k = [m EXCEPT !.events = ev, !.done = TRUE]
          OBVIOUS
        <4> HIDE DEF k
        <4> QED
          BY <1>1, <4>1, MatchingExcept
      <3> HIDE DEF k, n
      <3> QED
        BY <2>1, <3>1, MatchingExcept
    <2>3. ev \in Seq({ev[i] : i \in DOMAIN ev}) /\ GoodEvents(ev)
      <3> DEFINE e == OrderAdded(m.submitted)
      <3>1. e.type = "added"
        BY DEF OrderAdded
      <3> HIDE DEF e
      <3>2. LET more == Append(m.events, e) IN
            more \in Seq({more[i] : i \in DOMAIN more}) /\ GoodEvents(more)
        BY <1>2, <3>1, OneMoreEvent
      <3> QED
        BY <3>2 DEF e
    <2>4. OrdersIn(m.own) \subseteq A \ {o}
      <3>1. m.own \in Seq(LimitOrders(A))
        BY <1>2 DEF GoodSide
      <3>2. \A i \in DOMAIN m.own : m.own[i] \in LimitOrders(A)
        BY <3>1
      <3>3. \A i \in DOMAIN m.own : m.own[i].order \in A
        BY <3>2 DEF LimitOrders
      <3> QED
        BY <1>2, <3>3 DEF OrdersIn
    <2>5. /\ GoodSide(own, o.side, A, when)
          /\ OrdersIn(own) \subseteq OrdersIn(m.own) \cup {m.submitted.order}
      <3>1. \A x \in OrdersIn(m.own) : when[x] < when[m.submitted.order]
        BY <1>2, <2>4
      <3>2. /\ m.submitted \in LimitOrders(A) /\ Rests(m.submitted, o.side)
            /\ GoodSide(m.own, o.side, A, when) /\ o.side \in {"buy", "sell"}
        BY <1>2
      <3>3. /\ GoodSide(Insert(m.own, m.submitted), o.side, A, when)
            /\ OrdersIn(Insert(m.own, m.submitted)) \subseteq OrdersIn(m.own) \cup {m.submitted.order}
        BY <3>1, <3>2, GoodInsert
      <3> QED
        BY <3>3
    <2>6. Uncrossed(own, m.counter, o.side)
      <3>1. \A x \in OrdersIn(m.counter) : IF o.side = "buy" THEN o.price < x.price ELSE x.price < o.price
        <4>1. m.submitted.order \in A /\ m.submitted.order.side = o.side
          BY <1>2
        <4>2. m.counter = <<>> \/ ~CanMatch(m.submitted, Head(m.counter))
          BY <1>6
        <4>3. \A x \in OrdersIn(m.counter) :
                IF o.side = "buy" THEN m.submitted.order.price < x.price
                                  ELSE x.price < m.submitted.order.price
          BY <1>2, <4>1, <4>2, NothingMatches
        <4> QED
          BY <1>2, <4>3
      <3> HIDE DEF own
      <3> QED
        BY <1>2, <2>5, <3>1 DEF Uncrossed, NotCrossed
    <2> HIDE DEF n, ev, own
    <2>7. GoodParts(m.submitted, own, m.counter, ev, TRUE, o, A, when)
      BY <1>2, <2>3, <2>5, <2>6 DEF GoodParts
    <2>8. /\ n.submitted = m.submitted /\ n.own = own /\ n.counter = m.counter
          /\ n.events = ev /\ n.done = TRUE
      BY <2>2
    <2>9. GoodMatching(n, o, A, when) /\ n.done
      BY <2>2, <2>7, <2>8 DEF GoodMatching
    <2> QED
      BY <2>9 DEF n
  <1>7. CASE /\ ~Expired(m.submitted, ts) /\ m.counter # <<>> /\ CanMatch(m.submitted, c)
             /\ ~IsValidAt(m.submitted, c.order.price)
    <2> DEFINE ev == Append(m.events, OrderCanceled(m.submitted, TRUE))
    <2>1. n = [m EXCEPT !.events = ev, !.done = TRUE]
      BY <1>7 DEF DoMatch
    <2>2. ev \in Seq({ev[i] : i \in DOMAIN ev}) /\ GoodEvents(ev)
      BY <1>3
    <2> HIDE DEF ev, n
    <2>3. GoodMatching(n, o, A, when) /\ n.done
      BY <1>4, <2>1, <2>2
    <2> QED
      BY <2>3 DEF n
  <1>8. CASE /\ ~Expired(m.submitted, ts) /\ m.counter # <<>> /\ CanMatch(m.submitted, c)
             /\ IsValidAt(m.submitted, c.order.price) /\ Expired(c, ts)
    <2> DEFINE ev == Append(m.events, OrderCanceled(c, FALSE))
    <2>1. n = [m EXCEPT !.counter = Tail(m.counter), !.events = ev]
      BY <1>8 DEF DoMatch
    <2>2. ev \in Seq({ev[i] : i \in DOMAIN ev}) /\ GoodEvents(ev)
      BY <1>3
    <2>3. /\ GoodSide(Tail(m.counter), Opposite(o.side), A, when)
          /\ OrdersIn(Tail(m.counter)) \subseteq OrdersIn(m.counter)
      BY <1>2, <1>8, GoodTail
    <2>4. Uncrossed(m.own, Tail(m.counter), o.side)
      BY <1>2, <2>3, UncrossedPart
    <2> HIDE DEF ev, n
    <2>5. n = [submitted |-> m.submitted, own |-> m.own, counter |-> Tail(m.counter),
               events |-> ev, done |-> m.done]
      BY <1>1, <2>1, MatchingExcept
    <2>6. m.done \in BOOLEAN
      BY <1>1 DEF GoodParts
    <2>7. GoodParts(m.submitted, m.own, Tail(m.counter), ev, m.done, o, A, when)
      BY <1>2, <2>2, <2>3, <2>4, <2>6 DEF GoodParts
    <2>8. /\ n.submitted = m.submitted /\ n.own = m.own /\ n.counter = Tail(m.counter)
          /\ n.events = ev /\ n.done = m.done
      BY <2>5
    <2>9. GoodMatching(n, o, A, when) /\ n.counter = Tail(m.counter)
      BY <2>5, <2>7, <2>8 DEF GoodMatching
    <2> QED
      BY <1>8, <2>9 DEF n
  <1>9. CASE /\ ~Expired(m.submitted, ts) /\ m.counter # <<>> /\ CanMatch(m.submitted, c)
             /\ IsValidAt(m.submitted, c.order.price) /\ ~Expired(c, ts)
    <2>1. n = Execute(m, ts)
      BY <1>9 DEF DoMatch
    <2>2. LET k == Execute(m, ts) IN
          GoodMatching(k, o, A, when) /\ (~k.done => k.counter = Tail(m.counter))
      BY <1>9, GoodExecute
    <2> QED
      BY <1>9, <2>1, <2>2
  <1> QED
    BY <1>5, <1>6, <1>7, <1>8, <1>9

\* A turn of a matching that may have ended.
LEMMA TurnIs ==
  ASSUME NEW m, NEW ts
  PROVE  Turn(m, ts) = IF m.done THEN m ELSE DoMatch(m, ts)
  <1>1. {IF n.done THEN n ELSE DoMatch(n, ts) : n \in {m}} = {IF m.done THEN m ELSE DoMatch(m, ts)}
    OBVIOUS
  <1> QED
    BY <1>1 DEF Turn

\* The matching after each turn is the one before it after one turn more.
LEMMA TurnsAre ==
  ASSUME NEW book, NEW o, NEW ts, Len(book[Opposite(o.side)]) \in Nat
  PROVE  LET N == Len(book[Opposite(o.side)]) + 1
             t == Turns(book, o, ts) IN
         t = [i \in 0 .. N |->
                IF i = 0 THEN Matching(LimitOrder(o), book[o.side], book[Opposite(o.side)])
                ELSE Turn(t[i - 1], ts)]
  <1> DEFINE first == Matching(LimitOrder(o), book[o.side], book[Opposite(o.side)])
             counter == book[Opposite(o.side)]
             N == Len(counter) + 1
             Is(f, n) == f = [i \in 0 .. n |-> IF i = 0 THEN first ELSE Turn(f[i - 1], ts)]
             Without == {n \in Nat : ~\E f : Is(f, n)}
  <1>1. ASSUME Without # {} PROVE FALSE
    <2>1. PICK n \in Without : \A k \in Without : n <= k
      BY <1>1, Least
    <2>2. CASE n = 0
      <3> DEFINE f == [i \in 0 .. 0 |-> first]
      <3>1. f = [i \in 0 .. 0 |-> IF i = 0 THEN first ELSE Turn(f[i - 1], ts)]
        OBVIOUS
      <3>2. Is(f, 0)
        BY <3>1
      <3> HIDE DEF f, Is
      <3> QED
        BY <2>1, <2>2, <3>2
    <2>3. CASE n > 0
      <3>1. n - 1 \in Nat /\ n - 1 \notin Without
        BY <2>1, <2>3
      <3>2. \E f : Is(f, n - 1)
        <4> HIDE DEF Is
        <4> QED
          BY <3>1
      <3>3. PICK f : Is(f, n - 1)
        BY <3>2
      <3> DEFINE g == [i \in 0 .. n |-> IF i = n THEN Turn(f[n - 1], ts) ELSE f[i]]
      <3>4. \A i \in 0 .. n : g[i] = IF i = 0 THEN first ELSE Turn(g[i - 1], ts)
        <4> HIDE DEF first
        <4>1. \A i \in 0 .. n - 1 : f[i] = IF i = 0 THEN first ELSE Turn(f[i - 1], ts)
          BY <3>1, <3>3
        <4>2. \A i \in 0 .. n - 1 : g[i] = f[i]
          BY <2>1
        <4>3. g[n] = Turn(f[n - 1], ts) /\ g[n - 1] = f[n - 1]
          BY <2>1, <2>3, <4>2
        <4> HIDE DEF g
        <4>4. \A i \in 0 .. n : i = n \/ i \in 0 .. n - 1
          BY <2>1
        <4>5. \A i \in 0 .. n - 1 : i # 0 => i - 1 \in 0 .. n - 1
          BY <2>1
        <4> QED
          BY <2>1, <2>3, <4>1, <4>2, <4>3, <4>4, <4>5
      <3>5. Is(g, n)
        <4>1. g = [i \in 0 .. n |-> g[i]]
          OBVIOUS
        <4> HIDE DEF g, first
        <4> QED
          BY <3>4, <4>1
      <3> HIDE DEF g, Is
      <3> QED
        BY <2>1, <3>5
    <2> QED
      BY <2>1, <2>2, <2>3
  <1>2. \E f : Is(f, N)
    <2>1. N \in Nat
      OBVIOUS
    <2> HIDE DEF Is, N
    <2> QED
      BY <1>1, <2>1
  <1>3. Turns(book, o, ts) = CHOOSE f : f = [i \in 0 .. N |-> IF i = 0 THEN first ELSE Turn(f[i - 1], ts)]
    BY DEF Turns
  <1> QED
    BY <1>2, <1>3

\* What is asked of an order when it is matched: it is not in the book and was
\* placed after the orders that are.
Newest(o, book, A, when) ==
    /\ o \in A /\ o \notin OrdersIn(book[o.side])
    /\ \A x \in A \ {o} : when[x] < when[o]

\* A good side for some orders is one for more of them.
LEMMA GoodForMore ==
  ASSUME NEW A, NEW B, A \subseteq B, NEW when, NEW side, NEW s, GoodSide(s, side, A, when)
  PROVE  GoodSide(s, side, B, when)
  <1>1. s \in Seq(LimitOrders(A))
    BY DEF GoodSide
  <1>2. LimitOrders(A) \subseteq LimitOrders(B)
    BY DEF LimitOrders
  <1>3. s \in Seq(LimitOrders(B))
    BY <1>1, <1>2
  <1> QED
    BY <1>3 DEF GoodSide

\* The matching of an order starts good.
LEMMA MatchingStartsGood ==
  ASSUME NEW A, \A x \in A : ValidOrder(x), NEW when, NEW book, GoodBook(book, A, when),
         NEW o, Newest(o, book, A, when)
  PROVE  GoodMatching(Matching(LimitOrder(o), book[o.side], book[Opposite(o.side)]), o, A, when)
  <1> DEFINE lo == LimitOrder(o)
             m == Matching(lo, book[o.side], book[Opposite(o.side)])
  <1>1. /\ m = [submitted |-> m.submitted, own |-> m.own, counter |-> m.counter,
                events |-> m.events, done |-> m.done]
        /\ m.submitted = lo /\ m.own = book[o.side] /\ m.counter = book[Opposite(o.side)]
        /\ m.events = <<>> /\ m.done = FALSE
    BY DEF Matching
  <1>2. ValidOrder(o) /\ o \in A
    BY DEF Newest
  <1>3. o.side \in {"buy", "sell"} /\ Opposite(o.side) \in {"buy", "sell"}
    BY <1>2 DEF ValidOrder, Opposite
  <1>4. lo \in LimitOrders({o}) /\ Rests(lo, o.side)
    <2>1. lo.order = o /\ lo.amount = o.amount /\ o.amount \in Nat
      BY <1>2 DEF LimitOrder, ValidOrder, Positive
    <2>2. lo \in LimitOrders({o})
      BY <2>1 DEF LimitOrder, LimitOrders
    <2>3. Rests(lo, o.side)
      BY <1>2, <2>1 DEF Rests, ValidOrder, Positive
    <2> QED
      BY <2>2, <2>3
  <1>5. /\ GoodSide(book[o.side], o.side, A, when)
        /\ GoodSide(book[Opposite(o.side)], Opposite(o.side), A, when)
    BY <1>3 DEF GoodBook
  <1>6. Uncrossed(book[o.side], book[Opposite(o.side)], o.side)
    BY <1>3 DEF GoodBook, Uncrossed, Opposite
  <1>7. o \notin OrdersIn(book[o.side])
    BY DEF Newest
  <1>8. GoodEvents(<<>>)
    BY DEF GoodEvents
  <1>9. <<>> \in Seq({<<>>[i] : i \in DOMAIN <<>>})
    OBVIOUS
  <1> HIDE DEF lo
  <1>10. GoodParts(lo, book[o.side], book[Opposite(o.side)], <<>>, FALSE, o, A, when)
    BY <1>4, <1>5, <1>6, <1>7, <1>8, <1>9 DEF GoodParts
  <1> HIDE DEF m
  <1>11. GoodMatching(m, o, A, when)
    BY <1>1, <1>10 DEF GoodMatching
  <1> QED
    BY <1>11 DEF m, lo

\* Matching comes to an end: after one turn more than there are orders on the
\* other side it has ended, and everything is as it should be (OrderBook.doMatch).
THEOREM MatchingEnds ==
  ASSUME NEW A, \A x \in A : ValidOrder(x), NEW when, NEW book, GoodBook(book, A, when),
         NEW o, Newest(o, book, A, when), NEW ts
  PROVE  LET N == Len(book[Opposite(o.side)]) + 1
             m == Turns(book, o, ts)[N]
         IN  GoodMatching(m, o, A, when) /\ m.done
  <1> DEFINE counter == book[Opposite(o.side)]
             N == Len(counter) + 1
             t == Turns(book, o, ts)
             Fine(i) == /\ GoodMatching(t[i], o, A, when)
                        /\ ~t[i].done => Len(t[i].counter) + i <= Len(counter)
             Bad == {i \in 0 .. N : ~Fine(i)}
  <1>1. ValidOrder(o) /\ o \in A /\ \A x \in A \ {o} : when[x] < when[o]
    BY DEF Newest
  <1>2. Len(counter) \in Nat
    <2>1. Opposite(o.side) \in {"buy", "sell"}
      BY <1>1 DEF ValidOrder, Opposite
    <2>2. counter \in Seq(LimitOrders(A))
      BY <2>1 DEF GoodBook, GoodSide
    <2> QED
      BY <2>2
  <1>3. N \in Nat /\ N = Len(book[Opposite(o.side)]) + 1
    BY <1>2
  <1>4. t = [i \in 0 .. N |->
               IF i = 0 THEN Matching(LimitOrder(o), book[o.side], book[Opposite(o.side)])
               ELSE Turn(t[i - 1], ts)]
    BY <1>2, TurnsAre
  <1> HIDE DEF t, N
  <1>5. Fine(0)
    <2>1. t[0] = Matching(LimitOrder(o), book[o.side], counter)
      BY <1>3, <1>4
    <2>2. GoodMatching(t[0], o, A, when)
      BY <2>1, MatchingStartsGood
    <2>3. t[0].counter = counter
      BY <2>1 DEF Matching
    <2> QED
      BY <1>2, <2>2, <2>3
  <1>6. ASSUME NEW i \in 1 .. N, Fine(i - 1) PROVE Fine(i)
    <2> DEFINE m == t[i - 1]
    <2>1. t[i] = IF m.done THEN m ELSE DoMatch(m, ts)
      <3>1. i \in 0 .. N /\ i # 0
        BY <1>3
      <3>2. t[i] = Turn(m, ts)
        BY <1>4, <3>1
      <3> QED
        BY <3>2, TurnIs
    <2>2. CASE m.done
      <3>1. t[i] = m
        BY <2>1, <2>2
      <3> QED
        BY <1>6, <2>2, <3>1
    <2>3. CASE ~m.done
      <3>1. t[i] = DoMatch(m, ts)
        BY <2>1, <2>3
      <3>2. GoodMatching(m, o, A, when) /\ Len(m.counter) + (i - 1) <= Len(counter)
        BY <1>6, <2>3
      <3> HIDE DEF m
      <3>3. LET n == DoMatch(m, ts) IN
            /\ GoodMatching(n, o, A, when)
            /\ ~n.done => m.counter # <<>> /\ n.counter = Tail(m.counter)
        BY <1>1, <2>3, <3>2, GoodTurn
      <3>4. ~t[i].done => Len(t[i].counter) + i <= Len(counter)
        <4>1. m.counter \in Seq(LimitOrders(A))
          BY <3>2 DEF GoodMatching, GoodParts, GoodSide
        <4>2. m.counter # <<>> => Len(Tail(m.counter)) = Len(m.counter) - 1 /\ Len(m.counter) \in Nat
          BY <4>1
        <4>3. i \in Nat
          BY <1>3
        <4>4. SUFFICES ASSUME ~t[i].done PROVE Len(t[i].counter) + i <= Len(counter)
          OBVIOUS
        <4>5. Len(t[i].counter) = Len(m.counter) - 1 /\ Len(m.counter) \in Nat
          BY <3>1, <3>3, <4>2, <4>4
        <4> DEFINE a == Len(t[i].counter)
                   b == Len(m.counter)
                   c == Len(counter)
        <4>6. a = b - 1 /\ b \in Nat /\ c \in Nat /\ b + (i - 1) <= c
          BY <1>2, <3>2, <4>5
        <4> HIDE DEF a, b, c
        <4>7. a + i <= c
          BY <4>3, <4>6
        <4> QED
          BY <4>7 DEF a, c
      <3> QED
        BY <3>1, <3>3, <3>4
    <2> QED
      BY <2>2, <2>3
  <1>7. Fine(N)
    <2>1. ASSUME Bad # {} PROVE FALSE
      <3>1. Bad \subseteq Nat
        OBVIOUS
      <3>2. PICK i \in Bad : \A k \in Bad : i <= k
        <4> HIDE DEF Bad
        <4> QED
          BY <2>1, <3>1, Least
      <3>3. i \in 0 .. N /\ ~Fine(i)
        OBVIOUS
      <3>4. i # 0
        BY <1>5, <3>3
      <3>5. i \in 1 .. N /\ i - 1 \in 0 .. N /\ i - 1 < i
        BY <1>3, <3>3, <3>4
      <3>6. i - 1 \notin Bad
        <4> HIDE DEF Bad
        <4> QED
          BY <3>2, <3>3, <3>5
      <3>7. Fine(i - 1)
        <4> HIDE DEF Fine
        <4> QED
          BY <3>5, <3>6
      <3> HIDE DEF Fine
      <3> QED
        BY <1>6, <3>3, <3>5, <3>7
    <2> HIDE DEF Fine
    <2> QED
      BY <1>3, <2>1
  <1>8. t[N].done
    <2>1. SUFFICES ASSUME ~t[N].done PROVE FALSE
      OBVIOUS
    <2>2. GoodMatching(t[N], o, A, when) /\ Len(t[N].counter) + N <= Len(counter)
      BY <1>7, <2>1
    <2>3. t[N].counter \in Seq(LimitOrders(A))
      BY <2>2 DEF GoodMatching, GoodParts, GoodSide
    <2> DEFINE a == Len(t[N].counter)
               c == Len(counter)
    <2>4. a \in Nat /\ c \in Nat /\ a + N <= c /\ N = c + 1
      <3>1. a \in Nat
        BY <2>3
      <3>2. c \in Nat /\ a + N <= c /\ N = c + 1
        <4> HIDE DEF a
        <4>1. a + N <= c
          BY <2>2 DEF a
        <4>2. c \in Nat
          BY <1>2
        <4>3. N = c + 1
          BY <1>3
        <4> QED
          BY <4>1, <4>2, <4>3
      <3> QED
        BY <3>1, <3>2
    <2> HIDE DEF a, c
    <2> QED
      BY <2>4
  <1> QED
    BY <1>7, <1>8 DEF t, N

\* The executions among the events of a matching are good ones.
GoodTrade(t) ==
    /\ t.amount > 0 /\ Settled(t.amount, t.counter.price) > 0
    /\ \E buy, sell \in {t.submitted, t.counter} :
         buy.side = "buy" /\ sell.side = "sell" /\ sell.price <= buy.price

LEMMA GoodTrades ==
  ASSUME NEW events, GoodEvents(events)
  PROVE  \A t \in Executed(events) : GoodTrade(t)
  <1>1. SUFFICES ASSUME NEW t \in Executed(events) PROVE GoodTrade(t)
    OBVIOUS
  <1>2. PICK e \in {x \in ToSet(events) : x.type = "executed"} :
          t = [submitted |-> e.submitted.order, counter |-> e.counter.order, amount |-> e.amount, ts |-> e.ts]
    BY DEF Executed
  <1>3. PICK i \in DOMAIN events : e = events[i]
    BY DEF ToSet
  <1>4. GoodExecution(e)
    BY <1>2, <1>3 DEF GoodEvents
  <1>5. /\ t.submitted = e.submitted.order /\ t.counter = e.counter.order /\ t.amount = e.amount
    BY <1>2
  <1> HIDE DEF GoodTrade
  <1> QED
    BY <1>4, <1>5 DEF GoodExecution, GoodTrade, Positive

\* A book with its two sides given one by one.
LEMMA GoodSides ==
  ASSUME NEW A, NEW when, NEW side \in {"buy", "sell"}, NEW own, NEW counter,
         GoodSide(own, side, A, when), GoodSide(counter, Opposite(side), A, when),
         Uncrossed(own, counter, side)
  PROVE  GoodBook([s \in {"buy", "sell"} |-> IF s = side THEN own ELSE counter], A, when)
  <1> DEFINE book == [s \in {"buy", "sell"} |-> IF s = side THEN own ELSE counter]
  <1>1. CASE side = "buy"
    <2>1. book["buy"] = own /\ book["sell"] = counter
      BY <1>1
    <2>2. book = [s \in {"buy", "sell"} |-> book[s]]
      OBVIOUS
    <2> HIDE DEF book
    <2>3. GoodBook(book, A, when)
      BY <1>1, <2>1, <2>2 DEF GoodBook, Uncrossed, Opposite
    <2> QED
      BY <2>3 DEF book
  <1>2. CASE side = "sell"
    <2>1. book["sell"] = own /\ book["buy"] = counter
      BY <1>2
    <2>2. book = [s \in {"buy", "sell"} |-> book[s]]
      OBVIOUS
    <2> HIDE DEF book
    <2>3. GoodBook(book, A, when)
      BY <1>2, <2>1, <2>2 DEF GoodBook, Uncrossed, Opposite
    <2> QED
      BY <2>3 DEF book
  <1> QED
    BY <1>1, <1>2

LEMMA GoodAdd ==
  ASSUME NEW A, \A x \in A : ValidOrder(x), NEW when, NEW book, GoodBook(book, A, when),
         NEW o, Newest(o, book, A, when), NEW ts
  PROVE  LET r == AddOrder(book, o, ts) IN
         GoodBook(r.book, A, when) /\ GoodEvents(r.events)
  <1> DEFINE N == Len(book[Opposite(o.side)]) + 1
             m == Turns(book, o, ts)[N]
             Result(n) ==
               [book |-> [side \in {"buy", "sell"} |-> IF side = o.side THEN n.own ELSE n.counter],
                events |-> n.events]
             r == AddOrder(book, o, ts)
  <1>1. {Result(n) : n \in {m}} = {Result(m)}
    OBVIOUS
  <1>2. r = Result(m)
    BY <1>1 DEF AddOrder
  <1>3. GoodMatching(m, o, A, when)
    BY MatchingEnds
  <1>4. o.side \in {"buy", "sell"}
    BY DEF Newest, ValidOrder
  <1> HIDE DEF m
  <1>5. /\ r.book = [s \in {"buy", "sell"} |-> IF s = o.side THEN m.own ELSE m.counter]
        /\ r.events = m.events
    BY <1>2
  <1>6. /\ GoodSide(m.own, o.side, A, when) /\ GoodSide(m.counter, Opposite(o.side), A, when)
        /\ Uncrossed(m.own, m.counter, o.side) /\ GoodEvents(m.events)
    BY <1>3 DEF GoodMatching, GoodParts
  <1>7. GoodBook([s \in {"buy", "sell"} |-> IF s = o.side THEN m.own ELSE m.counter], A, when)
    BY <1>4, <1>6, GoodSides
  <1> HIDE DEF r
  <1>8. GoodBook(r.book, A, when) /\ GoodEvents(r.events)
    BY <1>5, <1>6, <1>7
  <1> QED
    BY <1>8 DEF r

LEMMA GoodCancel ==
  ASSUME NEW A, \A x \in A : ValidOrder(x), NEW when, NEW book, GoodBook(book, A, when),
         NEW o, ValidOrder(o)
  PROVE  LET r == CancelOrder(book, o) IN
         GoodBook(r.book, A, when) /\ GoodEvents(r.events)
  <1> DEFINE r == CancelOrder(book, o)
             own == book[o.side]
             counter == book[Opposite(o.side)]
             places == {i \in DOMAIN own : own[i].order = o}
             place == CHOOSE i \in places : TRUE
  <1>1. /\ o.side \in {"buy", "sell"} /\ Opposite(o.side) \in {"buy", "sell"}
        /\ o.side # Opposite(o.side)
    BY DEF ValidOrder, Opposite
  <1>2. /\ GoodSide(own, o.side, A, when) /\ GoodSide(counter, Opposite(o.side), A, when)
        /\ Uncrossed(own, counter, o.side)
    BY <1>1 DEF GoodBook, Uncrossed, Opposite
  <1>3. CASE places = {}
    <2>1. r.book = book /\ r.events = <<>>
      BY <1>3 DEF CancelOrder
    <2> QED
      BY <2>1 DEF GoodEvents
  <1>4. CASE places # {}
    <2>1. place \in DOMAIN own
      BY <1>4
    <2>2. /\ r.book = [book EXCEPT ![o.side] = RemoveAt(@, place)]
          /\ r.events = <<OrderCanceled(own[place], FALSE)>>
      BY <1>4 DEF CancelOrder
    <2> HIDE DEF place, r
    <2>3. r.book = [s \in {"buy", "sell"} |-> IF s = o.side THEN RemoveAt(own, place) ELSE counter]
      <3>1. book = [s \in {"buy", "sell"} |-> book[s]]
        BY DEF GoodBook
      <3>2. \A s \in {"buy", "sell"} : s # o.side => s = Opposite(o.side)
        BY <1>1 DEF Opposite
      <3>3. [book EXCEPT ![o.side] = RemoveAt(@, place)]
              = [s \in {"buy", "sell"} |-> IF s = o.side THEN RemoveAt(book[o.side], place) ELSE book[s]]
        BY <1>1, <3>1
      <3> QED
        BY <2>2, <3>2, <3>3
    <2>4. /\ GoodSide(RemoveAt(own, place), o.side, A, when)
          /\ OrdersIn(RemoveAt(own, place)) \subseteq OrdersIn(own)
      <3> HIDE DEF own
      <3> QED
        BY <1>2, <2>1, GoodRemove
    <2>5. Uncrossed(RemoveAt(own, place), counter, o.side)
      <3> HIDE DEF own, counter
      <3> QED
        BY <1>2, <2>4, UncrossedPart
    <2>6. GoodBook(r.book, A, when)
      <3> HIDE DEF own, counter
      <3>1. GoodBook([s \in {"buy", "sell"} |-> IF s = o.side THEN RemoveAt(own, place) ELSE counter], A, when)
        BY <1>1, <1>2, <2>4, <2>5, GoodSides
      <3> QED
        BY <2>3, <3>1
    <2>7. GoodEvents(r.events)
      BY <2>2 DEF GoodEvents, OrderCanceled
    <2> QED
      BY <2>6, <2>7 DEF r
  <1> QED
    BY <1>3, <1>4

\* What a command does to a good book: it stays sorted by price and time, its
\* sides do not cross, what rests can be executed, and each execution is one of
\* a buy and a sell whose prices meet (OrderBook.add and cancel).
THEOREM BookStaysGood ==
  ASSUME NEW A, \A x \in A : ValidOrder(x), NEW when, NEW book, GoodBook(book, A, when),
         NEW event, ValidOrder(event.order),
         event.type = "placed" => Newest(event.order, book, A, when), NEW ts
  PROVE  LET r == Handle(book, event, ts) IN
         GoodBook(r.book, A, when) /\ GoodEvents(r.events)
  BY GoodAdd, GoodCancel DEF Handle

----------------------------------------------------------------------------
(* Sums over finite sets, as MapThenSumSet computes them: w[x] for each x.  *)

Pick(S) == CHOOSE x \in S : TRUE

\* f is the sum of each subset of V.
SumsTo(f, w, V) ==
    f = [s \in SUBSET V |-> IF s = {} THEN 0 ELSE w[Pick(s)] + f[s \ {Pick(s)}]]

SumOf(w, V) == (CHOOSE h : SumsTo(h, w, V))[V]

\* What is picked can be taken away, and there is one less.
LEMMA PickIs ==
  ASSUME NEW S, IsFiniteSet(S), S # {}
  PROVE  /\ Pick(S) \in S /\ IsFiniteSet(S \ {Pick(S)}) /\ S \ {Pick(S)} \subseteq S
         /\ Cardinality(S) \in Nat /\ Cardinality(S) # 0
         /\ Cardinality(S \ {Pick(S)}) = Cardinality(S) - 1
  <1>1. Pick(S) \in S
    BY DEF Pick
  <1>2. Cardinality(S) \in Nat /\ Cardinality(S) # 0
    BY FS_CardinalityType, FS_EmptySet
  <1> QED
    BY <1>1, <1>2, FS_RemoveElement

\* A set has only one sum, whatever larger set it is seen as a part of.
LEMMA SumIsUnique ==
  ASSUME NEW V, IsFiniteSet(V), NEW W, W \subseteq V, NEW w, NEW v, \A x \in W : v[x] = w[x],
         NEW f, SumsTo(f, w, V), NEW g, SumsTo(g, v, W)
  PROVE  \A s \in SUBSET W : g[s] = f[s]
  <1> DEFINE Differ == {s \in SUBSET W : g[s] # f[s]}
             T == {Cardinality(s) : s \in Differ}
  <1>1. \A s \in SUBSET W : IsFiniteSet(s) /\ Cardinality(s) \in Nat
    BY FS_Subset, FS_CardinalityType
  <1>2. ASSUME Differ # {} PROVE FALSE
    <2>1. T \subseteq Nat /\ T # {}
      BY <1>1, <1>2
    <2> HIDE DEF T
    <2>2. PICK n \in T : \A k \in T : n <= k
      BY <2>1, Least
    <2>3. PICK s \in Differ : n = Cardinality(s)
      BY <2>2 DEF T
    <2>4. s \in SUBSET W /\ g[s] # f[s] /\ IsFiniteSet(s)
      BY <1>1
    <2>5. /\ g[s] = IF s = {} THEN 0 ELSE v[Pick(s)] + g[s \ {Pick(s)}]
          /\ f[s] = IF s = {} THEN 0 ELSE w[Pick(s)] + f[s \ {Pick(s)}]
      BY <2>4 DEF SumsTo
    <2>6. s # {}
      BY <2>4, <2>5
    <2> DEFINE r == s \ {Pick(s)}
    <2>7. Pick(s) \in s /\ r \in SUBSET W /\ Cardinality(r) = n - 1 /\ n \in Nat
      BY <2>1, <2>2, <2>3, <2>4, <2>6, PickIs
    <2>8. g[r] = f[r]
      <3>1. SUFFICES ASSUME g[r] # f[r] PROVE FALSE
        OBVIOUS
      <3>2. Cardinality(r) \in T
        BY <2>7, <3>1 DEF T
      <3> QED
        BY <2>2, <2>7, <3>2
    <2>9. v[Pick(s)] = w[Pick(s)]
      BY <2>4, <2>7
    <2> QED
      BY <2>4, <2>5, <2>6, <2>8, <2>9
  <1> QED
    BY <1>2

\* Every finite set has a sum.
LEMMA SumExists ==
  ASSUME NEW V, IsFiniteSet(V), NEW w
  PROVE  \E f : SumsTo(f, w, V)
  <1> DEFINE Small(n) == {s \in SUBSET V : Cardinality(s) <= n}
             Is(f, n) == f = [s \in Small(n) |-> IF s = {} THEN 0 ELSE w[Pick(s)] + f[s \ {Pick(s)}]]
             Without == {n \in Nat : ~\E f : Is(f, n)}
  <1>1. \A s \in SUBSET V : /\ IsFiniteSet(s) /\ Cardinality(s) \in Nat
                            /\ Cardinality(s) = 0 => s = {}
    BY FS_Subset, FS_CardinalityType, FS_EmptySet
  <1>2. ASSUME Without # {} PROVE FALSE
    <2>1. PICK n \in Without : \A k \in Without : n <= k
      <3>1. Without \subseteq Nat
        OBVIOUS
      <3> HIDE DEF Without
      <3> QED
        BY <1>2, <3>1, Least
    <2>2. n \in Nat /\ ~\E f : Is(f, n)
      OBVIOUS
    <2>3. CASE n = 0
      <3> DEFINE f == [s \in Small(0) |-> 0]
      <3>1. \A s \in Small(0) : s = {}
        BY <1>1
      <3>2. f = [s \in Small(0) |-> IF s = {} THEN 0 ELSE w[Pick(s)] + f[s \ {Pick(s)}]]
        <4> HIDE DEF Small
        <4> QED
          BY <3>1
      <3>3. Is(f, 0)
        BY <3>2
      <3> HIDE DEF f, Is
      <3> QED
        BY <2>2, <2>3, <3>3
    <2>4. CASE n > 0
      <3>1. n - 1 \in Nat /\ n - 1 \notin Without
        <4> HIDE DEF Without
        <4> QED
          BY <2>1, <2>2, <2>4
      <3>2. PICK f : Is(f, n - 1)
        <4> HIDE DEF Is
        <4> QED
          BY <3>1
      <3> DEFINE g == [s \in Small(n) |-> IF Cardinality(s) = n
                                         THEN w[Pick(s)] + f[s \ {Pick(s)}] ELSE f[s]]
      <3>3. \A s \in Small(n) : s # {} => s \ {Pick(s)} \in Small(n - 1) /\ s \ {Pick(s)} \in Small(n)
        BY <1>1, <2>2, PickIs
      <3>4. \A s \in Small(n) : Cardinality(s) # n => s \in Small(n - 1)
        BY <1>1, <2>2
      <3>5. \A s \in Small(n - 1) : s \in Small(n) /\ Cardinality(s) # n
        BY <1>1, <2>2
      <3>6. {} \in Small(n) /\ Cardinality({}) # n
        BY <2>2, <2>4, FS_EmptySet
      <3>7. \A s \in Small(n - 1) : f[s] = IF s = {} THEN 0 ELSE w[Pick(s)] + f[s \ {Pick(s)}]
        <4> HIDE DEF Small
        <4> QED
          BY <3>2
      <3> HIDE DEF Small
      <3>8. \A s \in Small(n - 1) : g[s] = f[s]
        BY <3>5
      <3>9. \A s \in Small(n) : g[s] = IF Cardinality(s) = n THEN w[Pick(s)] + f[s \ {Pick(s)}] ELSE f[s]
        OBVIOUS
      <3>10. g = [s \in Small(n) |-> g[s]]
        OBVIOUS
      <3> HIDE DEF g
      <3>11. \A s \in Small(n) : g[s] = IF s = {} THEN 0 ELSE w[Pick(s)] + g[s \ {Pick(s)}]
        <4>1. SUFFICES ASSUME NEW s \in Small(n)
              PROVE  g[s] = IF s = {} THEN 0 ELSE w[Pick(s)] + g[s \ {Pick(s)}]
          OBVIOUS
        <4>2. s # {} => g[s \ {Pick(s)}] = f[s \ {Pick(s)}]
          BY <3>3, <3>8
        <4>3. CASE Cardinality(s) = n
          BY <3>6, <3>9, <4>2, <4>3
        <4>4. CASE Cardinality(s) # n
          BY <3>4, <3>7, <3>9, <4>2, <4>4
        <4> QED
          BY <4>3, <4>4
      <3>12. Is(g, n)
        BY <3>10, <3>11
      <3> HIDE DEF Is
      <3> QED
        BY <2>2, <3>12
    <2> QED
      BY <2>2, <2>3, <2>4
  <1> DEFINE N == Cardinality(V)
  <1>3. N \in Nat /\ Small(N) = SUBSET V
    BY FS_CardinalityType, FS_Subset
  <1>4. PICK f : Is(f, N)
    <2> HIDE DEF Is
    <2> QED
      BY <1>2, <1>3
  <1> QED
    BY <1>3, <1>4 DEF SumsTo

\* So there is one to choose.
LEMMA SumOfIs ==
  ASSUME NEW V, IsFiniteSet(V), NEW w
  PROVE  SumsTo(CHOOSE h : SumsTo(h, w, V), w, V)
  <1>1. \E f : SumsTo(f, w, V)
    BY SumExists
  <1> QED
    BY <1>1

\* The sum of a set depends on what its elements count only.
LEMMA SumIsSame ==
  ASSUME NEW V, IsFiniteSet(V), NEW w, NEW v, \A x \in V : v[x] = w[x]
  PROVE  SumOf(v, V) = SumOf(w, V)
  <1> DEFINE f == CHOOSE h : SumsTo(h, w, V)
             g == CHOOSE h : SumsTo(h, v, V)
  <1>1. SumsTo(f, w, V) /\ SumsTo(g, v, V)
    BY SumOfIs
  <1>2. SumOf(v, V) = g[V] /\ SumOf(w, V) = f[V]
    BY DEF SumOf
  <1> HIDE DEF f, g
  <1>3. \A s \in SUBSET V : g[s] = f[s]
    BY <1>1, SumIsUnique
  <1> QED
    BY <1>2, <1>3

\* One element after the other.
LEMMA SumPicks ==
  ASSUME NEW V, IsFiniteSet(V), NEW w
  PROVE  SumOf(w, V) = IF V = {} THEN 0 ELSE w[Pick(V)] + SumOf(w, V \ {Pick(V)})
  <1> DEFINE r == V \ {Pick(V)}
             f == CHOOSE h : SumsTo(h, w, V)
             g == CHOOSE h : SumsTo(h, w, r)
  <1>1. IsFiniteSet(r) /\ r \subseteq V
    BY FS_Subset
  <1>2. SumsTo(f, w, V) /\ SumsTo(g, w, r)
    BY <1>1, SumOfIs
  <1>3. SumOf(w, V) = f[V] /\ SumOf(w, r) = g[r]
    BY DEF SumOf
  <1> HIDE DEF f, g
  <1>4. f[V] = IF V = {} THEN 0 ELSE w[Pick(V)] + f[r]
    BY <1>2 DEF SumsTo
  <1>5. \A s \in SUBSET r : g[s] = f[s]
    <2> HIDE DEF r
    <2> QED
      BY <1>1, <1>2, SumIsUnique
  <1>6. g[r] = f[r]
    BY <1>5
  <1> QED
    BY <1>3, <1>4, <1>6

\* The order does not matter: any element may be the first.
LEMMA SumTakes ==
  ASSUME NEW V, IsFiniteSet(V), NEW w, \A x \in V : w[x] \in Nat
  PROVE  /\ SumOf(w, V) \in Nat
         /\ \A x \in V : SumOf(w, V) = w[x] + SumOf(w, V \ {x})
  <1> DEFINE Fine(S) == /\ SumOf(w, S) \in Nat
                        /\ \A x \in S : SumOf(w, S) = w[x] + SumOf(w, S \ {x})
             Bad == {S \in SUBSET V : ~Fine(S)}
             T == {Cardinality(S) : S \in Bad}
  <1>1. \A S \in SUBSET V : IsFiniteSet(S) /\ Cardinality(S) \in Nat
    BY FS_Subset, FS_CardinalityType
  <1>2. ASSUME Bad # {} PROVE FALSE
    <2>1. T \subseteq Nat /\ T # {}
      <3> HIDE DEF Fine
      <3> QED
        BY <1>1, <1>2
    <2> HIDE DEF T
    <2>2. PICK n \in T : \A k \in T : n <= k
      BY <2>1, Least
    <2>3. PICK S \in SUBSET V : ~Fine(S) /\ n = Cardinality(S)
      <3> HIDE DEF Fine
      <3> QED
        BY <2>2 DEF T
    <2>4. n \in Nat /\ IsFiniteSet(S)
      BY <1>1, <2>3
    <2>5. ASSUME NEW R, R \subseteq S, R # S PROVE Fine(R)
      <3>1. R \in SUBSET V /\ Cardinality(R) \in Nat /\ Cardinality(R) <= n /\ Cardinality(R) # n
        BY <1>1, <2>3, <2>4, <2>5, FS_Subset
      <3>2. Cardinality(R) \notin T
        BY <2>1, <2>2, <2>4, <3>1
      <3> HIDE DEF Fine
      <3> QED
        BY <3>1, <3>2 DEF T
    <2> DEFINE c == Pick(S)
               R(x) == S \ {x}
    <2>7. CASE S = {}
      <3>1. SumOf(w, S) = 0
        BY <2>4, <2>7, SumPicks
      <3> QED
        BY <2>3, <2>7, <3>1
    <2>8. CASE S # {}
      <3>1. c \in S /\ SumOf(w, S) = w[c] + SumOf(w, R(c))
        BY <2>4, <2>8, SumPicks, PickIs
      <3> HIDE DEF c
      <3>2. \A x \in S : Fine(R(x))
        <4> HIDE DEF Fine
        <4> QED
          BY <2>5
      <3>3. SumOf(w, S) \in Nat
        BY <2>3, <3>1, <3>2
      <3>4. ASSUME NEW x \in S, x # c PROVE SumOf(w, S) = w[x] + SumOf(w, R(x))
        <4> DEFINE Q == (S \ {c}) \ {x}
        <4>1. Q = R(x) \ {c} /\ Q = R(c) \ {x} /\ x \in R(c) /\ c \in R(x)
          BY <3>1, <3>4
        <4>2. SumOf(w, R(c)) = w[x] + SumOf(w, Q)
          BY <3>1, <3>2, <4>1
        <4>3. SumOf(w, R(x)) = w[c] + SumOf(w, Q)
          BY <3>2, <3>4, <4>1
        <4>4. SumOf(w, Q) \in Nat
          <5>1. Q \subseteq S /\ Q # S
            BY <3>1
          <5> HIDE DEF Q
          <5> QED
            BY <2>5, <5>1
        <4>5. w[x] \in Nat /\ w[c] \in Nat
          BY <2>3, <3>1, <3>4
        <4> QED
          BY <3>1, <4>2, <4>3, <4>4, <4>5
      <3> QED
        BY <2>3, <3>1, <3>3, <3>4
    <2> QED
      BY <2>7, <2>8
  <1>3. Fine(V)
    <2> HIDE DEF Fine
    <2> QED
      BY <1>2
  <1> QED
    BY <1>3

\* A part sums up to less.
LEMMA SumOfPart ==
  ASSUME NEW V, IsFiniteSet(V), NEW w, \A x \in V : w[x] \in Nat, NEW S, S \subseteq V
  PROVE  SumOf(w, S) \in Nat /\ SumOf(w, V) \in Nat /\ SumOf(w, S) <= SumOf(w, V)
  <1> DEFINE Less(R) == SumOf(w, S) <= SumOf(w, R)
             Bad == {R \in SUBSET V : S \subseteq R /\ ~Less(R)}
             T == {Cardinality(R) : R \in Bad}
  <1>1. \A R \in SUBSET V : /\ IsFiniteSet(R) /\ Cardinality(R) \in Nat
                            /\ \A x \in R : Cardinality(R \ {x}) = Cardinality(R) - 1
    BY FS_Subset, FS_CardinalityType, FS_RemoveElement
  <1>2. \A R \in SUBSET V : /\ SumOf(w, R) \in Nat
                            /\ \A x \in R : SumOf(w, R) = w[x] + SumOf(w, R \ {x})
    <2>1. SUFFICES ASSUME NEW R \in SUBSET V
          PROVE  /\ SumOf(w, R) \in Nat
                 /\ \A x \in R : SumOf(w, R) = w[x] + SumOf(w, R \ {x})
      OBVIOUS
    <2>2. IsFiniteSet(R) /\ \A x \in R : w[x] \in Nat
      BY <1>1
    <2> QED
      BY <2>2, SumTakes
  <1>3. ASSUME Bad # {} PROVE FALSE
    <2>1. T \subseteq Nat /\ T # {}
      <3> HIDE DEF Less
      <3> QED
        BY <1>1, <1>3
    <2> HIDE DEF T
    <2>2. PICK n \in T : \A k \in T : n <= k
      BY <2>1, Least
    <2>3. PICK R \in SUBSET V : S \subseteq R /\ ~Less(R) /\ n = Cardinality(R)
      <3> HIDE DEF Less
      <3> QED
        BY <2>2 DEF T
    <2>4. S # R
      BY <1>2, <2>3
    <2>5. PICK x \in R : x \notin S
      BY <2>3, <2>4
    <2> DEFINE Q == R \ {x}
    <2>6. Q \in SUBSET V /\ S \subseteq Q /\ Cardinality(Q) = n - 1 /\ n \in Nat
      BY <1>1, <2>3, <2>5
    <2>7. SumOf(w, R) = w[x] + SumOf(w, Q) /\ w[x] \in Nat /\ SumOf(w, Q) \in Nat
      BY <1>2, <2>3, <2>5, <2>6
    <2> HIDE DEF Q
    <2>8. Less(Q)
      <3>1. SUFFICES ASSUME ~Less(Q) PROVE FALSE
        OBVIOUS
      <3>2. n - 1 \in T
        <4> HIDE DEF Less
        <4> QED
          BY <2>6, <3>1 DEF T
      <3> QED
        BY <2>2, <2>6, <3>2
    <2>9. SumOf(w, S) \in Nat
      BY <1>2
    <2> QED
      BY <2>3, <2>7, <2>8, <2>9
  <1> QED
    BY <1>2, <1>3

\* What MapThenSumSet computes.
LEMMA TotalIs ==
  ASSUME NEW S, IsFiniteSet(S)
  PROVE  MapThenSumSet(LAMBDA t : t.amount, S) = SumOf([t \in S |-> t.amount], S)
  <1> DEFINE w == [t \in S |-> t.amount]
             Is(f) == f = [s \in SUBSET S |-> IF s = {} THEN 0 ELSE Pick(s).amount + f[s \ {Pick(s)}]]
  <1>1. MapThenSumSet(LAMBDA t : t.amount, S) = (CHOOSE h : Is(h))[S]
    BY DEF MapThenSumSet, MapThenFoldSet, Pick
  <1>2. \A s \in SUBSET S : s # {} => Pick(s) \in S /\ w[Pick(s)] = Pick(s).amount
    BY DEF Pick
  <1>3. \A f : Is(f) <=> SumsTo(f, w, S)
    <2> HIDE DEF w
    <2> QED
      BY <1>2 DEF SumsTo
  <1>4. SumsTo(CHOOSE h : SumsTo(h, w, S), w, S)
    BY SumOfIs
  <1>5. \E f : Is(f)
    <2> HIDE DEF w, Is
    <2> QED
      BY <1>3, <1>4
  <1>6. Is(CHOOSE h : Is(h))
    BY <1>5
  <1> DEFINE f == CHOOSE h : Is(h)
             g == CHOOSE h : SumsTo(h, w, S)
  <1>7. SumsTo(f, w, S) /\ SumsTo(g, w, S)
    <2> HIDE DEF w, Is
    <2> QED
      BY <1>3, <1>4, <1>6
  <1>8. SumOf(w, S) = g[S]
    BY DEF SumOf
  <1> HIDE DEF f, g, w
  <1>9. \A s \in SUBSET S : g[s] = f[s]
    BY <1>7, SumIsUnique
  <1> QED
    BY <1>1, <1>8, <1>9 DEF f, w

----------------------------------------------------------------------------
(* What is executed of an order, over a set of executions.                  *)

Of(T, x) == {t \in T : x \in {t.submitted, t.counter}}

IsTrades(T) == IsFiniteSet(T) /\ \A t \in T : t.amount \in Nat

Amounts(T) == [t \in T |-> t.amount]

Total(T, x) == SumOf(Amounts(Of(T, x)), Of(T, x))

\* More executions add up to more.
LEMMA TotalOfPart ==
  ASSUME NEW T, IsTrades(T), NEW x, NEW S, S \subseteq Of(T, x)
  PROVE  /\ IsFiniteSet(S) /\ SumOf(Amounts(S), S) \in Nat
         /\ Total(T, x) \in Nat /\ SumOf(Amounts(S), S) <= Total(T, x)
  <1> DEFINE V == Of(T, x)
             w == Amounts(V)
  <1>1. V \subseteq T
    BY DEF Of
  <1>2. IsFiniteSet(V) /\ \A t \in V : w[t] = t.amount /\ t.amount \in Nat
    BY <1>1, FS_Subset DEF IsTrades, Amounts
  <1>3. Total(T, x) = SumOf(w, V)
    BY DEF Total
  <1> HIDE DEF V, w
  <1>4. S \subseteq V
    BY DEF V
  <1>5. IsFiniteSet(S) /\ \A t \in S : Amounts(S)[t] = w[t]
    BY <1>2, <1>4, FS_Subset DEF Amounts
  <1>6. SumOf(Amounts(S), S) = SumOf(w, S)
    <2> DEFINE v == Amounts(S)
    <2>1. \A t \in S : v[t] = w[t]
      BY <1>5
    <2> HIDE DEF v
    <2>2. SumOf(v, S) = SumOf(w, S)
      BY <1>5, <2>1, SumIsSame
    <2> QED
      BY <2>2 DEF v
  <1>7. SumOf(w, S) \in Nat /\ SumOf(w, V) \in Nat /\ SumOf(w, S) <= SumOf(w, V)
    BY <1>2, <1>4, SumOfPart
  <1> QED
    BY <1>3, <1>5, <1>6, <1>7

\* What is executed of an order is a number.
LEMMA TotalIsNat ==
  ASSUME NEW T, IsTrades(T), NEW x
  PROVE  Total(T, x) \in Nat
  BY TotalOfPart

\* One more execution adds at most its amount, and only to its own orders.
LEMMA OneMoreTrade ==
  ASSUME NEW T, IsTrades(T), NEW x, NEW t, t.amount \in Nat
  PROVE  /\ IsTrades(T \cup {t})
         /\ Total(T \cup {t}, x) \in Nat /\ Total(T, x) \in Nat
         /\ Total(T \cup {t}, x) <= Total(T, x) + t.amount
         /\ x \notin {t.submitted, t.counter} => Total(T \cup {t}, x) = Total(T, x)
  <1> DEFINE U == T \cup {t}
             V == Of(U, x)
             w == Amounts(V)
  <1>1. IsTrades(U)
    BY FS_AddElement DEF IsTrades
  <1>2. Total(U, x) \in Nat /\ Total(T, x) \in Nat
    BY <1>1, TotalIsNat
  <1>3. x \notin {t.submitted, t.counter} => Of(U, x) = Of(T, x)
    BY DEF Of
  <1>4. ASSUME t \in T PROVE Total(U, x) = Total(T, x)
    BY <1>4 DEF Total, Of
  <1>5. ASSUME t \notin T, x \in {t.submitted, t.counter} PROVE Total(U, x) = t.amount + Total(T, x)
    <2>1. t \in V /\ V \ {t} = Of(T, x) /\ V \subseteq U
      BY <1>5 DEF Of
    <2>2. IsFiniteSet(V) /\ \A s \in V : w[s] = s.amount /\ w[s] \in Nat
      BY <1>1, <2>1, FS_Subset DEF IsTrades, Amounts
    <2>3. Total(U, x) = SumOf(w, V)
      BY DEF Total
    <2> HIDE DEF V, w
    <2>4. SumOf(w, V) = w[t] + SumOf(w, V \ {t})
      BY <2>1, <2>2, SumTakes
    <2>5. SumOf(w, V \ {t}) = Total(T, x)
      <3> DEFINE S == Of(T, x)
                 v == Amounts(S)
      <3>1. S = V \ {t} /\ \A s \in S : w[s] = v[s]
        BY <2>1, <2>2 DEF Amounts
      <3>2. Total(T, x) = SumOf(v, S)
        BY DEF Total
      <3>3. IsFiniteSet(S)
        BY <2>2, <3>1, FS_Subset
      <3> HIDE DEF S, v
      <3>4. SumOf(w, S) = SumOf(v, S)
        BY <3>1, <3>3, SumIsSame
      <3> QED
        BY <3>1, <3>2, <3>4
    <2> QED
      BY <2>1, <2>2, <2>3, <2>4, <2>5
  <1>6. x \notin {t.submitted, t.counter} => Total(U, x) = Total(T, x)
    BY <1>3 DEF Total
  <1> HIDE DEF U
  <1>7. Total(U, x) <= Total(T, x) + t.amount
    BY <1>2, <1>4, <1>5, <1>6
  <1> QED
    BY <1>1, <1>2, <1>6, <1>7 DEF U

\* An execution as its event tells of it.
TradeOf(e) ==
    [submitted |-> e.submitted.order, counter |-> e.counter.order, amount |-> e.amount, ts |-> e.ts]

\* One more event is an execution more or none.
LEMMA ExecutedIs ==
  ASSUME NEW events, events \in Seq({events[i] : i \in DOMAIN events}), NEW e
  PROVE  Executed(Append(events, e)) =
           IF e.type = "executed" THEN Executed(events) \cup {TradeOf(e)} ELSE Executed(events)
  <1> DEFINE more == Append(events, e)
  <1>1. /\ DOMAIN more = 1 .. Len(events) + 1 /\ Len(events) \in Nat
        /\ DOMAIN events = 1 .. Len(events)
        /\ \A i \in 1 .. Len(events) : more[i] = events[i]
        /\ more[Len(events) + 1] = e
    <2>1. events \in Seq({events[i] : i \in DOMAIN events} \cup {e})
      OBVIOUS
    <2> QED
      BY <2>1
  <1> HIDE DEF more
  <1>2. ToSet(more) = ToSet(events) \cup {e}
    <2>1. \A z \in ToSet(more) : z \in ToSet(events) \cup {e}
      BY <1>1 DEF ToSet
    <2>2. \A z \in ToSet(events) \cup {e} : z \in ToSet(more)
      <3>1. \A z \in ToSet(events) : z \in ToSet(more)
        BY <1>1 DEF ToSet
      <3>2. e \in ToSet(more)
        BY <1>1 DEF ToSet
      <3> QED
        BY <3>1, <3>2
    <2> QED
      BY <2>1, <2>2
  <1>3. \A s : Executed(s) = {TradeOf(z) : z \in {y \in ToSet(s) : y.type = "executed"}}
    BY DEF Executed, TradeOf
  <1>4. Executed(more) = IF e.type = "executed" THEN Executed(events) \cup {TradeOf(e)} ELSE Executed(events)
    BY <1>2, <1>3
  <1> QED
    BY <1>4 DEF more

\* What rests of x on a side can still be executed, and no more.
SideFits(T, x, s) == \A i \in DOMAIN s : s[i].order = x => Total(T, x) + s[i].amount <= x.amount

\* Executions T, of orders in A, take no more of x than there is.
TradesFit(T, x, A) ==
    /\ IsTrades(T) /\ Total(T, x) <= x.amount
    /\ \A t \in T : t.submitted \in A /\ t.counter \in A

BookFits(T, x, A, book) ==
    TradesFit(T, x, A) /\ \A side \in {"buy", "sell"} : SideFits(T, x, book[side])

\* The same in the middle of a matching.
PartsFit(T, x, A, submitted, own, counter, events, done) ==
    LET U == T \cup Executed(events) IN
    /\ TradesFit(U, x, A) /\ SideFits(U, x, own) /\ SideFits(U, x, counter)
    /\ ~done /\ submitted.order = x => Total(U, x) + submitted.amount <= x.amount

MatchingFits(T, x, A, m) == PartsFit(T, x, A, m.submitted, m.own, m.counter, m.events, m.done)

\* What is on a side after each of the changes to it.
LEMMA InsertElements ==
  ASSUME NEW A, \A y \in A : ValidOrder(y), NEW when, NEW side,
         NEW s, GoodSide(s, side, A, when), NEW lo \in LimitOrders(A), Rests(lo, side)
  PROVE  \A i \in DOMAIN Insert(s, lo) :
           Insert(s, lo)[i] = lo \/ \E j \in DOMAIN s : Insert(s, lo)[i] = s[j]
  <1> DEFINE k == Cardinality({i \in DOMAIN s : IsAhead(s[i], lo)}) + 1
             t == Insert(s, lo)
  <1>1. s \in Seq(LimitOrders(A)) /\ Len(s) \in Nat /\ DOMAIN s = 1 .. Len(s)
    BY DEF GoodSide
  <1>2. k \in 1 .. Len(s) + 1
    BY AheadAreFirst
  <1>3. t = InsertAt(s, k, lo)
    BY DEF Insert
  <1> HIDE DEF k, t
  <1>4. /\ DOMAIN t = 1 .. Len(s) + 1
        /\ \A i \in 1 .. Len(s) + 1 :
             t[i] = IF i < k THEN s[i] ELSE IF i = k THEN lo ELSE s[i - 1]
    <2>1. /\ DOMAIN InsertAt(s, k, lo) = 1 .. Len(s) + 1
          /\ \A i \in 1 .. Len(s) + 1 :
               InsertAt(s, k, lo)[i] = IF i < k THEN s[i] ELSE IF i = k THEN lo ELSE s[i - 1]
      BY <1>1, <1>2, InsertAtElements
    <2> QED
      BY <1>3, <2>1
  <1>5. SUFFICES ASSUME NEW i \in 1 .. Len(s) + 1, t[i] # lo PROVE \E j \in DOMAIN s : t[i] = s[j]
    BY <1>4 DEF t
  <1>6. CASE i < k
    <2>1. i \in DOMAIN s /\ t[i] = s[i]
      BY <1>1, <1>2, <1>4, <1>6
    <2> QED
      BY <2>1
  <1>7. CASE i > k
    <2>1. i - 1 \in DOMAIN s /\ t[i] = s[i - 1]
      BY <1>1, <1>2, <1>4, <1>7
    <2> QED
      BY <2>1
  <1> QED
    BY <1>1, <1>2, <1>4, <1>5, <1>6, <1>7

\* The best order leaves a side, or what remains of it takes its place.
LEMMA ReplaceElements ==
  ASSUME NEW S, NEW s \in Seq(S), s # <<>>, NEW lo \in S
  PROVE  /\ \A i \in DOMAIN Tail(s) : i + 1 \in DOMAIN s /\ i + 1 # 1 /\ Tail(s)[i] = s[i + 1]
         /\ \A i \in DOMAIN ReplaceBest(s, lo) :
              i \in DOMAIN s /\ (ReplaceBest(s, lo)[i] = lo \/ (i # 1 /\ ReplaceBest(s, lo)[i] = s[i]))
  <1> DEFINE u == ReplaceBest(s, lo)
  <1>1. Len(s) \in Nat /\ DOMAIN s = 1 .. Len(s)
    OBVIOUS
  <1>2. /\ Tail(s) \in Seq(S) /\ Len(Tail(s)) = Len(s) - 1 /\ DOMAIN Tail(s) = 1 .. Len(s) - 1
        /\ \A i \in 1 .. Len(s) - 1 : Tail(s)[i] = s[i + 1]
    BY <1>1
  <1>3. /\ u \in Seq(S) /\ Len(u) = Len(s) /\ DOMAIN u = 1 .. Len(s)
        /\ \A i \in 1 .. Len(s) : u[i] = IF i <= 1 THEN <<lo>>[i] ELSE Tail(s)[i - 1]
    BY <1>1, <1>2 DEF ReplaceBest
  <1> HIDE DEF u
  <1>4. ASSUME NEW i \in DOMAIN u
        PROVE  i \in DOMAIN s /\ (u[i] = lo \/ (i # 1 /\ u[i] = s[i]))
    <2>1. i \in 1 .. Len(s)
      BY <1>3
    <2>2. CASE i = 1
      <3>1. <<lo>>[1] = lo
        OBVIOUS
      <3>2. u[i] = <<lo>>[i] /\ <<lo>>[i] = <<lo>>[1]
        BY <1>3, <2>1, <2>2
      <3>3. u[i] = lo
        BY <3>1, <3>2
      <3> QED
        BY <1>1, <2>1, <3>3
    <2>3. CASE i > 1
      <3>1. u[i] = Tail(s)[i - 1] /\ i - 1 \in 1 .. Len(s) - 1 /\ (i - 1) + 1 = i
        BY <1>1, <1>3, <2>1, <2>3
      <3>2. u[i] = s[i]
        BY <1>2, <3>1
      <3> QED
        BY <1>1, <2>1, <2>3, <3>2
    <2> QED
      BY <1>1, <2>1, <2>2, <2>3
  <1>5. \A i \in DOMAIN Tail(s) : i + 1 \in DOMAIN s /\ i + 1 # 1 /\ Tail(s)[i] = s[i + 1]
    BY <1>1, <1>2
  <1> QED
    BY <1>4, <1>5 DEF u

\* What SideOrders tells of a side.
SideHolds(s, side, A) ==
    /\ \A i \in DOMAIN s : /\ s[i] \in LimitOrders(A) /\ s[i].order \in A
                           /\ s[i].amount \in Nat /\ s[i].order.side = side
    /\ \A i, j \in DOMAIN s : s[i].order = s[j].order => i = j

\* The orders of a side are different from each other, and from those of the
\* other side.
LEMMA SideOrders ==
  ASSUME NEW A, \A y \in A : ValidOrder(y), NEW when, \A y \in A : when[y] \in Int,
         NEW side, NEW s, GoodSide(s, side, A, when)
  PROVE  SideHolds(s, side, A)
  <1>1. \A i \in DOMAIN s : s[i] \in LimitOrders(A) /\ Rests(s[i], side)
    <2>1. s \in Seq(LimitOrders(A)) /\ \A i \in DOMAIN s : Rests(s[i], side)
      BY DEF GoodSide
    <2> QED
      BY <2>1
  <1>2. \A i \in DOMAIN s : /\ s[i] \in LimitOrders(A) /\ s[i].order \in A
                            /\ s[i].amount \in Nat /\ s[i].order.side = side
    BY <1>1 DEF LimitOrders, Rests
  <1>3. DOMAIN s \subseteq Nat
    <2>1. s \in Seq(LimitOrders(A))
      BY DEF GoodSide
    <2> QED
      BY <2>1
  <1>4. ASSUME NEW i \in DOMAIN s, NEW j \in DOMAIN s, s[i].order = s[j].order, i < j PROVE FALSE
    <2>1. s[i].order.price = s[j].order.price => when[s[i].order] < when[s[j].order]
      BY <1>4 DEF GoodSide, InOrder
    <2>2. when[s[i].order] \in Int
      BY <1>2
    <2> QED
      BY <1>4, <2>1, <2>2
  <1>5. ASSUME NEW i \in DOMAIN s, NEW j \in DOMAIN s, s[i].order = s[j].order PROVE i = j
    <2>1. ~(i < j) /\ ~(j < i)
      BY <1>4, <1>5
    <2> QED
      BY <1>3, <2>1
  <1> QED
    BY <1>2, <1>5 DEF SideHolds

\* What is known of x when the submitted s meets the best order of the other side.
Meets(A, when, o, x, U, s, own, counter) ==
    /\ o \in A /\ x \in A /\ TradesFit(U, x, A) /\ s \in LimitOrders({o}) /\ counter # <<>>
    /\ GoodSide(own, o.side, A, when) /\ GoodSide(counter, Opposite(o.side), A, when)
    /\ o \notin OrdersIn(own) /\ SideFits(U, x, own) /\ SideFits(U, x, counter)
    /\ o = x => Total(U, x) + s.amount <= x.amount
    /\ Matchable(s, Head(counter))

\* And after an execution of the two, which makes a set V of them.
Executes(A, x, V, o, left, cLeft, own, counter) ==
    /\ TradesFit(V, x, A) /\ SideFits(V, x, own)
    /\ SideFits(V, x, Tail(counter)) /\ SideFits(V, x, ReplaceBest(counter, cLeft))
    /\ o = x => Total(V, x) + left.amount <= x.amount

\* An execution leaves of an order its amount less.
LEMMA ExecutionFits ==
  ASSUME NEW A, \A y \in A : ValidOrder(y), NEW when, \A y \in A : when[y] \in Int,
         NEW o, NEW x, NEW U, NEW s, NEW own, NEW counter,
         Meets(A, when, o, x, U, s, own, counter),
         NEW t, t.submitted = o, t.counter = Head(counter).order,
         t.amount = ExecutedAmount(s, Head(counter))
  PROVE  Executes(A, x, U \cup {t}, o, Remaining(s, t.amount), Remaining(Head(counter), t.amount),
                  own, counter)
  <1> USE DEF Meets
  <1> DEFINE left == Remaining(s, t.amount)
             cLeft == Remaining(Head(counter), t.amount)
  <1> DEFINE c == Head(counter)
             a == t.amount
             V == U \cup {t}
  <1>1. /\ counter \in Seq(LimitOrders(A)) /\ 1 \in DOMAIN counter /\ c = counter[1]
    BY DEF GoodSide
  <1>2. /\ \A i \in DOMAIN counter : /\ counter[i] \in LimitOrders(A) /\ counter[i].order \in A
                                      /\ counter[i].amount \in Nat /\ counter[i].order.side = Opposite(o.side)
        /\ \A i, j \in DOMAIN counter : counter[i].order = counter[j].order => i = j
    <2>1. SideHolds(counter, Opposite(o.side), A)
      BY SideOrders
    <2> QED
      BY <2>1 DEF SideHolds
  <1>3. \A i \in DOMAIN own : own[i].order.side = o.side /\ own[i].order # o /\ own[i].amount \in Nat
    <2>1. SideHolds(own, o.side, A)
      BY SideOrders
    <2> QED
      BY <2>1 DEF SideHolds, OrdersIn
  <1>4. o.side # Opposite(o.side) /\ x.amount \in Nat
    BY DEF ValidOrder, Opposite, Positive
  <1>5. s.order = o /\ s.amount \in Nat /\ c \in LimitOrders(A) /\ c.order \in A /\ c.amount \in Nat
    BY <1>1, <1>2 DEF LimitOrders
  <1> HIDE DEF c
  <1>6. /\ a \in Nat /\ left.amount = s.amount - a /\ left.amount \in Nat
        /\ cLeft.amount = c.amount - a /\ cLeft.amount \in Nat /\ cLeft.order = c.order
    <2>1. a \in Positive
      BY ExecutedWithinBoth DEF c
    <2>2. \A lo \in {s, c} : /\ Remaining(lo, a).amount = lo.amount - a
                             /\ Remaining(lo, a).amount \in Nat /\ Remaining(lo, a).order = lo.order
      BY ExecutionTakesWhatItExecutes DEF c
    <2> QED
      BY <2>1, <2>2 DEF Positive, c
  <1>7. cLeft \in LimitOrders(A)
    <2>1. c = [order |-> c.order, amount |-> c.amount]
      BY <1>5 DEF LimitOrders
    <2>2. cLeft = [order |-> c.order, amount |-> cLeft.amount]
      BY <2>1 DEF Remaining, c
    <2> QED
      BY <1>5, <1>6, <2>2 DEF LimitOrders
  <1>8. /\ IsTrades(V) /\ Total(V, x) \in Nat /\ Total(U, x) \in Nat
        /\ Total(V, x) <= Total(U, x) + a
        /\ x \notin {o, c.order} => Total(V, x) = Total(U, x)
    <2>1. IsTrades(U)
      BY DEF TradesFit
    <2>2. t.amount \in Nat
      BY <1>6
    <2>3. /\ IsTrades(U \cup {t}) /\ Total(U \cup {t}, x) \in Nat /\ Total(U, x) \in Nat
          /\ Total(U \cup {t}, x) <= Total(U, x) + t.amount
          /\ x \notin {t.submitted, t.counter} => Total(U \cup {t}, x) = Total(U, x)
      BY <2>1, <2>2, OneMoreTrade
    <2> QED
      BY <2>3 DEF c
  <1>9. \A z \in V : z.submitted \in A /\ z.counter \in A
    BY <1>5 DEF TradesFit, c
  <1>10. \A i \in DOMAIN Tail(counter) : \E j \in DOMAIN counter : j # 1 /\ Tail(counter)[i] = counter[j]
    BY <1>1, <1>7, ReplaceElements
  <1> DEFINE best == ReplaceBest(counter, cLeft)
  <1>11. \A i \in DOMAIN best : best[i] = cLeft \/ \E j \in DOMAIN counter : j # 1 /\ best[i] = counter[j]
    BY <1>1, <1>7, ReplaceElements
  <1> HIDE DEF best, V, a
  <1>12. Total(U, x) <= x.amount
    BY DEF TradesFit
  <1>13. \A j \in DOMAIN counter : j # 1 => counter[j].order # c.order
    BY <1>1, <1>2
  <1>14. /\ Total(V, x) <= x.amount
         /\ SideFits(V, x, own) /\ SideFits(V, x, Tail(counter)) /\ SideFits(V, x, best)
         /\ o = x => Total(V, x) + left.amount <= x.amount
    <2>1. CASE x = o
      <3>1. Total(V, x) + left.amount <= x.amount
        BY <1>4, <1>5, <1>6, <1>8, <2>1
      <3>2. Total(V, x) <= x.amount
        BY <1>4, <1>6, <1>8, <3>1
      <3>3. \A j \in DOMAIN counter : counter[j].order # x
        BY <1>2, <1>4, <2>1
      <3>4. c.order # x
        BY <1>1, <3>3
      <3>5. SideFits(V, x, own)
        BY <1>3, <2>1 DEF SideFits
      <3>6. SideFits(V, x, Tail(counter))
        BY <1>10, <3>3 DEF SideFits
      <3>7. SideFits(V, x, best)
        BY <1>6, <1>11, <3>3, <3>4 DEF SideFits
      <3> QED
        BY <3>1, <3>2, <3>5, <3>6, <3>7
    <2>2. CASE x = c.order /\ x # o
      <3>1. Total(U, x) + c.amount <= x.amount
        BY <1>1, <2>2 DEF SideFits
      <3>2. Total(V, x) + cLeft.amount <= x.amount
        BY <1>4, <1>5, <1>6, <1>8, <3>1
      <3>3. Total(V, x) <= x.amount
        BY <1>4, <1>6, <1>8, <3>2
      <3>4. SideFits(V, x, own)
        <4>1. x.side = Opposite(o.side)
          BY <1>1, <1>2, <2>2
        <4> QED
          BY <1>3, <1>4, <4>1 DEF SideFits
      <3>5. \A j \in DOMAIN counter : j # 1 => counter[j].order # x
        BY <1>13, <2>2
      <3>6. SideFits(V, x, Tail(counter))
        BY <1>10, <3>5 DEF SideFits
      <3>7. SideFits(V, x, best)
        BY <1>11, <3>2, <3>5 DEF SideFits
      <3> QED
        BY <2>2, <3>3, <3>4, <3>6, <3>7
    <2>3. CASE x # c.order /\ x # o
      <3>1. Total(V, x) = Total(U, x)
        BY <1>8, <2>3
      <3>2. SideFits(V, x, own)
        BY <3>1 DEF SideFits
      <3>3. \A j \in DOMAIN counter : counter[j].order = x => Total(V, x) + counter[j].amount <= x.amount
        BY <3>1 DEF SideFits
      <3>4. SideFits(V, x, Tail(counter))
        BY <1>10, <3>3 DEF SideFits
      <3>5. SideFits(V, x, best)
        BY <1>6, <1>11, <2>3, <3>3 DEF SideFits
      <3> QED
        BY <1>12, <2>3, <3>1, <3>2, <3>4, <3>5
    <2> QED
      BY <2>1, <2>2, <2>3
  <1> QED
    BY <1>8, <1>9, <1>14 DEF TradesFit, Executes, best, V, c

\* Events stay events.
LEMMA MoreEvents ==
  ASSUME NEW events, events \in Seq({events[i] : i \in DOMAIN events}), NEW e
  PROVE  LET more == Append(events, e) IN more \in Seq({more[i] : i \in DOMAIN more})
  <1> DEFINE more == Append(events, e)
             S == {more[i] : i \in DOMAIN more}
  <1>1. more \in Seq({events[i] : i \in DOMAIN events} \cup {e})
    <2>1. events \in Seq({events[i] : i \in DOMAIN events} \cup {e})
      OBVIOUS
    <2> QED
      BY <2>1
  <1> HIDE DEF more
  <1>2. more = [i \in 1 .. Len(more) |-> more[i]] /\ Len(more) \in Nat /\ DOMAIN more = 1 .. Len(more)
    BY <1>1
  <1>3. \A i \in 1 .. Len(more) : more[i] \in S
    BY <1>2
  <1> HIDE DEF S
  <1>4. more \in [1 .. Len(more) -> S]
    BY <1>2, <1>3
  <1>5. more \in Seq(S)
    BY <1>2, <1>4
  <1> QED
    BY <1>5 DEF more, S

\* The branch that executes.
LEMMA ExecuteFits ==
  ASSUME NEW A, \A y \in A : ValidOrder(y), NEW when, \A y \in A : when[y] \in Int,
         NEW o \in A, NEW x \in A, NEW T, NEW ts,
         NEW m, GoodMatching(m, o, A, when), ~m.done, MatchingFits(T, x, A, m),
         m.counter # <<>>, IsValidAt(m.submitted, Head(m.counter).order.price)
  PROVE  MatchingFits(T, x, A, Execute(m, ts))
  <1> DEFINE s == m.submitted
             c == Head(m.counter)
             z == OrderExecuted(s, c, ts)
             amount == ExecutedAmount(s, c)
             cLeft == Remaining(c, amount)
             left == Remaining(s, amount)
             ev == Append(m.events, z)
             n == Execute(m, ts)
             U == T \cup Executed(m.events)
             t == TradeOf(z)
             V == U \cup {t}
  <1>1. /\ m = [submitted |-> m.submitted, own |-> m.own, counter |-> m.counter,
                events |-> m.events, done |-> m.done]
        /\ GoodParts(m.submitted, m.own, m.counter, m.events, m.done, o, A, when)
    BY DEF GoodMatching
  <1>2. s \in LimitOrders({o}) /\ s \in LimitOrders(A) /\ s.order = o /\ Rests(s, o.side)
    BY <1>1 DEF GoodParts, LimitOrders
  <1>3. c \in LimitOrders(A) /\ Rests(c, Opposite(o.side))
    BY <1>1, GoodTail DEF GoodParts
  <1>4. Matchable(s, c)
    <2>1. IsLimitOrder(s) /\ IsLimitOrder(c) /\ IsValid(c)
      BY <1>2, <1>3, RestsIsValid
    <2> QED
      BY <2>1 DEF Matchable
  <1>5. t.submitted = o /\ t.counter = c.order /\ t.amount = amount /\ z.type = "executed"
    BY <1>2 DEF TradeOf, OrderExecuted
  <1>6. /\ TradesFit(U, x, A) /\ SideFits(U, x, m.own) /\ SideFits(U, x, m.counter)
        /\ o = x => Total(U, x) + s.amount <= x.amount
    BY <1>2 DEF MatchingFits, PartsFit
  <1>7. /\ TradesFit(V, x, A) /\ SideFits(V, x, m.own)
        /\ SideFits(V, x, Tail(m.counter)) /\ SideFits(V, x, ReplaceBest(m.counter, cLeft))
        /\ o = x => Total(V, x) + left.amount <= x.amount
    <2>1. /\ GoodSide(m.own, o.side, A, when) /\ GoodSide(m.counter, Opposite(o.side), A, when)
          /\ o \notin OrdersIn(m.own)
      BY <1>1 DEF GoodParts
    <2>2. left = Remaining(s, t.amount) /\ cLeft = Remaining(c, t.amount) /\ t.amount = ExecutedAmount(s, c)
      BY <1>5
    <2> HIDE DEF left, cLeft, t, U, s, amount
    <2>3. Meets(A, when, o, x, U, s, m.own, m.counter)
      BY <1>2, <1>4, <1>6, <2>1 DEF Meets
    <2>4. Executes(A, x, U \cup {t}, o, Remaining(s, t.amount), Remaining(c, t.amount), m.own, m.counter)
      BY <1>5, <2>2, <2>3, ExecutionFits
    <2> QED
      BY <2>2, <2>4 DEF Executes
  <1>8. m.events \in Seq({m.events[i] : i \in DOMAIN m.events})
    BY <1>1 DEF GoodParts
  <1>9. T \cup Executed(ev) = V
    <2> HIDE DEF z
    <2>1. Executed(ev) = Executed(m.events) \cup {t}
      BY <1>5, <1>8, ExecutedIs
    <2> QED
      BY <2>1
  <1>10. left.order = o
    BY <1>2, <1>4, ExecutionTakesWhatItExecutes
  <1>11. CASE IsValid(cLeft)
    <2> DEFINE e == OrderCanceled(left, TRUE)
               ev2 == IF IsValid(left) THEN Append(ev, e) ELSE ev
               counter == ReplaceBest(m.counter, cLeft)
    <2>1. n = [submitted |-> left, own |-> m.own, counter |-> counter, events |-> ev2, done |-> TRUE]
      <3> DEFINE n1 == [m EXCEPT !.submitted = left, !.events = Append(@, z)]
      <3>1. n1 = [submitted |-> left, own |-> m.own, counter |-> m.counter, events |-> ev,
                  done |-> m.done]
        <4>1. n1 = [m EXCEPT !.submitted = left, !.events = ev]
          OBVIOUS
        <4> HIDE DEF n1, left, z, ev
        <4> QED
          BY <1>1, <4>1, MatchingExcept
      <3>2. n = [n1 EXCEPT !.counter = ReplaceBest(@, cLeft), !.done = TRUE,
                           !.events = IF IsValid(left) THEN Append(@, e) ELSE @]
        BY <1>11 DEF Execute, OrderExecuted
      <3>3. n = [n1 EXCEPT !.counter = counter, !.done = TRUE, !.events = ev2]
        <4> HIDE DEF n1, n, left, cLeft, ev, e, z
        <4> QED
          BY <3>1, <3>2
      <3> HIDE DEF n1, n, left, cLeft, ev, ev2, counter
      <3> QED
        BY <3>1, <3>3, MatchingExcept
    <2>2. Executed(ev2) = Executed(ev)
      <3>1. e.type = "canceled"
        BY DEF OrderCanceled
      <3>2. ev \in Seq({ev[i] : i \in DOMAIN ev})
        <4> HIDE DEF z
        <4> QED
          BY <1>8, MoreEvents
      <3> HIDE DEF ev, e
      <3>3. Executed(Append(ev, e)) = Executed(ev)
        BY <3>1, <3>2, ExecutedIs
      <3> QED
        BY <3>3
    <2> HIDE DEF n, left, ev2, ev, counter, V
    <2>3. T \cup Executed(ev2) = V
      BY <1>9, <2>2
    <2>4. PartsFit(T, x, A, left, m.own, counter, ev2, TRUE)
      BY <1>7, <2>3 DEF PartsFit, counter
    <2>5. /\ n.submitted = left /\ n.own = m.own /\ n.counter = counter /\ n.events = ev2
          /\ n.done = TRUE
      BY <2>1
    <2> QED
      BY <2>4, <2>5 DEF MatchingFits, n
  <1>12. CASE ~IsValid(cLeft)
    <2> DEFINE done == ~IsValid(left)
    <2>1. n = [submitted |-> left, own |-> m.own, counter |-> Tail(m.counter), events |-> ev,
               done |-> done]
      <3> DEFINE n1 == [m EXCEPT !.submitted = left, !.events = Append(@, z)]
      <3>1. n1 = [submitted |-> left, own |-> m.own, counter |-> m.counter, events |-> ev,
                  done |-> m.done]
        <4>1. n1 = [m EXCEPT !.submitted = left, !.events = ev]
          OBVIOUS
        <4> HIDE DEF n1, left, z, ev
        <4> QED
          BY <1>1, <4>1, MatchingExcept
      <3>2. n = [n1 EXCEPT !.counter = Tail(@), !.done = done]
        BY <1>12 DEF Execute, OrderExecuted
      <3>3. n = [n1 EXCEPT !.counter = Tail(m.counter), !.done = done]
        <4> HIDE DEF n1, n, left, cLeft, ev, z, done
        <4> QED
          BY <3>1, <3>2
      <3> HIDE DEF n1, n, left, cLeft, ev, z, done
      <3> QED
        BY <3>1, <3>3, MatchingExcept
    <2> HIDE DEF n, left, ev, done, V
    <2>2. PartsFit(T, x, A, left, m.own, Tail(m.counter), ev, done)
      BY <1>7, <1>9, <1>10 DEF PartsFit
    <2>3. /\ n.submitted = left /\ n.own = m.own /\ n.counter = Tail(m.counter) /\ n.events = ev
          /\ n.done = done
      BY <2>1
    <2> QED
      BY <2>2, <2>3 DEF MatchingFits, n
  <1> QED
    BY <1>11, <1>12

\* Any turn.
LEMMA TurnFits ==
  ASSUME NEW A, \A y \in A : ValidOrder(y), NEW when, \A y \in A : when[y] \in Int,
         NEW o \in A, NEW x \in A, NEW T, NEW ts,
         NEW m, GoodMatching(m, o, A, when), ~m.done, MatchingFits(T, x, A, m)
  PROVE  MatchingFits(T, x, A, DoMatch(m, ts))
  <1> DEFINE n == DoMatch(m, ts)
             c == Head(m.counter)
             U == T \cup Executed(m.events)
  <1>1. /\ m = [submitted |-> m.submitted, own |-> m.own, counter |-> m.counter,
                events |-> m.events, done |-> m.done]
        /\ GoodParts(m.submitted, m.own, m.counter, m.events, m.done, o, A, when)
    BY DEF GoodMatching
  <1>2. /\ m.submitted \in LimitOrders(A) /\ m.submitted.order = o /\ Rests(m.submitted, o.side)
        /\ GoodSide(m.own, o.side, A, when) /\ GoodSide(m.counter, Opposite(o.side), A, when)
        /\ m.events \in Seq({m.events[i] : i \in DOMAIN m.events})
    BY <1>1 DEF GoodParts, LimitOrders
  <1>3. /\ TradesFit(U, x, A) /\ SideFits(U, x, m.own) /\ SideFits(U, x, m.counter)
        /\ o = x => Total(U, x) + m.submitted.amount <= x.amount
    BY <1>2 DEF MatchingFits, PartsFit
  <1>4. ASSUME NEW e, e.type # "executed" PROVE T \cup Executed(Append(m.events, e)) = U
    BY <1>2, <1>4, ExecutedIs
  <1>5. \A lo, unmatchable : OrderCanceled(lo, unmatchable).type # "executed"
    BY DEF OrderCanceled
  <1>6. ASSUME NEW e, e.type # "executed",
               n = [m EXCEPT !.events = Append(m.events, e), !.done = TRUE]
        PROVE  MatchingFits(T, x, A, n)
    <2> DEFINE ev == Append(m.events, e)
    <2>1. T \cup Executed(ev) = U
      BY <1>4, <1>6
    <2>2. n = [m EXCEPT !.events = ev, !.done = TRUE]
      BY <1>6
    <2> HIDE DEF n, ev, U
    <2>3. n = [submitted |-> m.submitted, own |-> m.own, counter |-> m.counter,
               events |-> ev, done |-> TRUE]
      BY <1>1, <2>2, MatchingExcept
    <2>4. PartsFit(T, x, A, m.submitted, m.own, m.counter, ev, TRUE)
      BY <1>3, <2>1 DEF PartsFit
    <2>5. /\ n.submitted = m.submitted /\ n.own = m.own /\ n.counter = m.counter
          /\ n.events = ev /\ n.done = TRUE
      BY <2>3
    <2> QED
      BY <2>4, <2>5 DEF MatchingFits
  <1>7. CASE Expired(m.submitted, ts)
    <2> DEFINE e == OrderCanceled(m.submitted, FALSE)
    <2>1. n = [m EXCEPT !.events = Append(m.events, e), !.done = TRUE]
      BY <1>7 DEF DoMatch
    <2>2. e.type # "executed"
      BY <1>5
    <2> HIDE DEF n, e
    <2>3. MatchingFits(T, x, A, n)
      BY <1>6, <2>1, <2>2
    <2> QED
      BY <2>3 DEF n
  <1>8. CASE ~Expired(m.submitted, ts) /\ (m.counter = <<>> \/ ~CanMatch(m.submitted, c))
    <2> DEFINE e == OrderAdded(m.submitted)
               ev == Append(m.events, e)
               own == Insert(m.own, m.submitted)
               k == [m EXCEPT !.events = ev, !.done = TRUE]
    <2>1. n = [k EXCEPT !.own = own]
      <3>1. k.own = m.own
        BY <1>1
      <3>2. n = [k EXCEPT !.own = Insert(@, m.submitted)]
        BY <1>8 DEF DoMatch
      <3> HIDE DEF k, n
      <3> QED
        BY <3>1, <3>2
    <2>2. n = [submitted |-> m.submitted, own |-> own, counter |-> m.counter,
               events |-> ev, done |-> TRUE]
      <3> HIDE DEF ev, own
      <3>1. k = [submitted |-> m.submitted, own |-> m.own, counter |-> m.counter,
                 events |-> ev, done |-> TRUE]
        <4>1. k = [m EXCEPT !.events = ev, !.done = TRUE]
          OBVIOUS
        <4> HIDE DEF k
        <4> QED
          BY <1>1, <4>1, MatchingExcept
      <3> HIDE DEF k, n
      <3> QED
        BY <2>1, <3>1, MatchingExcept
    <2>3. T \cup Executed(ev) = U
      <3>1. e.type # "executed"
        BY DEF OrderAdded
      <3> HIDE DEF e, U
      <3> QED
        BY <1>4, <3>1
    <2>4. \A i \in DOMAIN own : own[i] = m.submitted \/ \E j \in DOMAIN m.own : own[i] = m.own[j]
      BY <1>2, InsertElements
    <2> HIDE DEF n, ev, own, U
    <2>5. SideFits(U, x, own)
      BY <1>2, <1>3, <2>4 DEF SideFits
    <2>6. PartsFit(T, x, A, m.submitted, own, m.counter, ev, TRUE)
      BY <1>3, <2>3, <2>5 DEF PartsFit
    <2>7. /\ n.submitted = m.submitted /\ n.own = own /\ n.counter = m.counter
          /\ n.events = ev /\ n.done = TRUE
      BY <2>2
    <2> QED
      BY <2>6, <2>7 DEF MatchingFits, n
  <1>9. CASE /\ ~Expired(m.submitted, ts) /\ m.counter # <<>> /\ CanMatch(m.submitted, c)
             /\ ~IsValidAt(m.submitted, c.order.price)
    <2> DEFINE e == OrderCanceled(m.submitted, TRUE)
    <2>1. n = [m EXCEPT !.events = Append(m.events, e), !.done = TRUE]
      BY <1>9 DEF DoMatch
    <2>2. e.type # "executed"
      BY <1>5
    <2> HIDE DEF n, e
    <2>3. MatchingFits(T, x, A, n)
      BY <1>6, <2>1, <2>2
    <2> QED
      BY <2>3 DEF n
  <1>10. CASE /\ ~Expired(m.submitted, ts) /\ m.counter # <<>> /\ CanMatch(m.submitted, c)
              /\ IsValidAt(m.submitted, c.order.price) /\ Expired(c, ts)
    <2> DEFINE e == OrderCanceled(c, FALSE)
               ev == Append(m.events, e)
    <2>1. n = [m EXCEPT !.counter = Tail(m.counter), !.events = ev]
      BY <1>10 DEF DoMatch
    <2>2. T \cup Executed(ev) = U
      <3>1. e.type # "executed"
        BY <1>5
      <3> HIDE DEF e, U
      <3> QED
        BY <1>4, <3>1
    <2>3. SideFits(U, x, Tail(m.counter))
      <3>1. m.counter \in Seq(LimitOrders(A))
        BY <1>2 DEF GoodSide
      <3>2. \A i \in DOMAIN Tail(m.counter) : \E j \in DOMAIN m.counter : Tail(m.counter)[i] = m.counter[j]
        BY <1>2, <1>10, <3>1, ReplaceElements
      <3> HIDE DEF U
      <3> QED
        BY <1>3, <3>2 DEF SideFits
    <2> HIDE DEF ev, n, U
    <2>4. n = [submitted |-> m.submitted, own |-> m.own, counter |-> Tail(m.counter),
               events |-> ev, done |-> m.done]
      BY <1>1, <2>1, MatchingExcept
    <2>5. PartsFit(T, x, A, m.submitted, m.own, Tail(m.counter), ev, m.done)
      BY <1>2, <1>3, <2>2, <2>3 DEF PartsFit
    <2>6. /\ n.submitted = m.submitted /\ n.own = m.own /\ n.counter = Tail(m.counter)
          /\ n.events = ev /\ n.done = m.done
      BY <2>4
    <2> QED
      BY <2>5, <2>6 DEF MatchingFits, n
  <1>11. CASE /\ ~Expired(m.submitted, ts) /\ m.counter # <<>> /\ CanMatch(m.submitted, c)
              /\ IsValidAt(m.submitted, c.order.price) /\ ~Expired(c, ts)
    <2>1. n = Execute(m, ts)
      BY <1>11 DEF DoMatch
    <2>2. MatchingFits(T, x, A, Execute(m, ts))
      BY <1>11, ExecuteFits
    <2> QED
      BY <2>1, <2>2
  <1> QED
    BY <1>7, <1>8, <1>9, <1>10, <1>11

\* Before o is matched what there is fits, and nothing of o was executed.
Ready(T, x, o, A, book) ==
    /\ TradesFit(T, x, A)
    /\ x # o => \A side \in {"buy", "sell"} : SideFits(T, x, book[side])
    /\ x = o => Of(T, o) = {}

\* A whole matching.
LEMMA MatchingFitsAtEnd ==
  ASSUME NEW A, \A y \in A : ValidOrder(y), NEW when, \A y \in A : when[y] \in Int,
         NEW book, GoodBook(book, A, when), NEW o, Newest(o, book, A, when),
         NEW x \in A, NEW T, Ready(T, x, o, A, book), NEW ts
  PROVE  MatchingFits(T, x, A, Turns(book, o, ts)[Len(book[Opposite(o.side)]) + 1])
  <1> DEFINE own == book[o.side]
             counter == book[Opposite(o.side)]
             N == Len(counter) + 1
             t == Turns(book, o, ts)
             first == Matching(LimitOrder(o), own, counter)
             Fine(i) == GoodMatching(t[i], o, A, when) /\ MatchingFits(T, x, A, t[i])
             Bad == {i \in 0 .. N : ~Fine(i)}
  <1>1. ValidOrder(o) /\ o \in A /\ (\A y \in A \ {o} : when[y] < when[o]) /\ o \notin OrdersIn(own)
    BY DEF Newest
  <1>2. /\ o.side \in {"buy", "sell"} /\ Opposite(o.side) \in {"buy", "sell"} /\ o.side # Opposite(o.side)
        /\ o.amount \in Nat
    BY <1>1 DEF ValidOrder, Opposite, Positive
  <1>3. GoodSide(own, o.side, A, when) /\ GoodSide(counter, Opposite(o.side), A, when)
    BY <1>2 DEF GoodBook
  <1>4. Len(counter) \in Nat
    <2>1. counter \in Seq(LimitOrders(A))
      BY <1>3 DEF GoodSide
    <2> QED
      BY <2>1
  <1>5. N \in Nat
    BY <1>4
  <1>6. t = [i \in 0 .. N |-> IF i = 0 THEN first ELSE Turn(t[i - 1], ts)]
    BY <1>4, TurnsAre
  <1>7. GoodMatching(first, o, A, when)
    BY MatchingStartsGood
  <1>8. MatchingFits(T, x, A, first)
    <2>1. /\ first.submitted = LimitOrder(o) /\ first.own = own /\ first.counter = counter
          /\ first.events = <<>> /\ first.done = FALSE
      BY DEF Matching
    <2>2. T \cup Executed(<<>>) = T
      BY DEF Executed, ToSet
    <2>3. LimitOrder(o).amount = o.amount /\ LimitOrder(o).order = o
      BY DEF LimitOrder
    <2>4. CASE x = o
      <3>1. Total(T, o) = 0
        <4>1. Of(T, o) = {}
          BY <2>4 DEF Ready
        <4>2. \A w : SumOf(w, {}) = 0
          BY FS_EmptySet, SumPicks
        <4> QED
          BY <4>1, <4>2 DEF Total
      <3>2. o \notin OrdersIn(counter)
        <4>1. SideHolds(counter, Opposite(o.side), A)
          BY <1>3, SideOrders
        <4> HIDE DEF counter
        <4>2. \A i \in DOMAIN counter : counter[i].order # o
          BY <1>2, <4>1 DEF SideHolds
        <4> QED
          BY <4>2 DEF OrdersIn
      <3> HIDE DEF own, counter, first
      <3>3. SideFits(T, x, own) /\ SideFits(T, x, counter)
        BY <1>1, <2>4, <3>2 DEF SideFits, OrdersIn
      <3>4. Total(T, x) + LimitOrder(o).amount <= x.amount
        BY <1>2, <2>3, <2>4, <3>1
      <3>5. TradesFit(T, x, A)
        BY DEF Ready
      <3>6. PartsFit(T, x, A, LimitOrder(o), own, counter, <<>>, FALSE)
        BY <2>2, <3>3, <3>4, <3>5 DEF PartsFit
      <3> QED
        BY <2>1, <3>6 DEF MatchingFits
    <2>5. CASE x # o
      <3>1. SideFits(T, x, own) /\ SideFits(T, x, counter) /\ TradesFit(T, x, A)
        BY <1>2, <2>5 DEF Ready
      <3> HIDE DEF own, counter, first
      <3>2. PartsFit(T, x, A, LimitOrder(o), own, counter, <<>>, FALSE)
        BY <2>2, <2>3, <2>5, <3>1 DEF PartsFit
      <3> QED
        BY <2>1, <3>2 DEF MatchingFits
    <2> QED
      BY <2>4, <2>5
  <1> HIDE DEF t, N, first
  <1>9. Fine(0)
    <2>1. t[0] = first
      BY <1>5, <1>6
    <2> QED
      BY <1>7, <1>8, <2>1
  <1>10. ASSUME NEW i \in 1 .. N, Fine(i - 1) PROVE Fine(i)
    <2> DEFINE m == t[i - 1]
    <2>1. t[i] = IF m.done THEN m ELSE DoMatch(m, ts)
      <3>1. i \in 0 .. N /\ i # 0
        BY <1>5
      <3>2. t[i] = Turn(m, ts)
        BY <1>6, <3>1
      <3> QED
        BY <3>2, TurnIs
    <2>2. GoodMatching(m, o, A, when) /\ MatchingFits(T, x, A, m)
      BY <1>10
    <2> HIDE DEF m
    <2>3. CASE m.done
      BY <2>1, <2>2, <2>3
    <2>4. CASE ~m.done
      <3>1. GoodMatching(DoMatch(m, ts), o, A, when)
        BY <1>1, <2>2, <2>4, GoodTurn
      <3>2. MatchingFits(T, x, A, DoMatch(m, ts))
        BY <1>1, <2>2, <2>4, TurnFits
      <3> QED
        BY <2>1, <2>4, <3>1, <3>2
    <2> QED
      BY <2>3, <2>4
  <1>11. ASSUME Bad # {} PROVE FALSE
    <2>1. Bad \subseteq Nat
      OBVIOUS
    <2>2. PICK i \in Bad : \A k \in Bad : i <= k
      <3> HIDE DEF Bad
      <3> QED
        BY <1>11, <2>1, Least
    <2>3. i \in 0 .. N /\ ~Fine(i)
      OBVIOUS
    <2>4. i # 0
      BY <1>9, <2>3
    <2>5. i \in 1 .. N /\ i - 1 \in 0 .. N /\ i - 1 < i
      BY <1>5, <2>3, <2>4
    <2>6. i - 1 \notin Bad
      <3> HIDE DEF Bad
      <3> QED
        BY <2>2, <2>3, <2>5
    <2> HIDE DEF Fine
    <2>7. Fine(i - 1)
      BY <2>5, <2>6
    <2> QED
      BY <1>10, <2>3, <2>5, <2>7
  <1>12. Fine(N)
    <2> HIDE DEF Fine
    <2> QED
      BY <1>5, <1>11
  <1> QED
    BY <1>12 DEF t, N

\* Placing an order.
LEMMA AddFits ==
  ASSUME NEW A, \A y \in A : ValidOrder(y), NEW when, \A y \in A : when[y] \in Int,
         NEW book, GoodBook(book, A, when), NEW o, Newest(o, book, A, when),
         NEW x \in A, NEW T, Ready(T, x, o, A, book), NEW ts
  PROVE  LET r == AddOrder(book, o, ts) IN BookFits(T \cup Executed(r.events), x, A, r.book)
  <1> DEFINE m == Turns(book, o, ts)[Len(book[Opposite(o.side)]) + 1]
             Result(n) ==
               [book |-> [side \in {"buy", "sell"} |-> IF side = o.side THEN n.own ELSE n.counter],
                events |-> n.events]
             r == AddOrder(book, o, ts)
  <1>1. {Result(n) : n \in {m}} = {Result(m)}
    OBVIOUS
  <1>2. r = Result(m)
    BY <1>1 DEF AddOrder
  <1>3. MatchingFits(T, x, A, m)
    BY MatchingFitsAtEnd
  <1> HIDE DEF m
  <1>4. /\ \A side \in {"buy", "sell"} : r.book[side] = m.own \/ r.book[side] = m.counter
        /\ r.events = m.events
    BY <1>2
  <1> HIDE DEF r
  <1>5. BookFits(T \cup Executed(r.events), x, A, r.book)
    BY <1>3, <1>4 DEF MatchingFits, PartsFit, BookFits
  <1> QED
    BY <1>5 DEF r

\* A cancel executes nothing.
LEMMA CancelExecutesNothing ==
  ASSUME NEW book, NEW o
  PROVE  Executed(CancelOrder(book, o).events) = {}
  <1> DEFINE own == book[o.side]
             places == {i \in DOMAIN own : own[i].order = o}
             e == OrderCanceled(own[CHOOSE i \in places : TRUE], FALSE)
             r == CancelOrder(book, o)
  <1>1. r.events = <<>> \/ r.events = <<e>>
    BY DEF CancelOrder
  <1>2. e.type = "canceled"
    BY DEF OrderCanceled
  <1> HIDE DEF e, r
  <1>3. \A z \in ToSet(<<e>>) : z = e
    BY DEF ToSet
  <1>4. Executed(<<e>>) = {}
    BY <1>2, <1>3 DEF Executed
  <1>5. Executed(<<>>) = {}
    BY DEF Executed, ToSet
  <1> QED
    BY <1>1, <1>4, <1>5 DEF r

\* Cancelling one.
LEMMA CancelFits ==
  ASSUME NEW A, \A y \in A : ValidOrder(y), NEW when, NEW book, GoodBook(book, A, when),
         NEW o, ValidOrder(o), NEW x, NEW T, BookFits(T, x, A, book)
  PROVE  LET r == CancelOrder(book, o) IN BookFits(T \cup Executed(r.events), x, A, r.book)
  <1> DEFINE r == CancelOrder(book, o)
             own == book[o.side]
             places == {i \in DOMAIN own : own[i].order = o}
             place == CHOOSE i \in places : TRUE
  <1>1. o.side \in {"buy", "sell"}
    BY DEF ValidOrder
  <1>2. CASE places = {}
    <2>1. r.book = book /\ r.events = <<>>
      BY <1>2 DEF CancelOrder
    <2>2. T \cup Executed(<<>>) = T
      BY DEF Executed, ToSet
    <2> QED
      BY <2>1, <2>2
  <1>3. CASE places # {}
    <2>1. place \in DOMAIN own
      BY <1>3
    <2>2. /\ r.book = [book EXCEPT ![o.side] = RemoveAt(@, place)]
          /\ r.events = <<OrderCanceled(own[place], FALSE)>>
      BY <1>3 DEF CancelOrder
    <2> HIDE DEF place
    <2>3. T \cup Executed(r.events) = T
      BY CancelExecutesNothing
    <2>4. \A side \in {"buy", "sell"} : r.book[side] = IF side = o.side THEN RemoveAt(own, place) ELSE book[side]
      <3>1. book = [s \in {"buy", "sell"} |-> book[s]]
        BY DEF GoodBook
      <3>2. \A side \in {"buy", "sell"} :
              [book EXCEPT ![o.side] = RemoveAt(book[o.side], place)][side] =
                IF side = o.side THEN RemoveAt(book[o.side], place) ELSE book[side]
        BY <1>1, <3>1
      <3> HIDE DEF r
      <3> QED
        BY <2>2, <3>2
    <2> HIDE DEF r
    <2>5. SideFits(T, x, RemoveAt(own, place))
      <3> HIDE DEF own
      <3>1. GoodSide(own, o.side, A, when) /\ SideFits(T, x, own)
        BY <1>1 DEF GoodBook, BookFits, own
      <3>2. own \in Seq(LimitOrders(A)) /\ place \in 1 .. Len(own) /\ Len(own) \in Nat
        BY <2>1, <3>1 DEF GoodSide
      <3> DEFINE t == RemoveAt(own, place)
      <3>3. /\ DOMAIN t = 1 .. Len(own) - 1
            /\ \A i \in 1 .. Len(own) - 1 : t[i] = IF i < place THEN own[i] ELSE own[i + 1]
        BY <3>2, RemoveAtElements
      <3> HIDE DEF t
      <3>4. \A i \in DOMAIN t : \E j \in DOMAIN own : t[i] = own[j]
        <4>1. SUFFICES ASSUME NEW i \in DOMAIN t PROVE \E j \in DOMAIN own : t[i] = own[j]
          OBVIOUS
        <4>2. i \in DOMAIN own /\ i + 1 \in DOMAIN own
          BY <3>2, <3>3
        <4>3. t[i] = own[i] \/ t[i] = own[i + 1]
          BY <3>3
        <4> QED
          BY <4>2, <4>3
      <3>5. SideFits(T, x, t)
        BY <3>1, <3>4 DEF SideFits
      <3> QED
        BY <3>5 DEF t
    <2>6. BookFits(T, x, A, r.book)
      <3> HIDE DEF own
      <3> QED
        BY <2>4, <2>5 DEF BookFits
    <2> QED
      BY <2>3, <2>6 DEF r
  <1> QED
    BY <1>2, <1>3

\* What a command executes, with what was executed before, takes no more of any
\* order than its amount, and what rests of it after that is not more than
\* what is left (OrderBook.add and cancel).
THEOREM NothingOverfilled ==
  ASSUME NEW A, \A y \in A : ValidOrder(y), NEW when, \A y \in A : when[y] \in Int,
         NEW book, GoodBook(book, A, when), NEW event, ValidOrder(event.order),
         event.type = "placed" => Newest(event.order, book, A, when),
         NEW x \in A, NEW T,
         IF event.type = "placed" THEN Ready(T, x, event.order, A, book) ELSE BookFits(T, x, A, book),
         NEW ts
  PROVE  LET r == Handle(book, event, ts) IN BookFits(T \cup Executed(r.events), x, A, r.book)
  BY AddFits, CancelFits DEF Handle
=============================================================================
