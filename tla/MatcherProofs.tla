--------------------------- MODULE MatcherProofs ---------------------------
(***************************************************************************)
(* The order books survive restarts: nothing is skipped, nothing counts    *)
(* twice, every book is what its commands make of an empty one, sorted by  *)
(* price and time, no order is executed for more than its amount, and no   *)
(* book drops out of the rotation of snapshots.                            *)
(***************************************************************************)
EXTENDS Matcher, OrderBookProofs

Commands == [type : {"placed", "canceled"}, order : Orders]

----------------------------------------------------------------------------
(* Replaying a queue q.                                                     *)

\* Replay, for any queue and every number of commands.
After(q, p) ==
    LET after[n \in 0 .. Len(q)] ==
          IF n = 0 THEN EmptyBook
          ELSE IF q[n].order.pair = p
          THEN CHOOSE b \in {Handle(a, q[n], n - 1).book : a \in {after[n - 1]}} : TRUE
          ELSE after[n - 1]
    IN  after

\* The commands of p among the first n.
OfPair(q, p) == {i \in DOMAIN q : q[i].order.pair = p}

\* An order is placed once.
GoodQueue(q) ==
    /\ q \in Seq(Commands)
    /\ \A i, j \in DOMAIN q :
         q[i].type = "placed" /\ q[j].type = "placed" /\ q[i].order = q[j].order => i = j

\* The orders of p that the first n commands place, and when each order was placed.
Known(q, p, n) == {q[i].order : i \in {j \in OfPair(q, p) : j <= n /\ q[j].type = "placed"}}

When(q) ==
    [o \in {q[i].order : i \in {j \in DOMAIN q : q[j].type = "placed"}} |->
       CHOOSE i \in DOMAIN q : q[i] = [type |-> "placed", order |-> o]]

\* What After computes, one command after the other.
LEMMA AfterIs ==
  ASSUME NEW q, Len(q) \in Nat, NEW p
  PROVE  /\ DOMAIN After(q, p) = 0 .. Len(q)
         /\ After(q, p)[0] = EmptyBook
         /\ \A n \in 1 .. Len(q) :
              After(q, p)[n] = IF q[n].order.pair = p
                               THEN Handle(After(q, p)[n - 1], q[n], n - 1).book
                               ELSE After(q, p)[n - 1]
  <1> DEFINE N == Len(q)
             Step1(a, n) == IF q[n].order.pair = p
                            THEN CHOOSE b \in {Handle(x, q[n], n - 1).book : x \in {a}} : TRUE
                            ELSE a
             Is(f, n) == f = [i \in 0 .. n |-> IF i = 0 THEN EmptyBook ELSE Step1(f[i - 1], i)]
             Without == {n \in Nat : ~\E f : Is(f, n)}
  <1>1. ASSUME Without # {} PROVE FALSE
    <2>1. PICK n \in Without : \A k \in Without : n <= k
      <3>1. Without \subseteq Nat
        OBVIOUS
      <3> HIDE DEF Without
      <3> QED
        BY <1>1, <3>1, Least
    <2>2. n \in Nat /\ ~\E f : Is(f, n)
      OBVIOUS
    <2> HIDE DEF Step1
    <2>3. CASE n = 0
      <3> DEFINE f == [i \in 0 .. 0 |-> EmptyBook]
      <3>1. f = [i \in 0 .. 0 |-> IF i = 0 THEN EmptyBook ELSE Step1(f[i - 1], i)]
        OBVIOUS
      <3>2. Is(f, 0)
        BY <3>1
      <3> HIDE DEF f, Is
      <3> QED
        BY <2>2, <2>3, <3>2
    <2>4. CASE n > 0
      <3>1. n - 1 \in Nat /\ n - 1 \notin Without
        <4> HIDE DEF Without
        <4> QED
          BY <2>1, <2>2, <2>4
      <3>2. \E f : Is(f, n - 1)
        <4> HIDE DEF Is
        <4> QED
          BY <3>1
      <3>3. PICK f : Is(f, n - 1)
        BY <3>2
      <3> DEFINE g == [i \in 0 .. n |-> IF i = n THEN Step1(f[n - 1], n) ELSE f[i]]
      <3>4. \A i \in 0 .. n : g[i] = IF i = 0 THEN EmptyBook ELSE Step1(g[i - 1], i)
        <4>1. \A i \in 0 .. n - 1 : f[i] = IF i = 0 THEN EmptyBook ELSE Step1(f[i - 1], i)
          BY <3>1, <3>3
        <4>2. \A i \in 0 .. n - 1 : g[i] = f[i]
          BY <2>2
        <4>3. g[n] = Step1(f[n - 1], n) /\ g[n - 1] = f[n - 1]
          BY <2>2, <2>4, <4>2
        <4> HIDE DEF g
        <4>4. \A i \in 0 .. n : i = n \/ i \in 0 .. n - 1
          BY <2>2
        <4>5. \A i \in 0 .. n - 1 : i # 0 => i - 1 \in 0 .. n - 1
          BY <2>2
        <4> QED
          BY <2>2, <2>4, <4>1, <4>2, <4>3, <4>4, <4>5
      <3>5. Is(g, n)
        <4>1. g = [i \in 0 .. n |-> g[i]]
          OBVIOUS
        <4> HIDE DEF g
        <4> QED
          BY <3>4, <4>1
      <3> HIDE DEF g, Is
      <3> QED
        BY <2>2, <3>5
    <2> QED
      BY <2>2, <2>3, <2>4
  <1>2. \E f : Is(f, N)
    <2> HIDE DEF Is, N
    <2> QED
      BY <1>1 DEF N
  <1>3. After(q, p) = CHOOSE f : Is(f, N)
    BY DEF After
  <1>4. Is(After(q, p), N)
    BY <1>2, <1>3
  <1> DEFINE f == After(q, p)
  <1>5. f = [i \in 0 .. N |-> IF i = 0 THEN EmptyBook ELSE Step1(f[i - 1], i)]
    BY <1>4
  <1> HIDE DEF f
  <1>6. \A n \in 1 .. N : Step1(f[n - 1], n) =
          IF q[n].order.pair = p THEN Handle(f[n - 1], q[n], n - 1).book ELSE f[n - 1]
    <2>1. \A n \in 1 .. N : {Handle(x, q[n], n - 1).book : x \in {f[n - 1]}} = {Handle(f[n - 1], q[n], n - 1).book}
      OBVIOUS
    <2> QED
      BY <2>1
  <1> HIDE DEF Step1
  <1>7. /\ DOMAIN f = 0 .. N /\ f[0] = EmptyBook
        /\ \A n \in 1 .. N : f[n] = Step1(f[n - 1], n)
    BY <1>5
  <1> QED
    BY <1>6, <1>7 DEF f

\* Longer queues replay the same way as far as they agree.
LEMMA AfterSame ==
  ASSUME NEW q, NEW r, Len(q) \in Nat, Len(r) \in Nat, Len(q) <= Len(r),
         \A i \in 1 .. Len(q) : r[i] = q[i], NEW p
  PROVE  \A n \in 0 .. Len(q) : After(r, p)[n] = After(q, p)[n]
  <1> DEFINE f == After(q, p)
             g == After(r, p)
             Differ == {n \in 0 .. Len(q) : g[n] # f[n]}
  <1>1. /\ f[0] = EmptyBook
        /\ \A n \in 1 .. Len(q) :
             f[n] = IF q[n].order.pair = p THEN Handle(f[n - 1], q[n], n - 1).book ELSE f[n - 1]
    BY AfterIs
  <1>2. /\ g[0] = EmptyBook
        /\ \A n \in 1 .. Len(r) :
             g[n] = IF r[n].order.pair = p THEN Handle(g[n - 1], r[n], n - 1).book ELSE g[n - 1]
    BY AfterIs
  <1> HIDE DEF f, g
  <1>3. ASSUME Differ # {} PROVE FALSE
    <2>1. PICK n \in Differ : \A k \in Differ : n <= k
      <3>1. Differ \subseteq Nat
        OBVIOUS
      <3> HIDE DEF Differ
      <3> QED
        BY <1>3, <3>1, Least
    <2>2. n \in 0 .. Len(q) /\ g[n] # f[n] /\ n # 0
      BY <1>1, <1>2
    <2>3. n \in 1 .. Len(q) /\ n \in 1 .. Len(r) /\ n - 1 \in 0 .. Len(q) /\ n - 1 < n
      BY <2>2
    <2>4. g[n - 1] = f[n - 1]
      BY <2>1, <2>3
    <2> QED
      BY <1>1, <1>2, <2>2, <2>3, <2>4
  <1> QED
    BY <1>3 DEF f, g

\* Commands of other pairs change nothing.
LEMMA AfterSkips ==
  ASSUME NEW q, Len(q) \in Nat, NEW p, NEW m \in 0 .. Len(q), NEW n \in 0 .. Len(q), m <= n,
         \A i \in 1 .. Len(q) : m < i /\ i <= n => q[i].order.pair # p
  PROVE  After(q, p)[n] = After(q, p)[m]
  <1> DEFINE f == After(q, p)
             Differ == {k \in m .. n : f[k] # f[m]}
  <1>1. \A k \in 1 .. Len(q) :
          f[k] = IF q[k].order.pair = p THEN Handle(f[k - 1], q[k], k - 1).book ELSE f[k - 1]
    BY AfterIs
  <1> HIDE DEF f
  <1>2. ASSUME Differ # {} PROVE FALSE
    <2>1. PICK k \in Differ : \A j \in Differ : k <= j
      <3>1. Differ \subseteq Nat
        OBVIOUS
      <3> HIDE DEF Differ
      <3> QED
        BY <1>2, <3>1, Least
    <2>2. k \in m .. n /\ f[k] # f[m] /\ k # m
      OBVIOUS
    <2>3. k \in 1 .. Len(q) /\ m < k /\ k <= n /\ k - 1 \in m .. n /\ k - 1 < k
      BY <2>2
    <2>4. f[k - 1] = f[m]
      BY <2>1, <2>3
    <2> QED
      BY <1>1, <2>2, <2>3, <2>4
  <1> QED
    BY <1>2 DEF f

\* What users may place has the form of an order.
LEMMA OrdersAreValid ==
  ASSUME NEW o \in Orders
  PROVE  ValidOrder(o) /\ o.pair \in Pairs
  BY OrdersAssumption DEF ValidOrder, Positive

\* An order was placed when it was placed.
LEMMA WhenIs ==
  ASSUME NEW q, GoodQueue(q), NEW i \in DOMAIN q, q[i].type = "placed"
  PROVE  When(q)[q[i].order] = i
  <1> DEFINE o == q[i].order
  <1>1. q \in Seq(Commands) /\ q[i] \in Commands
    BY DEF GoodQueue
  <1>2. q[i] = [type |-> "placed", order |-> o]
    BY <1>1 DEF Commands
  <1>3. ASSUME NEW j \in DOMAIN q, q[j] = [type |-> "placed", order |-> o] PROVE j = i
    <2>1. q[j].type = "placed" /\ q[j].order = q[i].order
      BY <1>3
    <2> QED
      BY <2>1 DEF GoodQueue
  <1>4. (CHOOSE j \in DOMAIN q : q[j] = [type |-> "placed", order |-> o]) = i
    BY <1>2, <1>3
  <1>5. o \in {q[k].order : k \in {j \in DOMAIN q : q[j].type = "placed"}}
    OBVIOUS
  <1> HIDE DEF o
  <1>6. When(q)[o] = i
    BY <1>4, <1>5 DEF When
  <1> QED
    BY <1>6 DEF o

\* Known orders are orders of the pair, placed in time.
LEMMA KnownOrders ==
  ASSUME NEW q, GoodQueue(q), NEW p, NEW n \in 0 .. Len(q), NEW x \in Known(q, p, n)
  PROVE  /\ x \in Orders /\ ValidOrder(x) /\ x.pair = p
         /\ \E i \in 1 .. n : /\ q[i] = [type |-> "placed", order |-> x]
                              /\ When(q)[x] = i
  <1>1. PICK i \in DOMAIN q : /\ q[i].order.pair = p /\ i <= n /\ q[i].type = "placed"
                              /\ x = q[i].order
    BY DEF Known, OfPair
  <1>2. q \in Seq(Commands) /\ q[i] \in Commands /\ DOMAIN q = 1 .. Len(q) /\ Len(q) \in Nat
    BY DEF GoodQueue
  <1>3. q[i] = [type |-> "placed", order |-> x] /\ x \in Orders
    BY <1>1, <1>2 DEF Commands
  <1>4. When(q)[x] = i
    BY <1>1, WhenIs
  <1>5. i \in 1 .. n
    BY <1>1, <1>2
  <1> QED
    BY <1>1, <1>3, <1>4, <1>5, OrdersAreValid

\* What is known before the nth command, and what it adds.
LEMMA BeforeCommand ==
  ASSUME NEW q, GoodQueue(q), NEW p, NEW n \in 1 .. Len(q),
         GoodBook(After(q, p)[n - 1], Known(q, p, n - 1), When(q))
  PROVE  /\ Known(q, p, n - 1) \subseteq Known(q, p, n)
         /\ GoodBook(After(q, p)[n - 1], Known(q, p, n), When(q))
         /\ q[n].order.pair = p /\ q[n].type = "placed" =>
              /\ Newest(q[n].order, After(q, p)[n - 1], Known(q, p, n), When(q))
              /\ q[n].order \notin Known(q, p, n - 1)
         /\ \A x \in Known(q, p, n) : \/ x \in Known(q, p, n - 1)
                                      \/ x = q[n].order /\ x.pair = p /\ q[n].type = "placed"
  <1> DEFINE b == After(q, p)[n - 1]
             when == When(q)
             K(i) == Known(q, p, i)
             o == q[n].order
  <1>1. q \in Seq(Commands) /\ DOMAIN q = 1 .. Len(q) /\ Len(q) \in Nat
        /\ \A i \in 1 .. Len(q) : q[i] \in Commands
    BY DEF GoodQueue
  <1>2. GoodBook(b, K(n - 1), when)
    OBVIOUS
  <1> HIDE DEF b, when
  <1>3. n \in Nat /\ n - 1 \in 0 .. Len(q) /\ n \in 0 .. Len(q)
    BY <1>1
  <1>4. K(n - 1) \subseteq K(n)
    BY <1>1, <1>3 DEF Known, OfPair
  <1>5. GoodBook(b, K(n), when)
    <2>1. /\ b = [side \in {"buy", "sell"} |-> b[side]]
          /\ \A side \in {"buy", "sell"} : GoodSide(b[side], side, K(n - 1), when)
          /\ NotCrossed(b["buy"], b["sell"])
      BY <1>2 DEF GoodBook
    <2> HIDE DEF K
    <2>2. \A side \in {"buy", "sell"} : GoodSide(b[side], side, K(n), when)
      BY <1>4, <2>1, GoodForMore
    <2> QED
      BY <2>1, <2>2 DEF GoodBook
  <1>6. ASSUME NEW x \in K(n), x \notin K(n - 1) PROVE x = o /\ x.pair = p /\ q[n].type = "placed"
    <2>1. PICK i \in OfPair(q, p) : i <= n /\ q[i].type = "placed" /\ x = q[i].order
      BY DEF Known
    <2>2. ~(i <= n - 1)
      BY <1>6, <2>1 DEF Known
    <2>3. i \in 1 .. Len(q)
      BY <1>1, <2>1 DEF OfPair
    <2>4. i = n
      BY <1>3, <2>1, <2>2, <2>3
    <2> QED
      BY <2>1, <2>4 DEF OfPair
  <1>7. ASSUME o.pair = p, q[n].type = "placed"
        PROVE  Newest(o, b, K(n), when) /\ o \notin K(n - 1)
    <2>1. o \in K(n)
      BY <1>1, <1>3, <1>7 DEF Known, OfPair
    <2>2. \A x \in K(n - 1) : x # o /\ when[x] <= n - 1 /\ when[x] \in Nat
      <3>1. SUFFICES ASSUME NEW x \in K(n - 1)
            PROVE  x # o /\ when[x] <= n - 1 /\ when[x] \in Nat
        OBVIOUS
      <3>2. PICK i \in 1 .. n - 1 : q[i] = [type |-> "placed", order |-> x] /\ when[x] = i
        BY <1>3, KnownOrders DEF when
      <3>3. i \in DOMAIN q /\ n \in DOMAIN q /\ i # n /\ i <= n - 1 /\ i \in Nat
        BY <1>1, <1>3, <3>2
      <3>4. x # o
        BY <1>7, <3>2, <3>3 DEF GoodQueue
      <3> QED
        BY <3>2, <3>3, <3>4
    <2>3. when[o] = n
      BY <1>1, <1>7, WhenIs DEF when
    <2>4. ValidOrder(o)
      BY <1>1, OrdersAreValid DEF Commands
    <2>5. o \notin OrdersIn(b[o.side])
      <3>1. o.side \in {"buy", "sell"}
        BY <2>4 DEF ValidOrder
      <3> HIDE DEF K, o
      <3>2. b[o.side] \in Seq(LimitOrders(K(n - 1)))
        BY <1>2, <3>1 DEF GoodBook, GoodSide
      <3>3. \A i \in DOMAIN b[o.side] : b[o.side][i] \in LimitOrders(K(n - 1))
        BY <3>2
      <3>4. \A i \in DOMAIN b[o.side] : b[o.side][i].order \in K(n - 1)
        BY <3>3 DEF LimitOrders
      <3> QED
        BY <2>2, <3>4 DEF OrdersIn
    <2>6. \A x \in K(n) \ {o} : when[x] < when[o]
      <3> HIDE DEF K
      <3> QED
        BY <1>3, <1>6, <2>2, <2>3
    <2> HIDE DEF K, o
    <2> QED
      BY <2>1, <2>2, <2>4, <2>5, <2>6 DEF Newest
  <1> HIDE DEF K
  <1> QED
    BY <1>4, <1>5, <1>6, <1>7 DEF K, b, when

\* One more command on a good book.
LEMMA CommandIsGood ==
  ASSUME NEW q, GoodQueue(q), NEW p, NEW n \in 1 .. Len(q),
         GoodBook(After(q, p)[n - 1], Known(q, p, n - 1), When(q))
  PROVE  /\ GoodBook(After(q, p)[n], Known(q, p, n), When(q))
         /\ q[n].order.pair = p => GoodEvents(Handle(After(q, p)[n - 1], q[n], n - 1).events)
  <1> DEFINE f == After(q, p)
             when == When(q)
             K(i) == Known(q, p, i)
             Good(i) == GoodBook(f[i], K(i), when)
             Fine == q[n].order.pair = p => GoodEvents(Handle(f[n - 1], q[n], n - 1).events)
  <1>1. q \in Seq(Commands) /\ DOMAIN q = 1 .. Len(q) /\ Len(q) \in Nat
        /\ \A i \in 1 .. Len(q) : q[i] \in Commands
    BY DEF GoodQueue
  <1>2. \A i \in 1 .. Len(q) :
          f[i] = IF q[i].order.pair = p THEN Handle(f[i - 1], q[i], i - 1).book ELSE f[i - 1]
    BY <1>1, AfterIs
  <1>4. Good(n - 1)
    OBVIOUS
  <1> HIDE DEF f, when
  <1>5. Good(n) /\ Fine
    <2>1. n \in Nat /\ n - 1 \in 0 .. Len(q) /\ n \in 0 .. Len(q)
      BY <1>1
    <2>3. GoodBook(f[n - 1], K(n), when)
      BY <1>4, BeforeCommand DEF f, when
    <2>4. CASE q[n].order.pair # p
      <3>1. f[n] = f[n - 1]
        BY <1>2, <2>4
      <3> QED
        BY <2>3, <2>4, <3>1
    <2>5. CASE q[n].order.pair = p
      <3> DEFINE o == q[n].order
                 e == q[n]
                 b == f[n - 1]
      <3>1. e \in Commands /\ o \in Orders /\ ValidOrder(o)
        BY <1>1, OrdersAreValid DEF Commands
      <3>2. \A x \in K(n) : ValidOrder(x)
        BY <2>1, KnownOrders
      <3>3. e.type = "placed" => Newest(o, b, K(n), when)
        BY <1>4, <2>5, BeforeCommand DEF f, when
      <3>4. f[n] = Handle(b, e, n - 1).book
        BY <1>2, <2>5
      <3> HIDE DEF b, K
      <3>5. GoodBook(b, K(n), when)
        BY <2>3 DEF b
      <3>6. ValidOrder(e.order) /\ (e.type = "placed" => Newest(e.order, b, K(n), when))
        BY <3>1, <3>3
      <3> HIDE DEF e
      <3>7. LET r == Handle(b, e, n - 1) IN GoodBook(r.book, K(n), when) /\ GoodEvents(r.events)
        BY <3>2, <3>5, <3>6, BookStaysGood
      <3>8. Good(n)
        BY <3>4, <3>7
      <3> HIDE DEF Good
      <3> QED
        BY <3>7, <3>8 DEF b, e
    <2> QED
      BY <2>4, <2>5
  <1> QED
    BY <1>5 DEF f, when

\* What replaying a queue makes is a good book.
LEMMA ReplayIsGood ==
  ASSUME NEW q, GoodQueue(q), NEW p
  PROVE  \A n \in 0 .. Len(q) : GoodBook(After(q, p)[n], Known(q, p, n), When(q))
  <1> DEFINE f == After(q, p)
             when == When(q)
             K(n) == Known(q, p, n)
             Good(n) == GoodBook(f[n], K(n), when)
             Bad == {n \in 0 .. Len(q) : ~Good(n)}
  <1>1. q \in Seq(Commands) /\ DOMAIN q = 1 .. Len(q) /\ Len(q) \in Nat
        /\ \A i \in 1 .. Len(q) : q[i] \in Commands
    BY DEF GoodQueue
  <1>2. /\ f[0] = EmptyBook
        /\ \A n \in 1 .. Len(q) :
             f[n] = IF q[n].order.pair = p THEN Handle(f[n - 1], q[n], n - 1).book ELSE f[n - 1]
    BY <1>1, AfterIs
  <1> HIDE DEF f, when
  <1>3. Good(0)
    <2>1. EmptyBook["buy"] = <<>> /\ EmptyBook["sell"] = <<>>
          /\ EmptyBook = [side \in {"buy", "sell"} |-> EmptyBook[side]]
      BY DEF EmptyBook
    <2>2. \A side : GoodSide(<<>>, side, K(0), when)
      BY DEF GoodSide, InOrder
    <2>3. NotCrossed(<<>>, <<>>)
      BY DEF NotCrossed, OrdersIn
    <2> HIDE DEF K
    <2>4. GoodBook(EmptyBook, K(0), when)
      BY <2>1, <2>2, <2>3 DEF GoodBook
    <2> QED
      BY <1>2, <2>4
  <1>4. ASSUME NEW n \in 1 .. Len(q), Good(n - 1) PROVE Good(n)
    BY <1>4, CommandIsGood DEF f, when
  <1>5. ASSUME Bad # {} PROVE FALSE
    <2>1. PICK n \in Bad : \A k \in Bad : n <= k
      <3>1. Bad \subseteq Nat
        OBVIOUS
      <3> HIDE DEF Bad
      <3> QED
        BY <1>5, <3>1, Least
    <2>2. n \in 0 .. Len(q) /\ ~Good(n) /\ n # 0
      <3> HIDE DEF Good
      <3> QED
        BY <1>3
    <2>3. n \in 1 .. Len(q) /\ n - 1 \in 0 .. Len(q) /\ n - 1 < n
      BY <1>1, <2>2
    <2> HIDE DEF Good
    <2>4. Good(n - 1)
      BY <2>1, <2>3
    <2> QED
      BY <1>4, <2>2, <2>3, <2>4
  <1> HIDE DEF Good
  <1>6. \A n \in 0 .. Len(q) : Good(n)
    BY <1>5
  <1> QED
    BY <1>6 DEF Good, f, when

\* It is a book in form.
LEMMA ReplayIsBook ==
  ASSUME NEW q, GoodQueue(q), NEW p
  PROVE  \A n \in 0 .. Len(q) : After(q, p)[n] \in Books
  <1>1. SUFFICES ASSUME NEW n \in 0 .. Len(q) PROVE After(q, p)[n] \in Books
    OBVIOUS
  <1> DEFINE b == After(q, p)[n]
             A == Known(q, p, n)
             when == When(q)
  <1>2. GoodBook(b, A, when)
    BY ReplayIsGood
  <1>3. A \subseteq Orders
    BY KnownOrders
  <1> HIDE DEF b, A, when
  <1>4. \A side \in {"buy", "sell"} : GoodSide(b[side], side, Orders, when)
    BY <1>2, <1>3, GoodForMore DEF GoodBook
  <1>5. \A side \in {"buy", "sell"} : b[side] \in Seq(LimitOrders(Orders))
    BY <1>4 DEF GoodSide
  <1>6. b = [side \in {"buy", "sell"} |-> b[side]]
    BY <1>2 DEF GoodBook
  <1>7. b \in [{"buy", "sell"} -> Seq(LimitOrders(Orders))]
    BY <1>5, <1>6
  <1> QED
    BY <1>7 DEF Books, LimitOrders, b

\* A book starts empty.
LEMMA EmptyIsBook == EmptyBook \in Books
  BY DEF EmptyBook, Books

----------------------------------------------------------------------------
(* The inductive invariant of the recovery.                                 *)

Messages == [type : {"event", "save"}, offset : Nat]

Matchers == [working : BOOLEAN, offsets : SUBSET (Pairs \X Int), lastProcessedNr : Nat,
             startOffset : Int, nearest : SUBSET (Pairs \X Int)]

TypeOK ==
    /\ GoodQueue(queue)
    /\ oldestIdx \in 0 .. Len(queue) /\ unread \in 0 .. Len(queue)
    /\ journal \subseteq Pairs /\ journalling \subseteq Pairs
    /\ stored \in [Pairs -> Snapshots]
    /\ matcher \in Matchers
    /\ books \in [Pairs -> BookActors \cup {NoBook}]
    /\ inbox \in [Pairs -> Seq(Messages)]
    /\ updates \subseteq Pairs \X Int

\* The offset of a command, or -1.
Nrs == -1 .. Len(queue) - 1

\* The book of p after the commands up to offset nr.
Replayed(p, nr) == After(queue, p)[nr + 1]

Exists(p) == books[p] # NoBook

\* No command of p up to nr is one its book has not handled.
Covers(p, nr) ==
    \A n \in 0 .. Len(queue) - 1 : PairOf(n) = p /\ n <= nr => n <= books[p].lastProcessed

\* Each snapshot is what the commands up to its offset make of an empty book.
StoredExact ==
    \A p \in Pairs : stored[p].nr \in Nrs /\ stored[p].book = Replayed(p, stored[p].nr)

\* What any snapshot covers is of pairs that a restart finds in the journal.
Recorded ==
    \A p \in Pairs :
      /\ \A n \in 0 .. Len(queue) - 1 : n <= stored[p].nr => PairOf(n) \in journal
      /\ stored[p].nr >= 0 => p \in journal

\* What is deleted from the queue is in the snapshot of its pair.
Deleted ==
    \A n \in 0 .. oldestIdx - 1 : n <= stored[PairOf(n)].nr /\ PairOf(n) \in journal

Journalled == \A p \in Pairs : Exists(p) <=> p \in journal \cup journalling

\* The actor of a book, and the snapshot it is saving.
BookExact(p) ==
    /\ ~books[p].live => books[p] = Recovering
    /\ books[p].live =>
         /\ books[p].lastSaved = stored[p].nr
         /\ books[p].lastProcessed \in Nrs
         /\ books[p].book = Replayed(p, books[p].lastProcessed)
         /\ Covers(p, books[p].lastSaved)
    /\ books[p].saving # NoSnapshot =>
         /\ books[p].live
         /\ books[p].saving.nr > books[p].lastSaved /\ books[p].saving.nr < unread
         /\ books[p].saving.book = Replayed(p, books[p].saving.nr)
         /\ Covers(p, books[p].saving.nr)

BooksExact == \A p \in Pairs : Exists(p) => BookExact(p)

\* As long as MatcherActor collects the books' reports nothing is forwarded.
Starting ==
    ~matcher.working =>
      /\ journalling = {} /\ unread = 0
      /\ \A p \in Pairs : inbox[p] = <<>> /\ (Exists(p) => books[p].saving = NoSnapshot)
      /\ \A x \in matcher.offsets \cup updates : x[1] \in LiveBooks /\ x[2] = stored[x[1]].nr

\* A request for a snapshot follows the command that it was sent with.
Before(a, b) ==
    \/ a.offset < b.offset
    \/ a.offset = b.offset /\ a.type = "event" /\ b.type = "save"

Mailbox(p) ==
    \A i \in DOMAIN inbox[p] :
      /\ inbox[p][i].offset < unread
      /\ inbox[p][i].type = "event" => PairOf(inbox[p][i].offset) = p
      /\ \A j \in DOMAIN inbox[p] : i < j => Before(inbox[p][i], inbox[p][j])

Mailboxes == \A p \in Pairs : Mailbox(p)

Forwarded(n) == \E i \in DOMAIN inbox[PairOf(n)] : inbox[PairOf(n)][i] = EventMessage(n)

Handled(n) ==
    n <= stored[PairOf(n)].nr \/ n <= books[PairOf(n)].lastProcessed \/ Forwarded(n)

\* What was read is handled, in a snapshot, or on its way.
Read == matcher.working => \A n \in 0 .. NextOffset - 1 : Exists(PairOf(n)) /\ Handled(n)

\* The last command a book handled comes before what is in its mailbox, unless
\* its snapshot covers it: then the mailbox may hold what is already handled.
BehindMail(p) ==
    \/ books[p].lastProcessed <= books[p].lastSaved
    \/ /\ books[p].lastProcessed < unread
       /\ \A i \in DOMAIN inbox[p] : books[p].lastProcessed <= inbox[p][i].offset

Behind == \A p \in Pairs : Exists(p) => BehindMail(p)

RecoveryInv ==
    /\ TypeOK /\ StoredExact /\ Recorded /\ Deleted /\ Journalled /\ BooksExact
    /\ Starting /\ Mailboxes /\ Read /\ Behind

\* Nothing has happened yet.
LEMMA RecoveryInit == Init => RecoveryInv
  <1> SUFFICES ASSUME Init PROVE RecoveryInv
    OBVIOUS
  <1> USE DEF Init
  <1>1. Len(queue) = 0 /\ GoodQueue(queue) /\ DOMAIN queue = {}
    BY DEF GoodQueue
  <1>2. TypeOK
    BY <1>1, EmptyIsBook DEF TypeOK, EmptySnapshot, Snapshots, RecoveredMatcher, Matchers
  <1>3. StoredExact
    <2>1. \A p \in Pairs : After(queue, p)[0] = EmptyBook
      BY <1>1, AfterIs
    <2> QED
      BY <1>1, <2>1 DEF StoredExact, Nrs, Replayed, EmptySnapshot
  <1>4. Recorded /\ Deleted
    BY <1>1 DEF Recorded, Deleted, EmptySnapshot
  <1>5. Journalled /\ BooksExact
    BY DEF Journalled, BooksExact, Exists
  <1>6. Starting
    BY DEF Starting, RecoveredMatcher
  <1>7. Mailboxes
    BY DEF Mailboxes, Mailbox
  <1>8. Read /\ Behind
    BY DEF Read, NextOffset, Later, Behind, Exists
  <1> QED
    BY <1>2, <1>3, <1>4, <1>5, <1>6, <1>7, <1>8 DEF RecoveryInv

\* What is known of the queue and the reader's place in it.
LEMMA Basics ==
  ASSUME RecoveryInv
  PROVE  /\ Len(queue) \in Nat /\ DOMAIN queue = 1 .. Len(queue) /\ queue \in Seq(Commands)
         /\ \A n \in 0 .. Len(queue) - 1 : queue[n + 1] \in Commands /\ PairOf(n) \in Pairs
         /\ NextOffset \in 0 .. Len(queue) /\ unread <= NextOffset /\ oldestIdx <= NextOffset
  <1>1. queue \in Seq(Commands) /\ oldestIdx \in 0 .. Len(queue) /\ unread \in 0 .. Len(queue)
    BY DEF RecoveryInv, TypeOK, GoodQueue
  <1>2. Len(queue) \in Nat /\ DOMAIN queue = 1 .. Len(queue)
    BY <1>1
  <1>3. ASSUME NEW n \in 0 .. Len(queue) - 1 PROVE queue[n + 1] \in Commands /\ PairOf(n) \in Pairs
    <2>1. queue[n + 1] \in Commands
      BY <1>1, <1>2
    <2>2. queue[n + 1].order \in Orders
      BY <2>1 DEF Commands
    <2> QED
      BY <2>1, <2>2, OrdersAreValid DEF PairOf
  <1>4. NextOffset \in 0 .. Len(queue) /\ unread <= NextOffset /\ oldestIdx <= NextOffset
    BY <1>1, <1>2 DEF NextOffset, Later
  <1> QED
    BY <1>1, <1>2, <1>3, <1>4

\* A longer queue replays as before, and nothing that was read changes.
LEMMA RecoveryEnqueue ==
  ASSUME RecoveryInv, Enqueue
  PROVE  RecoveryInv'
  <1>1. /\ Len(queue) \in Nat /\ DOMAIN queue = 1 .. Len(queue) /\ queue \in Seq(Commands)
        /\ \A n \in 0 .. Len(queue) - 1 : queue[n + 1] \in Commands /\ PairOf(n) \in Pairs
        /\ NextOffset \in 0 .. Len(queue) /\ unread <= NextOffset /\ oldestIdx <= NextOffset
    BY Basics
  <1>2. /\ TypeOK /\ StoredExact /\ Recorded /\ Deleted /\ Journalled /\ BooksExact
        /\ Starting /\ Mailboxes /\ Read /\ Behind
    BY DEF RecoveryInv
  <1>3. UNCHANGED <<oldestIdx, journal, journalling, stored, unread, matcher, books, inbox, updates>>
    BY DEF Enqueue
  <1>4. PICK c \in Commands : /\ queue' = Append(queue, c)
                              /\ c.type = "placed" => c.order \notin Placed
    <2>1. CASE \E o \in Orders \ Placed : queue' = Append(queue, [type |-> "placed", order |-> o])
      BY <2>1 DEF Commands
    <2>2. CASE \E o \in Placed \ Canceled : queue' = Append(queue, [type |-> "canceled", order |-> o])
      <3>1. PICK o \in Placed : queue' = Append(queue, [type |-> "canceled", order |-> o])
        BY <2>2
      <3>2. o \in Orders
        <4>1. PICK i \in DOMAIN queue : o = queue[i].order
          BY DEF Placed
        <4>2. queue[i] \in Commands
          BY <1>1
        <4> QED
          BY <4>1, <4>2 DEF Commands
      <3> QED
        BY <3>1, <3>2 DEF Commands
    <2> QED
      BY <2>1, <2>2 DEF Enqueue
  <1>5. /\ queue' \in Seq(Commands) /\ Len(queue') = Len(queue) + 1
        /\ DOMAIN queue' = 1 .. Len(queue) + 1
        /\ queue'[Len(queue) + 1] = c
        /\ \A i \in 1 .. Len(queue) : queue'[i] = queue[i]
    BY <1>1, <1>4
  <1>6. GoodQueue(queue')
    <2>1. SUFFICES ASSUME NEW i \in DOMAIN queue', NEW j \in DOMAIN queue',
                          queue'[i].type = "placed", queue'[j].type = "placed",
                          queue'[i].order = queue'[j].order, i < j
                   PROVE  FALSE
      <3>1. \A i, j \in DOMAIN queue' : i \in Nat /\ j \in Nat
        BY <1>5
      <3> QED
        BY <1>5, <3>1 DEF GoodQueue
    <2>2. i \in 1 .. Len(queue) /\ queue'[i] = queue[i]
      BY <1>1, <1>5, <2>1
    <2>3. CASE j \in 1 .. Len(queue)
      <3>1. queue'[j] = queue[j] /\ GoodQueue(queue)
        BY <1>2, <1>5, <2>3 DEF TypeOK
      <3> QED
        BY <1>1, <2>1, <2>2, <2>3, <3>1 DEF GoodQueue
    <2>4. CASE j = Len(queue) + 1
      <3>1. queue[i].type = "placed" /\ queue[i].order = c.order /\ c.type = "placed"
        BY <1>5, <2>1, <2>2, <2>4
      <3>2. c.order \in Placed
        BY <1>1, <2>2, <3>1 DEF Placed
      <3> QED
        BY <1>4, <3>1, <3>2
    <2> QED
      BY <1>1, <1>5, <2>3, <2>4
  <1>7. \A n \in 0 .. Len(queue) - 1 : PairOf(n)' = PairOf(n)
    BY <1>1, <1>5 DEF PairOf
  <1>8. \A p, n : n \in Nrs => n \in Nrs' /\ Replayed(p, n)' = Replayed(p, n)
    <2>1. SUFFICES ASSUME NEW p, NEW n \in Nrs PROVE n \in Nrs' /\ Replayed(p, n)' = Replayed(p, n)
      OBVIOUS
    <2>2. n + 1 \in 0 .. Len(queue) /\ n \in Nrs'
      BY <1>1, <1>5 DEF Nrs
    <2>3. \A k \in 0 .. Len(queue) : After(queue', p)[k] = After(queue, p)[k]
      BY <1>1, <1>5, AfterSame
    <2> QED
      BY <2>2, <2>3 DEF Replayed
  <1>9. \A p \in Pairs : stored[p].nr \in Nrs /\ stored[p].nr < Len(queue)
    BY <1>1, <1>2 DEF StoredExact, Nrs
  <1>10. oldestIdx <= Len(queue) /\ unread <= Len(queue) /\ oldestIdx \in Nat /\ unread \in Nat
    BY <1>1, <1>2 DEF TypeOK
  <1>11. TypeOK'
    BY <1>1, <1>2, <1>3, <1>5, <1>6, <1>10 DEF TypeOK
  <1>12. StoredExact'
    BY <1>2, <1>3, <1>8, <1>9 DEF StoredExact
  <1>13. Recorded'
    <2>1. ASSUME NEW p \in Pairs, NEW n \in 0 .. Len(queue') - 1, n <= stored[p].nr
          PROVE  PairOf(n)' \in journal
      <3>1. n \in 0 .. Len(queue) - 1
        <4>1. stored[p].nr \in -1 .. Len(queue) - 1
          BY <1>9 DEF Nrs
        <4> QED
          BY <1>1, <1>5, <2>1, <4>1
      <3> QED
        BY <1>2, <1>7, <2>1, <3>1 DEF Recorded
    <2> QED
      BY <1>2, <1>3, <2>1 DEF Recorded
  <1>14. Deleted'
    <2>1. \A n \in 0 .. oldestIdx - 1 : n \in 0 .. Len(queue) - 1
      BY <1>1, <1>10
    <2> QED
      BY <1>2, <1>3, <1>7, <2>1 DEF Deleted
  <1>15. Journalled'
    BY <1>2, <1>3 DEF Journalled, Exists
  <1>16. ASSUME NEW p \in Pairs, NEW nr \in Nrs, Covers(p, nr)
         PROVE  Covers(p, nr)'
    <2>1. SUFFICES ASSUME NEW n \in 0 .. Len(queue') - 1, PairOf(n)' = p, n <= nr
          PROVE  n <= books[p].lastProcessed
      BY <1>3 DEF Covers
    <2>2. n \in 0 .. Len(queue) - 1
      BY <1>1, <1>5, <2>1 DEF Nrs
    <2> QED
      BY <1>7, <1>16, <2>1, <2>2 DEF Covers
  <1>17. BooksExact'
    <2>1. SUFFICES ASSUME NEW p \in Pairs, Exists(p) PROVE BookExact(p)'
      BY <1>3 DEF BooksExact, Exists
    <2>2. BookExact(p)
      BY <1>2, <2>1 DEF BooksExact
    <2>3. books[p] \in BookActors
      BY <1>2, <2>1 DEF TypeOK, Exists
    <2>4. books[p].saving # NoSnapshot => books[p].saving.nr \in Nrs
      <3>1. SUFFICES ASSUME books[p].saving # NoSnapshot PROVE books[p].saving.nr \in Nrs
        OBVIOUS
      <3>2. /\ books[p].live /\ books[p].saving.nr > books[p].lastSaved /\ books[p].saving.nr < unread
            /\ books[p].lastSaved = stored[p].nr
        BY <2>2, <3>1 DEF BookExact
      <3>3. books[p].saving \in Snapshots
        BY <2>3, <3>1 DEF BookActors
      <3>4. books[p].saving.nr \in Int
        BY <3>3 DEF Snapshots
      <3> QED
        BY <1>1, <1>9, <1>10, <3>2, <3>4 DEF Nrs
    <2>5. books[p].live => books[p].lastSaved \in Nrs /\ books[p].lastProcessed \in Nrs
      BY <1>9, <2>2 DEF BookExact
    <2> QED
      BY <1>3, <1>8, <1>16, <2>2, <2>4, <2>5 DEF BookExact
  <1>18. Starting'
    BY <1>2, <1>3 DEF Starting, LiveBooks, Exists
  <1>19. Mailboxes'
    <2>1. SUFFICES ASSUME NEW p \in Pairs PROVE Mailbox(p)'
      BY DEF Mailboxes
    <2>2. Mailbox(p) /\ inbox[p] \in Seq(Messages)
      BY <1>2 DEF Mailboxes, TypeOK
    <2>3. \A i \in DOMAIN inbox[p] : inbox[p][i].offset \in 0 .. Len(queue) - 1
      <3>1. SUFFICES ASSUME NEW i \in DOMAIN inbox[p] PROVE inbox[p][i].offset \in 0 .. Len(queue) - 1
        OBVIOUS
      <3>2. inbox[p][i] \in Messages /\ inbox[p][i].offset < unread
        BY <2>2 DEF Mailbox
      <3>3. inbox[p][i].offset \in Nat
        BY <3>2 DEF Messages
      <3> QED
        BY <1>1, <1>10, <3>2, <3>3
    <2> QED
      BY <1>3, <1>7, <2>2, <2>3 DEF Mailbox
  <1>20. Read'
    <2>1. NextOffset' = NextOffset /\ \A n \in 0 .. NextOffset - 1 : n \in 0 .. Len(queue) - 1
      BY <1>1, <1>3 DEF NextOffset
    <2> QED
      BY <1>2, <1>3, <1>7, <2>1 DEF Read, Exists, Handled, Forwarded
  <1>21. Behind'
    BY <1>2, <1>3 DEF Behind, BehindMail, Exists
  <1> QED
    BY <1>11, <1>12, <1>13, <1>14, <1>15, <1>17, <1>18, <1>19, <1>20, <1>21 DEF RecoveryInv

\* A pair moves to the journal.
LEMMA RecoveryJournalWritten ==
  ASSUME RecoveryInv, NEW p \in Pairs, JournalWritten(p)
  PROVE  RecoveryInv'
  <1>1. /\ TypeOK /\ StoredExact /\ Recorded /\ Deleted /\ Journalled /\ BooksExact
        /\ Starting /\ Mailboxes /\ Read /\ Behind
    BY DEF RecoveryInv
  <1>2. /\ UNCHANGED <<queue, oldestIdx, stored, unread, matcher, books, inbox, updates>>
        /\ p \in journalling /\ journalling' = journalling \ {p} /\ journal' = journal \cup {p}
    BY DEF JournalWritten
  <1>3. TypeOK'
    BY <1>1, <1>2 DEF TypeOK
  <1>4. StoredExact' /\ Mailboxes' /\ BooksExact' /\ Read'
    <2>1. StoredExact'
      BY <1>1, <1>2 DEF StoredExact, Nrs, Replayed
    <2>2. Mailboxes'
      BY <1>1, <1>2 DEF Mailboxes, Mailbox, PairOf
    <2>3. \A q : BookExact(q)' = BookExact(q) /\ Exists(q)' = Exists(q)
      BY <1>2 DEF BookExact, Covers, PairOf, Replayed, Nrs, Exists
    <2>4. BooksExact'
      BY <1>1, <2>3 DEF BooksExact
    <2>5. Read'
      BY <1>1, <1>2 DEF Read, Exists, Handled, Forwarded, NextOffset, PairOf
    <2> QED
      BY <2>1, <2>2, <2>4, <2>5
  <1>5. Recorded' /\ Deleted'
    BY <1>1, <1>2 DEF Recorded, Deleted, PairOf
  <1>6. Journalled'
    BY <1>1, <1>2 DEF Journalled, Exists
  <1>7. Starting'
    BY <1>1, <1>2 DEF Starting, LiveBooks, Exists
  <1>8. Behind'
    BY <1>1, <1>2 DEF Behind, BehindMail, Exists
  <1> QED
    BY <1>3, <1>4, <1>5, <1>6, <1>7, <1>8 DEF RecoveryInv

\* A book that has not recovered is one.
LEMMA RecoveringIsActor == Recovering \in BookActors /\ Recovering # NoBook /\ ~Recovering.live
  <1>1. Recovering \in BookActors
    BY EmptyIsBook DEF Recovering, BookActors
  <1> QED
    BY <1>1, NothingAssumption DEF Recovering

\* After a restart what is deleted from the queue is in the snapshots.
LEMMA RecoveryRestart ==
  ASSUME RecoveryInv, Restart
  PROVE  RecoveryInv'
  <1>1. /\ TypeOK /\ StoredExact /\ Recorded /\ Deleted /\ Journalled /\ BooksExact
        /\ Starting /\ Mailboxes /\ Read /\ Behind
    BY DEF RecoveryInv
  <1>2. /\ Len(queue) \in Nat
        /\ \A n \in 0 .. Len(queue) - 1 : PairOf(n) \in Pairs
    BY Basics
  <1>3. /\ UNCHANGED <<queue, journal, stored, oldestIdx>>
        /\ journalling' = {} /\ matcher' = RecoveredMatcher(journal) /\ updates' = {} /\ unread' = 0
        /\ books' = [p \in Pairs |-> IF p \in journal THEN Recovering ELSE NoBook]
        /\ inbox' = [p \in Pairs |-> <<>>]
    BY DEF Restart, stores
  <1>4. TypeOK'
    <2>1. matcher' \in Matchers
      BY <1>3 DEF RecoveredMatcher, Matchers
    <2>2. books' \in [Pairs -> BookActors \cup {NoBook}]
      BY <1>3, RecoveringIsActor
    <2>3. inbox' \in [Pairs -> Seq(Messages)]
      BY <1>3
    <2> QED
      BY <1>1, <1>2, <1>3, <2>1, <2>2, <2>3 DEF TypeOK
  <1>5. StoredExact'
    BY <1>1, <1>3 DEF StoredExact, Nrs, Replayed
  <1>6. Recorded' /\ Deleted'
    BY <1>1, <1>3 DEF Recorded, Deleted, PairOf
  <1>7. \A p \in Pairs : /\ books'[p] = IF p \in journal THEN Recovering ELSE NoBook
                         /\ inbox'[p] = <<>>
    BY <1>3
  <1>8. Journalled'
    BY <1>3, <1>7, RecoveringIsActor DEF Journalled, Exists
  <1>9. BooksExact'
    <2>1. SUFFICES ASSUME NEW p \in Pairs, books'[p] # NoBook PROVE BookExact(p)'
      BY DEF BooksExact, Exists
    <2>2. books'[p] = Recovering
      BY <1>7, <2>1
    <2>3. Recovering.saving = NoSnapshot
      BY DEF Recovering
    <2> QED
      BY <2>2, <2>3, RecoveringIsActor DEF BookExact
  <1>10. Starting'
    <2>1. matcher'.offsets = {}
      BY <1>3 DEF RecoveredMatcher
    <2>2. \A p \in Pairs : books'[p] # NoBook => books'[p].saving = NoSnapshot
      BY <1>7 DEF Recovering
    <2> QED
      BY <1>3, <1>7, <2>1, <2>2 DEF Starting, Exists
  <1>11. Mailboxes'
    BY <1>7 DEF Mailboxes, Mailbox
  <1>12. Read'
    <2>1. SUFFICES ASSUME matcher'.working, NEW n \in 0 .. NextOffset' - 1 PROVE FALSE
      BY DEF Read
    <2>2. journal = {}
      BY <1>3, <2>1 DEF RecoveredMatcher
    <2>3. NextOffset' = oldestIdx
      <3>1. oldestIdx \in Nat
        BY <1>1, <1>2 DEF TypeOK
      <3> QED
        BY <1>3, <3>1 DEF NextOffset, Later
    <2> QED
      BY <1>1, <2>1, <2>2, <2>3 DEF Deleted
  <1>13. Behind'
    <2>1. Recovering.lastProcessed <= Recovering.lastSaved
      BY DEF Recovering
    <2> QED
      BY <1>7, <2>1 DEF Behind, BehindMail, Exists
  <1> QED
    BY <1>4, <1>5, <1>6, <1>8, <1>9, <1>10, <1>11, <1>12, <1>13 DEF RecoveryInv

\* Nothing changes.
LEMMA RecoveryStutters ==
  ASSUME RecoveryInv, UNCHANGED vars
  PROVE  RecoveryInv'
  <1>1. /\ TypeOK /\ StoredExact /\ Recorded /\ Deleted /\ Journalled /\ BooksExact
        /\ Starting /\ Mailboxes /\ Read /\ Behind
    BY DEF RecoveryInv
  <1>2. UNCHANGED <<queue, oldestIdx, journal, journalling, stored, unread, matcher, books,
                    inbox, updates>>
    BY DEF vars
  <1>3. TypeOK' /\ StoredExact'
    BY <1>1, <1>2 DEF TypeOK, StoredExact, Nrs, Replayed
  <1>4. Recorded' /\ Deleted' /\ Journalled'
    BY <1>1, <1>2 DEF Recorded, Deleted, PairOf, Journalled, Exists
  <1>5. BooksExact'
    <2>1. \A q : BookExact(q)' = BookExact(q) /\ Exists(q)' = Exists(q)
      BY <1>2 DEF BookExact, Covers, PairOf, Replayed, Nrs, Exists
    <2> QED
      BY <1>1, <2>1 DEF BooksExact
  <1>6. Starting' /\ Mailboxes'
    BY <1>1, <1>2 DEF Starting, LiveBooks, Exists, Mailboxes, Mailbox, PairOf
  <1>7. Read'
    BY <1>1, <1>2 DEF Read, Exists, Handled, Forwarded, NextOffset, PairOf
  <1>8. Behind'
    BY <1>1, <1>2 DEF Behind, BehindMail, Exists
  <1> QED
    BY <1>3, <1>4, <1>5, <1>6, <1>7, <1>8 DEF RecoveryInv

\* A book comes back from its snapshot: what the snapshot covers is handled again.
LEMMA RecoveryBookRecovered ==
  ASSUME RecoveryInv, NEW p \in Pairs, BookRecovered(p)
  PROVE  RecoveryInv'
  <1>1. /\ TypeOK /\ StoredExact /\ Recorded /\ Deleted /\ Journalled /\ BooksExact
        /\ Starting /\ Mailboxes /\ Read /\ Behind
    BY DEF RecoveryInv
  <1>2. /\ Len(queue) \in Nat
        /\ \A n \in 0 .. Len(queue) - 1 : PairOf(n) \in Pairs
        /\ NextOffset \in 0 .. Len(queue)
    BY Basics
  <1> DEFINE nb == [live |-> TRUE, book |-> stored[p].book, lastProcessed |-> stored[p].nr,
                    lastSaved |-> stored[p].nr, saving |-> NoSnapshot]
  <1>3. /\ UNCHANGED <<queue, journal, stored, oldestIdx, journalling, unread, matcher, inbox>>
        /\ Exists(p) /\ ~books[p].live
        /\ books' = [books EXCEPT ![p] = nb] /\ updates' = updates \cup {<<p, stored[p].nr>>}
    BY DEF BookRecovered, stores, Exists
  <1>4. stored[p] \in Snapshots /\ stored[p].nr \in Int /\ stored[p].book \in Books
    BY <1>1 DEF TypeOK, Snapshots
  <1>5. /\ nb \in BookActors /\ nb.live /\ nb.saving = NoSnapshot
        /\ nb.lastProcessed = stored[p].nr /\ nb.lastSaved = stored[p].nr /\ nb.book = stored[p].book
    BY <1>4 DEF BookActors
  <1> HIDE DEF nb
  <1>6. nb # NoBook
    BY <1>5, NothingAssumption
  <1>7. /\ DOMAIN books = Pairs /\ books'[p] = nb
        /\ \A q \in Pairs : q # p => books'[q] = books[q]
    BY <1>1, <1>3 DEF TypeOK
  <1>8. TypeOK'
    <2>1. books' \in [Pairs -> BookActors \cup {NoBook}]
      BY <1>1, <1>3, <1>5 DEF TypeOK
    <2>2. updates' \subseteq Pairs \X Int
      BY <1>1, <1>3, <1>4 DEF TypeOK
    <2> QED
      BY <1>1, <1>3, <2>1, <2>2 DEF TypeOK
  <1>9. StoredExact'
    BY <1>1, <1>3 DEF StoredExact, Nrs, Replayed
  <1>10. Recorded' /\ Deleted'
    BY <1>1, <1>3 DEF Recorded, Deleted, PairOf
  <1>11. \A q \in Pairs : Exists(q)' <=> Exists(q)
    BY <1>3, <1>6, <1>7 DEF Exists
  <1>12. Journalled'
    BY <1>1, <1>3, <1>11 DEF Journalled
  <1>13. BooksExact'
    <2>1. SUFFICES ASSUME NEW q \in Pairs, Exists(q)' PROVE BookExact(q)'
      BY DEF BooksExact
    <2>2. CASE q = p
      <3>1. Covers(p, stored[p].nr)'
        BY <1>3, <1>5, <1>7 DEF Covers
      <3>2. /\ books'[p].live /\ books'[p].saving = NoSnapshot
            /\ books'[p].lastSaved = stored'[p].nr
            /\ books'[p].lastProcessed \in Nrs'
            /\ books'[p].book = Replayed(p, books[p].lastProcessed)'
        BY <1>1, <1>3, <1>5, <1>7 DEF StoredExact, Nrs, Replayed
      <3> QED
        BY <1>3, <1>5, <1>7, <2>2, <3>1, <3>2 DEF BookExact
    <2>3. CASE q # p
      <3>1. BookExact(q) /\ books'[q] = books[q]
        BY <1>1, <1>7, <1>11, <2>1, <2>3 DEF BooksExact
      <3> QED
        BY <1>3, <3>1 DEF BookExact, Covers, PairOf, Replayed, Nrs
    <2> QED
      BY <2>2, <2>3
  <1>14. LiveBooks' = LiveBooks \cup {p}
    BY <1>5, <1>6, <1>7 DEF LiveBooks
  <1>15. Starting'
    <2>1. SUFFICES ASSUME ~matcher.working
          PROVE  /\ journalling = {} /\ unread = 0
                 /\ \A q \in Pairs : inbox[q] = <<>> /\ (Exists(q)' => books'[q].saving = NoSnapshot)
                 /\ \A x \in matcher.offsets \cup updates' :
                      x[1] \in LiveBooks' /\ x[2] = stored[x[1]].nr
      BY <1>3 DEF Starting
    <2>2. /\ journalling = {} /\ unread = 0
          /\ \A q \in Pairs : inbox[q] = <<>> /\ (Exists(q) => books[q].saving = NoSnapshot)
          /\ \A x \in matcher.offsets \cup updates : x[1] \in LiveBooks /\ x[2] = stored[x[1]].nr
      BY <1>1, <2>1 DEF Starting
    <2>3. \A q \in Pairs : Exists(q)' => books'[q].saving = NoSnapshot
      BY <1>5, <1>7, <1>11, <2>2
    <2>4. \A x \in updates' : x \in updates \/ x = <<p, stored[p].nr>>
      BY <1>3
    <2> QED
      BY <1>14, <2>2, <2>3, <2>4
  <1>16. Mailboxes'
    BY <1>1, <1>3 DEF Mailboxes, Mailbox, PairOf
  <1>17. Read'
    <2>1. SUFFICES ASSUME matcher.working, NEW n \in 0 .. NextOffset - 1
          PROVE  Exists(PairOf(n))' /\ Handled(n)'
      BY <1>3 DEF Read, NextOffset
    <2>2. PairOf(n)' = PairOf(n) /\ PairOf(n) \in Pairs
      BY <1>2, <1>3, <2>1 DEF PairOf
    <2>3. Exists(PairOf(n)) /\ Handled(n)
      BY <1>1, <2>1 DEF Read
    <2>4. Exists(PairOf(n))'
      BY <1>11, <2>2, <2>3 DEF Exists
    <2>5. CASE PairOf(n) # p
      BY <1>3, <1>7, <2>2, <2>3, <2>4, <2>5 DEF Handled, Forwarded
    <2>6. CASE PairOf(n) = p
      <3>1. books[p] = Recovering
        BY <1>1, <1>3 DEF BooksExact, BookExact
      <3>2. n > books[p].lastProcessed
        BY <1>2, <2>1, <3>1 DEF Recovering
      <3>3. n <= stored[p].nr \/ Forwarded(n)
        BY <1>2, <2>1, <2>3, <2>6, <3>1 DEF Handled, Recovering
      <3> QED
        BY <1>3, <2>2, <2>4, <2>6, <3>3 DEF Handled, Forwarded
    <2> QED
      BY <2>5, <2>6
  <1>18. Behind'
    <2>1. SUFFICES ASSUME NEW q \in Pairs, Exists(q)' PROVE BehindMail(q)'
      BY DEF Behind
    <2>2. CASE q = p
      BY <1>4, <1>5, <1>7, <2>2 DEF BehindMail
    <2>3. CASE q # p
      BY <1>1, <1>3, <1>7, <1>11, <2>1, <2>3 DEF Behind, BehindMail
    <2> QED
      BY <2>2, <2>3
  <1> QED
    BY <1>8, <1>9, <1>10, <1>12, <1>13, <1>15, <1>16, <1>17, <1>18 DEF RecoveryInv

\* The mailbox box of the book of p, when the commands of q below u were read.
GoodBox(box, q, p, u) ==
    \A i \in DOMAIN box :
      /\ box[i].offset < u
      /\ box[i].type = "event" => q[box[i].offset + 1].order.pair = p
      /\ \A j \in DOMAIN box : i < j => Before(box[i], box[j])

\* A message that comes after all others is appended.
LEMMA BoxAppend ==
  ASSUME NEW box \in Seq(Messages), NEW q, NEW p, NEW u \in Nat, GoodBox(box, q, p, u),
         NEW v \in Nat, u <= v, NEW e \in Messages, e.offset < v,
         e.type = "event" => q[e.offset + 1].order.pair = p,
         \A i \in DOMAIN box : Before(box[i], e)
  PROVE  /\ Append(box, e) \in Seq(Messages) /\ GoodBox(Append(box, e), q, p, v)
         /\ \A i \in DOMAIN box : i \in DOMAIN Append(box, e) /\ Append(box, e)[i] = box[i]
         /\ Len(box) + 1 \in DOMAIN Append(box, e) /\ Append(box, e)[Len(box) + 1] = e
         /\ \A i \in DOMAIN Append(box, e) : i \in DOMAIN box \/ i = Len(box) + 1
  <1> DEFINE more == Append(box, e)
  <1>1. Len(box) \in Nat /\ DOMAIN box = 1 .. Len(box)
    OBVIOUS
  <1>2. /\ more \in Seq(Messages) /\ DOMAIN more = 1 .. Len(box) + 1
        /\ \A i \in 1 .. Len(box) : more[i] = box[i]
        /\ more[Len(box) + 1] = e
    OBVIOUS
  <1> HIDE DEF more
  <1>3. ASSUME NEW i \in DOMAIN more
        PROVE  /\ more[i].offset < v
               /\ more[i].type = "event" => q[more[i].offset + 1].order.pair = p
               /\ \A j \in DOMAIN more : i < j => Before(more[i], more[j])
    <2>1. CASE i \in DOMAIN box
      <3>1. more[i] = box[i] /\ box[i].offset < u /\ box[i] \in Messages
        BY <1>1, <1>2, <2>1 DEF GoodBox
      <3>2. box[i].offset \in Nat
        BY <3>1 DEF Messages
      <3>3. ASSUME NEW j \in DOMAIN more, i < j PROVE Before(more[i], more[j])
        <4>1. CASE j \in DOMAIN box
          BY <1>1, <1>2, <2>1, <3>1, <3>3, <4>1 DEF GoodBox
        <4>2. CASE j = Len(box) + 1
          BY <1>2, <2>1, <3>1, <4>2
        <4> QED
          BY <1>1, <1>2, <4>1, <4>2
      <3> QED
        BY <2>1, <3>1, <3>2, <3>3 DEF GoodBox
    <2>2. CASE i = Len(box) + 1
      <3>1. more[i] = e /\ \A j \in DOMAIN more : ~(i < j)
        BY <1>1, <1>2, <2>2
      <3> QED
        BY <3>1
    <2> QED
      BY <1>1, <1>2, <2>1, <2>2
  <1>4. GoodBox(more, q, p, v)
    BY <1>3 DEF GoodBox
  <1>5. /\ \A i \in DOMAIN box : i \in DOMAIN more /\ more[i] = box[i]
        /\ Len(box) + 1 \in DOMAIN more /\ more[Len(box) + 1] = e
        /\ \A i \in DOMAIN more : i \in DOMAIN box \/ i = Len(box) + 1
    BY <1>1, <1>2
  <1> QED
    BY <1>2, <1>4, <1>5 DEF more

\* More was read.
LEMMA BoxLater ==
  ASSUME NEW box \in Seq(Messages), NEW q, NEW p, NEW u \in Nat, GoodBox(box, q, p, u),
         NEW v \in Nat, u <= v
  PROVE  GoodBox(box, q, p, v)
  <1>1. \A i \in DOMAIN box : box[i].offset \in Nat
    <2>1. \A i \in DOMAIN box : box[i] \in Messages
      OBVIOUS
    <2> QED
      BY <2>1 DEF Messages
  <1> QED
    BY <1>1 DEF GoodBox

\* A mailbox in the terms of the lemmas above.
LEMMA BoxIsMailbox == \A p : Mailbox(p) <=> GoodBox(inbox[p], queue, p, unread)
  BY DEF Mailbox, GoodBox, PairOf

\* The command n is read and sent to the book of its pair, and some books are
\* asked for a snapshot after it (none when the book is new).
Sends(n, asked, box, q, old, p, u) ==
    LET one == IF q[n + 1].order.pair = p THEN Append(old, EventMessage(n)) ELSE old
    IN  box = IF p \in asked THEN Append(one, SaveMessage(n)) ELSE one

\* What the command and the request for a snapshot make of a mailbox.
LEMMA BoxSends ==
  ASSUME NEW old \in Seq(Messages), NEW q, NEW p, NEW u \in Nat, GoodBox(old, q, p, u),
         NEW n \in Nat, u <= n, NEW asked, NEW box, Sends(n, asked, box, q, old, p, u)
  PROVE  /\ box \in Seq(Messages) /\ GoodBox(box, q, p, n + 1)
         /\ \A i \in DOMAIN old : i \in DOMAIN box /\ box[i] = old[i]
         /\ q[n + 1].order.pair = p => \E i \in DOMAIN box : box[i] = EventMessage(n)
         /\ p \in asked => \E i \in DOMAIN box : box[i] = SaveMessage(n)
         /\ \A i \in DOMAIN box : \/ i \in DOMAIN old
                                  \/ box[i] = EventMessage(n)
                                  \/ p \in asked /\ i = Len(box) /\ box[i] = SaveMessage(n)
         /\ Len(old) <= Len(box) /\ Len(old) \in Nat /\ Len(box) \in Nat
         /\ q[n + 1].order.pair # p /\ p \notin asked => box = old
  <1> DEFINE e == EventMessage(n)
             s == SaveMessage(n)
             here == q[n + 1].order.pair = p
             one == IF here THEN Append(old, e) ELSE old
  <1>1. /\ e \in Messages /\ e.offset = n /\ e.type = "event"
        /\ s \in Messages /\ s.offset = n /\ s.type = "save"
    BY DEF EventMessage, SaveMessage, Messages
  <1>2. n + 1 \in Nat /\ u <= n + 1
    OBVIOUS
  <1>3. \A i \in DOMAIN old : old[i] \in Messages /\ old[i].offset < n /\ old[i].offset \in Nat
    <2>1. \A i \in DOMAIN old : old[i] \in Messages /\ old[i].offset < u
      BY DEF GoodBox
    <2>2. \A i \in DOMAIN old : old[i].offset \in Nat
      BY <2>1 DEF Messages
    <2> QED
      BY <2>1, <2>2
  <1>4. /\ one \in Seq(Messages) /\ GoodBox(one, q, p, n + 1)
        /\ \A i \in DOMAIN old : i \in DOMAIN one /\ one[i] = old[i]
        /\ here => \E i \in DOMAIN one : one[i] = e
        /\ \A i \in DOMAIN one : i \in DOMAIN old \/ one[i] = e
        /\ ~here => one = old
    <2>1. CASE here
      <3>1. \A i \in DOMAIN old : Before(old[i], e)
        BY <1>1, <1>3 DEF Before
      <3> HIDE DEF e
      <3>2. /\ Append(old, e) \in Seq(Messages) /\ GoodBox(Append(old, e), q, p, n + 1)
            /\ \A i \in DOMAIN old : i \in DOMAIN Append(old, e) /\ Append(old, e)[i] = old[i]
            /\ Len(old) + 1 \in DOMAIN Append(old, e) /\ Append(old, e)[Len(old) + 1] = e
            /\ \A i \in DOMAIN Append(old, e) : i \in DOMAIN old \/ i = Len(old) + 1
        BY <1>1, <1>2, <2>1, <3>1, BoxAppend
      <3> QED
        BY <2>1, <3>2
    <2>2. CASE ~here
      BY <1>2, <2>2, BoxLater
    <2> QED
      BY <2>1, <2>2
  <1>5. \A i \in DOMAIN one : Before(one[i], s)
    <2> SUFFICES ASSUME NEW i \in DOMAIN one PROVE Before(one[i], s)
      OBVIOUS
    <2> HIDE DEF one, e, s
    <2>1. CASE i \in DOMAIN old
      BY <1>1, <1>3, <1>4, <2>1 DEF Before
    <2>2. CASE one[i] = e
      BY <1>1, <2>2 DEF Before
    <2> QED
      BY <1>4, <2>1, <2>2
  <1>6. box = IF p \in asked THEN Append(one, s) ELSE one
    BY DEF Sends
  <1>7. Len(old) <= Len(one) /\ Len(old) \in Nat /\ Len(one) \in Nat
    <2> HIDE DEF e
    <2>1. Len(Append(old, e)) = Len(old) + 1 /\ Len(old) \in Nat
      OBVIOUS
    <2> QED
      BY <2>1
  <1> HIDE DEF one, e, s
  <1>8. CASE p \in asked
    <2>1. /\ Append(one, s) \in Seq(Messages) /\ GoodBox(Append(one, s), q, p, n + 1)
          /\ \A i \in DOMAIN one : i \in DOMAIN Append(one, s) /\ Append(one, s)[i] = one[i]
          /\ Len(one) + 1 \in DOMAIN Append(one, s) /\ Append(one, s)[Len(one) + 1] = s
          /\ \A i \in DOMAIN Append(one, s) : i \in DOMAIN one \/ i = Len(one) + 1
      BY <1>1, <1>2, <1>4, <1>5, BoxAppend
    <2>2. Len(Append(one, s)) = Len(one) + 1
      BY <1>4
    <2>3. box = Append(one, s)
      BY <1>6, <1>8
    <2>4. /\ box \in Seq(Messages) /\ GoodBox(box, q, p, n + 1)
          /\ \A i \in DOMAIN old : i \in DOMAIN box /\ box[i] = old[i]
          /\ here => \E i \in DOMAIN box : box[i] = e
          /\ \E i \in DOMAIN box : box[i] = s
      BY <1>4, <2>1, <2>3
    <2>5. \A i \in DOMAIN box : \/ i \in DOMAIN old
                                \/ box[i] = e
                                \/ i = Len(box) /\ box[i] = s
      BY <1>4, <2>1, <2>2, <2>3
    <2>6. Len(old) <= Len(box) /\ Len(old) \in Nat /\ Len(box) \in Nat
      BY <1>7, <2>2, <2>3
    <2> QED
      BY <1>8, <2>4, <2>5, <2>6 DEF e, s
  <1>9. CASE p \notin asked
    BY <1>4, <1>6, <1>7, <1>9 DEF e, s
  <1> QED
    BY <1>8, <1>9

\* What MatcherActor does with the next command, whether its book exists or not.
LEMMA ReadsNext ==
  ASSUME RecoveryInv, MatcherHandlesEvent
  PROVE  LET n == NextOffset
             p == PairOf(n)
             asked == IF books[p] = NoBook THEN {} ELSE {x[1] : x \in Required(matcher, n)}
         IN  /\ n \in 0 .. Len(queue) - 1 /\ p \in Pairs /\ matcher.working /\ matcher'.working
             /\ unread' = n + 1
             /\ UNCHANGED <<queue, oldestIdx, journal, stored, updates>>
             /\ matcher' \in Matchers /\ matcher'.offsets = matcher.offsets
             /\ matcher'.lastProcessedNr = Later(matcher.lastProcessedNr, n)
             /\ matcher'.nearest = IF books[p] = NoBook THEN matcher.nearest
                                   ELSE matcher.nearest \ Required(matcher, n)
             /\ inbox' = [q \in Pairs |-> inbox'[q]]
             /\ \A q \in Pairs : Sends(n, asked, inbox'[q], queue, inbox[q], q, unread)
             /\ IF books[p] = NoBook
                THEN /\ journalling' = journalling \cup {p}
                     /\ books' = [books EXCEPT ![p] = Recovering]
                ELSE UNCHANGED <<journalling, books>>
  <1> DEFINE n == NextOffset
             p == PairOf(n)
             asked == IF books[p] = NoBook THEN {} ELSE {x[1] : x \in Required(matcher, n)}
             box == SendTo(inbox, p, EventMessage(n))
             due == Required(matcher, n)
  <1>1. TypeOK
    BY DEF RecoveryInv
  <1>2. /\ n \in 0 .. Len(queue) /\ Len(queue) \in Nat
        /\ \A k \in 0 .. Len(queue) - 1 : PairOf(k) \in Pairs
    BY Basics
  <1>3. n \in 0 .. Len(queue) - 1 /\ p \in Pairs /\ n \in Nat
    <2>1. n < Len(queue)
      BY DEF MatcherHandlesEvent
    <2> QED
      BY <1>2, <2>1
  <1>4. /\ matcher \in Matchers /\ matcher.lastProcessedNr \in Nat
        /\ inbox \in [Pairs -> Seq(Messages)]
    BY <1>1 DEF TypeOK, Matchers
  <1>5. /\ matcher.working /\ unread' = n + 1
        /\ UNCHANGED <<queue, oldestIdx, journal, stored, updates>>
    BY DEF MatcherHandlesEvent, stores
  <1>6. Later(matcher.lastProcessedNr, n) \in Nat
    BY <1>3, <1>4 DEF Later
  <1>7. \A q \in Pairs : box[q] = IF PairOf(n) = q THEN Append(inbox[q], EventMessage(n)) ELSE inbox[q]
    BY <1>3, <1>4 DEF SendTo
  <1>8. box = [q \in Pairs |-> box[q]]
    BY <1>4 DEF SendTo
  <1> HIDE DEF n, box, due
  <1>9. CASE books[p] = NoBook
    <2>1. ForwardToNewBook(p, n)
      BY <1>9 DEF MatcherHandlesEvent, n
    <2>2. /\ books' = [books EXCEPT ![p] = Recovering] /\ journalling' = journalling \cup {p}
          /\ inbox' = box
          /\ matcher' = [matcher EXCEPT !.lastProcessedNr = Later(@, n)]
      BY <2>1 DEF ForwardToNewBook, box
    <2>3. /\ matcher' \in Matchers /\ matcher'.offsets = matcher.offsets
          /\ matcher'.working = matcher.working
          /\ matcher'.lastProcessedNr = Later(matcher.lastProcessedNr, n)
          /\ matcher'.nearest = matcher.nearest
      BY <1>4, <1>6, <2>2 DEF Matchers
    <2>4. \A q \in Pairs : Sends(n, asked, inbox'[q], queue, inbox[q], q, unread)
      BY <1>7, <1>9, <2>2 DEF Sends, PairOf
    <2> QED
      BY <1>3, <1>5, <1>8, <1>9, <2>2, <2>3, <2>4 DEF n
  <1>10. CASE books[p] # NoBook
    <2>1. ForwardToOrderBook(p, n)
      BY <1>10 DEF MatcherHandlesEvent, n
    <2>2. /\ UNCHANGED <<books, journalling>>
          /\ inbox' = [q \in Pairs |-> IF \E x \in due : x[1] = q
                                       THEN Append(box[q], SaveMessage(n)) ELSE box[q]]
          /\ matcher' = [matcher EXCEPT !.lastProcessedNr = Later(@, n), !.nearest = @ \ due]
      BY <2>1 DEF ForwardToOrderBook, box, due
    <2>3. /\ matcher' \in Matchers /\ matcher'.offsets = matcher.offsets
          /\ matcher'.working = matcher.working
          /\ matcher'.lastProcessedNr = Later(matcher.lastProcessedNr, n)
          /\ matcher'.nearest = matcher.nearest \ due
      BY <1>4, <1>6, <2>2 DEF Matchers
    <2>4. \A q : q \in asked <=> \E x \in due : x[1] = q
      BY <1>10 DEF due
    <2>5. \A q \in Pairs : Sends(n, asked, inbox'[q], queue, inbox[q], q, unread)
      <3> HIDE DEF asked
      <3> QED
        BY <1>7, <2>2, <2>4 DEF Sends, PairOf
    <2> QED
      BY <1>3, <1>5, <1>10, <2>2, <2>3, <2>5 DEF n, due
  <1> QED
    BY <1>9, <1>10

\* The next command is on its way to its book.
LEMMA RecoveryHandlesEvent ==
  ASSUME RecoveryInv, MatcherHandlesEvent
  PROVE  RecoveryInv'
  <1> DEFINE n == NextOffset
             p == PairOf(n)
             asked == IF books[p] = NoBook THEN {} ELSE {x[1] : x \in Required(matcher, n)}
  <1>1. /\ TypeOK /\ StoredExact /\ Recorded /\ Deleted /\ Journalled /\ BooksExact
        /\ Starting /\ Mailboxes /\ Read /\ Behind
    BY DEF RecoveryInv
  <1>2. /\ Len(queue) \in Nat
        /\ \A k \in 0 .. Len(queue) - 1 : PairOf(k) \in Pairs
        /\ NextOffset \in 0 .. Len(queue) /\ unread <= NextOffset /\ oldestIdx <= NextOffset
    BY Basics
  <1>3. /\ n \in 0 .. Len(queue) - 1 /\ p \in Pairs /\ matcher.working /\ matcher'.working
        /\ unread' = n + 1
        /\ UNCHANGED <<queue, oldestIdx, journal, stored, updates>>
        /\ matcher' \in Matchers
        /\ inbox' = [q \in Pairs |-> inbox'[q]]
        /\ \A q \in Pairs : Sends(n, asked, inbox'[q], queue, inbox[q], q, unread)
        /\ IF books[p] = NoBook
           THEN /\ journalling' = journalling \cup {p}
                /\ books' = [books EXCEPT ![p] = Recovering]
           ELSE UNCHANGED <<journalling, books>>
    BY ReadsNext
  <1> HIDE DEF n, asked
  <1>4. unread \in Nat /\ oldestIdx \in Nat /\ unread <= n /\ oldestIdx <= n /\ n \in Nat
    BY <1>1, <1>2, <1>3 DEF TypeOK, n
  <1>5. \A q \in Pairs : inbox[q] \in Seq(Messages) /\ GoodBox(inbox[q], queue, q, unread)
    BY <1>1, BoxIsMailbox DEF TypeOK, Mailboxes
  <1>6. ASSUME NEW q \in Pairs
        PROVE  /\ inbox'[q] \in Seq(Messages) /\ GoodBox(inbox'[q], queue, q, n + 1)
               /\ \A i \in DOMAIN inbox[q] : i \in DOMAIN inbox'[q] /\ inbox'[q][i] = inbox[q][i]
               /\ queue[n + 1].order.pair = q => \E i \in DOMAIN inbox'[q] : inbox'[q][i] = EventMessage(n)
               /\ \A i \in DOMAIN inbox'[q] : \/ i \in DOMAIN inbox[q]
                                             \/ inbox'[q][i] = EventMessage(n)
                                             \/ inbox'[q][i] = SaveMessage(n)
    <2>1. inbox[q] \in Seq(Messages) /\ GoodBox(inbox[q], queue, q, unread)
          /\ Sends(n, asked, inbox'[q], queue, inbox[q], q, unread)
      BY <1>3, <1>5
    <2> QED
      BY <1>4, <2>1, BoxSends
  <1>7. /\ DOMAIN books = Pairs
        /\ \A q \in Pairs : \/ Exists(q) /\ books'[q] = books[q]
                            \/ ~Exists(q) /\ q # p /\ books'[q] = books[q]
                            \/ ~Exists(q) /\ q = p /\ books'[q] = Recovering
    <2>1. DOMAIN books = Pairs
      BY <1>1 DEF TypeOK
    <2>2. CASE books[p] = NoBook
      BY <1>3, <2>1, <2>2 DEF Exists
    <2>3. CASE books[p] # NoBook
      BY <1>3, <2>1, <2>3 DEF Exists
    <2> QED
      BY <2>1, <2>2, <2>3
  <1>8. TypeOK'
    <2>1. books' \in [Pairs -> BookActors \cup {NoBook}]
      BY <1>1, <1>3, RecoveringIsActor DEF TypeOK
    <2>2. journalling' \subseteq Pairs
      BY <1>1, <1>3 DEF TypeOK
    <2>3. inbox' \in [Pairs -> Seq(Messages)]
      <3>1. \A q \in Pairs : inbox'[q] \in Seq(Messages)
        BY <1>6
      <3> QED
        BY <1>3, <3>1
    <2>4. unread' \in 0 .. Len(queue)
      BY <1>2, <1>3
    <2> QED
      BY <1>1, <1>3, <2>1, <2>2, <2>3, <2>4 DEF TypeOK
  <1>9. StoredExact'
    BY <1>1, <1>3 DEF StoredExact, Nrs, Replayed
  <1>10. Recorded' /\ Deleted'
    BY <1>1, <1>3 DEF Recorded, Deleted, PairOf
  <1>11. Journalled'
    <2>1. CASE books[p] = NoBook
      <3>1. journalling' = journalling \cup {p} /\ journal' = journal
        BY <1>3, <2>1
      <3> QED
        BY <1>1, <1>7, <2>1, <3>1, RecoveringIsActor DEF Journalled, Exists
    <2>2. CASE books[p] # NoBook
      <3>1. journalling' = journalling /\ books' = books /\ journal' = journal
        BY <1>3, <2>2
      <3> QED
        BY <1>1, <3>1 DEF Journalled, Exists
    <2> QED
      BY <2>1, <2>2
  <1>12. BooksExact'
    <2>1. SUFFICES ASSUME NEW q \in Pairs, Exists(q)' PROVE BookExact(q)'
      BY DEF BooksExact
    <2>2. CASE books'[q] = Recovering
      <3>1. Recovering.saving = NoSnapshot
        BY DEF Recovering
      <3> QED
        BY <2>2, <3>1, RecoveringIsActor DEF BookExact
    <2>3. CASE Exists(q) /\ books'[q] = books[q]
      <3>1. BookExact(q)
        BY <1>1, <2>3 DEF BooksExact
      <3>2. books[q].saving # NoSnapshot => books[q].saving.nr < unread'
        <4>1. SUFFICES ASSUME books[q].saving # NoSnapshot PROVE books[q].saving.nr < unread'
          OBVIOUS
        <4>2. books[q] \in BookActors
          BY <1>1, <2>3 DEF TypeOK, Exists
        <4>3. books[q].saving \in Snapshots
          BY <4>1, <4>2 DEF BookActors
        <4>4. books[q].saving.nr \in Int
          BY <4>3 DEF Snapshots
        <4>5. books[q].saving.nr < unread
          BY <3>1, <4>1 DEF BookExact
        <4> QED
          BY <1>3, <1>4, <4>4, <4>5
      <3>3. Covers(q, books[q].lastSaved)' <=> Covers(q, books[q].lastSaved)
        BY <1>3, <2>3 DEF Covers, PairOf
      <3>4. Covers(q, books[q].saving.nr)' <=> Covers(q, books[q].saving.nr)
        BY <1>3, <2>3 DEF Covers, PairOf
      <3> QED
        BY <1>3, <2>3, <3>1, <3>2, <3>3, <3>4 DEF BookExact, Replayed, Nrs
    <2> QED
      BY <1>7, <2>1, <2>2, <2>3 DEF Exists
  <1>13. Starting'
    BY <1>3 DEF Starting
  <1>14. Mailboxes'
    <2>1. \A q \in Pairs : GoodBox(inbox'[q], queue', q, unread')
      BY <1>3, <1>6
    <2> QED
      BY <2>1 DEF Mailboxes, Mailbox, GoodBox, PairOf
  <1>15. Read'
    <2>1. NextOffset' = n + 1
      BY <1>3, <1>4 DEF NextOffset, Later
    <2>2. SUFFICES ASSUME NEW k \in 0 .. n PROVE Exists(PairOf(k))' /\ Handled(k)'
      BY <1>4, <2>1 DEF Read
    <2>3. PairOf(k)' = PairOf(k) /\ PairOf(k) \in Pairs
      BY <1>2, <1>3, <2>2 DEF PairOf
    <2>4. CASE k = n
      <3>1. \E i \in DOMAIN inbox'[p] : inbox'[p][i] = EventMessage(n)
        BY <1>3, <1>6 DEF PairOf
      <3>2. books'[p] # NoBook
        BY <1>3, <1>7, RecoveringIsActor DEF Exists
      <3> QED
        BY <2>3, <2>4, <3>1, <3>2 DEF Exists, Handled, Forwarded, EventMessage
    <2>5. CASE k # n
      <3>1. Exists(PairOf(k)) /\ Handled(k)
        BY <1>1, <1>3, <1>4, <2>2, <2>5 DEF Read, n
      <3>2. books'[PairOf(k)] = books[PairOf(k)]
        BY <1>7, <2>3, <3>1
      <3>3. Forwarded(k) => Forwarded(k)'
        BY <1>6, <2>3 DEF Forwarded, EventMessage
      <3> QED
        BY <1>3, <2>3, <3>1, <3>2, <3>3 DEF Exists, Handled
    <2> QED
      BY <2>4, <2>5
  <1>16. Behind'
    <2>1. SUFFICES ASSUME NEW q \in Pairs, Exists(q)' PROVE BehindMail(q)'
      BY DEF Behind
    <2>2. CASE books'[q] = Recovering
      BY <2>2 DEF BehindMail, Recovering
    <2>3. CASE Exists(q) /\ books'[q] = books[q]
      <3> DEFINE last == books[q].lastProcessed
      <3>1. BehindMail(q)
        BY <1>1, <2>3 DEF Behind
      <3>2. last \in Int /\ books[q] \in BookActors
        BY <1>1, <2>3 DEF TypeOK, Exists, BookActors
      <3>3. CASE last <= books[q].lastSaved
        BY <2>3, <3>3 DEF BehindMail
      <3>4. CASE last < unread /\ \A i \in DOMAIN inbox[q] : last <= inbox[q][i].offset
        <4>1. last < n + 1 /\ last <= n
          BY <1>4, <3>2, <3>4
        <4>2. \A i \in DOMAIN inbox'[q] : last <= inbox'[q][i].offset
          BY <1>6, <3>4, <4>1 DEF EventMessage, SaveMessage
        <4> QED
          BY <1>3, <2>3, <4>1, <4>2 DEF BehindMail
      <3> QED
        BY <3>1, <3>3, <3>4 DEF BehindMail
    <2> QED
      BY <1>7, <2>1, <2>2, <2>3 DEF Exists
  <1> QED
    BY <1>8, <1>9, <1>10, <1>11, <1>12, <1>13, <1>14, <1>15, <1>16 DEF RecoveryInv

\* The first message of a mailbox, and what stays.
LEMMA BoxHead ==
  ASSUME NEW box \in Seq(Messages), box # <<>>, NEW q, NEW p, NEW u \in Nat, GoodBox(box, q, p, u)
  PROVE  /\ Head(box) = box[1] /\ 1 \in DOMAIN box /\ Head(box) \in Messages
         /\ Head(box).offset \in Nat /\ Head(box).offset < u
         /\ Head(box).type = "event" => q[Head(box).offset + 1].order.pair = p
         /\ Tail(box) \in Seq(Messages) /\ GoodBox(Tail(box), q, p, u)
         /\ \A i \in DOMAIN box : i = 1 \/ Before(Head(box), box[i])
         /\ \A i \in DOMAIN box : i = 1 \/ (i - 1 \in DOMAIN Tail(box) /\ Tail(box)[i - 1] = box[i])
         /\ \A i \in DOMAIN Tail(box) : i + 1 \in DOMAIN box /\ Tail(box)[i] = box[i + 1]
                                        /\ Before(Head(box), box[i + 1])
  <1> DEFINE t == Tail(box)
             m == Head(box)
  <1>1. Len(box) \in Nat /\ DOMAIN box = 1 .. Len(box) /\ Len(box) >= 1
    OBVIOUS
  <1>2. /\ t \in Seq(Messages) /\ DOMAIN t = 1 .. Len(box) - 1
        /\ \A i \in 1 .. Len(box) - 1 : t[i] = box[i + 1]
    BY <1>1
  <1>3. m = box[1] /\ 1 \in DOMAIN box /\ m \in Messages
    BY <1>1
  <1>4. m.offset \in Nat
    BY <1>3 DEF Messages
  <1> HIDE DEF t, m
  <1>5. \A i \in DOMAIN box : i = 1 \/ Before(m, box[i])
    BY <1>1, <1>3 DEF GoodBox
  <1>6. \A i \in DOMAIN box : i = 1 \/ (i - 1 \in DOMAIN t /\ t[i - 1] = box[i])
    BY <1>1, <1>2
  <1>7. \A i \in DOMAIN t : i + 1 \in DOMAIN box /\ t[i] = box[i + 1] /\ Before(m, box[i + 1])
    BY <1>1, <1>2, <1>5
  <1>8. GoodBox(t, q, p, u)
    <2>1. SUFFICES ASSUME NEW i \in DOMAIN t
          PROVE  /\ t[i].offset < u
                 /\ t[i].type = "event" => q[t[i].offset + 1].order.pair = p
                 /\ \A j \in DOMAIN t : i < j => Before(t[i], t[j])
      BY DEF GoodBox
    <2>2. \A j \in DOMAIN t : i < j => i + 1 < j + 1
      BY <1>2
    <2> QED
      BY <1>7, <2>2 DEF GoodBox
  <1> QED
    BY <1>2, <1>3, <1>4, <1>5, <1>6, <1>7, <1>8 DEF m, t, GoodBox

\* Of the commands of its pair that were read, a book has handled those below the
\* head of its mailbox, and those up to a request for a snapshot at its head.
LEMMA NothingBetween ==
  ASSUME RecoveryInv, NEW p \in LiveBooks, inbox[p] # <<>>,
         NEW k \in 0 .. Len(queue) - 1, PairOf(k) = p,
         \/ k < Head(inbox[p]).offset
         \/ k = Head(inbox[p]).offset /\ Head(inbox[p]).type = "save"
  PROVE  k <= books[p].lastProcessed
  <1> DEFINE m == Head(inbox[p])
  <1>1. /\ TypeOK /\ BooksExact /\ Starting /\ Mailboxes /\ Read
    BY DEF RecoveryInv
  <1>2. p \in Pairs /\ Exists(p) /\ books[p].live
    BY DEF LiveBooks, Exists
  <1>3. inbox[p] \in Seq(Messages) /\ GoodBox(inbox[p], queue, p, unread)
    BY <1>1, <1>2, BoxIsMailbox DEF TypeOK, Mailboxes
  <1>4. Len(queue) \in Nat /\ NextOffset \in 0 .. Len(queue) /\ unread <= NextOffset
    BY Basics
  <1>5. unread \in Nat
    BY <1>1, <1>4 DEF TypeOK
  <1>6. /\ m = inbox[p][1] /\ m \in Messages /\ m.offset \in Nat /\ m.offset < unread
        /\ \A i \in DOMAIN inbox[p] : i = 1 \/ Before(m, inbox[p][i])
    BY <1>3, <1>5, BoxHead
  <1>7. matcher.working
    BY <1>1, <1>2 DEF Starting
  <1> HIDE DEF m
  <1>8. k \in 0 .. NextOffset - 1
    BY <1>4, <1>5, <1>6 DEF m
  <1>9. Handled(k)
    BY <1>1, <1>7, <1>8 DEF Read
  <1>10. ~Forwarded(k)
    <2>1. SUFFICES ASSUME NEW i \in DOMAIN inbox[p], inbox[p][i] = EventMessage(k) PROVE FALSE
      BY DEF Forwarded
    <2>2. inbox[p][i].offset = k /\ inbox[p][i].type = "event"
      BY <2>1 DEF EventMessage
    <2>3. i # 1
      BY <1>6, <2>2 DEF m
    <2>4. Before(m, inbox[p][i])
      BY <1>6, <2>3
    <2> QED
      BY <1>6, <1>8, <2>2, <2>4 DEF Before, m
  <1>11. k <= books[p].lastSaved => k <= books[p].lastProcessed
    BY <1>1, <1>2 DEF BooksExact, BookExact, Covers
  <1>12. books[p].lastSaved = stored[p].nr
    BY <1>1, <1>2 DEF BooksExact, BookExact
  <1> QED
    BY <1>9, <1>10, <1>11, <1>12 DEF Handled

\* A book that takes its next command is the replay of the queue up to it.
LEMMA HandlesNext ==
  ASSUME RecoveryInv, NEW p \in LiveBooks, inbox[p] # <<>>,
         Head(inbox[p]).type = "event", Head(inbox[p]).offset > books[p].lastProcessed
  PROVE  LET n == Head(inbox[p]).offset
             r == Handle(books[p].book, queue[n + 1], n)
         IN  /\ n \in 0 .. Len(queue) - 1 /\ PairOf(n) = p
             /\ books[p].book = After(queue, p)[n]
             /\ r.book = Replayed(p, n) /\ r.book \in Books /\ GoodEvents(r.events)
  <1> DEFINE n == Head(inbox[p]).offset
             last == books[p].lastProcessed
             f == After(queue, p)
  <1>1. /\ TypeOK /\ BooksExact /\ Mailboxes
    BY DEF RecoveryInv
  <1>2. p \in Pairs /\ Exists(p) /\ books[p].live
    BY DEF LiveBooks, Exists
  <1>3. inbox[p] \in Seq(Messages) /\ GoodBox(inbox[p], queue, p, unread)
    BY <1>1, <1>2, BoxIsMailbox DEF TypeOK, Mailboxes
  <1>4. Len(queue) \in Nat /\ GoodQueue(queue) /\ DOMAIN queue = 1 .. Len(queue)
    BY <1>1, Basics DEF TypeOK
  <1>5. unread \in Nat /\ unread <= Len(queue)
    BY <1>1, <1>4 DEF TypeOK
  <1>6. n \in Nat /\ n < unread /\ queue[n + 1].order.pair = p
    BY <1>3, <1>5, BoxHead
  <1>7. n \in 0 .. Len(queue) - 1 /\ PairOf(n) = p
    BY <1>4, <1>5, <1>6 DEF PairOf
  <1>8. last \in Nrs /\ books[p].book = f[last + 1]
    BY <1>1, <1>2 DEF BooksExact, BookExact, Replayed
  <1>9. \A k \in 0 .. Len(queue) - 1 : last < k /\ k < n => PairOf(k) # p
    <2>1. SUFFICES ASSUME NEW k \in 0 .. Len(queue) - 1, last < k, k < n, PairOf(k) = p PROVE FALSE
      OBVIOUS
    <2>2. k <= last
      BY <2>1, NothingBetween
    <2> QED
      BY <1>4, <1>8, <2>1, <2>2 DEF Nrs
  <1> HIDE DEF n, last
  <1>10. last + 1 \in 0 .. Len(queue) /\ n \in 0 .. Len(queue) /\ last + 1 <= n /\ last \in Int
    BY <1>4, <1>7, <1>8 DEF Nrs, n, last
  <1>11. \A i \in 1 .. Len(queue) : last + 1 < i /\ i <= n => queue[i].order.pair # p
    <2>1. SUFFICES ASSUME NEW i \in 1 .. Len(queue), last + 1 < i, i <= n
          PROVE  queue[i].order.pair # p
      OBVIOUS
    <2>2. i - 1 \in 0 .. Len(queue) - 1 /\ last < i - 1 /\ i - 1 < n /\ (i - 1) + 1 = i
      BY <1>4, <1>10, <2>1
    <2>3. PairOf(i - 1) # p
      BY <1>9, <2>2
    <2> QED
      BY <2>2, <2>3 DEF PairOf
  <1>12. f[n] = f[last + 1]
    BY <1>4, <1>10, <1>11, AfterSkips
  <1>13. n + 1 \in 1 .. Len(queue) /\ (n + 1) - 1 = n /\ n + 1 \in 0 .. Len(queue)
    BY <1>4, <1>7
  <1>14. f[n + 1] = Handle(f[n], queue[n + 1], n).book
    <2>1. \A i \in 1 .. Len(queue) :
            f[i] = IF queue[i].order.pair = p THEN Handle(f[i - 1], queue[i], i - 1).book ELSE f[i - 1]
      BY <1>4, AfterIs
    <2> HIDE DEF f
    <2> QED
      BY <1>6, <1>13, <2>1 DEF n
  <1>15. GoodEvents(Handle(f[n], queue[n + 1], n).events)
    <2>1. GoodBook(f[(n + 1) - 1], Known(queue, p, (n + 1) - 1), When(queue))
      BY <1>4, <1>10, <1>13, ReplayIsGood
    <2>2. queue[n + 1].order.pair = p =>
            GoodEvents(Handle(f[(n + 1) - 1], queue[n + 1], (n + 1) - 1).events)
      BY <1>4, <1>13, <2>1, CommandIsGood
    <2> QED
      BY <1>6, <1>13, <2>2 DEF n
  <1>16. f[n + 1] \in Books
    BY <1>4, <1>13, ReplayIsBook
  <1> QED
    BY <1>7, <1>8, <1>12, <1>14, <1>15, <1>16 DEF Replayed, n, last

\* A book takes a message from its mailbox and becomes nb.
Takes(p, nb) ==
    /\ UNCHANGED <<stores, oldestIdx, journalling, unread, matcher, updates>>
    /\ books' = [books EXCEPT ![p] = nb]
    /\ inbox' = [inbox EXCEPT ![p] = Tail(@)]

\* A book that is the replay of what it handled takes a message off its mailbox.
LEMMA RecoveryTakes ==
  ASSUME RecoveryInv, NEW p \in LiveBooks, inbox[p] # <<>>, NEW nb \in BookActors, Takes(p, nb),
         nb.live, nb.lastSaved = books[p].lastSaved,
         nb.lastProcessed \in Nrs, books[p].lastProcessed <= nb.lastProcessed,
         nb.book = Replayed(p, nb.lastProcessed),
         nb.saving # NoSnapshot =>
           /\ nb.saving.nr > nb.lastSaved /\ nb.saving.nr < unread
           /\ nb.saving.book = Replayed(p, nb.saving.nr)
           /\ \A n \in 0 .. Len(queue) - 1 :
                PairOf(n) = p /\ n <= nb.saving.nr => n <= nb.lastProcessed,
         Head(inbox[p]).type = "event" => Head(inbox[p]).offset <= nb.lastProcessed,
         \/ nb.lastProcessed <= nb.lastSaved
         \/ /\ nb.lastProcessed < unread
            /\ \A i \in DOMAIN Tail(inbox[p]) : nb.lastProcessed <= Tail(inbox[p])[i].offset
  PROVE  RecoveryInv'
  <1>1. /\ TypeOK /\ StoredExact /\ Recorded /\ Deleted /\ Journalled /\ BooksExact
        /\ Starting /\ Mailboxes /\ Read /\ Behind
    BY DEF RecoveryInv
  <1>2. p \in Pairs /\ Exists(p) /\ books[p].live
    BY DEF LiveBooks, Exists
  <1>3. /\ Len(queue) \in Nat
        /\ \A n \in 0 .. Len(queue) - 1 : PairOf(n) \in Pairs
        /\ NextOffset \in 0 .. Len(queue)
    BY Basics
  <1>4. /\ UNCHANGED <<queue, journal, stored, oldestIdx, journalling, unread, matcher, updates>>
        /\ books' = [books EXCEPT ![p] = nb] /\ inbox' = [inbox EXCEPT ![p] = Tail(@)]
    BY DEF Takes, stores
  <1>5. /\ DOMAIN books = Pairs /\ books'[p] = nb
        /\ \A q \in Pairs : q # p => books'[q] = books[q]
        /\ DOMAIN inbox = Pairs /\ inbox'[p] = Tail(inbox[p])
        /\ \A q \in Pairs : q # p => inbox'[q] = inbox[q]
    BY <1>1, <1>2, <1>4 DEF TypeOK
  <1>6. inbox[p] \in Seq(Messages) /\ GoodBox(inbox[p], queue, p, unread) /\ unread \in Nat
    BY <1>1, <1>2, <1>3, BoxIsMailbox DEF TypeOK, Mailboxes
  <1>7. /\ Head(inbox[p]) = inbox[p][1]
        /\ Tail(inbox[p]) \in Seq(Messages) /\ GoodBox(Tail(inbox[p]), queue, p, unread)
        /\ \A i \in DOMAIN inbox[p] : i = 1 \/ (i - 1 \in DOMAIN Tail(inbox[p])
                                                /\ Tail(inbox[p])[i - 1] = inbox[p][i])
    BY <1>6, BoxHead
  <1>8. nb # NoBook
    BY NothingAssumption
  <1>9. \A q \in Pairs : Exists(q)' <=> Exists(q)
    BY <1>2, <1>5, <1>8 DEF Exists
  <1>10. TypeOK'
    <2>1. books' \in [Pairs -> BookActors \cup {NoBook}]
      BY <1>1, <1>2, <1>4 DEF TypeOK
    <2>2. inbox' \in [Pairs -> Seq(Messages)]
      BY <1>1, <1>2, <1>4, <1>7 DEF TypeOK
    <2> QED
      BY <1>1, <1>4, <2>1, <2>2 DEF TypeOK
  <1>11. StoredExact'
    BY <1>1, <1>4 DEF StoredExact, Nrs, Replayed
  <1>12. Recorded' /\ Deleted'
    BY <1>1, <1>4 DEF Recorded, Deleted, PairOf
  <1>13. Journalled'
    BY <1>1, <1>4, <1>9 DEF Journalled
  <1>14. BooksExact'
    <2>1. SUFFICES ASSUME NEW q \in Pairs, Exists(q)' PROVE BookExact(q)'
      BY DEF BooksExact
    <2>2. CASE q = p
      <3>1. BookExact(p) /\ books[p] \in BookActors
        BY <1>1, <1>2 DEF BooksExact, TypeOK, Exists
      <3>2. Covers(p, books[p].lastSaved)'
        <4>1. SUFFICES ASSUME NEW n \in 0 .. Len(queue) - 1, PairOf(n) = p, n <= nb.lastSaved
              PROVE  n <= nb.lastProcessed
          BY <1>4, <1>5 DEF Covers, PairOf
        <4>2. n <= books[p].lastProcessed
          BY <1>2, <3>1, <4>1 DEF BookExact, Covers
        <4>3. books[p].lastProcessed \in Int /\ nb.lastProcessed \in Int
          BY <3>1 DEF BookActors
        <4> QED
          BY <1>3, <4>2, <4>3
      <3>3. nb.saving # NoSnapshot => Covers(p, books[p].saving.nr)'
        BY <1>4, <1>5 DEF Covers, PairOf
      <3>4. nb.lastSaved = stored'[p].nr
        BY <1>2, <1>4, <3>1 DEF BookExact
      <3>5. nb.lastProcessed \in Nrs' /\ nb.book = Replayed(p, nb.lastProcessed)'
        BY <1>4 DEF Nrs, Replayed
      <3>6. nb.saving # NoSnapshot => nb.saving.book = Replayed(p, nb.saving.nr)'
        BY <1>4 DEF Replayed
      <3> QED
        BY <1>4, <1>5, <2>2, <3>2, <3>3, <3>4, <3>5, <3>6 DEF BookExact
    <2>3. CASE q # p
      <3>1. BookExact(q) /\ books'[q] = books[q]
        BY <1>1, <1>5, <1>9, <2>1, <2>3 DEF BooksExact
      <3> QED
        BY <1>4, <3>1 DEF BookExact, Covers, PairOf, Replayed, Nrs
    <2> QED
      BY <2>2, <2>3
  <1>15. Starting'
    <2>1. matcher.working
      BY <1>1, <1>2 DEF Starting
    <2> QED
      BY <1>4, <2>1 DEF Starting
  <1>16. Mailboxes'
    <2>1. SUFFICES ASSUME NEW q \in Pairs PROVE GoodBox(inbox'[q], queue, q, unread)
      BY <1>4 DEF Mailboxes, Mailbox, GoodBox, PairOf
    <2>2. CASE q = p
      BY <1>5, <1>7, <2>2
    <2>3. CASE q # p
      BY <1>1, <1>5, <2>3, BoxIsMailbox DEF Mailboxes
    <2> QED
      BY <2>2, <2>3
  <1>17. Read'
    <2>1. SUFFICES ASSUME matcher.working, NEW n \in 0 .. NextOffset - 1
          PROVE  Exists(PairOf(n))' /\ Handled(n)'
      BY <1>4 DEF Read, NextOffset
    <2>2. PairOf(n)' = PairOf(n) /\ PairOf(n) \in Pairs /\ n \in 0 .. Len(queue) - 1
      BY <1>3, <1>4, <2>1 DEF PairOf
    <2>3. Exists(PairOf(n)) /\ Handled(n)
      BY <1>1, <2>1 DEF Read
    <2>4. Exists(PairOf(n))'
      BY <1>9, <2>2, <2>3 DEF Exists
    <2>5. CASE PairOf(n) # p
      BY <1>4, <1>5, <2>2, <2>3, <2>4, <2>5 DEF Handled, Forwarded
    <2>6. CASE PairOf(n) = p
      <3>1. CASE n <= stored[p].nr
        BY <1>4, <2>2, <2>4, <2>6, <3>1 DEF Handled
      <3>2. CASE n <= books[p].lastProcessed
        <4>1. books[p].lastProcessed \in Int /\ nb.lastProcessed \in Int
          BY <1>1, <1>2 DEF TypeOK, Exists, BookActors
        <4>2. n <= nb.lastProcessed
          BY <2>2, <3>2, <4>1
        <4> QED
          BY <1>5, <2>2, <2>4, <2>6, <4>2 DEF Handled
      <3>3. CASE Forwarded(n)
        <4>1. PICK i \in DOMAIN inbox[p] : inbox[p][i] = EventMessage(n)
          BY <2>6, <3>3 DEF Forwarded
        <4>2. CASE i = 1
          <5>1. n <= nb.lastProcessed
            BY <1>7, <4>1, <4>2 DEF EventMessage
          <5> QED
            BY <1>5, <2>2, <2>4, <2>6, <5>1 DEF Handled
        <4>3. CASE i # 1
          <5>1. i - 1 \in DOMAIN inbox'[p] /\ inbox'[p][i - 1] = EventMessage(n)
            BY <1>5, <1>7, <4>1, <4>3
          <5>2. Forwarded(n)'
            BY <2>2, <2>6, <5>1 DEF Forwarded, EventMessage
          <5> QED
            BY <2>4, <5>2 DEF Handled
        <4> QED
          BY <4>2, <4>3
      <3> QED
        BY <2>3, <2>6, <3>1, <3>2, <3>3 DEF Handled
    <2> QED
      BY <2>5, <2>6
  <1>18. Behind'
    <2>1. SUFFICES ASSUME NEW q \in Pairs, Exists(q)' PROVE BehindMail(q)'
      BY DEF Behind
    <2>2. CASE q = p
      BY <1>4, <1>5, <2>2 DEF BehindMail
    <2>3. CASE q # p
      BY <1>1, <1>4, <1>5, <1>9, <2>1, <2>3 DEF Behind, BehindMail
    <2> QED
      BY <2>2, <2>3
  <1> QED
    BY <1>10, <1>11, <1>12, <1>13, <1>14, <1>15, <1>16, <1>17, <1>18 DEF RecoveryInv

\* A book handles its next message: it executes a new command, skips an old one,
\* takes a snapshot it was asked for or does not.
LEMMA RecoveryBookHandles ==
  ASSUME RecoveryInv, NEW p \in Pairs, BookHandles(p)
  PROVE  RecoveryInv'
  <1> DEFINE b == books[p]
             m == Head(inbox[p])
             n == m.offset
  <1>1. /\ TypeOK /\ BooksExact /\ Starting /\ Mailboxes /\ Behind
    BY DEF RecoveryInv
  <1>2. /\ Exists(p) /\ b.live /\ p \in LiveBooks /\ inbox[p] # <<>>
        /\ UNCHANGED <<stores, oldestIdx, journalling, unread, matcher, updates>>
        /\ inbox' = [inbox EXCEPT ![p] = Tail(@)]
        /\ IF m.type = "event" THEN HandleEvent(p, n) ELSE HandleSaveSnapshot(p, n)
    BY DEF BookHandles, Exists, LiveBooks
  <1>3. inbox[p] \in Seq(Messages) /\ GoodBox(inbox[p], queue, p, unread)
    BY <1>1, BoxIsMailbox DEF TypeOK, Mailboxes
  <1>4. Len(queue) \in Nat /\ GoodQueue(queue) /\ DOMAIN queue = 1 .. Len(queue)
    BY <1>1, Basics DEF TypeOK
  <1>5. unread \in Nat /\ unread <= Len(queue)
    BY <1>1, <1>4 DEF TypeOK
  <1>6. /\ m \in Messages /\ n \in Nat /\ n < unread
        /\ \A i \in DOMAIN Tail(inbox[p]) : /\ i + 1 \in DOMAIN inbox[p]
                                            /\ Tail(inbox[p])[i] = inbox[p][i + 1]
                                            /\ Before(m, inbox[p][i + 1])
        /\ m = inbox[p][1] /\ 1 \in DOMAIN inbox[p]
    BY <1>2, <1>3, <1>5, BoxHead
  <1>7. b \in BookActors /\ BookExact(p) /\ BehindMail(p)
    BY <1>1, <1>2 DEF TypeOK, Exists, BooksExact, Behind
  <1>8. /\ b.lastSaved \in Int /\ b.lastProcessed \in Int /\ b.book \in Books
        /\ b.saving \in Snapshots \cup {NoSnapshot} /\ b.lastProcessed \in Nrs
        /\ b.book = Replayed(p, b.lastProcessed)
    BY <1>2, <1>7 DEF BookActors, BookExact
  <1>9. b.saving # NoSnapshot =>
          /\ b.saving.nr > b.lastSaved /\ b.saving.nr < unread
          /\ b.saving.book = Replayed(p, b.saving.nr)
          /\ \A k \in 0 .. Len(queue) - 1 :
               PairOf(k) = p /\ k <= b.saving.nr => k <= b.lastProcessed
    BY <1>7 DEF BookExact, Covers
  <1>10. \/ b.lastProcessed <= b.lastSaved
         \/ /\ b.lastProcessed < unread
            /\ \A i \in DOMAIN Tail(inbox[p]) : b.lastProcessed <= Tail(inbox[p])[i].offset
    BY <1>6, <1>7 DEF BehindMail
  <1>11. \A i \in DOMAIN Tail(inbox[p]) : n <= Tail(inbox[p])[i].offset
    <2>1. SUFFICES ASSUME NEW i \in DOMAIN Tail(inbox[p]) PROVE n <= Tail(inbox[p])[i].offset
      OBVIOUS
    <2>2. Tail(inbox[p])[i] = inbox[p][i + 1] /\ Before(m, inbox[p][i + 1]) /\ inbox[p][i + 1] \in Messages
      BY <1>3, <1>6
    <2>3. inbox[p][i + 1].offset \in Nat
      BY <2>2 DEF Messages
    <2> QED
      BY <1>6, <2>2, <2>3 DEF Before
  <1>12. books = [books EXCEPT ![p] = b]
    BY <1>1 DEF TypeOK
  <1>13. ASSUME books' = books, m.type = "event" => n <= b.lastProcessed
         PROVE  RecoveryInv'
    <2>1. Takes(p, b)
      BY <1>2, <1>12, <1>13 DEF Takes
    <2>2. b.lastProcessed <= b.lastProcessed
      BY <1>8
    <2> HIDE DEF m, n
    <2>3. Head(inbox[p]).type = "event" => Head(inbox[p]).offset <= b.lastProcessed
      BY <1>13 DEF m, n
    <2> QED
      BY <1>2, <1>7, <1>8, <1>9, <1>10, <2>1, <2>2, <2>3, RecoveryTakes
  <1>14. CASE m.type = "event" /\ IsNew(b, n)
    <2> DEFINE r == Handle(b.book, queue[n + 1], n)
               nb == [live |-> b.live, book |-> r.book, lastProcessed |-> n,
                      lastSaved |-> b.lastSaved, saving |-> b.saving]
    <2>1. n > b.lastProcessed
      BY <1>14 DEF IsNew
    <2>2. n \in 0 .. Len(queue) - 1 /\ PairOf(n) = p /\ r.book = Replayed(p, n) /\ r.book \in Books
      BY <1>2, <1>14, <2>1, HandlesNext
    <2>3. n \in Nrs /\ b.lastProcessed <= n
      BY <1>4, <1>8, <2>1, <2>2 DEF Nrs
    <2>4. books' = [books EXCEPT ![p].book = r.book, ![p].lastProcessed = n]
      BY <1>2, <1>14 DEF HandleEvent
    <2> HIDE DEF r, n, m, b
    <2>5. nb = [[b EXCEPT !.book = r.book] EXCEPT !.lastProcessed = n]
      <3> DEFINE c == [live |-> b.live, book |-> r.book, lastProcessed |-> b.lastProcessed,
                       lastSaved |-> b.lastSaved, saving |-> b.saving]
      <3>1. c = [b EXCEPT !.book = r.book]
        BY <1>7 DEF BookActors
      <3>2. nb = [c EXCEPT !.lastProcessed = n]
        OBVIOUS
      <3> HIDE DEF c, nb
      <3> QED
        BY <3>1, <3>2
    <2>6. /\ nb \in BookActors /\ nb.live /\ nb.lastSaved = b.lastSaved
          /\ nb.lastProcessed = n /\ nb.book = r.book /\ nb.saving = b.saving
      BY <1>2, <1>6, <1>8, <2>2 DEF BookActors
    <2>7. books' = [books EXCEPT ![p] = nb]
      BY <1>1, <2>4, <2>5 DEF TypeOK, b
    <2> HIDE DEF nb
    <2>8. Takes(p, nb)
      BY <1>2, <2>7 DEF Takes
    <2>9. nb.saving # NoSnapshot =>
           /\ nb.saving.nr > nb.lastSaved /\ nb.saving.nr < unread
           /\ nb.saving.book = Replayed(p, nb.saving.nr)
           /\ \A k \in 0 .. Len(queue) - 1 :
                PairOf(k) = p /\ k <= nb.saving.nr => k <= nb.lastProcessed
      <3>1. SUFFICES ASSUME nb.saving # NoSnapshot, NEW k \in 0 .. Len(queue) - 1,
                            PairOf(k) = p, k <= nb.saving.nr
                     PROVE  k <= nb.lastProcessed
        BY <1>9, <2>6
      <3>2. k <= b.lastProcessed /\ k \in Int
        BY <1>4, <1>9, <2>6, <3>1
      <3> QED
        BY <1>6, <1>8, <2>3, <2>6, <3>2
    <2>10. \/ nb.lastProcessed <= nb.lastSaved
           \/ /\ nb.lastProcessed < unread
              /\ \A i \in DOMAIN Tail(inbox[p]) : nb.lastProcessed <= Tail(inbox[p])[i].offset
      BY <1>6, <1>11, <2>6
    <2>11. /\ nb.lastSaved = books[p].lastSaved /\ books[p].lastProcessed <= nb.lastProcessed
           /\ nb.lastProcessed \in Nrs /\ nb.book = Replayed(p, nb.lastProcessed)
           /\ Head(inbox[p]).type = "event" => Head(inbox[p]).offset <= nb.lastProcessed
      <3>1. n <= n
        BY <1>6
      <3> QED
        BY <2>2, <2>3, <2>6, <3>1 DEF b, n, m
    <2> QED
      BY <1>2, <2>6, <2>8, <2>9, <2>10, <2>11, RecoveryTakes
  <1>15. CASE m.type = "event" /\ ~IsNew(b, n)
    <2>1. books' = books /\ n <= b.lastProcessed
      BY <1>2, <1>6, <1>8, <1>15 DEF HandleEvent, IsNew
    <2> QED
      BY <1>13, <2>1
  <1>16. CASE m.type # "event" /\ b.saving = NoSnapshot /\ b.lastSaved < n
    <2> DEFINE s == [nr |-> n, book |-> b.book]
               nb == [live |-> b.live, book |-> b.book, lastProcessed |-> b.lastProcessed,
                      lastSaved |-> b.lastSaved, saving |-> s]
    <2>1. books' = [books EXCEPT ![p].saving = s] /\ m.type = "save"
      BY <1>2, <1>6, <1>16 DEF HandleSaveSnapshot, Messages
    <2>2. b.lastProcessed <= n
      BY <1>6, <1>7, <1>8, <1>16 DEF BehindMail
    <2>3. \A k \in 0 .. Len(queue) - 1 : PairOf(k) = p /\ k <= n => k <= b.lastProcessed
      <3>1. SUFFICES ASSUME NEW k \in 0 .. Len(queue) - 1, PairOf(k) = p, k <= n
                     PROVE  k <= b.lastProcessed
        OBVIOUS
      <3>2. k < n \/ k = n
        BY <1>6, <3>1
      <3> QED
        BY <1>2, <2>1, <3>1, <3>2, NothingBetween
    <2> HIDE DEF n, m, b
    <2>4. s.book = Replayed(p, n)
      <3> DEFINE f == After(queue, p)
                 last == b.lastProcessed
      <3>1. last + 1 \in 0 .. Len(queue) /\ n + 1 \in 0 .. Len(queue) /\ last + 1 <= n + 1 /\ last \in Int
        BY <1>4, <1>5, <1>6, <1>8, <2>2 DEF Nrs
      <3>2. \A i \in 1 .. Len(queue) : last + 1 < i /\ i <= n + 1 => queue[i].order.pair # p
        <4> HIDE DEF last
        <4>1. SUFFICES ASSUME NEW i \in 1 .. Len(queue), last + 1 < i, i <= n + 1
                       PROVE  queue[i].order.pair # p
          OBVIOUS
        <4>2. i - 1 \in 0 .. Len(queue) - 1 /\ last < i - 1 /\ i - 1 <= n /\ (i - 1) + 1 = i
          BY <1>4, <1>6, <3>1, <4>1
        <4>3. PairOf(i - 1) # p
          BY <2>3, <3>1, <4>2 DEF last
        <4> QED
          BY <4>2, <4>3 DEF PairOf
      <3> HIDE DEF last
      <3>3. f[n + 1] = f[last + 1]
        BY <1>4, <3>1, <3>2, AfterSkips
      <3> QED
        BY <1>8, <3>3 DEF Replayed, last
    <2>5. s \in Snapshots /\ s.nr = n
      BY <1>6, <1>8 DEF Snapshots
    <2> HIDE DEF s
    <2>6. nb = [b EXCEPT !.saving = s]
      BY <1>7 DEF BookActors
    <2>7. /\ nb \in BookActors /\ nb.live /\ nb.lastSaved = b.lastSaved
          /\ nb.lastProcessed = b.lastProcessed /\ nb.book = b.book /\ nb.saving = s
      BY <1>2, <1>8, <2>5 DEF BookActors
    <2>8. books' = [books EXCEPT ![p] = nb]
      BY <1>1, <2>1, <2>6 DEF TypeOK, b
    <2> HIDE DEF nb
    <2>9. Takes(p, nb)
      BY <1>2, <2>8 DEF Takes
    <2>10. nb.saving # NoSnapshot =>
           /\ nb.saving.nr > nb.lastSaved /\ nb.saving.nr < unread
           /\ nb.saving.book = Replayed(p, nb.saving.nr)
           /\ \A k \in 0 .. Len(queue) - 1 :
                PairOf(k) = p /\ k <= nb.saving.nr => k <= nb.lastProcessed
      BY <1>6, <1>16, <2>3, <2>4, <2>5, <2>7
    <2>11. /\ nb.lastSaved = books[p].lastSaved /\ books[p].lastProcessed <= nb.lastProcessed
           /\ nb.lastProcessed \in Nrs /\ nb.book = Replayed(p, nb.lastProcessed)
      BY <1>8, <2>7 DEF b
    <2>12. Head(inbox[p]).type = "event" => Head(inbox[p]).offset <= nb.lastProcessed
      BY <1>16 DEF m
    <2>13. \/ nb.lastProcessed <= nb.lastSaved
           \/ /\ nb.lastProcessed < unread
              /\ \A i \in DOMAIN Tail(inbox[p]) : nb.lastProcessed <= Tail(inbox[p])[i].offset
      BY <1>10, <2>7
    <2> QED
      BY <1>2, <2>7, <2>9, <2>10, <2>11, <2>12, <2>13, RecoveryTakes
  <1>17. CASE m.type # "event" /\ ~(b.saving = NoSnapshot /\ b.lastSaved < n)
    <2>1. books' = books
      BY <1>2, <1>17 DEF HandleSaveSnapshot
    <2> QED
      BY <1>13, <1>17, <2>1
  <1> QED
    BY <1>14, <1>15, <1>16, <1>17

\* A snapshot becomes durable.
LEMMA RecoverySnapshotSaved ==
  ASSUME RecoveryInv, NEW p \in Pairs, SnapshotSaved(p)
  PROVE  RecoveryInv'
  <1> DEFINE b == books[p]
             s == books[p].saving
             nb == [live |-> b.live, book |-> b.book, lastProcessed |-> b.lastProcessed,
                    lastSaved |-> s.nr, saving |-> NoSnapshot]
  <1>1. /\ TypeOK /\ StoredExact /\ Recorded /\ Deleted /\ Journalled /\ BooksExact
        /\ Starting /\ Mailboxes /\ Read /\ Behind
    BY DEF RecoveryInv
  <1>2. /\ Len(queue) \in Nat
        /\ \A n \in 0 .. Len(queue) - 1 : PairOf(n) \in Pairs
        /\ NextOffset \in 0 .. Len(queue) /\ unread <= NextOffset
    BY Basics
  <1>3. /\ Exists(p) /\ s # NoSnapshot /\ journalling = {}
        /\ stored' = [stored EXCEPT ![p] = s] /\ updates' = updates \cup {<<p, s.nr>>}
        /\ books' = [books EXCEPT ![p].lastSaved = s.nr, ![p].saving = NoSnapshot]
        /\ UNCHANGED <<queue, oldestIdx, journal, journalling, unread, matcher, inbox>>
    BY DEF SnapshotSaved, PromptJournal, Exists
  <1>4. b \in BookActors /\ BookExact(p)
    BY <1>1, <1>3 DEF TypeOK, Exists, BooksExact
  <1>5. s \in Snapshots /\ s.nr \in Int /\ s.book \in Books
    <2>1. s \in Snapshots
      BY <1>3, <1>4 DEF BookActors
    <2> QED
      BY <2>1 DEF Snapshots
  <1>6. /\ b.live /\ s.nr > b.lastSaved /\ s.nr < unread /\ s.book = Replayed(p, s.nr)
        /\ Covers(p, s.nr) /\ b.lastSaved = stored[p].nr /\ b.lastProcessed \in Nrs
        /\ b.book = Replayed(p, b.lastProcessed)
    BY <1>3, <1>4 DEF BookExact
  <1>7. matcher.working
    BY <1>1, <1>3 DEF Starting
  <1>8. unread \in Nat /\ unread <= Len(queue) /\ stored[p].nr \in Nrs /\ stored[p] \in Snapshots
    BY <1>1, <1>2 DEF TypeOK, StoredExact
  <1>9. s.nr \in Nrs /\ stored[p].nr < s.nr /\ stored[p].nr \in Int
    BY <1>2, <1>5, <1>6, <1>8 DEF Nrs
  <1>10. b.lastSaved \in Int /\ b.lastProcessed \in Int /\ b.book \in Books
    BY <1>4 DEF BookActors
  <1> HIDE DEF b, s
  <1>11. /\ nb \in BookActors /\ nb.live /\ nb.lastSaved = s.nr
         /\ nb.lastProcessed = b.lastProcessed /\ nb.book = b.book /\ nb.saving = NoSnapshot
    BY <1>5, <1>6, <1>10 DEF BookActors
  <1>12. books' = [books EXCEPT ![p] = nb]
    <2> DEFINE c == [live |-> b.live, book |-> b.book, lastProcessed |-> b.lastProcessed,
                     lastSaved |-> s.nr, saving |-> b.saving]
    <2>1. c = [b EXCEPT !.lastSaved = s.nr]
      BY <1>4 DEF BookActors
    <2>2. nb = [c EXCEPT !.saving = NoSnapshot]
      OBVIOUS
    <2> HIDE DEF c, nb
    <2>3. nb = [[b EXCEPT !.lastSaved = s.nr] EXCEPT !.saving = NoSnapshot]
      BY <2>1, <2>2
    <2> QED
      BY <1>1, <1>3, <2>3 DEF TypeOK, b
  <1> HIDE DEF nb
  <1>13. nb # NoBook
    BY <1>11, NothingAssumption
  <1>14. /\ DOMAIN books = Pairs /\ books'[p] = nb
         /\ \A q \in Pairs : q # p => books'[q] = books[q]
         /\ DOMAIN stored = Pairs /\ stored'[p] = s
         /\ \A q \in Pairs : q # p => stored'[q] = stored[q]
    BY <1>1, <1>3, <1>12 DEF TypeOK
  <1>15. \A q \in Pairs : Exists(q)' <=> Exists(q)
    BY <1>3, <1>13, <1>14 DEF Exists
  <1>16. TypeOK'
    <2>1. books' \in [Pairs -> BookActors \cup {NoBook}]
      BY <1>1, <1>11, <1>12 DEF TypeOK
    <2>2. updates' \subseteq Pairs \X Int
      BY <1>1, <1>3, <1>5 DEF TypeOK
    <2>3. stored' \in [Pairs -> Snapshots]
      BY <1>1, <1>3, <1>5 DEF TypeOK
    <2> QED
      BY <1>1, <1>3, <2>1, <2>2, <2>3 DEF TypeOK
  <1>17. StoredExact'
    <2>1. SUFFICES ASSUME NEW q \in Pairs
                   PROVE  stored'[q].nr \in Nrs' /\ stored'[q].book = Replayed(q, stored[q].nr)'
      BY DEF StoredExact
    <2>2. CASE q = p
      BY <1>3, <1>6, <1>9, <1>14, <2>2 DEF Nrs, Replayed
    <2>3. CASE q # p
      BY <1>1, <1>3, <1>14, <2>3 DEF StoredExact, Nrs, Replayed
    <2> QED
      BY <2>2, <2>3
  <1>18. Recorded'
    <2>1. SUFFICES ASSUME NEW q \in Pairs
                   PROVE  /\ \A n \in 0 .. Len(queue) - 1 : n <= stored'[q].nr => PairOf(n) \in journal
                          /\ stored'[q].nr >= 0 => q \in journal
      BY <1>3 DEF Recorded, PairOf
    <2>2. CASE q = p
      <3>1. p \in journal
        BY <1>1, <1>3 DEF Journalled
      <3>2. ASSUME NEW n \in 0 .. Len(queue) - 1, n <= s.nr PROVE PairOf(n) \in journal
        <4>1. n \in 0 .. NextOffset - 1
          BY <1>2, <1>5, <1>6, <1>8, <3>2 DEF s
        <4>2. Exists(PairOf(n)) /\ PairOf(n) \in Pairs
          BY <1>1, <1>2, <1>7, <4>1 DEF Read
        <4> QED
          BY <1>1, <1>3, <4>2 DEF Journalled
      <3> QED
        BY <1>14, <2>2, <3>1, <3>2
    <2>3. CASE q # p
      BY <1>1, <1>14, <2>3 DEF Recorded
    <2> QED
      BY <2>2, <2>3
  <1>19. Deleted'
    <2>1. SUFFICES ASSUME NEW n \in 0 .. oldestIdx - 1
                   PROVE  n <= stored'[PairOf(n)].nr /\ PairOf(n) \in journal
      BY <1>3 DEF Deleted, PairOf
    <2>2. n <= stored[PairOf(n)].nr /\ PairOf(n) \in journal /\ PairOf(n) \in Pairs
      BY <1>1 DEF Deleted, TypeOK
    <2>3. CASE PairOf(n) = p
      <3>1. n \in Int
        OBVIOUS
      <3> QED
        BY <1>5, <1>9, <1>14, <2>2, <2>3, <3>1 DEF s
    <2>4. CASE PairOf(n) # p
      BY <1>14, <2>2, <2>4
    <2> QED
      BY <2>3, <2>4
  <1>20. Journalled'
    BY <1>1, <1>3, <1>15 DEF Journalled
  <1>21. BooksExact'
    <2>1. SUFFICES ASSUME NEW q \in Pairs, Exists(q)' PROVE BookExact(q)'
      BY DEF BooksExact
    <2>2. CASE q = p
      <3>1. Covers(p, books[p].lastSaved)'
        BY <1>3, <1>6, <1>11, <1>14 DEF Covers, PairOf, b
      <3>2. /\ books'[p].live /\ books'[p].saving = NoSnapshot
            /\ books'[p].lastSaved = stored'[p].nr
            /\ books'[p].lastProcessed \in Nrs'
            /\ books'[p].book = Replayed(p, books[p].lastProcessed)'
        BY <1>3, <1>6, <1>11, <1>14 DEF Nrs, Replayed
      <3> QED
        BY <2>2, <3>1, <3>2 DEF BookExact
    <2>3. CASE q # p
      <3>1. BookExact(q) /\ books'[q] = books[q] /\ stored'[q] = stored[q]
        BY <1>1, <1>14, <1>15, <2>1, <2>3 DEF BooksExact
      <3> QED
        BY <1>3, <3>1 DEF BookExact, Covers, PairOf, Replayed, Nrs
    <2> QED
      BY <2>2, <2>3
  <1>22. Starting'
    BY <1>3, <1>7 DEF Starting
  <1>23. Mailboxes'
    BY <1>1, <1>3 DEF Mailboxes, Mailbox, PairOf
  <1>24. Read'
    <2>1. SUFFICES ASSUME matcher.working, NEW n \in 0 .. NextOffset - 1
          PROVE  Exists(PairOf(n))' /\ Handled(n)'
      BY <1>3 DEF Read, NextOffset
    <2>2. PairOf(n)' = PairOf(n) /\ PairOf(n) \in Pairs /\ n \in Int
      BY <1>2, <1>3, <2>1 DEF PairOf
    <2>3. Exists(PairOf(n)) /\ Handled(n)
      BY <1>1, <2>1 DEF Read
    <2>4. Exists(PairOf(n))'
      BY <1>15, <2>2, <2>3 DEF Exists
    <2>5. CASE PairOf(n) # p
      BY <1>3, <1>14, <2>2, <2>3, <2>4, <2>5 DEF Handled, Forwarded
    <2>6. CASE PairOf(n) = p
      <3>1. n <= stored[p].nr => n <= s.nr
        BY <1>5, <1>9, <2>2 DEF s
      <3>2. n <= s.nr \/ n <= b.lastProcessed \/ Forwarded(n)
        BY <2>3, <2>6, <3>1 DEF Handled, b
      <3>3. Forwarded(n) => Forwarded(n)'
        BY <1>3, <2>2 DEF Forwarded
      <3> QED
        BY <1>11, <1>14, <2>2, <2>4, <2>6, <3>2, <3>3 DEF Handled
    <2> QED
      BY <2>5, <2>6
  <1>25. Behind'
    <2>1. SUFFICES ASSUME NEW q \in Pairs, Exists(q)' PROVE BehindMail(q)'
      BY DEF Behind
    <2>2. CASE q = p
      <3>1. BehindMail(p)
        BY <1>1, <1>3 DEF Behind
      <3>2. CASE b.lastProcessed <= b.lastSaved
        <4>1. b.lastProcessed <= s.nr
          BY <1>5, <1>6, <1>10, <3>2 DEF s
        <4> QED
          BY <1>11, <1>14, <2>2, <4>1 DEF BehindMail
      <3>3. CASE ~(b.lastProcessed <= b.lastSaved)
        BY <1>3, <1>11, <1>14, <2>2, <3>1, <3>3 DEF BehindMail, b
      <3> QED
        BY <3>2, <3>3
    <2>3. CASE q # p
      BY <1>1, <1>3, <1>14, <1>15, <2>1, <2>3 DEF Behind, BehindMail
    <2> QED
      BY <2>2, <2>3
  <1> QED
    BY <1>16, <1>17, <1>18, <1>19, <1>20, <1>21, <1>22, <1>23, <1>24, <1>25 DEF RecoveryInv

\* The next offset at which a pair is due is one.
LEMMA NextIsOffset ==
  ASSUME NEW p \in Pairs, NEW nr \in Int, NEW last \in Int
  PROVE  NextSnapshotOffset(p, nr, last) \in Int
  <1> DEFINE I == SnapshotsInterval
             k == IF nr < 0 THEN 0 ELSE nr \div I
             z == k * I + SnapshotOffset[p]
             j == (last - z) \div I
  <1>1. I \in Nat \ {0} /\ SnapshotOffset[p] \in Int
    BY IntervalAssumption
  <1>2. k \in Int
    BY <1>1
  <1> HIDE DEF k
  <1>3. z \in Int
    BY <1>1, <1>2
  <1> HIDE DEF z
  <1>4. j \in Int
    BY <1>1, <1>3
  <1> HIDE DEF j
  <1>5. z + I * (j + 1) \in Int
    BY <1>1, <1>3, <1>4
  <1> QED
    BY <1>3, <1>5 DEF NextSnapshotOffset, z, k, j

\* Consumption starts from the oldest snapshot.
LEMMA OldestIs ==
  ASSUME NEW offsets \in SUBSET (Pairs \X Int), offsets # {}, \A x \in offsets : x[2] >= -1
  PROVE  /\ \E x \in offsets : StartOffset(offsets) = x[2]
         /\ \A x \in offsets : StartOffset(offsets) <= x[2]
  <1> DEFINE S == {x[2] + 1 : x \in offsets}
  <1>1. \A x \in offsets : x[2] \in Int /\ x[2] + 1 \in Nat
    OBVIOUS
  <1>2. S \subseteq Nat /\ S # {}
    BY <1>1
  <1>3. PICK m \in S : \A k \in S : m <= k
    <2> HIDE DEF S
    <2> QED
      BY <1>2, Least
  <1>4. PICK y \in offsets : m = y[2] + 1
    OBVIOUS
  <1>5. \A x \in offsets : y[2] <= x[2]
    <2>1. SUFFICES ASSUME NEW x \in offsets PROVE y[2] <= x[2]
      OBVIOUS
    <2>2. y[2] + 1 <= x[2] + 1
      BY <1>3, <1>4
    <2> QED
      BY <1>1, <2>2
  <1>6. \E n \in {x[2] : x \in offsets} : \A x \in offsets : n <= x[2]
    BY <1>5
  <1>7. StartOffset(offsets) \in {x[2] : x \in offsets} /\ \A x \in offsets : StartOffset(offsets) <= x[2]
    BY <1>6 DEF StartOffset
  <1> QED
    BY <1>7

\* MatcherActor that works: the pair of the report is due again.
LEMMA RecoveryRotates ==
  ASSUME RecoveryInv, matcher.working, NEW x \in updates, MatcherHandlesUpdate(x)
  PROVE  RecoveryInv'
  <1> DEFINE due == <<x[1], NextSnapshotOffset(x[1], x[2], matcher.lastProcessedNr)>>
  <1>1. /\ TypeOK /\ StoredExact /\ Recorded /\ Deleted /\ Journalled /\ BooksExact
        /\ Starting /\ Mailboxes /\ Read /\ Behind
    BY DEF RecoveryInv
  <1>2. /\ UNCHANGED <<queue, oldestIdx, journal, journalling, stored, unread, books, inbox>>
        /\ updates' = updates \ {x}
        /\ matcher' = [matcher EXCEPT !.nearest = @ \cup {due}]
    BY DEF MatcherHandlesUpdate, stores
  <1>3. x \in Pairs \X Int /\ x[1] \in Pairs /\ x[2] \in Int /\ matcher \in Matchers
    BY <1>1 DEF TypeOK
  <1>4. matcher.lastProcessedNr \in Int /\ matcher.nearest \in SUBSET (Pairs \X Int)
    BY <1>3 DEF Matchers
  <1>5. due \in Pairs \X Int
    BY <1>3, <1>4, NextIsOffset
  <1> HIDE DEF due
  <1>6. /\ matcher' \in Matchers /\ matcher'.working = matcher.working
        /\ matcher'.offsets = matcher.offsets
    BY <1>2, <1>3, <1>4, <1>5 DEF Matchers
  <1>7. TypeOK'
    BY <1>1, <1>2, <1>6 DEF TypeOK
  <1>8. StoredExact'
    BY <1>1, <1>2 DEF StoredExact, Nrs, Replayed
  <1>9. Recorded' /\ Deleted' /\ Journalled'
    BY <1>1, <1>2 DEF Recorded, Deleted, PairOf, Journalled, Exists
  <1>10. BooksExact'
    <2>1. \A q : BookExact(q)' = BookExact(q) /\ Exists(q)' = Exists(q)
      BY <1>2 DEF BookExact, Covers, PairOf, Replayed, Nrs, Exists
    <2> QED
      BY <1>1, <2>1 DEF BooksExact
  <1>11. Starting'
    BY <1>6 DEF Starting
  <1>12. Mailboxes'
    BY <1>1, <1>2 DEF Mailboxes, Mailbox, PairOf
  <1>13. Read'
    BY <1>1, <1>2, <1>6 DEF Read, Exists, Handled, Forwarded, NextOffset, PairOf
  <1>14. Behind'
    BY <1>1, <1>2 DEF Behind, BehindMail, Exists
  <1> QED
    BY <1>7, <1>8, <1>9, <1>10, <1>11, <1>12, <1>13, <1>14 DEF RecoveryInv

\* MatcherActor that collects the books' reports: with the last one it starts to
\* consume, and everything below its start is in the snapshot of its pair.
LEMMA RecoveryCollects ==
  ASSUME RecoveryInv, ~matcher.working, NEW x \in updates, MatcherHandlesUpdate(x)
  PROVE  RecoveryInv'
  <1> DEFINE offsets == matcher.offsets \cup {x}
             last == {y[1] : y \in offsets} = {p \in Pairs : books[p] # NoBook}
             from == StartOffset(offsets) + 1
  <1>1. /\ TypeOK /\ StoredExact /\ Recorded /\ Deleted /\ Journalled /\ BooksExact
        /\ Starting /\ Mailboxes /\ Read /\ Behind
    BY DEF RecoveryInv
  <1>2. /\ Len(queue) \in Nat
        /\ \A n \in 0 .. Len(queue) - 1 : PairOf(n) \in Pairs
    BY Basics
  <1>3. /\ UNCHANGED <<queue, journal, journalling, stored, books, inbox>>
        /\ updates' = updates \ {x} /\ CollectOrderBook(x)
    BY DEF MatcherHandlesUpdate, stores
  <1>4. /\ journalling = {} /\ unread = 0
        /\ \A p \in Pairs : inbox[p] = <<>> /\ (Exists(p) => books[p].saving = NoSnapshot)
        /\ \A y \in matcher.offsets \cup updates : y[1] \in LiveBooks /\ y[2] = stored[y[1]].nr
    BY <1>1 DEF Starting
  <1>5. \A p \in Pairs : stored[p].nr \in -1 .. Len(queue) - 1
    BY <1>1 DEF StoredExact, Nrs
  <1>6. /\ matcher \in Matchers /\ offsets \in SUBSET (Pairs \X Int) /\ offsets # {}
        /\ updates \subseteq Pairs \X Int /\ matcher.lastProcessedNr \in Nat
    BY <1>1 DEF TypeOK, Matchers
  <1>7. \A y \in offsets : /\ y[1] \in LiveBooks /\ y[1] \in Pairs /\ y[2] = stored[y[1]].nr
                           /\ y[2] \in -1 .. Len(queue) - 1
    BY <1>4, <1>5, <1>6
  <1>8. oldestIdx \in 0 .. Len(queue)
    BY <1>1 DEF TypeOK
  <1> HIDE DEF offsets, last, from
  <1>9. /\ from \in 0 .. Len(queue) /\ \E y \in offsets : from = y[2] + 1
        /\ \A y \in offsets : from <= y[2] + 1
    <2>1. \A y \in offsets : y[2] >= -1
      BY <1>7
    <2>2. /\ \E y \in offsets : StartOffset(offsets) = y[2]
          /\ \A y \in offsets : StartOffset(offsets) <= y[2]
      BY <1>6, <2>1, OldestIs
    <2> QED
      BY <1>2, <1>7, <2>2 DEF from
  <1>10. CASE last
    <2>1. /\ matcher' = [matcher EXCEPT !.working = TRUE, !.offsets = {},
                                        !.startOffset = matcher.lastProcessedNr,
                                        !.nearest = InitiallyNearest(offsets)]
          /\ unread' = from /\ oldestIdx' = Later(oldestIdx, from)
      BY <1>3, <1>10 DEF CollectOrderBook, last, offsets, from
    <2>2. InitiallyNearest(offsets) \in SUBSET (Pairs \X Int)
      <3>1. SUFFICES ASSUME NEW y \in offsets
                     PROVE  <<y[1], y[2] + NextSnapshotOffset(y[1], y[2], 0)>> \in Pairs \X Int
        BY DEF InitiallyNearest
      <3>2. y[1] \in Pairs /\ y[2] \in Int
        BY <1>7
      <3>3. NextSnapshotOffset(y[1], y[2], 0) \in Int
        BY <3>2, NextIsOffset
      <3> QED
        BY <3>2, <3>3
    <2>3. matcher' \in Matchers /\ matcher'.working
      <3> DEFINE near == InitiallyNearest(offsets)
                 m == [working |-> TRUE, offsets |-> {}, lastProcessedNr |-> matcher.lastProcessedNr,
                       startOffset |-> matcher.lastProcessedNr, nearest |-> near]
      <3> HIDE DEF near
      <3>1. matcher' = m
        BY <1>6, <2>1 DEF Matchers, near
      <3>2. near \in SUBSET (Pairs \X Int)
        BY <2>2 DEF near
      <3> QED
        BY <1>6, <3>1, <3>2 DEF Matchers
    <2>4. /\ oldestIdx' \in 0 .. Len(queue) /\ oldestIdx' >= from
          /\ oldestIdx' = oldestIdx \/ oldestIdx' = from
      BY <1>8, <1>9, <2>1 DEF Later
    <2>5. TypeOK'
      BY <1>1, <1>3, <1>9, <2>1, <2>3, <2>4 DEF TypeOK
    <2>6. StoredExact'
      BY <1>1, <1>3 DEF StoredExact, Nrs, Replayed
    <2>7. Recorded' /\ Journalled'
      BY <1>1, <1>3 DEF Recorded, Journalled, Exists, PairOf
    <2>8. Deleted'
      <3>1. SUFFICES ASSUME NEW n \in 0 .. oldestIdx' - 1
                     PROVE  n <= stored[PairOf(n)].nr /\ PairOf(n) \in journal
        BY <1>3 DEF Deleted, PairOf
      <3>2. CASE n < oldestIdx
        <4>1. n \in 0 .. oldestIdx - 1
          BY <1>8, <3>2
        <4> QED
          BY <1>1, <4>1 DEF Deleted
      <3>3. CASE n < from
        <4>1. n \in 0 .. Len(queue) - 1 /\ PairOf(n) \in Pairs /\ n \in Int /\ from \in Int
          BY <1>2, <1>9, <3>3
        <4>2. \A y \in offsets : n <= y[2]
          BY <1>7, <1>9, <3>3, <4>1
        <4>3. PairOf(n) \in journal
          BY <1>1, <1>6, <1>7, <4>1, <4>2 DEF Recorded
        <4>4. PairOf(n) \in {p \in Pairs : books[p] # NoBook}
          BY <1>1, <4>1, <4>3 DEF Journalled, Exists
        <4>5. \E y \in offsets : y[1] = PairOf(n)
          BY <1>10, <4>4 DEF last
        <4> QED
          BY <1>7, <4>2, <4>3, <4>5
      <3>4. n < oldestIdx \/ n < from
        <4>1. PICK old, new : old = oldestIdx /\ new = oldestIdx'
          OBVIOUS
        <4>2. old \in 0 .. Len(queue) /\ new \in 0 .. Len(queue) /\ n \in 0 .. new - 1
          BY <1>8, <2>4, <4>1
        <4>3. from \in 0 .. Len(queue)
          BY <1>9
        <4>4. new = old \/ new = from
          BY <2>4, <4>1
        <4>5. n < new /\ n \in Int /\ old \in Int /\ from \in Int
          BY <1>2, <4>2, <4>3
        <4> QED
          BY <4>1, <4>4, <4>5
      <3> QED
        BY <3>2, <3>3, <3>4
    <2>9. BooksExact'
      <3>1. \A q \in Pairs : Exists(q)' => BookExact(q) /\ books[q].saving = NoSnapshot
        BY <1>1, <1>3, <1>4 DEF BooksExact, Exists
      <3> QED
        BY <1>3, <3>1 DEF BooksExact, BookExact, Covers, PairOf, Replayed, Nrs
    <2>10. Starting'
      BY <2>3 DEF Starting
    <2>11. Mailboxes'
      BY <1>3, <1>4 DEF Mailboxes, Mailbox
    <2>12. Read'
      <3>1. NextOffset' = oldestIdx'
        BY <1>8, <1>9, <2>1, <2>4 DEF NextOffset, Later
      <3>2. SUFFICES ASSUME NEW n \in 0 .. oldestIdx' - 1
                     PROVE  Exists(PairOf(n))' /\ Handled(n)'
        BY <3>1 DEF Read
      <3>3. /\ n <= stored[PairOf(n)].nr /\ PairOf(n) \in journal
            /\ PairOf(n)' = PairOf(n) /\ PairOf(n) \in Pairs
        BY <1>1, <1>3, <2>8, <3>2 DEF Deleted, PairOf, TypeOK
      <3> QED
        BY <1>1, <1>3, <3>3 DEF Journalled, Exists, Handled
    <2>13. Behind'
      <3>1. SUFFICES ASSUME NEW q \in Pairs, Exists(q) PROVE books[q].lastProcessed <= books[q].lastSaved
        BY <1>3 DEF Behind, BehindMail, Exists
      <3>2. BehindMail(q) /\ BookExact(q)
        BY <1>1, <3>1 DEF Behind, BooksExact
      <3>3. CASE ~books[q].live
        BY <3>2, <3>3 DEF BookExact, Recovering
      <3>4. CASE books[q].live
        <4>1. books[q].lastProcessed \in Nrs /\ books[q].lastSaved = stored[q].nr
          BY <3>2, <3>4 DEF BookExact
        <4> QED
          BY <1>2, <1>4, <1>5, <3>2, <4>1 DEF BehindMail, Nrs
      <3> QED
        BY <3>3, <3>4
    <2> QED
      BY <2>5, <2>6, <2>7, <2>8, <2>9, <2>10, <2>11, <2>12, <2>13 DEF RecoveryInv
  <1>11. CASE ~last
    <2>1. matcher' = [matcher EXCEPT !.offsets = offsets] /\ UNCHANGED <<unread, oldestIdx>>
      BY <1>3, <1>11 DEF CollectOrderBook, last, offsets
    <2>2. matcher' \in Matchers /\ ~matcher'.working /\ matcher'.offsets = offsets
      BY <1>6, <2>1 DEF Matchers
    <2>3. TypeOK'
      BY <1>1, <1>3, <2>1, <2>2 DEF TypeOK
    <2>4. StoredExact'
      BY <1>1, <1>3 DEF StoredExact, Nrs, Replayed
    <2>5. Recorded' /\ Deleted' /\ Journalled'
      BY <1>1, <1>3, <2>1 DEF Recorded, Deleted, PairOf, Journalled, Exists
    <2>6. BooksExact'
      <3>1. \A q : BookExact(q)' = BookExact(q) /\ Exists(q)' = Exists(q)
        BY <1>3, <2>1 DEF BookExact, Covers, PairOf, Replayed, Nrs, Exists
      <3> QED
        BY <1>1, <3>1 DEF BooksExact
    <2>7. Starting'
      <3>1. \A y \in offsets \cup updates' : y[1] \in LiveBooks /\ y[2] = stored[y[1]].nr
        BY <1>3, <1>4, <1>7
      <3> QED
        BY <1>3, <1>4, <2>1, <2>2, <3>1 DEF Starting, LiveBooks, Exists
    <2>8. Mailboxes'
      BY <1>3, <1>4 DEF Mailboxes, Mailbox
    <2>9. Read'
      BY <2>2 DEF Read
    <2>10. Behind'
      BY <1>1, <1>3, <2>1 DEF Behind, BehindMail, Exists
    <2> QED
      BY <2>3, <2>4, <2>5, <2>6, <2>7, <2>8, <2>9, <2>10 DEF RecoveryInv
  <1> QED
    BY <1>10, <1>11

\* Every step preserves the invariant.
LEMMA RecoveryNext ==
  ASSUME RecoveryInv, [Next]_vars
  PROVE  RecoveryInv'
  <1>1. CASE Enqueue
    BY <1>1, RecoveryEnqueue
  <1>2. CASE Restart
    BY <1>2, RecoveryRestart
  <1>3. CASE Step
    <2>1. CASE MatcherHandlesEvent
      BY <2>1, RecoveryHandlesEvent
    <2>2. ASSUME NEW p \in Pairs,
                 JournalWritten(p) \/ BookRecovered(p) \/ BookHandles(p) \/ SnapshotSaved(p)
          PROVE  RecoveryInv'
      BY <2>2, RecoveryJournalWritten, RecoveryBookRecovered, RecoveryBookHandles,
         RecoverySnapshotSaved
    <2>3. ASSUME NEW x \in updates, MatcherHandlesUpdate(x) PROVE RecoveryInv'
      BY <2>3, RecoveryRotates, RecoveryCollects
    <2> QED
      BY <1>3, <2>1, <2>2, <2>3 DEF Step
  <1>4. CASE UNCHANGED vars
    BY <1>4, RecoveryStutters
  <1> QED
    BY <1>1, <1>2, <1>3, <1>4 DEF Next

\* The inductive invariant holds in every reachable state.
THEOREM Recovery == Spec => []RecoveryInv
  <1>1. RecoveryInv /\ [Next]_vars => RecoveryInv'
    BY RecoveryNext
  <1> QED
    BY <1>1, RecoveryInit, PTL DEF Spec

\* Replay is Replayed.
LEMMA ReplayIs == \A p, n : Replay(p, n) = Replayed(p, n)
  BY DEF Replay, Replayed, After

\* A book that has recovered, as the replay it is.
LEMMA LiveBookIs ==
  ASSUME RecoveryInv, NEW p \in LiveBooks
  PROVE  LET n == books[p].lastProcessed + 1
         IN  /\ p \in Pairs /\ n \in 0 .. Len(queue) /\ books[p].book = After(queue, p)[n]
             /\ GoodBook(books[p].book, Known(queue, p, n), When(queue))
  <1>1. TypeOK /\ BooksExact
    BY DEF RecoveryInv
  <1>2. p \in Pairs /\ Exists(p) /\ books[p].live
    BY DEF LiveBooks, Exists
  <1>3. Len(queue) \in Nat /\ GoodQueue(queue)
    BY <1>1, Basics DEF TypeOK
  <1>4. books[p].lastProcessed \in Nrs /\ books[p].book = Replayed(p, books[p].lastProcessed)
    BY <1>1, <1>2 DEF BooksExact, BookExact
  <1> DEFINE n == books[p].lastProcessed + 1
  <1>5. n \in 0 .. Len(queue) /\ books[p].book = After(queue, p)[n]
    BY <1>3, <1>4 DEF Nrs, Replayed
  <1> HIDE DEF n
  <1>6. GoodBook(After(queue, p)[n], Known(queue, p, n), When(queue))
    BY <1>3, <1>5, ReplayIsGood
  <1> QED
    BY <1>2, <1>5, <1>6 DEF n

\* A book is what the commands up to the last one it handled make of an empty
\* book, and so is each durable snapshot (OrderBookActor, MatcherSnapshotStore).
THEOREM BooksAreReplays == Spec => []BookIsReplay
  <1>1. RecoveryInv => BookIsReplay
    <2>1. SUFFICES ASSUME RecoveryInv PROVE BookIsReplay
      OBVIOUS
    <2>2. \A p \in LiveBooks : books[p].book = Replayed(p, books[p].lastProcessed)
      BY <2>1 DEF RecoveryInv, BooksExact, BookExact, LiveBooks, Exists
    <2>3. \A p \in Pairs : stored[p].book = Replayed(p, stored[p].nr)
      BY <2>1 DEF RecoveryInv, StoredExact
    <2> QED
      BY <2>2, <2>3, ReplayIs DEF BookIsReplay
  <1> QED
    BY <1>1, Recovery, PTL

\* What MatcherActor read since the start is handled by its book, is in its
\* snapshot, or on its way to it (MatcherActor.runFor, startConsume).
THEOREM NothingIsSkipped == Spec => []NothingSkipped
  <1>1. RecoveryInv => NothingSkipped
    <2>1. SUFFICES ASSUME RecoveryInv, matcher.working, NEW n \in 0 .. NextOffset - 1
                   PROVE  /\ books[PairOf(n)] # NoBook
                          /\ \/ n <= stored[PairOf(n)].nr \/ n <= books[PairOf(n)].lastProcessed
                             \/ \E i \in DOMAIN inbox[PairOf(n)] : inbox[PairOf(n)][i] = EventMessage(n)
      BY DEF NothingSkipped
    <2>2. Exists(PairOf(n)) /\ Handled(n)
      BY <2>1 DEF RecoveryInv, Read
    <2> QED
      BY <2>2 DEF Exists, Handled, Forwarded
  <1> QED
    BY <1>1, Recovery, PTL

\* Price-time priority, and sides that do not cross, after any number of restarts
\* (OrderBook.place, OrderBook.doMatch).
THEOREM PriorityIsKept == Spec => []PriceTimePriority
  <1>1. RecoveryInv => PriceTimePriority
    <2>1. SUFFICES ASSUME RecoveryInv, NEW p \in LiveBooks
          PROVE  /\ \A side \in {"buy", "sell"} : \A i, j \in DOMAIN books[p].book[side] : i < j =>
                      /\ IsAhead(books[p].book[side][i], books[p].book[side][j])
                      /\ books[p].book[side][i].order.price = books[p].book[side][j].order.price =>
                           PlacedAt(books[p].book[side][i].order) < PlacedAt(books[p].book[side][j].order)
                 /\ \A bid \in ToSet(books[p].book["buy"]), ask \in ToSet(books[p].book["sell"]) :
                      bid.order.price < ask.order.price
      BY DEF PriceTimePriority
    <2> DEFINE n == books[p].lastProcessed + 1
               b == books[p].book
               A == Known(queue, p, n)
               when == When(queue)
    <2>2. n \in 0 .. Len(queue) /\ GoodBook(b, A, when)
      BY <2>1, LiveBookIs
    <2>3. GoodQueue(queue) /\ DOMAIN queue = 1 .. Len(queue) /\ Len(queue) \in Nat
      BY <2>1, Basics DEF RecoveryInv, TypeOK
    <2> HIDE DEF n
    <2>4. ASSUME NEW o \in A PROVE PlacedAt(o) = when[o]
      <3>1. PICK i \in 1 .. n : queue[i] = [type |-> "placed", order |-> o] /\ when[o] = i
        BY <2>2, <2>3, KnownOrders
      <3>2. i \in DOMAIN queue /\ queue[i].type = "placed" /\ queue[i].order = o
        BY <2>2, <2>3, <3>1
      <3>3. o \in {queue[k].order : k \in {j \in DOMAIN queue : queue[j].type = "placed"}}
        BY <3>2
      <3> QED
        BY <3>3 DEF PlacedAt, When
    <2> HIDE DEF A, when, b
    <2>5. ASSUME NEW side \in {"buy", "sell"}, NEW i \in DOMAIN b[side], NEW j \in DOMAIN b[side], i < j
          PROVE  /\ IsAhead(b[side][i], b[side][j])
                 /\ b[side][i].order.price = b[side][j].order.price =>
                      PlacedAt(b[side][i].order) < PlacedAt(b[side][j].order)
      <3>1. GoodSide(b[side], side, A, when)
        BY <2>2 DEF GoodBook
      <3>2. b[side] \in Seq(LimitOrders(A)) /\ InOrder(b[side], when)
        BY <3>1 DEF GoodSide
      <3>3. b[side][i] \in LimitOrders(A) /\ b[side][j] \in LimitOrders(A)
        BY <3>2
      <3>4. b[side][i].order \in A /\ b[side][j].order \in A
        BY <3>3 DEF LimitOrders
      <3> QED
        BY <2>4, <2>5, <3>2, <3>4 DEF InOrder
    <2>6. \A bid \in ToSet(b["buy"]), ask \in ToSet(b["sell"]) : bid.order.price < ask.order.price
      BY <2>2 DEF GoodBook, NotCrossed, OrdersIn, ToSet
    <2> QED
      BY <2>5, <2>6 DEF b
  <1> QED
    BY <1>1, Recovery, PTL

\* What rests in a book is of its pair and side and can be executed at its own
\* price (OrderBook.doMatch, LimitOrder.isValid).
THEOREM RestingStaysValid == Spec => []RestingIsValid
  <1>1. RecoveryInv => RestingIsValid
    <2>1. SUFFICES ASSUME RecoveryInv, NEW p \in LiveBooks, NEW side \in {"buy", "sell"},
                          NEW k \in DOMAIN books[p].book[side]
          PROVE  LET lo == books[p].book[side][k]
                 IN  /\ lo.order.pair = p /\ lo.order.side = side
                     /\ lo.amount \in 1 .. lo.order.amount
                     /\ Settled(lo.amount, lo.order.price) > 0
      BY DEF RestingIsValid
    <2> DEFINE n == books[p].lastProcessed + 1
               b == books[p].book
               A == Known(queue, p, n)
               lo == b[side][k]
    <2>2. n \in 0 .. Len(queue) /\ GoodBook(b, A, When(queue)) /\ GoodQueue(queue)
      BY <2>1, LiveBookIs DEF RecoveryInv, TypeOK
    <2> HIDE DEF n
    <2>3. \A o \in A : o.pair = p
      BY DEF Known, OfPair
    <2> HIDE DEF A
    <2>4. b[side] \in Seq(LimitOrders(A)) /\ Rests(lo, side)
      BY <2>1, <2>2 DEF GoodBook, GoodSide
    <2>5. lo \in LimitOrders(A)
      BY <2>1, <2>4
    <2>6. lo.order.pair = p
      BY <2>3, <2>5 DEF LimitOrders
    <2> QED
      BY <2>4, <2>6 DEF Rests
  <1> QED
    BY <1>1, Recovery, PTL

\* Each execution of any life of the process moves some of both assets at a price
\* within both orders (LimitOrder.executedAmount, OrderBook.doMatch).
THEOREM TradesCanBeSettled == Spec => []EachTradeSettles
  <1> DEFINE Good == \A t \in trades : GoodTrade(t)
  <1>1. Init => Good
    BY DEF Init
  <1>2. RecoveryInv /\ Good /\ [Next]_vars => Good'
    <2>1. SUFFICES ASSUME RecoveryInv, Good, [Next]_vars PROVE Good'
      OBVIOUS
    <2>2. CASE trades' = trades
      BY <2>1, <2>2
    <2>3. CASE \E p \in Pairs : BookHandles(p) /\ trades' # trades
      <3>1. PICK p \in Pairs : BookHandles(p) /\ trades' # trades
        BY <2>3
      <3> DEFINE m == Head(inbox[p])
                 r == Handle(books[p].book, queue[m.offset + 1], m.offset)
      <3>2. /\ p \in LiveBooks /\ inbox[p] # <<>> /\ m.type = "event" /\ IsNew(books[p], m.offset)
            /\ trades' = trades \cup Executed(r.events)
        BY <3>1 DEF BookHandles, LiveBooks, HandleEvent, HandleSaveSnapshot
      <3>3. GoodEvents(r.events)
        BY <2>1, <3>2, HandlesNext DEF IsNew
      <3> HIDE DEF r
      <3>4. \A t \in Executed(r.events) : GoodTrade(t)
        BY <3>3, GoodTrades
      <3> QED
        BY <2>1, <3>2, <3>4
    <2>4. trades' = trades \/ \E p \in Pairs : BookHandles(p)
      <3>1. CASE Enqueue
        BY <3>1 DEF Enqueue
      <3>2. CASE Restart
        BY <3>2 DEF Restart
      <3>3. CASE MatcherHandlesEvent
        BY <3>3 DEF MatcherHandlesEvent
      <3>4. CASE \E p \in Pairs : JournalWritten(p) \/ BookRecovered(p) \/ BookHandles(p) \/ SnapshotSaved(p)
        BY <3>4 DEF JournalWritten, BookRecovered, SnapshotSaved
      <3>5. CASE \E x \in updates : MatcherHandlesUpdate(x)
        BY <3>5 DEF MatcherHandlesUpdate
      <3>6. CASE UNCHANGED vars
        BY <3>6 DEF vars
      <3> QED
        BY <2>1, <3>1, <3>2, <3>3, <3>4, <3>5, <3>6 DEF Next, Step
    <2> QED
      BY <2>2, <2>3, <2>4
  <1>3. Good => EachTradeSettles
    BY DEF EachTradeSettles, GoodTrade
  <1> HIDE DEF Good
  <1> QED
    BY <1>1, <1>2, <1>3, Recovery, PTL DEF Spec

----------------------------------------------------------------------------
(* What is executed of an order, over all commands.                         *)

\* What the kth command of a queue executes, and what the first n of p do.
ExecutedAt(q, k) ==
    Executed(Handle(After(q, q[k].order.pair)[k - 1], q[k], k - 1).events)

Spent(q, p, n) == UNION {ExecutedAt(q, k) : k \in {j \in OfPair(q, p) : j <= n}}

\* What they execute are executions of known orders, and takes no more of any
\* than there is.
SpentFits(q, p, n) ==
    LET T == Spent(q, p, n)
        A == Known(q, p, n)
    IN  /\ IsTrades(T) /\ \A t \in T : t.submitted \in A /\ t.counter \in A
        /\ \A x \in A : BookFits(T, x, A, After(q, p)[n])

\* What one more command adds to what is executed.
LEMMA SpentMore ==
  ASSUME NEW q, GoodQueue(q), NEW p, NEW n \in 1 .. Len(q)
  PROVE  /\ q[n].order.pair = p => Spent(q, p, n) = Spent(q, p, n - 1) \cup ExecutedAt(q, n)
         /\ q[n].order.pair # p => Spent(q, p, n) = Spent(q, p, n - 1)
  <1> DEFINE S(i) == {j \in OfPair(q, p) : j <= i}
  <1>1. DOMAIN q = 1 .. Len(q) /\ Len(q) \in Nat /\ n \in DOMAIN q
    BY DEF GoodQueue
  <1>2. \A j \in DOMAIN q : j <= n <=> j <= n - 1 \/ j = n
    BY <1>1
  <1>3. \A i, t : t \in Spent(q, p, i) <=> \E k \in S(i) : t \in ExecutedAt(q, k)
    BY Zenon DEF Spent
  <1>4. CASE q[n].order.pair = p
    <2>1. S(n) = S(n - 1) \cup {n}
      BY <1>1, <1>2, <1>4 DEF OfPair
    <2> HIDE DEF S
    <2>2. \A t : t \in Spent(q, p, n) <=> t \in Spent(q, p, n - 1) \cup ExecutedAt(q, n)
      BY <1>3, <2>1
    <2> QED
      BY <1>4, <2>2
  <1>5. CASE q[n].order.pair # p
    <2>1. S(n) = S(n - 1)
      BY <1>2, <1>5 DEF OfPair
    <2> QED
      BY <1>5, <2>1 DEF Spent
  <1> QED
    BY <1>4, <1>5

\* One more command takes no more of any order than is left.
LEMMA CommandFits ==
  ASSUME NEW q, GoodQueue(q), NEW p, NEW n \in 1 .. Len(q), SpentFits(q, p, n - 1)
  PROVE  SpentFits(q, p, n)
  <1> DEFINE b == After(q, p)[n - 1]
             when == When(q)
             A == Known(q, p, n - 1)
             B == Known(q, p, n)
             T == Spent(q, p, n - 1)
             U == Spent(q, p, n)
             e == q[n]
             o == e.order
             c == After(q, p)[n]
  <1>1. /\ q \in Seq(Commands) /\ Len(q) \in Nat /\ e \in Commands
        /\ n - 1 \in 0 .. Len(q) /\ n \in 0 .. Len(q) /\ DOMAIN q = 1 .. Len(q)
    BY DEF GoodQueue
  <1>2. c = IF o.pair = p THEN Handle(b, e, n - 1).book ELSE b
    BY <1>1, AfterIs
  <1>3. GoodBook(After(q, p)[n - 1], Known(q, p, n - 1), When(q))
    BY <1>1, ReplayIsGood
  <1>4. /\ A \subseteq B /\ GoodBook(b, B, when)
        /\ o.pair = p /\ e.type = "placed" => Newest(o, b, B, when) /\ o \notin A
        /\ \A x \in B : x \in A \/ (x = o /\ x.pair = p /\ e.type = "placed")
    BY <1>3, BeforeCommand
  <1>5. /\ \A y \in B : ValidOrder(y) /\ when[y] \in Int
        /\ ValidOrder(o)
    <2>1. ValidOrder(o)
      BY <1>1, OrdersAreValid DEF Commands
    <2>2. ASSUME NEW x \in B PROVE ValidOrder(x) /\ when[x] \in Int
      <3>1. ValidOrder(x)
        BY <1>1, KnownOrders
      <3>2. PICK i \in 1 .. n : q[i] = [type |-> "placed", order |-> x] /\ when[x] = i
        BY <1>1, KnownOrders DEF when
      <3> QED
        BY <1>1, <3>1, <3>2
    <2> QED
      BY <2>1, <2>2
  <1>6. /\ o.pair = p => U = T \cup ExecutedAt(q, n)
        /\ o.pair # p => U = T
    BY SpentMore
  <1>7. ExecutedAt(q, n) = IF o.pair = p THEN Executed(Handle(b, e, n - 1).events) ELSE ExecutedAt(q, n)
    BY DEF ExecutedAt
  <1>8. /\ IsTrades(T) /\ \A t \in T : t.submitted \in A /\ t.counter \in A
        /\ \A x \in A : BookFits(T, x, A, b)
    BY DEF SpentFits
  <1>9. SUFFICES /\ IsTrades(U) /\ \A t \in U : t.submitted \in B /\ t.counter \in B
                 /\ \A x \in B : BookFits(U, x, B, c)
    BY DEF SpentFits
  <1> HIDE DEF b, when, A, B, T, U, c, e
  <1>10. \A x \in A : BookFits(T, x, B, b)
    BY <1>4, <1>8 DEF BookFits, TradesFit
  <1>11. CASE o.pair # p
    <2>1. U = T /\ c = b /\ \A x \in B : x \in A
      BY <1>2, <1>4, <1>6, <1>11
    <2> QED
      BY <1>4, <1>8, <1>10, <2>1
  <1>12. CASE o.pair = p /\ e.type = "placed"
    <2>1. Newest(e.order, b, B, when) /\ o \notin A /\ o \in B
      BY <1>4, <1>12 DEF Newest
    <2>2. ASSUME NEW x \in B PROVE Ready(T, x, o, B, b)
      <3>1. CASE x = o
        <4>1. Of(T, o) = {}
          BY <1>8, <2>1 DEF Of
        <4>2. Total(T, o) = 0
          <5>1. \A w : SumOf(w, {}) = 0
            BY FS_EmptySet, SumPicks
          <5> QED
            BY <4>1, <5>1 DEF Total
        <4>3. x.amount \in Nat
          BY <1>5, <3>1 DEF ValidOrder, Positive
        <4>4. TradesFit(T, x, B)
          BY <1>4, <1>8, <3>1, <4>2, <4>3 DEF TradesFit
        <4> QED
          BY <3>1, <4>1, <4>4 DEF Ready
      <3>2. CASE x # o
        <4>1. BookFits(T, x, B, b)
          BY <1>4, <1>10, <3>2
        <4> QED
          BY <3>2, <4>1 DEF Ready, BookFits
      <3> QED
        BY <3>1, <3>2
    <2>3. U = T \cup Executed(Handle(b, e, n - 1).events) /\ c = Handle(b, e, n - 1).book
      BY <1>2, <1>6, <1>7, <1>12
    <2>4. ASSUME NEW x \in B PROVE BookFits(U, x, B, c)
      <3>1. IF e.type = "placed" THEN Ready(T, x, e.order, B, b) ELSE BookFits(T, x, B, b)
        BY <1>12, <2>2
      <3>2. LET r == Handle(b, e, n - 1) IN BookFits(T \cup Executed(r.events), x, B, r.book)
        BY <1>4, <1>5, <2>1, <3>1, NothingOverfilled
      <3> QED
        BY <2>3, <3>2
    <2>5. BookFits(U, o, B, c)
      BY <2>1, <2>4
    <2> QED
      BY <2>4, <2>5 DEF BookFits, TradesFit
  <1>13. CASE o.pair = p /\ e.type # "placed"
    <2>1. Handle(b, e, n - 1) = CancelOrder(b, o)
      BY <1>13 DEF Handle
    <2>2. U = T /\ c = CancelOrder(b, o).book
      BY <1>2, <1>6, <1>7, <1>13, <2>1, CancelExecutesNothing
    <2>3. \A x \in B : x \in A
      BY <1>4, <1>13
    <2>4. ASSUME NEW x \in B PROVE BookFits(U, x, B, c)
      <3>1. BookFits(T, x, B, b)
        BY <1>10, <2>3
      <3>2. LET r == CancelOrder(b, o) IN BookFits(T \cup Executed(r.events), x, B, r.book)
        BY <1>4, <1>5, <3>1, CancelFits
      <3> QED
        BY <2>2, <3>2, CancelExecutesNothing
    <2> QED
      BY <1>4, <1>8, <2>2, <2>4
  <1> QED
    BY <1>11, <1>12, <1>13

\* So it is with any number of commands.
LEMMA ReplayFits ==
  ASSUME NEW q, GoodQueue(q), NEW p
  PROVE  \A n \in 0 .. Len(q) : SpentFits(q, p, n)
  <1> DEFINE Bad == {n \in 0 .. Len(q) : ~SpentFits(q, p, n)}
  <1>1. Len(q) \in Nat /\ DOMAIN q = 1 .. Len(q)
    BY DEF GoodQueue
  <1>2. SpentFits(q, p, 0)
    <2>1. Spent(q, p, 0) = {} /\ Known(q, p, 0) = {}
      BY <1>1 DEF Spent, Known, OfPair
    <2>2. IsTrades({})
      BY FS_EmptySet DEF IsTrades
    <2> QED
      BY <2>1, <2>2 DEF SpentFits
  <1>3. ASSUME Bad # {} PROVE FALSE
    <2>1. PICK n \in Bad : \A k \in Bad : n <= k
      <3>1. Bad \subseteq Nat
        OBVIOUS
      <3> HIDE DEF Bad
      <3> QED
        BY <1>3, <3>1, Least
    <2>2. n \in 0 .. Len(q) /\ ~SpentFits(q, p, n)
      OBVIOUS
    <2>3. n \in 1 .. Len(q) /\ n - 1 \in 0 .. Len(q) /\ n - 1 < n
      BY <1>1, <1>2, <2>2
    <2>4. SpentFits(q, p, n - 1)
      BY <2>1, <2>3
    <2> QED
      BY <2>2, <2>3, <2>4, CommandFits
  <1> QED
    BY <1>3

\* Every execution there ever was is one of the replay.
TradesReplayed == \A t \in trades : \E k \in DOMAIN queue : t \in ExecutedAt(queue, k)

\* More commands execute more.
LEMMA ExecutedSame ==
  ASSUME NEW q, NEW r, GoodQueue(q), Len(r) \in Nat, Len(q) <= Len(r),
         \A i \in 1 .. Len(q) : r[i] = q[i], NEW k \in 1 .. Len(q)
  PROVE  ExecutedAt(r, k) = ExecutedAt(q, k)
  <1> DEFINE p == q[k].order.pair
  <1>1. Len(q) \in Nat /\ k - 1 \in 0 .. Len(q)
    BY DEF GoodQueue
  <1> HIDE DEF p
  <1>2. After(r, p)[k - 1] = After(q, p)[k - 1]
    BY <1>1, AfterSame
  <1>3. r[k] = q[k]
    OBVIOUS
  <1>4. ExecutedAt(q, k) = Executed(Handle(After(q, p)[k - 1], q[k], k - 1).events)
    BY DEF ExecutedAt, p
  <1>5. ExecutedAt(r, k) = Executed(Handle(After(r, p)[k - 1], q[k], k - 1).events)
    BY <1>3 DEF ExecutedAt, p
  <1> QED
    BY <1>2, <1>4, <1>5

\* An execution that a book makes is one of the replay.
LEMMA TradesReplayedNext ==
  ASSUME RecoveryInv, TradesReplayed, [Next]_vars
  PROVE  TradesReplayed'
  <1>1. Len(queue) \in Nat /\ DOMAIN queue = 1 .. Len(queue) /\ queue \in Seq(Commands) /\ GoodQueue(queue)
    BY Basics DEF RecoveryInv, TypeOK
  <1>2. CASE trades' = trades /\ queue' = queue
    BY <1>2 DEF TradesReplayed
  <1>3. CASE Enqueue
    <2>1. trades' = trades /\ \E e : queue' = Append(queue, e)
      BY <1>3 DEF Enqueue
    <2>2. PICK e : queue' = Append(queue, e)
      BY <2>1
    <2> DEFINE r == Append(queue, e)
    <2>3. /\ Len(r) = Len(queue) + 1 /\ DOMAIN r = 1 .. Len(queue) + 1
          /\ \A i \in 1 .. Len(queue) : r[i] = queue[i]
      <3>1. queue \in Seq({queue[i] : i \in DOMAIN queue} \cup {e})
        BY <1>1
      <3> QED
        BY <1>1, <3>1
    <2> HIDE DEF r
    <2>4. \A k \in 1 .. Len(queue) : ExecutedAt(r, k) = ExecutedAt(queue, k)
      BY <1>1, <2>3, ExecutedSame
    <2>5. \A t \in trades : \E k \in DOMAIN r : t \in ExecutedAt(r, k)
      BY <1>1, <2>3, <2>4 DEF TradesReplayed
    <2>6. queue' = r
      BY <2>2 DEF r
    <2> QED
      BY <2>1, <2>5, <2>6 DEF TradesReplayed
  <1>4. ASSUME NEW p \in Pairs, BookHandles(p), trades' # trades PROVE TradesReplayed'
    <2> DEFINE m == Head(inbox[p])
               n == m.offset
               r == Handle(books[p].book, queue[n + 1], n)
    <2>1. /\ p \in LiveBooks /\ inbox[p] # <<>> /\ m.type = "event" /\ IsNew(books[p], n)
          /\ trades' = trades \cup Executed(r.events) /\ queue' = queue
      BY <1>4 DEF BookHandles, LiveBooks, HandleEvent, HandleSaveSnapshot, stores
    <2>2. /\ n \in 0 .. Len(queue) - 1 /\ PairOf(n) = p /\ books[p].book = After(queue, p)[n]
      BY <2>1, HandlesNext DEF IsNew
    <2> HIDE DEF n, m
    <2>3. n + 1 \in DOMAIN queue /\ (n + 1) - 1 = n /\ queue[n + 1].order.pair = p
      BY <1>1, <2>2 DEF PairOf
    <2>4. Executed(r.events) = ExecutedAt(queue, n + 1)
      BY <2>2, <2>3 DEF ExecutedAt
    <2> HIDE DEF r
    <2>5. \A t \in trades' : \E k \in DOMAIN queue : t \in ExecutedAt(queue, k)
      BY <2>1, <2>3, <2>4 DEF TradesReplayed
    <2> QED
      BY <2>1, <2>5 DEF TradesReplayed
  <1>5. \/ trades' = trades /\ queue' = queue
        \/ Enqueue
        \/ \E p \in Pairs : BookHandles(p) /\ trades' # trades
    <2>1. CASE Restart
      BY <2>1 DEF Restart, stores
    <2>2. CASE MatcherHandlesEvent
      BY <2>2 DEF MatcherHandlesEvent, stores
    <2>3. CASE \E p \in Pairs : JournalWritten(p) \/ BookRecovered(p) \/ BookHandles(p) \/ SnapshotSaved(p)
      BY <2>3 DEF JournalWritten, BookRecovered, BookHandles, SnapshotSaved, stores
    <2>4. CASE \E x \in updates : MatcherHandlesUpdate(x)
      BY <2>4 DEF MatcherHandlesUpdate, stores
    <2>5. CASE UNCHANGED vars
      BY <2>5 DEF vars
    <2> QED
      BY <2>1, <2>2, <2>3, <2>4, <2>5 DEF Next, Step
  <1> QED
    BY <1>2, <1>3, <1>4, <1>5

\* What the replay executes of an order fits, and so does any part of it.
LEMMA ReplayedTradesFit ==
  ASSUME RecoveryInv, TradesReplayed
  PROVE  NoOrderOverfilled
  <1>1. Len(queue) \in Nat /\ DOMAIN queue = 1 .. Len(queue) /\ queue \in Seq(Commands) /\ GoodQueue(queue)
    BY Basics DEF RecoveryInv, TypeOK
  <1>2. SUFFICES ASSUME NEW o \in Placed
        PROVE  MapThenSumSet(LAMBDA t : t.amount, {t \in trades : o \in {t.submitted, t.counter}}) <= o.amount
    BY DEF NoOrderOverfilled
  <1> DEFINE own == {t \in trades : o \in {t.submitted, t.counter}}
             p == o.pair
             n == Len(queue)
             T == Spent(queue, p, n)
  <1>3. o \in Known(queue, p, n)
    BY <1>1 DEF Placed, Known, OfPair
  <1>4. SpentFits(queue, p, n)
    BY <1>1, ReplayFits
  <1>5. IsTrades(T) /\ Total(T, o) <= o.amount
    BY <1>3, <1>4 DEF SpentFits, BookFits, TradesFit
  <1>6. ASSUME NEW t \in own PROVE t \in Of(T, o)
    <2>1. PICK k \in DOMAIN queue : t \in ExecutedAt(queue, k)
      BY DEF TradesReplayed
    <2> DEFINE q == queue[k].order.pair
    <2>2. k \in 0 .. Len(queue) /\ k \in OfPair(queue, q)
      BY <1>1 DEF OfPair
    <2>3. t \in Spent(queue, q, k)
      BY <1>1, <2>1, <2>2 DEF Spent
    <2>4. SpentFits(queue, q, k)
      BY <1>1, <2>2, ReplayFits
    <2>5. t.submitted \in Known(queue, q, k) /\ t.counter \in Known(queue, q, k)
      BY <2>3, <2>4 DEF SpentFits
    <2>6. p = q
      BY <2>5 DEF Known, OfPair
    <2>7. k \in OfPair(queue, p) /\ k <= n
      BY <1>1, <2>2, <2>6
    <2>8. t \in T
      BY <2>1, <2>7 DEF Spent
    <2> QED
      BY <2>8 DEF Of
  <1> HIDE DEF T, own
  <1>7. IsFiniteSet(own) /\ SumOf(Amounts(own), own) <= Total(T, o)
        /\ SumOf(Amounts(own), own) \in Nat /\ Total(T, o) \in Nat
    <2>1. own \subseteq Of(T, o)
      BY <1>6
    <2> QED
      BY <1>5, <2>1, TotalOfPart
  <1>8. MapThenSumSet(LAMBDA t : t.amount, own) = SumOf(Amounts(own), own)
    <2>1. MapThenSumSet(LAMBDA t : t.amount, own) = SumOf([t \in own |-> t.amount], own)
      BY <1>7, TotalIs
    <2> QED
      BY <2>1 DEF Amounts
  <1>9. o.amount \in Nat
    <2>1. PICK i \in DOMAIN queue : o = queue[i].order
      BY DEF Placed
    <2>2. queue[i] \in Commands
      BY <1>1
    <2> QED
      BY <2>1, <2>2, OrdersAreValid DEF Commands, ValidOrder, Positive
  <1> DEFINE s == SumOf(Amounts(own), own)
             total == Total(T, o)
             max == o.amount
  <1>10. s <= total /\ total <= max /\ s \in Nat /\ total \in Nat /\ max \in Nat
    BY <1>5, <1>7, <1>9
  <1> HIDE DEF s, total, max
  <1>11. s <= max
    BY <1>10
  <1> QED
    BY <1>8, <1>11 DEF s, max, own

\* No order is executed for more than its amount over all lives of the process,
\* and each execution can be settled (OrderBook.doMatch, OrderExecuted).
THEOREM WhatIsExecutedSettles == Spec => []TradesSettle
  <1>1. Init => TradesReplayed
    BY DEF Init, TradesReplayed
  <1>2. RecoveryInv /\ TradesReplayed /\ [Next]_vars => TradesReplayed'
    BY TradesReplayedNext
  <1>3. RecoveryInv /\ TradesReplayed => NoOrderOverfilled
    BY ReplayedTradesFit
  <1>4. NoOrderOverfilled /\ EachTradeSettles => TradesSettle
    BY DEF TradesSettle
  <1> QED
    BY <1>1, <1>2, <1>3, <1>4, Recovery, TradesCanBeSettled, PTL DEF Spec

----------------------------------------------------------------------------
(* The rotation of snapshots.  A book is due for a snapshot, then asked for it, *)
(* then saves it, then reports it, and then it is due again.                *)

Due(p) == {x \in matcher.nearest : x[1] = p}
Reports(p) == {x \in updates : x[1] = p}
Requests(p) == {inbox[p][i].offset : i \in {j \in DOMAIN inbox[p] : inbox[p][j].type = "save"}}
Saves(p) == books[p].saving # NoSnapshot

IsDue(p) ==
    /\ \E n \in Int : Due(p) = {<<p, n>>} /\ n > books[p].lastSaved
    /\ Reports(p) = {} /\ Requests(p) = {} /\ ~Saves(p)

IsAsked(p) ==
    /\ \E n \in Int : Requests(p) = {n} /\ n > books[p].lastSaved /\ n <= matcher.lastProcessedNr
    /\ Due(p) = {} /\ Reports(p) = {} /\ ~Saves(p)

IsSaving(p) ==
    /\ Saves(p) /\ books[p].saving.nr <= matcher.lastProcessedNr
    /\ Due(p) = {} /\ Reports(p) = {} /\ Requests(p) = {}

IsReporting(p) ==
    /\ Reports(p) = {<<p, books[p].lastSaved>>} /\ books[p].lastSaved <= matcher.lastProcessedNr
    /\ Due(p) = {} /\ Requests(p) = {} /\ ~Saves(p)

\* A book that has not recovered while MatcherActor works is a new one.
IsNewBook(p) ==
    /\ Due(p) = {} /\ Reports(p) = {} /\ Requests(p) = {}
    /\ stored[p].nr = -1

InRotation(p) ==
    /\ p \in LiveBooks => IsDue(p) \/ IsAsked(p) \/ IsSaving(p) \/ IsReporting(p)
    /\ p \notin LiveBooks => IsNewBook(p)

Rotation == matcher.working => \A p \in Pairs : InRotation(p)

\* While MatcherActor collects the reports, each is collected or on its way.
Gathering ==
    ~matcher.working =>
      /\ \A p \in LiveBooks : <<p, stored[p].nr>> \in matcher.offsets \cup updates
      /\ matcher.offsets \cap updates = {}

RotationInv == Rotation /\ Gathering

\* A step that does not concern p.
LEMMA RotationSame ==
  ASSUME NEW p, InRotation(p), books'[p] = books[p], stored'[p].nr = stored[p].nr,
         Due(p)' = Due(p), Reports(p)' = Reports(p), Requests(p)' = Requests(p),
         p \in Pairs, TypeOK,
         matcher.lastProcessedNr \in Int, matcher'.lastProcessedNr \in Int,
         matcher.lastProcessedNr <= matcher'.lastProcessedNr
  PROVE  InRotation(p)'
  <1>1. p \in LiveBooks' <=> p \in LiveBooks
    BY DEF LiveBooks
  <1>2. CASE p \notin LiveBooks
    BY <1>1, <1>2 DEF InRotation, IsNewBook
  <1>3. CASE p \in LiveBooks
    <2>1. books[p] \in BookActors
      BY <1>3 DEF TypeOK, LiveBooks
    <2>2. books[p].lastSaved \in Int
      BY <2>1 DEF BookActors
    <2>3. Saves(p) => books[p].saving.nr \in Int
      <3>1. SUFFICES ASSUME Saves(p) PROVE books[p].saving.nr \in Int
        OBVIOUS
      <3>2. books[p].saving \in Snapshots
        BY <2>1, <3>1 DEF BookActors, Saves
      <3> QED
        BY <3>2 DEF Snapshots
    <2>4. Saves(p)' <=> Saves(p)
      BY DEF Saves
    <2>5. IsDue(p) => IsDue(p)'
      BY <2>4 DEF IsDue
    <2>6. IsAsked(p) => IsAsked(p)'
      BY <2>4 DEF IsAsked
    <2>7. IsSaving(p) => IsSaving(p)'
      BY <2>3, <2>4 DEF IsSaving
    <2>8. IsReporting(p) => IsReporting(p)'
      BY <2>2, <2>4 DEF IsReporting
    <2> QED
      BY <1>1, <1>3, <2>5, <2>6, <2>7, <2>8 DEF InRotation
  <1> QED
    BY <1>2, <1>3

\* The next offset at which a pair is due lies ahead.
LEMMA NextIsLater ==
  ASSUME NEW p \in Pairs, NEW nr \in Int, NEW last \in Int
  PROVE  NextSnapshotOffset(p, nr, last) > last
  <1> DEFINE I == SnapshotsInterval
             k == IF nr < 0 THEN 0 ELSE nr \div I
             z == k * I + SnapshotOffset[p]
             j == (last - z) \div I
  <1>1. I \in Positive /\ SnapshotOffset[p] \in Int
    BY IntervalAssumption DEF Positive
  <1>2. k \in Int
    BY <1>1 DEF Positive
  <1> HIDE DEF k
  <1>3. z \in Int
    BY <1>1, <1>2 DEF Positive
  <1>4. NextSnapshotOffset(p, nr, last) = IF z > last THEN z ELSE z + I * (j + 1)
    BY DEF NextSnapshotOffset, k
  <1> HIDE DEF z
  <1>5. CASE z > last
    BY <1>4, <1>5
  <1>6. CASE ~(z > last)
    <2> DEFINE d == last - z
    <2>1. d \in Nat
      BY <1>3, <1>6
    <2>2. j \in Nat /\ d < j * I + I
      <3> HIDE DEF d
      <3>1. d \div I \in Nat /\ d < (d \div I) * I + I
        BY <1>1, <2>1, DivBounds
      <3> QED
        BY <3>1 DEF d
    <2> HIDE DEF j
    <2>3. I * (j + 1) = j * I + I /\ j * I \in Nat /\ I \in Nat
      BY <1>1, <2>2, SMT DEF Positive
    <2>4. z + I * (j + 1) > last
      <3> DEFINE t == j * I
      <3>1. t \in Nat /\ I * (j + 1) = t + I /\ d < t + I
        BY <2>2, <2>3
      <3> HIDE DEF t
      <3> QED
        BY <1>3, <2>3, <3>1
    <2> QED
      BY <1>4, <1>6, <2>4
  <1> QED
    BY <1>5, <1>6

\* The nearest of the pairs that are due is one of them.
LEMMA NearestIs ==
  ASSUME NEW near \in SUBSET (Pairs \X Int), near # {}, \A x \in near : x[2] \in Nat
  PROVE  Nearest(near) \in near
  <1> DEFINE S == {x[2] : x \in near}
  <1>1. PICK m \in S : \A k \in S : m <= k
    <2>1. S \subseteq Nat /\ S # {}
      OBVIOUS
    <2> HIDE DEF S
    <2> QED
      BY <2>1, Least
  <1> DEFINE T == {KeyRank[x[1]] : x \in {y \in near : y[2] = m}}
  <1>2. PICK r \in T : \A k \in T : r <= k
    <2>1. T \subseteq Nat
      BY KeyRankAssumption
    <2>2. T # {}
      OBVIOUS
    <2> HIDE DEF T
    <2> QED
      BY <2>1, <2>2, Least
  <1>3. PICK x \in near : x[2] = m /\ KeyRank[x[1]] = r
    OBVIOUS
  <1>4. \A y \in near : x[2] < y[2] \/ (x[2] = y[2] /\ KeyRank[x[1]] <= KeyRank[y[1]])
    <2>1. SUFFICES ASSUME NEW y \in near, x[2] # y[2]
                   PROVE  x[2] < y[2]
      BY <1>2, <1>3
    <2>2. m <= y[2] /\ m \in Nat /\ y[2] \in Nat
      BY <1>1
    <2> QED
      BY <1>3, <2>1, <2>2
  <1> QED
    BY <1>4 DEF Nearest

\* There are no books yet.
LEMMA RotationInit == Init => RotationInv
  <1> SUFFICES ASSUME Init PROVE RotationInv
    OBVIOUS
  <1>1. matcher.working /\ matcher.nearest = {} /\ updates = {}
    BY DEF Init, RecoveredMatcher
  <1>2. ASSUME NEW p \in Pairs PROVE InRotation(p)
    <2>1. inbox[p] = <<>> /\ books[p] = NoBook /\ stored[p].nr = -1
      BY DEF Init, EmptySnapshot
    <2> QED
      BY <1>1, <2>1 DEF InRotation, IsNewBook, LiveBooks, Due, Reports, Requests
  <1> QED
    BY <1>1, <1>2 DEF RotationInv, Rotation, Gathering

\* Steps that concern neither the books nor what is due.
LEMMA RotationStays ==
  ASSUME RotationInv, UNCHANGED <<stored, matcher, books, inbox, updates>>
  PROVE  RotationInv'
  <1>1. ASSUME NEW p \in Pairs, InRotation(p) PROVE InRotation(p)'
    <2>1. /\ Due(p)' = Due(p) /\ Reports(p)' = Reports(p) /\ Requests(p)' = Requests(p)
          /\ Saves(p)' = Saves(p) /\ LiveBooks' = LiveBooks
      BY DEF Due, Reports, Requests, Saves, LiveBooks
    <2> QED
      BY <1>1, <2>1 DEF InRotation, IsDue, IsAsked, IsSaving, IsReporting, IsNewBook
  <1>2. LiveBooks' = LiveBooks
    BY DEF LiveBooks
  <1> QED
    BY <1>1, <1>2 DEF RotationInv, Rotation, Gathering

\* After a restart no book has recovered yet.
LEMMA RotationRestart ==
  ASSUME RecoveryInv, Restart
  PROVE  RotationInv'
  <1>1. /\ matcher' = RecoveredMatcher(journal) /\ updates' = {} /\ stored' = stored
        /\ books' = [p \in Pairs |-> IF p \in journal THEN Recovering ELSE NoBook]
        /\ inbox' = [p \in Pairs |-> <<>>]
    BY DEF Restart, stores
  <1>2. LiveBooks' = {}
    BY <1>1, RecoveringIsActor DEF LiveBooks
  <1>3. Gathering'
    BY <1>1, <1>2 DEF Gathering, RecoveredMatcher
  <1>4. Rotation'
    <2>1. SUFFICES ASSUME matcher'.working, NEW p \in Pairs PROVE InRotation(p)'
      BY DEF Rotation
    <2>2. journal = {} /\ matcher'.nearest = {}
      BY <1>1, <2>1 DEF RecoveredMatcher
    <2>3. stored[p].nr \in Nrs /\ ~(stored[p].nr >= 0)
      BY <2>2 DEF RecoveryInv, StoredExact, Recorded
    <2>4. stored'[p].nr = -1
      <3>1. Len(queue) \in Nat
        BY Basics
      <3> QED
        BY <1>1, <2>3, <3>1 DEF Nrs
    <2>5. inbox'[p] = <<>>
      BY <1>1
    <2> QED
      BY <1>1, <1>2, <2>2, <2>4, <2>5 DEF InRotation, IsNewBook, Due, Reports, Requests
  <1> QED
    BY <1>3, <1>4 DEF RotationInv

\* A new book reports to MatcherActor that works, every other to one that collects.
LEMMA RotationBookRecovered ==
  ASSUME RecoveryInv, RotationInv, NEW p \in Pairs, BookRecovered(p)
  PROVE  RotationInv'
  <1> DEFINE nb == [live |-> TRUE, book |-> stored[p].book, lastProcessed |-> stored[p].nr,
                    lastSaved |-> stored[p].nr, saving |-> NoSnapshot]
             report == <<p, stored[p].nr>>
  <1>1. TypeOK /\ Starting
    BY DEF RecoveryInv
  <1>2. /\ UNCHANGED <<stored, matcher, inbox>> /\ p \notin LiveBooks
        /\ books' = [books EXCEPT ![p] = nb] /\ updates' = updates \cup {report}
    BY DEF BookRecovered, stores, LiveBooks
  <1>3. stored[p] \in Snapshots /\ stored[p].nr \in Int /\ stored[p].book \in Books
    BY <1>1 DEF TypeOK, Snapshots
  <1>4. nb \in BookActors /\ nb.live /\ nb.saving = NoSnapshot /\ nb.lastSaved = stored[p].nr
    BY <1>3 DEF BookActors
  <1> HIDE DEF nb
  <1>5. nb # NoBook
    BY <1>4, NothingAssumption
  <1>6. books'[p] = nb /\ \A q \in Pairs : q # p => books'[q] = books[q]
    BY <1>1, <1>2 DEF TypeOK
  <1>7. LiveBooks' = LiveBooks \cup {p}
    BY <1>4, <1>5, <1>6 DEF LiveBooks
  <1>8. matcher.lastProcessedNr \in Nat
    BY <1>1 DEF TypeOK, Matchers
  <1>9. Gathering'
    <2>1. SUFFICES ASSUME ~matcher.working
                   PROVE  /\ \A q \in LiveBooks' : <<q, stored[q].nr>> \in matcher.offsets \cup updates'
                          /\ matcher.offsets \cap updates' = {}
      BY <1>2 DEF Gathering
    <2>2. \A x \in matcher.offsets : x[1] \in LiveBooks
      BY <1>1, <2>1 DEF Starting
    <2>3. report \notin matcher.offsets
      BY <1>2, <2>2
    <2> QED
      BY <1>2, <1>7, <2>1, <2>3 DEF RotationInv, Gathering
  <1>10. Rotation'
    <2>1. SUFFICES ASSUME matcher.working, NEW q \in Pairs PROVE InRotation(q)'
      BY <1>2 DEF Rotation
    <2>2. InRotation(q)
      BY <2>1 DEF RotationInv, Rotation
    <2>3. CASE q = p
      <3>1. IsNewBook(p)
        BY <1>2, <2>2, <2>3 DEF InRotation
      <3>2. Reports(p)' = {<<p, nb.lastSaved>>} /\ nb.lastSaved = -1
        BY <1>2, <1>4, <3>1 DEF Reports, IsNewBook
      <3>3. Due(p)' = {} /\ Requests(p)' = {} /\ ~Saves(p)'
        BY <1>2, <1>4, <1>6, <3>1 DEF Due, Requests, Saves, IsNewBook
      <3>4. IsReporting(p)'
        BY <1>2, <1>6, <1>8, <3>2, <3>3 DEF IsReporting
      <3> QED
        BY <1>7, <2>3, <3>4 DEF InRotation
    <2>4. CASE q # p
      <3>1. Due(q)' = Due(q) /\ Reports(q)' = Reports(q) /\ Requests(q)' = Requests(q)
        BY <1>2, <2>4 DEF Due, Reports, Requests
      <3>2. /\ books'[q] = books[q] /\ stored'[q].nr = stored[q].nr
            /\ matcher.lastProcessedNr \in Int /\ matcher'.lastProcessedNr \in Int
            /\ matcher.lastProcessedNr <= matcher'.lastProcessedNr
        BY <1>2, <1>6, <1>8, <2>4
      <3> QED
        BY <1>1, <2>2, <3>1, <3>2, RotationSame
    <2> QED
      BY <2>3, <2>4
  <1> QED
    BY <1>9, <1>10 DEF RotationInv

\* From saving to reporting.
LEMMA RotationSnapshotSaved ==
  ASSUME RecoveryInv, RotationInv, NEW p \in Pairs, SnapshotSaved(p)
  PROVE  RotationInv'
  <1> DEFINE b == books[p]
             s == books[p].saving
             nb == [live |-> b.live, book |-> b.book, lastProcessed |-> b.lastProcessed,
                    lastSaved |-> s.nr, saving |-> NoSnapshot]
  <1>1. TypeOK /\ Starting /\ BooksExact
    BY DEF RecoveryInv
  <1>2. /\ Exists(p) /\ s # NoSnapshot
        /\ stored' = [stored EXCEPT ![p] = s] /\ updates' = updates \cup {<<p, s.nr>>}
        /\ books' = [books EXCEPT ![p].lastSaved = s.nr, ![p].saving = NoSnapshot]
        /\ UNCHANGED <<matcher, inbox>>
    BY DEF SnapshotSaved, Exists
  <1>3. b \in BookActors /\ b.live /\ matcher.working /\ p \in LiveBooks
    BY <1>1, <1>2 DEF TypeOK, Exists, BooksExact, BookExact, Starting, LiveBooks
  <1>4. nb \in BookActors /\ nb.live /\ nb.saving = NoSnapshot /\ nb.lastSaved = s.nr
    <2>1. s \in Snapshots
      BY <1>2, <1>3 DEF BookActors
    <2> QED
      BY <1>3, <2>1 DEF BookActors, Snapshots
  <1>5. books' = [books EXCEPT ![p] = nb]
    <2> DEFINE c == [live |-> b.live, book |-> b.book, lastProcessed |-> b.lastProcessed,
                     lastSaved |-> s.nr, saving |-> b.saving]
    <2>4. b \in BookActors
      BY <1>3
    <2> HIDE DEF b, s
    <2>1. c = [b EXCEPT !.lastSaved = s.nr]
      BY <2>4 DEF BookActors
    <2>2. nb = [c EXCEPT !.saving = NoSnapshot]
      OBVIOUS
    <2> HIDE DEF c, nb
    <2>3. nb = [[b EXCEPT !.lastSaved = s.nr] EXCEPT !.saving = NoSnapshot]
      BY <2>1, <2>2
    <2> QED
      BY <1>1, <1>2, <2>3 DEF TypeOK, b
  <1> HIDE DEF nb, s
  <1>6. nb # NoBook
    BY <1>4, NothingAssumption
  <1>7. /\ books'[p] = nb /\ \A q \in Pairs : q # p => books'[q] = books[q] /\ stored'[q] = stored[q]
    BY <1>1, <1>2, <1>5 DEF TypeOK
  <1>8. p \in LiveBooks'
    BY <1>4, <1>6, <1>7 DEF LiveBooks
  <1>9. matcher.lastProcessedNr \in Nat
    BY <1>1 DEF TypeOK, Matchers
  <1>10. Gathering'
    BY <1>2, <1>3 DEF Gathering
  <1>11. Rotation'
    <2>1. SUFFICES ASSUME NEW q \in Pairs PROVE InRotation(q)'
      BY DEF Rotation
    <2>2. InRotation(q)
      BY <1>3 DEF RotationInv, Rotation
    <2>3. CASE q = p
      <3>1. IsSaving(p)
        BY <1>2, <1>3, <2>2, <2>3 DEF InRotation, IsDue, IsAsked, IsReporting, Saves, s
      <3>2. Reports(p)' = {<<p, s.nr>>} /\ s.nr <= matcher.lastProcessedNr
        BY <1>2, <3>1 DEF Reports, IsSaving, s
      <3>3. Due(p)' = {} /\ Requests(p)' = {} /\ ~Saves(p)'
        BY <1>2, <1>4, <1>7, <3>1 DEF Due, Requests, Saves, IsSaving
      <3>4. IsReporting(p)'
        BY <1>2, <1>4, <1>7, <3>2, <3>3 DEF IsReporting
      <3> QED
        BY <1>8, <2>3, <3>4 DEF InRotation
    <2>4. CASE q # p
      <3>1. Due(q)' = Due(q) /\ Reports(q)' = Reports(q) /\ Requests(q)' = Requests(q)
        BY <1>2, <2>4 DEF Due, Reports, Requests
      <3>2. /\ books'[q] = books[q] /\ stored'[q].nr = stored[q].nr
            /\ matcher.lastProcessedNr \in Int /\ matcher'.lastProcessedNr \in Int
            /\ matcher.lastProcessedNr <= matcher'.lastProcessedNr
        <4>1. books'[q] = books[q] /\ stored'[q] = stored[q]
          BY <1>7, <2>4
        <4>2. matcher' = matcher
          BY <1>2
        <4> QED
          BY <1>9, <4>1, <4>2
      <3> QED
        BY <1>1, <2>2, <3>1, <3>2, RotationSame
    <2> QED
      BY <2>3, <2>4
  <1> QED
    BY <1>10, <1>11 DEF RotationInv

\* What a message that a book handles leaves of the requests in its mailbox.
LEMMA RequestsLeft ==
  ASSUME RecoveryInv, NEW p \in Pairs, inbox[p] # <<>>, inbox'[p] = Tail(inbox[p])
  PROVE  /\ Head(inbox[p]).type = "event" => Requests(p)' = Requests(p)
         /\ Head(inbox[p]).type = "save" =>
              /\ Head(inbox[p]).offset \in Requests(p)
              /\ Requests(p)' \subseteq Requests(p) \ {Head(inbox[p]).offset}
  <1> DEFINE box == inbox[p]
             m == Head(inbox[p])
  <1>1. inbox[p] \in Seq(Messages) /\ GoodBox(inbox[p], queue, p, unread) /\ unread \in Nat
    <2>1. TypeOK /\ Mailboxes /\ Len(queue) \in Nat
      BY Basics DEF RecoveryInv
    <2> QED
      BY <2>1, BoxIsMailbox DEF TypeOK, Mailboxes
  <1>2. /\ m = box[1] /\ 1 \in DOMAIN box /\ m \in Messages /\ m.offset \in Nat
        /\ \A i \in DOMAIN box : i = 1 \/ (i - 1 \in DOMAIN Tail(box) /\ Tail(box)[i - 1] = box[i])
        /\ \A i \in DOMAIN Tail(box) : i + 1 \in DOMAIN box /\ Tail(box)[i] = box[i + 1]
                                       /\ Before(m, box[i + 1])
    BY <1>1, BoxHead
  <1>3. Requests(p)' = {Tail(box)[i].offset : i \in {j \in DOMAIN Tail(box) : Tail(box)[j].type = "save"}}
    BY DEF Requests
  <1>4. Requests(p) = {box[i].offset : i \in {j \in DOMAIN box : box[j].type = "save"}}
    BY DEF Requests
  <1>5. Requests(p)' \subseteq Requests(p)
    BY <1>2, <1>3, <1>4
  <1>6. CASE m.type = "event"
    <2>1. Requests(p) \subseteq Requests(p)'
      <3>1. SUFFICES ASSUME NEW i \in DOMAIN box, box[i].type = "save" PROVE box[i].offset \in Requests(p)'
        BY <1>4
      <3>2. i # 1
        BY <1>2, <1>6, <3>1
      <3> QED
        BY <1>2, <1>3, <3>1, <3>2
    <2> QED
      BY <1>5, <1>6, <2>1
  <1>7. CASE m.type = "save"
    <2>1. m.offset \in Requests(p)
      BY <1>2, <1>4, <1>7
    <2>2. ASSUME NEW i \in DOMAIN Tail(box), Tail(box)[i].type = "save" PROVE Tail(box)[i].offset # m.offset
      <3>1. Before(m, Tail(box)[i])
        BY <1>2
      <3>2. Tail(box)[i] \in Messages
        BY <1>1, <1>2
      <3>3. Tail(box)[i].offset \in Nat
        BY <3>2 DEF Messages
      <3> QED
        BY <1>2, <1>7, <3>1, <3>3 DEF Before
    <2>3. m.offset \notin Requests(p)'
      BY <1>3, <2>2
    <2> QED
      BY <1>5, <1>7, <2>1, <2>3
  <1>8. m.type \in {"event", "save"}
    BY <1>2 DEF Messages
  <1> QED
    BY <1>6, <1>7, <1>8

\* From asked to saving: the request is not ignored.
LEMMA RotationBookHandles ==
  ASSUME RecoveryInv, RotationInv, NEW p \in Pairs, BookHandles(p)
  PROVE  RotationInv'
  <1> DEFINE b == books[p]
             m == Head(inbox[p])
             n == m.offset
             taken == m.type = "save" /\ b.saving = NoSnapshot /\ b.lastSaved < n
  <1>1. TypeOK /\ Starting /\ Mailboxes
    BY DEF RecoveryInv
  <1>2. /\ b # NoBook /\ b.live /\ p \in LiveBooks /\ inbox[p] # <<>>
        /\ UNCHANGED <<stored, matcher, updates>>
        /\ inbox' = [inbox EXCEPT ![p] = Tail(@)]
        /\ IF m.type = "event" THEN HandleEvent(p, n) ELSE HandleSaveSnapshot(p, n)
    BY DEF BookHandles, LiveBooks, stores
  <1>3. b \in BookActors
    BY <1>1, <1>2 DEF TypeOK
  <1>4. inbox'[p] = Tail(inbox[p]) /\ \A q \in Pairs : q # p => inbox'[q] = inbox[q]
    BY <1>1, <1>2 DEF TypeOK
  <1>5. matcher.working /\ matcher.lastProcessedNr \in Nat
    BY <1>1, <1>2 DEF Starting, TypeOK, Matchers
  <1>6. m \in Messages
    <2>1. inbox[p] \in Seq(Messages)
      BY <1>1 DEF TypeOK
    <2> QED
      BY <1>2, <2>1
  <1>7. n \in Nat /\ m.type \in {"event", "save"}
    BY <1>6 DEF Messages
  <1> HIDE DEF n, m
  <1>8. /\ books'[p].live /\ books'[p].lastSaved = b.lastSaved
        /\ books'[p].saving = IF taken THEN [nr |-> n, book |-> b.book] ELSE b.saving
        /\ books'[p] # NoBook
        /\ \A q \in Pairs : q # p => books'[q] = books[q]
    <2>1. CASE m.type = "event" /\ IsNew(b, n)
      <3> DEFINE r == Handle(b.book, queue[n + 1], n)
                 c == [live |-> b.live, book |-> r.book, lastProcessed |-> b.lastProcessed,
                       lastSaved |-> b.lastSaved, saving |-> b.saving]
                 nb == [live |-> b.live, book |-> r.book, lastProcessed |-> n,
                        lastSaved |-> b.lastSaved, saving |-> b.saving]
      <3>1. books' = [books EXCEPT ![p].book = r.book, ![p].lastProcessed = n]
        BY <1>2, <2>1 DEF HandleEvent
      <3>2. r.book \in Books
        BY <1>2, <2>1, HandlesNext DEF IsNew, m, n, RecoveryInv
      <3> HIDE DEF r, b
      <3>3. c = [b EXCEPT !.book = r.book]
        BY <1>3 DEF BookActors
      <3>4. nb = [c EXCEPT !.lastProcessed = n]
        OBVIOUS
      <3>5. nb \in BookActors
        BY <1>3, <1>7, <3>2 DEF BookActors
      <3> HIDE DEF c
      <3>6. nb = [[b EXCEPT !.book = r.book] EXCEPT !.lastProcessed = n]
        BY <3>3, <3>4
      <3>7. nb.live = b.live /\ nb.lastSaved = b.lastSaved /\ nb.saving = b.saving
        OBVIOUS
      <3> HIDE DEF nb
      <3>8. books' = [books EXCEPT ![p] = nb]
        BY <1>1, <3>1, <3>6 DEF TypeOK, b
      <3>9. books'[p] = nb /\ \A q \in Pairs : q # p => books'[q] = books[q]
        BY <1>1, <3>8 DEF TypeOK
      <3> QED
        BY <1>2, <2>1, <3>5, <3>7, <3>9, NothingAssumption DEF b
    <2>2. CASE m.type = "event" /\ ~IsNew(b, n)
      BY <1>2, <2>2 DEF HandleEvent
    <2>3. CASE taken
      <3> DEFINE s == [nr |-> n, book |-> b.book]
      <3>1. books' = [books EXCEPT ![p].saving = s]
        BY <1>2, <2>3 DEF HandleSaveSnapshot
      <3>2. s \in Snapshots
        BY <1>3, <1>7 DEF Snapshots, BookActors
      <3> HIDE DEF s
      <3>3. books'[p] = [b EXCEPT !.saving = s] /\ \A q \in Pairs : q # p => books'[q] = books[q]
        BY <1>1, <3>1 DEF TypeOK
      <3>4. /\ [b EXCEPT !.saving = s] \in BookActors
            /\ [b EXCEPT !.saving = s].live = b.live
            /\ [b EXCEPT !.saving = s].lastSaved = b.lastSaved
            /\ [b EXCEPT !.saving = s].saving = s
        <4> HIDE DEF b
        <4> QED
          BY <1>3, <3>2 DEF BookActors
      <3> QED
        BY <1>2, <2>3, <3>3, <3>4, NothingAssumption DEF s
    <2>4. CASE m.type # "event" /\ ~taken
      BY <1>2, <1>7, <2>4 DEF HandleSaveSnapshot
    <2> QED
      BY <2>1, <2>2, <2>3, <2>4
  <1> HIDE DEF b
  <1>9. p \in LiveBooks'
    BY <1>8 DEF LiveBooks
  <1>10. Gathering'
    BY <1>2, <1>5 DEF Gathering
  <1>11. \A q : Due(q)' = Due(q) /\ Reports(q)' = Reports(q)
    BY <1>2 DEF Due, Reports
  <1>12. /\ m.type = "event" => Requests(p)' = Requests(p)
         /\ m.type = "save" => n \in Requests(p) /\ Requests(p)' \subseteq Requests(p) \ {n}
    BY <1>2, <1>4, RequestsLeft DEF m, n
  <1>13. ASSUME NEW q \in Pairs PROVE InRotation(q)'
    <2>1. InRotation(q)
      BY <1>5 DEF RotationInv, Rotation
    <2>2. CASE q # p
      <3>1. Requests(q)' = Requests(q) /\ books'[q] = books[q] /\ stored'[q].nr = stored[q].nr
        BY <1>2, <1>4, <1>8, <2>2 DEF Requests
      <3>2. /\ matcher.lastProcessedNr \in Int /\ matcher'.lastProcessedNr \in Int
            /\ matcher.lastProcessedNr <= matcher'.lastProcessedNr
        BY <1>2, <1>5
      <3> QED
        BY <1>1, <1>11, <2>1, <3>1, <3>2, RotationSame
    <2>3. CASE q = p /\ m.type = "event"
      <3>1. ~taken
        BY <2>3
      <3>2. books'[p].lastSaved = books[p].lastSaved /\ books'[p].saving = books[p].saving
        BY <1>8, <3>1 DEF b
      <3>3. /\ Requests(p)' = Requests(p) /\ Due(p)' = Due(p) /\ Reports(p)' = Reports(p)
            /\ Saves(p)' = Saves(p) /\ matcher' = matcher
        BY <1>2, <1>11, <1>12, <2>3, <3>2 DEF Saves
      <3>4. IsDue(p) \/ IsAsked(p) \/ IsSaving(p) \/ IsReporting(p)
        BY <1>2, <2>1, <2>3 DEF InRotation
      <3>5. IsDue(p)' \/ IsAsked(p)' \/ IsSaving(p)' \/ IsReporting(p)'
        BY <3>2, <3>3, <3>4 DEF IsDue, IsAsked, IsSaving, IsReporting
      <3> QED
        BY <1>9, <2>3, <3>5 DEF InRotation
    <2>4. CASE q = p /\ m.type = "save"
      <3>1. n \in Requests(p) /\ Requests(p)' \subseteq Requests(p) \ {n}
        BY <1>12, <2>4
      <3>2. IsAsked(p)
        BY <1>2, <2>1, <2>4, <3>1 DEF InRotation, IsDue, IsSaving, IsReporting
      <3>3. PICK k \in Int : Requests(p) = {k} /\ k > books[p].lastSaved /\ k <= matcher.lastProcessedNr
        BY <3>2 DEF IsAsked
      <3>4. k = n /\ Requests(p)' = {}
        BY <3>1, <3>3
      <3>5. books[p].lastSaved \in Int
        BY <1>3 DEF BookActors, b
      <3>6. taken
        BY <1>7, <2>4, <3>2, <3>3, <3>4, <3>5 DEF IsAsked, Saves, b
      <3>7. books'[p].saving = [nr |-> n, book |-> b.book]
        BY <1>8, <3>6
      <3>8. b.book \in Books
        BY <1>3 DEF BookActors
      <3>9. books'[p].saving \in Snapshots /\ books'[p].saving.nr = n
        BY <1>7, <3>7, <3>8 DEF Snapshots
      <3>10. IsSaving(p)'
        BY <1>2, <1>11, <3>2, <3>3, <3>4, <3>9, NothingAssumption DEF IsSaving, Saves, IsAsked
      <3> QED
        BY <1>9, <2>4, <3>10 DEF InRotation
    <2> QED
      BY <1>7, <2>2, <2>3, <2>4
  <1> QED
    BY <1>10, <1>13 DEF RotationInv, Rotation

\* What is due is due later than the last snapshot.
LEMMA DueIsLater ==
  ASSUME RecoveryInv, RotationInv, matcher.working, NEW x \in matcher.nearest
  PROVE  /\ x[1] \in LiveBooks /\ IsDue(x[1]) /\ Due(x[1]) = {x}
         /\ x[2] \in Nat /\ x[2] > books[x[1]].lastSaved
  <1>1. TypeOK /\ StoredExact /\ BooksExact
    BY DEF RecoveryInv
  <1>2. x \in Pairs \X Int /\ x[1] \in Pairs /\ x = <<x[1], x[2]>>
    BY <1>1 DEF TypeOK, Matchers
  <1>3. InRotation(x[1]) /\ x \in Due(x[1])
    BY <1>2 DEF RotationInv, Rotation, Due
  <1>4. x[1] \in LiveBooks /\ IsDue(x[1])
    BY <1>3 DEF InRotation, IsNewBook, IsAsked, IsSaving, IsReporting
  <1>5. PICK n \in Int : Due(x[1]) = {<<x[1], n>>} /\ n > books[x[1]].lastSaved
    BY <1>4 DEF IsDue
  <1>6. x = <<x[1], n>> /\ x[2] = n
    BY <1>2, <1>3, <1>5
  <1>7. books[x[1]].lastSaved \in Nrs /\ Len(queue) \in Nat
    BY <1>1, <1>2, <1>4, Basics DEF BooksExact, BookExact, StoredExact, LiveBooks, Exists
  <1>8. n \in Nat
    BY <1>5, <1>7 DEF Nrs
  <1> QED
    BY <1>4, <1>5, <1>6, <1>8

\* From due to asked.
LEMMA RotationHandlesEvent ==
  ASSUME RecoveryInv, RotationInv, MatcherHandlesEvent
  PROVE  RotationInv'
  <1> DEFINE n == NextOffset
             p == PairOf(n)
             due == Required(matcher, n)
             asked == IF books[p] = NoBook THEN {} ELSE {x[1] : x \in due}
  <1>1. TypeOK /\ Mailboxes
    BY DEF RecoveryInv
  <1>2. /\ n \in 0 .. Len(queue) - 1 /\ p \in Pairs /\ matcher.working /\ matcher'.working
        /\ UNCHANGED <<stored, updates>>
        /\ matcher'.lastProcessedNr = Later(matcher.lastProcessedNr, n)
        /\ matcher'.nearest = IF books[p] = NoBook THEN matcher.nearest ELSE matcher.nearest \ due
        /\ \A q \in Pairs : Sends(n, asked, inbox'[q], queue, inbox[q], q, unread)
        /\ IF books[p] = NoBook
           THEN books' = [books EXCEPT ![p] = Recovering]
           ELSE books' = books
    BY ReadsNext
  <1>3. Len(queue) \in Nat /\ unread <= n
    BY Basics
  <1>4. unread \in Nat /\ n \in Nat /\ matcher.lastProcessedNr \in Nat
    BY <1>1, <1>2, <1>3 DEF TypeOK, Matchers
  <1>5. due = {} \/ (due = {Nearest(matcher.nearest)} /\ matcher.nearest # {}
                     /\ n >= Nearest(matcher.nearest)[2])
    BY DEF Required
  <1> HIDE DEF n, due
  <1>6. /\ matcher'.lastProcessedNr \in Nat /\ matcher.lastProcessedNr <= matcher'.lastProcessedNr
        /\ n <= matcher'.lastProcessedNr
    BY <1>2, <1>4 DEF Later
  <1>7. \A q \in Pairs : q \in asked => Requests(q)' = Requests(q) \cup {n}
    <2>1. SUFFICES ASSUME NEW q \in Pairs, q \in asked PROVE Requests(q)' = Requests(q) \cup {n}
      OBVIOUS
    <2> HIDE DEF asked
    <2>2. inbox[q] \in Seq(Messages) /\ GoodBox(inbox[q], queue, q, unread)
      BY <1>1, BoxIsMailbox DEF TypeOK, Mailboxes
    <2>3. /\ \A i \in DOMAIN inbox[q] : i \in DOMAIN inbox'[q] /\ inbox'[q][i] = inbox[q][i]
          /\ \E i \in DOMAIN inbox'[q] : inbox'[q][i] = SaveMessage(n)
          /\ \A i \in DOMAIN inbox'[q] : \/ i \in DOMAIN inbox[q]
                                        \/ inbox'[q][i] = EventMessage(n)
                                        \/ inbox'[q][i] = SaveMessage(n)
      BY <1>2, <1>3, <1>4, <2>1, <2>2, BoxSends
    <2>4. /\ EventMessage(n).type = "event" /\ SaveMessage(n).type = "save"
          /\ SaveMessage(n).offset = n
      BY DEF EventMessage, SaveMessage
    <2>5. Requests(q)' = {inbox'[q][i].offset : i \in {j \in DOMAIN inbox'[q] : inbox'[q][j].type = "save"}}
      BY DEF Requests
    <2>6. Requests(q)' \subseteq Requests(q) \cup {n}
      BY <2>3, <2>4, <2>5 DEF Requests
    <2>7. Requests(q) \cup {n} \subseteq Requests(q)'
      BY <2>3, <2>4, <2>5 DEF Requests
    <2> QED
      BY <2>6, <2>7
  <1>8. \A q \in Pairs : q \notin asked => Requests(q)' = Requests(q)
    <2>1. SUFFICES ASSUME NEW q \in Pairs, q \notin asked PROVE Requests(q)' = Requests(q)
      OBVIOUS
    <2> HIDE DEF asked
    <2>2. inbox[q] \in Seq(Messages) /\ GoodBox(inbox[q], queue, q, unread)
      BY <1>1, BoxIsMailbox DEF TypeOK, Mailboxes
    <2>3. /\ \A i \in DOMAIN inbox[q] : i \in DOMAIN inbox'[q] /\ inbox'[q][i] = inbox[q][i]
          /\ \A i \in DOMAIN inbox'[q] : i \in DOMAIN inbox[q] \/ inbox'[q][i] = EventMessage(n)
      BY <1>2, <1>3, <1>4, <2>1, <2>2, BoxSends
    <2>4. EventMessage(n).type = "event"
      BY DEF EventMessage
    <2>5. Requests(q)' = {inbox'[q][i].offset : i \in {j \in DOMAIN inbox'[q] : inbox'[q][j].type = "save"}}
      BY DEF Requests
    <2> QED
      BY <2>3, <2>4, <2>5 DEF Requests
  <1>9. \A q : Reports(q)' = Reports(q)
    BY <1>2 DEF Reports
  <1>10. \A q : q \notin asked => Due(q)' = Due(q)
    <2>1. CASE books[p] = NoBook
      BY <1>2, <2>1 DEF Due
    <2>2. CASE books[p] # NoBook
      <3>1. matcher'.nearest = matcher.nearest \ due /\ asked = {x[1] : x \in due}
        BY <1>2, <2>2
      <3> HIDE DEF asked
      <3> QED
        BY <3>1 DEF Due
    <2> QED
      BY <2>1, <2>2
  <1>11. \A q \in Pairs : q \in asked => books'[q] = books[q]
    BY <1>2
  <1>12. Gathering'
    BY <1>2 DEF Gathering
  <1>13. ASSUME NEW q \in Pairs PROVE InRotation(q)'
    <2>1. InRotation(q)
      BY <1>2 DEF RotationInv, Rotation
    <2>2. CASE q \notin asked
      <3> HIDE DEF asked, p
      <3>1. Due(q)' = Due(q) /\ Reports(q)' = Reports(q) /\ Requests(q)' = Requests(q)
        BY <1>8, <1>9, <1>10, <2>2
      <3>2. stored' = stored
        BY <1>2
      <3>3. CASE books'[q] = books[q]
        <4>1. stored'[q].nr = stored[q].nr
          BY <3>2
        <4> QED
          BY <1>1, <1>4, <1>6, <2>1, <3>1, <3>3, <4>1, RotationSame
      <3>4. CASE books'[q] # books[q]
        <4>1. books[q] = NoBook /\ books'[q] = Recovering
          BY <1>1, <1>2, <3>4 DEF TypeOK
        <4>2. q \notin LiveBooks /\ q \notin LiveBooks'
          BY <4>1, RecoveringIsActor DEF LiveBooks
        <4>3. IsNewBook(q)
          BY <2>1, <4>2 DEF InRotation
        <4>4. IsNewBook(q)'
          BY <3>1, <3>2, <4>3 DEF IsNewBook
        <4> QED
          BY <4>2, <4>4 DEF InRotation
      <3> QED
        BY <3>3, <3>4
    <2>3. CASE q \in asked
      <3> DEFINE x == Nearest(matcher.nearest)
      <3>1. books[p] # NoBook /\ \E y \in due : y[1] = q
        BY <2>3
      <3>2. due = {x} /\ matcher.nearest # {} /\ n >= x[2] /\ q = x[1]
        BY <1>5, <3>1
      <3>3. x \in matcher.nearest
        <4>1. \A y \in matcher.nearest : y[2] \in Nat
          BY <1>2, DueIsLater
        <4>2. matcher.nearest \in SUBSET (Pairs \X Int)
          BY <1>1 DEF TypeOK, Matchers
        <4> QED
          BY <3>2, <4>1, <4>2, NearestIs
      <3>4. Requests(q)' = Requests(q) \cup {n} /\ books'[q] = books[q]
        BY <1>7, <1>11, <2>3
      <3> HIDE DEF x, asked
      <3>5. /\ q \in LiveBooks /\ IsDue(q) /\ Due(q) = {x}
            /\ x[2] \in Nat /\ x[2] > books[q].lastSaved
        BY <1>2, <3>2, <3>3, DueIsLater
      <3>6. q \in LiveBooks'
        BY <3>4, <3>5 DEF LiveBooks
      <3>7. matcher'.nearest = matcher.nearest \ {x}
        BY <1>2, <3>1, <3>2
      <3>8. Due(q)' = {}
        BY <3>5, <3>7 DEF Due
      <3>9. Requests(q)' = {n} /\ Reports(q)' = {} /\ ~Saves(q)'
        BY <1>9, <3>4, <3>5 DEF IsDue, Saves
      <3>10. n > books[q].lastSaved
        <4>1. books[q] \in BookActors
          BY <1>1, <3>5 DEF TypeOK, LiveBooks
        <4>2. books[q].lastSaved \in Int
          BY <4>1 DEF BookActors
        <4> QED
          BY <1>4, <3>2, <3>5, <4>2
      <3>11. IsAsked(q)'
        BY <1>4, <1>6, <3>4, <3>8, <3>9, <3>10 DEF IsAsked
      <3> QED
        BY <3>6, <3>11 DEF InRotation
    <2> QED
      BY <2>2, <2>3
  <1> QED
    BY <1>12, <1>13 DEF RotationInv, Rotation

\* From reporting to due again.
LEMMA RotationRotates ==
  ASSUME RecoveryInv, RotationInv, matcher.working, NEW x \in updates, MatcherHandlesUpdate(x)
  PROVE  RotationInv'
  <1> DEFINE p == x[1]
             nr == matcher.lastProcessedNr
             next == NextSnapshotOffset(x[1], x[2], nr)
             due == <<x[1], next>>
  <1>1. TypeOK
    BY DEF RecoveryInv
  <1>2. /\ UNCHANGED <<stored, books, inbox>> /\ updates' = updates \ {x}
        /\ matcher' = [matcher EXCEPT !.nearest = @ \cup {due}]
    BY DEF MatcherHandlesUpdate, stores
  <1>3. x \in Pairs \X Int /\ x[1] \in Pairs /\ x[2] \in Int /\ matcher \in Matchers
    BY <1>1 DEF TypeOK
  <1>4. nr \in Nat
    BY <1>3 DEF Matchers
  <1>5. next \in Int /\ next > nr
    BY <1>3, <1>4, NextIsOffset, NextIsLater
  <1> HIDE DEF next
  <1>6. /\ matcher'.working = matcher.working /\ matcher'.lastProcessedNr = nr
        /\ matcher'.nearest = matcher.nearest \cup {due}
    BY <1>2, <1>3 DEF Matchers
  <1>7. Gathering'
    BY <1>6 DEF Gathering
  <1>8. LiveBooks' = LiveBooks /\ \A q : Requests(q)' = Requests(q) /\ Saves(q)' = Saves(q)
    BY <1>2 DEF LiveBooks, Requests, Saves
  <1>9. ASSUME NEW q \in Pairs PROVE InRotation(q)'
    <2>1. InRotation(q)
      BY DEF RotationInv, Rotation
    <2>2. CASE q # p
      <3>1. Due(q)' = Due(q) /\ Reports(q)' = Reports(q)
        BY <1>2, <1>6, <2>2 DEF Due, Reports
      <3>2. /\ books'[q] = books[q] /\ stored'[q].nr = stored[q].nr
            /\ matcher.lastProcessedNr \in Int /\ matcher'.lastProcessedNr \in Int
            /\ matcher.lastProcessedNr <= matcher'.lastProcessedNr
        BY <1>2, <1>4, <1>6
      <3> QED
        BY <1>1, <1>8, <2>1, <3>1, <3>2, RotationSame
    <2>3. CASE q = p
      <3>1. x \in Reports(p)
        BY DEF Reports
      <3>2. p \in LiveBooks /\ IsReporting(p)
        BY <2>1, <2>3, <3>1 DEF InRotation, IsNewBook, IsDue, IsAsked, IsSaving
      <3>3. Reports(p) = {x} /\ x = <<p, books[p].lastSaved>> /\ books[p].lastSaved <= nr
        BY <3>1, <3>2 DEF IsReporting
      <3>4. Reports(p)' = {}
        BY <1>2, <3>3 DEF Reports
      <3>5. Due(p)' = {due}
        BY <1>6, <3>2 DEF Due, IsReporting
      <3>6. next > books[p].lastSaved
        <4>1. books[p].lastSaved \in Int
          BY <1>3, <3>3
        <4> QED
          BY <1>4, <1>5, <3>3, <4>1
      <3>7. IsDue(p)'
        BY <1>2, <1>5, <1>8, <3>2, <3>4, <3>5, <3>6 DEF IsDue, IsReporting
      <3> QED
        BY <1>8, <2>3, <3>2, <3>7 DEF InRotation
    <2> QED
      BY <2>2, <2>3
  <1> QED
    BY <1>7, <1>9 DEF RotationInv, Rotation

\* With the last report all books become due.
LEMMA RotationCollects ==
  ASSUME RecoveryInv, RotationInv, ~matcher.working, NEW x \in updates, MatcherHandlesUpdate(x)
  PROVE  RotationInv'
  <1> DEFINE offsets == matcher.offsets \cup {x}
             last == {y[1] : y \in offsets} = {p \in Pairs : books[p] # NoBook}
  <1>1. TypeOK /\ Starting
    BY DEF RecoveryInv
  <1>2. /\ UNCHANGED <<stored, books, inbox>> /\ updates' = updates \ {x} /\ CollectOrderBook(x)
    BY DEF MatcherHandlesUpdate, stores
  <1>3. /\ \A p \in Pairs : inbox[p] = <<>> /\ (Exists(p) => books[p].saving = NoSnapshot)
        /\ \A y \in matcher.offsets \cup updates : y[1] \in LiveBooks /\ y[2] = stored[y[1]].nr
    BY <1>1 DEF Starting
  <1>4. /\ \A p \in LiveBooks : <<p, stored[p].nr>> \in matcher.offsets \cup updates
        /\ matcher.offsets \cap updates = {}
    BY DEF RotationInv, Gathering
  <1>5. matcher \in Matchers /\ offsets \subseteq Pairs \X Int /\ updates \subseteq Pairs \X Int
    BY <1>1 DEF TypeOK, Matchers
  <1>6. \A y \in offsets \cup updates : /\ y[1] \in LiveBooks /\ y[1] \in Pairs
                                        /\ y = <<y[1], stored[y[1]].nr>>
    BY <1>3, <1>5
  <1>7. \A p \in Pairs : stored[p].nr \in Int
    BY <1>1 DEF TypeOK, Snapshots
  <1>8. LiveBooks' = LiveBooks
    BY <1>2 DEF LiveBooks
  <1> HIDE DEF last
  <1>9. CASE ~last
    <2>1. matcher' = [matcher EXCEPT !.offsets = offsets]
      BY <1>2, <1>9 DEF CollectOrderBook, last
    <2> HIDE DEF offsets
    <2>2. ~matcher'.working /\ matcher'.offsets = offsets
      BY <1>5, <2>1 DEF Matchers
    <2>3. Gathering'
      BY <1>2, <1>4, <1>8, <2>2 DEF Gathering, offsets
    <2> QED
      BY <2>2, <2>3 DEF RotationInv, Rotation
  <1>10. CASE last
    <2> DEFINE near == InitiallyNearest(offsets)
    <2>1. matcher' = [matcher EXCEPT !.working = TRUE, !.offsets = {},
                                     !.startOffset = matcher.lastProcessedNr, !.nearest = near]
      BY <1>2, <1>10 DEF CollectOrderBook, last
    <2>2. near = {<<y[1], y[2] + NextSnapshotOffset(y[1], y[2], 0)>> : y \in offsets}
      BY DEF InitiallyNearest
    <2>3. {y[1] : y \in offsets} = {p \in Pairs : books[p] # NoBook}
      BY <1>10 DEF last
    <2> HIDE DEF near, offsets
    <2>4. matcher'.working /\ matcher'.nearest = near
      BY <1>5, <2>1 DEF Matchers
    <2>5. updates' = {}
      <3>1. SUFFICES ASSUME NEW y \in updates, y # x PROVE FALSE
        BY <1>2
      <3>2. y[1] \in {z[1] : z \in offsets}
        BY <1>6, <2>3 DEF LiveBooks
      <3>3. PICK z \in offsets : z[1] = y[1]
        BY <3>2
      <3>4. z = y
        BY <1>6, <3>3
      <3> QED
        BY <1>4, <3>1, <3>3, <3>4 DEF offsets
    <2>6. Gathering'
      BY <2>4 DEF Gathering
    <2>7. ASSUME NEW p \in Pairs PROVE InRotation(p)'
      <3>1. Reports(p)' = {} /\ Requests(p)' = {}
        <4>1. inbox'[p] = <<>>
          BY <1>2, <1>3
        <4> QED
          BY <2>5, <4>1 DEF Reports, Requests
      <3>2. Due(p)' = {y \in near : y[1] = p}
        BY <2>4 DEF Due
      <3>3. CASE p \in LiveBooks
        <4> DEFINE k == stored[p].nr + NextSnapshotOffset(p, stored[p].nr, 0)
        <4>1. books[p] # NoBook
          BY <3>3 DEF LiveBooks
        <4>2. p \in {z[1] : z \in offsets}
          BY <2>3, <4>1
        <4>3. PICK y \in offsets : y[1] = p
          BY <4>2
        <4>4. \A z \in offsets : z[1] = p <=> z = y
          BY <1>6, <4>3
        <4>5. y[2] = stored[p].nr
          BY <1>6, <4>3
        <4>6. Due(p)' = {<<p, k>>}
          BY <2>2, <3>2, <4>3, <4>4, <4>5
        <4>7. k \in Int /\ k > stored[p].nr
          <5> DEFINE d == NextSnapshotOffset(p, stored[p].nr, 0)
          <5>1. d \in Int /\ d > 0 /\ stored[p].nr \in Int
            BY <1>7, NextIsOffset, NextIsLater
          <5> HIDE DEF d
          <5>2. stored[p].nr + d \in Int /\ stored[p].nr + d > stored[p].nr
            BY <5>1
          <5> QED
            BY <5>2 DEF d
        <4>8. books[p].lastSaved = stored[p].nr
          BY <3>3 DEF RecoveryInv, BooksExact, BookExact, LiveBooks, Exists
        <4> HIDE DEF k
        <4>9. IsDue(p)'
          BY <1>2, <1>3, <3>1, <4>1, <4>6, <4>7, <4>8 DEF IsDue, Saves, Exists
        <4> QED
          BY <1>8, <3>3, <4>9 DEF InRotation
      <3>4. CASE p \notin LiveBooks
        <4>1. p \notin {z[1] : z \in offsets}
          BY <1>6, <3>4
        <4>2. books[p] = NoBook
          BY <2>3, <4>1
        <4>3. Due(p)' = {}
          BY <2>2, <3>2, <4>1
        <4>4. stored[p].nr = -1
          <5>1. stored[p].nr \in Nrs /\ p \notin journal /\ Len(queue) \in Nat
            BY <4>2, Basics DEF RecoveryInv, StoredExact, Journalled, Exists
          <5>2. ~(stored[p].nr >= 0)
            BY <5>1 DEF RecoveryInv, Recorded
          <5> QED
            BY <5>1, <5>2 DEF Nrs
        <4> QED
          BY <1>2, <1>8, <3>1, <3>4, <4>3, <4>4 DEF InRotation, IsNewBook
      <3> QED
        BY <3>3, <3>4
    <2> QED
      BY <2>6, <2>7 DEF RotationInv, Rotation
  <1> QED
    BY <1>9, <1>10

\* Every step keeps every book in the rotation.
LEMMA RotationNext ==
  ASSUME RecoveryInv, RotationInv, [Next]_vars
  PROVE  RotationInv'
  <1>1. CASE Enqueue
    <2>1. UNCHANGED <<stored, matcher, books, inbox, updates>>
      BY <1>1 DEF Enqueue
    <2> QED
      BY <2>1, RotationStays
  <1>2. CASE Restart
    BY <1>2, RotationRestart
  <1>3. CASE Step
    <2>1. CASE MatcherHandlesEvent
      BY <2>1, RotationHandlesEvent
    <2>2. ASSUME NEW p \in Pairs, JournalWritten(p) PROVE RotationInv'
      <3>1. UNCHANGED <<stored, matcher, books, inbox, updates>>
        BY <2>2 DEF JournalWritten
      <3> QED
        BY <3>1, RotationStays
    <2>3. ASSUME NEW p \in Pairs, BookRecovered(p) \/ BookHandles(p) \/ SnapshotSaved(p)
          PROVE  RotationInv'
      BY <2>3, RotationBookRecovered, RotationBookHandles, RotationSnapshotSaved
    <2>4. ASSUME NEW x \in updates, MatcherHandlesUpdate(x) PROVE RotationInv'
      BY <2>4, RotationRotates, RotationCollects
    <2> QED
      BY <1>3, <2>1, <2>2, <2>3, <2>4 DEF Step
  <1>4. CASE UNCHANGED vars
    <2>1. UNCHANGED <<stored, matcher, books, inbox, updates>>
      BY <1>4 DEF vars
    <2> QED
      BY <2>1, RotationStays
  <1> QED
    BY <1>1, <1>2, <1>3, <1>4 DEF Next

\* No book drops out of the rotation of snapshots (SnapshotsState, MatcherActor,
\* OrderBookActor.receiveCommand).
THEOREM NoBookIsForgotten == Spec => []NoBookForgotten
  <1>1. RecoveryInv /\ RotationInv /\ [Next]_vars => RotationInv'
    BY RotationNext
  <1>2. RotationInv => NoBookForgotten
    <2>1. SUFFICES ASSUME RotationInv, matcher.working, NEW p \in LiveBooks
          PROVE  \/ \E x \in matcher.nearest \cup updates : x[1] = p
                 \/ \E i \in DOMAIN inbox[p] : /\ inbox[p][i].type = "save"
                                              /\ inbox[p][i].offset > books[p].lastSaved
                 \/ books[p].saving # NoSnapshot
      BY DEF NoBookForgotten
    <2>2. IsDue(p) \/ IsAsked(p) \/ IsSaving(p) \/ IsReporting(p)
      BY <2>1 DEF RotationInv, Rotation, InRotation, LiveBooks
    <2>3. CASE IsDue(p)
      BY <2>3 DEF IsDue, Due
    <2>4. CASE IsAsked(p)
      <3>1. PICK n \in Int : Requests(p) = {n} /\ n > books[p].lastSaved
        BY <2>4 DEF IsAsked
      <3>2. n \in Requests(p)
        BY <3>1
      <3> QED
        BY <3>1, <3>2 DEF Requests
    <2>5. CASE IsSaving(p)
      BY <2>5 DEF IsSaving, Saves
    <2>6. CASE IsReporting(p)
      <3>1. \E x \in updates : x[1] = p
        BY <2>6 DEF IsReporting, Reports
      <3> QED
        BY <3>1
    <2> QED
      BY <2>2, <2>3, <2>4, <2>5, <2>6
  <1> QED
    BY <1>1, <1>2, RotationInit, Recovery, PTL DEF Spec
=============================================================================
