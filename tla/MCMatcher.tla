---------------------------- MODULE MCMatcher ----------------------------
(***************************************************************************)
(* Matcher with two pairs and a snapshot every two commands.  The buy is   *)
(* partly filled by a sell, or partly fills it: amounts are rounded, and   *)
(* what is left is sometimes too small for one price.  s2 can expire while *)
(* it rests.                                                               *)
(***************************************************************************)
EXTENDS Matcher

Order(id, pair, side, price, amount, expiration) ==
  [id |-> id, pair |-> pair, side |-> side, price |-> price, amount |-> amount,
   expiration |-> expiration]

MCPairs == {"p", "q"}
MCKeyRank == [p \in MCPairs |-> IF p = "p" THEN 1 ELSE 2]
MCSnapshotOffset == [p \in MCPairs |-> IF p = "p" THEN 1 ELSE 0]
MCOrders ==
  {Order("s1", "p", "sell", 2, 5, 9), Order("s2", "p", "sell", 2, 4, 2),
   Order("b1", "p", "buy", 3, 4, 9), Order("c1", "q", "buy", 3, 2, 9)}
=============================================================================
