-------------------------- MODULE MCAddressActors --------------------------
(***************************************************************************)
(* A sells in two orders, one of which expires, and buys in a third; B     *)
(* buys.  A buy is partly filled by a sell, or partly fills it; what is    *)
(* left of a sell may rest, and of B's buy it is cancelled.  The queue may *)
(* fail to store what concerns A's first order.                            *)
(***************************************************************************)
EXTENDS AddressActors

Order(id, owner, side, price, amount, expiration, timestamp) ==
  [id |-> id, owner |-> owner, side |-> side, price |-> price, amount |-> amount,
   expiration |-> expiration, timestamp |-> timestamp]

MCOrders == {Order("s1", "A", "sell", 2, 5, 9, 1), Order("s2", "A", "sell", 2, 4, 2, 2),
             Order("b1", "B", "buy", 3, 4, 9, 3), Order("b2", "A", "buy", 2, 2, 9, 4)}
MCUnreliable == {o \in MCOrders : o.id = "s1"}
=============================================================================
