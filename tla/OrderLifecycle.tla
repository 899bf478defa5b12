---------------------------- MODULE OrderLifecycle ----------------------------
(***************************************************************************)
(* What the matcher promises about the status of an order                  *)
(* (matcher/model/MatcherModel.scala, OrderStatus): in one life of the     *)
(* process an order is accepted before anything else, what is filled of it *)
(* only grows, and a cancellation keeps what was filled.  A restart may    *)
(* forget an order that is not final, until it is read again; a final      *)
(* status is never forgotten and never changes.                            *)
(***************************************************************************)
EXTENDS Integers

CONSTANT Orders

VARIABLE status   \* what it is, and the amount filled

NotFound == [is |-> "not found", amount |-> 0]

Final == {"cancelled", "filled"}

Init == status = [o \in Orders |-> NotFound]

\* A status that follows another one in the life of a process.
Follows(old, new) ==
  CASE old.is \in Final -> FALSE
    [] new.is = "not found" -> FALSE
    [] new.is = "accepted"  -> old.is = "not found" /\ new.amount = 0
    [] new.is = "partially filled" -> new.amount > old.amount
    [] new.is = "filled"    -> new.amount >= old.amount /\ new.amount > 0
    [] new.is = "cancelled" -> old.is # "not found" /\ new.amount = old.amount

\* An execution changes two orders at once.
Progress ==
  \A o \in Orders : status'[o] = status[o] \/ Follows(status[o], status'[o])

Restart ==
  \A o \in Orders :
    status'[o] = IF status[o].is \in Final THEN status[o] ELSE NotFound

Next == DOMAIN status' = Orders /\ (Progress \/ Restart)

Spec == Init /\ [][Next]_status
=============================================================================
