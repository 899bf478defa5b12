------------------------------ MODULE MCUtxPool ------------------------------
(***************************************************************************)
(* A payment of alice to bob and an invocation of a dApp that may expire:  *)
(* it takes from alice as long as the payment is not in the chain, and     *)
(* from bob after it, who has the money for it only while a block with the *)
(* payment is being hardened and counts twice.  In a block the payment     *)
(* comes first, and leaves the invocation invalid.  Blocks are mined and   *)
(* appended in turn, by one thread.                                        *)
(***************************************************************************)
EXTENDS UtxPool, TLC

MCEffect ==
  [t \in Txs |-> [S \in SUBSET Txs |->
     IF t = "pay" THEN "alice" :> -1 @@ "bob" :> 1
     ELSE IF "pay" \in S THEN "alice" :> 0 @@ "bob" :> -2
     ELSE "alice" :> -1 @@ "bob" :> 0]]
MCInitial == "alice" :> 1 @@ "bob" :> 0
MCRanked == <<"pay", "call">>
=============================================================================
