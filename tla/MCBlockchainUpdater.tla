------------------------ MODULE MCBlockchainUpdater ------------------------
(***************************************************************************)
(* BlockchainUpdater on a small network in which one generator got one     *)
(* totalResBlockSig wrong, and t2 spends a result of t1.                   *)
(***************************************************************************)
EXTENDS BlockchainUpdater, SmallNetwork

MCBadPaths == {<<"g", "b", "t3">>}
MCNeeds == [t \in NetworkTxs |-> IF t = "t2" THEN {"t1"} ELSE {}]
=============================================================================
