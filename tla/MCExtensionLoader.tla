-------------------------- MODULE MCExtensionLoader --------------------------
(* Small instances of ExtensionLoader: a trunk of three blocks, a fork from   *)
(* its root and one, which is bad, from its first block.                      *)
EXTENDS ExtensionLoader, TLC

CONSTANTS p, q, g, a1, a2, a3, b1, b2

MCSmallParent == a1 :> g @@ b1 :> g

MCParent == a1 :> g @@ a2 :> a1 @@ a3 :> a2 @@ b1 :> g @@ b2 :> a1
=============================================================================
