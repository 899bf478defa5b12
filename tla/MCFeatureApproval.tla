-------------------------- MODULE MCFeatureApproval --------------------------
(* Small instances of FeatureApproval: feature g is activated from the start. *)
EXTENDS FeatureApproval

CONSTANTS f, e, g

MCVotes == {{}, {f}, {f, e, g}}
=============================================================================
