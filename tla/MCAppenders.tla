---------------------------- MODULE MCAppenders ----------------------------
(***************************************************************************)
(* Appenders on a small network whose forged blocks are all signed.  An    *)
(* extension is any stretch of a chain of it, or two blocks on one parent. *)
(* A transaction that is in no block takes room in the pool until it       *)
(* expires.                                                                *)
(***************************************************************************)
EXTENDS Appenders, SmallNetwork

CONSTANTS
  MaxExtension,  \* bound: blocks a peer sends
  OtherTxs,      \* transactions that are in no block
  MaxHeld        \* bound: maxSize of the pool

MCIds == {b.id : b \in NetworkBlocks} \cup {b.ref : b \in NetworkBlocks}
PoolTxs == NetworkTxs \cup OtherTxs
MCNeeds == [t \in PoolTxs |-> IF t = "t2" THEN {"t1"} ELSE {}]
MCHoldable == {T \in SUBSET PoolTxs : Cardinality(T) <= MaxHeld}

MCExtensions ==
  ({BlocksTo(p, n) : p \in Signed, n \in 1 .. MaxExtension} \cap Seq(NetworkBlocks))
    \cup {<<BlockAt(Append(p, "a")), BlockAt(Append(p, "b"))>> :
             p \in {q \in Signed : Len(q) <= MaxPath - 2}}

MCSignedAt == [p \in MCIds |-> Len(p)]

\* For a limit that some transactions fit and others do not.
UnevenSize(T) == Cardinality(T) + Cardinality(T \cap {"t1"})
=============================================================================
