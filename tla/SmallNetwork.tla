---------------------------- MODULE SmallNetwork ----------------------------
(***************************************************************************)
(* What a small network can sign, for the model checker.  The id of a      *)
(* block is the path that leads to it from the genesis block: "a" and "b"  *)
(* are key blocks by that generator, a transaction is a microblock that    *)
(* carries it.  So an id determines the content of the block it names, as  *)
(* a signature does, and every fork, microblock fork and version of a      *)
(* block up to the bound is there.                                         *)
(***************************************************************************)
EXTENDS Integers, Sequences, FiniteSets

CONSTANTS
  MaxPath,     \* bound: labels on a path, genesis included
  NetworkTxs,  \* transactions, as labels
  BadPaths     \* paths whose microblock is signed but whose block is not

NetworkGenerators == {"a", "b"}
Paths == UNION {[1 .. n -> NetworkGenerators \cup NetworkTxs] : n \in 0 .. MaxPath - 1}
NetworkIds == {<<"g">> \o p : p \in Paths} \cup {<<>>}

\* Where the key block of a path stands on it.
KeyAt(p) == CHOOSE i \in 1 .. Len(p) :
              /\ p[i] \notin NetworkTxs
              /\ \A j \in i + 1 .. Len(p) : p[j] \in NetworkTxs

ScoreOf(label) == IF label = "b" THEN 2 ELSE 1
Signer(label) == IF label = "g" THEN "a" ELSE label

\* The genesis block has no microblocks: its key is in the configuration.
Mined == {p \in NetworkIds : p # <<>> /\ (KeyAt(p) = 1 => Len(p) = 1)}

BlockAt(p) ==
  LET k == KeyAt(p) IN
  [id |-> p, ref |-> SubSeq(p, 1, k - 1), gen |-> Signer(p[k]), ts |-> k,
   score |-> ScoreOf(p[k]), txs |-> {p[j] : j \in k + 1 .. Len(p)}]

\* A forged block repeats no transaction.
Signed == {p \in Mined \ BadPaths :
             Cardinality(BlockAt(p).txs) = Len(p) - KeyAt(p)}
NetworkBlocks == {BlockAt(p) : p \in Signed}
NetworkGenesis == BlockAt(<<"g">>)

NetworkMicroBlocks ==
  {[id |-> p, prev |-> SubSeq(p, 1, Len(p) - 1), gen |-> BlockAt(p).gen, txs |-> {p[Len(p)]}] :
     p \in {q \in Signed \cup BadPaths : q[Len(q)] \in NetworkTxs}}

\* The n freshest blocks of the chain that ends in the block at p.
RECURSIVE BlocksTo(_, _)
BlocksTo(p, n) ==
  IF n = 0 \/ p = <<>> THEN <<>>
  ELSE Append(BlocksTo(BlockAt(p).ref, n - 1), BlockAt(p))

CountTxs(T) == Cardinality(T)
=============================================================================
