------------------------------- MODULE Chain -------------------------------
(***************************************************************************)
(* The block tree the daemon looks at, as a constant: every block of every  *)
(* fork with its height and its chain.  The tree is not code of the daemon; *)
(* it is what the execution node and the Keys API answer from.              *)
(***************************************************************************)
EXTENDS Integers

CONSTANTS
    Blocks,     \* the blocks of the tree, every fork included
    Number,     \* Number[b]: height of block b
    Ancestors   \* Ancestors[b]: the chain that ends in b, b included

\* The chain that ends in a block is determined by the block, and holds one
\* block per height.
ASSUME ChainAssumption ==
    /\ Number \in [Blocks -> Nat]
    /\ Ancestors \in [Blocks -> SUBSET Blocks]
    /\ \A b \in Blocks : b \in Ancestors[b]
    /\ \A h \in Blocks : \A b \in Ancestors[h] :
          Ancestors[b] = {x \in Ancestors[h] : Number[x] <= Number[b]}
    /\ \A h \in Blocks : \A x, y \in Ancestors[h] :
          Number[x] = Number[y] => x = y

\* What a query by number finds on a node whose head is h: the blocks of its
\* own chain from one height to another.
ChainPart(h, from, to) == {x \in Ancestors[h] : from <= Number[x] /\ Number[x] <= to}

UpTo(h, n) == {x \in Ancestors[h] : Number[x] <= n}
=============================================================================
