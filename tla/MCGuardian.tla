----------------------------- MODULE MCGuardian -----------------------------
(* A small chain for Guardian: block a, and two blocks b and f on top of it.*)
(* Heights 2 and 3, so that with ResignBlocks = 2 all are in one interval.  *)
EXTENDS Guardian, TLC

CONSTANTS a, b, f, m1, m2, s1, s2

MCNumber == [x \in Blocks |-> IF x = a THEN 2 ELSE 3]
MCAncestors == [x \in Blocks |-> {a, x}]

\* The node's head is the block itself or a later one of the same chain.
FollowingViews == [x \in Blocks |-> {h \in Blocks : x \in Ancestors[h]}]

Deposit(k, wc, valid) == [pubkey |-> k, wc |-> wc, valid |-> valid]

\* Lido has deposited k2 in a, where somebody else failed to with a broken
\* signature; in b somebody deposits k1 to credentials of his own.
MCDeposits ==
    a :> {Deposit("k2", "other", FALSE), Deposit("k2", "lido", TRUE)}
    @@ b :> {Deposit("k1", "other", TRUE)} @@ f :> {}

MCLidoWC == [x \in Blocks |-> "lido"]

\* The Keys API still calls k2 unused; at b both modules' nonces have moved,
\* m1 has got k1, and m2 has got k3.
MCUnusedKeys ==
    a :> (m1 :> {"k2"} @@ m2 :> {}) @@ b :> (m1 :> {"k1", "k2"} @@ m2 :> {"k3"})
    @@ f :> (m1 :> {"k2"} @@ m2 :> {})
MCNonce ==
    a :> (m1 :> 0 @@ m2 :> 0) @@ b :> (m1 :> 1 @@ m2 :> 1) @@ f :> (m1 :> 0 @@ m2 :> 0)

\* m2 is paused from the start: its tasks only come and go, and fail.
MCPaused == [x \in Blocks |-> [m \in Modules |-> m = m2]]

SlotSymmetry == Permutations(Slots)
=============================================================================
