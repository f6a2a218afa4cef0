--------------------------- MODULE MCDepositCache ---------------------------
(* A trunk g0 - g1 - g2 - g3 - g4 - g5 and a fork f3 - f4 on top of g2.      *)
EXTENDS DepositCache, TLC

CONSTANTS g0, g1, g2, g3, g4, g5, f3, f4

Heights ==
    g0 :> 0 @@ g1 :> 1 @@ g2 :> 2 @@ g3 :> 3 @@ g4 :> 4 @@ g5 :> 5 @@ f3 :> 3 @@ f4 :> 4

MCNumber == [x \in Blocks |-> Heights[x]]

MCAncestors ==
    LET trunk == {g0, g1, g2, g3, g4, g5}
        fork == {g0, g1, g2, f3, f4}
    IN  [b \in Blocks |->
            {x \in IF b \in trunk THEN trunk ELSE fork : Heights[x] <= Heights[b]}]
=============================================================================
