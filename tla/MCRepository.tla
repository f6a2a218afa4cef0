---------------------------- MODULE MCRepository ----------------------------
(* Instances of Repository for TLC: between blocks a and b the DSM and the   *)
(* staking router are replaced.                                             *)
EXTENDS Repository, TLC

CONSTANTS a, b, l, d1, d2, r1, r2

MCAddress ==
    (a :> [lido |-> l, dsm |-> d1, router |-> r1]) @@
    (b :> [lido |-> l, dsm |-> d2, router |-> r2])
=============================================================================
