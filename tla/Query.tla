-------------------------------- MODULE Query --------------------------------
(***************************************************************************)
(* What a query for the events of a range of heights promises: parts of the  *)
(* range are answered in any order, no height is answered for twice, and the *)
(* query returns when every height is.  DepositCache takes this view of      *)
(* fetchEventsFallOver; FetchEvents implements it.                           *)
(***************************************************************************)
EXTENDS Integers

CONSTANTS Start, End   \* the first and the last height of the range

VARIABLES
    answers,   \* answers[h]: the answers that hold the events of height h
    returned   \* the query has returned

Init ==
    /\ answers = [h \in Start .. End |-> {}]
    /\ returned = FALSE

\* An answer for the heights between two, none of them answered for before.
Answer(from, to) ==
    /\ \A h \in from .. to : answers[h] = {}
    /\ answers' = [h \in Start .. End |->
                      IF h \in from .. to THEN {<<from, to>>} ELSE answers[h]]
    /\ UNCHANGED returned

Return ==
    /\ \A h \in Start .. End : answers[h] # {}
    /\ returned' = TRUE
    /\ UNCHANGED answers

Next ==
    \/ \E from, to \in Start .. End : Answer(from, to)
    \/ Return

Spec == Init /\ [][Next]_<<answers, returned>>
=============================================================================
