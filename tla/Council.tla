------------------------------ MODULE Council ------------------------------
(***************************************************************************)
(* What one guardian promises the council, with no cycles, tasks, caches or  *)
(* requests: it decides on messages that are right, tells the council what   *)
(* it has decided and nothing else, and counts a block as processed when     *)
(* every module needs no message or has got one that answers for the block.  *)
(* What was decided is forgotten only when the process restarts, which also  *)
(* makes the processed block unknown.  Guardian implements it.               *)
(***************************************************************************)
EXTENDS Integers

CONSTANTS
    Blocks, Modules,
    Number,     \* Number[b]: height of block b
    Right,      \* the messages that are right
    Needless,   \* Needless[b][m]: at b there is nothing to say of module m
    Answers,    \* Answers[b][m]: messages each of which is enough at b for m
    None

VARIABLES
    told,       \* the messages the council has got
    owed,       \* the messages that are decided on and still on their way
    processed   \* the block processed last

vars == <<told, owed, processed>>

Init == told = {} /\ owed = {} /\ processed = None

Decide ==
    /\ UNCHANGED <<told, processed>>
    /\ owed \subseteq owed'
    /\ owed' \subseteq owed \cup Right

\* The same message may have been decided on twice; then it is still owed.
Tell ==
    /\ UNCHANGED processed
    /\ \E msg \in owed :
          /\ told' = told \cup {msg}
          /\ owed' \in {owed, owed \ {msg}}

Answered(b, m) == Needless[b][m] \/ Answers[b][m] \cap (told \cup owed) # {}

Process ==
    /\ processed' \in Blocks
    /\ processed # None => Number[processed] <= Number[processed']
    /\ \A m \in Modules : Answered(processed', m)
    /\ UNCHANGED <<told, owed>>

Restart ==
    /\ owed' = {}
    /\ processed' = None
    /\ UNCHANGED told

Next == Decide \/ Tell \/ Process \/ Restart

Spec == Init /\ [][Next]_vars
=============================================================================
