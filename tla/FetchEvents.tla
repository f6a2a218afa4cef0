----------------------------- MODULE FetchEvents -----------------------------
(***************************************************************************)
(* ProviderService.fetchEventsFallOver: a query for the events of a range of *)
(* heights that splits the range in two when the node cannot cope with it,   *)
(* and repeats it after a pause when anything else fails.                   *)
(*                                                                         *)
(* The calls in flight are the leaves of a tree of calls.  They are kept in  *)
(* the order in which their events are concatenated: a split puts two parts  *)
(* in the place of one.                                                     *)
(***************************************************************************)
EXTENDS Integers, Sequences

CONSTANTS
    Start, End,  \* the range of the query
    Capacity,    \* the node never answers for more heights at once
    Faults       \* what else may fail: a subset of FaultKinds

\* partition: TIMEOUT, SERVER_ERROR, missing response, limit exceeded
\* other:     any other error
FaultKinds == {"partition", "other"}

\* The code never splits two heights, so a node that cannot answer for two
\* would be asked again for ever.
ASSUME QueryAssumption ==
    /\ Start \in Nat /\ End \in Nat /\ Start <= End
    /\ Capacity \in Nat /\ Capacity >= 2
    /\ Faults \subseteq FaultKinds

VARIABLES
    parts,     \* the calls without calls of their own, in order
    returned   \* the outermost call has returned

vars == <<parts, returned>>

\* asks: the fetcher is called; sleeps: before the next attempt; answered
States == {"asks", "sleeps", "answered"}

Part(from, to) == [from |-> from, to |-> to, state |-> "asks"]

TypeOK ==
    /\ parts \in Seq([from : Nat, to : Nat, state : States])
    /\ returned \in BOOLEAN

Init ==
    /\ parts = <<Part(Start, End)>>
    /\ returned = FALSE

-----------------------------------------------------------------------------
Size(p) == p.to - p.from + 1

\* Mutant: three heights are not split.
IsWide(p) == p.to - p.from > 2

IsPartitionable(p) == p.to - p.from > 1

\* Math.ceil((endBlock + startBlock) / 2)
Center(p) == (p.to + p.from + 1) \div 2

\* The sequence s with its i-th element replaced by two.
Halved(s, i, first, second) ==
    [k \in 1 .. Len(s) + 1 |->
        IF k < i THEN s[k] ELSE IF k = i THEN first
        ELSE IF k = i + 1 THEN second ELSE s[k - 1]]

\* Mutants: the halves share a height, or leave one out.
SplitSharing(i) ==
    parts' = Halved(parts, i, Part(parts[i].from, Center(parts[i])),
                              Part(Center(parts[i]), parts[i].to))
SplitApart(i) ==
    parts' = Halved(parts, i, Part(parts[i].from, Center(parts[i]) - 1),
                              Part(Center(parts[i]) + 1, parts[i].to))

Split(i) ==
    parts' = Halved(parts, i, Part(parts[i].from, Center(parts[i]) - 1),
                              Part(Center(parts[i]), parts[i].to))

Become(i, state) == parts' = [parts EXCEPT ![i].state = state]

\* The node answers for a part.
FetchEvents(i) ==
    /\ parts[i].state = "asks"
    /\ Size(parts[i]) <= Capacity
    /\ Become(i, "answered")
    /\ UNCHANGED returned

\* The fetcher throws: the part is split if the error asks for it, or else
\* it will be asked for again.
FetchThrows(i, isPartitionRequired) ==
    /\ parts[i].state = "asks"
    /\ IF IsPartitionable(parts[i]) /\ isPartitionRequired
         THEN Split(i)
         ELSE Become(i, "sleeps")
    /\ UNCHANGED returned

\* The node cannot answer for that many heights.
LimitExceeded(i) == Size(parts[i]) > Capacity /\ FetchThrows(i, TRUE)

\* A request fails for another reason.
RequestFails(i) ==
    \/ "partition" \in Faults /\ FetchThrows(i, TRUE)
    \/ "other" \in Faults /\ FetchThrows(i, FALSE)

\* The pause is over and the part is asked for again.
Retry(i) ==
    /\ parts[i].state = "sleeps"
    /\ Become(i, "asks")
    /\ UNCHANGED returned

\* Every call has returned, and the events are concatenated.
Return ==
    /\ ~ returned
    /\ \A i \in DOMAIN parts : parts[i].state = "answered"
    /\ returned' = TRUE
    /\ UNCHANGED parts

Next ==
    \/ \E i \in DOMAIN parts :
          FetchEvents(i) \/ LimitExceeded(i) \/ RequestFails(i) \/ Retry(i)
    \/ Return

Spec == Init /\ [][Next]_vars

-----------------------------------------------------------------------------
(* What must hold.                                                          *)

\* However often parts are split and repeated, the parts cover the range
\* without gap or overlap, lowest first, and no range asked for is inverted.
Partition ==
    /\ \A i \in DOMAIN parts :
          Start <= parts[i].from /\ parts[i].from <= parts[i].to /\ parts[i].to <= End
    /\ \A i, j \in DOMAIN parts : i < j => parts[i].to < parts[j].from
    /\ \A h \in Start .. End :
          \E i \in DOMAIN parts : parts[i].from <= h /\ h <= parts[i].to

\* The answers among the calls that hold the events of height h.
AnswersFor(calls, h) ==
    LET Holds(p) == p.state = "answered" /\ p.from <= h /\ h <= p.to
    IN  {<<calls[i].from, calls[i].to>> : i \in {k \in DOMAIN calls : Holds(calls[k])}}

Abstract == INSTANCE Query WITH answers <- [h \in Start .. End |-> AnswersFor(parts, h)]

\* The query returns the events of every height of the range once.
ImplementsQuery == Abstract!Spec

\* A request fails that the node could answer.
Fault == \E i \in DOMAIN parts : RequestFails(i) /\ ~ LimitExceeded(i)
=============================================================================
