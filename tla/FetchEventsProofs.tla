-------------------------- MODULE FetchEventsProofs --------------------------
(* For every range, capacity and selection of faults, FetchEvents keeps its  *)
(* parts a partition of the range and implements Query.                     *)
EXTENDS FetchEvents, TLAPS

-----------------------------------------------------------------------------
(* Operators.                                                               *)

Parts == [from : Nat, to : Nat, state : States]

\* The elements of Halved, one by one.
LEMMA HalvedProperties ==
    ASSUME NEW s \in Seq(Parts), NEW i \in 1 .. Len(s),
           NEW x \in Parts, NEW y \in Parts
    PROVE  /\ Halved(s, i, x, y) \in Seq(Parts)
           /\ DOMAIN Halved(s, i, x, y) = 1 .. Len(s) + 1
<1> DEFINE h == Halved(s, i, x, y)
<1>1. Len(s) \in Nat /\ i \in 1 .. Len(s) /\ \A k \in 1 .. Len(s) : s[k] \in Parts
  OBVIOUS
<1>2. DOMAIN h = 1 .. Len(s) + 1
  BY DEF Halved
<1>3. \A k \in 1 .. Len(s) + 1 :
         h[k] = IF k < i THEN s[k] ELSE IF k = i THEN x
                ELSE IF k = i + 1 THEN y ELSE s[k - 1]
  BY DEF Halved
<1>4. \A k \in 1 .. Len(s) + 1 : h[k] \in Parts
  BY <1>1, <1>3
<1>5. h \in [1 .. Len(s) + 1 -> Parts]
  <2>1. h = [k \in 1 .. Len(s) + 1 |-> h[k]]
    BY <1>2 DEF Halved
  <2> HIDE DEF h
  <2> QED
    BY <1>4, <2>1
<1>6. h \in Seq(Parts)
  <2> HIDE DEF h
  <2> QED
    BY <1>1, <1>5
<1> QED
  BY <1>2, <1>3, <1>6

(* A part that is split has its center inside.                              *)
LEMMA CenterInside ==
    ASSUME NEW p \in Parts, IsPartitionable(p)
    PROVE  /\ Center(p) \in Nat
           /\ p.from <= Center(p) - 1 /\ Center(p) <= p.to
           /\ Part(p.from, Center(p) - 1) \in Parts
           /\ Part(Center(p), p.to) \in Parts
<1>1. p.from \in Nat /\ p.to \in Nat /\ p.to - p.from > 1
  BY DEF Parts, IsPartitionable
<1>2. Center(p) \in Nat /\ p.from <= Center(p) - 1 /\ Center(p) <= p.to
  BY <1>1 DEF Center
<1> QED
  BY <1>1, <1>2 DEF Part, Parts, States

-----------------------------------------------------------------------------
(* Types.                                                                   *)

\* parts is a finite sequence of parts.
LEMMA PartsType ==
    ASSUME TypeOK
    PROVE  /\ parts \in Seq(Parts) /\ Len(parts) \in Nat
           /\ DOMAIN parts = 1 .. Len(parts)
           /\ \A k \in DOMAIN parts : parts[k] \in Parts
<1>1. parts \in Seq(Parts)
  BY DEF TypeOK, Parts
<1> QED
  BY <1>1

\* The fields of a part, and its other states.
LEMMA PartFields ==
    ASSUME NEW p \in Parts
    PROVE  /\ p.from \in Nat /\ p.to \in Nat /\ p.state \in States
           /\ \A state \in States : [p EXCEPT !.state = state] \in Parts
  BY DEF Parts

\* A part that changes its state leaves the rest alone.
LEMMA BecomeType ==
    ASSUME TypeOK, NEW i \in DOMAIN parts, NEW state \in States, Become(i, state)
    PROVE  /\ parts' \in Seq(Parts) /\ DOMAIN parts' = DOMAIN parts
           /\ \A k \in DOMAIN parts :
                 /\ parts'[k].from = parts[k].from /\ parts'[k].to = parts[k].to
                 /\ parts'[k].state = IF k = i THEN state ELSE parts[k].state
<1> DEFINE new == [parts[i] EXCEPT !.state = state]
<1>1. /\ parts \in Seq(Parts) /\ i \in 1 .. Len(parts) /\ Len(parts) \in Nat
      /\ DOMAIN parts = 1 .. Len(parts) /\ parts[i] \in Parts
  BY PartsType
<1>2. parts' = [parts EXCEPT ![i] = new]
  BY DEF Become
<1>3. new \in Parts
  BY <1>1, PartFields
<1>4. new.from = parts[i].from /\ new.to = parts[i].to /\ new.state = state
  BY <1>1 DEF Parts
<1> HIDE DEF new
<1>5. parts' \in Seq(Parts) /\ DOMAIN parts' = DOMAIN parts
  BY <1>1, <1>2, <1>3
<1>6. \A k \in DOMAIN parts : parts'[k] = IF k = i THEN new ELSE parts[k]
  BY <1>1, <1>2
<1> QED
  BY <1>4, <1>5, <1>6

\* A part that is split becomes two, and there is one part more.
LEMMA SplitType ==
    ASSUME TypeOK, NEW i \in DOMAIN parts, IsPartitionable(parts[i]), Split(i)
    PROVE  /\ parts' \in Seq(Parts)
           /\ DOMAIN parts' = 1 .. Len(parts) + 1
           /\ \A k \in 1 .. Len(parts) + 1 :
                 parts'[k] = IF k < i THEN parts[k]
                             ELSE IF k = i THEN Part(parts[i].from, Center(parts[i]) - 1)
                             ELSE IF k = i + 1 THEN Part(Center(parts[i]), parts[i].to)
                             ELSE parts[k - 1]
<1> DEFINE low == Part(parts[i].from, Center(parts[i]) - 1)
           high == Part(Center(parts[i]), parts[i].to)
<1>1. parts \in Seq(Parts) /\ i \in 1 .. Len(parts) /\ parts[i] \in Parts
  BY PartsType
<1>2. low \in Parts /\ high \in Parts
  BY <1>1, CenterInside
<1>3. parts' = Halved(parts, i, low, high)
  BY DEF Split
<1> HIDE DEF low, high
<1>4. Halved(parts, i, low, high) \in Seq(Parts)
  BY <1>1, <1>2, HalvedProperties
<1>5. DOMAIN Halved(parts, i, low, high) = 1 .. Len(parts) + 1
  BY <1>1, <1>2, HalvedProperties
<1>6. \A k \in 1 .. Len(parts) + 1 :
         Halved(parts, i, low, high)[k] =
            IF k < i THEN parts[k] ELSE IF k = i THEN low
            ELSE IF k = i + 1 THEN high ELSE parts[k - 1]
  BY DEF Halved
<1> QED
  BY <1>3, <1>4, <1>5, <1>6 DEF low, high

(* The four things a step does: a part is answered, a part changes its mind, *)
(* a part is split, or the query returns.                                   *)
LEMMA Cases ==
    ASSUME Next
    PROVE  \/ \E i \in DOMAIN parts : FetchEvents(i)
           \/ /\ returned' = returned
              /\ \E i \in DOMAIN parts : \E state \in {"asks", "sleeps"} :
                    parts[i].state # "answered" /\ Become(i, state)
           \/ /\ returned' = returned
              /\ \E i \in DOMAIN parts :
                    parts[i].state = "asks" /\ IsPartitionable(parts[i]) /\ Split(i)
           \/ Return
  BY DEF Next, LimitExceeded, RequestFails, FetchThrows, Retry

\* Every step leaves every variable its type.
LEMMA TypeStep == TypeOK /\ [Next]_vars => TypeOK'
<1> SUFFICES ASSUME TypeOK, [Next]_vars PROVE TypeOK'
  OBVIOUS
<1>1. ASSUME NEW i \in DOMAIN parts, FetchEvents(i) PROVE TypeOK'
  <2>1. parts' \in Seq(Parts)
    BY <1>1, BecomeType DEF FetchEvents, States
  <2> QED
    BY <1>1, <2>1 DEF TypeOK, FetchEvents, Parts
<1>2. ASSUME NEW i \in DOMAIN parts, NEW state \in {"asks", "sleeps"}, Become(i, state),
             returned' = returned
      PROVE  TypeOK'
  <2>1. parts' \in Seq(Parts)
    BY <1>2, BecomeType DEF States
  <2> QED
    BY <1>2, <2>1 DEF TypeOK, Parts
<1>3. ASSUME NEW i \in DOMAIN parts, IsPartitionable(parts[i]), Split(i),
             returned' = returned
      PROVE  TypeOK'
  <2>1. parts' \in Seq(Parts)
    BY <1>3, SplitType
  <2> QED
    BY <1>3, <2>1 DEF TypeOK, Parts
<1>4. CASE Return
  BY <1>4 DEF TypeOK, Return
<1>5. CASE UNCHANGED vars
  BY <1>5 DEF TypeOK, vars
<1> QED
  BY <1>1, <1>2, <1>3, <1>4, <1>5, Cases

\* Initially every variable has its type.
LEMMA TypeInit == Init => TypeOK
<1> SUFFICES ASSUME Init PROVE TypeOK
  OBVIOUS
<1>1. Part(Start, End) \in Parts
  BY QueryAssumption DEF Part, Parts, States
<1>2. parts \in Seq(Parts)
  BY <1>1 DEF Init
<1> QED
  BY <1>2 DEF Init, TypeOK, Parts

-----------------------------------------------------------------------------
(* The parts are a partition of the range.                                  *)

\* A single part is a partition.
LEMMA PartitionInit == Init => Partition
  BY QueryAssumption DEF Init, Partition, Part

(* A part may change its state.                                             *)
LEMMA BecomePartition ==
    ASSUME TypeOK, Partition, NEW i \in DOMAIN parts, NEW state \in States,
           Become(i, state)
    PROVE  Partition'
<1>1. /\ DOMAIN parts' = DOMAIN parts
      /\ \A k \in DOMAIN parts :
            parts'[k].from = parts[k].from /\ parts'[k].to = parts[k].to
  BY BecomeType
<1> QED
  BY <1>1 DEF Partition

(* Where a part of the split sequence comes from.                           *)
Old(i, k) == IF k <= i THEN k ELSE k - 1

\* The ranges after a split.
LEMMA SplitRanges ==
    ASSUME TypeOK, NEW i \in DOMAIN parts, IsPartitionable(parts[i]), Split(i)
    PROVE  LET c == Center(parts[i])
               n == Len(parts)
           IN  /\ c \in Nat /\ parts[i].from <= c - 1 /\ c <= parts[i].to
               /\ DOMAIN parts' = 1 .. n + 1
               /\ \A k \in 1 .. n + 1 : k < i =>
                     parts'[k].from = parts[k].from /\ parts'[k].to = parts[k].to
               /\ parts'[i].from = parts[i].from /\ parts'[i].to = c - 1
               /\ parts'[i + 1].from = c /\ parts'[i + 1].to = parts[i].to
               /\ \A k \in 1 .. n + 1 : k > i + 1 =>
                     parts'[k].from = parts[k - 1].from /\ parts'[k].to = parts[k - 1].to
<1> DEFINE c == Center(parts[i])
           n == Len(parts)
<1>1. n \in Nat /\ DOMAIN parts = 1 .. n /\ i \in 1 .. n
  BY PartsType
<1>2. c \in Nat /\ parts[i].from <= c - 1 /\ c <= parts[i].to
  BY PartsType, CenterInside
<1>3. /\ DOMAIN parts' = 1 .. n + 1
      /\ \A k \in 1 .. n + 1 :
            parts'[k] = IF k < i THEN parts[k]
                        ELSE IF k = i THEN Part(parts[i].from, c - 1)
                        ELSE IF k = i + 1 THEN Part(c, parts[i].to)
                        ELSE parts[k - 1]
  BY SplitType
<1> HIDE DEF c, n
<1>4. \A k \in 1 .. n + 1 : k < i =>
          parts'[k].from = parts[k].from /\ parts'[k].to = parts[k].to
  BY <1>1, <1>3
<1>5. /\ parts'[i].from = parts[i].from /\ parts'[i].to = c - 1
      /\ parts'[i + 1].from = c /\ parts'[i + 1].to = parts[i].to
  BY <1>1, <1>3 DEF Part
<1>6. \A k \in 1 .. n + 1 : k > i + 1 =>
          parts'[k].from = parts[k - 1].from /\ parts'[k].to = parts[k - 1].to
  BY <1>1, <1>3
<1> QED
  BY <1>2, <1>3, <1>4, <1>5, <1>6 DEF c, n

(* A part may be split.                                                     *)
LEMMA SplitPartition ==
    ASSUME TypeOK, Partition, NEW i \in DOMAIN parts, IsPartitionable(parts[i]),
           Split(i)
    PROVE  Partition'
<1> DEFINE c == Center(parts[i])
           n == Len(parts)
<1>1. /\ n \in Nat /\ DOMAIN parts = 1 .. n /\ i \in 1 .. n
      /\ \A k \in 1 .. n : parts[k].from \in Nat /\ parts[k].to \in Nat
      /\ Start \in Nat /\ End \in Nat
  BY PartsType, PartFields, QueryAssumption
<1>2. c \in Nat /\ parts[i].from <= c - 1 /\ c <= parts[i].to
  BY SplitRanges
<1>3. DOMAIN parts' = 1 .. n + 1
  BY SplitRanges
<1>4. /\ \A k \in 1 .. n + 1 : k < i =>
            parts'[k].from = parts[k].from /\ parts'[k].to = parts[k].to
      /\ parts'[i].from = parts[i].from /\ parts'[i].to = c - 1
      /\ parts'[i + 1].from = c /\ parts'[i + 1].to = parts[i].to
      /\ \A k \in 1 .. n + 1 : k > i + 1 =>
            parts'[k].from = parts[k - 1].from /\ parts'[k].to = parts[k - 1].to
  BY SplitRanges
<1> HIDE DEF c, n
<1>5. \A k \in 1 .. n : Start <= parts[k].from /\ parts[k].from <= parts[k].to
                          /\ parts[k].to <= End
  BY <1>1 DEF Partition
<1>6. \A k, l \in 1 .. n : k < l => parts[k].to < parts[l].from
  BY <1>1 DEF Partition
<1>7. \A k \in 1 .. n + 1 :
         Start <= parts'[k].from /\ parts'[k].from <= parts'[k].to /\ parts'[k].to <= End
  <2> TAKE k \in 1 .. n + 1
  <2>1. CASE k < i
    BY <1>1, <1>4, <1>5, <2>1
  <2>2. CASE k = i \/ k = i + 1
    BY <1>1, <1>2, <1>4, <1>5, <2>2
  <2>3. CASE k > i + 1
    <3>1. k - 1 \in 1 .. n
      BY <1>1, <2>3
    <3> QED
      BY <1>4, <1>5, <2>3, <3>1
  <2> QED
    BY <1>1, <2>1, <2>2, <2>3
<1>8. \A k \in 1 .. n + 1 :
         /\ Old(i, k) \in 1 .. n
         /\ parts[Old(i, k)].from <= parts'[k].from /\ parts'[k].to <= parts[Old(i, k)].to
  <2> TAKE k \in 1 .. n + 1
  <2>1. CASE k < i
    BY <1>1, <1>4, <1>5, <2>1 DEF Old
  <2>2. CASE k = i
    BY <1>1, <1>2, <1>4, <1>5, <2>2 DEF Old
  <2>4. CASE k = i + 1
    <3>1. Old(i, k) = i
      BY <1>1, <2>4 DEF Old
    <3> QED
      BY <1>1, <1>2, <1>4, <1>5, <2>4, <3>1
  <2>3. CASE k > i + 1
    BY <1>1, <1>4, <1>5, <2>3 DEF Old
  <2> QED
    BY <1>1, <2>1, <2>2, <2>3, <2>4
<1>t. \A k \in 1 .. n + 1 : parts'[k].from \in Int /\ parts'[k].to \in Int
  <2> TAKE k \in 1 .. n + 1
  <2>1. CASE k < i
    BY <1>1, <1>4, <2>1
  <2>2. CASE k = i \/ k = i + 1
    BY <1>1, <1>2, <1>4, <2>2
  <2>3. CASE k > i + 1
    BY <1>1, <1>4, <2>3
  <2> QED
    BY <1>1, <2>1, <2>2, <2>3
<1>9. \A k, l \in 1 .. n + 1 : k < l => parts'[k].to < parts'[l].from
  <2> SUFFICES ASSUME NEW k \in 1 .. n + 1, NEW l \in 1 .. n + 1, k < l
               PROVE  parts'[k].to < parts'[l].from
    OBVIOUS
  <2>1. CASE k = i /\ l = i + 1
    BY <1>1, <1>2, <1>4, <2>1
  <2>2. CASE ~ (k = i /\ l = i + 1)
    <3>1. Old(i, k) < Old(i, l)
      BY <1>1, <2>2 DEF Old
    <3>2. /\ Old(i, k) \in 1 .. n /\ Old(i, l) \in 1 .. n
          /\ parts'[k].to <= parts[Old(i, k)].to /\ parts[Old(i, l)].from <= parts'[l].from
      BY <1>8
    <3>3. parts[Old(i, k)].to < parts[Old(i, l)].from
      BY <1>6, <3>1, <3>2
    <3> QED
      BY <1>1, <1>t, <3>2, <3>3
  <2> QED
    BY <2>1, <2>2
<1>10. \A h \in Start .. End :
          \E k \in 1 .. n + 1 : parts'[k].from <= h /\ h <= parts'[k].to
  <2> TAKE h \in Start .. End
  <2>1. PICK k \in 1 .. n : parts[k].from <= h /\ h <= parts[k].to
    BY <1>1 DEF Partition
  <2>2. CASE k < i
    <3>1. k \in 1 .. n + 1 /\ parts'[k].from = parts[k].from /\ parts'[k].to = parts[k].to
      BY <1>1, <1>4, <2>1, <2>2
    <3> QED
      BY <2>1, <3>1
  <2>3. CASE k = i /\ h <= c - 1
    BY <1>1, <1>4, <2>1, <2>3
  <2>4. CASE k = i /\ c <= h
    <3>1. i + 1 \in 1 .. n + 1 /\ parts'[i + 1].from <= h /\ h <= parts'[i + 1].to
      BY <1>1, <1>4, <2>1, <2>4
    <3> QED
      BY <3>1
  <2>5. CASE k > i
    <3>1. k + 1 \in 1 .. n + 1 /\ k + 1 > i + 1 /\ (k + 1) - 1 = k
      BY <1>1, <2>1, <2>5
    <3>2. parts'[k + 1].from <= h /\ h <= parts'[k + 1].to
      BY <1>4, <2>1, <3>1
    <3> QED
      BY <3>1, <3>2
  <2> QED
    BY <1>1, <1>2, <2>1, <2>2, <2>3, <2>4, <2>5
<1> QED
  BY <1>3, <1>7, <1>9, <1>10 DEF Partition

\* Every step leaves a partition.
LEMMA PartitionStep == TypeOK /\ Partition /\ [Next]_vars => Partition'
<1> SUFFICES ASSUME TypeOK, Partition, [Next]_vars PROVE Partition'
  OBVIOUS
<1>1. ASSUME NEW i \in DOMAIN parts, FetchEvents(i) PROVE Partition'
  BY <1>1, BecomePartition DEF FetchEvents, States
<1>2. ASSUME NEW i \in DOMAIN parts, NEW state \in {"asks", "sleeps"}, Become(i, state)
      PROVE  Partition'
  BY <1>2, BecomePartition DEF States
<1>3. ASSUME NEW i \in DOMAIN parts, IsPartitionable(parts[i]), Split(i) PROVE Partition'
  BY <1>3, SplitPartition
<1>4. CASE UNCHANGED parts
  BY <1>4 DEF Partition
<1> QED
  BY <1>1, <1>2, <1>3, <1>4, Cases DEF Return, vars

(* The parts have their type and always cover the range, in order, without    *)
(* gap or overlap.                                                          *)
THEOREM TypeCorrect == Spec => []TypeOK
  BY TypeInit, TypeStep, PTL DEF Spec

\* The parts of a query always tile its range, in order.
THEOREM AlwaysPartition == Spec => []Partition
  BY TypeInit, TypeStep, PartitionInit, PartitionStep, PTL DEF Spec

-----------------------------------------------------------------------------
(* How many parts there can be.                                             *)

\* The parts between two parts have a height each, at least.
Spread ==
    /\ \A i \in DOMAIN parts : Start <= parts[i].from /\ parts[i].from <= parts[i].to
                                 /\ parts[i].to <= End
    /\ \A i, j \in DOMAIN parts : i < j => parts[j].from - parts[i].to >= j - i

\* A part that is split has three heights or more, and gives way to two.
LEMMA SplitSpread ==
    ASSUME TypeOK, Spread, NEW i \in DOMAIN parts, IsPartitionable(parts[i]), Split(i)
    PROVE  Spread'
<1> DEFINE c == Center(parts[i])
           n == Len(parts)
<1>1. /\ n \in Nat /\ DOMAIN parts = 1 .. n /\ i \in 1 .. n
      /\ \A k \in 1 .. n : parts[k].from \in Nat /\ parts[k].to \in Nat
      /\ Start \in Nat /\ End \in Nat
  BY PartsType, PartFields, QueryAssumption
<1>2. c \in Nat /\ parts[i].from <= c - 1 /\ c <= parts[i].to
  BY SplitRanges
<1>3. DOMAIN parts' = 1 .. n + 1
  BY SplitRanges
<1>4. /\ \A k \in 1 .. n + 1 : k < i =>
            parts'[k].from = parts[k].from /\ parts'[k].to = parts[k].to
      /\ parts'[i].from = parts[i].from /\ parts'[i].to = c - 1
      /\ parts'[i + 1].from = c /\ parts'[i + 1].to = parts[i].to
      /\ \A k \in 1 .. n + 1 : k > i + 1 =>
            parts'[k].from = parts[k - 1].from /\ parts'[k].to = parts[k - 1].to
  BY SplitRanges
<1> HIDE DEF c, n
<1>5. \A k \in 1 .. n : Start <= parts[k].from /\ parts[k].from <= parts[k].to
                          /\ parts[k].to <= End
  BY <1>1 DEF Spread
<1>6. \A k, l \in 1 .. n : k < l => parts[l].from - parts[k].to >= l - k
  BY <1>1 DEF Spread
<1>7. \A k \in 1 .. n + 1 :
         Start <= parts'[k].from /\ parts'[k].from <= parts'[k].to /\ parts'[k].to <= End
  <2> TAKE k \in 1 .. n + 1
  <2>1. CASE k < i
    BY <1>1, <1>4, <1>5, <2>1
  <2>2. CASE k = i \/ k = i + 1
    BY <1>1, <1>2, <1>4, <1>5, <2>2
  <2>3. CASE k > i + 1
    <3>1. k - 1 \in 1 .. n
      BY <1>1, <2>3
    <3> QED
      BY <1>4, <1>5, <2>3, <3>1
  <2> QED
    BY <1>1, <2>1, <2>2, <2>3
<1>8. ASSUME NEW k \in 1 .. n + 1, NEW l \in 1 .. n + 1, k < l
      PROVE  parts'[l].from - parts'[k].to >= l - k
\* The part before the split one, if k is one, and the part after it, if l is one.
  <2>1. k < i => /\ k \in 1 .. n /\ parts'[k].to = parts[k].to
                 /\ parts[i].from - parts[k].to >= i - k
    BY <1>1, <1>4, <1>6
  <2>2. l > i + 1 => l - 1 \in 1 .. n /\ i < l - 1 /\ parts'[l].from = parts[l - 1].from
    BY <1>1, <1>4
  <2>3. l > i + 1 => parts[l - 1].from - parts[i].to >= (l - 1) - i
    <3> SUFFICES ASSUME l > i + 1 PROVE parts[l - 1].from - parts[i].to >= (l - 1) - i
      OBVIOUS
    <3> QED
      BY <1>1, <1>6, <2>2
  <2>4. CASE l < i
    <3>1. k < i /\ k \in 1 .. n /\ l \in 1 .. n
      BY <1>1, <1>8, <2>4
    <3>2. parts'[k].to = parts[k].to /\ parts'[l].from = parts[l].from
      BY <1>4, <2>4, <3>1
    <3> QED
      BY <1>6, <1>8, <3>1, <3>2
  <2>5. CASE k < i /\ l = i
    BY <1>4, <2>1, <2>5
  <2>6. CASE k < i /\ l = i + 1
    BY SMTT(30), <1>1, <1>2, <1>4, <2>1, <2>6
  <2>7. CASE k < i /\ l > i + 1
    <3>1. parts[l - 1].from \in Nat /\ parts[k].to \in Nat
      BY <1>1, <2>1, <2>2, <2>7
    <3>2. parts[i].from < parts[i].to /\ parts[i].from \in Nat /\ parts[i].to \in Nat
      BY <1>1, <1>2
    <3> QED
      BY SMTT(30), <1>1, <2>1, <2>2, <2>3, <2>7, <3>1, <3>2
  <2>8. CASE k = i /\ l = i + 1
    BY <1>1, <1>2, <1>4, <2>8
  <2>9. CASE (k = i \/ k = i + 1) /\ l > i + 1
    BY <1>1, <1>2, <1>4, <2>2, <2>3, <2>9
  <2>10. CASE k > i + 1
    <3>1. k - 1 \in 1 .. n /\ l - 1 \in 1 .. n /\ k - 1 < l - 1 /\ l > i + 1
      BY <1>1, <1>8, <2>10
    <3>2. parts'[k].to = parts[k - 1].to /\ parts'[l].from = parts[l - 1].from
      BY <1>4, <2>10, <3>1
    <3>3. parts[l - 1].from - parts[k - 1].to >= (l - 1) - (k - 1)
      BY <1>6, <3>1
    <3>4. (l - 1) - (k - 1) = l - k
      BY <3>1
    <3> QED
      BY <3>2, <3>3, <3>4
  <2> QED
    BY <1>1, <1>8, <2>4, <2>5, <2>6, <2>7, <2>8, <2>9, <2>10
<1> QED
  BY <1>3, <1>7, <1>8 DEF Spread

\* Spread is inductive.
LEMMA SpreadStep == TypeOK /\ Spread /\ [Next]_vars => Spread'
<1> SUFFICES ASSUME TypeOK, Spread, [Next]_vars PROVE Spread'
  OBVIOUS
<1>1. ASSUME NEW i \in DOMAIN parts, NEW state \in States, Become(i, state)
      PROVE  Spread'
  BY <1>1, BecomeType DEF Spread
<1>2. ASSUME NEW i \in DOMAIN parts, IsPartitionable(parts[i]), Split(i) PROVE Spread'
  BY <1>2, SplitSpread
<1>3. CASE UNCHANGED parts
  BY <1>3 DEF Spread
<1> QED
  BY <1>1, <1>2, <1>3, Cases DEF FetchEvents, Return, vars, States

(* fetchEventsFallOver never has more calls in flight than the range has       *)
(* heights, whatever fails and however often: its recursion ends.            *)
THEOREM BoundedFanOut == Spec => [](Len(parts) \in 1 .. End - Start + 1)
<1>1. Init => Spread
  BY QueryAssumption DEF Init, Spread, Part
<1>2. TypeOK /\ Partition /\ Spread => Len(parts) \in 1 .. End - Start + 1
  <2> SUFFICES ASSUME TypeOK, Partition, Spread PROVE Len(parts) \in 1 .. End - Start + 1
    OBVIOUS
  <2> DEFINE n == Len(parts)
  <2>1. /\ n \in Nat /\ DOMAIN parts = 1 .. n /\ Start \in Nat /\ End \in Nat /\ Start <= End
        /\ \A k \in 1 .. n : parts[k].from \in Nat /\ parts[k].to \in Nat
    BY PartsType, PartFields, QueryAssumption
  <2> HIDE DEF n
  <2>2. n >= 1
    <3>1. \E i \in DOMAIN parts : parts[i].from <= Start
      BY <2>1 DEF Partition
    <3> QED
      BY <2>1, <3>1
  <2>3. CASE n = 1
    BY <2>1, <2>3 DEF n
  <2>4. CASE n > 1
    <3>1. parts[n].from - parts[1].to >= n - 1 /\ Start <= parts[1].to /\ parts[n].from <= End
      BY <2>1, <2>4 DEF Spread
    <3> QED
      BY <2>1, <2>4, <3>1 DEF n
  <2> QED
    BY <2>1, <2>2, <2>3, <2>4
<1> QED
  BY <1>1, <1>2, TypeInit, TypeStep, PartitionInit, PartitionStep, SpreadStep, PTL DEF Spec

-----------------------------------------------------------------------------
(* The refinement.                                                          *)

(* One answered call among the calls that holds height h.                   *)
HoldsAt(calls, k, h) ==
    calls[k].state = "answered" /\ calls[k].from <= h /\ h <= calls[k].to

\* What AnswersFor contains.
LEMMA AnswerMember ==
    ASSUME NEW calls, NEW h, NEW e
    PROVE  e \in AnswersFor(calls, h) <=>
              \E k \in DOMAIN calls :
                 HoldsAt(calls, k, h) /\ e = <<calls[k].from, calls[k].to>>
  BY DEF AnswersFor, HoldsAt

\* Equal answered calls, equal answers.
LEMMA SameAnswers ==
    ASSUME NEW old, NEW new, NEW h,
           \A k \in DOMAIN old : HoldsAt(old, k, h) =>
              \E l \in DOMAIN new :
                 HoldsAt(new, l, h) /\ new[l].from = old[k].from /\ new[l].to = old[k].to,
           \A l \in DOMAIN new : HoldsAt(new, l, h) =>
              \E k \in DOMAIN old :
                 HoldsAt(old, k, h) /\ new[l].from = old[k].from /\ new[l].to = old[k].to
    PROVE  AnswersFor(new, h) = AnswersFor(old, h)
<1>1. \A e : e \in AnswersFor(old, h) => e \in AnswersFor(new, h)
  BY AnswerMember
<1>2. \A e : e \in AnswersFor(new, h) => e \in AnswersFor(old, h)
  BY AnswerMember
<1> QED
  BY <1>1, <1>2

(* An answer: the heights of part i had none, and get this one.             *)
LEMMA AnswerRefines ==
    ASSUME TypeOK, Partition, NEW i \in DOMAIN parts, FetchEvents(i)
    PROVE  \E from, to \in Start .. End : from <= to /\ Abstract!Answer(from, to)
<1> DEFINE from == parts[i].from
           to == parts[i].to
<1>1. /\ DOMAIN parts = 1 .. Len(parts) /\ Len(parts) \in Nat
      /\ \A k \in DOMAIN parts : parts[k].from \in Nat /\ parts[k].to \in Nat
      /\ Start \in Nat /\ End \in Nat
  BY PartsType, PartFields, QueryAssumption
<1>2. from \in Start .. End /\ to \in Start .. End /\ from <= to
  BY <1>1 DEF Partition
<1>3. /\ DOMAIN parts' = DOMAIN parts
      /\ \A k \in DOMAIN parts :
            /\ parts'[k].from = parts[k].from /\ parts'[k].to = parts[k].to
            /\ parts'[k].state = IF k = i THEN "answered" ELSE parts[k].state
      /\ parts[i].state = "asks" /\ returned' = returned
  BY BecomeType DEF FetchEvents, States
<1>4. \A k \in DOMAIN parts, h \in from .. to :
         parts[k].from <= h /\ h <= parts[k].to => k = i
  <2> SUFFICES ASSUME NEW k \in DOMAIN parts, NEW h \in from .. to,
                      parts[k].from <= h, h <= parts[k].to, k # i
               PROVE  FALSE
    OBVIOUS
  <2>1. CASE k < i
    BY <1>1, <2>1 DEF Partition
  <2>2. CASE i < k
    BY <1>1, <2>2 DEF Partition
  <2> QED
    BY <1>1, <2>1, <2>2
<1>5. \A h \in from .. to : AnswersFor(parts, h) = {}
  <2> SUFFICES ASSUME NEW h \in from .. to, NEW e \in AnswersFor(parts, h) PROVE FALSE
    OBVIOUS
  <2>1. PICK k \in DOMAIN parts : HoldsAt(parts, k, h)
    BY AnswerMember
  <2> QED
    BY <1>3, <1>4, <2>1 DEF HoldsAt
<1>6. \A h \in from .. to : AnswersFor(parts', h) = {<<from, to>>}
  <2> SUFFICES ASSUME NEW h \in from .. to
               PROVE  AnswersFor(parts', h) = {<<from, to>>}
    OBVIOUS
  <2>1. from <= h /\ h <= to
    BY <1>1
  <2>2. HoldsAt(parts', i, h)
    BY <1>3, <2>1 DEF HoldsAt
  <2>3. <<from, to>> \in AnswersFor(parts', h)
    BY <1>3, <2>2, AnswerMember
  <2>4. ASSUME NEW e \in AnswersFor(parts', h) PROVE e = <<from, to>>
    <3>1. PICK k \in DOMAIN parts' :
             HoldsAt(parts', k, h) /\ e = <<parts'[k].from, parts'[k].to>>
      BY <2>4, AnswerMember
    <3> QED
      BY <1>3, <1>4, <3>1 DEF HoldsAt
  <2> QED
    BY <2>3, <2>4
<1>7. \A h \in Start .. End : h \notin from .. to =>
         AnswersFor(parts', h) = AnswersFor(parts, h)
  <2> SUFFICES ASSUME NEW h \in Start .. End, h \notin from .. to
               PROVE  AnswersFor(parts', h) = AnswersFor(parts, h)
    OBVIOUS
  <2>1. ~ (from <= h /\ h <= to)
    BY <1>1
  <2>2. \A k \in DOMAIN parts : HoldsAt(parts', k, h) <=> HoldsAt(parts, k, h)
    BY <1>3, <2>1 DEF HoldsAt
  <2> QED
    BY <1>3, <2>2, SameAnswers
<1>8. [h \in Start .. End |-> AnswersFor(parts', h)] =
         [h \in Start .. End |->
            IF h \in from .. to THEN {<<from, to>>}
            ELSE [g \in Start .. End |-> AnswersFor(parts, g)][h]]
  BY <1>6, <1>7
<1>9. \A h \in from .. to : [g \in Start .. End |-> AnswersFor(parts, g)][h] = {}
  <2>1. \A h \in from .. to : h \in Start .. End
    BY <1>1, <1>2
  <2> QED
    BY <1>5, <2>1
<1>10. Abstract!Answer(from, to)
  BY <1>3, <1>8, <1>9 DEF Abstract!Answer
<1> QED
  BY <1>2, <1>10

(* The other steps of the parts are not seen.                               *)
LEMMA BecomeStutters ==
    ASSUME TypeOK, NEW i \in DOMAIN parts, NEW state \in {"asks", "sleeps"},
           parts[i].state # "answered", Become(i, state), NEW h
    PROVE  AnswersFor(parts', h) = AnswersFor(parts, h)
<1>1. /\ DOMAIN parts' = DOMAIN parts
      /\ \A k \in DOMAIN parts :
            /\ parts'[k].from = parts[k].from /\ parts'[k].to = parts[k].to
            /\ parts'[k].state = IF k = i THEN state ELSE parts[k].state
  BY BecomeType DEF States
<1>2. \A k \in DOMAIN parts : HoldsAt(parts', k, h) <=> HoldsAt(parts, k, h)
  BY <1>1 DEF HoldsAt
<1> QED
  BY <1>1, <1>2, SameAnswers

\* A part that is split was not answered, nor are its halves.
LEMMA SplitStutters ==
    ASSUME TypeOK, NEW i \in DOMAIN parts, parts[i].state = "asks",
           IsPartitionable(parts[i]), Split(i), NEW h
    PROVE  AnswersFor(parts', h) = AnswersFor(parts, h)
<1> DEFINE n == Len(parts)
<1>1. n \in Nat /\ DOMAIN parts = 1 .. n /\ i \in 1 .. n
  BY PartsType
<1>2. /\ DOMAIN parts' = 1 .. n + 1
      /\ \A k \in 1 .. n + 1 :
            parts'[k] = IF k < i THEN parts[k]
                        ELSE IF k = i THEN Part(parts[i].from, Center(parts[i]) - 1)
                        ELSE IF k = i + 1 THEN Part(Center(parts[i]), parts[i].to)
                        ELSE parts[k - 1]
  BY SplitType
<1> HIDE DEF n
<1>3. ASSUME NEW k \in 1 .. n, HoldsAt(parts, k, h)
      PROVE  \E l \in 1 .. n + 1 : HoldsAt(parts', l, h) /\ parts'[l].from = parts[k].from
                                     /\ parts'[l].to = parts[k].to
  <2>1. CASE k < i
    <3>1. k \in 1 .. n + 1 /\ parts'[k] = parts[k]
      BY <1>1, <1>2, <2>1
    <3> QED
      BY <1>3, <3>1 DEF HoldsAt
  <2>2. CASE k > i
    <3>1. k + 1 \in 1 .. n + 1 /\ parts'[k + 1] = parts[k]
      BY <1>1, <1>2, <2>2
    <3> QED
      BY <1>3, <3>1 DEF HoldsAt
  <2>3. k # i
    BY <1>3 DEF HoldsAt
  <2> QED
    BY <1>1, <2>1, <2>2, <2>3
<1>4. ASSUME NEW l \in 1 .. n + 1, HoldsAt(parts', l, h)
      PROVE  \E k \in 1 .. n : HoldsAt(parts, k, h) /\ parts'[l].from = parts[k].from
                                 /\ parts'[l].to = parts[k].to
  <2>1. CASE l < i
    <3>1. l \in 1 .. n /\ parts'[l] = parts[l]
      BY <1>1, <1>2, <2>1
    <3> QED
      BY <1>4, <3>1 DEF HoldsAt
  <2>2. CASE l > i + 1
    <3>1. l - 1 \in 1 .. n /\ parts'[l] = parts[l - 1]
      BY <1>1, <1>2, <2>2
    <3> QED
      BY <1>4, <3>1 DEF HoldsAt
  <2>3. CASE l = i \/ l = i + 1
    <3>1. parts'[l].state = "asks"
      BY <1>1, <1>2, <2>3 DEF Part
    <3> QED
      BY <1>4, <3>1 DEF HoldsAt
  <2> QED
    BY <1>1, <2>1, <2>2, <2>3
<1>5. \A k \in DOMAIN parts : HoldsAt(parts, k, h) =>
         \E l \in DOMAIN parts' : HoldsAt(parts', l, h)
            /\ parts'[l].from = parts[k].from /\ parts'[l].to = parts[k].to
  BY <1>1, <1>2, <1>3
<1>6. \A l \in DOMAIN parts' : HoldsAt(parts', l, h) =>
         \E k \in DOMAIN parts : HoldsAt(parts, k, h)
            /\ parts'[l].from = parts[k].from /\ parts'[l].to = parts[k].to
  BY <1>1, <1>2, <1>4
<1> QED
  BY <1>5, <1>6, SameAnswers

\* When the query returns, every height is answered.
LEMMA ReturnRefines ==
    ASSUME TypeOK, Partition, Return
    PROVE  Abstract!Return
<1>1. \A h \in Start .. End : AnswersFor(parts, h) # {}
  <2> TAKE h \in Start .. End
  <2>1. PICK k \in DOMAIN parts : parts[k].from <= h /\ h <= parts[k].to
    BY DEF Partition
  <2>2. HoldsAt(parts, k, h)
    BY <2>1 DEF Return, HoldsAt
  <2>3. <<parts[k].from, parts[k].to>> \in AnswersFor(parts, h)
    BY <2>2, AnswerMember
  <2> QED
    BY <2>3
<1> QED
  BY <1>1 DEF Return, Abstract!Return

\* Initial states map to initial states.
LEMMA InitRefines == Init => Abstract!Init
<1> SUFFICES ASSUME Init PROVE Abstract!Init
  OBVIOUS
<1>1. DOMAIN parts = {1} /\ parts[1].state = "asks"
  BY DEF Init, Part
<1>2. \A h \in Start .. End : AnswersFor(parts, h) = {}
  <2> SUFFICES ASSUME NEW h \in Start .. End, NEW e \in AnswersFor(parts, h) PROVE FALSE
    OBVIOUS
  <2>1. PICK k \in DOMAIN parts : HoldsAt(parts, k, h)
    BY AnswerMember
  <2> QED
    BY <1>1, <2>1 DEF HoldsAt
<1> QED
  BY <1>2 DEF Abstract!Init, Init

\* Every step maps to a step of the abstract query or to a stutter.
LEMMA StepRefines ==
    TypeOK /\ Partition /\ [Next]_vars =>
        [Abstract!Next]_<<[h \in Start .. End |-> AnswersFor(parts, h)], returned>>
<1> SUFFICES ASSUME TypeOK, Partition, [Next]_vars
             PROVE  [Abstract!Next]_<<[h \in Start .. End |-> AnswersFor(parts, h)], returned>>
  OBVIOUS
<1>1. ASSUME NEW i \in DOMAIN parts, FetchEvents(i) PROVE Abstract!Next
  BY <1>1, AnswerRefines DEF Abstract!Next
<1>2. CASE Return
  BY <1>2, ReturnRefines DEF Abstract!Next
<1>3. ASSUME returned' = returned,
             \A h \in Start .. End : AnswersFor(parts', h) = AnswersFor(parts, h)
      PROVE  UNCHANGED <<[h \in Start .. End |-> AnswersFor(parts, h)], returned>>
  BY <1>3
<1>4. ASSUME NEW i \in DOMAIN parts, NEW state \in {"asks", "sleeps"},
             parts[i].state # "answered", Become(i, state), returned' = returned
      PROVE  UNCHANGED <<[h \in Start .. End |-> AnswersFor(parts, h)], returned>>
  BY <1>3, <1>4, BecomeStutters
<1>5. ASSUME NEW i \in DOMAIN parts, parts[i].state = "asks",
             IsPartitionable(parts[i]), Split(i), returned' = returned
      PROVE  UNCHANGED <<[h \in Start .. End |-> AnswersFor(parts, h)], returned>>
  BY <1>3, <1>5, SplitStutters
<1>6. CASE UNCHANGED vars
  BY <1>6 DEF vars
<1> QED
  BY <1>1, <1>2, <1>4, <1>5, <1>6, Cases

(* fetchEventsFallOver, however it splits and repeats, is a query that        *)
(* answers for every height once before it returns.                         *)
THEOREM Refinement == Spec => ImplementsQuery
<1> QED
  BY TypeCorrect, AlwaysPartition, InitRefines, StepRefines, PTL
  DEF Spec, ImplementsQuery, Abstract!Spec

-----------------------------------------------------------------------------
(* Why a query comes to an end.                                             *)

\* The heights whose events are there.
Fetched == {h \in Start .. End : AnswersFor(parts, h) # {}}

\* What is fetched stays, and a step does one of five things: it fetches the
\* events of further heights, adds a part, ends a pause, returns, or fails
\* though the node could have answered.
Advances ==
    /\ Fetched \subseteq Fetched'
    /\ \/ Fetched' # Fetched
       \/ Len(parts') = Len(parts) + 1
       \/ \E i \in DOMAIN parts : Retry(i)
       \/ Return
       \/ Fault

\* A part that is too wide for the node is split.
LEMMA TooWideSplits ==
    ASSUME TypeOK, NEW i \in DOMAIN parts, LimitExceeded(i)
    PROVE  parts[i].state = "asks" /\ IsPartitionable(parts[i]) /\ Split(i)
<1>1. parts[i].from \in Nat /\ parts[i].to \in Nat
  BY PartsType, PartFields
<1>2. IsPartitionable(parts[i])
  BY <1>1, QueryAssumption DEF LimitExceeded, Size, IsPartitionable
<1> QED
  BY <1>2 DEF LimitExceeded, FetchThrows

\* A step that changes no answer.
LEMMA SameFetched ==
    ASSUME \A h \in Start .. End : AnswersFor(parts', h) = AnswersFor(parts, h)
    PROVE  Fetched' = Fetched
  BY DEF Fetched

\* Every step advances.
LEMMA AdvanceStep ==
    ASSUME TypeOK, Partition, Next
    PROVE  Advances
<1>1. ASSUME NEW i \in DOMAIN parts, FetchEvents(i) PROVE Advances
  <2>1. PICK from \in Start .. End, to \in Start .. End :
           from <= to /\ Abstract!Answer(from, to)
    BY <1>1, AnswerRefines
  <2>2. from \in from .. to /\ from .. to \subseteq Start .. End
    BY <2>1, QueryAssumption
  <2>3. \A h \in Start .. End :
           AnswersFor(parts', h) = IF h \in from .. to THEN {<<from, to>>}
                                                        ELSE AnswersFor(parts, h)
    BY <2>1 DEF Abstract!Answer
  <2>4. AnswersFor(parts, from) = {}
    BY <2>1, <2>2 DEF Abstract!Answer
  <2> QED
    BY <2>2, <2>3, <2>4 DEF Advances, Fetched
<1>2. ASSUME NEW i \in DOMAIN parts, LimitExceeded(i) PROVE Advances
  <2>1. parts[i].state = "asks" /\ IsPartitionable(parts[i]) /\ Split(i)
    BY <1>2, TooWideSplits
  <2>2. Fetched' = Fetched
    BY <2>1, SplitStutters, SameFetched
  <2>3. Len(parts') = Len(parts) + 1
    <3>1. parts' \in Seq(Parts) /\ DOMAIN parts' = 1 .. Len(parts) + 1 /\ Len(parts) \in Nat
      BY <2>1, SplitType, PartsType
    <3> QED
      BY <3>1
  <2> QED
    BY <2>2, <2>3 DEF Advances
<1>3. ASSUME NEW i \in DOMAIN parts, Retry(i) PROVE Advances
  <2>1. Fetched' = Fetched
    BY <1>3, BecomeStutters, SameFetched DEF Retry
  <2> QED
    BY <1>3, <2>1 DEF Advances
<1>4. ASSUME NEW i \in DOMAIN parts, RequestFails(i), ~ LimitExceeded(i) PROVE Advances
  <2>1. Fetched' = Fetched
    <3>1. CASE IsPartitionable(parts[i]) /\ Split(i) /\ parts[i].state = "asks"
      BY <3>1, SplitStutters, SameFetched
    <3>2. CASE Become(i, "sleeps") /\ parts[i].state = "asks"
      BY <3>2, BecomeStutters, SameFetched
    <3> QED
      BY <1>4, <3>1, <3>2 DEF RequestFails, FetchThrows
  <2>2. Fault
    BY <1>4 DEF Fault
  <2> QED
    BY <2>1, <2>2 DEF Advances
<1>5. CASE Return
  BY <1>5, SameFetched DEF Advances, Return
<1> QED
  BY <1>1, <1>2, <1>3, <1>4, <1>5 DEF Next

(* Without a fault of the node every step of a query makes for its return: it  *)
(* fetches heights not fetched before, adds one of the finitely many parts     *)
(* (BoundedFanOut), or repeats a part whose pause is over; nothing that is    *)
(* fetched is ever lost or asked for again.                                 *)
THEOREM NoStepBack == Spec => [][Advances]_vars
<1>1. TypeOK /\ Partition /\ [Next]_vars => [Advances]_vars
  BY AdvanceStep
<1> QED
  BY <1>1, TypeCorrect, AlwaysPartition, PTL DEF Spec
=============================================================================
