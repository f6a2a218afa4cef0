-------------------------- MODULE RepositoryProofs --------------------------
(* Theorems about Repository.                                               *)
EXTENDS Repository, TLAPS

Addressed == Addresses \cup {None}

\* What a call of a prefix starts with is a read.
LEMMA ReadingType ==
    ASSUME NEW kind \in Kinds, NEW contract \in Addressed
    PROVE  Reading(kind, contract) \in Reads
  BY DEF Reading, Reads, Addressed

\* No call is a read, and so is what a call returns.
LEMMA ReturnedType ==
    ASSUME NEW kind \in Kinds, NEW prefix \in Addressed
    PROVE  /\ NoRead \in Reads
           /\ [NoRead EXCEPT !.state = "returned", !.kind = kind, !.prefix = prefix] \in Reads
  BY DEF NoRead, Reads, Kinds, Addressed

\* A read that ends leaves prefixes, and a result, of their types.
LEMMA AssignedType ==
    ASSUME TypeOK, NEW r \in Readers
    PROVE  /\ Assigned(r) \in [Kinds -> Addressed]
           /\ Result(r) \in Addressed
           /\ read[r].kind \in Kinds
<1>1. read[r] \in Reads /\ prefixes \in [Kinds -> Addressed]
  BY DEF TypeOK, Addressed
<1>2. read[r].kind \in Kinds /\ read[r].contract \in Addressed
  BY <1>1 DEF Reads, Addressed
<1> QED
  BY <1>1, <1>2 DEF Assigned, Result

\* Types hold initially.
LEMMA TypeInit == Init => TypeOK
<1> SUFFICES ASSUME Init PROVE TypeOK
  OBVIOUS
<1>1. NoRead \in Reads
  BY DEF NoRead, Reads, Kinds
<1>2. read \in [Readers -> Reads]
  BY <1>1 DEF Init
<1> QED
  BY <1>2 DEF Init, TypeOK, Phases

\* Types are kept by every step.
LEMMA TypeStep == TypeOK /\ [Next]_vars => TypeOK'
<1> SUFFICES ASSUME TypeOK, [Next]_vars PROVE TypeOK'
  OBVIOUS
<1> USE RepositoryAssumption
<1>n. NoRead \in Reads
  BY DEF NoRead, Reads, Kinds
<1>1. ASSUME NEW b \in Blocks, GetBlock(b) \/ NewCycle(b) PROVE TypeOK'
  BY <1>1 DEF GetBlock, NewCycle, TypeOK, Phases
<1>2. CASE GetBlockFails
  BY <1>2, <1>n DEF GetBlockFails, TypeOK, Phases
<1>3. CASE SleepEnds
  BY <1>3 DEF SleepEnds, TypeOK, Phases
<1>4. ASSUME NEW key \in Keys, InitContract(key) PROVE TypeOK'
  <2>1. block \in Blocks
    BY <1>4 DEF InitContract, TypeOK
  <2>2. Address[block][key] \in Addresses
    BY <2>1
  <2>3. phase' \in {"dsm", "ready"} /\ started' \in BOOLEAN
    BY <1>4 DEF InitContract, Order, Ends, TypeOK
  <2>4. contracts' \in [Keys -> Addressed]
    BY <1>4, <2>2 DEF InitContract, TypeOK, Addressed
  <2>5. phase # "prefixes"
    BY <1>4 DEF InitContract
  <2> QED
    BY <1>4, <2>1, <2>3, <2>4, <2>5 DEF InitContract, TypeOK, Phases, Addressed
<1>5. CASE InitDSM
  <2>1. block \in Blocks
    BY <1>5 DEF InitDSM, TypeOK
  <2>2. contracts' \in [Keys -> Addressed] /\ contracts'["dsm"] \in Addressed
    BY <1>5, <2>1 DEF InitDSM, TypeOK, Keys, Addressed
  <2>3. PICK attest \in InitReaders, pause \in InitReaders :
          /\ waiting' = {attest, pause}
          /\ read' = [r \in Readers |->
                CASE r = attest -> Reading("attest", contracts'["dsm"])
                  [] r = pause -> Reading("pause", contracts'["dsm"])
                  [] OTHER -> [read[r] EXCEPT !.current = FALSE]]
    BY <1>5 DEF InitDSM
  <2>4. /\ Reading("attest", contracts'["dsm"]) \in Reads
        /\ Reading("pause", contracts'["dsm"]) \in Reads
    BY <2>2, ReadingType DEF Kinds
  <2>5. ASSUME NEW r \in Readers PROVE [read[r] EXCEPT !.current = FALSE] \in Reads
    <3>1. read[r] \in Reads
      BY DEF TypeOK
    <3> QED
      BY <3>1 DEF Reads
  <2>6. read' \in [Readers -> Reads]
    BY <2>3, <2>4, <2>5
  <2>7. phase' = "prefixes" /\ prefixes' \in [Kinds -> Addressed]
    BY <1>5 DEF InitDSM, Order, Prune, Addressed
  <2> QED
    BY <1>5, <2>1, <2>2, <2>3, <2>6, <2>7 DEF InitDSM, TypeOK, Phases, Addressed
<1>6. CASE InitDeposit
  BY <1>6 DEF InitDeposit, TypeOK, Phases, Order
<1>7. CASE InitFails
  BY <1>7 DEF InitFails, Fails, TypeOK, Phases, Keys
<1>8. ASSUME NEW r \in Signers, NEW kind \in Kinds, GetMessagePrefix(r, kind) PROVE TypeOK'
  <2>1. prefixes[kind] \in Addressed /\ contracts["dsm"] \in Addressed
    BY DEF TypeOK, Keys, Addressed
  <2>2. [NoRead EXCEPT !.state = "returned", !.kind = kind, !.prefix = prefixes[kind]] \in Reads
    BY <2>1, ReturnedType
  <2>3. Reading(kind, contracts["dsm"]) \in Reads
    BY <2>1, ReadingType
  <2>4. read' \in [Readers -> Reads]
    BY <1>8, <2>2, <2>3 DEF GetMessagePrefix, TypeOK
  <2> QED
    BY <1>8, <2>4 DEF GetMessagePrefix, initVars, TypeOK
<1>10. ASSUME NEW r \in Readers, ReadReturns(r) PROVE TypeOK'
  <2>1. /\ Assigned(r) \in [Kinds -> Addressed]
        /\ Result(r) \in Addressed
        /\ read[r].kind \in Kinds
    BY AssignedType
  <2>2. [NoRead EXCEPT !.state = "returned", !.kind = read[r].kind, !.prefix = Result(r)] \in Reads
    BY <2>1, ReturnedType
  <2>3. read' \in [Readers -> Reads]
    BY <1>10, <1>n, <2>2 DEF ReadReturns, TypeOK
  <2>4. CASE r \in waiting
    BY <1>10, <2>1, <2>3, <2>4 DEF ReadReturns, Awaited, Order, TypeOK, Phases, Addressed
  <2>5. CASE r \notin waiting
    BY <1>10, <2>1, <2>3, <2>5 DEF ReadReturns, TypeOK, Phases, Addressed
  <2> QED
    BY <2>4, <2>5
<1>11. ASSUME NEW r \in Readers, ReadThrows(r) PROVE TypeOK'
  BY <1>11, <1>n DEF ReadThrows, Fails, TypeOK, Phases
<1>12. ASSUME NEW r \in Readers, Sign(r) PROVE TypeOK'
  BY <1>12, <1>n DEF Sign, initVars, TypeOK
<1>13. CASE UNCHANGED vars
  BY <1>13 DEF vars, TypeOK
<1> QED
  BY <1>1, <1>2, <1>3, <1>4, <1>5, <1>6, <1>7, <1>8, <1>10, <1>11, <1>12, <1>13
  DEF Next, InitStep, ReadStep

\* Every variable keeps its type, and initCachedContracts waits for its reads
\* exactly in its phase.
THEOREM TypeCorrect == Spec => []TypeOK
  BY TypeInit, TypeStep, PTL DEF Spec

------------------------------------------------------------------------------
(* The prefixes are those of the current DSM.                               *)

\* What a read will write into the current object is the current DSM's prefix.
PrefixInv ==
    /\ TypeOK
    /\ PrefixIsCurrent
    /\ \A r \in Readers :
          read[r].state = "reading" /\ read[r].current
            => read[r].contract = contracts["dsm"]

\* What initCachedContracts has reached so far.
InitInv ==
    /\ \A r \in waiting : read[r].state = "reading" /\ read[r].current
    /\ phase = "prefixes" =>
          \A kind \in Kinds : \/ prefixes[kind] = contracts["dsm"]
                              \/ \E r \in waiting : read[r].kind = kind
    /\ phase \in {"dsm", "prefixes", "deposit", "router", "ready"} =>
          contracts["lido"] = Address[block]["lido"]
    /\ phase \in {"prefixes", "deposit", "router", "ready"} =>
          contracts["dsm"] = Address[block]["dsm"]
    /\ phase \in {"deposit", "router", "ready"} =>
          \A kind \in Kinds : prefixes[kind] = contracts["dsm"]
    /\ phase \in {"router", "ready"} => deposit
    /\ phase = "ready" => contracts["router"] = Address[block]["router"]

\* There is nothing to be current at first.
LEMMA PrefixInit == Init => PrefixInv /\ InitInv
<1> SUFFICES ASSUME Init PROVE PrefixInv /\ InitInv
  OBVIOUS
<1>1. \A r \in Readers : read[r].state = "off"
  BY DEF Init, NoRead
<1>2. PrefixInv
  BY <1>1, TypeInit DEF Init, PrefixInv, PrefixIsCurrent
<1> QED
  BY <1>2 DEF Init, InitInv

\* A read that ends assigns the current prefix, or nothing.
LEMMA AssignedIsCurrent ==
    ASSUME PrefixInv, NEW r \in Readers, read[r].state = "reading"
    PROVE  /\ \A kind \in Kinds : Assigned(r)[kind] \in {None, contracts["dsm"]}
           /\ \A kind \in Kinds : prefixes[kind] = contracts["dsm"]
                                   => Assigned(r)[kind] = contracts["dsm"]
           /\ read[r].current => Assigned(r)[read[r].kind] = contracts["dsm"]
           /\ Result(r) \in {None, contracts["dsm"]}
<1>1. /\ prefixes \in [Kinds -> Addressed] /\ read[r].kind \in Kinds
      /\ \A kind \in Kinds : prefixes[kind] \in {None, contracts["dsm"]}
      /\ read[r].current => read[r].contract = contracts["dsm"]
  BY AssignedType DEF PrefixInv, PrefixIsCurrent, TypeOK, Addressed
<1> QED
  BY <1>1 DEF Assigned, Result

\* What a read leaves behind when its answer has come.
LEMMA EndedRead ==
    ASSUME TypeOK, NEW r \in Readers, ReadReturns(r)
    PROVE  /\ read'[r].state \in {"off", "returned"}
           /\ read'[r].state = "returned" => read'[r].prefix = Result(r)
<1>1. read \in [Readers -> Reads]
  BY DEF TypeOK
<1>2. CASE r \in InitReaders
  <2>1. read'[r] = NoRead
    BY <1>1, <1>2 DEF ReadReturns
  <2> QED
    BY <2>1 DEF NoRead
<1>3. CASE r \notin InitReaders
  <2>1. read'[r] = [NoRead EXCEPT !.state = "returned", !.kind = read[r].kind,
                                  !.prefix = Result(r)]
    BY <1>1, <1>3 DEF ReadReturns
  <2> QED
    BY <2>1 DEF NoRead
<1> QED
  BY <1>2, <1>3

\* Every step keeps the prefixes current.
LEMMA PrefixStep ==
    ASSUME PrefixInv, [Next]_vars
    PROVE  PrefixInv'
<1> USE RepositoryAssumption
<1>t. TypeOK /\ TypeOK'
  BY TypeStep DEF PrefixInv
<1>r. read \in [Readers -> Reads] /\ \A r \in Readers : read[r] \in Reads
  BY <1>t DEF TypeOK
<1>1. ASSUME NEW b \in Blocks, GetBlock(b) \/ NewCycle(b) PROVE PrefixInv'
  BY <1>1, <1>t DEF GetBlock, NewCycle, PrefixInv, PrefixIsCurrent
<1>2. CASE GetBlockFails
  <2>1. \A r \in Readers : read'[r].state = "off"
    BY <1>2 DEF GetBlockFails, NoRead
  <2> QED
    BY <1>2, <1>t, <2>1 DEF GetBlockFails, PrefixInv, PrefixIsCurrent
<1>3. CASE SleepEnds
  BY <1>3, <1>t DEF SleepEnds, PrefixInv, PrefixIsCurrent
<1>4. ASSUME NEW key \in Keys, InitContract(key) PROVE PrefixInv'
  <2>1. contracts'["dsm"] = contracts["dsm"] /\ UNCHANGED <<prefixes, read>>
    BY <1>4, <1>t DEF InitContract, TypeOK, Keys
  <2> QED
    BY <1>t, <2>1 DEF PrefixInv, PrefixIsCurrent
<1>5. CASE InitDSM
  <2>1. PICK attest \in InitReaders, pause \in InitReaders :
          /\ waiting' = {attest, pause}
          /\ read' = [r \in Readers |->
                CASE r = attest -> Reading("attest", contracts'["dsm"])
                  [] r = pause -> Reading("pause", contracts'["dsm"])
                  [] OTHER -> [read[r] EXCEPT !.current = FALSE]]
    BY <1>5 DEF InitDSM
  <2>2. PrefixIsCurrent'
    BY <1>5 DEF InitDSM, Prune, PrefixIsCurrent
  <2>3. ASSUME NEW r \in Readers
        PROVE  read'[r].state = "reading" /\ read'[r].current
                 => read'[r].contract = contracts'["dsm"]
    <3>1. CASE r = attest
      BY <2>1, <3>1 DEF Reading
    <3>2. CASE r # attest /\ r = pause
      BY <2>1, <3>2 DEF Reading
    <3>3. CASE r # attest /\ r # pause
      <4>1. read'[r] = [read[r] EXCEPT !.current = FALSE]
        BY <2>1, <3>3
      <4>2. read'[r].state = read[r].state /\ read'[r].current = FALSE
        BY <1>r, <4>1 DEF Reads
      <4> QED
        BY <4>2 DEF PrefixInv
    <3> QED
      BY <3>1, <3>2, <3>3
  <2> QED
    BY <1>t, <2>2, <2>3 DEF PrefixInv
<1>6. CASE InitDeposit
  BY <1>6, <1>t DEF InitDeposit, PrefixInv, PrefixIsCurrent
<1>7. CASE InitFails
  BY <1>7, <1>t DEF InitFails, PrefixInv, PrefixIsCurrent
<1>8. ASSUME NEW r \in Signers, NEW kind \in Kinds, GetMessagePrefix(r, kind)
      PROVE  PrefixInv'
  <2>1. UNCHANGED <<contracts, prefixes>>
    BY <1>8 DEF GetMessagePrefix
  <2>2. CASE read' = [read EXCEPT ![r] = [NoRead EXCEPT !.state = "returned",
                                                       !.kind = kind,
                                                       !.prefix = prefixes[kind]]]
    <3>1. read'[r].state = "returned"
      BY <1>r, <2>2 DEF NoRead, Readers
    <3>2. \A q \in Readers \ {r} : read'[q] = read[q]
      BY <1>r, <2>2
    <3> QED
      BY <1>t, <2>1, <3>1, <3>2 DEF PrefixInv, PrefixIsCurrent
  <2>3. CASE read' = [read EXCEPT ![r] = Reading(kind, contracts["dsm"])]
    <3>1. read'[r].state = "reading" /\ read'[r].contract = contracts["dsm"]
      BY <1>r, <2>3 DEF Reading, Readers
    <3>2. \A q \in Readers \ {r} : read'[q] = read[q]
      BY <1>r, <2>3
    <3> QED
      BY <1>t, <2>1, <3>1, <3>2 DEF PrefixInv, PrefixIsCurrent
  <2> QED
    BY <1>8, <2>2, <2>3 DEF GetMessagePrefix
<1>10. ASSUME NEW r \in Readers, ReadReturns(r) PROVE PrefixInv'
  <2>1. read[r].state = "reading" /\ prefixes' = Assigned(r) /\ contracts' = contracts
    BY <1>10 DEF ReadReturns
  <2>2. PrefixIsCurrent'
    BY <2>1, AssignedIsCurrent DEF PrefixIsCurrent
  <2>3. read'[r].state \in {"off", "returned"}
    BY <1>10, <1>t, EndedRead
  <2>4. \A q \in Readers \ {r} : read'[q] = read[q]
    BY <1>10, <1>r DEF ReadReturns
  <2> QED
    BY <1>t, <2>1, <2>2, <2>3, <2>4 DEF PrefixInv
<1>11. ASSUME NEW r \in Readers, ReadThrows(r) \/ Sign(r) PROVE PrefixInv'
  <2>1. read'[r].state = "off" /\ UNCHANGED <<contracts, prefixes>>
    BY <1>11, <1>r DEF ReadThrows, Sign, NoRead
  <2>2. \A q \in Readers \ {r} : read'[q] = read[q]
    BY <1>11, <1>r DEF ReadThrows, Sign
  <2> QED
    BY <1>t, <2>1, <2>2 DEF PrefixInv, PrefixIsCurrent
<1>12. CASE UNCHANGED vars
  BY <1>12, <1>t DEF vars, PrefixInv, PrefixIsCurrent
<1> QED
  BY <1>1, <1>2, <1>3, <1>4, <1>5, <1>6, <1>7, <1>8, <1>10, <1>11, <1>12
  DEF Next, InitStep, ReadStep

\* Every step keeps what initCachedContracts has reached.
LEMMA InitInvStep ==
    ASSUME PrefixInv, InitInv, [Next]_vars
    PROVE  InitInv'
<1> USE RepositoryAssumption
<1>t. TypeOK
  BY DEF PrefixInv
<1>r. /\ read \in [Readers -> Reads] /\ \A r \in Readers : read[r] \in Reads
      /\ waiting \subseteq Readers
  BY <1>t DEF TypeOK, Readers
<1>1. ASSUME NEW b \in Blocks, GetBlock(b) \/ NewCycle(b) PROVE InitInv'
  BY <1>1 DEF GetBlock, NewCycle, InitInv
<1>2. CASE GetBlockFails
  <2>1. waiting = {}
    BY <1>2, <1>t DEF GetBlockFails, TypeOK
  <2> QED
    BY <1>2, <2>1 DEF GetBlockFails, InitInv
<1>3. CASE SleepEnds
  BY <1>3 DEF SleepEnds, InitInv
<1>4. ASSUME NEW key \in Keys, InitContract(key) PROVE InitInv'
  <2>1. contracts' = [contracts EXCEPT ![key] = Address[block][key]]
    BY <1>4 DEF InitContract
  <2>2. waiting = {}
    BY <1>4, <1>t DEF InitContract, TypeOK
  <2>3. CASE key = "lido"
    BY <1>4, <1>t, <2>1, <2>2, <2>3 DEF InitContract, InitInv, Order, Keys, TypeOK
  <2>4. CASE key = "router"
    BY <1>4, <1>t, <2>1, <2>2, <2>4 DEF InitContract, InitInv, Order, Keys, TypeOK
  <2> QED
    BY <1>4, <2>3, <2>4 DEF InitContract
<1>5. CASE InitDSM
  <2>1. PICK attest \in InitReaders, pause \in InitReaders :
          /\ attest # pause
          /\ waiting' = {attest, pause}
          /\ read' = [r \in Readers |->
                CASE r = attest -> Reading("attest", contracts'["dsm"])
                  [] r = pause -> Reading("pause", contracts'["dsm"])
                  [] OTHER -> [read[r] EXCEPT !.current = FALSE]]
    BY <1>5 DEF InitDSM
  <2>2. attest \in Readers /\ pause \in Readers
    BY DEF Readers
  <2>3. /\ read'[attest] = Reading("attest", contracts'["dsm"])
        /\ read'[pause] = Reading("pause", contracts'["dsm"])
    BY <2>1, <2>2
  <2>4. /\ read'[attest].state = "reading" /\ read'[attest].current
        /\ read'[attest].kind = "attest"
        /\ read'[pause].state = "reading" /\ read'[pause].current
        /\ read'[pause].kind = "pause"
    BY <2>3 DEF Reading
  <2>5. /\ phase = "dsm" /\ phase' = "prefixes" /\ block' = block
        /\ contracts' = [contracts EXCEPT !["dsm"] = Address[block]["dsm"]]
    BY <1>5 DEF InitDSM, Order
  <2>6. /\ contracts'["lido"] = Address[block]["lido"]
        /\ contracts'["dsm"] = Address[block]["dsm"]
    BY <1>t, <2>5 DEF InitInv, TypeOK, Keys
  <2> QED
    BY <2>1, <2>4, <2>5, <2>6 DEF InitInv, Kinds
<1>6. CASE InitDeposit
  <2>1. waiting = {}
    BY <1>6, <1>t DEF InitDeposit, TypeOK
  <2> QED
    BY <1>6, <2>1 DEF InitDeposit, InitInv, Order
<1>7. CASE InitFails
  <2>1. waiting = {}
    BY <1>7, <1>t DEF InitFails, TypeOK, Keys
  <2> QED
    BY <1>7, <2>1 DEF InitFails, Fails, InitInv
<1>8. ASSUME NEW r \in Signers, NEW kind \in Kinds, GetMessagePrefix(r, kind)
      PROVE  InitInv'
  <2>1. r \notin waiting /\ UNCHANGED <<initVars, contracts, prefixes>>
    BY <1>8, <1>t DEF GetMessagePrefix, TypeOK
  <2>2. \A q \in waiting : read'[q] = read[q]
    BY <1>8, <1>r, <2>1 DEF GetMessagePrefix
  <2> QED
    BY <2>1, <2>2 DEF initVars, InitInv
<1>10. ASSUME NEW r \in Readers, ReadReturns(r) PROVE InitInv'
  <2>1. /\ read[r].state = "reading" /\ prefixes' = Assigned(r)
        /\ UNCHANGED <<started, block, contracts, deposit>>
    BY <1>10 DEF ReadReturns
  <2>2. \A q \in Readers \ {r} : read'[q] = read[q]
    BY <1>10, <1>r DEF ReadReturns
  <2>3. \A kind \in Kinds : prefixes[kind] = contracts["dsm"]
                             => prefixes'[kind] = contracts'["dsm"]
    BY <2>1, AssignedIsCurrent
  <2>4. CASE r \in waiting
    <3>1. /\ phase = "prefixes" /\ waiting' = waiting \ {r}
          /\ phase' = IF waiting' = {} THEN "deposit" ELSE "prefixes"
      BY <1>10, <1>t, <2>4 DEF ReadReturns, Awaited, Order, TypeOK
    <3>2. prefixes'[read[r].kind] = contracts'["dsm"]
      BY <2>1, <2>4, AssignedIsCurrent DEF InitInv
    <3>3. \A kind \in Kinds : \/ prefixes'[kind] = contracts'["dsm"]
                               \/ \E q \in waiting' : read'[q].kind = kind
      BY <1>r, <2>2, <2>3, <3>1, <3>2 DEF InitInv
    <3>4. \A q \in waiting' : read'[q].state = "reading" /\ read'[q].current
      BY <1>r, <2>2, <3>1 DEF InitInv
    <3> QED
      BY <2>1, <3>1, <3>3, <3>4 DEF InitInv
  <2>5. CASE r \notin waiting
    <3>1. UNCHANGED <<phase, waiting>>
      BY <1>10, <2>5 DEF ReadReturns
    <3>2. \A q \in waiting : read'[q] = read[q]
      BY <1>r, <2>2, <2>5
    <3> QED
      BY <2>1, <2>3, <3>1, <3>2 DEF InitInv
  <2> QED
    BY <2>4, <2>5
<1>11. ASSUME NEW r \in Readers, ReadThrows(r) PROVE InitInv'
  <2>1. \A q \in Readers \ {r} : read'[q] = read[q]
    BY <1>11, <1>r DEF ReadThrows
  <2>2. UNCHANGED <<started, block, contracts, deposit, prefixes>>
    BY <1>11 DEF ReadThrows
  <2>3. CASE r \in waiting
    BY <1>11, <2>2, <2>3 DEF ReadThrows, Fails, InitInv
  <2>4. CASE r \notin waiting
    <3>1. UNCHANGED <<phase, waiting>>
      BY <1>11, <2>4 DEF ReadThrows
    <3>2. \A q \in waiting : read'[q] = read[q]
      BY <1>r, <2>1, <2>4
    <3> QED
      BY <2>2, <3>1, <3>2 DEF InitInv
  <2> QED
    BY <2>3, <2>4
<1>12. ASSUME NEW r \in Readers, Sign(r) PROVE InitInv'
  <2>1. r \notin waiting /\ UNCHANGED <<initVars, contracts, prefixes>>
    BY <1>12 DEF Sign, InitInv
  <2>2. \A q \in waiting : read'[q] = read[q]
    BY <1>12, <1>r, <2>1 DEF Sign
  <2> QED
    BY <2>1, <2>2 DEF initVars, InitInv
<1>13. CASE UNCHANGED vars
  BY <1>13 DEF vars, InitInv
<1> QED
  BY <1>1, <1>2, <1>3, <1>4, <1>5, <1>6, <1>7, <1>8, <1>10, <1>11, <1>12, <1>13
  DEF Next, InitStep, ReadStep

\* The invariants say what a cycle relies on.
LEMMA InvImplies ==
    ASSUME PrefixInv, InitInv
    PROVE  PrefixIsCurrent /\ ReadyIsComplete
<1>1. ASSUME phase = "ready"
      PROVE  /\ contracts = Address[block]
             /\ prefixes = [kind \in Kinds |-> contracts["dsm"]]
             /\ deposit
  <2>1. /\ block \in Blocks /\ contracts \in [Keys -> Addressed]
        /\ prefixes \in [Kinds -> Addressed]
    BY <1>1 DEF PrefixInv, TypeOK, Addressed
  <2>2. Address[block] \in [Keys -> Addresses]
    BY <2>1, RepositoryAssumption
  <2>3. \A key \in Keys : contracts[key] = Address[block][key]
    BY <1>1 DEF InitInv, Keys
  <2>4. contracts = Address[block]
    BY <2>1, <2>2, <2>3
  <2> QED
    BY <1>1, <2>1, <2>4 DEF InitInv
<1> QED
  BY <1>1 DEF PrefixInv, ReadyIsComplete

\* The prefixes are always those of the current DSM, whenever a read of an
\* initialisation that has failed comes back.
THEOREM CurrentPrefixes == Spec => []PrefixIsCurrent
<1>1. PrefixInv /\ InitInv /\ [Next]_vars => (PrefixInv /\ InitInv)'
  BY PrefixStep, InitInvStep
<1>2. PrefixInv /\ InitInv => PrefixIsCurrent
  BY InvImplies
<1> QED
  BY <1>1, <1>2, PrefixInit, PTL DEF Spec

\* While a cycle runs, contracts and prefixes are complete and of its block.
THEOREM Completeness == Spec => []ReadyIsComplete
<1>1. PrefixInv /\ InitInv /\ [Next]_vars => (PrefixInv /\ InitInv)'
  BY PrefixStep, InitInvStep
<1>2. PrefixInv /\ InitInv => ReadyIsComplete
  BY InvImplies
<1> QED
  BY <1>1, <1>2, PrefixInit, PTL DEF Spec

\* A step that gives a task its prefix gives it the current one, or none.
LEMMA SignStep ==
    ASSUME PrefixInv, [Next]_vars, NEW r \in Signers,
           read[r].state # "returned", read'[r].state = "returned"
    PROVE  read'[r].prefix \in {None, contracts["dsm"]}
<1> USE RepositoryAssumption
<1>t. TypeOK /\ r \in Readers /\ r \notin InitReaders
  BY DEF PrefixInv, Readers
<1>r. read \in [Readers -> Reads] /\ \A q \in Readers : read[q] \in Reads
  BY <1>t DEF TypeOK
<1>1. ASSUME NEW b \in Blocks, GetBlock(b) \/ NewCycle(b) PROVE FALSE
  BY <1>1 DEF GetBlock, NewCycle
<1>2. CASE GetBlockFails
  <2>1. read'[r].state = "off"
    BY <1>2, <1>t DEF GetBlockFails, NoRead
  <2> QED
    BY <2>1
<1>3. ASSUME NEW key \in Keys, InitContract(key) PROVE FALSE
  BY <1>3 DEF InitContract
<1>4. CASE InitDSM
  <2>1. read'[r] = [read[r] EXCEPT !.current = FALSE]
    BY <1>4, <1>t DEF InitDSM
  <2> QED
    BY <2>1, <1>t, <1>r DEF Reads
<1>5. CASE SleepEnds \/ InitDeposit \/ InitFails \/ UNCHANGED vars
  BY <1>5 DEF SleepEnds, InitDeposit, InitFails, vars
<1>6. ASSUME NEW q \in Signers, NEW kind \in Kinds, GetMessagePrefix(q, kind)
      PROVE  read'[r].prefix \in {None, contracts["dsm"]}
  <2>1. q = r
    BY <1>6, <1>r, <1>t DEF GetMessagePrefix
  <2>2. CASE read' = [read EXCEPT ![r] = [NoRead EXCEPT !.state = "returned",
                                                       !.kind = kind,
                                                       !.prefix = prefixes[kind]]]
    <3>1. read'[r].prefix = prefixes[kind]
      BY <1>r, <1>t, <2>2 DEF NoRead
    <3> QED
      BY <3>1 DEF PrefixInv, PrefixIsCurrent
  <2>3. CASE read' = [read EXCEPT ![r] = Reading(kind, contracts["dsm"])]
    <3>1. read'[r].state = "reading"
      BY <1>r, <1>t, <2>3 DEF Reading
    <3> QED
      BY <3>1
  <2> QED
    BY <1>6, <2>1, <2>2, <2>3 DEF GetMessagePrefix
<1>7. ASSUME NEW q \in Readers, ReadReturns(q)
      PROVE  read'[r].prefix \in {None, contracts["dsm"]}
  <2>1. q = r
    BY <1>7, <1>r, <1>t DEF ReadReturns
  <2>2. read'[r].prefix = Result(r)
    BY <1>7, <1>t, <2>1, EndedRead
  <2>3. read[r].state = "reading"
    BY <1>7, <2>1 DEF ReadReturns
  <2> QED
    BY <1>t, <2>2, <2>3, AssignedIsCurrent
<1>8. ASSUME NEW q \in Readers, ReadThrows(q) \/ Sign(q) PROVE FALSE
  BY <1>8, <1>r, <1>t DEF ReadThrows, Sign, NoRead
<1> QED
  BY <1>1, <1>2, <1>3, <1>4, <1>5, <1>6, <1>7, <1>8 DEF Next, InitStep, ReadStep

\* A task signs with the prefix of the DSM that the guardian knows when it gets
\* it, or not at all.
THEOREM Signing == Spec => SignsWithCurrent
<1>1. PrefixInv /\ InitInv /\ [Next]_vars => (PrefixInv /\ InitInv)'
  BY PrefixStep, InitInvStep
<1>2. PrefixInv /\ [Next]_vars =>
        [\A r \in Signers :
            read[r].state # "returned" /\ read'[r].state = "returned"
              => read'[r].prefix \in {None, contracts["dsm"]}]_vars
  BY SignStep
<1> QED
  BY <1>1, <1>2, PrefixInit, PTL DEF Spec, SignsWithCurrent

------------------------------------------------------------------------------
(* Why initCachedContracts gets to its end.                                 *)

\* The reads its Promise.all waits for are on their way, and they are for the
\* DSM of this run and the prefixes of this run.
AwaitedReadsRun ==
    phase = "prefixes" =>
        /\ waiting # {}
        /\ \A r \in waiting : /\ read[r].state = "reading"
                              /\ read[r].current
                              /\ read[r].contract = contracts["dsm"]

\* Each of its steps leads to the next one, unless a call fails.
RunGoesOn == \A p \in DOMAIN Order : phase = p => phase' \in {p, Order[p]} \/ Fault

\* A step of a run is not broken off without a call that fails; that there is
\* no DSM to ask for the deposit contract, which Fault does not count as one,
\* does not happen.
LEMMA GoesOnStep ==
    ASSUME PrefixInv, InitInv, [Next]_vars
    PROVE  RunGoesOn
<1> USE RepositoryAssumption
<1>t. TypeOK
  BY DEF PrefixInv
<1>o. DOMAIN Order = {"lido", "dsm", "prefixes", "deposit", "router"}
  BY DEF Order
<1>1. CASE \E b \in Blocks : GetBlock(b) \/ NewCycle(b)
  BY <1>1, <1>o DEF GetBlock, NewCycle, RunGoesOn
<1>2. CASE GetBlockFails \/ SleepEnds
  BY <1>2, <1>o DEF GetBlockFails, SleepEnds, RunGoesOn
<1>3. CASE \E key \in Keys : InitContract(key)
  BY <1>3 DEF InitContract, RunGoesOn
<1>4. CASE InitDSM \/ InitDeposit
  BY <1>4 DEF InitDSM, InitDeposit, RunGoesOn
<1>5. CASE InitFails
  <2>1. phase = "deposit" => contracts["dsm"] # None
    <3>1. phase = "deposit" => block \in Blocks /\ contracts["dsm"] = Address[block]["dsm"]
      BY <1>t DEF InitInv, TypeOK
    <3> QED
      BY <3>1 DEF Keys
  <2> QED
    BY <1>5, <2>1 DEF Fault, RunGoesOn
<1>6. ASSUME NEW r \in Readers, ReadReturns(r) PROVE RunGoesOn
  <2>1. r \in waiting => phase = "prefixes"
    BY <1>t DEF TypeOK
  <2> QED
    BY <1>6, <2>1 DEF ReadReturns, RunGoesOn
<1>7. ASSUME NEW r \in Readers, ReadThrows(r) PROVE RunGoesOn
  <2>1. CASE ReadReturns(r)
    BY <1>6, <2>1
  <2>2. CASE ~ ReadReturns(r)
    BY <1>7, <2>2 DEF Fault, RunGoesOn
  <2> QED
    BY <2>1, <2>2
<1>8. ASSUME NEW r \in Readers, Sign(r) PROVE RunGoesOn
  BY <1>8 DEF Sign, initVars, RunGoesOn
<1>9. CASE \E r \in Signers, kind \in Kinds : GetMessagePrefix(r, kind)
  BY <1>9 DEF GetMessagePrefix, initVars, RunGoesOn
<1>10. CASE UNCHANGED vars
  BY <1>10 DEF vars, RunGoesOn
<1> QED
  BY <1>1, <1>2, <1>3, <1>4, <1>5, <1>6, <1>7, <1>8, <1>9, <1>10
  DEF Next, InitStep, ReadStep

\* What initCachedContracts waits for always comes or fails, and nothing but a
\* failing call keeps a run, beside any late reads of earlier runs, from its end.
THEOREM NoDeadEnd == Spec => []AwaitedReadsRun /\ [][RunGoesOn]_vars
<1>1. PrefixInv /\ InitInv /\ [Next]_vars => (PrefixInv /\ InitInv)'
  BY PrefixStep, InitInvStep
<1>2. PrefixInv /\ InitInv => AwaitedReadsRun
  <2> SUFFICES ASSUME PrefixInv, InitInv PROVE AwaitedReadsRun
    OBVIOUS
  <2>1. waiting \subseteq Readers /\ (phase = "prefixes" => waiting # {})
    BY DEF PrefixInv, TypeOK, Readers
  <2> QED
    BY <2>1 DEF PrefixInv, InitInv, AwaitedReadsRun
<1>3. PrefixInv /\ InitInv /\ [Next]_vars => [RunGoesOn]_vars
  BY GoesOnStep
<1> QED
  BY <1>1, <1>2, <1>3, PrefixInit, PTL DEF Spec
=============================================================================
