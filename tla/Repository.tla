----------------------------- MODULE Repository -----------------------------
(***************************************************************************)
(* Repository: the contracts of RepositoryService and the prefixes that       *)
(* messages are signed with.                                                *)
(*                                                                         *)
(* initCachedContracts runs at the start, until it succeeds, and then in     *)
(* every cycle; no two run at a time.  Each run throws the prefixes away and *)
(* reads them again, while tasks of this and of earlier cycles may ask for   *)
(* them.  A read that ends writes into the cachedDSMPrefixes object that was *)
(* there when it began (JavaScript evaluates the target of an assignment     *)
(* before the await on its right-hand side), but returns what the object of  *)
(* now holds.  Contract and object are of one moment although the code        *)
(* awaits the contract in between: every answer of the node has a turn of    *)
(* the event loop to itself, since the batch provider is not used.           *)
(*                                                                         *)
(* The prefix of a security module (DSM) never changes, so a DSM's address   *)
(* stands for its prefixes.                                                 *)
(***************************************************************************)
EXTENDS Naturals, FiniteSets

CONSTANTS
    Blocks,         \* the blocks that contracts are asked for at
    Address,        \* Address[b][key]: what the locator answers at b
    Addresses,
    InitReaders,    \* bound: unfinished reads of initCachedContracts
    Signers,        \* bound: tasks that want a prefix at any moment
    Faults,         \* what may happen: a subset of FaultKinds
    None            \* undefined

\* rpc: a call to the execution node fails
FaultKinds == {"rpc"}

Keys == {"lido", "dsm", "router"}
Kinds == {"attest", "pause"}
Readers == InitReaders \cup Signers

ASSUME RepositoryAssumption ==
    /\ Address \in [Blocks -> [Keys -> Addresses]]
    /\ InitReaders \cap Signers = {}
    /\ Faults \subseteq FaultKinds
    /\ None \notin Addresses \cup Blocks

VARIABLES
    phase,      \* what initCachedContracts, or its caller, awaits
    started,    \* initOrWaitCachedContracts has returned
    block,      \* blockTag
    contracts,  \* tempContractsCache
    deposit,    \* permanentContractsCache holds the deposit contract
    prefixes,   \* cachedDSMPrefixes
    read,       \* read[r]: a call of getAttest- or getPauseMessagePrefix
    waiting     \* the calls that the Promise.all of initCachedDSMContract awaits

vars == <<phase, started, block, contracts, deposit, prefixes, read, waiting>>

initVars == <<phase, started, block, deposit, waiting>>

\* block: getBlock; lido, dsm, deposit, router: the address of a contract;
\* prefixes: the Promise.all; sleep: the pause of initOrWaitCachedContracts;
\* ready: a cycle runs; idle: a cycle has failed
Phases == {"block", "lido", "dsm", "prefixes", "deposit", "router", "ready",
           "sleep", "idle"}

\* current: the object it will write to is that of the moment; returned: with
\* `prefix`
Reads == [state : {"off", "reading", "returned"}, kind : Kinds,
          contract : Addresses \cup {None}, current : BOOLEAN,
          prefix : Addresses \cup {None}]

NoRead == [state |-> "off", kind |-> "attest", contract |-> None,
           current |-> FALSE, prefix |-> None]

\* All variables have their type, and initCachedContracts waits for its reads
\* exactly in its phase.
TypeOK ==
    /\ phase \in Phases
    /\ started \in BOOLEAN
    /\ block \in Blocks \cup {None}
    /\ phase \in {"block", "sleep", "idle"} \/ block # None
    /\ contracts \in [Keys -> Addresses \cup {None}]
    /\ deposit \in BOOLEAN
    /\ prefixes \in [Kinds -> Addresses \cup {None}]
    /\ read \in [Readers -> Reads]
    /\ waiting \subseteq InitReaders
    /\ phase = "prefixes" <=> waiting # {}

Init ==
    /\ phase = "block"
    /\ started = FALSE
    /\ block = None
    /\ contracts = [key \in Keys |-> None]
    /\ deposit = FALSE
    /\ prefixes = [kind \in Kinds |-> None]
    /\ read = [r \in Readers |-> NoRead]
    /\ waiting = {}

-----------------------------------------------------------------------------
(* initOrWaitCachedContracts.                                               *)

GetBlock(b) ==
    /\ phase = "block"
    /\ phase' = "lido"
    /\ block' = b
    /\ UNCHANGED <<started, contracts, deposit, prefixes, read, waiting>>

\* getBlock is outside the try: onModuleInit ends the process, which is started
\* again.
GetBlockFails ==
    /\ phase = "block"
    /\ "rpc" \in Faults
    /\ phase' = "block"
    /\ block' = None
    /\ contracts' = [key \in Keys |-> None]
    /\ deposit' = FALSE
    /\ prefixes' = [kind \in Kinds |-> None]
    /\ read' = [r \in Readers |-> NoRead]
    /\ UNCHANGED <<started, waiting>>

SleepEnds ==
    /\ phase = "sleep"
    /\ phase' = "block"
    /\ UNCHANGED <<started, block, contracts, deposit, prefixes, read, waiting>>

\* A cycle at a block of the Keys API begins, after one that ended or failed.
NewCycle(b) ==
    /\ started
    /\ phase \in {"ready", "idle"}
    /\ phase' = "lido"
    /\ block' = b
    /\ UNCHANGED <<started, contracts, deposit, prefixes, read, waiting>>

-----------------------------------------------------------------------------
(* initCachedContracts.                                                     *)

\* Mutant: the deposit contract is asked of a DSM that is not there yet.
DepositFirst ==
    [lido |-> "deposit", deposit |-> "dsm", dsm |-> "prefixes",
     prefixes |-> "router", router |-> "ready"]

\* The order of the steps.
Order ==
    [lido |-> "dsm", dsm |-> "prefixes", prefixes |-> "deposit",
     deposit |-> "router", router |-> "ready"]

Ends == started' = (started \/ phase' = "ready")

Fails == phase' = IF started THEN "idle" ELSE "sleep"

\* The addresses of Lido and of the staking router.
InitContract(key) ==
    /\ phase = key
    /\ key \in {"lido", "router"}
    /\ contracts' = [contracts EXCEPT ![key] = Address[block][key]]
    /\ phase' = Order[key]
    /\ Ends
    /\ UNCHANGED <<block, deposit, prefixes, read, waiting>>

\* A call that finds no prefix: it remembers contract and object.
Reading(kind, contract) ==
    [state |-> "reading", kind |-> kind, contract |-> contract,
     current |-> TRUE, prefix |-> None]

\* Mutant: the prefixes are not thrown away.
KeptPrefixes == prefixes' = prefixes

Prune == prefixes' = [kind \in Kinds |-> None]

\* The DSM: in one step the contract changes, the prefixes go, and the reads
\* for the new ones start.
InitDSM ==
    /\ phase = "dsm"
    /\ contracts' = [contracts EXCEPT !["dsm"] = Address[block]["dsm"]]
    /\ Prune
    /\ \E attest, pause \in {r \in InitReaders : read[r].state = "off"} :
          /\ attest # pause
          /\ waiting' = {attest, pause}
          /\ read' = [r \in Readers |->
                CASE r = attest -> Reading("attest", contracts'["dsm"])
                  [] r = pause -> Reading("pause", contracts'["dsm"])
                  [] OTHER -> [read[r] EXCEPT !.current = FALSE]]
    /\ phase' = Order["dsm"]
    /\ UNCHANGED <<started, block, deposit>>

\* The deposit contract is asked for once in the life of a process.
InitDeposit ==
    /\ phase = "deposit"
    /\ deposit \/ contracts["dsm"] # None
    /\ deposit' = TRUE
    /\ phase' = Order["deposit"]
    /\ UNCHANGED <<started, block, contracts, prefixes, read, waiting>>

\* A call fails, or there is no DSM to ask for the deposit contract.
InitFails ==
    /\ \/ phase \in Keys /\ "rpc" \in Faults
       \/ phase = "deposit" /\ ~ deposit /\ (contracts["dsm"] = None \/ "rpc" \in Faults)
    /\ Fails
    /\ UNCHANGED <<started, block, contracts, deposit, prefixes, read, waiting>>

-----------------------------------------------------------------------------
(* getAttestMessagePrefix, getPauseMessagePrefix.                           *)

\* A task that signs asks for its prefix.
GetMessagePrefix(r, kind) ==
    /\ r \in Signers
    /\ started
    /\ read[r].state = "off"
    /\ \/ /\ prefixes[kind] # None
          /\ read' = [read EXCEPT ![r] = [NoRead EXCEPT !.state = "returned",
                                                        !.kind = kind,
                                                        !.prefix = prefixes[kind]]]
       \/ /\ prefixes[kind] = None
          /\ read' = [read EXCEPT ![r] = Reading(kind, contracts["dsm"])]
    /\ UNCHANGED <<initVars, contracts, prefixes>>

\* Mutant: the object is looked up when the answer has come.
AssignedLate(r) == [prefixes EXCEPT ![read[r].kind] = read[r].contract]

\* The prefixes after the assignment of a read that ends.
Assigned(r) ==
    IF read[r].current THEN [prefixes EXCEPT ![read[r].kind] = read[r].contract]
                       ELSE prefixes

\* Mutant: the call returns what it has read.
ReadValue(r) == read[r].contract

Result(r) == Assigned(r)[read[r].kind]

\* Mutant: initCachedDSMContract goes on with the first answer.
FirstAnswer(r) == {}

Awaited(r) == waiting \ {r}

\* The answer arrives; the last one of the two lets initCachedContracts go on.
ReadReturns(r) ==
    /\ read[r].state = "reading"
    /\ prefixes' = Assigned(r)
    /\ IF r \in InitReaders
         THEN read' = [read EXCEPT ![r] = NoRead]
         ELSE read' = [read EXCEPT ![r] = [NoRead EXCEPT !.state = "returned",
                                                         !.kind = read[r].kind,
                                                         !.prefix = Result(r)]]
    /\ IF r \in waiting
         THEN /\ waiting' = Awaited(r)
              /\ phase' = IF waiting' = {} THEN Order["prefixes"] ELSE phase
         ELSE UNCHANGED <<phase, waiting>>
    /\ UNCHANGED <<started, block, contracts, deposit>>

\* Mutant: the one that is still running is waited for as well.
ReadThrowsAndOtherIsAwaited(r) ==
    /\ "rpc" \in Faults
    /\ read[r].state = "reading"
    /\ read' = [read EXCEPT ![r] = NoRead]
    /\ IF r \in waiting
         THEN waiting' = Awaited(r) /\ Fails
         ELSE UNCHANGED <<phase, waiting>>
    /\ UNCHANGED <<started, block, contracts, deposit, prefixes>>

\* The read fails; initCachedContracts fails with the first of the two.
ReadThrows(r) ==
    /\ "rpc" \in Faults
    /\ read[r].state = "reading"
    /\ read' = [read EXCEPT ![r] = NoRead]
    /\ IF r \in waiting
         THEN waiting' = {} /\ Fails
         ELSE UNCHANGED <<phase, waiting>>
    /\ UNCHANGED <<started, block, contracts, deposit, prefixes>>

\* The task signs with its prefix, or throws if it has none.
Sign(r) ==
    /\ read[r].state = "returned"
    /\ read' = [read EXCEPT ![r] = NoRead]
    /\ UNCHANGED <<initVars, contracts, prefixes>>

-----------------------------------------------------------------------------
InitStep ==
    \/ \E b \in Blocks : GetBlock(b) \/ NewCycle(b)
    \/ GetBlockFails
    \/ SleepEnds
    \/ \E key \in Keys : InitContract(key)
    \/ InitDSM
    \/ InitDeposit
    \/ InitFails

ReadStep(r) == ReadReturns(r) \/ ReadThrows(r) \/ Sign(r)

Next ==
    \/ InitStep
    \/ \E r \in Readers : ReadStep(r)
    \/ \E r \in Signers, kind \in Kinds : GetMessagePrefix(r, kind)

Spec == Init /\ [][Next]_vars

\* Requests have a timeout, the pause ends, cron starts the next cycle.
FairSpec == Spec /\ WF_vars(InitStep) /\ \A r \in Readers : WF_vars(ReadStep(r))

-----------------------------------------------------------------------------
(* What must hold.                                                          *)

\* repository.service.ts:29: "store prefixes on the current state of the
\* contracts. if the contracts are updated we will change these addresses too".
PrefixIsCurrent ==
    \A kind \in Kinds : prefixes[kind] \in {None, contracts["dsm"]}

\* While a cycle runs, contracts and prefixes are those of its block, whatever
\* runs that failed and their late reads have left behind.
ReadyIsComplete ==
    phase = "ready" =>
        /\ contracts = Address[block]
        /\ prefixes = [kind \in Kinds |-> contracts["dsm"]]
        /\ deposit

\* A message is signed with the prefix of the DSM that the guardian knows at
\* that moment, or not at all: the answer for an older DSM is not used.
SignsWithCurrent ==
    [][\A r \in Signers :
          read[r].state # "returned" /\ read'[r].state = "returned"
             => read'[r].prefix \in {None, contracts["dsm"]}]_vars

\* A step that only a failing call explains.
Fault ==
    \/ GetBlockFails
    \/ InitFails /\ (phase = "deposit" => contracts["dsm"] # None)
    \/ \E r \in Readers : ReadThrows(r) /\ ~ ReadReturns(r)

\* When calls have stopped failing the guardian gets to work, and does again
\* and again.
EventuallyReady == <>[][~ Fault]_vars => []<>(phase = "ready")
=============================================================================
