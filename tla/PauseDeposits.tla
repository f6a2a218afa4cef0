---------------------------- MODULE PauseDeposits ----------------------------
(***************************************************************************)
(* PauseDeposits: how attacked modules get paused.  In every cycle the task  *)
(* of an attacked module that is not paused at the cycle's block calls        *)
(* SecurityService.pauseDeposits and does not wait for it.  The call sends a  *)
(* transaction and waits for its confirmation; @OneAtTime drops every call    *)
(* that comes meanwhile, for whatever module.                               *)
(*                                                                         *)
(* The attacks are there from the beginning and stay.  Several tasks of a    *)
(* module at a time (orphans) do what one does that comes again.             *)
(***************************************************************************)
EXTENDS Naturals

CONSTANTS
    Modules,        \* the attacked modules
    Txs,            \* bound: transactions that are not forgotten
    Faults,         \* what may happen: a subset of FaultKinds
    None            \* no module, no transaction

\* rpc:    a call to the node fails; its request may have been served
\* revert: a transaction is mined without effect
\* crash:  the process ends and is started again
FaultKinds == {"rpc", "revert", "crash"}

ASSUME PauseAssumption ==
    /\ Faults \subseteq FaultKinds
    /\ None \notin Modules \cup Txs

VARIABLES
    paused,     \* the modules that are paused at the newest block
    seen,       \* those that are at the block of the Keys API
    task,       \* task[m]: the task of module m in the running cycle
    call,       \* the call of pauseDeposits that runs
    tx          \* tx[t]: a transaction

vars == <<paused, seen, task, call, tx>>

\* off: isExecuting is false; send: contract.pauseDeposits; wait: tx.wait
Calls == [at : {"off", "send", "wait"}, module : Modules \cup {None},
          tx : Txs \cup {None}]

NoCall == [at |-> "off", module |-> None, tx |-> None]

Transactions == [state : {"none", "pending", "mined", "reverted"},
                 module : Modules \cup {None}]

NoTx == [state |-> "none", module |-> None]

\* All variables have their type, and a call waits for a transaction of its own
\* module that is there.
TypeOK ==
    /\ paused \subseteq Modules
    /\ seen \subseteq paused
    /\ task \in [Modules -> {"idle", "sign"}]
    /\ call \in Calls
    /\ tx \in [Txs -> Transactions]
    /\ call.at = "off" <=> call.module = None
    /\ call.at = "wait" <=> call.tx # None
    /\ \A t \in Txs : tx[t].state = "none" <=> tx[t].module = None
    /\ call.at = "wait" => tx[call.tx].module = call.module
    /\ \A t \in Txs : tx[t].state \in {"mined", "reverted"} => call.tx = t

Init ==
    /\ paused = {}
    /\ seen = {}
    /\ task = [m \in Modules |-> "idle"]
    /\ call = NoCall
    /\ tx = [t \in Txs |-> NoTx]

-----------------------------------------------------------------------------
(* Cycles.                                                                  *)

\* checkKeysIntersections: the module is not paused at the cycle's block.
CheckKeysIntersections(m) ==
    /\ task[m] = "idle"
    /\ m \notin seen
    /\ task' = [task EXCEPT ![m] = "sign"]
    /\ UNCHANGED <<paused, seen, call, tx>>

\* Mutant: a call gets in while another one runs.
LetsEverybodyIn(m) == call' = [at |-> "send", module |-> m, tx |-> None]

\* @OneAtTime: the call gets in, or is dropped.
OneAtTime(m) ==
    IF call.at = "off" THEN call' = [at |-> "send", module |-> m, tx |-> None]
                       ELSE UNCHANGED call

\* The message is signed: pauseDeposits is called and the task goes on.
HandleKeysIntersections(m) ==
    /\ task[m] = "sign"
    /\ task' = [task EXCEPT ![m] = "idle"]
    /\ OneAtTime(m)
    /\ UNCHANGED <<paused, seen, tx>>

\* The read or the signing before the call fails.
TaskFails(m) ==
    /\ "rpc" \in Faults
    /\ task[m] = "sign"
    /\ task' = [task EXCEPT ![m] = "idle"]
    /\ UNCHANGED <<paused, seen, call, tx>>

-----------------------------------------------------------------------------
(* The call that runs.                                                      *)

Pending(m) == [state |-> "pending", module |-> m]

\* The transaction is in the pool and the call waits for it.
SendTransaction(t) ==
    /\ call.at = "send"
    /\ tx[t].state = "none"
    /\ tx' = [tx EXCEPT ![t] = Pending(call.module)]
    /\ call' = [call EXCEPT !.at = "wait", !.tx = t]
    /\ UNCHANGED <<paused, seen, task>>

\* Mutant: the flag is reset when the call has succeeded.
LeavesOnSuccess(succeeds) == IF succeeds THEN call' = NoCall ELSE UNCHANGED call

\* The `finally` of @OneAtTime.
Leaves(succeeds) == call' = NoCall

\* Sending fails; the transaction may be in the pool all the same.
SendFails ==
    /\ "rpc" \in Faults
    /\ call.at = "send"
    /\ \/ UNCHANGED tx
       \/ \E t \in Txs : tx[t].state = "none" /\ tx' = [tx EXCEPT ![t] = Pending(call.module)]
    /\ Leaves(FALSE)
    /\ UNCHANGED <<paused, seen, task>>

\* The receipt of the transaction arrives, or wait throws because it failed.
WaitEnds ==
    /\ call.at = "wait"
    /\ tx[call.tx].state \in {"mined", "reverted"}
    /\ tx' = [tx EXCEPT ![call.tx] = NoTx]
    /\ Leaves(tx[call.tx].state = "mined")
    /\ UNCHANGED <<paused, seen, task>>

-----------------------------------------------------------------------------
(* The chain, the Keys API, the process.                                    *)

\* A transaction is mined.  Pausing a paused module does nothing.
Mine(t) ==
    /\ tx[t].state = "pending"
    /\ \E state \in {"mined"} \cup {s \in {"reverted"} : "revert" \in Faults} :
          /\ tx' = [tx EXCEPT ![t] = IF call.tx = t THEN [@ EXCEPT !.state = state]
                                                    ELSE NoTx]
          /\ paused' = IF state = "mined" THEN paused \cup {tx[t].module} ELSE paused
    /\ UNCHANGED <<seen, task, call>>

KeysApiMoves ==
    /\ seen' = paused
    /\ UNCHANGED <<paused, task, call, tx>>

\* The transactions stay, nobody waits for them.
Crash ==
    /\ "crash" \in Faults
    /\ task' = [m \in Modules |-> "idle"]
    /\ call' = NoCall
    /\ tx' = [t \in Txs |-> IF tx[t].state = "pending" THEN tx[t] ELSE NoTx]
    /\ UNCHANGED <<paused, seen>>

-----------------------------------------------------------------------------
CallStep == (\E t \in Txs : SendTransaction(t)) \/ SendFails \/ WaitEnds

TaskStep(m) == CheckKeysIntersections(m) \/ HandleKeysIntersections(m) \/ TaskFails(m)

Next ==
    \/ \E m \in Modules : TaskStep(m)
    \/ CallStep
    \/ \E t \in Txs : Mine(t)
    \/ KeysApiMoves
    \/ Crash

Spec == Init /\ [][Next]_vars

\* Cycles go on, requests end, the Keys API follows the chain, and every
\* transaction is mined: where one is not, its call waits for ever and no other
\* module is paused by this guardian.
FairSpec ==
    /\ Spec
    /\ \A m \in Modules : WF_vars(TaskStep(m))
    /\ WF_vars(CallStep)
    /\ \A t \in Txs : WF_vars(Mine(t))
    /\ WF_vars(KeysApiMoves)

-----------------------------------------------------------------------------
(* What must hold.                                                          *)

\* A step that no sound node explains.
Fault ==
    \/ \E m \in Modules : TaskFails(m) /\ ~ HandleKeysIntersections(m)
    \/ SendFails
    \/ \E t \in Txs : Mine(t) /\ paused' = paused /\ tx[t].module \notin paused
    \/ Crash

\* When faults have ceased every attacked module gets paused, also those whose
\* calls were dropped while another module's call was running, and whatever
\* the calls that failed have left behind.
EventuallyPaused == <>[][~ Fault]_vars => <>(paused = Modules)
=============================================================================
