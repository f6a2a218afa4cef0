------------------------------ MODULE NewBlocks ------------------------------
(***************************************************************************)
(* The process as a subscriber of new blocks: Provider.on with the timer that *)
(* ends a process that hears of no block, and its only subscriber, the        *)
(* balance check of WalletService.                                          *)
(*                                                                         *)
(* Provider.on registers two listeners: one that restarts the timer and       *)
(* calls the wallet's, and the wallet's own once more.  ethers calls both for *)
(* each block, each from a timeout of its own.  Only a block's height modulo *)
(* the rate of the balance check tells one from another.                    *)
(***************************************************************************)
EXTENDS Integers, Sequences

CONSTANTS
    Patience,  \* MAX_TIME_WITHOUT_NEW_BLOCKS_MS, in ticks
    Rate,      \* WALLET_BALANCE_UPDATE_BLOCK_RATE
    Burst,     \* bound: blocks the node is ahead of the last one told
    Errors,    \* a subset of {"rpc"}: requests of the balance may fail
    None       \* null
\* Provider, which instantiates this module, states what it assumes of them.

VARIABLES
    node,         \* the execution node answers: "up", or not: "down"
    ahead,        \* blocks the node has that ethers has not told of
    proc,         \* start, boot: in WalletService.onModuleInit; running; ended
    height,       \* the last block told of, modulo Rate
    due,          \* the calls of listeners that ethers has scheduled
    dieTimer,     \* ticks until the timer fires, None if it is not set
    isExecuting,  \* of @OneAtTime() updateBalance
    requests,     \* requests for the balance in flight
    gauge,        \* accountBalance: "unset", "stale", or "exact"
    silence       \* history: ticks since a block was heard of, Patience at most

vars == <<node, ahead, proc, height, due, dieTimer, isExecuting, requests, gauge,
          silence>>

nodeVars == <<node, ahead>>
eventVars == <<height, due>>
timerVars == <<dieTimer, silence>>
balanceVars == <<isExecuting, requests, gauge>>

\* timed: the listener that restarts the timer; block: its argument
Calls == [timed : BOOLEAN, block : 0 .. Rate - 1]

TypeOK ==
    /\ node \in {"up", "down"}
    /\ ahead \in 0 .. Burst
    /\ proc \in {"start", "boot", "running", "ended"}
    /\ height \in 0 .. Rate - 1
    /\ due \in Seq(Calls)
    /\ dieTimer \in 0 .. Patience \cup {None}
    /\ isExecuting \in BOOLEAN
    /\ requests \in Nat
    /\ gauge \in {"unset", "stale", "exact"}
    /\ silence \in 0 .. Patience

Init ==
    /\ node \in {"up", "down"}
    /\ ahead = 0
    /\ proc = "start"
    /\ height \in 0 .. Rate - 1
    /\ due = <<>>
    /\ dieTimer = None
    /\ isExecuting = FALSE
    /\ requests = 0
    /\ gauge = "unset"
    /\ silence = 0

-----------------------------------------------------------------------------
(* WalletService.updateBalance.                                             *)

\* Mutant: a call is let in while another one runs.
UpdateBalanceAnyway ==
    /\ isExecuting' = TRUE
    /\ requests' = requests + 1
    /\ UNCHANGED gauge

\* A call up to its await; @OneAtTime returns at once while another one runs.
UpdateBalance ==
    /\ isExecuting' = TRUE
    /\ requests' = IF isExecuting THEN requests ELSE requests + 1
    /\ UNCHANGED gauge

\* provider.on("block"): the timer is set and ethers starts to poll, telling
\* of the head first.
SubscribeToEthereumUpdates ==
    /\ dieTimer' = Patience
    /\ silence' = 0
    /\ ahead' = 1

OnModuleInit ==
    /\ proc = "start"
    /\ proc' = "boot"
    /\ UpdateBalance
    /\ UNCHANGED <<nodeVars, eventVars, timerVars>>

\* updateBalance returns to onModuleInit, which then subscribes, or to a
\* listener.
Returns ==
    /\ proc' = "running"
    /\ IF proc = "boot" THEN SubscribeToEthereumUpdates
                        ELSE UNCHANGED <<ahead, timerVars>>
    /\ UNCHANGED <<node, eventVars>>

\* Mutants: an error goes past the end of @OneAtTime, so that onModuleInit logs
\* it and does not subscribe, or the flag is not given back.
Throws ==
    /\ requests' = requests - 1
    /\ isExecuting' = FALSE
    /\ proc' = "running"
    /\ UNCHANGED <<nodeVars, eventVars, timerVars, gauge>>
StaysExecuting ==
    /\ requests' = requests - 1
    /\ UNCHANGED <<isExecuting, gauge>>
    /\ Returns

\* @OneAtTime logs an error of the call and returns.
Catches ==
    /\ requests' = requests - 1
    /\ isExecuting' = FALSE
    /\ UNCHANGED gauge
    /\ Returns

GetBalanceFails ==
    /\ proc \in {"boot", "running"}
    /\ requests > 0
    /\ node = "down" \/ "rpc" \in Errors
    /\ Catches

GetBalance ==
    /\ proc \in {"boot", "running"}
    /\ requests > 0
    /\ node = "up"
    /\ requests' = requests - 1
    /\ isExecuting' = FALSE
    /\ gauge' = "exact"
    /\ Returns

-----------------------------------------------------------------------------
(* The provider.                                                            *)

Both(block) == <<[timed |-> TRUE, block |-> block], [timed |-> FALSE, block |-> block]>>

\* ethers has polled the node: the listeners are to be called for each block
\* it has not told of.  What it has told of before has been handled.
Poll ==
    LET block == (height + 1) % Rate IN
    /\ dieTimer # None
    /\ proc = "running"
    /\ node = "up"
    /\ due = <<>>
    /\ ahead > 0
    /\ ahead' = ahead - 1
    /\ height' = block
    /\ due' = Both(block)
    /\ UNCHANGED <<node, proc, timerVars, balanceVars>>

\* Mutant: the timer is not restarted.
RunOn == UNCHANGED dieTimer

StartDieTimer == dieTimer' = Patience

\* A listener is called.
OnBlock ==
    /\ proc = "running"
    /\ due # <<>>
    /\ due' = Tail(due)
    /\ IF Head(due).timed THEN StartDieTimer /\ silence' = 0 ELSE UNCHANGED timerVars
    /\ IF Head(due).block = 0 THEN UpdateBalance ELSE UNCHANGED balanceVars
    /\ UNCHANGED <<nodeVars, proc, height>>

Exit ==
    /\ proc' = "ended"
    /\ UNCHANGED <<nodeVars, eventVars, timerVars, balanceVars>>

\* There were no new blocks for a long time.
DieTimerFires ==
    /\ proc = "running"
    /\ dieTimer = 0
    /\ Exit

\* _uncachedDetectNetwork fails, which the first request of a process needs.
DetectNetworkFails ==
    /\ proc \in {"boot", "running"}
    /\ node = "down"
    /\ Exit

-----------------------------------------------------------------------------
(* The environment.                                                         *)

\* Time passes; a timer that is due fires first, and so do scheduled calls.
Tick ==
    /\ proc = "running"
    /\ due = <<>>
    /\ dieTimer # 0
    /\ dieTimer' = IF dieTimer = None THEN None ELSE dieTimer - 1
    /\ silence' = IF silence < Patience THEN silence + 1 ELSE silence
    /\ UNCHANGED <<nodeVars, proc, eventVars, balanceVars>>

NewBlock ==
    /\ node = "up"
    /\ ahead < Burst
    /\ ahead' = ahead + 1
    /\ UNCHANGED <<node, proc, eventVars, timerVars, balanceVars>>

NodeChanges ==
    /\ node' \in {"up", "down"} \ {node}
    /\ UNCHANGED <<ahead, proc, eventVars, timerVars, balanceVars>>

\* The guardian's account spends or receives something.
AccountChanges ==
    /\ gauge = "exact"
    /\ gauge' = "stale"
    /\ UNCHANGED <<nodeVars, proc, eventVars, timerVars, isExecuting, requests>>

ProcessStep == OnModuleInit \/ GetBalance \/ Poll \/ OnBlock \/ DieTimerFires

Next ==
    \/ ProcessStep
    \/ GetBalanceFails
    \/ DetectNetworkFails
    \/ Tick
    \/ NewBlock
    \/ NodeChanges
    \/ AccountChanges

Spec == Init /\ [][Next]_vars

\* Time passes, callbacks are called, requests are answered or time out, and
\* the chain grows.  Nothing is promised of the node.
Fairness ==
    /\ WF_vars(OnModuleInit)
    /\ WF_vars(GetBalance \/ GetBalanceFails)
    /\ WF_vars(Poll)
    /\ WF_vars(OnBlock)
    /\ WF_vars(DieTimerFires)
    /\ WF_vars(Tick)
    /\ WF_vars(NewBlock)

-----------------------------------------------------------------------------
(* What must hold.                                                          *)

\* One request for the balance at most, although the listener is called twice
\* for each block, and never a flag without a request: that would end the
\* balance check for good.
OneRequest == requests = IF isExecuting THEN 1 ELSE 0

\* The die timer never ends the process of a node that answers, but after
\* Patience ticks in which no block was heard of.  (Exits of other parts, of the
\* guardian or the deposit cache, are not the provider's.)
EndsOnlyInSilence ==
    [][ proc # "ended" /\ proc' = "ended" /\ node = "up" => silence = Patience ]_vars

\* A process whose node is silent for good is ended, to be started anew,
\* whatever its first requests have come to: the timer is set although the
\* balance could not be read.
SilenceEnds == <>[](node = "down") => <>(proc = "ended")

\* When the account changes no more and the node answers, the gauge shows its
\* balance: no call that was dropped or has failed is missed for good.
BalanceFollows ==
    (/\ <>[](node = "up")
     /\ <>[][~ AccountChanges]_vars
     /\ <>[][~ (GetBalanceFails /\ ~ GetBalance)]_vars)
        => <>(proc = "ended") \/ <>[](gauge = "exact")
=============================================================================
