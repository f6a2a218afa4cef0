------------------------- MODULE PauseDepositsProofs -------------------------
(* Theorems about PauseDeposits.                                            *)
EXTENDS PauseDeposits, TLAPS

\* The types of the transactions: every state but "none" has its module.
TxOK(txs) ==
    /\ txs \in [Txs -> Transactions]
    /\ \A t \in Txs : txs[t].state = "none" <=> txs[t].module = None

\* Forgetting a transaction, adding one to the pool and mining one keep the types.
LEMMA TxUpdates ==
    ASSUME TxOK(tx), NEW t \in Txs
    PROVE  /\ TxOK([tx EXCEPT ![t] = NoTx])
           /\ \A m \in Modules : TxOK([tx EXCEPT ![t] = Pending(m)])
           /\ \A state \in {"mined", "reverted"} :
                tx[t].state # "none" => TxOK([tx EXCEPT ![t] = [@ EXCEPT !.state = state]])
<1> USE PauseAssumption
<1>1. tx[t] \in Transactions
  BY DEF TxOK
<1>2. NoTx \in Transactions /\ NoTx.state = "none" /\ NoTx.module = None
  BY DEF NoTx, Transactions
<1>3. \A m \in Modules : /\ Pending(m) \in Transactions /\ Pending(m).state = "pending"
                         /\ Pending(m).module = m /\ m # None
  BY DEF Pending, Transactions
<1>4. ASSUME NEW state \in {"mined", "reverted"}
      PROVE  /\ [tx[t] EXCEPT !.state = state] \in Transactions
             /\ [tx[t] EXCEPT !.state = state].state = state
             /\ [tx[t] EXCEPT !.state = state].module = tx[t].module
  BY <1>1 DEF Transactions
<1>5. TxOK([tx EXCEPT ![t] = NoTx])
  BY <1>2 DEF TxOK
<1>6. ASSUME NEW m \in Modules PROVE TxOK([tx EXCEPT ![t] = Pending(m)])
  BY <1>3 DEF TxOK
<1>7. ASSUME NEW state \in {"mined", "reverted"}, tx[t].state # "none"
      PROVE  TxOK([tx EXCEPT ![t] = [@ EXCEPT !.state = state]])
  BY <1>4, <1>7 DEF TxOK
<1> QED
  BY <1>5, <1>6, <1>7

\* Nothing is there at first.
LEMMA TypeInit == Init => TypeOK
  BY PauseAssumption DEF Init, TypeOK, NoCall, NoTx, Calls, Transactions

\* Every step keeps the types and the call's hold on its transaction.
LEMMA TypeStep == TypeOK /\ [Next]_vars => TypeOK'
<1> SUFFICES ASSUME TypeOK, [Next]_vars PROVE TypeOK'
  OBVIOUS
<1> USE PauseAssumption
<1>t. TxOK(tx)
  BY DEF TypeOK, TxOK
<1>n. NoCall \in Calls /\ NoCall.at = "off" /\ NoCall.module = None /\ NoCall.tx = None
  BY DEF NoCall, Calls
<1>1. ASSUME NEW m \in Modules, CheckKeysIntersections(m) \/ TaskFails(m) PROVE TypeOK'
  BY <1>1 DEF CheckKeysIntersections, TaskFails, TypeOK
<1>2. ASSUME NEW m \in Modules, HandleKeysIntersections(m) PROVE TypeOK'
  <2>1. task' \in [Modules -> {"idle", "sign"}]
    BY <1>2 DEF HandleKeysIntersections, TypeOK
  <2>2. CASE call.at = "off"
    <3>1. /\ call' \in Calls /\ call'.at = "send" /\ call'.module = m /\ call'.tx = None
      BY <1>2, <2>2 DEF HandleKeysIntersections, OneAtTime, Calls
    <3>2. call.tx = None
      BY <2>2 DEF TypeOK
    <3>3. \A t \in Txs : tx[t].state \notin {"mined", "reverted"}
      BY <3>2 DEF TypeOK
    <3> QED
      BY <1>2, <2>1, <3>1, <3>3 DEF HandleKeysIntersections, TypeOK
  <2>3. CASE call.at # "off"
    BY <1>2, <2>1, <2>3 DEF HandleKeysIntersections, OneAtTime, TypeOK
  <2> QED
    BY <2>2, <2>3
<1>3. ASSUME NEW t \in Txs, SendTransaction(t) PROVE TypeOK'
  <2>1. call \in Calls /\ call.at = "send" /\ call.module \in Modules /\ call.tx = None
    BY <1>3 DEF SendTransaction, TypeOK, Calls
  <2>2. /\ call' \in Calls /\ call'.at = "wait" /\ call'.module = call.module
        /\ call'.tx = t
    BY <1>3, <2>1 DEF SendTransaction, Calls
  <2>3. TxOK(tx')
    BY <1>3, <1>t, <2>1, TxUpdates DEF SendTransaction
  <2>4. tx'[t].module = call.module
    BY <1>3, <1>t DEF SendTransaction, TxOK, Pending
  <2>5. \A q \in Txs : tx'[q].state \notin {"mined", "reverted"}
    BY <1>3, <1>t, <2>1 DEF SendTransaction, TxOK, Pending, TypeOK
  <2> QED
    BY <1>3, <2>1, <2>2, <2>3, <2>4, <2>5 DEF SendTransaction, TxOK, TypeOK
<1>4. CASE SendFails
  <2>1. call.module \in Modules /\ call.tx = None /\ call' = NoCall
    BY <1>4 DEF SendFails, Leaves, TypeOK, Calls
  <2>2. TxOK(tx')
    BY <1>4, <1>t, <2>1, TxUpdates DEF SendFails
  <2>3. \A q \in Txs : tx'[q].state \notin {"mined", "reverted"}
    BY <1>4, <1>t, <2>1 DEF SendFails, TxOK, Pending, TypeOK
  <2> QED
    BY <1>4, <1>n, <2>1, <2>2, <2>3 DEF SendFails, TxOK, TypeOK
<1>5. CASE WaitEnds
  <2>1. call.tx \in Txs /\ call' = NoCall
    BY <1>5 DEF WaitEnds, Leaves, TypeOK, Calls
  <2>2. TxOK(tx')
    BY <1>5, <1>t, <2>1, TxUpdates DEF WaitEnds
  <2>3. \A q \in Txs : tx'[q].state \notin {"mined", "reverted"}
    BY <1>5, <1>t, <2>1 DEF WaitEnds, TxOK, NoTx, TypeOK
  <2> QED
    BY <1>5, <1>n, <2>1, <2>2, <2>3 DEF WaitEnds, TxOK, TypeOK
<1>6. ASSUME NEW t \in Txs, Mine(t) PROVE TypeOK'
  <2>1. tx[t].state = "pending" /\ tx[t].module \in Modules
    BY <1>6 DEF Mine, TypeOK, Transactions
  <2>2. PICK state \in {"mined", "reverted"} :
          /\ tx' = [tx EXCEPT ![t] = IF call.tx = t THEN [@ EXCEPT !.state = state]
                                                    ELSE NoTx]
          /\ paused' = IF state = "mined" THEN paused \cup {tx[t].module} ELSE paused
    BY <1>6 DEF Mine
  <2>3. paused' \subseteq Modules /\ paused \subseteq paused'
    BY <2>1, <2>2 DEF TypeOK
  <2>4. CASE call.tx = t
    <3>1. tx' = [tx EXCEPT ![t] = [@ EXCEPT !.state = state]]
      BY <2>2, <2>4
    <3>2. TxOK(tx')
      BY <1>t, <2>1, <3>1, TxUpdates
    <3>3. tx'[t].module = tx[t].module /\ \A q \in Txs \ {t} : tx'[q] = tx[q]
      BY <1>t, <3>1 DEF TxOK, Transactions
    <3> QED
      BY <1>6, <2>3, <2>4, <3>2, <3>3 DEF Mine, TxOK, TypeOK
  <2>5. CASE call.tx # t
    <3>1. tx' = [tx EXCEPT ![t] = NoTx]
      BY <2>2, <2>5
    <3>2. TxOK(tx')
      BY <1>t, <3>1, TxUpdates
    <3>3. tx'[t].state = "none" /\ \A q \in Txs \ {t} : tx'[q] = tx[q]
      BY <1>t, <3>1 DEF TxOK, NoTx
    <3>4. call.at = "wait" => call.tx \in Txs \ {t}
      BY <2>5 DEF TypeOK, Calls
    <3> QED
      BY <1>6, <2>3, <2>5, <3>2, <3>3, <3>4 DEF Mine, TxOK, TypeOK
  <2> QED
    BY <2>4, <2>5
<1>7. CASE KeysApiMoves
  BY <1>7 DEF KeysApiMoves, TypeOK
<1>8. CASE Crash
  <2>1. TxOK(tx')
    <3>1. NoTx \in Transactions
      BY DEF NoTx, Transactions
    <3>2. tx' \in [Txs -> Transactions]
      BY <1>8, <1>t, <3>1 DEF Crash, TxOK
    <3> QED
      BY <1>8, <1>t, <3>2 DEF Crash, TxOK, NoTx
  <2>2. \A q \in Txs : tx'[q].state \notin {"mined", "reverted"}
    BY <1>8 DEF Crash, NoTx
  <2> QED
    BY <1>8, <1>n, <2>1, <2>2 DEF Crash, TxOK, TypeOK
<1>9. CASE UNCHANGED vars
  BY <1>9 DEF vars, TypeOK
<1> QED
  BY <1>1, <1>2, <1>3, <1>4, <1>5, <1>6, <1>7, <1>8, <1>9 DEF Next, TaskStep, CallStep

\* Every variable keeps its type; a call waits for a transaction of its own
\* module, and no result is there that no call waits for.
THEOREM TypeCorrect == Spec => []TypeOK
  BY TypeInit, TypeStep, PTL DEF Spec

-----------------------------------------------------------------------------
(* What a call leaves behind.                                               *)

\* A transaction that has been mined has paused its module.
MinedIsPaused == \A t \in Txs : tx[t].state = "mined" => tx[t].module \in paused

\* A call ends with its module paused, or because a request failed, its
\* transaction was reverted or the process ended; until then no call of another
\* module takes its place.  What is paused stays so.
CallsPause ==
    /\ call.at # "off" =>
          \/ call'.at # "off" /\ call'.module = call.module
          \/ call'.at = "off" /\ call.module \in paused'
          \/ SendFails \/ Crash
          \/ WaitEnds /\ tx[call.tx].state = "reverted"
    /\ paused \subseteq paused'

\* MinedIsPaused is inductive: mining adds the module.
LEMMA MinedStep ==
    ASSUME TypeOK, MinedIsPaused, [Next]_vars
    PROVE  MinedIsPaused'
<1>t. TxOK(tx)
  BY DEF TypeOK, TxOK
<1>1. ASSUME NEW m \in Modules, TaskStep(m) PROVE UNCHANGED <<tx, paused>>
  BY <1>1 DEF TaskStep, CheckKeysIntersections, HandleKeysIntersections, TaskFails
<1>2. ASSUME NEW t \in Txs, SendTransaction(t) PROVE MinedIsPaused'
  BY <1>2, <1>t DEF SendTransaction, MinedIsPaused, TxOK, Pending
<1>3. CASE SendFails
  BY <1>3, <1>t DEF SendFails, MinedIsPaused, TxOK, Pending
<1>4. CASE WaitEnds
  BY <1>4, <1>t DEF WaitEnds, MinedIsPaused, TxOK, NoTx
<1>5. ASSUME NEW t \in Txs, Mine(t) PROVE MinedIsPaused'
  <2>1. PICK state \in {"mined", "reverted"} :
          /\ tx' = [tx EXCEPT ![t] = IF call.tx = t THEN [@ EXCEPT !.state = state]
                                                    ELSE NoTx]
          /\ paused' = IF state = "mined" THEN paused \cup {tx[t].module} ELSE paused
    BY <1>5 DEF Mine
  <2>2. /\ [tx[t] EXCEPT !.state = state].state = state
        /\ [tx[t] EXCEPT !.state = state].module = tx[t].module
    BY <1>t DEF TxOK, Transactions
  <2>3. tx'[t].state = "mined" => state = "mined" /\ tx'[t].module = tx[t].module
    BY <1>t, <2>1, <2>2 DEF TxOK, NoTx
  <2>4. \A q \in Txs \ {t} : tx'[q] = tx[q]
    BY <1>t, <2>1 DEF TxOK
  <2> QED
    BY <2>1, <2>3, <2>4 DEF MinedIsPaused
<1>6. CASE Crash
  BY <1>6, <1>t DEF Crash, MinedIsPaused, TxOK, NoTx
<1>7. CASE KeysApiMoves \/ UNCHANGED vars
  BY <1>7 DEF KeysApiMoves, vars, MinedIsPaused
<1>8. CASE UNCHANGED <<tx, paused>>
  BY <1>8 DEF MinedIsPaused
<1> QED
  BY <1>1, <1>2, <1>3, <1>4, <1>5, <1>6, <1>7, <1>8 DEF Next, CallStep

\* Every step keeps CallsPause.
LEMMA CallsPauseStep ==
    ASSUME TypeOK, MinedIsPaused, [Next]_vars
    PROVE  [CallsPause]_vars
<1> SUFFICES ASSUME Next PROVE CallsPause
  BY DEF vars
<1>1. ASSUME NEW m \in Modules, TaskStep(m) PROVE CallsPause
  BY <1>1 DEF TaskStep, CheckKeysIntersections, HandleKeysIntersections, TaskFails, OneAtTime,
     CallsPause
<1>2. ASSUME NEW t \in Txs, SendTransaction(t) PROVE CallsPause
  <2>1. call \in Calls
    BY DEF TypeOK
  <2>2. call'.at = "wait" /\ call'.module = call.module
    BY <1>2, <2>1 DEF SendTransaction, Calls
  <2> QED
    BY <1>2, <2>2 DEF SendTransaction, CallsPause
<1>3. CASE SendFails \/ Crash
  BY <1>3 DEF SendFails, Crash, CallsPause
<1>4. CASE WaitEnds
  <2>1. call.tx \in Txs /\ tx[call.tx].module = call.module /\ call'.at = "off"
    BY <1>4, PauseAssumption DEF WaitEnds, Leaves, NoCall, TypeOK, Calls
  <2>2. tx[call.tx].state = "mined" => call.module \in paused'
    BY <1>4, <2>1 DEF WaitEnds, MinedIsPaused
  <2>3. paused' = paused /\ tx[call.tx].state \in {"mined", "reverted"}
    BY <1>4 DEF WaitEnds
  <2> QED
    BY <1>4, <2>1, <2>2, <2>3 DEF CallsPause
<1>5. ASSUME NEW t \in Txs, Mine(t) PROVE CallsPause
  BY <1>5 DEF Mine, CallsPause
<1>6. CASE KeysApiMoves
  BY <1>6 DEF KeysApiMoves, CallsPause
<1> QED
  BY <1>1, <1>2, <1>3, <1>4, <1>5, <1>6 DEF Next, CallStep

(* A call of pauseDeposits that returns without an error has paused its        *)
(* module, and no other module's call takes its place before: where it does    *)
(* not pause it, a request, the transaction or the process has failed.       *)
THEOREM CallsPauseTheirModule == Spec => [][CallsPause]_vars
<1>1. Init => MinedIsPaused
  BY DEF Init, MinedIsPaused, NoTx
<1> QED
  BY <1>1, TypeInit, TypeStep, MinedStep, CallsPauseStep, PTL DEF Spec
=============================================================================
