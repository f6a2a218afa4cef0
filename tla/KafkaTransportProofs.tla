------------------------- MODULE KafkaTransportProofs -------------------------
(* For any number of calls, subscribers and copies, and with every fault,     *)
(* KafkaTransport implements Publish and has one consumer at most.          *)
EXTENDS KafkaTransport, TLAPS

-----------------------------------------------------------------------------
(* Types.                                                                   *)

\* The producer and its flag, whose events set both.
FlagIsTrue ==
    producerConnected \in BOOLEAN /\ (producerConnected <=> producer # "off")

\* After either event the flag is what the producer is.
LEMMA Events == ProducerConnects \/ ProducerDisconnects => FlagIsTrue'
<1>1. ProducerConnects => FlagIsTrue'
  <2>1. "on" # "off"
    OBVIOUS
  <2> QED
    BY <2>1, Zenon DEF ProducerConnects, FlagIsTrue
<1>2. ProducerDisconnects => FlagIsTrue'
  BY Zenon DEF ProducerDisconnects, FlagIsTrue
<1> QED
  BY <1>1, <1>2

\* Initially every variable has its type.
LEMMA TypeInit == Init => TypeOK
<1> SUFFICES ASSUME Init PROVE TypeOK
  OBVIOUS
<1>1. FlagIsTrue
  BY ZenonT(20) DEF Init, FlagIsTrue
<1> QED
  BY <1>1, KafkaAssumption DEF Init, TypeOK, FlagIsTrue, CallStates, SubStates

\* Every step keeps the types, and the flag with the producer.
LEMMA TypeStep == TypeOK /\ [Next]_vars => TypeOK'
<1> SUFFICES ASSUME TypeOK, [Next]_vars PROVE TypeOK'
  OBVIOUS
<1> USE KafkaAssumption DEF TypeOK, CallStates, SubStates, receiving, sending
<1>1. CASE OnModuleInit
  <2>1. FlagIsTrue'
    BY <1>1, Events DEF OnModuleInit, FlagIsTrue
  <2> QED
    BY <1>1, <2>1 DEF OnModuleInit, ProducerConnects, FlagIsTrue
<1>2. CASE Disconnect
  BY <1>2 DEF Disconnect
<1>3. CASE DisconnectContinues
  <2>1. FlagIsTrue'
    BY <1>3, Events DEF DisconnectContinues, FlagIsTrue
  <2> QED
    BY <1>3, <2>1 DEF DisconnectContinues, ProducerDisconnects, FlagIsTrue
<1>4. ASSUME NEW c \in Calls, CallStep(c) PROVE TypeOK'
  <2>1. CASE SendMessage(c)
    BY <2>1 DEF SendMessage, Goes
  <2>2. CASE GetMessageTopic(c)
    BY <2>2 DEF GetMessageTopic, Publish, ProducerSend, Goes
  <2>3. CASE PublishConnects(c)
    BY <2>3 DEF PublishConnects, ProducerConnects, Goes
  <2>4. CASE SendReturns(c)
    BY <2>4 DEF SendReturns, Goes
  <2>5. CASE Forget(c)
    BY <2>5 DEF Forget, Goes
  <2> QED
    BY <1>4, <2>1, <2>2, <2>3, <2>4, <2>5 DEF CallStep
<1>5. ASSUME NEW c \in Calls, Deliver(c) PROVE TypeOK'
  BY <1>5 DEF Deliver
<1>6. ASSUME NEW c \in Calls, CallFails(c) PROVE TypeOK'
  BY <1>6 DEF CallFails, GetMessageTopicFails, PublishConnectFails, SendFails, Goes
<1>7. ASSUME NEW s \in Subscribers, Subscribe(s) PROVE TypeOK'
  BY <1>7 DEF Subscribe, Claim, Waits
<1>8. ASSUME NEW s \in Subscribers, SubscribeContinues(s) PROVE TypeOK'
  BY <1>8 DEF SubscribeContinues, Waits
<1>9. ASSUME NEW s \in Subscribers, SubscribeFails(s) PROVE TypeOK'
  BY <1>9 DEF SubscribeFails, Waits
<1>10. CASE UNCHANGED vars
  BY <1>10 DEF vars
<1> QED
  BY <1>1, <1>2, <1>3, <1>4, <1>5, <1>6, <1>7, <1>8, <1>9, <1>10 DEF Next

\* Every variable of KafkaTransport keeps its type, and producerConnected is what
\* the producer is.
THEOREM TypeCorrect == Spec => []TypeOK
<1> QED
  BY TypeInit, TypeStep, PTL DEF Spec

-----------------------------------------------------------------------------
(* One consumer.                                                            *)

\* Who sets a consumer up, or has it running, is the one stored in consumers.
ConsumerInv ==
    \A s \in Subscribers :
        s \in running \/ sub[s] \in {"connect", "subscribe", "run"} => consumer = s

\* A subscriber stores its consumer in the step that leaves "idle".
LEMMA ConsumerStep == TypeOK /\ ConsumerInv /\ [Next]_vars => ConsumerInv'
<1> SUFFICES ASSUME TypeOK, ConsumerInv, [Next]_vars PROVE ConsumerInv'
  OBVIOUS
<1> USE KafkaAssumption DEF TypeOK, ConsumerInv
<1>1. ASSUME NEW s \in Subscribers, Subscribe(s) PROVE ConsumerInv'
  BY <1>1 DEF Subscribe, Claim, Waits
<1>2. ASSUME NEW s \in Subscribers, SubscribeContinues(s) \/ SubscribeFails(s)
      PROVE  ConsumerInv'
  BY <1>2 DEF SubscribeContinues, SubscribeFails, Waits
<1>3. CASE DisconnectContinues
  BY <1>3 DEF DisconnectContinues
<1>4. CASE UNCHANGED receiving
  BY <1>4 DEF receiving
<1>5. ASSUME NEW c \in Calls, CallStep(c) \/ Deliver(c) \/ CallFails(c)
      PROVE  UNCHANGED receiving
  BY <1>5 DEF CallStep, CallFails, Deliver, SendMessage, GetMessageTopic, PublishConnects,
     SendReturns, Forget, GetMessageTopicFails, PublishConnectFails, SendFails
<1>6. CASE OnModuleInit \/ Disconnect
  BY <1>4, <1>6 DEF OnModuleInit, Disconnect
<1>7. CASE UNCHANGED vars
  BY <1>4, <1>7 DEF vars
<1> QED
  BY <1>1, <1>2, <1>3, <1>4, <1>5, <1>6, <1>7 DEF Next

\* However calls of subscribe interleave with one another, with failures and with a
\* disconnect, the topic has one consumer at most.
THEOREM Single == Spec => []OneConsumer
<1>1. Init => ConsumerInv
  BY DEF Init, ConsumerInv
<1>2. ConsumerInv => OneConsumer
  BY DEF ConsumerInv, OneConsumer
<1> QED
  BY <1>1, <1>2, TypeCorrect, ConsumerStep, PTL DEF Spec

-----------------------------------------------------------------------------
(* Refinement.                                                              *)

\* What the callers know.
Results == [c \in Calls |-> Result(call[c])]

\* A call that goes to another state changes its result, and no other's.
LEMMA GoesResult ==
    ASSUME TypeOK, NEW c \in Calls, NEW state, Goes(c, state)
    PROVE  Results' = [Results EXCEPT ![c] = Result(state)]
  BY DEF Goes, Results, TypeOK

\* Nothing has been sent at first.
LEMMA InitRefines == Init => Abstract!Init
  BY DEF Init, Abstract!Init, Result

\* The result of every state.
LEMMA Outcomes ==
    /\ Result("idle") = "idle" /\ Result("returned") = "returned"
    /\ \A state \in {"topic", "connect", "send"} : Result(state) = "running"
    /\ \A state \in {"failed", "refused", "late"} : Result(state) = "failed"
  BY DEF Result

\* Every step of a call is one of Publish, or is not seen by the caller.
LEMMA CallRefines ==
    ASSUME TypeOK, NEW c \in Calls, CallStep(c) \/ Deliver(c) \/ CallFails(c)
    PROVE  Abstract!Next \/ UNCHANGED <<Results, got>>
<1> DEFINE Becomes(result) == Results' = [Results EXCEPT ![c] = result]
<1>1. Results[c] = Result(call[c])
  BY DEF Results
<1>2. CASE SendMessage(c)
  <2>1. Becomes("running") /\ Results[c] = "idle"
    BY <1>1, <1>2, GoesResult, Outcomes DEF SendMessage
  <2> QED
    BY <1>2, <2>1 DEF SendMessage, Abstract!Next, Abstract!Start, Results
<1>3. CASE GetMessageTopic(c)
  <2>1. Results[c] = "running" /\ got' = got
    BY <1>1, <1>3, Outcomes DEF GetMessageTopic
  <2>2. PICK state \in {"connect", "send", "refused"} : Goes(c, state)
    BY <1>3 DEF GetMessageTopic, Publish, ProducerSend
  <2>3. CASE state \in {"connect", "send"}
    <3>1. Becomes("running")
      BY <2>2, <2>3, GoesResult, Outcomes
    <3> QED
      BY <2>1, <3>1 DEF Results
  <2>4. CASE state = "refused"
    <3>1. Becomes("failed")
      BY <2>2, <2>4, GoesResult, Outcomes
    <3> QED
      BY <2>1, <3>1 DEF Abstract!Next, Abstract!Fail, Results
  <2> QED
    BY <2>3, <2>4
<1>4. CASE PublishConnects(c)
  <2>1. Becomes("running") /\ Results[c] = "running"
    BY <1>1, <1>4, GoesResult, Outcomes DEF PublishConnects
  <2> QED
    BY <1>4, <2>1 DEF PublishConnects, Results
<1>5. CASE SendReturns(c)
  <2>1. Becomes("returned") /\ Results[c] = "running"
    BY <1>1, <1>5, GoesResult, Outcomes DEF SendReturns
  <2> QED
    BY <1>5, <2>1 DEF SendReturns, Abstract!Next, Abstract!Return, Results
<1>6. CASE Forget(c)
  <2>1. Becomes("idle") /\ Results[c] \in {"returned", "failed"}
    BY <1>1, <1>6, GoesResult, Outcomes DEF Forget
  <2> QED
    BY <1>6, <2>1 DEF Forget, Abstract!Next, Abstract!Forget, Results
<1>7. CASE Deliver(c)
  <2>1. Results' = Results /\ Results[c] # "idle"
    BY <1>1, <1>7, Outcomes DEF Deliver, Results
  <2> QED
    BY <1>7, <2>1 DEF Deliver, Abstract!Next, Abstract!Arrive, Results
<1>8. CASE CallFails(c)
  <2>1. PICK state \in {"failed", "late"} : Goes(c, state)
    BY <1>8 DEF CallFails, GetMessageTopicFails, PublishConnectFails, SendFails
  <2>2. call[c] \in {"topic", "connect", "send"} /\ got' = got
    BY <1>8 DEF CallFails, GetMessageTopicFails, PublishConnectFails, SendFails
  <2>3. Becomes("failed") /\ Results[c] = "running"
    BY <1>1, <2>1, <2>2, GoesResult, Outcomes
  <2> QED
    BY <2>2, <2>3 DEF Abstract!Next, Abstract!Fail, Results
<1> QED
  BY <1>2, <1>3, <1>4, <1>5, <1>6, <1>7, <1>8 DEF CallStep

\* Every step maps to a step of Publish or to a stutter.
LEMMA StepRefines ==
    TypeOK /\ [Next]_vars => [Abstract!Next]_<<Results, got>>
<1> SUFFICES ASSUME TypeOK, [Next]_vars PROVE Abstract!Next \/ UNCHANGED <<Results, got>>
  OBVIOUS
<1>1. ASSUME NEW c \in Calls, CallStep(c) \/ Deliver(c) \/ CallFails(c)
      PROVE  Abstract!Next \/ UNCHANGED <<Results, got>>
  BY <1>1, CallRefines
<1>2. CASE UNCHANGED <<call, got>>
  BY <1>2 DEF Results
<1>3. CASE OnModuleInit \/ Disconnect \/ DisconnectContinues
  BY <1>2, <1>3 DEF OnModuleInit, Disconnect, DisconnectContinues
<1>4. ASSUME NEW s \in Subscribers,
             Subscribe(s) \/ SubscribeContinues(s) \/ SubscribeFails(s)
      PROVE  UNCHANGED <<call, got>>
  BY <1>4 DEF Subscribe, SubscribeContinues, SubscribeFails, sending
<1>5. CASE UNCHANGED vars
  BY <1>2, <1>5 DEF vars, sending
<1> QED
  BY <1>1, <1>2, <1>3, <1>4, <1>5 DEF Next

\* sendMessage over Kafka, however its connects, sends and a disconnect interleave,
\* returns only when the message is on its topic.
THEOREM Refinement == Spec => ImplementsPublish
<1>1. [][Abstract!Next]_<<Results, got>> => [][Abstract!Next]_<<[c \in Calls |-> Result(call[c])], got>>
  BY DEF Results
<1> QED
  BY <1>1, TypeCorrect, InitRefines, StepRefines, PTL
  DEF Spec, ImplementsPublish, Abstract!Spec

-----------------------------------------------------------------------------
(* Who is refused.                                                          *)

\* A call is refused by the producer only while a disconnect is under way.
RefusesWhenClosing ==
    \A c \in Calls : call[c] # "refused" /\ call'[c] = "refused" => closing = "producer"

\* The flag is true of a producer that takes messages, or of one that closes.
LEMMA RefusalStep == TypeOK /\ [Next]_vars => RefusesWhenClosing
<1> SUFFICES ASSUME TypeOK, [Next]_vars, NEW c \in Calls,
                    call[c] # "refused", call'[c] = "refused"
             PROVE  closing = "producer"
  BY DEF RefusesWhenClosing
<1>t. call \in [Calls -> CallStates]
  BY DEF TypeOK
<1>1. \A d \in Calls : \A state : Goes(d, state) => d = c /\ state = "refused"
  BY <1>t DEF Goes
<1>2. ASSUME NEW d \in Calls, GetMessageTopic(d) PROVE closing = "producer"
  <2>1. producerConnected
    BY <1>1, <1>2 DEF GetMessageTopic, Publish
  <2>2. producer # "on"
    BY <1>1, <1>2, <2>1 DEF GetMessageTopic, Publish, ProducerSend
  <2>3. producer # "off"
    BY <2>1 DEF TypeOK
  <2> QED
    BY <2>2, <2>3 DEF TypeOK
<1>3. ASSUME NEW d \in Calls,
             \/ SendMessage(d) \/ PublishConnects(d) \/ SendReturns(d) \/ Forget(d)
             \/ CallFails(d)
      PROVE  FALSE
  BY <1>1, <1>3 DEF SendMessage, PublishConnects, SendReturns, Forget, CallFails,
     GetMessageTopicFails, PublishConnectFails, SendFails
<1>4. ASSUME UNCHANGED call PROVE FALSE
  BY <1>4
<1>5. CASE \E d \in Calls : Deliver(d)
  BY <1>4, <1>5 DEF Deliver
<1>6. CASE OnModuleInit \/ Disconnect \/ DisconnectContinues
  BY <1>4, <1>6 DEF OnModuleInit, Disconnect, DisconnectContinues
<1>7. CASE \E s \in Subscribers : Subscribe(s) \/ SubscribeContinues(s) \/ SubscribeFails(s)
  BY <1>4, <1>7 DEF Subscribe, SubscribeContinues, SubscribeFails, sending
<1>8. CASE UNCHANGED vars
  BY <1>4, <1>8 DEF vars, sending
<1> QED
  BY <1>2, <1>3, <1>5, <1>6, <1>7, <1>8 DEF Next, CallStep

\* A start without the broker, failed connects and disconnects that are over never
\* leave the flag in a state in which a call is refused at once: such a call finds a
\* producer to send by, or connects it itself.
THEOREM Refusals == Spec => [][RefusesWhenClosing]_vars
<1>1. TypeOK /\ [Next]_vars => [RefusesWhenClosing]_vars
  BY RefusalStep
<1> QED
  BY <1>1, TypeCorrect, PTL DEF Spec
=============================================================================
