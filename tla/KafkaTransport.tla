---------------------------- MODULE KafkaTransport ----------------------------
(***************************************************************************)
(* KafkaTransport: the calls of MessagesService.sendMessage over the one      *)
(* producer of the process, the subscriptions to a topic, and disconnect.    *)
(*                                                                         *)
(* The producer's events set producerConnected at the moment its connect or  *)
(* disconnect is over; it takes no message from the moment its disconnect    *)
(* starts.                                                                 *)
(***************************************************************************)
EXTENDS Naturals

CONSTANTS
    Calls,        \* bound: calls of sendMessage that run at any moment
    Subscribers,  \* those who call subscribe for the topic, once each
    MaxCopies,    \* bound: how often a message reaches the topic
    Faults,       \* what may happen: a subset of FaultKinds
    None          \* no subscriber

\* rpc:    the chain id cannot be read
\* broker: the broker refuses, or its answer is lost
\* close:  somebody calls disconnect
FaultKinds == {"rpc", "broker", "close"}

ASSUME KafkaAssumption ==
    /\ MaxCopies \in Nat \ {0}
    /\ Faults \subseteq FaultKinds
    /\ None \notin Subscribers

VARIABLES
    producer,           \* kafkajs: "off", "on", or "closing"
    producerConnected,
    starting,           \* onModuleInit waits for its connect
    call,               \* call[c]: where a call of sendMessage is
    got,                \* got[c]: how often its message is on the topic
    consumer,           \* consumers[topic]: who had it made
    sub,                \* sub[s]: where a call of subscribe is
    running,            \* the subscribers whose callback gets the messages
    closing             \* what a call of disconnect waits for

sending == <<producer, producerConnected, starting, call, got>>
receiving == <<consumer, sub, running>>
vars == <<sending, receiving, closing>>

\* failed: before the message was handed to the producer; refused: by it;
\* late: when the request was on its way
CallStates == {"idle", "topic", "connect", "send", "returned", "failed", "refused", "late"}

\* connect, subscribe, run: waits for the consumer's
SubStates == {"idle", "connect", "subscribe", "run", "returned", "failed"}

\* All variables have their type, and the flag says what the producer is.
TypeOK ==
    /\ producer \in {"off", "on", "closing"}
    /\ producerConnected \in BOOLEAN
    /\ producerConnected <=> producer # "off"
    /\ starting \in BOOLEAN
    /\ call \in [Calls -> CallStates]
    /\ got \in [Calls -> 0 .. MaxCopies]
    /\ consumer \in Subscribers \cup {None}
    /\ sub \in [Subscribers -> SubStates]
    /\ running \subseteq Subscribers
    /\ closing \in {"no", "producer", "consumers"}
    /\ producer = "closing" => closing = "producer"

Init ==
    /\ producer = "off" /\ producerConnected = FALSE
    /\ starting = TRUE
    /\ call = [c \in Calls |-> "idle"]
    /\ got = [c \in Calls |-> 0]
    /\ consumer = None
    /\ sub = [s \in Subscribers |-> "idle"]
    /\ running = {}
    /\ closing = "no"

-----------------------------------------------------------------------------
(* The producer.                                                            *)

Goes(c, state) == call' = [call EXCEPT ![c] = state]

\* producer.connect() is over, with its event.
ProducerConnects == producer' = "on" /\ producerConnected' = TRUE

\* Mutant: the handler does not reset the flag.
ProducerDisconnectsSilently == producer' = "off" /\ UNCHANGED producerConnected

\* producer.disconnect() is over, with its event.
ProducerDisconnects == producer' = "off" /\ producerConnected' = FALSE

\* onModuleInit; an error is logged, and the process goes on.
OnModuleInit ==
    /\ starting
    /\ starting' = FALSE
    /\ \/ ProducerConnects
       \/ "broker" \in Faults /\ UNCHANGED <<producer, producerConnected>>
    /\ UNCHANGED <<call, got, receiving, closing>>

\* sendMessage asks for the chain id, which is part of the topic's name.
SendMessage(c) ==
    /\ ~ starting
    /\ call[c] = "idle"
    /\ Goes(c, "topic")
    /\ UNCHANGED <<producer, producerConnected, starting, got, receiving, closing>>

GetMessageTopicFails(c) ==
    /\ "rpc" \in Faults
    /\ call[c] = "topic"
    /\ Goes(c, "failed")
    /\ UNCHANGED <<producer, producerConnected, starting, got, receiving, closing>>

\* producer.send() refuses at once when the producer is not connected.
ProducerSend(c) == Goes(c, IF producer = "on" THEN "send" ELSE "refused")

\* Mutants: publish never connects; it does not wait for the broker's answer.
PublishWithoutConnect(c) == ProducerSend(c)
PublishUnawaited(c) == Goes(c, IF producerConnected THEN "returned" ELSE "connect")

Publish(c) ==
    IF producerConnected THEN ProducerSend(c) ELSE Goes(c, "connect")

\* The topic is known.
GetMessageTopic(c) ==
    /\ call[c] = "topic"
    /\ Publish(c)
    /\ UNCHANGED <<producer, producerConnected, starting, got, receiving, closing>>

PublishConnects(c) ==
    /\ call[c] = "connect"
    /\ ProducerConnects
    /\ Goes(c, "send")
    /\ UNCHANGED <<starting, got, receiving, closing>>

PublishConnectFails(c) ==
    /\ "broker" \in Faults
    /\ call[c] = "connect"
    /\ Goes(c, "failed")
    /\ UNCHANGED <<producer, producerConnected, starting, got, receiving, closing>>

\* The request reaches the broker; kafkajs repeats what it has no answer for.
Deliver(c) ==
    /\ call[c] \in {"send", "returned", "late"}
    /\ got[c] < MaxCopies
    /\ got' = [got EXCEPT ![c] = @ + 1]
    /\ UNCHANGED <<producer, producerConnected, starting, call, receiving, closing>>

\* The broker's answer: publish returns, and so does sendMessage.
SendReturns(c) ==
    /\ call[c] = "send"
    /\ got[c] > 0
    /\ Goes(c, "returned")
    /\ UNCHANGED <<producer, producerConnected, starting, got, receiving, closing>>

\* kafkajs gives up, or the producer is disconnected under the request.
SendFails(c) ==
    /\ call[c] = "send"
    /\ "broker" \in Faults \/ producer # "on"
    /\ Goes(c, "late")
    /\ UNCHANGED <<producer, producerConnected, starting, got, receiving, closing>>

\* The caller has dealt with the outcome.
Forget(c) ==
    /\ call[c] \in {"returned", "failed", "refused", "late"}
    /\ Goes(c, "idle")
    /\ got' = [got EXCEPT ![c] = 0]
    /\ UNCHANGED <<producer, producerConnected, starting, receiving, closing>>

-----------------------------------------------------------------------------
(* The consumer of the topic.                                               *)

Waits(s, state) == sub' = [sub EXCEPT ![s] = state]

\* Mutant: the consumer is not stored before the first await.
ClaimLate(s) == UNCHANGED consumer

Claim(s) == consumer' = s

\* Without a consumer of its topic a call makes one; otherwise it returns.
Subscribe(s) ==
    /\ sub[s] = "idle"
    /\ \/ consumer = None /\ Claim(s) /\ Waits(s, "connect")
       \/ consumer # None /\ Waits(s, "returned") /\ UNCHANGED consumer
    /\ UNCHANGED <<sending, running, closing>>

SubscribeContinues(s) ==
    /\ \/ /\ sub[s] = "connect" /\ Waits(s, "subscribe")
          /\ UNCHANGED running
       \/ /\ sub[s] = "subscribe" /\ Waits(s, "run")
          /\ UNCHANGED running
       \/ /\ sub[s] = "run" /\ Waits(s, "returned")
          /\ running' = running \cup {s}
    /\ UNCHANGED <<sending, consumer, closing>>

\* The consumer that failed stays in consumers.
SubscribeFails(s) ==
    /\ "broker" \in Faults
    /\ sub[s] \in {"connect", "subscribe", "run"}
    /\ Waits(s, "failed")
    /\ UNCHANGED <<sending, consumer, running, closing>>

-----------------------------------------------------------------------------
(* disconnect: the producer first, then the consumers that are in consumers,  *)
(* where they stay.                                                         *)

Disconnect ==
    /\ "close" \in Faults
    /\ ~ starting
    /\ closing = "no"
    /\ closing' = "producer"
    /\ producer' = IF producer = "on" THEN "closing" ELSE producer
    /\ UNCHANGED <<producerConnected, starting, call, got, receiving>>

DisconnectContinues ==
    /\ \/ /\ closing = "producer" /\ closing' = "consumers"
          /\ ProducerDisconnects
          /\ UNCHANGED running
       \/ /\ closing = "consumers" /\ closing' = "no"
          /\ running' = {}
          /\ UNCHANGED <<producer, producerConnected>>
    /\ UNCHANGED <<starting, call, got, consumer, sub>>

-----------------------------------------------------------------------------
CallStep(c) ==
    \/ SendMessage(c) \/ GetMessageTopic(c) \/ PublishConnects(c)
    \/ SendReturns(c) \/ Forget(c)

CallFails(c) ==
    GetMessageTopicFails(c) \/ PublishConnectFails(c) \/ SendFails(c)

Next ==
    \/ OnModuleInit \/ Disconnect \/ DisconnectContinues
    \/ \E c \in Calls : CallStep(c) \/ Deliver(c) \/ CallFails(c)
    \/ \E s \in Subscribers :
          Subscribe(s) \/ SubscribeContinues(s) \/ SubscribeFails(s)

Spec == Init /\ [][Next]_vars

\* The guardian goes on to send messages, every request is answered or given up,
\* and a disconnect under way comes to its end.
FairSpec ==
    /\ Spec
    /\ WF_vars(OnModuleInit)
    /\ WF_vars(DisconnectContinues)
    /\ \A c \in Calls : WF_vars(CallStep(c)) /\ WF_vars(Deliver(c))

-----------------------------------------------------------------------------
(* What must hold.                                                          *)

Result(state) ==
    CASE state = "idle" -> "idle"
      [] state \in {"topic", "connect", "send"} -> "running"
      [] state = "returned" -> "returned"
      [] state \in {"failed", "refused", "late"} -> "failed"

Abstract == INSTANCE Publish WITH
    result <- [c \in Calls |-> Result(call[c])],
    copies <- got

\* However connects, sends and a disconnect interleave, sendMessage returns only
\* when the broker has the message.
ImplementsPublish == Abstract!Spec

\* However calls of subscribe interleave, the topic has one consumer at most, so
\* that no message is handed over twice.
OneConsumer ==
    \A s, t \in Subscribers :
        /\ s \in running \/ sub[s] \in {"connect", "subscribe", "run"}
        /\ t \in running \/ sub[t] \in {"connect", "subscribe", "run"}
        => s = t

Fault ==
    \/ Disconnect
    \/ OnModuleInit /\ producer' = "off"
    \/ \E c \in Calls : CallFails(c)

\* Whatever failed before, a start without the broker and a disconnect among it:
\* once nothing fails any more, every sender gets its messages through.
Recovers ==
    <>[][~ Fault]_vars => \A c \in Calls : []<>(call[c] = "returned")
=============================================================================
