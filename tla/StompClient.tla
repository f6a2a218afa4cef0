----------------------------- MODULE StompClient -----------------------------
(***************************************************************************)
(* StompClient: the connection to RabbitMQ over a web socket, and the calls   *)
(* that use it: send and subscribe, which bring it up again when it is down,  *)
(* unsubscribe and disconnect, which do not.                                *)
(*                                                                         *)
(* The handlers onOpen, onMessage, onClose and onError are bound to the        *)
(* client, not to the socket they are registered on: an event of a socket    *)
(* that has been replaced is handled as if it were the current one's.        *)
(* connectionPromise is pending exactly while connectWithRetry runs.         *)
(*                                                                         *)
(* The callback of a write comes before any answer to what was written, and  *)
(* what awaits connectionPromise goes on before any other event, so both are *)
(* part of the action that writes or settles.  A write fails when its socket *)
(* fails, or at once if it is not open.                                     *)
(*                                                                         *)
(* An ACK or NACK changes nothing here: it is written to the client's socket *)
(* of that moment, as are all frames.  MESSAGE hands its frame to the         *)
(* callback of its subscription, and is dropped if there is none.           *)
(***************************************************************************)
EXTENDS Naturals, FiniteSets, Functions

CONSTANTS
    Sockets,            \* bound: web sockets not yet closed at any moment
    Calls,              \* bound: calls of send and subscribe that run at any moment
    Subscriptions,      \* bound: subscriptions in the life of the client
    ReconnectAttempts,  \* options.reconnectAttempts
    Faults              \* what may happen: a subset of FaultKinds

\* network: a socket fails, or is closed by the broker; a write fails; the
\*          socket does not open in time
\* stale:   the broker's frame arrives on a socket the client has closed, but
\*          whose closing handshake is not over
FaultKinds == {"network", "stale"}

ASSUME StompAssumption ==
    /\ Sockets # {}
    /\ ReconnectAttempts \in Nat \ {0}
    /\ Subscriptions \in Nat
    /\ Faults \subseteq FaultKinds

VARIABLES
    socket,     \* socket[s]: its state; "free": none, or its close event is over
    session,    \* session[s]: "asked": CONNECT is written; "up": CONNECTED is here; it
                \* ends with its socket
    ws,         \* the client's socket
    opened,
    connected,
    pc,         \* where connectWithRetry awaits
    attempt,    \* its parameter
    call,       \* call[c]: how far a call of send or subscribe is
    counter,        \* the number in the next subscription's id
    subscriptions,  \* the ids that have a callback
    served,         \* the ids of which a MESSAGE may still come on the client's socket
    leaving         \* the ids whose UNSUBSCRIBE is on its way there

connection == <<socket, session, ws, opened, connected, pc, attempt>>
subscribed == <<counter, subscriptions, served, leaving>>
vars == <<connection, call, subscribed>>

\* aborted: closed by the client before it opened
SocketStates == {"free", "connecting", "open", "closing", "aborted"}

\* off: not running; wait: in waitWsConnection; sleep: before the next attempt
Places == {"off", "wait", "sleep"}

\* sends, subscribes: waiting for connectionPromise; early: SEND or SUBSCRIBE
\* is written before CONNECT; clash: SUBSCRIBE has the id of another
\* subscription; failed: the call throws
CallStates == {"idle", "sends", "subscribes", "early", "clash", "failed"}

TypeOK ==
    /\ socket \in [Sockets -> SocketStates]
    /\ session \in [Sockets -> {"none", "asked", "up"}]
    /\ ws \in Sockets
    /\ opened \in BOOLEAN /\ connected \in BOOLEAN
    /\ pc \in Places
    /\ attempt \in 1 .. ReconnectAttempts
    /\ call \in [Calls -> CallStates]
    /\ counter \in Nat
    /\ subscriptions \in SUBSET (0 .. counter - 1)
    /\ served \in SUBSET (0 .. counter - 1)
    /\ leaving \in SUBSET (0 .. counter - 1)

Pending == pc # "off"

\* The module's factory has called connect().
Init ==
    /\ ws \in Sockets
    /\ socket = [s \in Sockets |-> IF s = ws THEN "connecting" ELSE "free"]
    /\ session = [s \in Sockets |-> "none"]
    /\ opened = FALSE /\ connected = FALSE
    /\ pc = "wait"
    /\ attempt = 1
    /\ call = [c \in Calls |-> "idle"]
    /\ counter = 0 /\ subscriptions = {} /\ served = {} /\ leaving = {}

-----------------------------------------------------------------------------
\* ws.close() on a socket, and what cleanUp makes of the sockets.
Closing(state) ==
    CASE state = "connecting" -> "aborted"
      [] state = "open" -> "closing"
      [] OTHER -> state

\* Mutant: the socket is not closed.
KeptOpen(sockets) == sockets

CleanedUp(sockets) == [sockets EXCEPT ![ws] = Closing(@)]

\* createWebSocket, on top of the sockets given.
CreateWebSocket(sockets) ==
    \E s \in Sockets :
        /\ sockets[s] = "free"
        /\ ws' = s
        /\ socket' = [sockets EXCEPT ![s] = "connecting"]
        /\ served' = {} /\ leaving' = {}

\* Mutant: the flag is not reset.
ResetOpened == opened' = FALSE /\ UNCHANGED connected

ResetFlags == opened' = FALSE /\ connected' = FALSE

\* reconnect() while no attempt is running: clean up, start the first attempt.
Reconnect(sockets) ==
    /\ CreateWebSocket(CleanedUp(sockets))
    /\ ResetFlags
    /\ pc' = "wait"
    /\ attempt' = 1

-----------------------------------------------------------------------------
(* transmit, and what subscribe does before it.                             *)

\* A socket on which a write fails.
Broken(state) == IF state = "open" THEN "closing" ELSE state

\* Mutant: the id is read before the connection is awaited.
IdsBeforeAwait(subscribers, next) ==
    {id \in [subscribers -> {counter}] : next = counter + Cardinality(subscribers)}

\* The ids of calls of subscribe, in the order of their turn.
Ids(subscribers, next) == Bijection(subscribers, counter .. next - 1)

\* Mutant: the callback is stored under the next subscription's id.
CallbacksOfNext(ids) == subscriptions \cup {i + 1 : i \in ids}

Callbacks(ids) == subscriptions \cup ids

\* The ids that other subscriptions have on the client's socket.
Taken(c, id) == served \cup {id[d] : d \in DOMAIN id \ {c}}

Clashes(c, id) == c \in DOMAIN id /\ id[c] \in Taken(c, id)

\* What becomes of a frame that is written: SUBSCRIBE if id is defined on c.
Fate(c, id, asked) ==
    IF ~ asked THEN "early" ELSE IF Clashes(c, id) THEN "clash" ELSE "idle"

\* The calls write their frames to the client's socket, some of them in vain.
\* asked: CONNECT is written there.
Transmit(senders, subscribers, asked) ==
    \E lost \in SUBSET (senders \cup subscribers), next \in counter .. Subscriptions :
    \E id \in Ids(subscribers, next) :
        /\ IF socket[ws] = "open" THEN lost # {} => "network" \in Faults
                                  ELSE lost = senders \cup subscribers
        /\ call' = [c \in Calls |->
                        IF c \in lost THEN "failed"
                        ELSE IF c \in senders \cup subscribers THEN Fate(c, id, asked)
                        ELSE call[c]]
        /\ socket' = IF lost = {} THEN socket ELSE [socket EXCEPT ![ws] = Broken(@)]
        /\ counter' = next
        /\ subscriptions' = Callbacks({id[c] : c \in subscribers})
        /\ served' = served \cup {id[c] : c \in subscribers \ lost}
        /\ UNCHANGED leaving

-----------------------------------------------------------------------------
(* connectWithRetry.                                                        *)

In(state) == {c \in Calls : call[c] = state}

\* The socket is open and CONNECT is written: connectionPromise is settled
\* and all that wait for it go on.
WriteConnect ==
    /\ pc = "wait"
    /\ opened
    /\ socket[ws] = "open"
    /\ pc' = "off"
    /\ session' = [session EXCEPT ![ws] = "asked"]
    /\ Transmit(In("sends"), In("subscribes"), TRUE)
    /\ UNCHANGED <<ws, opened, connected, attempt>>

\* Mutant: connectionPromise is not reset.
KeepPromise == UNCHANGED <<pc, call>>

\* The last attempt has failed: the promise is rejected, the calls throw.
GiveUp ==
    /\ pc' = "off"
    /\ call' = [c \in Calls |->
                   IF call[c] \in {"sends", "subscribes"} THEN "failed" ELSE call[c]]

\* Mutant: one attempt too many.
IsPastLastAttempt == attempt > ReconnectAttempts

IsLastAttempt == attempt >= ReconnectAttempts

\* The socket does not open in time, or CONNECT cannot be written to it.
AttemptFails ==
    /\ pc = "wait"
    /\ socket[ws] \in {"open", "connecting"} => "network" \in Faults
    /\ IF IsLastAttempt
         THEN /\ GiveUp
              /\ socket' = [socket EXCEPT ![ws] = Broken(@)]
              /\ UNCHANGED <<opened, connected, attempt>>
         ELSE /\ attempt' = attempt + 1
              /\ pc' = "sleep"
              /\ socket' = CleanedUp(socket)
              /\ ResetFlags
              /\ UNCHANGED call
    /\ UNCHANGED <<session, ws, subscribed>>

\* The pause is over and the next attempt starts.
NextAttempt ==
    /\ pc = "sleep"
    /\ pc' = "wait"
    /\ CreateWebSocket(socket)
    /\ UNCHANGED <<session, opened, connected, attempt, call, counter, subscriptions>>

-----------------------------------------------------------------------------
(* Events of the sockets.                                                   *)

OnOpen(s) ==
    /\ socket[s] = "connecting"
    /\ socket' = [socket EXCEPT ![s] = "open"]
    /\ opened' = TRUE
    /\ UNCHANGED <<session, ws, connected, pc, attempt, call, subscribed>>

\* CONNECTED arrives; other frames change nothing that send looks at.
OnMessage(s) ==
    /\ session[s] = "asked"
    /\ \/ socket[s] = "open"
       \/ socket[s] = "closing" /\ "stale" \in Faults
    /\ session' = [session EXCEPT ![s] = "up"]
    /\ connected' = TRUE
    /\ UNCHANGED <<socket, ws, opened, pc, attempt, call, subscribed>>

\* The broker closes a socket; the event is yet to come.
BrokerCloses(s) ==
    /\ "network" \in Faults
    /\ socket[s] = "open"
    /\ socket' = [socket EXCEPT ![s] = "closing"]
    /\ UNCHANGED <<session, ws, opened, connected, pc, attempt, call, subscribed>>

\* Mutant: nothing is done about a lost connection.
OnCloseOfNobody(s, normally) ==
    /\ socket[s] = "closing"
    /\ socket' = [socket EXCEPT ![s] = "free"]
    /\ session' = [session EXCEPT ![s] = "none"]
    /\ UNCHANGED <<ws, opened, connected, pc, attempt, call, subscribed>>

\* The close event of a socket, with code 1000 or another.
OnClose(s, normally) ==
    LET closed == [socket EXCEPT ![s] = "free"] IN
    /\ socket[s] = "closing"
    /\ session' = [session EXCEPT ![s] = "none"]
    /\ \/ /\ Pending
          /\ socket' = closed
          /\ UNCHANGED <<ws, opened, connected, pc, attempt, served, leaving>>
       \/ /\ ~ Pending /\ normally
          /\ socket' = CleanedUp(closed)
          /\ ResetFlags
          /\ UNCHANGED <<ws, pc, attempt, served, leaving>>
       \/ /\ ~ Pending /\ ~ normally
          /\ Reconnect(closed)
    /\ UNCHANGED <<call, counter, subscriptions>>

\* The error event of a socket that fails or was aborted.
OnError(s) ==
    LET failed == [socket EXCEPT ![s] = "closing"] IN
    /\ \/ socket[s] \in {"connecting", "open"} /\ "network" \in Faults
       \/ socket[s] = "aborted"
    /\ IF Pending
         THEN /\ socket' = failed
              /\ UNCHANGED <<ws, opened, connected, pc, attempt, served, leaving>>
         ELSE Reconnect(failed)
    /\ UNCHANGED <<session, call, counter, subscriptions>>

-----------------------------------------------------------------------------
(* Calls of send and subscribe.                                             *)

\* Mutant: an open socket is enough.
IsOpened == opened

IsReady == opened /\ connected

\* Of the bound: every call that has begun can still have an id.
CanSubscribe == counter + Cardinality(In("subscribes")) < Subscriptions

IsAsked == session[ws] # "none"

SendAtOnce(c) ==
    /\ call[c] = "idle"
    /\ IsReady
    /\ Transmit({c}, {}, IsAsked)
    /\ UNCHANGED <<session, ws, opened, connected, pc, attempt>>

SubscribeAtOnce(c) ==
    /\ call[c] = "idle" /\ CanSubscribe
    /\ IsReady
    /\ Transmit({}, {c}, IsAsked)
    /\ UNCHANGED <<session, ws, opened, connected, pc, attempt>>

\* The call reconnects, or waits for the attempt that is running.
AwaitConnection(c, state) ==
    /\ ~ IsReady
    /\ call' = [call EXCEPT ![c] = state]
    /\ IF Pending THEN UNCHANGED <<connection, served, leaving>> ELSE Reconnect(socket)
    /\ UNCHANGED <<session, counter, subscriptions>>

SendAfterReconnect(c) ==
    /\ call[c] = "idle"
    /\ AwaitConnection(c, "sends")

SubscribeAfterReconnect(c) ==
    /\ call[c] = "idle" /\ CanSubscribe
    /\ AwaitConnection(c, "subscribes")

\* The call throws, or its frame is refused.
CallReturns(c) ==
    /\ call[c] \in {"early", "clash", "failed"}
    /\ call' = [call EXCEPT ![c] = "idle"]
    /\ UNCHANGED <<connection, subscribed>>

-----------------------------------------------------------------------------
(* unsubscribe and disconnect look at no flag.                              *)

\* The callback is gone at once, also if UNSUBSCRIBE cannot be written.
Unsubscribe(i) ==
    /\ i \in subscriptions
    /\ subscriptions' = subscriptions \ {i}
    /\ \/ socket[ws] = "open" /\ leaving' = leaving \cup {i} /\ UNCHANGED socket
       \/ socket[ws] # "open" /\ UNCHANGED <<leaving, socket>>
       \/ /\ socket[ws] = "open" /\ "network" \in Faults
          /\ socket' = [socket EXCEPT ![ws] = Broken(@)]
          /\ UNCHANGED leaving
    /\ UNCHANGED <<session, ws, opened, connected, pc, attempt, call, counter, served>>

\* UNSUBSCRIBE arrives, and what the broker sent before has arrived here.
BrokerUnsubscribes(i) ==
    /\ i \in leaving
    /\ leaving' = leaving \ {i}
    /\ served' = served \ {i}
    /\ UNCHANGED <<connection, call, counter, subscriptions>>

\* DISCONNECT is written, else nothing happens; an attempt goes on.
Disconnect ==
    /\ socket[ws] = "open"
    /\ socket' = CleanedUp(socket)
    /\ ResetFlags
    /\ UNCHANGED <<session, ws, pc, attempt, call, subscribed>>

-----------------------------------------------------------------------------
ConnectStep == WriteConnect \/ AttemptFails \/ NextAttempt

SocketStep(s) ==
    \/ OnOpen(s)
    \/ OnMessage(s)
    \/ BrokerCloses(s)
    \/ \E normally \in BOOLEAN : OnClose(s, normally)
    \/ OnError(s)

CallStep(c) ==
    \/ SendAtOnce(c) \/ SendAfterReconnect(c)
    \/ SubscribeAtOnce(c) \/ SubscribeAfterReconnect(c)
    \/ CallReturns(c)

Next ==
    \/ ConnectStep
    \/ \E s \in Sockets : SocketStep(s)
    \/ \E c \in Calls : CallStep(c)
    \/ \E i \in subscriptions : Unsubscribe(i)
    \/ \E i \in leaving : BrokerUnsubscribes(i)
    \/ Disconnect

Spec == Init /\ [][Next]_vars

\* Timers fire, sockets open or fail, closing handshakes end (ws destroys the
\* socket after 30 seconds), promises settle.  Calls are not promised.
FairSpec ==
    /\ Spec
    /\ WF_vars(ConnectStep)
    /\ WF_vars(\E s \in Sockets : OnOpen(s))
    /\ \A s \in Sockets :
          WF_vars(OnError(s) \/ \E normally \in BOOLEAN : OnClose(s, normally))
    /\ \A c \in Calls : WF_vars(CallReturns(c))

-----------------------------------------------------------------------------
(* What must hold.                                                          *)

\* A socket that is replaced has been closed: none is left open, receiving
\* frames and events for a client that writes to another.
OneLiveSocket ==
    \A s \in Sockets : socket[s] \in {"connecting", "open"} => s = ws

\* stomp.client.ts:59, isConnected: "Getting RabbitMQ connection status".  What
\* it says is true of the socket the client writes to.
ConnectedIsTrue == connected => session[ws] = "up"

\* No SEND and no SUBSCRIBE reaches the broker on a socket on which CONNECT
\* has not.
SendAfterConnect == \A c \in Calls : call[c] # "early"

\* No two subscriptions have one id, however many calls of subscribe wait for
\* one connection: the second would take the callback of the first, and the
\* broker refuses it.
IdsAreFresh == \A c \in Calls : call[c] # "clash"

\* A MESSAGE of the client's socket finds its callback, unless UNSUBSCRIBE is on
\* its way to the broker: onMessage drops no other message unanswered, whatever
\* reconnects and however the calls of subscribe and unsubscribe overlap.
MessagesAreHandled ==
    socket[ws] = "open" => served \subseteq subscriptions \cup leaving

\* The client does not take a dead socket for a working one, unless the event
\* that will tell it is still to come or an attempt is running: otherwise all
\* later calls would fail until the process ends.
DeathIsNoticed ==
    opened /\ connected => socket[ws] # "free" \/ Pending

\* Calls that wait for a connection go on or throw, also if every attempt
\* fails.  connectionPromise settles for all of them at once, so that again and
\* again none waits.
CallsSettle == []<>(\A c \in Calls : call[c] \notin {"sends", "subscribes"})

\* A step that only the network, or the client itself, explains: a socket dies
\* or is given up, an attempt on a sound socket fails, a frame is lost on one.
Fault ==
    \/ \E s \in Sockets : BrokerCloses(s) \/ (socket[s] # "aborted" /\ OnError(s))
    \/ AttemptFails /\ socket[ws] \in {"open", "connecting"}
    \/ socket[ws] = "open" /\ \E c \in Calls : call[c] # "failed" /\ call'[c] = "failed"
    \/ socket' # socket /\ \E i \in subscriptions : Unsubscribe(i)
    \/ Disconnect

\* When the network is sound again, calls succeed again: whatever the
\* events of old sockets have done, the client finds back.
Recovers == <>[][~ Fault]_vars => <>[](\A c \in Calls : call[c] # "failed")
=============================================================================
