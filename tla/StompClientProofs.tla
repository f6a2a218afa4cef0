-------------------------- MODULE StompClientProofs --------------------------
(* Theorems about StompClient.                                              *)
EXTENDS StompClient, TLAPS

Live == {"connecting", "open"}

\* The states in which a socket has no session.
Quiet == {"free", "connecting", "aborted"}

SocketMaps == [Sockets -> SocketStates]

\* What createWebSocket leaves behind.
LEMMA CreateEffect ==
    ASSUME TypeOK, NEW sockets \in SocketMaps, CreateWebSocket(sockets)
    PROVE  /\ ws' \in Sockets /\ sockets[ws'] = "free"
           /\ socket' = [sockets EXCEPT ![ws'] = "connecting"]
           /\ socket' \in SocketMaps
           /\ served' = {} /\ leaving' = {}
  BY DEF CreateWebSocket, TypeOK, SocketStates, SocketMaps

\* cleanUp closes the client's socket and leaves the others alone.
LEMMA CleanEffect ==
    ASSUME TypeOK, NEW sockets \in SocketMaps
    PROVE  /\ CleanedUp(sockets) \in SocketMaps
           /\ CleanedUp(sockets)[ws] \notin Live
           /\ \A s \in Sockets \ {ws} : CleanedUp(sockets)[s] = sockets[s]
           /\ \A s \in Sockets : CleanedUp(sockets)[s] \in Quiet => sockets[s] \in Quiet
           /\ \A s \in Sockets : CleanedUp(sockets)[s] = "free" => sockets[s] = "free"
<1>1. \A state \in SocketStates :
         /\ Closing(state) \in SocketStates \ Live
         /\ Closing(state) \in Quiet => state \in Quiet
         /\ Closing(state) = "free" => state = "free"
  BY DEF Closing, SocketStates, Live, Quiet
<1>2. ws \in Sockets
  BY DEF TypeOK
<1>3. \A s \in Sockets : sockets[s] \in SocketStates
  BY DEF SocketMaps
<1> QED
  BY <1>1, <1>2, <1>3 DEF CleanedUp, SocketMaps

\* After reconnect the new socket is the only live one, without a session.
LEMMA ReconnectEffect ==
    ASSUME TypeOK, NEW sockets \in SocketMaps, Reconnect(sockets),
           \A s \in Sockets : sockets[s] \in Live => s = ws,
           \A s \in Sockets : sockets[s] \in Quiet => session'[s] = "none"
    PROVE  /\ ws' \in Sockets
           /\ socket' \in SocketMaps
           /\ \A s \in Sockets : socket'[s] \in Live => s = ws'
           /\ \A s \in Sockets : socket'[s] \in Quiet => session'[s] = "none"
           /\ session'[ws'] = "none"
           /\ served' = {} /\ leaving' = {}
           /\ opened' = FALSE /\ connected' = FALSE /\ pc' = "wait" /\ attempt' = 1
<1> DEFINE cleaned == CleanedUp(sockets)
<1>1. /\ cleaned \in SocketMaps
      /\ \A s \in Sockets : cleaned[s] \notin Live
      /\ \A s \in Sockets : cleaned[s] \in Quiet => session'[s] = "none"
  BY CleanEffect DEF TypeOK
<1>2. CreateWebSocket(cleaned)
  BY DEF Reconnect
<1> HIDE DEF cleaned
<1>3. /\ ws' \in Sockets /\ cleaned[ws'] = "free"
      /\ socket' = [cleaned EXCEPT ![ws'] = "connecting"]
      /\ socket' \in SocketMaps
      /\ served' = {} /\ leaving' = {}
  BY <1>1, <1>2, CreateEffect
<1>4. session'[ws'] = "none"
  BY <1>1, <1>3 DEF Quiet
<1>5. \A s \in Sockets : s # ws' => socket'[s] = cleaned[s]
  BY <1>1, <1>3 DEF SocketMaps
<1> QED
  BY <1>1, <1>3, <1>4, <1>5 DEF Reconnect, ResetFlags

\* Whatever is written, and whoever writes: the ids are fresh, and of the
\* sockets at most the client's is lost.
LEMMA TransmitEffect ==
    ASSUME TypeOK, NEW senders \in SUBSET Calls, NEW subscribers \in SUBSET Calls,
           NEW asked, Transmit(senders, subscribers, asked)
    PROVE  /\ counter' \in Nat
           /\ subscriptions' \in SUBSET (0 .. counter' - 1)
           /\ served' \in SUBSET (0 .. counter' - 1)
           /\ leaving' \in SUBSET (0 .. counter' - 1)
           /\ leaving' = leaving
           /\ served \subseteq subscriptions \cup leaving
                 => served' \subseteq subscriptions' \cup leaving'
           /\ socket[ws] # "open" => served' = served
           /\ socket' \in SocketMaps
           /\ \A s \in Sockets :
                 socket'[s] = socket[s] \/ (socket[s] = "open" /\ socket'[s] = "closing")
           /\ call' \in [Calls -> CallStates]
           /\ \A c \in Calls : call'[c] = "clash" => call[c] = "clash"
           /\ asked => \A c \in Calls : call'[c] = "early" => call[c] = "early"
<1>1. PICK lost \in SUBSET (senders \cup subscribers), next \in counter .. Subscriptions :
      \E id \in Ids(subscribers, next) :
        /\ IF socket[ws] = "open" THEN lost # {} => "network" \in Faults
                                  ELSE lost = senders \cup subscribers
        /\ call' = [c \in Calls |->
                        IF c \in lost THEN "failed"
                        ELSE IF c \in senders \cup subscribers THEN Fate(c, id, asked)
                        ELSE call[c]]
        /\ socket' = IF lost = {} THEN socket ELSE [socket EXCEPT ![ws] = Broken(@)]
        /\ counter' = next
        /\ subscriptions' = Callbacks({id[c] : c \in subscribers})
        /\ served' = served \cup {id[c] : c \in subscribers \ lost}
        /\ leaving' = leaving
  BY DEF Transmit
<1>2. PICK id \in Ids(subscribers, next) :
        /\ socket[ws] # "open" => lost = senders \cup subscribers
        /\ call' = [c \in Calls |->
                        IF c \in lost THEN "failed"
                        ELSE IF c \in senders \cup subscribers THEN Fate(c, id, asked)
                        ELSE call[c]]
        /\ socket' = IF lost = {} THEN socket ELSE [socket EXCEPT ![ws] = Broken(@)]
        /\ counter' = next
        /\ subscriptions' = Callbacks({id[c] : c \in subscribers})
        /\ served' = served \cup {id[c] : c \in subscribers \ lost}
        /\ leaving' = leaving
  BY <1>1
<1>3. counter \in Nat /\ next \in Nat /\ counter <= next
  BY StompAssumption DEF TypeOK
<1>4. /\ id \in [subscribers -> counter .. next - 1]
      /\ \A c, d \in subscribers : id[c] = id[d] => c = d
  BY DEF Ids, Bijection, Injection, IsInjective
<1>5. \A c \in subscribers : id[c] \in 0 .. next - 1 /\ id[c] >= counter
  BY <1>3, <1>4
<1>6. ~ \E c \in Calls : Clashes(c, id)
  <2> SUFFICES ASSUME NEW c \in subscribers, id[c] \in Taken(c, id) PROVE FALSE
    BY <1>4 DEF Clashes
  <2>1. id[c] \notin served
    BY <1>3, <1>5 DEF TypeOK
  <2>2. ~ \E d \in subscribers \ {c} : id[d] = id[c]
    BY <1>4
  <2> QED
    BY <1>4, <2>1, <2>2 DEF Taken
<1>7. \A c \in Calls : Fate(c, id, asked) = IF asked THEN "idle" ELSE "early"
  BY <1>6 DEF Fate
<1>8. \A c \in Calls :
         call'[c] = IF c \in lost THEN "failed"
                    ELSE IF c \in senders \cup subscribers
                      THEN IF asked THEN "idle" ELSE "early"
                    ELSE call[c]
  BY <1>2, <1>7
<1>9. call' \in [Calls -> CallStates]
  <2>1. \A c \in Calls : call'[c] \in CallStates
    BY <1>8 DEF TypeOK, CallStates
  <2> QED
    BY <1>2, <2>1
<1>10. /\ socket' \in SocketMaps
       /\ \A s \in Sockets :
             socket'[s] = socket[s] \/ (socket[s] = "open" /\ socket'[s] = "closing")
  BY <1>2 DEF TypeOK, SocketStates, SocketMaps, Broken
<1>11. /\ subscriptions' \in SUBSET (0 .. counter' - 1)
       /\ served' \in SUBSET (0 .. counter' - 1)
       /\ leaving' \in SUBSET (0 .. counter' - 1)
  <2>1. /\ subscriptions \subseteq 0 .. next - 1
        /\ served \subseteq 0 .. next - 1
        /\ leaving \subseteq 0 .. next - 1
    BY <1>3 DEF TypeOK
  <2>2. {id[c] : c \in subscribers} \subseteq 0 .. next - 1
    BY <1>5
  <2>3. {id[c] : c \in subscribers \ lost} \subseteq 0 .. next - 1
    BY <1>5
  <2> QED
    BY <1>2, <2>1, <2>2, <2>3 DEF Callbacks
<1>12. served \subseteq subscriptions \cup leaving
          => served' \subseteq subscriptions' \cup leaving'
  BY <1>2 DEF Callbacks
<1>13. leaving' = leaving /\ (socket[ws] # "open" => served' = served)
  BY <1>2
<1> QED
  BY <1>2, <1>3, <1>8, <1>9, <1>10, <1>11, <1>12, <1>13

------------------------------------------------------------------------------
(* Types, one live socket, ids and messages.                                *)

\* Between two attempts there is no live socket; a session ends with its
\* socket; what is served on a live socket has a callback, or its UNSUBSCRIBE is
\* on its way.
LiveInv ==
    /\ TypeOK
    /\ OneLiveSocket
    /\ pc = "sleep" => socket[ws] \notin Live
    /\ \A s \in Sockets : socket[s] \in Quiet => session[s] = "none"
    /\ IdsAreFresh
    /\ socket[ws] \in Live => served \subseteq subscriptions \cup leaving
    /\ socket[ws] = "connecting" => served = {}

\* Initially the client's socket is the only one.
LEMMA LiveInit == Init => LiveInv
<1> SUFFICES ASSUME Init PROVE LiveInv
  OBVIOUS
<1>1. socket \in [Sockets -> SocketStates] /\ session \in [Sockets -> {"none", "asked", "up"}]
  BY DEF Init, SocketStates
<1>2. ws \in Sockets /\ opened \in BOOLEAN /\ connected \in BOOLEAN
  BY DEF Init
<1>3. pc \in Places /\ attempt \in 1 .. ReconnectAttempts /\ call \in [Calls -> CallStates]
  BY StompAssumption DEF Init, Places, CallStates
<1>4. counter \in Nat /\ subscriptions = {} /\ served = {} /\ leaving = {}
  BY DEF Init
<1>5. TypeOK
  BY <1>1, <1>2, <1>3, <1>4 DEF TypeOK
<1> QED
  BY <1>4, <1>5 DEF Init, LiveInv, OneLiveSocket, IdsAreFresh

\* The actions that may reconnect keep LiveInv.
LEMMA ReconnectKeepsLive ==
    ASSUME LiveInv, NEW sockets \in SocketMaps, Reconnect(sockets),
           \A s \in Sockets : sockets[s] \in Live => s = ws,
           session' \in [Sockets -> {"none", "asked", "up"}],
           \A s \in Sockets : sockets[s] \in Quiet => session'[s] = "none",
           call' \in [Calls -> CallStates], IdsAreFresh',
           UNCHANGED <<counter, subscriptions>>
    PROVE  LiveInv'
<1>1. TypeOK
  BY DEF LiveInv
<1>2. /\ ws' \in Sockets
      /\ socket' \in SocketMaps
      /\ \A s \in Sockets : socket'[s] \in Live => s = ws'
      /\ \A s \in Sockets : socket'[s] \in Quiet => session'[s] = "none"
      /\ served' = {} /\ leaving' = {}
      /\ opened' = FALSE /\ connected' = FALSE /\ pc' = "wait" /\ attempt' = 1
  BY <1>1, ReconnectEffect
<1>3. 1 \in 1 .. ReconnectAttempts
  BY StompAssumption
<1>4. counter' \in Nat /\ subscriptions' \in SUBSET (0 .. counter' - 1)
  BY <1>1 DEF TypeOK
<1>5. TypeOK'
  BY <1>2, <1>3, <1>4 DEF TypeOK, Places, SocketMaps
<1> QED
  BY <1>2, <1>5 DEF LiveInv, OneLiveSocket, Live

\* The actions that write frames keep LiveInv.
LEMMA TransmitKeepsLive ==
    ASSUME LiveInv, NEW senders \in SUBSET Calls, NEW subscribers \in SUBSET Calls,
           NEW asked, Transmit(senders, subscribers, asked),
           session' \in [Sockets -> {"none", "asked", "up"}],
           \A s \in Sockets : socket[s] \in Quiet => session'[s] = "none",
           pc' \in Places, pc' = "sleep" => pc = "sleep",
           UNCHANGED <<ws, opened, connected, attempt>>
    PROVE  LiveInv'
<1>1. TypeOK
  BY DEF LiveInv
<1>2. /\ counter' \in Nat
      /\ subscriptions' \in SUBSET (0 .. counter' - 1)
      /\ served' \in SUBSET (0 .. counter' - 1)
      /\ leaving' \in SUBSET (0 .. counter' - 1)
      /\ leaving' = leaving
      /\ served \subseteq subscriptions \cup leaving
            => served' \subseteq subscriptions' \cup leaving'
      /\ socket[ws] # "open" => served' = served
      /\ socket' \in SocketMaps
      /\ \A s \in Sockets :
            socket'[s] = socket[s] \/ (socket[s] = "open" /\ socket'[s] = "closing")
      /\ call' \in [Calls -> CallStates]
      /\ \A c \in Calls : call'[c] = "clash" => call[c] = "clash"
  BY <1>1, TransmitEffect
<1>3. \A s \in Sockets :
         /\ socket'[s] \in Live => socket[s] \in Live
         /\ socket'[s] \in Quiet => socket[s] \in Quiet
  BY <1>2 DEF Live, Quiet
<1>4. TypeOK'
  BY <1>1, <1>2 DEF TypeOK, SocketMaps
<1>5. ws \in Sockets
  BY <1>1 DEF TypeOK
<1> QED
  BY <1>2, <1>3, <1>4, <1>5 DEF LiveInv, OneLiveSocket, IdsAreFresh, Live

\* Every step keeps LiveInv.
LEMMA LiveStep == LiveInv /\ [Next]_vars => LiveInv'
<1> SUFFICES ASSUME LiveInv, [Next]_vars PROVE LiveInv'
  OBVIOUS
<1> USE StompAssumption DEF connection, subscribed
<1>t. /\ TypeOK /\ ws \in Sockets /\ socket \in SocketMaps
      /\ session \in [Sockets -> {"none", "asked", "up"}]
      /\ \A s \in Sockets : socket[s] \in Live => s = ws
      /\ \A s \in Sockets : socket[s] \in Quiet => session[s] = "none"
      /\ IdsAreFresh
      /\ socket[ws] \in Live => served \subseteq subscriptions \cup leaving
      /\ socket[ws] = "connecting" => served = {}
  BY DEF LiveInv, TypeOK, OneLiveSocket, Live, SocketMaps
<1>1. CASE WriteConnect
  <2>1. /\ session' \in [Sockets -> {"none", "asked", "up"}]
        /\ \A s \in Sockets : socket[s] \in Quiet => session'[s] = "none"
    BY <1>1, <1>t DEF WriteConnect, Quiet
  <2>2. In("sends") \in SUBSET Calls /\ In("subscribes") \in SUBSET Calls
    BY DEF In
  <2> QED
    BY <1>1, <2>1, <2>2, TransmitKeepsLive DEF WriteConnect, Places
<1>2. CASE AttemptFails
  <2>1. CASE IsLastAttempt
    <3>1. call' \in [Calls -> CallStates] /\ IdsAreFresh'
      BY <1>2, <2>1, <1>t DEF AttemptFails, GiveUp, TypeOK, CallStates, IdsAreFresh
    <3>2. /\ socket' \in SocketMaps
          /\ \A s \in Sockets :
                /\ socket'[s] \in Live => socket[s] \in Live
                /\ socket'[s] \in Quiet => socket[s] \in Quiet
      BY <1>2, <2>1, <1>t DEF AttemptFails, Broken, SocketMaps, SocketStates, Live, Quiet
    <3>3. /\ pc' = "off"
          /\ session' = session /\ ws' = ws
          /\ opened' = opened /\ connected' = connected /\ attempt' = attempt
          /\ counter' = counter /\ subscriptions' = subscriptions /\ served' = served
          /\ leaving' = leaving
      BY <1>2, <2>1 DEF AttemptFails, GiveUp
    <3>4. TypeOK'
      BY <3>1, <3>2, <3>3, <1>t DEF TypeOK, Places, SocketMaps
    <3>5. OneLiveSocket'
      BY <3>2, <3>3, <1>t DEF OneLiveSocket, Live
    <3>6. socket'[ws] \in Live => served' \subseteq subscriptions' \cup leaving'
      BY <3>2, <3>3, <1>t
    <3>7. socket'[ws] = "connecting" => served' = {}
      BY <1>2, <2>1, <3>3, <1>t DEF AttemptFails, Broken, SocketMaps
    <3>8. \A s \in Sockets : socket'[s] \in Quiet => session'[s] = "none"
      BY <3>2, <3>3, <1>t
    <3> QED
      BY <3>1, <3>3, <3>4, <3>5, <3>6, <3>7, <3>8 DEF LiveInv
  <2>2. CASE ~ IsLastAttempt
    <3>1. /\ socket' \in SocketMaps
          /\ \A s \in Sockets : socket'[s] \notin Live
          /\ \A s \in Sockets : socket'[s] \in Quiet => socket[s] \in Quiet
      BY <1>2, <2>2, <1>t, CleanEffect DEF AttemptFails
    <3>2. attempt' \in 1 .. ReconnectAttempts
      BY <1>2, <2>2, <1>t DEF AttemptFails, IsLastAttempt, TypeOK
    <3>3. /\ pc' = "sleep" /\ opened' = FALSE /\ connected' = FALSE
          /\ UNCHANGED <<session, ws, call, subscribed>>
      BY <1>2, <2>2 DEF AttemptFails, ResetFlags
    <3>4. TypeOK'
      BY <3>1, <3>2, <3>3, <1>t DEF TypeOK, Places, SocketMaps
    <3> QED
      BY <3>1, <3>3, <3>4, <1>t DEF LiveInv, OneLiveSocket, IdsAreFresh, Live
  <2> QED
    BY <2>1, <2>2
<1>3. CASE NextAttempt
  <2>1. \A s \in Sockets : socket[s] \notin Live
    BY <1>3, <1>t DEF NextAttempt, LiveInv
  <2>2. /\ ws' \in Sockets
        /\ socket' = [socket EXCEPT ![ws'] = "connecting"]
        /\ socket' \in SocketMaps
        /\ socket[ws'] = "free"
        /\ served' = {} /\ leaving' = {}
    BY <1>3, <1>t, CreateEffect DEF NextAttempt
  <2>3. \A s \in Sockets : socket'[s] \in Live => s = ws'
    BY <2>1, <2>2, <1>t
  <2>4. \A s \in Sockets : socket'[s] \in Quiet => socket[s] \in Quiet
    BY <2>2, <1>t DEF Quiet, SocketMaps
  <2>5. /\ pc' = "wait"
        /\ UNCHANGED <<session, opened, connected, attempt, call, counter, subscriptions>>
    BY <1>3 DEF NextAttempt
  <2>6. TypeOK'
    BY <2>2, <2>5, <1>t DEF TypeOK, Places, SocketMaps
  <2> QED
    BY <2>2, <2>3, <2>4, <2>5, <2>6, <1>t DEF LiveInv, OneLiveSocket, IdsAreFresh, Live
<1>4. ASSUME NEW s \in Sockets, OnOpen(s) PROVE LiveInv'
  BY <1>4, <1>t DEF OnOpen, LiveInv, TypeOK, OneLiveSocket, IdsAreFresh, SocketStates, SocketMaps,
     Live, Quiet
<1>5. ASSUME NEW s \in Sockets, OnMessage(s) PROVE LiveInv'
  BY <1>5, <1>t DEF OnMessage, LiveInv, TypeOK, OneLiveSocket, IdsAreFresh, Quiet
<1>6. ASSUME NEW s \in Sockets, BrokerCloses(s) PROVE LiveInv'
  BY <1>6, <1>t DEF BrokerCloses, LiveInv, TypeOK, OneLiveSocket, IdsAreFresh, SocketStates,
     SocketMaps, Live, Quiet
<1>7. ASSUME NEW s \in Sockets, NEW normally \in BOOLEAN, OnClose(s, normally) PROVE LiveInv'
  <2> DEFINE closed == [socket EXCEPT ![s] = "free"]
  <2>1. /\ closed \in SocketMaps
        /\ \A r \in Sockets : closed[r] \in Live => r = ws
    BY <1>t DEF SocketStates, SocketMaps, Live
  <2>2. closed[ws] \in Live => socket[ws] \in Live
    BY <1>t DEF SocketMaps, Live
  <2>3. UNCHANGED <<call, counter, subscriptions>> /\ session' = [session EXCEPT ![s] = "none"]
    BY <1>7 DEF OnClose
  <2>4. /\ session' \in [Sockets -> {"none", "asked", "up"}]
        /\ \A r \in Sockets : closed[r] \in Quiet => session'[r] = "none"
    BY <2>3, <1>t DEF SocketMaps
  <2>5. call' \in [Calls -> CallStates] /\ IdsAreFresh'
    BY <2>3, <1>t DEF TypeOK, IdsAreFresh
  <2>6. CASE /\ Pending /\ socket' = closed
             /\ UNCHANGED <<ws, opened, connected, pc, attempt, served, leaving>>
    <3>1. TypeOK'
      BY <2>1, <2>3, <2>4, <2>6, <1>t DEF TypeOK, SocketMaps
    <3> QED
      BY <2>1, <2>2, <2>3, <2>4, <2>5, <2>6, <3>1, <1>t DEF LiveInv, OneLiveSocket, Live
  <2>7. CASE /\ ~ Pending /\ socket' = CleanedUp(closed) /\ ResetFlags
             /\ UNCHANGED <<ws, pc, attempt, served, leaving>>
    <3> HIDE DEF closed
    <3>1. /\ socket' \in SocketMaps
          /\ \A r \in Sockets : socket'[r] \notin Live
          /\ \A r \in Sockets : socket'[r] \in Quiet => closed[r] \in Quiet
      BY <2>1, <2>7, <1>t, CleanEffect
    <3>2. opened' = FALSE /\ connected' = FALSE
      BY <2>7 DEF ResetFlags
    <3>3. TypeOK'
      BY <2>3, <2>4, <2>7, <3>1, <3>2, <1>t DEF TypeOK, SocketMaps
    <3> QED
      BY <2>3, <2>4, <2>5, <2>7, <3>1, <3>3, <1>t DEF LiveInv, OneLiveSocket, Live
  <2>8. CASE Reconnect(closed)
    BY <2>1, <2>3, <2>4, <2>5, <2>8, ReconnectKeepsLive
  <2> QED
    BY <1>7, <2>6, <2>7, <2>8 DEF OnClose
<1>8. ASSUME NEW s \in Sockets, OnError(s) PROVE LiveInv'
  <2> DEFINE failed == [socket EXCEPT ![s] = "closing"]
  <2>1. /\ failed \in SocketMaps
        /\ \A r \in Sockets : failed[r] \in Live => r = ws
        /\ \A r \in Sockets : failed[r] \in Quiet => session[r] = "none"
    BY <1>t DEF SocketStates, SocketMaps, Live, Quiet
  <2>2. failed[ws] \in Live => socket[ws] \in Live
    BY <1>t DEF SocketMaps, Live
  <2>3. UNCHANGED <<session, call, counter, subscriptions>>
    BY <1>8 DEF OnError
  <2>4. call' \in [Calls -> CallStates] /\ IdsAreFresh'
    BY <2>3, <1>t DEF TypeOK, IdsAreFresh
  <2>5. CASE /\ socket' = failed
             /\ UNCHANGED <<ws, opened, connected, pc, attempt, served, leaving>>
    <3>1. TypeOK'
      BY <2>1, <2>3, <2>5, <1>t DEF TypeOK, SocketMaps
    <3> QED
      BY <2>1, <2>2, <2>3, <2>4, <2>5, <3>1, <1>t DEF LiveInv, OneLiveSocket, Live
  <2>6. CASE Reconnect(failed)
    BY <2>1, <2>3, <2>4, <2>6, <1>t, ReconnectKeepsLive
  <2> QED
    BY <1>8, <2>5, <2>6 DEF OnError
<1>9. ASSUME NEW c \in Calls, SendAtOnce(c) \/ SubscribeAtOnce(c) PROVE LiveInv'
  <2>1. UNCHANGED <<session, ws, opened, connected, pc, attempt>>
    BY <1>9 DEF SendAtOnce, SubscribeAtOnce
  <2>2. /\ session' \in [Sockets -> {"none", "asked", "up"}]
        /\ \A s \in Sockets : socket[s] \in Quiet => session'[s] = "none"
        /\ pc' \in Places
    BY <2>1, <1>t DEF TypeOK
  <2>3. CASE SendAtOnce(c)
    BY <2>1, <2>2, <2>3, TransmitKeepsLive DEF SendAtOnce
  <2>4. CASE SubscribeAtOnce(c)
    BY <2>1, <2>2, <2>4, TransmitKeepsLive DEF SubscribeAtOnce
  <2> QED
    BY <1>9, <2>3, <2>4
<1>10. ASSUME NEW c \in Calls, SendAfterReconnect(c) \/ SubscribeAfterReconnect(c) PROVE LiveInv'
  <2>1. PICK state \in {"sends", "subscribes"} : AwaitConnection(c, state)
    BY <1>10 DEF SendAfterReconnect, SubscribeAfterReconnect
  <2>2. call' \in [Calls -> CallStates] /\ IdsAreFresh'
    BY <2>1, <1>t DEF AwaitConnection, TypeOK, CallStates, IdsAreFresh
  <2>3. UNCHANGED <<session, counter, subscriptions>>
    BY <2>1 DEF AwaitConnection
  <2>4. CASE UNCHANGED <<connection, served, leaving>>
    BY <2>2, <2>3, <2>4, <1>t DEF LiveInv, TypeOK, OneLiveSocket
  <2>5. CASE Reconnect(socket)
    BY <2>2, <2>3, <2>5, <1>t, ReconnectKeepsLive
  <2> QED
    BY <2>1, <2>4, <2>5 DEF AwaitConnection
<1>11. ASSUME NEW c \in Calls, CallReturns(c) PROVE LiveInv'
  BY <1>11, <1>t DEF CallReturns, LiveInv, TypeOK, OneLiveSocket, IdsAreFresh, CallStates
<1>12. ASSUME NEW i \in subscriptions, Unsubscribe(i) PROVE LiveInv'
  <2>1. /\ subscriptions' = subscriptions \ {i}
        /\ session' = session /\ ws' = ws /\ pc' = pc /\ attempt' = attempt
        /\ opened' = opened /\ connected' = connected
        /\ call' = call /\ counter' = counter
    BY <1>12 DEF Unsubscribe
  <2>2. /\ socket' \in SocketMaps
        /\ \A s \in Sockets :
              /\ socket'[s] \in Live => socket[s] \in Live
              /\ socket'[s] \in Quiet => socket[s] \in Quiet
    BY <1>12, <1>t DEF Unsubscribe, Broken, SocketMaps, SocketStates, Live, Quiet
  <2>3. served' = served /\ leaving' \subseteq leaving \cup {i} /\ leaving \subseteq leaving'
    BY <1>12 DEF Unsubscribe
  <2>4. socket'[ws] \in Live => served' \subseteq subscriptions' \cup leaving'
    <3>1. CASE socket[ws] = "open" /\ leaving' = leaving \cup {i}
      BY <2>1, <2>3, <3>1, <1>t DEF Live
    <3>2. CASE socket[ws] # "open" /\ UNCHANGED <<leaving, socket>>
      <4>1. CASE socket[ws] = "connecting"
        BY <2>3, <4>1, <1>t
      <4> QED
        BY <3>2, <4>1, <1>t DEF Live
    <3>3. CASE socket[ws] = "open" /\ socket' = [socket EXCEPT ![ws] = Broken(@)]
      BY <3>3, <1>t DEF Broken, Live, SocketMaps
    <3> QED
      BY <1>12, <3>1, <3>2, <3>3 DEF Unsubscribe
  <2>5. TypeOK'
    BY <2>1, <2>2, <2>3, <1>t DEF TypeOK, SocketMaps
  <2>6. OneLiveSocket' /\ IdsAreFresh'
    BY <2>1, <2>2, <1>t DEF OneLiveSocket, IdsAreFresh, Live
  <2>7. socket'[ws] = "connecting" => served' = {}
    BY <1>12, <1>t DEF Unsubscribe, Broken, SocketMaps
  <2>8. (pc' = "sleep" => socket'[ws'] \notin Live)
        /\ \A s \in Sockets : socket'[s] \in Quiet => session'[s] = "none"
    BY <2>1, <2>2, <1>t DEF LiveInv
  <2> QED
    BY <2>1, <2>4, <2>5, <2>6, <2>7, <2>8 DEF LiveInv
<1>13. CASE Disconnect
  <2>1. /\ socket' \in SocketMaps
        /\ \A s \in Sockets : socket'[s] \notin Live
        /\ \A s \in Sockets : socket'[s] \in Quiet => socket[s] \in Quiet
    BY <1>13, <1>t, CleanEffect DEF Disconnect
  <2>2. /\ opened' = FALSE /\ connected' = FALSE
        /\ UNCHANGED <<session, ws, pc, attempt, call, subscribed>>
    BY <1>13 DEF Disconnect, ResetFlags
  <2>3. TypeOK'
    BY <2>1, <2>2, <1>t DEF TypeOK, SocketMaps
  <2> QED
    BY <2>1, <2>2, <2>3, <1>t DEF LiveInv, OneLiveSocket, IdsAreFresh, Live
<1>14. ASSUME NEW i \in leaving, BrokerUnsubscribes(i) PROVE LiveInv'
  <2>1. served' = served \ {i} /\ leaving' = leaving \ {i}
    BY <1>14 DEF BrokerUnsubscribes
  <2>2. UNCHANGED <<connection, call, counter, subscriptions>>
    BY <1>14 DEF BrokerUnsubscribes
  <2>3. TypeOK'
    BY <2>1, <2>2, <1>t DEF TypeOK
  <2>4. socket'[ws'] \in Live => served' \subseteq subscriptions' \cup leaving'
    BY <2>1, <2>2, <1>t
  <2> QED
    BY <2>1, <2>2, <2>3, <2>4, <1>t DEF LiveInv, OneLiveSocket, IdsAreFresh
<1>15. CASE UNCHANGED vars
  BY <1>15 DEF vars, LiveInv, TypeOK, OneLiveSocket, IdsAreFresh
<1> QED
  BY <1>1, <1>2, <1>3, <1>4, <1>5, <1>6, <1>7, <1>8, <1>9, <1>10, <1>11, <1>12, <1>13, <1>14, <1>15
  DEF Next, ConnectStep, SocketStep, CallStep

(* Every variable of the client keeps its type; attempts are bounded.        *)
THEOREM TypeCorrect == Spec => []TypeOK
<1>1. LiveInv => TypeOK
  BY DEF LiveInv
<1> QED
  BY <1>1, LiveInit, LiveStep, PTL DEF Spec

(* At any moment the client has one socket that is not closed, at most,      *)
(* whatever order the events of old and new sockets come in.                 *)
THEOREM NoLeak == Spec => []OneLiveSocket
<1>1. LiveInv => OneLiveSocket
  BY DEF LiveInv
<1> QED
  BY <1>1, LiveInit, LiveStep, PTL DEF Spec

(* No two calls of subscribe get one id, however many wait for a connection. *)
THEOREM FreshIds == Spec => []IdsAreFresh
<1>1. LiveInv => IdsAreFresh
  BY DEF LiveInv
<1> QED
  BY <1>1, LiveInit, LiveStep, PTL DEF Spec

(* A message of the client's socket finds the callback of its subscription,  *)
(* or UNSUBSCRIBE is on its way: no other message is dropped.                *)
THEOREM Handled == Spec => []MessagesAreHandled
<1>1. LiveInv => MessagesAreHandled
  BY DEF LiveInv, MessagesAreHandled, Live
<1> QED
  BY <1>1, LiveInit, LiveStep, PTL DEF Spec

------------------------------------------------------------------------------
(* What isConnected says.                                                   *)

\* The flag is only set past an attempt, while the socket lives or its close
\* event is still to come.
SessionInv ==
    /\ connected => /\ pc = "off"
                    /\ session[ws] = "up"
                    /\ socket[ws] \in {"open", "closing"}
    /\ pc = "wait" => session[ws] = "none"
    /\ SendAfterConnect

\* Every step keeps SessionInv, if frames of closed sockets do not arrive.
LEMMA SessionStep ==
    ASSUME "stale" \notin Faults, LiveInv, SessionInv, [Next]_vars
    PROVE  SessionInv'
<1> USE DEF connection, subscribed
<1>t. /\ TypeOK /\ ws \in Sockets /\ socket \in SocketMaps
      /\ session \in [Sockets -> {"none", "asked", "up"}]
      /\ connected \in BOOLEAN
      /\ call \in [Calls -> CallStates]
      /\ \A s \in Sockets : socket[s] \in Live => s = ws
      /\ \A s \in Sockets : socket[s] \in Quiet => session[s] = "none"
  BY DEF LiveInv, TypeOK, OneLiveSocket, Live, SocketMaps
\* A step that reconnects.
<1>r. ASSUME NEW sockets \in SocketMaps, Reconnect(sockets),
             \A s \in Sockets : sockets[s] \in Live => s = ws,
             \A s \in Sockets : sockets[s] \in Quiet => session'[s] = "none",
             SendAfterConnect'
      PROVE  SessionInv'
  <2>1. session'[ws'] = "none" /\ connected' = FALSE
    BY <1>r, <1>t, ReconnectEffect
  <2> QED
    BY <2>1, <1>r DEF SessionInv
\* A step that writes frames after CONNECT.
<1>w. ASSUME NEW senders \in SUBSET Calls, NEW subscribers \in SUBSET Calls,
             NEW asked, asked, Transmit(senders, subscribers, asked),
             ws' = ws, connected' = connected, pc' = "off",
             connected => pc = "off" /\ session' = session
      PROVE  SessionInv'
  <2>1. /\ \A s \in Sockets :
              socket'[s] = socket[s] \/ (socket[s] = "open" /\ socket'[s] = "closing")
        /\ \A c \in Calls : call'[c] = "early" => call[c] = "early"
    BY <1>w, <1>t, TransmitEffect
  <2>2. SendAfterConnect'
    BY <2>1 DEF SessionInv, SendAfterConnect
  <2>3. connected' => socket'[ws'] \in {"open", "closing"} /\ session'[ws'] = "up"
    BY <2>1, <1>w, <1>t DEF SessionInv
  <2> QED
    BY <2>2, <2>3, <1>w DEF SessionInv
<1>1. CASE WriteConnect
  <2>1. ~ connected
    BY <1>1 DEF WriteConnect, SessionInv
  <2>2. In("sends") \in SUBSET Calls /\ In("subscribes") \in SUBSET Calls
    BY DEF In
  <2>3. Transmit(In("sends"), In("subscribes"), TRUE)
    BY <1>1 DEF WriteConnect
  <2>4. ws' = ws /\ connected' = connected /\ pc' = "off"
    BY <1>1 DEF WriteConnect
  <2> QED
    BY <2>1, <2>2, <2>3, <2>4, <1>w
<1>2. CASE AttemptFails
  <2>1. SendAfterConnect'
    BY <1>2, <1>t DEF AttemptFails, GiveUp, SessionInv, SendAfterConnect
  <2>2. connected' = FALSE
    BY <1>2, <1>t DEF AttemptFails, ResetFlags, SessionInv
  <2>3. pc' # "wait"
    BY <1>2 DEF AttemptFails, GiveUp
  <2> QED
    BY <2>1, <2>2, <2>3 DEF SessionInv
<1>3. CASE NextAttempt
  <2>1. session'[ws'] = "none"
    <3>1. ws' \in Sockets /\ socket[ws'] = "free"
      BY <1>3, <1>t, CreateEffect DEF NextAttempt
    <3> QED
      BY <1>3, <3>1, <1>t DEF NextAttempt, Quiet
  <2>2. connected' = FALSE
    BY <1>3, <1>t DEF NextAttempt, SessionInv
  <2> QED
    BY <1>3, <2>1, <2>2 DEF NextAttempt, SessionInv, SendAfterConnect
<1>4. ASSUME NEW s \in Sockets, OnOpen(s) PROVE SessionInv'
  BY <1>4, <1>t DEF OnOpen, SessionInv, SendAfterConnect, SocketMaps
<1>5. ASSUME NEW s \in Sockets, OnMessage(s) PROVE SessionInv'
  <2>1. socket[s] = "open" /\ s = ws
    BY <1>5, <1>t DEF OnMessage, Live
  <2>2. pc # "wait" /\ pc # "sleep"
    BY <1>5, <2>1 DEF OnMessage, SessionInv, LiveInv, Live
  <2>3. pc = "off"
    BY <2>2, <1>t DEF TypeOK, Places
  <2> QED
    BY <1>5, <2>1, <2>3, <1>t DEF OnMessage, SessionInv, SendAfterConnect
<1>6. ASSUME NEW s \in Sockets, BrokerCloses(s) PROVE SessionInv'
  BY <1>6, <1>t DEF BrokerCloses, SessionInv, SendAfterConnect, SocketMaps
<1>7. ASSUME NEW s \in Sockets, NEW normally \in BOOLEAN, OnClose(s, normally) PROVE SessionInv'
  <2> DEFINE closed == [socket EXCEPT ![s] = "free"]
  <2>1. SendAfterConnect' /\ session' = [session EXCEPT ![s] = "none"]
    BY <1>7 DEF OnClose, SessionInv, SendAfterConnect
  <2>2. session'[ws] = session[ws] \/ session'[ws] = "none"
    BY <2>1, <1>t
  <2>3. CASE Pending /\ UNCHANGED <<ws, opened, connected, pc, attempt, served, leaving>>
    <3>1. connected' = FALSE
      BY <2>3, <1>t DEF Pending, SessionInv
    <3> QED
      BY <2>1, <2>2, <2>3, <3>1 DEF SessionInv
  <2>4. CASE ResetFlags /\ UNCHANGED <<ws, pc, attempt, served, leaving>>
    BY <2>1, <2>2, <2>4 DEF ResetFlags, SessionInv
  <2>5. CASE Reconnect(closed)
    <3>1. /\ closed \in SocketMaps
          /\ \A r \in Sockets : closed[r] \in Live => r = ws
          /\ \A r \in Sockets : closed[r] \in Quiet => session'[r] = "none"
      BY <2>1, <1>t DEF SocketStates, SocketMaps, Live
    <3> QED
      BY <2>1, <2>5, <3>1, <1>r
  <2> QED
    BY <1>7, <2>3, <2>4, <2>5 DEF OnClose
<1>8. ASSUME NEW s \in Sockets, OnError(s) PROVE SessionInv'
  <2> DEFINE failed == [socket EXCEPT ![s] = "closing"]
  <2>1. SendAfterConnect' /\ session' = session
    BY <1>8 DEF OnError, SessionInv, SendAfterConnect
  <2>2. CASE Pending /\ UNCHANGED <<ws, opened, connected, pc, attempt, served, leaving>>
    <3>1. connected' = FALSE
      BY <2>2, <1>t DEF Pending, SessionInv
    <3> QED
      BY <2>1, <2>2, <3>1 DEF SessionInv
  <2>3. CASE Reconnect(failed)
    <3>1. /\ failed \in SocketMaps
          /\ \A r \in Sockets : failed[r] \in Live => r = ws
          /\ \A r \in Sockets : failed[r] \in Quiet => session'[r] = "none"
      BY <2>1, <1>t DEF SocketStates, SocketMaps, Live, Quiet
    <3> QED
      BY <2>1, <2>3, <3>1, <1>r
  <2> QED
    BY <1>8, <2>2, <2>3 DEF OnError
<1>9. ASSUME NEW c \in Calls, SendAtOnce(c) \/ SubscribeAtOnce(c) PROVE SessionInv'
  <2>1. connected /\ IsAsked /\ pc = "off"
    BY <1>9 DEF SendAtOnce, SubscribeAtOnce, IsReady, IsAsked, SessionInv
  <2>2. UNCHANGED <<session, ws, opened, connected, pc, attempt>>
    BY <1>9 DEF SendAtOnce, SubscribeAtOnce
  <2>3. Transmit({c}, {}, IsAsked) \/ Transmit({}, {c}, IsAsked)
    BY <1>9 DEF SendAtOnce, SubscribeAtOnce
  <2>4. {c} \in SUBSET Calls /\ {} \in SUBSET Calls
    OBVIOUS
  <2> HIDE DEF IsAsked
  <2> QED
    BY <2>1, <2>2, <2>3, <2>4, <1>w
<1>10. ASSUME NEW c \in Calls, SendAfterReconnect(c) \/ SubscribeAfterReconnect(c)
       PROVE  SessionInv'
  <2>1. PICK state \in {"sends", "subscribes"} : AwaitConnection(c, state)
    BY <1>10 DEF SendAfterReconnect, SubscribeAfterReconnect
  <2>2. SendAfterConnect' /\ session' = session
    BY <2>1, <1>t DEF AwaitConnection, SessionInv, SendAfterConnect
  <2>3. CASE UNCHANGED <<connection, served, leaving>>
    BY <2>2, <2>3 DEF SessionInv
  <2>4. CASE Reconnect(socket)
    BY <2>2, <2>4, <1>t, <1>r
  <2> QED
    BY <2>1, <2>3, <2>4 DEF AwaitConnection
<1>11. ASSUME NEW c \in Calls, CallReturns(c) PROVE SessionInv'
  BY <1>11, <1>t DEF CallReturns, SessionInv, SendAfterConnect
<1>12. ASSUME NEW i \in subscriptions, Unsubscribe(i) PROVE SessionInv'
  <2>1. session' = session /\ ws' = ws /\ connected' = connected /\ pc' = pc /\ call' = call
    BY <1>12 DEF Unsubscribe
  <2>2. socket[ws] \in {"open", "closing"} => socket'[ws] \in {"open", "closing"}
    BY <1>12, <1>t DEF Unsubscribe, Broken, SocketMaps
  <2> QED
    BY <2>1, <2>2 DEF SessionInv, SendAfterConnect
<1>13. CASE Disconnect
  BY <1>13 DEF Disconnect, ResetFlags, SessionInv, SendAfterConnect
<1>14. ASSUME NEW i \in leaving, BrokerUnsubscribes(i) PROVE SessionInv'
  BY <1>14 DEF BrokerUnsubscribes, SessionInv, SendAfterConnect
<1>15. CASE UNCHANGED vars
  BY <1>15 DEF vars, SessionInv, SendAfterConnect
<1> QED
  BY <1>1, <1>2, <1>3, <1>4, <1>5, <1>6, <1>7, <1>8, <1>9, <1>10, <1>11, <1>12, <1>13, <1>14, <1>15
  DEF Next, ConnectStep, SocketStep, CallStep

\* SessionInv is an invariant if no frame arrives on a closed socket.
LEMMA Sessions ==
    ASSUME "stale" \notin Faults
    PROVE  Spec => []SessionInv
<1>1. Init => SessionInv
  BY DEF Init, SessionInv, SendAfterConnect
<1>2. LiveInv /\ SessionInv /\ [Next]_vars => SessionInv'
  BY SessionStep
<1> QED
  BY <1>1, <1>2, LiveInit, LiveStep, PTL DEF Spec

(* isConnected, which send goes by, is true of the socket that is written to. *)
THEOREM TrueConnections ==
    ASSUME "stale" \notin Faults
    PROVE  Spec => []ConnectedIsTrue
<1>1. SessionInv => ConnectedIsTrue
  BY DEF SessionInv, ConnectedIsTrue
<1> QED
  BY <1>1, Sessions, PTL

(* No SEND and no SUBSCRIBE is written to a socket before CONNECT.            *)
THEOREM ConnectFirst ==
    ASSUME "stale" \notin Faults
    PROVE  Spec => []SendAfterConnect
<1>1. SessionInv => SendAfterConnect
  BY DEF SessionInv
<1> QED
  BY <1>1, Sessions, PTL

(* No dead socket passes for a working one without anything on its way that  *)
(* will show it.                                                             *)
THEOREM Noticed ==
    ASSUME "stale" \notin Faults
    PROVE  Spec => []DeathIsNoticed
<1>1. SessionInv => DeathIsNoticed
  BY DEF SessionInv, DeathIsNoticed
<1> QED
  BY <1>1, Sessions, PTL

------------------------------------------------------------------------------
(* How connectionPromise settles.                                           *)

Waiting == {"sends", "subscribes"}

\* The awaits of connectWithRetry that are still to come, at most.
Rank == IF Pending THEN 2 * (ReconnectAttempts - attempt) + (IF pc = "wait" THEN 1 ELSE 2) ELSE 0

\* A call waits only while there is a promise that it waits for.
WaitersArePromised == \A c \in Calls : call[c] \in Waiting => Pending

\* No step but one of connectWithRetry touches the attempts, or makes a call
\* stop waiting; each of those brings the end nearer.
CountsDown ==
    \/ ~ Pending
    \/ ConnectStep /\ Rank' < Rank
    \/ /\ pc' = pc /\ attempt' = attempt
       /\ \A c \in Calls : call[c] \in Waiting => call'[c] = call[c]

\* Calls that write wait no more, the others do as before.
LEMMA TransmitCalls ==
    ASSUME NEW senders \in SUBSET Calls, NEW subscribers \in SUBSET Calls,
           NEW asked, Transmit(senders, subscribers, asked)
    PROVE  \A c \in Calls :
              /\ c \in senders \cup subscribers => call'[c] \notin Waiting
              /\ c \notin senders \cup subscribers => call'[c] = call[c]
<1>1. PICK lost \in SUBSET (senders \cup subscribers), next \in counter .. Subscriptions :
      \E id \in Ids(subscribers, next) :
        call' = [d \in Calls |->
                     IF d \in lost THEN "failed"
                     ELSE IF d \in senders \cup subscribers THEN Fate(d, id, asked)
                     ELSE call[d]]
  BY DEF Transmit
<1>2. PICK id \in Ids(subscribers, next) :
        call' = [d \in Calls |->
                     IF d \in lost THEN "failed"
                     ELSE IF d \in senders \cup subscribers THEN Fate(d, id, asked)
                     ELSE call[d]]
  BY <1>1
<1>3. \A c \in Calls : Fate(c, id, asked) \in {"early", "clash", "idle"}
  BY DEF Fate
<1> QED
  BY <1>2, <1>3 DEF Waiting

\* A step of connectWithRetry goes on to the next await, or settles and leaves
\* no call that waits.
LEMMA ConnectEffect ==
    ASSUME TypeOK, ConnectStep
    PROVE  Pending /\ Rank' < Rank /\ WaitersArePromised'
<1> USE StompAssumption
<1>t. attempt \in 1 .. ReconnectAttempts /\ call \in [Calls -> CallStates]
  BY DEF TypeOK
<1>1. CASE WriteConnect
  <2>1. Transmit(In("sends"), In("subscribes"), TRUE) /\ pc = "wait" /\ pc' = "off"
    BY <1>1 DEF WriteConnect
  <2>2. In("sends") \in SUBSET Calls /\ In("subscribes") \in SUBSET Calls
    BY DEF In
  <2>3. \A c \in Calls : call'[c] \notin Waiting
    <3> SUFFICES ASSUME NEW c \in Calls PROVE call'[c] \notin Waiting
      OBVIOUS
    <3>1. /\ c \in In("sends") \cup In("subscribes") => call'[c] \notin Waiting
          /\ c \notin In("sends") \cup In("subscribes") => call'[c] = call[c]
      BY <2>1, <2>2, TransmitCalls
    <3>2. c \notin In("sends") \cup In("subscribes") => call[c] \notin Waiting
      BY DEF In, Waiting
    <3> QED
      BY <3>1, <3>2
  <2>4. Rank = 2 * (ReconnectAttempts - attempt) + 1 /\ Rank' = 0
    BY <2>1 DEF Rank, Pending
  <2> QED
    BY <2>1, <2>3, <2>4, <1>t DEF WaitersArePromised, Pending
<1>2. CASE AttemptFails
  <2>1. pc = "wait" /\ Rank = 2 * (ReconnectAttempts - attempt) + 1
    BY <1>2 DEF AttemptFails, Rank, Pending
  <2>2. CASE IsLastAttempt
    <3>1. pc' = "off" /\ \A c \in Calls : call'[c] \notin Waiting
      BY <1>2, <2>2 DEF AttemptFails, GiveUp, Waiting
    <3>2. Rank' = 0
      BY <3>1 DEF Rank, Pending
    <3> QED
      BY <2>1, <3>1, <3>2, <1>t DEF WaitersArePromised, Pending
  <2>3. CASE ~ IsLastAttempt
    <3>1. pc' = "sleep" /\ attempt' = attempt + 1
      BY <1>2, <2>3 DEF AttemptFails
    <3>2. Rank' = 2 * (ReconnectAttempts - attempt') + 2
      BY <3>1 DEF Rank, Pending
    <3> QED
      BY <2>1, <3>1, <3>2, <1>t DEF WaitersArePromised, Pending
  <2> QED
    BY <2>2, <2>3
<1>3. CASE NextAttempt
  <2>1. pc = "sleep" /\ pc' = "wait" /\ attempt' = attempt
    BY <1>3 DEF NextAttempt
  <2>2. /\ Rank = 2 * (ReconnectAttempts - attempt) + 2
        /\ Rank' = 2 * (ReconnectAttempts - attempt) + 1
    BY <2>1 DEF Rank, Pending
  <2> QED
    BY <2>1, <2>2, <1>t DEF WaitersArePromised, Pending
<1> QED
  BY <1>1, <1>2, <1>3 DEF ConnectStep

\* What the other steps do to the attempts and to the calls that wait.
LEMMA OthersEffect ==
    ASSUME TypeOK, WaitersArePromised, [Next]_vars, ~ ConnectStep
    PROVE  /\ \/ pc' = pc /\ attempt' = attempt
              \/ ~ Pending /\ pc' = "wait"
           /\ \A c \in Calls : call[c] \in Waiting => call'[c] = call[c]
           /\ WaitersArePromised'
<1> USE DEF connection
<1>t. call \in [Calls -> CallStates]
  BY DEF TypeOK
\* A step that leaves the calls alone.
<1>s. ASSUME call' = call, (pc' = pc /\ attempt' = attempt) \/ (~ Pending /\ pc' = "wait")
      PROVE  /\ \A c \in Calls : call[c] \in Waiting => call'[c] = call[c]
             /\ WaitersArePromised'
  BY <1>s DEF WaitersArePromised, Pending
<1>1. ASSUME NEW s \in Sockets, SocketStep(s)
      PROVE  call' = call /\ ((pc' = pc /\ attempt' = attempt) \/ (~ Pending /\ pc' = "wait"))
  BY <1>1 DEF SocketStep, OnOpen, OnMessage, BrokerCloses, OnClose, OnError, Reconnect
<1>2. ASSUME NEW c \in Calls, SendAtOnce(c) \/ SubscribeAtOnce(c)
      PROVE  /\ pc' = pc /\ attempt' = attempt
             /\ \A d \in Calls : call[d] \in Waiting => call'[d] = call[d]
             /\ WaitersArePromised'
  <2>1. /\ call[c] = "idle" /\ pc' = pc /\ attempt' = attempt
        /\ Transmit({c}, {}, IsAsked) \/ Transmit({}, {c}, IsAsked)
    BY <1>2 DEF SendAtOnce, SubscribeAtOnce
  <2> HIDE DEF IsAsked
  <2>2. {c} \in SUBSET Calls /\ {} \in SUBSET Calls
    OBVIOUS
  <2>3. \A d \in Calls : /\ d = c => call'[d] \notin Waiting
                         /\ d # c => call'[d] = call[d]
    BY <2>1, <2>2, TransmitCalls
  <2> QED
    BY <2>1, <2>3 DEF WaitersArePromised, Waiting, Pending
<1>3. ASSUME NEW c \in Calls, SendAfterReconnect(c) \/ SubscribeAfterReconnect(c)
      PROVE  /\ (pc' = pc /\ attempt' = attempt) \/ (~ Pending /\ pc' = "wait")
             /\ \A d \in Calls : call[d] \in Waiting => call'[d] = call[d]
             /\ WaitersArePromised'
  <2>1. PICK state \in {"sends", "subscribes"} : AwaitConnection(c, state) /\ call[c] = "idle"
    BY <1>3 DEF SendAfterReconnect, SubscribeAfterReconnect
  <2>2. (Pending /\ pc' = pc /\ attempt' = attempt) \/ (~ Pending /\ pc' = "wait")
    BY <2>1 DEF AwaitConnection, Reconnect
  <2>3. \A d \in Calls : d # c => call'[d] = call[d]
    BY <2>1, <1>t DEF AwaitConnection
  <2> QED
    BY <2>1, <2>2, <2>3 DEF WaitersArePromised, Waiting, Pending
<1>4. ASSUME NEW c \in Calls, CallReturns(c)
      PROVE  /\ pc' = pc /\ attempt' = attempt
             /\ \A d \in Calls : call[d] \in Waiting => call'[d] = call[d]
             /\ WaitersArePromised'
  BY <1>4, <1>t DEF CallReturns, WaitersArePromised, Waiting, Pending
<1>5. ASSUME \/ \E i \in subscriptions : Unsubscribe(i)
             \/ \E i \in leaving : BrokerUnsubscribes(i)
             \/ Disconnect
             \/ UNCHANGED vars
      PROVE  call' = call /\ pc' = pc /\ attempt' = attempt
  BY <1>5 DEF Unsubscribe, BrokerUnsubscribes, Disconnect, vars
<1> QED
  BY <1>s, <1>1, <1>2, <1>3, <1>4, <1>5 DEF Next, CallStep

(* No call of send or subscribe waits for a promise that nobody settles:      *)
(* while one waits, connectWithRetry runs.                                   *)
THEOREM NoForgottenCall == Spec => []WaitersArePromised
<1>1. Init => WaitersArePromised
  BY DEF Init, WaitersArePromised, Pending
<1>2. LiveInv /\ WaitersArePromised /\ [Next]_vars => WaitersArePromised'
  BY ConnectEffect, OthersEffect DEF LiveInv
<1> QED
  BY <1>1, <1>2, LiveInit, LiveStep, PTL DEF Spec

(* connectWithRetry ends: each of its steps lowers Rank, a natural number      *)
(* below 2 * ReconnectAttempts, and no event of a socket, call, unsubscribe or *)
(* disconnect starts it over or takes a call from it before it has settled.    *)
THEOREM SettlesInTime ==
    Spec => [](Rank \in 0 .. 2 * ReconnectAttempts) /\ [][CountsDown]_vars
<1>1. LiveInv => Rank \in 0 .. 2 * ReconnectAttempts
  BY StompAssumption DEF LiveInv, TypeOK, Rank
<1>2. LiveInv /\ WaitersArePromised /\ [Next]_vars => CountsDown
  <2> SUFFICES ASSUME LiveInv, WaitersArePromised, [Next]_vars PROVE CountsDown
    OBVIOUS
  <2>1. TypeOK
    BY DEF LiveInv
  <2>2. CASE ConnectStep
    BY <2>1, <2>2, ConnectEffect DEF CountsDown
  <2>3. CASE ~ ConnectStep
    BY <2>1, <2>3, OthersEffect DEF CountsDown
  <2> QED
    BY <2>2, <2>3
<1> QED
  BY <1>1, <1>2, LiveInit, LiveStep, NoForgottenCall, PTL DEF Spec
=============================================================================
