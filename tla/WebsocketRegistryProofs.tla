------------------------ MODULE WebsocketRegistryProofs ------------------------
(***************************************************************************)
(* Proofs about the registries of superset-websocket, for any number of    *)
(* channels and sockets, and any intervals that fit together.              *)
(***************************************************************************)
EXTENDS WebsocketRegistry, TLAPS

USE DEF timerVars

LEMMA AtMostBounds ==
    ASSUME NEW n \in Nat, NEW limit \in Nat
    PROVE  AtMost(n, limit) \in 0 .. limit /\ AtMost(n, limit) <= n
  BY DEF AtMost

\* Every variable keeps its type.
THEOREM TypeCorrect == Spec => []TypeOK
  <1> USE RegistryAssumption
  <1>0. NoSend \in Send
    BY DEF NoSend, Send
  <1>1. Init => TypeOK
    BY <1>0 DEF Init, TypeOK, ReadyStates, Peers
  <1>2. ASSUME TypeOK, [Next]_vars PROVE TypeOK'
    <2>0. /\ channels \in [Channels -> SUBSET Ids] /\ sockets \in SUBSET Ids
          /\ channelOf \in [Ids -> Channels] /\ ready \in [Ids -> ReadyStates]
          /\ peer \in [Ids -> Peers] /\ age \in [Ids -> 0 .. SocketTimeout]
          /\ asked \in [Ids -> 0 .. PongDelay + 1] /\ sending \in Send
          /\ sincePing \in 0 .. PingInterval + Late
          /\ sinceGc \in 0 .. GcInterval + Late
      BY <1>2 DEF TypeOK
    <2>1. ASSUME NEW s \in Ids, Connect(s) PROVE TypeOK'
      <3>1. channels' \in [Channels -> SUBSET Ids]
        BY <2>0, <2>1 DEF Connect
      <3>2. age' \in [Ids -> 0 .. SocketTimeout] /\ asked' \in [Ids -> 0 .. PongDelay + 1]
        BY <2>0, <2>1 DEF Connect
      <3>3. ready' \in [Ids -> ReadyStates] /\ peer' \in [Ids -> Peers]
        BY <2>0, <2>1 DEF Connect, ReadyStates, Peers
      <3> QED
        BY <2>0, <2>1, <3>1, <3>2, <3>3 DEF Connect, TypeOK
    <2>2. ASSUME NEW s \in Ids, PageCloses(s) PROVE TypeOK'
      BY <2>0, <2>2 DEF PageCloses, ReadyStates, TypeOK
    <2>3. ASSUME NEW s \in Ids, PageVanishes(s) PROVE TypeOK'
      BY <2>0, <2>3 DEF PageVanishes, Peers, TypeOK
    <2>4. ASSUME NEW s \in Ids, Pong(s) PROVE TypeOK'
      BY <2>0, <2>4 DEF Pong, TypeOK
    <2>5. ASSUME NEW c \in Channels, SendBegins(c) PROVE TypeOK'
      <3>1. sending' \in Send
        BY <2>0, <2>5 DEF SendBegins, Send
      <3> QED
        BY <2>0, <2>5, <3>1 DEF SendBegins, TypeOK
    <2>6. CASE SendOne
      <3>1. PICK s \in sending.left :
                \/ sending' = [sending EXCEPT !.left = @ \ {s}, !.offered = @ \cup {s}]
                \/ sending' = [sending EXCEPT !.left = @ \ {s}]
        BY <2>6 DEF SendOne
      <3>2. sending' \in Send
        <4>1. /\ sending.left \in SUBSET Ids /\ sending.offered \in SUBSET Ids
              /\ sending.left \ {s} \in SUBSET Ids
              /\ sending.offered \cup {s} \in SUBSET Ids
          BY <2>0 DEF Send
        <4>2. CASE sending' = [sending EXCEPT !.left = @ \ {s}, !.offered = @ \cup {s}]
          BY <2>0, <4>1, <4>2 DEF Send
        <4>3. CASE sending' = [sending EXCEPT !.left = @ \ {s}]
          BY <2>0, <4>1, <4>3 DEF Send
        <4> QED
          BY <3>1, <4>2, <4>3
      <3>3. \/ UNCHANGED channels
            \/ channels' = [channels EXCEPT ![sending.channel] = Active(sending.channel)]
        BY <2>6 DEF SendOne
      <3>4. sending.channel \in Channels
        BY <2>0 DEF Send
      <3>5. channels' \in [Channels -> SUBSET Ids]
        BY <2>0, <3>3, <3>4 DEF Active
      <3> QED
        BY <2>0, <2>6, <3>2, <3>5 DEF SendOne, TypeOK
    <2>7. CASE SendEnds
      BY <1>0, <2>0, <2>7 DEF SendEnds, TypeOK
    <2>8. CASE CheckSockets
      <3>1. ready' \in [Ids -> ReadyStates]
        BY <2>0, <2>8 DEF CheckSockets, ReadyStates
      <3>2. asked' \in [Ids -> 0 .. PongDelay + 1]
        BY <2>0, <2>8 DEF CheckSockets, Pinged
      <3>3. age' \in [Ids -> 0 .. SocketTimeout]
        BY <2>0, <2>8 DEF CheckSockets, Pinged
      <3> QED
        BY <2>0, <2>8, <3>1, <3>2, <3>3 DEF CheckSockets, TypeOK
    <2>9. CASE Gc
      <3>1. channels' \in [Channels -> SUBSET Ids]
        BY <2>0, <2>9 DEF Gc, Active
      <3> QED
        BY <2>0, <2>9, <3>1 DEF Gc, TypeOK
    <2>10. CASE Tick
      <3>1. asked' \in [Ids -> 0 .. PongDelay + 1]
        BY <2>0, <2>10 DEF Tick
      <3>2. age' \in [Ids -> 0 .. SocketTimeout]
        BY <2>0, <2>10, AtMostBounds DEF Tick
      <3> QED
        BY <2>0, <2>10, <3>1, <3>2 DEF Tick, TypeOK
    <2>11. CASE UNCHANGED vars
      BY <2>0, <2>11 DEF vars, TypeOK
    <2> QED
      BY <1>2, <2>1, <2>2, <2>3, <2>4, <2>5, <2>6, <2>7, <2>8, <2>9, <2>10, <2>11 DEF Next
  <1> QED
    BY <1>1, <1>2, PTL DEF Spec

-----------------------------------------------------------------------------
\* What cleanChannel leaves has every open socket of the channel.
LEMMA CleaningKeepsOpen ==
    ASSUME OpenIsRegistered, NEW s \in Ids, ready[s] = "open"
    PROVE  s \in Active(channelOf[s])
  BY DEF OpenIsRegistered, Active

\* An open connection is in both registries.
THEOREM OpenAlwaysRegistered == Spec => []OpenIsRegistered
  <1>1. Init => OpenIsRegistered
    BY DEF Init, OpenIsRegistered
  <1>2. ASSUME TypeOK, OpenIsRegistered, [Next]_vars PROVE OpenIsRegistered'
    <2> USE <1>2 DEF TypeOK
    <2> SUFFICES ASSUME NEW t \in Ids, ready'[t] = "open"
                 PROVE  t \in sockets' /\ t \in channels'[channelOf'[t]]
      BY DEF OpenIsRegistered
    <2> USE DEF OpenIsRegistered
    <2>1. ASSUME NEW s \in Ids, Connect(s)
          PROVE  t \in sockets' /\ t \in channels'[channelOf'[t]]
      BY <2>1 DEF Connect
    <2>2. ASSUME NEW s \in Ids, PageCloses(s) \/ PageVanishes(s) \/ Pong(s)
          PROVE  t \in sockets' /\ t \in channels'[channelOf'[t]]
      BY <2>2 DEF PageCloses, PageVanishes, Pong
    <2>3. CASE \E c \in Channels : SendBegins(c)
      BY <2>3 DEF SendBegins
    <2>4. CASE SendOne
      <3>1. t \in Active(channelOf[t]) /\ channelOf'[t] = channelOf[t]
        BY <2>4, CleaningKeepsOpen DEF SendOne
      <3>2. \/ UNCHANGED channels
            \/ channels' = [channels EXCEPT ![sending.channel] = Active(sending.channel)]
        BY <2>4 DEF SendOne
      <3> QED
        BY <2>4, <3>1, <3>2 DEF SendOne
    <2>5. CASE SendEnds \/ Tick
      BY <2>5 DEF SendEnds, Tick
    <2>6. CASE CheckSockets
      BY <2>6 DEF CheckSockets
    <2>7. CASE Gc
      BY <2>7, CleaningKeepsOpen DEF Gc
    <2>8. CASE UNCHANGED vars
      BY <2>8 DEF vars
    <2> QED
      BY <2>1, <2>2, <2>3, <2>4, <2>5, <2>6, <2>7, <2>8 DEF Next
  <1> QED
    BY <1>1, <1>2, TypeCorrect, PTL DEF Spec

-----------------------------------------------------------------------------
\* While an event is being sent, the open sockets of the channel that it was
\* not sent to yet are still to come in the list as it was at the beginning.
OfferInv ==
    sending.on =>
        \A s \in Ids : ready[s] = "open" /\ channelOf[s] = sending.channel
                           => s \in sending.left \cup sending.offered

\* Every open socket of its channel is sent the event.
THEOREM EveryPageIsAlwaysOffered == Spec => []EveryPageIsOffered
  <1>1. Init => OfferInv
    BY DEF Init, OfferInv
  <1>2. ASSUME TypeOK, OpenIsRegistered, OfferInv, [Next]_vars PROVE OfferInv'
    <2> USE <1>2 DEF TypeOK, OfferInv
    <2>1. ASSUME NEW s \in Ids,
                 Connect(s) \/ PageCloses(s) \/ PageVanishes(s) \/ Pong(s)
          PROVE  OfferInv'
      BY <2>1 DEF Connect, PageCloses, PageVanishes, Pong, Idle
    <2>2. ASSUME NEW c \in Channels, SendBegins(c) PROVE OfferInv'
      <3>1. /\ sending'.channel = c /\ sending'.left = channels[c]
            /\ UNCHANGED <<ready, channelOf>>
        BY <2>2 DEF SendBegins
      <3> QED
        BY <3>1 DEF OpenIsRegistered
    <2>3. CASE SendOne
      <3>1. PICK s \in sending.left :
                \/ /\ s \in sockets
                   /\ sending' = [sending EXCEPT !.left = @ \ {s}, !.offered = @ \cup {s}]
                \/ /\ s \notin sockets
                   /\ sending' = [sending EXCEPT !.left = @ \ {s}]
        BY <2>3 DEF SendOne
      <3>2. /\ sending.on /\ sending'.channel = sending.channel
            /\ sending'.left = sending.left \ {s}
            /\ sending'.offered = IF s \in sockets THEN sending.offered \cup {s}
                                                   ELSE sending.offered
        <4>1. sending.on /\ sending \in Send
          BY <2>3 DEF SendOne
        <4> HIDE <1>2
        <4>2. CASE s \in sockets
          BY <3>1, <4>1, <4>2 DEF Send
        <4>3. CASE s \notin sockets
          BY <3>1, <4>1, <4>3 DEF Send
        <4> QED
          BY <4>1, <4>2, <4>3
      <3>3. UNCHANGED <<ready, channelOf>>
        BY <2>3 DEF SendOne
      <3>4. ASSUME NEW t \in Ids, ready'[t] = "open", channelOf'[t] = sending'.channel
            PROVE  t \in sending'.left \cup sending'.offered
        <4>1. ready[t] = "open" /\ channelOf[t] = sending.channel
          BY <3>2, <3>3, <3>4
        <4>2. t \in sockets /\ t \in sending.left \cup sending.offered
          BY <3>2, <4>1 DEF OpenIsRegistered
        <4>3. CASE t = s
          BY <3>2, <4>2, <4>3
        <4>4. CASE t # s
          BY <3>2, <4>2, <4>4
        <4> QED
          BY <4>3, <4>4
      <3> QED
        BY <3>4
    <2>4. CASE SendEnds
      BY <2>4 DEF SendEnds, NoSend
    <2>5. CASE CheckSockets \/ Gc \/ Tick
      BY <2>5 DEF CheckSockets, Gc, Tick, Idle
    <2>6. CASE UNCHANGED vars
      BY <2>6 DEF vars
    <2> QED
      BY <2>1, <2>2, <2>3, <2>4, <2>5, <2>6 DEF Next
  <1>3. OfferInv => EveryPageIsOffered
    BY DEF OfferInv, EveryPageIsOffered
  <1> QED
    BY <1>1, <1>2, <1>3, TypeCorrect, OpenAlwaysRegistered, PTL DEF Spec

-----------------------------------------------------------------------------
\* The last sign of life of a prompt page is not older than the last ping,
\* unless the page has yet to answer that ping, which was sent asked - 1 ago.
SignInv ==
    \A s \in Ids : peer[s] = "prompt" /\ ready[s] = "open" =>
        IF asked[s] = 0 THEN age[s] <= sincePing ELSE asked[s] = sincePing + 1

PromptInv == PromptStays /\ SignInv

\* A page that answers its pings in time is never disconnected.
THEOREM PromptAlwaysStays == Spec => []PromptStays
  <1> USE RegistryAssumption
  <1>1. Init => PromptInv
    BY DEF Init, PromptInv, PromptStays, SignInv
  <1>2. ASSUME TypeOK, OpenIsRegistered, PromptInv, [Next]_vars PROVE PromptInv'
    <2> USE <1>2 DEF TypeOK, PromptInv, PromptStays, SignInv
    <2>1. ASSUME NEW s \in Ids, Connect(s) PROVE PromptInv'
      BY <2>1 DEF Connect
    <2>2. ASSUME NEW s \in Ids, PageCloses(s) \/ PageVanishes(s) PROVE PromptInv'
      BY <2>2 DEF PageCloses, PageVanishes
    <2>3. ASSUME NEW s \in Ids, Pong(s) PROVE PromptInv'
      BY <2>3 DEF Pong, OpenIsRegistered
    <2>4. CASE (\E c \in Channels : SendBegins(c)) \/ SendOne \/ SendEnds \/ Gc
      BY <2>4 DEF SendBegins, SendOne, SendEnds, Gc
    <2>5. CASE CheckSockets
      <3>1. ASSUME NEW s \in Ids, peer[s] = "prompt", ready[s] = "open"
            PROVE  asked[s] = 0 /\ age[s] < SocketTimeout
        BY <2>5, <3>1 DEF CheckSockets
      <3>2. ASSUME NEW s \in Ids, peer'[s] = "prompt"
            PROVE  ready'[s] # "terminated"
        BY <2>5, <3>1, <3>2 DEF CheckSockets
      <3>3. ASSUME NEW s \in Ids, peer'[s] = "prompt", ready'[s] = "open"
            PROVE  asked'[s] = 1 /\ sincePing' = 0
        <4>1. peer[s] = "prompt" /\ ready[s] = "open" /\ s \in sockets
          BY <2>5, <3>3 DEF CheckSockets, OpenIsRegistered
        <4>2. ~ (age[s] >= SocketTimeout) /\ asked[s] = 0
          BY <3>1, <4>1
        <4> QED
          BY <2>5, <4>1, <4>2 DEF CheckSockets, Pinged
      <3> QED
        BY <3>2, <3>3
    <2>6. CASE Tick
      <3>1. ASSUME NEW s \in Ids, peer'[s] = "prompt"
            PROVE  ready'[s] # "terminated"
        BY <2>6, <3>1 DEF Tick
      <3>2. ASSUME NEW s \in Ids, peer'[s] = "prompt", ready'[s] = "open"
            PROVE  IF asked'[s] = 0 THEN age'[s] <= sincePing' ELSE asked'[s] = sincePing' + 1
        <4>1. peer[s] = "prompt" /\ ready[s] = "open"
          BY <2>6, <3>2 DEF Tick
        <4>2. /\ age[s] \in Nat /\ asked[s] \in Nat /\ sincePing \in Nat
              /\ age[s] + 1 \in Nat
          OBVIOUS
        <4>3. age'[s] \in Nat /\ age'[s] <= age[s] + 1
          <5>1. /\ AtMost(age[s] + 1, SocketTimeout) \in 0 .. SocketTimeout
                /\ AtMost(age[s] + 1, SocketTimeout) <= age[s] + 1
            BY <4>2, AtMostBounds
          <5>2. age'[s] = IF s \in sockets THEN AtMost(age[s] + 1, SocketTimeout)
                                           ELSE age[s]
            BY <2>6 DEF Tick
          <5>3. AtMost(age[s] + 1, SocketTimeout) \in Nat
            BY <5>1
          <5>4. age[s] <= age[s] + 1
            BY <4>2
          <5> HIDE <1>2
          <5> QED
            BY <4>2, <5>1, <5>2, <5>3, <5>4
        <4>4. /\ sincePing' = sincePing + 1
              /\ asked'[s] = IF asked[s] > 0 THEN asked[s] + 1 ELSE 0
          BY <2>6 DEF Tick
        <4> QED
          BY <4>1, <4>2, <4>3, <4>4
      <3> QED
        BY <3>1, <3>2
    <2>7. CASE UNCHANGED vars
      BY <2>7 DEF vars
    <2> QED
      BY <2>1, <2>2, <2>3, <2>4, <2>5, <2>6, <2>7 DEF Next
  <1>3. PromptInv => PromptStays
    BY DEF PromptInv
  <1> QED
    BY <1>1, <1>2, <1>3, TypeCorrect, OpenAlwaysRegistered, PTL DEF Spec

=============================================================================
