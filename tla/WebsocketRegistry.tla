--------------------------- MODULE WebsocketRegistry ---------------------------
(***************************************************************************)
(* The registries of superset-websocket: which sockets there are and which *)
(* of them belong to a channel.  AsyncWebsocket looks at one page and      *)
(* takes for granted that an event of its channel is sent to its socket;   *)
(* here are the several sockets of several channels, which come, close and *)
(* vanish, the pings that find out, and the routines that forget them.     *)
(*                                                                         *)
(*   wsConnection, trackClient                Connect                      *)
(*   sendToChannel                            SendBegins, SendOne, SendEnds*)
(*   checkSockets, the listener of 'pong'     CheckSockets, Pong           *)
(*   gc, cleanChannel                         Gc                           *)
(*                                                                         *)
(* Node runs each of these to its end; only the loop of sendToChannel,     *)
(* which calls cleanChannel on the list it goes through, takes steps, and  *)
(* every other step waits for it to be Idle.                               *)
(***************************************************************************)
EXTENDS Naturals

CONSTANTS
    Channels,
    Ids,            \* socket ids; each connection gets one of its own
    SocketTimeout,  \* socketResponseTimeoutMs, in units of time
    PingInterval,   \* pingSocketsIntervalMs
    GcInterval,     \* gcChannelsIntervalMs
    PongDelay,      \* bound: how long a prompt page takes to answer a ping
    Late            \* bound: how late a timer of the server fires

ASSUME RegistryAssumption ==
    /\ Channels # {}
    /\ SocketTimeout \in Nat /\ PingInterval \in Nat /\ GcInterval \in Nat
    /\ PongDelay \in Nat /\ Late \in Nat
    /\ PongDelay < PingInterval
    /\ PingInterval + Late < SocketTimeout

VARIABLES
    channels,   \* channel -> the ids in its list; {} when it has no entry
    sockets,    \* the ids in the registry of sockets
    channelOf,  \* id -> the channel in its JWT
    ready,      \* id -> its readyState, see ReadyStates
    peer,       \* id -> the page at the other end, see Peers
    age,        \* id -> Date.now() - pongTs, up to SocketTimeout
    asked,      \* id -> 0, or for how long a prompt page owes an answer, plus 1
    sending,    \* the loop of sendToChannel
    sincePing,  \* the time since checkSockets ran
    sinceGc     \* the time since gc ran

vars == <<channels, sockets, channelOf, ready, peer, age, asked, sending,
          sincePing, sinceGc>>

(***************************************************************************)
(*   none        not connected yet                                         *)
(*   open        WebSocket.OPEN                                            *)
(*   terminated  the server has given it up: terminate()                   *)
(*   closed      closing or closed for any other reason                    *)
(***************************************************************************)
ReadyStates == {"none", "open", "terminated", "closed"}

(***************************************************************************)
(*   prompt  answers each ping within PongDelay                            *)
(*   slow    answers at any time                                           *)
(*   gone    answers nothing more, and nobody has told the server          *)
(***************************************************************************)
Peers == {"prompt", "slow", "gone"}

\* The channel of the event, the sockets of the list that are still to come,
\* and the ones it was sent to.
Send == [on : BOOLEAN, channel : Channels, left : SUBSET Ids, offered : SUBSET Ids]
NoSend == [on |-> FALSE, channel |-> CHOOSE c \in Channels : TRUE,
           left |-> {}, offered |-> {}]

TypeOK ==
    /\ channels \in [Channels -> SUBSET Ids]
    /\ sockets \subseteq Ids
    /\ channelOf \in [Ids -> Channels]
    /\ ready \in [Ids -> ReadyStates]
    /\ peer \in [Ids -> Peers]
    /\ age \in [Ids -> 0 .. SocketTimeout]
    /\ asked \in [Ids -> 0 .. PongDelay + 1]
    /\ sending \in Send
    /\ sincePing \in 0 .. PingInterval + Late
    /\ sinceGc \in 0 .. GcInterval + Late

Init ==
    /\ channels = [c \in Channels |-> {}]
    /\ sockets = {}
    /\ channelOf \in [Ids -> Channels]
    /\ ready = [s \in Ids |-> "none"]
    /\ peer = [s \in Ids |-> "prompt"]
    /\ age = [s \in Ids |-> 0]
    /\ asked = [s \in Ids |-> 0]
    /\ sending = NoSend
    /\ sincePing = 0
    /\ sinceGc = 0

Idle == ~ sending.on

timerVars == <<sincePing, sinceGc>>

-----------------------------------------------------------------------------
\* Mutant: the list of a channel that is known already is not kept.
ConnectOverwrites(s) ==
    /\ Idle
    /\ ready[s] = "none"
    /\ ready' = [ready EXCEPT ![s] = "open"]
    /\ \E p \in {"prompt", "slow"} : peer' = [peer EXCEPT ![s] = p]
    /\ sockets' = sockets \cup {s}
    /\ channels' = [channels EXCEPT ![channelOf[s]] = {s}]
    /\ age' = [age EXCEPT ![s] = 0]
    /\ UNCHANGED <<channelOf, asked, sending, timerVars>>

\* wsConnection: trackClient adds the socket to both registries.
Connect(s) ==
    /\ Idle
    /\ ready[s] = "none"
    /\ ready' = [ready EXCEPT ![s] = "open"]
    /\ \E p \in {"prompt", "slow"} : peer' = [peer EXCEPT ![s] = p]
    /\ sockets' = sockets \cup {s}
    /\ channels' = [channels EXCEPT ![channelOf[s]] = @ \cup {s}]
    /\ age' = [age EXCEPT ![s] = 0]
    /\ asked' = [asked EXCEPT ![s] = 0]
    /\ UNCHANGED <<channelOf, sending, timerVars>>

\* The page closes the connection, or an error does; nothing listens to that.
PageCloses(s) ==
    /\ Idle
    /\ ready[s] = "open"
    /\ ready' = [ready EXCEPT ![s] = "closed"]
    /\ asked' = [asked EXCEPT ![s] = 0]
    /\ UNCHANGED <<channels, sockets, channelOf, peer, age, sending, timerVars>>

\* The page's machine or its network goes away without closing anything.
PageVanishes(s) ==
    /\ Idle
    /\ ready[s] = "open"
    /\ peer' = [peer EXCEPT ![s] = "gone"]
    /\ asked' = [asked EXCEPT ![s] = 0]
    /\ UNCHANGED <<channels, sockets, channelOf, ready, age, sending, timerVars>>

\* Mutant: the answer to a ping is not noted.
PongIgnored(s) ==
    /\ Idle
    /\ ready[s] = "open"
    /\ peer[s] = "slow" \/ asked[s] > 0
    /\ asked' = [asked EXCEPT ![s] = 0]
    /\ UNCHANGED <<channels, sockets, channelOf, ready, peer, age, sending, timerVars>>

\* The listener of 'pong'.
Pong(s) ==
    /\ Idle
    /\ ready[s] = "open"
    /\ peer[s] = "slow" \/ asked[s] > 0
    /\ age' = [age EXCEPT ![s] = IF s \in sockets THEN 0 ELSE @]
    /\ asked' = [asked EXCEPT ![s] = 0]
    /\ UNCHANGED <<channels, sockets, channelOf, ready, peer, sending, timerVars>>

-----------------------------------------------------------------------------
\* What cleanChannel leaves of a channel's list.
Active(c) == { s \in channels[c] : s \in sockets /\ ready[s] = "open" }

SendBegins(c) ==
    /\ Idle
    /\ channels[c] # {}
    /\ sending' = [on |-> TRUE, channel |-> c, left |-> channels[c], offered |-> {}]
    /\ UNCHANGED <<channels, sockets, channelOf, ready, peer, age, asked, timerVars>>

\* Mutant: cleanChannel shortens the list that forEach goes through, which
\* then skips the socket that moves up.
CleansInPlace ==
    /\ sending.on
    /\ \E s \in sending.left :
        \/ /\ s \in sockets
           /\ sending' = [sending EXCEPT !.left = @ \ {s}, !.offered = @ \cup {s}]
           /\ UNCHANGED channels
        \/ /\ s \notin sockets
           /\ channels' = [channels EXCEPT ![sending.channel] = Active(sending.channel)]
           /\ \E t \in sending.left : sending' = [sending EXCEPT !.left = @ \ {s, t}]
    /\ UNCHANGED <<sockets, channelOf, ready, peer, age, asked, timerVars>>

\* The event is sent to the next socket of the list as it was; when there is
\* no such socket any more, or sending to it raises, the channel is cleaned.
SendOne ==
    /\ sending.on
    /\ \E s \in sending.left :
        \/ /\ s \in sockets
           /\ sending' = [sending EXCEPT !.left = @ \ {s}, !.offered = @ \cup {s}]
           /\ \/ UNCHANGED channels
              \/ channels' = [channels EXCEPT ![sending.channel] = Active(sending.channel)]
        \/ /\ s \notin sockets
           /\ sending' = [sending EXCEPT !.left = @ \ {s}]
           /\ channels' = [channels EXCEPT ![sending.channel] = Active(sending.channel)]
    /\ UNCHANGED <<sockets, channelOf, ready, peer, age, asked, timerVars>>

SendEnds ==
    /\ sending.on
    /\ sending.left = {}
    /\ sending' = NoSend
    /\ UNCHANGED <<channels, sockets, channelOf, ready, peer, age, asked, timerVars>>

-----------------------------------------------------------------------------
\* The sockets that stay get a ping; of the others nothing is known any more.
Pinged(active) ==
    /\ asked' = [s \in Ids |->
                    IF s \in active /\ ready[s] = "open" /\ peer[s] = "prompt"
                    THEN IF asked[s] = 0 THEN 1 ELSE asked[s]
                    ELSE 0]
    /\ age' = [s \in Ids |-> IF s \in active THEN age[s] ELSE 0]

\* checkSockets: silent sockets are terminated, they and the inactive ones are
\* forgotten, and the others get a ping.
CheckSockets ==
    LET silent == { s \in sockets : age[s] >= SocketTimeout }
        active == { s \in sockets \ silent : ready[s] = "open" }
    IN  /\ Idle
        /\ sincePing >= PingInterval
        /\ sincePing' = 0
        /\ ready' = [s \in Ids |-> IF s \in silent /\ ready[s] = "open"
                                   THEN "terminated" ELSE ready[s]]
        /\ sockets' = active
        /\ Pinged(active)
        /\ UNCHANGED <<channels, channelOf, peer, sending, sinceGc>>

\* Mutant: channels that still have an active socket are left as they are.
DropsEmptyOnly ==
    /\ Idle
    /\ sinceGc >= GcInterval
    /\ sinceGc' = 0
    /\ channels' = [c \in Channels |-> IF Active(c) = {} THEN {} ELSE channels[c]]
    /\ UNCHANGED <<sockets, channelOf, ready, peer, age, asked, sending, sincePing>>

\* gc: cleanChannel for every channel.
Gc ==
    /\ Idle
    /\ sinceGc >= GcInterval
    /\ sinceGc' = 0
    /\ channels' = [c \in Channels |-> Active(c)]
    /\ UNCHANGED <<sockets, channelOf, ready, peer, age, asked, sending, sincePing>>

\* Mutant: an age may be one more than the limit it is compared with.
OneMore(n, limit) == IF n <= limit THEN n ELSE limit + 1

AtMost(n, limit) == IF n < limit THEN n ELSE limit

\* Time passes, but not beyond what a timer or a prompt page still has to do.
Tick ==
    /\ Idle
    /\ sincePing < PingInterval + Late
    /\ sinceGc < GcInterval + Late
    /\ \A s \in Ids : asked[s] <= PongDelay
    /\ sincePing' = sincePing + 1
    /\ sinceGc' = sinceGc + 1
    /\ age' = [s \in Ids |-> IF s \in sockets
                             THEN AtMost(age[s] + 1, SocketTimeout) ELSE age[s]]
    /\ asked' = [s \in Ids |-> IF asked[s] > 0 THEN asked[s] + 1 ELSE 0]
    /\ UNCHANGED <<channels, sockets, channelOf, ready, peer, sending>>

Next ==
    \/ \E s \in Ids : Connect(s) \/ PageCloses(s) \/ PageVanishes(s) \/ Pong(s)
    \/ \E c \in Channels : SendBegins(c)
    \/ SendOne \/ SendEnds
    \/ CheckSockets \/ Gc \/ Tick

Spec == Init /\ [][Next]_vars

(***************************************************************************)
(* Fairness: the event loop comes back to timers that are due whatever     *)
(* else it is called for, time goes on, and prompt pages answer.           *)
(***************************************************************************)
Fairness ==
    /\ WF_vars(SendOne \/ SendEnds)
    /\ SF_vars(CheckSockets)
    /\ SF_vars(Gc)
    /\ SF_vars(Tick)
    /\ SF_vars(\E s \in Ids : asked[s] > 0 /\ Pong(s))

FairSpec == Spec /\ Fairness

-----------------------------------------------------------------------------
(***************************************************************************)
(* An open connection is in both registries, in its own channel's list,    *)
(* however the two routines and failed sends clean them up.                *)
(***************************************************************************)
OpenIsRegistered ==
    \A s \in Ids : ready[s] = "open" => s \in sockets /\ s \in channels[channelOf[s]]

(***************************************************************************)
(* sendToChannel sends the event to every open socket of the channel, also *)
(* when it cleans the channel on its way.                                  *)
(***************************************************************************)
EveryPageIsOffered ==
    sending.on /\ sending.left = {} =>
        \A s \in Ids : ready[s] = "open" /\ channelOf[s] = sending.channel
                           => s \in sending.offered

(***************************************************************************)
(* A page that answers its pings in time is never disconnected, even when  *)
(* timers are late and it connects in between two pings.                   *)
(***************************************************************************)
PromptStays == \A s \in Ids : peer[s] = "prompt" => ready[s] # "terminated"

(***************************************************************************)
(* A socket that was closed, or whose page has vanished, is forgotten by   *)
(* both registries some time.                                              *)
(***************************************************************************)
LostIsForgotten ==
    \A s \in Ids :
        ready[s] \in {"terminated", "closed"} \/ peer[s] = "gone"
            ~> s \notin sockets /\ s \notin channels[channelOf[s]]

=============================================================================
