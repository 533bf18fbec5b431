---------------------------- MODULE NetSession ----------------------------
(***************************************************************************)
(* The sessions of Runtime/Net: how a client's driver gets a session from  *)
(* the server's driver, keeps it with heartbeats and loses it.             *)
(*                                                                         *)
(* Each driver has two threads: the one that calls Update and the one that *)
(* receives, which handles one packet at a time.  One client is modelled   *)
(* in full; the others only push its hello out of the slot they share in   *)
(* mClientHelloTransmitBuffer (every client numbers its hello 1).  An      *)
(* acknowledgement whose header is not signed with the session's key is    *)
(* dropped by its receiver: it is not put in the network.                  *)
(*                                                                         *)
(* Timers count the ticks of one clock.  Between two ticks any number of   *)
(* steps may be taken, or none that was due, unless Prompt.                *)
(***************************************************************************)
EXTENDS Integers

CONSTANTS
    ClientRetransmit,   \* mMaxRetransmit of the client's driver
    ServerRetransmit,   \* mMaxRetransmit of the server's driver
    HeartbeatDelta,     \* mHeartbeatDelta, in ticks
    AckTimeout,         \* mAckTimeout
    MaxHeartbeatDelta,  \* mMaxHeartbeatDelta
    Evictions,          \* bound on the hellos of other clients that push one out
    Dropped,            \* the types of packet the network loses the first of
    Failures,           \* TRUE: a send, the making of keys or the reading of a
                        \* hello may fail
    Prompt,             \* TRUE: time waits for what is due and in flight
    None                \* no session

ASSUME RetransmitAssumption ==
    ClientRetransmit \in Nat \ {0} /\ ServerRetransmit \in Nat \ {0}
ASSUME TimerAssumption ==
    /\ HeartbeatDelta \in Nat /\ AckTimeout \in Nat /\ MaxHeartbeatDelta \in Nat
    /\ HeartbeatDelta < AckTimeout /\ AckTimeout < MaxHeartbeatDelta
ASSUME BoundsAssumption ==
    /\ Evictions \in Nat
    /\ Failures \in BOOLEAN /\ Prompt \in BOOLEAN
ASSUME NoneAssumption == None \notin Nat

\* A hello is accepted once, and once more each time it was pushed out.
Sessions == 1..Evictions + 1
Ages == 0..MaxHeartbeatDelta + 1

VARIABLES
    client,     \* the client's driver and its two threads; data is the count of
                \* retransmits in mHandshakeData, None when that is null
    session,    \* the NetSecureServerConnections, by their number
    accepted,   \* the hellos AcceptConnection was called for
    fresh, connections,     \* mNewConnections and mConnections; the latter are
                \* those of mConnectionMap, both those of mPrimaryConnectionMap
    update,     \* the server's Update: where, and in which session
    network, lost,  \* the packets in flight, the types that lost their first
    early,      \* sessions acknowledged before WaitHandshake
    crashed     \* the server has used a ServerHello that was released

server == <<session, accepted, fresh, connections, update, early, crashed>>
vars == <<client, server, network, lost>>

Packets == {"ClientHello", "ClientHelloAck"} \X {None}
    \union {"ServerHello", "ServerHelloAck", "Heartbeat", "HeartbeatAck"} \X Sessions

ClientStates == {"InitNetwork", "ClientHello", "ClientWaitServerHello",
                 "ClientReady", "Disconnected", "Failed"}
SessionStates == {"None", "NetworkInit", "ServerHello", "ServerReady",
                  "Disconnected", "Failed"}

NoSession == [state |-> "None", waiting |-> TRUE, data |-> None, age |-> 0]

TypeOK ==
    /\ client \in [state : ClientStates, data : 0..ClientRetransmit \union {None},
                   age : Ages, wait : BOOLEAN,
                   session : Sessions \union {None},
                   update : {"idle", "resend", "sent"},
                   receive : {"idle", "ready"}]
    /\ session \in [Sessions -> [state : SessionStates, waiting : BOOLEAN,
                                 data : 0..ServerRetransmit \union {None}, age : Ages]]
    /\ accepted \in 0..Evictions + 1
    /\ fresh \in SUBSET Sessions /\ connections \in SUBSET Sessions
    /\ update \in [at : {"idle", "hello", "handshake"}, session : Sessions \union {None}]
    /\ network \in SUBSET Packets /\ lost \in SUBSET Dropped
    /\ early \in SUBSET Sessions /\ crashed \in BOOLEAN

Init ==
    /\ client = [state |-> "InitNetwork", data |-> None, age |-> 0,
                 wait |-> FALSE, session |-> None, update |-> "idle",
                 receive |-> "idle"]
    /\ session = [s \in Sessions |-> NoSession]
    /\ accepted = 0
    /\ fresh = {} /\ connections = {}
    /\ update = [at |-> "idle", session |-> None]
    /\ network = {} /\ lost = {}
    /\ early = {} /\ crashed = FALSE

-----------------------------------------------------------------------------
(* The network and the clock.                                              *)

\* A packet that is never taken is lost; the first of a Dropped type surely is.
Arriving(sent) == {p \in sent : p[1] \in Dropped => p[1] \in lost}
Losing(sent) == lost' = lost \union ({p[1] : p \in sent} \intersect Dropped)

Put(p) == network' = network \union Arriving({p}) /\ Losing({p})
Same == UNCHANGED <<network, lost>>

\* A packet is taken, and its handler may answer.
Take(p, answers) ==
    /\ p \in network /\ network' = (network \ {p}) \union Arriving(answers)
    /\ Losing(answers)

ClientDue ==
    \/ client.state \in {"InitNetwork", "ClientHello"}
    \/ client.update \in {"resend", "sent"} \/ client.receive = "ready"
    \/ client.update = "idle" /\ client.state = "ClientWaitServerHello"
        /\ client.age >= AckTimeout
    \/ client.update = "idle" /\ client.state = "ClientReady"
        /\ \/ ~client.wait /\ client.age > HeartbeatDelta
           \/ client.age > MaxHeartbeatDelta

ServerDue ==
    \/ fresh # {} \/ update.at # "idle"
    \/ \E s \in connections :
        \/ session[s].state # "ServerReady"
        \/ session[s].waiting /\ session[s].age > AckTimeout
        \/ session[s].age > MaxHeartbeatDelta

Older(age) == IF age + 1 \in Ages THEN age + 1 ELSE age

\* The timers of a driver that has sent nothing and of lost sessions do not matter.
Tick ==
    /\ Prompt => ~ClientDue /\ ~ServerDue /\ network = {}
    /\ client' = IF client.state \in {"ClientWaitServerHello", "ClientReady"}
                 THEN [client EXCEPT !.age = Older(@)] ELSE client
    /\ session' = [s \in Sessions |-> IF s \in connections
                                       THEN [session[s] EXCEPT !.age = Older(@)] ELSE session[s]]
    /\ Same
    /\ UNCHANGED <<accepted, fresh, connections, update, early, crashed>>

-----------------------------------------------------------------------------
(* NetSecureClientDriver::Update.                                          *)

Updating(state) == client.update = "idle" /\ client.state = state

\* Nothing reads the rest of a driver that is Failed or Disconnected.
Ended(c, state) ==
    [c EXCEPT !.state = state, !.data = None, !.age = 0, !.wait = FALSE]

\* The end of Update, in one step with what comes before: the timer it reads is
\* the one UpdateWaitServerHello or UpdateClientReady has just read.
Timeout(c) ==
    IF c.state \in {"ClientWaitServerHello", "ClientReady"} /\ c.age > MaxHeartbeatDelta
    THEN Ended(c, "Disconnected") ELSE c

UpdateInitNetwork ==
    /\ Updating("InitNetwork") /\ Same /\ UNCHANGED server
    /\ \/ client' = [client EXCEPT !.state = "ClientHello"]
       \/ Failures /\ client' = Ended(client, "Failed")

\* The receiving thread is started last: it sees none of this in between.
UpdateClientHello ==
    /\ Updating("ClientHello") /\ UNCHANGED server
    /\ \/ /\ client' = [client EXCEPT !.state = "ClientWaitServerHello", !.age = 0,
                            !.data = ClientRetransmit - 1, !.wait = FALSE]
          /\ Put(<<"ClientHello", None>>)
       \/ Failures /\ client' = Ended(client, "Failed") /\ Same

UpdateWaitServerHello ==
    /\ Updating("ClientWaitServerHello") /\ Same /\ UNCHANGED server
    /\ client.age >= AckTimeout
    /\ client' = [client EXCEPT !.update = "resend"]

\* Fault: the hello is sent again however often it was.
ResendClientHelloForEver ==
    /\ client.update = "resend" /\ client.receive = "idle" /\ UNCHANGED server
    /\ client' = [client EXCEPT !.age = 0, !.update = "idle"]
    /\ Put(<<"ClientHello", None>>)

\* The rest of UpdateWaitServerHello, under mHandshakeLock.
ResendClientHello ==
    /\ client.update = "resend" /\ client.receive = "idle" /\ UNCHANGED server
    /\ \/ client.data = None /\ client' = Timeout([client EXCEPT !.update = "idle"]) /\ Same
       \/ /\ client.data # None /\ (client.data = 0 \/ Failures)
          /\ client' = Ended([client EXCEPT !.update = "idle"], "Failed") /\ Same
       \/ /\ client.data # None /\ client.data # 0
          /\ client' = [client EXCEPT !.age = 0, !.data = @ - 1, !.update = "idle"]
          /\ Put(<<"ClientHello", None>>)

UpdateClientReady ==
    /\ Updating("ClientReady") /\ UNCHANGED server
    /\ IF ~client.wait /\ client.age > HeartbeatDelta
       THEN \/ /\ client' = [client EXCEPT !.update = "sent"]
               /\ Put(<<"Heartbeat", client.session>>)
            \/ /\ Failures /\ Same
               /\ client' = Ended(client, "Failed")
       ELSE client' = Timeout(client) /\ Same

\* The answer may have come before the driver notes that it waits for it.
HeartbeatSent ==
    /\ client.update = "sent" /\ Same /\ UNCHANGED server
    /\ client' = Timeout([client EXCEPT !.wait = TRUE, !.update = "idle"])

-----------------------------------------------------------------------------
(* The receiving thread of the client.                                     *)

OnClientHelloAck ==
    /\ client.receive = "idle" /\ UNCHANGED server
    /\ Take(<<"ClientHelloAck", None>>, {})
    /\ client' = IF client.state = "ClientWaitServerHello" /\ client.data # None
                 THEN [client EXCEPT !.data = 0] ELSE client

\* Fault: a second ServerHello is taken like the first.
OnServerHelloAgain(s) ==
    /\ client.receive = "idle" /\ UNCHANGED server
    /\ Take(<<"ServerHello", s>>, {})
    /\ client' = IF client.state \in {"ClientWaitServerHello", "ClientReady"}
                 THEN [client EXCEPT !.session = s, !.data = None,
                                     !.state = "ClientReady", !.receive = "ready"]
                 ELSE client

\* mHandshakeLock is taken before the state is read and held to the end.  A hello
\* that cannot be read fails the driver but not the resend that is under way.
OnServerHello(s) ==
    /\ client.receive = "idle" /\ UNCHANGED server
    /\ Take(<<"ServerHello", s>>, {})
    /\ \/ client.state # "ClientWaitServerHello" /\ UNCHANGED client
       \/ /\ client.state = "ClientWaitServerHello"
          /\ client' = [client EXCEPT !.session = s, !.data = None,
                                      !.state = "ClientReady", !.receive = "ready"]
       \/ /\ client.state = "ClientWaitServerHello" /\ Failures
          /\ client' = [client EXCEPT !.state = "Failed"]

\* SendAck, which signs only what it sends as ClientReady, then the timer.
ServerHelloDone ==
    /\ client.receive = "ready" /\ UNCHANGED server
    /\ LET done == [client EXCEPT !.receive = "idle", !.age = 0, !.wait = FALSE]
       IN \/ /\ client' = done
             /\ IF client.state = "ClientReady"
                THEN Put(<<"ServerHelloAck", client.session>>) ELSE Same
          \/ Failures /\ client' = Ended(done, "Failed") /\ Same

OnServerHeartbeat(s) ==
    /\ client.receive = "idle" /\ UNCHANGED server
    /\ Take(<<"HeartbeatAck", s>>, {})
    /\ client' = IF s = client.session
                 THEN [client EXCEPT !.age = 0, !.wait = FALSE] ELSE client

-----------------------------------------------------------------------------
(* The receiving thread of the server.                                     *)

\* mClientHelloTransmitBuffer.Update: the hello is new, or it is a copy and the
\* hello of another client has taken its slot since it was last accepted.
IsNewHello(pushedOut) == accepted = 0 \/ (pushedOut /\ accepted <= Evictions)

\* AcceptConnection, which acknowledges the hello before it reads it, and
\* CreateSessionFromBytes.
OnClientHello(pushedOut) ==
    /\ IF IsNewHello(pushedOut)
       THEN LET s == accepted + 1 IN
            /\ Take(<<"ClientHello", None>>, {<<"ClientHelloAck", None>>})
            /\ accepted' = s
            /\ \/ /\ fresh' = fresh \union {s}
                  /\ session' = [session EXCEPT ![s].state = "NetworkInit", ![s].data = 0]
               \/ Failures /\ UNCHANGED <<fresh, session>>
       ELSE Take(<<"ClientHello", None>>, {}) /\ UNCHANGED <<accepted, session, fresh>>
    /\ UNCHANGED <<client, connections, update, early, crashed>>

\* OnHeartbeatTick, under the session's mHandshakeLock.
HeartbeatTick(c) ==
    [c EXCEPT !.waiting = FALSE, !.data = IF c.waiting THEN None ELSE @, !.age = 0]

\* The handlers of a session's packets are steps: a session that is swept while
\* one runs lives on in it alone.  A packet of an unknown session is dropped.
OnServerHelloAck(s) ==
    /\ Take(<<"ServerHelloAck", s>>, {})
    /\ session' = IF s \in connections
                  THEN [session EXCEPT ![s] = HeartbeatTick(@)] ELSE session
    /\ UNCHANGED <<client, accepted, fresh, connections, update, early, crashed>>

\* SendAck signs only the acknowledgements of a ready session.
OnHeartbeat(s) ==
    /\ \/ /\ s \notin connections /\ Take(<<"Heartbeat", s>>, {})
          /\ UNCHANGED session
       \/ /\ s \in connections
          /\ Take(<<"Heartbeat", s>>,
                  IF session[s].state = "ServerReady" THEN {<<"HeartbeatAck", s>>} ELSE {})
          /\ session' = [session EXCEPT ![s] = HeartbeatTick(@)]
       \/ /\ s \in connections /\ Failures /\ Take(<<"Heartbeat", s>>, {})
          /\ session' = [session EXCEPT ![s] = [HeartbeatTick(@) EXCEPT !.state = "Failed"]]
    /\ UNCHANGED <<client, accepted, fresh, connections, update, early, crashed>>

-----------------------------------------------------------------------------
(* NetSecureServerDriver::UpdateConnections.  Its passes go through the    *)
(* sessions in turn; a session shares nothing with the others.             *)

Lists == <<accepted, fresh, connections>>

AcceptNew ==
    /\ update.at = "idle" /\ ~crashed /\ fresh # {}
    /\ connections' = connections \union fresh /\ fresh' = {}
    /\ Same
    /\ UNCHANGED <<client, session, accepted, update, early, crashed>>

UpdatingSession(s, state) ==
    update.at = "idle" /\ ~crashed /\ s \in connections /\ session[s].state = state

UpdateNetworkInit(s) ==
    /\ UpdatingSession(s, "NetworkInit")
    /\ session' = [session EXCEPT ![s].state = "ServerHello"]
    /\ Same /\ UNCHANGED <<client, Lists, update, early, crashed>>

UpdateServerHello(s) ==
    /\ UpdatingSession(s, "ServerHello")
    /\ \/ /\ session' = [session EXCEPT ![s].data = ServerRetransmit - 1]
          /\ Put(<<"ServerHello", s>>)
          /\ update' = [at |-> "hello", session |-> s]
       \/ /\ Failures /\ Same /\ UNCHANGED update
          /\ session' = [session EXCEPT ![s].state = "Failed"]
    /\ UNCHANGED <<client, Lists, early, crashed>>

Leave == update' = [at |-> "idle", session |-> None]

\* The end of UpdateServerHello: the answer may have come already.
WaitHandshake ==
    /\ update.at = "hello" /\ Leave
    /\ LET s == update.session IN
       /\ session' = [session EXCEPT ![s].waiting = TRUE, ![s].age = 0,
                                     ![s].state = "ServerReady"]
       /\ early' = IF session[s].waiting THEN early ELSE early \union {s}
    /\ Same /\ UNCHANGED <<client, Lists, crashed>>

\* The end of UpdateServerReady.
CheckTimeout(c) ==
    IF c.age > MaxHeartbeatDelta THEN [c EXCEPT !.state = "Disconnected"] ELSE c

\* Nothing is done while nothing is due.
UpdateServerReady(s) ==
    /\ UpdatingSession(s, "ServerReady")
    /\ IF session[s].waiting
       THEN /\ session[s].age > AckTimeout
            /\ update' = [at |-> "handshake", session |-> s] /\ UNCHANGED session
       ELSE session' = [session EXCEPT ![s] = CheckTimeout(@)] /\ UNCHANGED update
    /\ Same /\ UNCHANGED <<client, Lists, early, crashed>>

\* Fault: the handshake is not looked at again under the lock.
RetransmitDueUnchecked(c) == c.age > AckTimeout

RetransmitDue(c) == c.waiting /\ c.age > AckTimeout

\* The part of UpdateServerReady under the session's mHandshakeLock, and its end.
RetransmitServerHello ==
    /\ update.at = "handshake" /\ ~crashed
    /\ LET s == update.session
           c == session[s]
           Set(d) == session' = [session EXCEPT ![s] = d] /\ Leave /\ UNCHANGED crashed
       IN \/ ~RetransmitDue(c) /\ Set(CheckTimeout(c)) /\ Same
          \/ RetransmitDue(c) /\ c.data = None /\ crashed' = TRUE /\ Same
                /\ UNCHANGED <<session, update>>
          \/ RetransmitDue(c) /\ c.data # None /\ (c.data = 0 \/ Failures)
                /\ Set([c EXCEPT !.state = "Failed"]) /\ Same
          \/ RetransmitDue(c) /\ c.data # None /\ c.data # 0
                /\ Set([c EXCEPT !.data = @ - 1, !.waiting = TRUE, !.age = 0])
                /\ Put(<<"ServerHello", s>>)
    /\ UNCHANGED <<client, Lists, early>>

IsGarbage(s) == session[s].state \in {"Failed", "Disconnected"}

\* Fault: only the sessions that time out are swept.
SweepDisconnectedOnly(s) ==
    /\ update.at = "idle" /\ ~crashed /\ s \in connections
    /\ session[s].state = "Disconnected"
    /\ connections' = connections \ {s}
    /\ session' = [session EXCEPT ![s] = NoSession]
    /\ Same
    /\ UNCHANGED <<client, accepted, fresh, update, early, crashed>>

\* Mark and sweep, out of the list and both maps.
Sweep(s) ==
    /\ update.at = "idle" /\ ~crashed /\ s \in connections /\ IsGarbage(s)
    /\ connections' = connections \ {s}
    /\ session' = [session EXCEPT ![s] = NoSession]
    /\ Same
    /\ UNCHANGED <<client, accepted, fresh, update, early, crashed>>

-----------------------------------------------------------------------------

ClientUpdate ==
    \/ UpdateInitNetwork \/ UpdateClientHello \/ UpdateWaitServerHello \/ ResendClientHello
    \/ UpdateClientReady \/ HeartbeatSent

ClientReceive ==
    \/ OnClientHelloAck \/ ServerHelloDone
    \/ \E s \in Sessions : OnServerHello(s) \/ OnServerHeartbeat(s)

ServerUpdate ==
    \/ AcceptNew \/ WaitHandshake \/ RetransmitServerHello
    \/ \E s \in Sessions : UpdateNetworkInit(s) \/ UpdateServerHello(s)
                           \/ UpdateServerReady(s) \/ Sweep(s)

ServerReceive ==
    \/ \E pushedOut \in BOOLEAN : OnClientHello(pushedOut)
    \/ \E s \in Sessions : OnServerHelloAck(s) \/ OnHeartbeat(s)

Next ==
    \/ ClientUpdate \/ ClientReceive \/ ServerUpdate \/ ServerReceive
    \/ Tick

Spec == Init /\ [][Next]_vars

\* Both applications call Update in their loops, a handler that was entered
\* returns, and time passes.  Nothing is promised of the network.
FairSpec ==
    /\ Spec /\ WF_vars(ClientUpdate) /\ WF_vars(ServerUpdate) /\ WF_vars(Tick)
    /\ WF_vars(ServerHelloDone)

-----------------------------------------------------------------------------
(* Properties.                                                             *)

\* A session whose handshake is complete is the one the client has taken the
\* keys of: a hello accepted twice never makes two sessions of one client.
CompleteMeansAgreed ==
    \A s \in connections : ~session[s].waiting => client.session = s

\* The server never retransmits a ServerHello it has released, however the
\* acknowledgement and the heartbeats race UpdateServerReady; the one exception
\* is an acknowledgement that comes before WaitHandshake.
ReleasedMeansAcknowledged == crashed => early # {}

\* The handshake of a client ends, whatever is lost.
HandshakeEnds ==
    (client.state = "ClientWaitServerHello") ~> (client.state # "ClientWaitServerHello")

Out == client.state \in {"Disconnected", "Failed"}

\* When the client is gone the server gets rid of its sessions, also of those
\* whose handshake never ended.
SessionsEnd ==
    (Out /\ connections # {}) ~> (connections = {} \/ ~Out \/ crashed)

\* What the connection tests say: a connection can be made if the client does
\* not get the ServerHello, which the server will send again.
LostServerHelloConnects == lost = {"ServerHello"} => client.state # "Failed"
=============================================================================
