-------------------------- MODULE NetSessionProofs --------------------------
(***************************************************************************)
(* NetSession for any timers, any number of retransmissions and any number *)
(* of hellos that are pushed out, whatever the network loses: a complete   *)
(* handshake joins a session to the client that has its keys, and the      *)
(* server retransmits no ServerHello it has released, unless an            *)
(* acknowledgement overtook WaitHandshake.                                 *)
(***************************************************************************)
EXTENDS NetSession, TLAPS

ClientRecords ==
    [state : ClientStates, data : 0..ClientRetransmit \union {None},
     age : Ages, wait : BOOLEAN, session : Sessions \union {None},
     update : {"idle", "resend", "sent"}, receive : {"idle", "ready"}]
SessionRecords ==
    [state : SessionStates, waiting : BOOLEAN,
     data : 0..ServerRetransmit \union {None}, age : Ages]

\* The client takes the keys of one session and never of another.
Decided == client.state \notin {"InitNetwork", "ClientHello", "ClientWaitServerHello"}
HasKeys(s) == client.session = s /\ Decided

\* Whatever only the owner of a session's keys can sign comes from that owner,
\* and so does the end of its handshake.
Signed ==
    /\ client.state = "ClientReady" => client.session \in Sessions
    /\ \A s \in Sessions :
        <<"ServerHelloAck", s>> \in network \/ <<"Heartbeat", s>> \in network
            \/ ~session[s].waiting => HasKeys(s)

\* The session in the hands of Update exists.
InHand ==
    update.at # "idle" => update.session \in Sessions /\ session[update.session].state # "None"

\* A session that waits for its handshake has the ServerHello to send again.
Kept ==
    early = {} =>
        /\ ~crashed
        /\ \A s \in Sessions :
            session[s].state # "None" /\ session[s].waiting => session[s].data # None

IInv == TypeOK /\ Signed /\ InHand /\ Kept

-----------------------------------------------------------------------------
(* The operators on records.                                               *)

LEMMA AgesBound == /\ 0 \in Ages /\ \A a \in Ages : Older(a) \in Ages
BY TimerAssumption DEF Ages, Older

LEMMA SessionsNat == /\ Sessions \subseteq Nat /\ None \notin Sessions /\ 1 \in Sessions
BY BoundsAssumption, NoneAssumption DEF Sessions

LEMMA EndedRecord ==
    ASSUME NEW c \in ClientRecords, NEW st \in ClientStates
    PROVE  /\ Ended(c, st) \in ClientRecords
           /\ Ended(c, st).state = st /\ Ended(c, st).session = c.session
BY AgesBound DEF ClientRecords, Ended

LEMMA TimeoutRecord ==
    ASSUME NEW c \in ClientRecords
    PROVE  /\ Timeout(c) \in ClientRecords
           /\ Timeout(c).session = c.session
           /\ Timeout(c).state \in {c.state, "Disconnected"}
           /\ c.state \notin {"ClientWaitServerHello", "ClientReady"} => Timeout(c) = c
BY EndedRecord DEF Timeout, ClientStates, ClientRecords

LEMMA TickRecord ==
    ASSUME NEW c \in SessionRecords
    PROVE  /\ HeartbeatTick(c) \in SessionRecords
           /\ HeartbeatTick(c).state = c.state /\ ~HeartbeatTick(c).waiting
BY AgesBound DEF SessionRecords, HeartbeatTick

LEMMA CheckRecord ==
    ASSUME NEW c \in SessionRecords
    PROVE  /\ CheckTimeout(c) \in SessionRecords
           /\ CheckTimeout(c).state \in {c.state, "Disconnected"}
           /\ CheckTimeout(c).waiting = c.waiting /\ CheckTimeout(c).data = c.data
BY DEF SessionRecords, SessionStates, CheckTimeout

\* The network never loses its type.
LEMMA PutType ==
    ASSUME TypeOK, NEW p \in Packets, Put(p)
    PROVE  /\ network' \in SUBSET Packets /\ lost' \in SUBSET Dropped
           /\ network' \subseteq network \union {p}
BY DEF TypeOK, Put, Arriving, Losing

LEMMA TakeType ==
    ASSUME TypeOK, NEW p, NEW answers \in SUBSET Packets, Take(p, answers)
    PROVE  /\ network' \in SUBSET Packets /\ lost' \in SUBSET Dropped
           /\ network' \subseteq network \union answers /\ p \in network
BY DEF TypeOK, Take, Arriving, Losing

LEMMA PacketTypes ==
    /\ <<"ClientHello", None>> \in Packets /\ <<"ClientHelloAck", None>> \in Packets
    /\ \A s \in Sessions :
        /\ <<"ServerHello", s>> \in Packets /\ <<"ServerHelloAck", s>> \in Packets
        /\ <<"Heartbeat", s>> \in Packets /\ <<"HeartbeatAck", s>> \in Packets
BY DEF Packets

LEMMA InitIInv == Init => IInv
<1> SUFFICES ASSUME Init PROVE IInv
  OBVIOUS
<1> USE DEF Init
<1>1. client \in ClientRecords
  BY AgesBound DEF ClientRecords, ClientStates
<1>2. NoSession \in SessionRecords
  BY AgesBound DEF SessionRecords, SessionStates, NoSession
<1>3. TypeOK
  <2>1. session \in [Sessions -> SessionRecords]
    BY <1>2
  <2>2. accepted \in 0..Evictions + 1
    BY BoundsAssumption
  <2>3. crashed \in BOOLEAN
    OBVIOUS
  <2>4. update \in [at : {"idle", "hello", "handshake"}, session : Sessions \union {None}]
    OBVIOUS
  <2> QED
    BY <1>1, <2>1, <2>2, <2>3, <2>4 DEF TypeOK, ClientRecords, SessionRecords
<1>4. Signed /\ InHand /\ Kept
  BY DEF Signed, InHand, Kept, NoSession
<1> QED
  BY <1>3, <1>4 DEF IInv

-----------------------------------------------------------------------------
(* The client changes nothing of the server.                               *)

LEMMA ClientStep ==
    ASSUME IInv, UNCHANGED server, client' \in ClientRecords,
           network' \in SUBSET Packets, lost' \in SUBSET Dropped,
           client'.state = "ClientReady" => client'.session \in Sessions,
           \A s \in Sessions : HasKeys(s) => HasKeys(s)',
           \A s \in Sessions :
              <<"ServerHelloAck", s>> \in network' \ network
                  \/ <<"Heartbeat", s>> \in network' \ network => HasKeys(s)'
    PROVE  IInv'
<1>1. TypeOK'
  BY DEF IInv, TypeOK, server, ClientRecords
<1>2. Signed'
  BY DEF IInv, Signed, server
<1>3. InHand' /\ Kept'
  BY DEF IInv, InHand, Kept, server
<1> QED
  BY <1>1, <1>2, <1>3 DEF IInv

\* A step of the client that sends nothing and keeps its session.
LEMMA QuietClient ==
    ASSUME IInv, UNCHANGED server, Same, client' \in ClientRecords,
           client'.session = client.session,
           client'.state = "ClientReady" => client.state = "ClientReady",
           Decided => Decided'
    PROVE  IInv'
BY ClientStep DEF IInv, TypeOK, Signed, Same, HasKeys

LEMMA ClientUpdateStep == IInv /\ ClientUpdate => IInv'
<1> SUFFICES ASSUME IInv, ClientUpdate PROVE IInv'
  OBVIOUS
<1>a. TypeOK /\ client \in ClientRecords
  BY DEF IInv, TypeOK, ClientRecords
<1>1. CASE UpdateInitNetwork
  <2>1. CASE client' = [client EXCEPT !.state = "ClientHello"]
    BY <1>a, <1>1, <2>1, QuietClient
    DEF UpdateInitNetwork, Updating, ClientRecords, ClientStates, Decided
  <2>2. CASE client' = Ended(client, "Failed")
    BY <1>a, <1>1, <2>2, QuietClient, EndedRecord
    DEF UpdateInitNetwork, Updating, ClientStates, Decided
  <2> QED
    BY <1>1, <2>1, <2>2 DEF UpdateInitNetwork
<1>2. CASE UpdateClientHello
  <2>1. CASE Put(<<"ClientHello", None>>)
              /\ client' = [client EXCEPT !.state = "ClientWaitServerHello", !.age = 0,
                                          !.data = ClientRetransmit - 1, !.wait = FALSE]
    <3>1. client' \in ClientRecords /\ client'.state = "ClientWaitServerHello"
          /\ client.state = "ClientHello"
      <4>1. ClientRetransmit - 1 \in 0..ClientRetransmit
        BY RetransmitAssumption
      <4> QED
        BY <1>a, <1>2, <2>1, <4>1, AgesBound
        DEF UpdateClientHello, Updating, ClientRecords, ClientStates
    <3>2. /\ network' \in SUBSET Packets /\ lost' \in SUBSET Dropped
          /\ network' \subseteq network \union {<<"ClientHello", None>>}
      BY <1>a, <2>1, PutType, PacketTypes
    <3> QED
      BY <1>2, <3>1, <3>2, ClientStep DEF UpdateClientHello, HasKeys, Decided
  <2>2. CASE client' = Ended(client, "Failed") /\ Same
    BY <1>a, <1>2, <2>2, QuietClient, EndedRecord
    DEF UpdateClientHello, Updating, ClientStates, Decided
  <2> QED
    BY <1>2, <2>1, <2>2 DEF UpdateClientHello
<1>3. CASE UpdateWaitServerHello
  BY <1>a, <1>3, QuietClient DEF UpdateWaitServerHello, Updating, ClientRecords, Decided
<1>4. CASE ResendClientHello
  <2> DEFINE c == [client EXCEPT !.update = "idle"]
  <2>a. c \in ClientRecords /\ c.state = client.state /\ c.session = client.session
    BY <1>a DEF ClientRecords
  <2>1. CASE client' = Timeout(c) /\ Same
    BY <1>4, <2>a, <2>1, QuietClient, TimeoutRecord DEF ResendClientHello, Decided
  <2>2. CASE client' = Ended(c, "Failed") /\ Same
    BY <1>4, <2>a, <2>2, QuietClient, EndedRecord DEF ResendClientHello, Decided, ClientStates
  <2>3. CASE /\ client.data # None /\ client.data # 0
             /\ client' = [client EXCEPT !.age = 0, !.data = @ - 1, !.update = "idle"]
             /\ Put(<<"ClientHello", None>>)
    <3>1. client' \in ClientRecords /\ client'.state = client.state
          /\ client'.session = client.session
      <4>1. client.data \in 0..ClientRetransmit \union {None}
        BY <1>a DEF ClientRecords
      <4>2. client.data - 1 \in 0..ClientRetransmit
        BY <2>3, <4>1, RetransmitAssumption
      <4> QED
        BY <1>a, <2>3, <4>2, AgesBound DEF ClientRecords
    <3>2. /\ network' \in SUBSET Packets /\ lost' \in SUBSET Dropped
          /\ network' \subseteq network \union {<<"ClientHello", None>>}
      BY <1>a, <2>3, PutType, PacketTypes
    <3> QED
      BY <1>4, <3>1, <3>2, ClientStep DEF ResendClientHello, HasKeys, Decided, IInv, Signed
  <2> QED
    BY <1>4, <2>1, <2>2, <2>3 DEF ResendClientHello
<1>5. CASE UpdateClientReady
  <2>1. CASE client' = [client EXCEPT !.update = "sent"] /\ Put(<<"Heartbeat", client.session>>)
    <3>1. client' \in ClientRecords /\ client'.state = "ClientReady"
          /\ client'.session = client.session /\ client.state = "ClientReady"
      BY <1>a, <1>5, <2>1 DEF UpdateClientReady, Updating, ClientRecords
    <3>2. client.session \in Sessions
      BY <3>1 DEF IInv, Signed
    <3>3. /\ network' \in SUBSET Packets /\ lost' \in SUBSET Dropped
          /\ network' \subseteq network \union {<<"Heartbeat", client.session>>}
      BY <1>a, <2>1, <3>2, PutType, PacketTypes
    <3> QED
      BY <1>5, <3>1, <3>2, <3>3, ClientStep DEF UpdateClientReady, HasKeys, Decided
  <2>2. CASE client' = Ended(client, "Failed") /\ Same
    BY <1>a, <1>5, <2>2, QuietClient, EndedRecord DEF UpdateClientReady, ClientStates, Decided
  <2>3. CASE client' = Timeout(client) /\ Same
    BY <1>a, <1>5, <2>3, QuietClient, TimeoutRecord DEF UpdateClientReady, Decided
  <2> QED
    BY <1>5, <2>1, <2>2, <2>3 DEF UpdateClientReady
<1>6. CASE HeartbeatSent
  <2> DEFINE c == [client EXCEPT !.wait = TRUE, !.update = "idle"]
  <2>a. c \in ClientRecords /\ c.state = client.state /\ c.session = client.session
    BY <1>a DEF ClientRecords
  <2> QED
    BY <1>6, <2>a, QuietClient, TimeoutRecord DEF HeartbeatSent, Decided
<1> QED
  BY <1>1, <1>2, <1>3, <1>4, <1>5, <1>6 DEF ClientUpdate

LEMMA ClientReceiveStep == IInv /\ ClientReceive => IInv'
<1> SUFFICES ASSUME IInv, ClientReceive PROVE IInv'
  OBVIOUS
<1>a. TypeOK /\ client \in ClientRecords
  BY DEF IInv, TypeOK, ClientRecords
<1>b. {} \in SUBSET Packets
  OBVIOUS
<1>1. CASE OnClientHelloAck
  <2>1. client' \in ClientRecords /\ client'.state = client.state
        /\ client'.session = client.session
    BY <1>a, <1>1, RetransmitAssumption DEF OnClientHelloAck, ClientRecords
  <2>2. network' \in SUBSET Packets /\ lost' \in SUBSET Dropped /\ network' \subseteq network
    BY <1>a, <1>b, <1>1, TakeType DEF OnClientHelloAck
  <2> QED
    BY <1>1, <2>1, <2>2, ClientStep DEF OnClientHelloAck, HasKeys, Decided, IInv, Signed
<1>2. CASE ServerHelloDone
  <2> DEFINE done == [client EXCEPT !.receive = "idle", !.age = 0, !.wait = FALSE]
  <2>a. done \in ClientRecords /\ done.state = client.state /\ done.session = client.session
    BY <1>a, AgesBound DEF ClientRecords
  <2>1. CASE client' = done /\ client.state = "ClientReady"
              /\ Put(<<"ServerHelloAck", client.session>>)
    <3>1. client.session \in Sessions
      BY <2>1 DEF IInv, Signed
    <3>2. /\ network' \in SUBSET Packets /\ lost' \in SUBSET Dropped
          /\ network' \subseteq network \union {<<"ServerHelloAck", client.session>>}
      BY <1>a, <2>1, <3>1, PutType, PacketTypes
    <3>3. UNCHANGED server /\ client' \in ClientRecords /\ client'.state = "ClientReady"
          /\ client'.session = client.session
      BY <1>2, <2>a, <2>1 DEF ServerHelloDone
    <3> QED
      BY <2>1, <3>1, <3>2, <3>3, ClientStep DEF HasKeys, Decided
  <2>2. CASE client' = done /\ Same
    BY <1>2, <2>a, <2>2, QuietClient DEF ServerHelloDone, Decided
  <2>3. CASE client' = Ended(done, "Failed") /\ Same
    BY <1>2, <2>a, <2>3, QuietClient, EndedRecord DEF ServerHelloDone, Decided, ClientStates
  <2> QED
    BY <1>2, <2>1, <2>2, <2>3 DEF ServerHelloDone
<1>3. ASSUME NEW s \in Sessions, OnServerHello(s) PROVE IInv'
  <2>1. network' \in SUBSET Packets /\ lost' \in SUBSET Dropped /\ network' \subseteq network
    BY <1>a, <1>b, <1>3, TakeType DEF OnServerHello
  <2>2. /\ client' \in ClientRecords
        /\ client'.state = "ClientReady" => client'.session \in Sessions
    BY <1>a, <1>3 DEF OnServerHello, ClientRecords, ClientStates, IInv, Signed
  <2>3. client' = client \/ ~Decided
    BY <1>3 DEF OnServerHello, Decided
  <2> QED
    BY <1>3, <2>1, <2>2, <2>3, ClientStep DEF OnServerHello, HasKeys, Decided
<1>4. ASSUME NEW s \in Sessions, OnServerHeartbeat(s) PROVE IInv'
  <2>1. client' \in ClientRecords /\ client'.state = client.state
        /\ client'.session = client.session
    BY <1>a, <1>4, AgesBound DEF OnServerHeartbeat, ClientRecords
  <2>2. network' \in SUBSET Packets /\ lost' \in SUBSET Dropped /\ network' \subseteq network
    BY <1>a, <1>b, <1>4, TakeType DEF OnServerHeartbeat
  <2> QED
    BY <1>4, <2>1, <2>2, ClientStep DEF OnServerHeartbeat, HasKeys, Decided, IInv, Signed
<1> QED
  BY <1>1, <1>2, <1>3, <1>4 DEF ClientReceive

-----------------------------------------------------------------------------
(* The server changes one session at a time and nothing of the client.     *)

LEMMA SessionStep ==
    ASSUME IInv, NEW s \in Sessions, NEW c \in SessionRecords,
           session' = [session EXCEPT ![s] = c], UNCHANGED client,
           network' \in SUBSET Packets, lost' \in SUBSET Dropped,
           \A x \in Sessions :
              <<"ServerHelloAck", x>> \notin network' \ network
                  /\ <<"Heartbeat", x>> \notin network' \ network,
           accepted' \in 0..Evictions + 1,
           fresh' \in SUBSET Sessions, connections' \in SUBSET Sessions,
           update' \in [at : {"idle", "hello", "handshake"}, session : Sessions \union {None}],
           early' \in SUBSET Sessions, crashed' \in BOOLEAN,
           ~c.waiting => HasKeys(s),
           InHand',
           early' = {} => early = {} /\ ~crashed' /\ (c.state # "None" /\ c.waiting => c.data # None)
    PROVE  IInv'
<1>1. session \in [Sessions -> SessionRecords]
  BY DEF IInv, TypeOK, SessionRecords
<1>2. session' \in [Sessions -> SessionRecords]
  BY <1>1
<1>3. TypeOK'
  BY <1>2 DEF IInv, TypeOK, SessionRecords
<1>4. \A x \in Sessions : session'[x] = IF x = s THEN c ELSE session[x]
  BY <1>1
<1>5. Signed'
  BY <1>4 DEF IInv, Signed, HasKeys, Decided
<1>6. Kept'
  BY <1>4 DEF IInv, Kept
<1> QED
  BY <1>3, <1>5, <1>6 DEF IInv

\* A step of the server that changes no session.
LEMMA SameSessions ==
    ASSUME IInv, UNCHANGED <<session, client>>,
           network' \in SUBSET Packets, lost' \in SUBSET Dropped,
           \A x \in Sessions :
              <<"ServerHelloAck", x>> \notin network' \ network
                  /\ <<"Heartbeat", x>> \notin network' \ network,
           accepted' \in 0..Evictions + 1,
           fresh' \in SUBSET Sessions, connections' \in SUBSET Sessions,
           update' \in [at : {"idle", "hello", "handshake"}, session : Sessions \union {None}],
           InHand', early' = early, crashed' \in BOOLEAN,
           early = {} => ~crashed'
    PROVE  IInv'
<1>1. TypeOK'
  BY DEF IInv, TypeOK
<1>2. Signed' /\ Kept'
  BY DEF IInv, Signed, Kept, HasKeys, Decided
<1> QED
  BY <1>1, <1>2 DEF IInv

LEMMA ServerReceiveStep == IInv /\ ServerReceive => IInv'
<1> SUFFICES ASSUME IInv, ServerReceive PROVE IInv'
  OBVIOUS
<1>a. TypeOK /\ session \in [Sessions -> SessionRecords]
  BY DEF IInv, TypeOK, SessionRecords
<1>b. {} \in SUBSET Packets /\ {<<"ClientHelloAck", None>>} \in SUBSET Packets
      /\ \A s \in Sessions : {<<"HeartbeatAck", s>>} \in SUBSET Packets
  BY PacketTypes
<1>c. accepted \in 0..Evictions + 1 /\ fresh \in SUBSET Sessions /\ connections \in SUBSET Sessions
      /\ update \in [at : {"idle", "hello", "handshake"}, session : Sessions \union {None}]
      /\ early \in SUBSET Sessions /\ crashed \in BOOLEAN
  BY DEF IInv, TypeOK
<1>1. ASSUME NEW pushedOut \in BOOLEAN, OnClientHello(pushedOut) PROVE IInv'
  <2>1. CASE IsNewHello(pushedOut)
    <3> DEFINE s == accepted + 1
               c == [session[s] EXCEPT !.state = "NetworkInit", !.data = 0]
    <3>1. s \in Sessions /\ s \in 0..Evictions + 1
      BY <1>c, <2>1, BoundsAssumption DEF IsNewHello, Sessions
    <3>2. session[s] \in SessionRecords
      BY <1>a, <3>1
    <3>3. c \in SessionRecords /\ c.waiting = session[s].waiting /\ c.data # None
      <4>1. 0 \in 0..ServerRetransmit /\ 0 # None
        BY RetransmitAssumption, NoneAssumption
      <4> QED
        BY <3>2, <4>1 DEF SessionRecords, SessionStates
    <3>4. Take(<<"ClientHello", None>>, {<<"ClientHelloAck", None>>})
          /\ accepted' = s
          /\ UNCHANGED <<client, connections, update, early, crashed>>
      BY <1>1, <2>1 DEF OnClientHello
    <3>5. /\ network' \in SUBSET Packets /\ lost' \in SUBSET Dropped
          /\ network' \subseteq network \union {<<"ClientHelloAck", None>>}
      BY <1>a, <1>b, <3>4, TakeType
    <3>6. ~c.waiting => HasKeys(s)
      BY <3>1, <3>3 DEF IInv, Signed
    <3>7. early = {} => ~crashed
      BY DEF IInv, Kept
    <3>8. CASE fresh' = fresh \union {s} /\ session' = [session EXCEPT ![s] = c]
      <4>1. InHand'
        BY <1>a, <3>1, <3>4, <3>8 DEF IInv, InHand, SessionRecords
      <4> HIDE DEF s, c
      <4> QED
        BY <1>c, <3>1, <3>3, <3>4, <3>5, <3>6, <3>7, <3>8, <4>1, SessionStep
    <3>9. CASE UNCHANGED <<fresh, session>>
      <4>1. InHand'
        BY <3>4, <3>9 DEF IInv, InHand
      <4> HIDE DEF s, c
      <4> QED
        BY <1>c, <3>1, <3>4, <3>5, <3>7, <3>9, <4>1, SameSessions
    <3> QED
      BY <1>1, <2>1, <3>8, <3>9 DEF OnClientHello
  <2>2. CASE ~IsNewHello(pushedOut)
    <3>1. Take(<<"ClientHello", None>>, {}) /\ UNCHANGED <<client, server>>
      BY <1>1, <2>2 DEF OnClientHello, server
    <3>2. network' \in SUBSET Packets /\ lost' \in SUBSET Dropped /\ network' \subseteq network
      BY <1>a, <1>b, <3>1, TakeType
    <3> QED
      BY <1>c, <3>1, <3>2, SameSessions DEF server, IInv, InHand, Kept
  <2> QED
    BY <2>1, <2>2
<1>2. ASSUME NEW s \in Sessions, OnServerHelloAck(s) PROVE IInv'
  <2>1. network' \in SUBSET Packets /\ lost' \in SUBSET Dropped /\ network' \subseteq network
        /\ <<"ServerHelloAck", s>> \in network
    BY <1>a, <1>b, <1>2, TakeType DEF OnServerHelloAck
  <2>2. HasKeys(s)
    BY <2>1 DEF IInv, Signed
  <2>3. CASE s \notin connections
    BY <1>2, <1>c, <2>1, <2>3, SameSessions DEF OnServerHelloAck, IInv, InHand, Kept
  <2>4. CASE s \in connections
    <3> DEFINE c == HeartbeatTick(session[s])
    <3>1. c \in SessionRecords /\ c.state = session[s].state /\ ~c.waiting
      BY <1>a, TickRecord
    <3>2. session' = [session EXCEPT ![s] = c]
      BY <1>2, <2>4 DEF OnServerHelloAck
    <3>3. UNCHANGED <<client, accepted, fresh, connections, update, early, crashed>>
      BY <1>2 DEF OnServerHelloAck
    <3>4. InHand'
      BY <1>a, <3>1, <3>2, <3>3 DEF IInv, InHand
    <3>5. early = {} => ~crashed
      BY DEF IInv, Kept
    <3> HIDE DEF c
    <3> QED
      BY <1>c, <2>1, <2>2, <3>1, <3>2, <3>3, <3>4, <3>5, SessionStep
  <2> QED
    BY <2>3, <2>4
<1>3. ASSUME NEW s \in Sessions, OnHeartbeat(s) PROVE IInv'
  <2> DEFINE c == HeartbeatTick(session[s])
             f == [c EXCEPT !.state = "Failed"]
             sent == {<<"HeartbeatAck", s>>}
  <2>1. c \in SessionRecords /\ c.state = session[s].state /\ ~c.waiting
    BY <1>a, TickRecord
  <2>2. f \in SessionRecords /\ f.state = "Failed" /\ ~f.waiting
    BY <2>1 DEF SessionRecords, SessionStates
  <2>3. UNCHANGED <<client, accepted, fresh, connections, update, early, crashed>>
        /\ (Take(<<"Heartbeat", s>>, {}) \/ Take(<<"Heartbeat", s>>, sent))
    BY <1>3 DEF OnHeartbeat
  <2>4. /\ network' \in SUBSET Packets /\ lost' \in SUBSET Dropped
        /\ network' \subseteq network \union sent /\ <<"Heartbeat", s>> \in network
    <3>1. CASE Take(<<"Heartbeat", s>>, {})
      BY <1>a, <1>b, <3>1, TakeType
    <3>2. CASE Take(<<"Heartbeat", s>>, sent)
      BY <1>a, <1>b, <3>2, TakeType
    <3> QED
      BY <2>3, <3>1, <3>2
  <2>5. HasKeys(s)
    BY <2>4 DEF IInv, Signed
  <2>6. \/ session' = session
        \/ session' = [session EXCEPT ![s] = c]
        \/ session' = [session EXCEPT ![s] = f]
    BY <1>3 DEF OnHeartbeat
  <2>7. \A x \in Sessions : <<"ServerHelloAck", x>> \notin network' \ network
                              /\ <<"Heartbeat", x>> \notin network' \ network
    BY <2>4
  <2>8. InHand'
    BY <1>a, <2>1, <2>2, <2>3, <2>6 DEF IInv, InHand
  <2>9. early = {} => ~crashed
    BY DEF IInv, Kept
  <2> HIDE DEF c, f, sent
  <2>10. CASE session' = session
    BY <1>c, <2>3, <2>4, <2>7, <2>8, <2>9, <2>10, SameSessions
  <2>11. CASE session' = [session EXCEPT ![s] = c]
    BY <1>c, <2>1, <2>3, <2>4, <2>5, <2>7, <2>8, <2>9, <2>11, SessionStep
  <2>12. CASE session' = [session EXCEPT ![s] = f]
    BY <1>c, <2>2, <2>3, <2>4, <2>5, <2>7, <2>8, <2>9, <2>12, SessionStep
  <2> QED
    BY <2>6, <2>10, <2>11, <2>12
<1> QED
  BY <1>1, <1>2, <1>3 DEF ServerReceive

LEMMA ServerUpdateStep == IInv /\ ServerUpdate => IInv'
<1> SUFFICES ASSUME IInv, ServerUpdate PROVE IInv'
  OBVIOUS
<1>a. TypeOK /\ session \in [Sessions -> SessionRecords]
  BY DEF IInv, TypeOK, SessionRecords
<1>b. \A s \in Sessions : <<"ServerHello", s>> \in Packets
  BY PacketTypes
<1>c. accepted \in 0..Evictions + 1 /\ fresh \in SUBSET Sessions /\ connections \in SUBSET Sessions
      /\ update \in [at : {"idle", "hello", "handshake"}, session : Sessions \union {None}]
      /\ early \in SUBSET Sessions /\ crashed \in BOOLEAN
      /\ network \in SUBSET Packets /\ lost \in SUBSET Dropped
  BY DEF IInv, TypeOK
<1>d. early = {} => ~crashed
  BY DEF IInv, Kept
<1>1. CASE AcceptNew
  BY <1>c, <1>d, <1>1, SameSessions DEF AcceptNew, Same, IInv, InHand
<1>2. CASE WaitHandshake
  <2> DEFINE s == update.session
             c == [session[s] EXCEPT !.waiting = TRUE, !.age = 0, !.state = "ServerReady"]
  <2>1. s \in Sessions /\ session[s].state # "None"
    BY <1>2 DEF WaitHandshake, IInv, InHand
  <2>2. session[s] \in SessionRecords
    BY <1>a, <2>1
  <2>3. c \in SessionRecords /\ c.waiting /\ c.data = session[s].data
    BY <2>2, AgesBound DEF SessionRecords, SessionStates
  <2>4. session' = [session EXCEPT ![s] = c]
    BY <1>2 DEF WaitHandshake
  <2>5. update' = [at |-> "idle", session |-> None]
    BY <1>2 DEF WaitHandshake, Leave
  <2>6. UNCHANGED <<network, lost, client, accepted, fresh, connections, crashed>>
        /\ early' = IF session[s].waiting THEN early ELSE early \union {s}
    BY <1>2 DEF WaitHandshake, Same, Lists
  <2>7. early' = {} => early = {} /\ ~crashed' /\ c.data # None
    BY <1>d, <2>1, <2>3, <2>6 DEF IInv, Kept
  <2>8. InHand' /\ early' \in SUBSET Sessions
    BY <1>c, <2>1, <2>5, <2>6 DEF InHand
  <2> HIDE DEF s, c
  <2> QED
    BY <1>c, <2>1, <2>3, <2>4, <2>5, <2>6, <2>7, <2>8, SessionStep
<1>3. CASE RetransmitServerHello
  <2> DEFINE s == update.session
             c == session[s]
             f == [c EXCEPT !.state = "Failed"]
             d == [c EXCEPT !.data = @ - 1, !.waiting = TRUE, !.age = 0]
             t == CheckTimeout(c)
  <2>1. s \in Sessions /\ c.state # "None" /\ c \in SessionRecords
    BY <1>a, <1>3 DEF RetransmitServerHello, IInv, InHand
  <2>2. UNCHANGED <<client, accepted, fresh, connections, early>>
    BY <1>3 DEF RetransmitServerHello, Lists
  <2>3. ~c.waiting => HasKeys(s)
    BY <2>1 DEF IInv, Signed
  <2>4. early = {} /\ c.waiting => c.data # None
    BY <2>1 DEF IInv, Kept
  <2>5. CASE /\ c.data = None /\ RetransmitDue(c) /\ crashed' = TRUE
             /\ Same /\ UNCHANGED <<session, update>>
    <3>1. early # {}
      BY <2>4, <2>5 DEF RetransmitDue
    <3> QED
      BY <1>c, <2>2, <2>5, <3>1, SameSessions DEF Same, IInv, InHand
  <2>6. CASE update' = [at |-> "idle", session |-> None] /\ UNCHANGED crashed
    <3>1. InHand'
      BY <2>6 DEF InHand
    <3>2. CASE session' = [session EXCEPT ![s] = t] /\ Same
      <4>1. t \in SessionRecords /\ t.waiting = c.waiting /\ t.data = c.data
        BY <2>1, CheckRecord
      <4> HIDE DEF s, c, t
      <4> QED
        BY <1>c, <1>d, <2>1, <2>2, <2>3, <2>4, <2>6, <3>1, <3>2, <4>1, SessionStep DEF Same
    <3>3. CASE session' = [session EXCEPT ![s] = f] /\ Same
      <4>1. f \in SessionRecords /\ f.waiting = c.waiting /\ f.data = c.data
        BY <2>1 DEF SessionRecords, SessionStates
      <4> HIDE DEF s, c, f
      <4> QED
        BY <1>c, <1>d, <2>1, <2>2, <2>3, <2>4, <2>6, <3>1, <3>3, <4>1, SessionStep DEF Same
    <3>4. CASE /\ c.data # None /\ c.data # 0
               /\ session' = [session EXCEPT ![s] = d] /\ Put(<<"ServerHello", s>>)
      <4>1. c.data \in 0..ServerRetransmit
        BY <2>1, <3>4 DEF SessionRecords
      <4>2. c.data - 1 \in 0..ServerRetransmit /\ c.data - 1 # None
        BY <3>4, <4>1, RetransmitAssumption, NoneAssumption
      <4>3. d \in SessionRecords /\ d.waiting /\ d.data # None
        BY <2>1, <4>2, AgesBound DEF SessionRecords
      <4>4. /\ network' \in SUBSET Packets /\ lost' \in SUBSET Dropped
            /\ network' \subseteq network \union {<<"ServerHello", s>>}
        BY <1>a, <1>b, <2>1, <3>4, PutType
      <4> HIDE DEF s, c, d
      <4> QED
        BY <1>c, <1>d, <2>1, <2>2, <2>6, <3>1, <3>4, <4>3, <4>4, SessionStep
    <3> QED
      BY <1>3, <2>5, <2>6, <3>2, <3>3, <3>4 DEF RetransmitServerHello
  <2> QED
    BY <1>3, <2>5, <2>6 DEF RetransmitServerHello, Leave
<1>4. ASSUME NEW s \in Sessions, UpdateNetworkInit(s) PROVE IInv'
  <2> DEFINE c == [session[s] EXCEPT !.state = "ServerHello"]
  <2>1. session[s] \in SessionRecords /\ session[s].state = "NetworkInit"
    BY <1>a, <1>4 DEF UpdateNetworkInit, UpdatingSession
  <2>2. c \in SessionRecords /\ c.waiting = session[s].waiting /\ c.data = session[s].data
    BY <2>1 DEF SessionRecords, SessionStates
  <2>3. session' = [session EXCEPT ![s] = c] /\ update.at = "idle"
        /\ UNCHANGED <<network, lost, client, accepted, fresh, connections, update, early, crashed>>
    BY <1>4 DEF UpdateNetworkInit, UpdatingSession, Same, Lists
  <2>4. ~c.waiting => HasKeys(s)
    BY <2>2 DEF IInv, Signed
  <2>5. early = {} /\ c.waiting => c.data # None
    BY <2>1, <2>2 DEF IInv, Kept
  <2>6. InHand'
    BY <2>3 DEF InHand
  <2> HIDE DEF c
  <2> QED
    BY <1>c, <1>d, <2>2, <2>3, <2>4, <2>5, <2>6, SessionStep
<1>5. ASSUME NEW s \in Sessions, UpdateServerHello(s) PROVE IInv'
  <2> DEFINE c == [session[s] EXCEPT !.data = ServerRetransmit - 1]
             f == [session[s] EXCEPT !.state = "Failed"]
  <2>1. session[s] \in SessionRecords /\ session[s].state = "ServerHello"
    BY <1>a, <1>5 DEF UpdateServerHello, UpdatingSession
  <2>2. UNCHANGED <<client, accepted, fresh, connections, early, crashed>> /\ update.at = "idle"
    BY <1>5 DEF UpdateServerHello, UpdatingSession, Lists
  <2>3. ~session[s].waiting => HasKeys(s)
    BY DEF IInv, Signed
  <2>4. CASE session' = [session EXCEPT ![s] = c] /\ Put(<<"ServerHello", s>>)
             /\ update' = [at |-> "hello", session |-> s]
    <3>1. ServerRetransmit - 1 \in 0..ServerRetransmit /\ ServerRetransmit - 1 # None
      BY RetransmitAssumption, NoneAssumption
    <3>2. c \in SessionRecords /\ c.waiting = session[s].waiting /\ c.data # None
          /\ c.state = "ServerHello"
      BY <2>1, <3>1 DEF SessionRecords
    <3>3. /\ network' \in SUBSET Packets /\ lost' \in SUBSET Dropped
          /\ network' \subseteq network \union {<<"ServerHello", s>>}
      BY <1>a, <1>b, <2>4, PutType
    <3>4. InHand'
      BY <1>a, <2>4, <3>2 DEF InHand
    <3> HIDE DEF c
    <3> QED
      BY <1>c, <1>d, <2>2, <2>3, <2>4, <3>2, <3>3, <3>4, SessionStep
  <2>5. CASE session' = [session EXCEPT ![s] = f] /\ Same /\ UNCHANGED update
    <3>1. f \in SessionRecords /\ f.waiting = session[s].waiting /\ f.data = session[s].data
      BY <2>1 DEF SessionRecords, SessionStates
    <3>2. early = {} /\ f.waiting => f.data # None
      BY <2>1, <3>1 DEF IInv, Kept
    <3>3. InHand'
      BY <2>2, <2>5 DEF InHand
    <3> HIDE DEF f
    <3> QED
      BY <1>c, <1>d, <2>2, <2>3, <2>5, <3>1, <3>2, <3>3, SessionStep DEF Same
  <2> QED
    BY <1>5, <2>4, <2>5 DEF UpdateServerHello
<1>6. ASSUME NEW s \in Sessions, UpdateServerReady(s) PROVE IInv'
  <2> DEFINE t == CheckTimeout(session[s])
  <2>1. session[s] \in SessionRecords /\ session[s].state = "ServerReady"
    BY <1>a, <1>6 DEF UpdateServerReady, UpdatingSession
  <2>2. UNCHANGED <<network, lost, client, accepted, fresh, connections, early, crashed>>
        /\ update.at = "idle"
    BY <1>6 DEF UpdateServerReady, UpdatingSession, Same, Lists
  <2>3. CASE update' = [at |-> "handshake", session |-> s] /\ UNCHANGED session
    BY <1>c, <1>d, <2>1, <2>2, <2>3, SameSessions DEF InHand
  <2>4. CASE session' = [session EXCEPT ![s] = t] /\ UNCHANGED update
    <3>1. t \in SessionRecords /\ t.waiting = session[s].waiting /\ t.data = session[s].data
      BY <2>1, CheckRecord
    <3>2. ~t.waiting => HasKeys(s)
      BY <3>1 DEF IInv, Signed
    <3>3. early = {} /\ t.waiting => t.data # None
      BY <2>1, <3>1 DEF IInv, Kept
    <3>4. InHand'
      BY <2>2, <2>4 DEF InHand
    <3> HIDE DEF t
    <3> QED
      BY <1>c, <1>d, <2>2, <2>4, <3>1, <3>2, <3>3, <3>4, SessionStep
  <2> QED
    BY <1>6, <2>3, <2>4 DEF UpdateServerReady
<1>7. ASSUME NEW s \in Sessions, Sweep(s) PROVE IInv'
  <2>1. NoSession \in SessionRecords /\ NoSession.waiting /\ NoSession.state = "None"
    BY AgesBound DEF SessionRecords, SessionStates, NoSession
  <2>2. InHand'
    BY <1>7 DEF Sweep, InHand
  <2> QED
    BY <1>c, <1>d, <1>7, <2>1, <2>2, SessionStep DEF Sweep, Same
<1> QED
  BY <1>1, <1>2, <1>3, <1>4, <1>5, <1>6, <1>7 DEF ServerUpdate

\* Time moves the timers only.
LEMMA TickStep == IInv /\ Tick => IInv'
<1> SUFFICES ASSUME IInv, Tick PROVE IInv'
  OBVIOUS
<1>1. client \in ClientRecords /\ session \in [Sessions -> SessionRecords]
  BY DEF IInv, TypeOK, ClientRecords, SessionRecords
<1>2. client' \in ClientRecords /\ client'.state = client.state /\ client'.session = client.session
  BY <1>1, AgesBound DEF Tick, ClientRecords
<1>3. ASSUME NEW s \in Sessions
      PROVE  /\ session'[s] \in SessionRecords /\ session'[s].state = session[s].state
             /\ session'[s].waiting = session[s].waiting /\ session'[s].data = session[s].data
  BY <1>1, AgesBound DEF Tick, SessionRecords
<1>4. session' \in [Sessions -> SessionRecords]
  BY <1>3 DEF Tick
<1>5. TypeOK'
  BY <1>2, <1>4 DEF Tick, Same, IInv, TypeOK, ClientRecords, SessionRecords
<1>6. Signed'
  BY <1>2, <1>3 DEF Tick, Same, IInv, Signed, HasKeys, Decided
<1>7. InHand' /\ Kept'
  BY <1>3 DEF Tick, IInv, InHand, Kept
<1> QED
  BY <1>5, <1>6, <1>7 DEF IInv

LEMMA Invariance == Spec => []IInv
<1>1. IInv /\ [Next]_vars => IInv'
  <2>1. IInv /\ UNCHANGED vars => IInv'
    BY DEF vars, server, IInv, TypeOK, Signed, HasKeys, Decided, InHand, Kept
  <2> QED
    BY <2>1, ClientUpdateStep, ClientReceiveStep, ServerUpdateStep, ServerReceiveStep, TickStep
    DEF Next
<1> QED
  BY InitIInv, <1>1, PTL DEF Spec

\* The drivers, sessions and packets stay in their types.
THEOREM TypeCorrect == Spec => []TypeOK
<1>1. IInv => TypeOK
  BY DEF IInv
<1> QED
  BY Invariance, <1>1, PTL

\* A session whose handshake is complete is the client's session.
THEOREM Agreement == Spec => []CompleteMeansAgreed
<1>1. IInv => CompleteMeansAgreed
  BY DEF IInv, TypeOK, Signed, HasKeys, CompleteMeansAgreed
<1> QED
  BY Invariance, <1>1, PTL

\* The server uses a released ServerHello only after an early acknowledgement.
THEOREM HelloIsKept == Spec => []ReleasedMeansAcknowledged
<1>1. IInv => ReleasedMeansAcknowledged
  BY DEF IInv, Kept, ReleasedMeansAcknowledged
<1> QED
  BY Invariance, <1>1, PTL
=============================================================================
