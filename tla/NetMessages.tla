---------------------------- MODULE NetMessages ----------------------------
(***************************************************************************)
(* Reliable messages of Runtime/Net: NetMessage and the UpdateMessages of  *)
(* NetSecureClientDriver and NetSecureServerDriver, which are the same     *)
(* code twice.  One driver sends over one connection, its peer             *)
(* acknowledges.  Three actors interleave: whoever calls Send, the thread  *)
(* that calls Update, and the sender's receiving thread, which handles one *)
(* packet at a time and shares only the state of a message and the message *)
(* map with it.                                                            *)
(*                                                                         *)
(* The datagrams in flight are sets.  A packet that is never delivered is  *)
(* lost, any order of delivery is possible, and a delivery may leave a     *)
(* copy behind as long as the budget Duplicates lasts.                     *)
(***************************************************************************)
EXTENDS Integers, FiniteSets

CONSTANTS
    Messages,       \* the messages the application sends
    MaxRetransmit,  \* mMaxRetransmit
    BufferSize,     \* the size of the peer's NetTransmitBuffer
    Duplicates,     \* bound on the copies the network makes
    None            \* no message

ASSUME RetransmitAssumption == MaxRetransmit \in Nat \ {0}
ASSUME BufferAssumption == BufferSize \in Nat
ASSUME DuplicatesAssumption == Duplicates \in Nat
ASSUME NoneAssumption == None \notin Messages

VARIABLES
    server,         \* the sender is the server driver; else it is the client's
    connected,      \* ClientReady, or the connection is ServerReady
    state,          \* NetMessage::mState, "Unsent" before Send
    new, active,    \* mNewMessages and mMessages
    map,            \* the messages mMessageMap knows, by their ID
    remaining,      \* mRetransmits
    timer,          \* mRetransmitTimer against mAckTimeout
    pc, cur, todo,  \* where UpdateMessages is, in which message, what is left
    registering, sweeping,      \* its local list of messages
    uid, lastUid,   \* the packet UID of a message, the driver's mPacketUID
    packets, acks, copies,      \* the network
    buffer,         \* the peer's NetTransmitBuffer
    received, delivered,        \* by the peer's driver, by its controller
    succeeded, failed,          \* how often OnSuccess and OnFailed were called
    late            \* history: acknowledgements after Garbage and before the mark

sender == <<server, connected, state, new, active, map, remaining, timer, pc,
            cur, todo, registering, sweeping, uid, lastUid, succeeded, failed, late>>
network == <<packets, acks, copies>>
receiver == <<buffer, received, delivered>>
vars == <<sender, network, receiver>>

States == {"Unsent", "SerializeData", "Register", "Transmit", "Failed",
           "Success", "Garbage"}

TypeOK ==
    /\ server \in BOOLEAN /\ connected \in BOOLEAN
    /\ state \in [Messages -> States]
    /\ new \in SUBSET Messages /\ active \in SUBSET Messages /\ map \in SUBSET Messages
    /\ remaining \in [Messages -> Int]
    /\ timer \in [Messages -> {"stopped", "running", "expired"}]
    /\ pc \in {"idle", "update", "fail", "callback", "garbage", "sweep"}
    /\ cur \in Messages \union {None} /\ todo \in SUBSET Messages
    /\ registering \in SUBSET Messages /\ sweeping \in SUBSET Messages
    /\ uid \in [Messages -> Nat] /\ lastUid \in Nat
    /\ packets \in SUBSET Messages /\ acks \in SUBSET Messages /\ copies \in 0..Duplicates
    /\ buffer \in [0..BufferSize - 1 -> Messages \union {None}]
    /\ received \in SUBSET Messages /\ delivered \in [Messages -> Nat]
    /\ succeeded \in [Messages -> Nat] /\ failed \in [Messages -> Nat]
    /\ late \in [Messages -> Nat]

Init ==
    /\ server \in BOOLEAN /\ connected = TRUE
    /\ state = [m \in Messages |-> "Unsent"]
    /\ new = {} /\ active = {} /\ map = {}
    /\ remaining = [m \in Messages |-> 0]
    /\ timer = [m \in Messages |-> "stopped"]
    /\ pc = "idle" /\ cur = None /\ todo = {} /\ registering = {} /\ sweeping = {}
    /\ uid = [m \in Messages |-> 0] /\ lastUid = 0
    /\ packets = {} /\ acks = {} /\ copies = 0
    /\ buffer = [i \in 0..BufferSize - 1 |-> None]
    /\ received = {} /\ delivered = [m \in Messages |-> 0]
    /\ succeeded = [m \in Messages |-> 0] /\ failed = [m \in Messages |-> 0]
    /\ late = [m \in Messages |-> 0]

SetState(m, value) == state' = [state EXCEPT ![m] = value]

-----------------------------------------------------------------------------
(* The application, the connection and time.                               *)

Send(m) ==
    /\ state[m] = "Unsent"
    /\ SetState(m, "SerializeData")
    /\ new' = new \union {m}
    /\ UNCHANGED <<server, connected, active, map, remaining, timer, pc, cur, todo,
                   registering, sweeping, uid, lastUid, succeeded, failed, late,
                   network, receiver>>

\* The driver leaves ClientReady, or the connection leaves ServerReady, for good.
Close ==
    /\ connected
    /\ connected' = FALSE
    /\ UNCHANGED <<server, state, new, active, map, remaining, timer, pc, cur, todo,
                   registering, sweeping, uid, lastUid, succeeded, failed, late,
                   network, receiver>>

\* More than mAckTimeout has passed since the last transmission.
Expire(m) ==
    /\ timer[m] = "running"
    /\ timer' = [timer EXCEPT ![m] = "expired"]
    /\ UNCHANGED <<server, connected, state, new, active, map, remaining, pc, cur,
                   todo, registering, sweeping, uid, lastUid, succeeded, failed, late,
                   network, receiver>>

-----------------------------------------------------------------------------
(* UpdateMessages.                                                         *)

\* The client's driver updates its messages in ClientReady only.
AcceptNew ==
    /\ pc = "idle" /\ (server \/ connected)
    /\ active' = active \union new /\ new' = {} /\ todo' = active'
    /\ pc' = "update"
    /\ UNCHANGED <<server, connected, state, map, remaining, timer, cur, registering,
                   sweeping, uid, lastUid, succeeded, failed, late, network, receiver>>

Updating(m) == pc = "update" /\ m \in todo
Done(m) == todo' = todo \ {m}

\* The server's driver gives up on a message whose connection is not ready; the
\* client's keeps its connection object.
Orphaned == server /\ ~connected

\* Keys and buffers may fail the serialization for reasons of their own, when
\* GetPacketUID has been called for its argument.
UpdateMessageSerialize(m) ==
    /\ Updating(m) /\ state[m] = "SerializeData" /\ Done(m)
    /\ \/ /\ SetState(m, "Failed")
          /\ lastUid' = IF Orphaned THEN lastUid ELSE lastUid + 1
          /\ UNCHANGED <<registering, remaining, uid>>
       \/ /\ ~Orphaned
          /\ SetState(m, "Register")
          /\ registering' = registering \union {m}
          /\ lastUid' = lastUid + 1
          /\ uid' = [uid EXCEPT ![m] = lastUid']
          /\ remaining' = [remaining EXCEPT ![m] = MaxRetransmit]
    /\ UNCHANGED <<server, connected, new, active, map, timer, pc, cur, sweeping,
                   succeeded, failed, late, network, receiver>>

Due(m) == timer[m] = "stopped" \/ (remaining[m] > 0 /\ timer[m] = "expired")

\* A failure is written in a step of its own: an acknowledgement may come first.
UpdateMessageTransmit(m) ==
    /\ Updating(m) /\ state[m] = "Transmit" /\ Done(m)
    /\ \/ /\ Orphaned \/ Due(m)
          /\ pc' = "fail" /\ cur' = m
          /\ UNCHANGED <<remaining, timer, packets>>
       \/ /\ ~Orphaned /\ Due(m)
          /\ packets' = packets \union {m}
          /\ remaining' = [remaining EXCEPT ![m] = @ - 1]
          /\ timer' = [timer EXCEPT ![m] = "running"]
          /\ UNCHANGED <<pc, cur>>
       \/ ~Orphaned /\ ~Due(m) /\ UNCHANGED <<pc, cur, remaining, timer, packets>>
    /\ UNCHANGED <<server, connected, state, new, active, map, registering, sweeping,
                   uid, lastUid, succeeded, failed, late, acks, copies, receiver>>

TransmitFailed ==
    /\ pc = "fail" /\ pc' = "update" /\ cur' = None
    /\ SetState(cur, "Failed")
    /\ UNCHANGED <<server, connected, new, active, map, remaining, timer, todo,
                   registering, sweeping, uid, lastUid, succeeded, failed, late,
                   network, receiver>>

UpdateMessageFinal(m) ==
    /\ Updating(m) /\ state[m] \in {"Failed", "Success"} /\ Done(m)
    /\ pc' = "callback" /\ cur' = m
    /\ UNCHANGED <<server, connected, state, new, active, map, remaining, timer,
                   registering, sweeping, uid, lastUid, succeeded, failed, late,
                   network, receiver>>

\* The state is read again to choose the callback.
FinalCallback ==
    /\ pc = "callback" /\ pc' = "garbage"
    /\ succeeded' = [succeeded EXCEPT ![cur] = @ + (IF state[cur] = "Success" THEN 1 ELSE 0)]
    /\ failed' = [failed EXCEPT ![cur] = @ + (IF state[cur] = "Failed" THEN 1 ELSE 0)]
    /\ UNCHANGED <<server, connected, state, new, active, map, remaining, timer, cur,
                   todo, registering, sweeping, uid, lastUid, late, network, receiver>>

\* Fault: the callback is made and the message is kept as it is.
FinalGarbageNever ==
    /\ pc = "garbage" /\ pc' = "update" /\ cur' = None
    /\ UNCHANGED <<server, connected, state, new, active, map, remaining, timer, todo,
                   registering, sweeping, uid, lastUid, succeeded, failed, late,
                   network, receiver>>

FinalGarbage ==
    /\ pc = "garbage" /\ pc' = "update" /\ cur' = None
    /\ SetState(cur, "Garbage")
    /\ UNCHANGED <<server, connected, new, active, map, remaining, timer, todo,
                   registering, sweeping, uid, lastUid, succeeded, failed, late,
                   network, receiver>>

\* Fault: what was serialized is transmitted without being put in the map.
RegisterAndMarkUnknown ==
    /\ pc = "update" /\ todo = {} /\ pc' = "sweep"
    /\ state' = [m \in Messages |-> IF m \in registering THEN "Transmit" ELSE state[m]]
    /\ registering' = {}
    /\ sweeping' = {m \in active : state'[m] = "Garbage"}
    /\ active' = active \ sweeping'
    /\ UNCHANGED <<server, connected, new, map, remaining, timer, cur, todo, uid,
                   lastUid, succeeded, failed, late, network, receiver>>

\* Fault: an acknowledged message is removed before its callback.
RegisterAndMarkSettled ==
    /\ pc = "update" /\ todo = {} /\ pc' = "sweep"
    /\ map' = map \union registering
    /\ state' = [m \in Messages |-> IF m \in registering THEN "Transmit" ELSE state[m]]
    /\ registering' = {}
    /\ sweeping' = {m \in active : state'[m] \in {"Success", "Garbage"}}
    /\ active' = active \ sweeping'
    /\ UNCHANGED <<server, connected, new, remaining, timer, cur, todo, uid, lastUid,
                   succeeded, failed, late, network, receiver>>

\* Register under the map's write lock, then Mark.
RegisterAndMark ==
    /\ pc = "update" /\ todo = {} /\ pc' = "sweep"
    /\ map' = map \union registering
    /\ state' = [m \in Messages |-> IF m \in registering THEN "Transmit" ELSE state[m]]
    /\ registering' = {}
    /\ sweeping' = {m \in active : state'[m] = "Garbage"}
    /\ active' = active \ sweeping'
    /\ UNCHANGED <<server, connected, new, remaining, timer, cur, todo, uid, lastUid,
                   succeeded, failed, late, network, receiver>>

Sweep ==
    /\ pc = "sweep" /\ pc' = "idle"
    /\ map' = map \ sweeping /\ sweeping' = {}
    /\ UNCHANGED <<server, connected, state, new, active, remaining, timer, cur, todo,
                   registering, uid, lastUid, succeeded, failed, late, network, receiver>>

-----------------------------------------------------------------------------
(* The peer, and the receiving thread of the sender.                       *)

\* NetTransmitBuffer::Update: nothing is new to a buffer without slots.
Fresh(m) == BufferSize > 0 /\ buffer[uid[m] % BufferSize] # m

\* ProcessMessage: always acknowledged; the server's driver gives a message it
\* has not seen to its controller, the client's driver has no controller yet.
ProcessMessage(m, keep) ==
    /\ m \in packets /\ (keep => copies < Duplicates)
    /\ packets' = IF keep THEN packets ELSE packets \ {m}
    /\ copies' = IF keep THEN copies + 1 ELSE copies
    /\ acks' = acks \union {m}
    /\ received' = received \union {m}
    /\ IF ~server /\ Fresh(m)
       THEN /\ buffer' = [buffer EXCEPT ![uid[m] % BufferSize] = m]
            /\ delivered' = [delivered EXCEPT ![m] = @ + 1]
       ELSE UNCHANGED <<buffer, delivered>>
    /\ UNCHANGED sender

\* Fault: an acknowledgement settles whatever the map holds.
ProcessMessageAckAny(m, keep) ==
    /\ m \in acks /\ (keep => copies < Duplicates)
    /\ acks' = IF keep THEN acks ELSE acks \ {m}
    /\ copies' = IF keep THEN copies + 1 ELSE copies
    /\ state' = [x \in Messages |-> IF x \in map THEN "Success" ELSE state[x]]
    /\ UNCHANGED <<server, connected, new, active, map, remaining, timer, pc, cur, todo,
                   registering, sweeping, uid, lastUid, succeeded, failed, late,
                   packets, receiver>>

\* Under the map's read lock, whatever state the message is in.
ProcessMessageAck(m, keep) ==
    /\ m \in acks /\ (keep => copies < Duplicates)
    /\ acks' = IF keep THEN acks ELSE acks \ {m}
    /\ copies' = IF keep THEN copies + 1 ELSE copies
    /\ IF m \in map
       THEN /\ SetState(m, "Success")
            /\ late' = IF state[m] = "Garbage" /\ m \in active
                       THEN [late EXCEPT ![m] = @ + 1] ELSE late
       ELSE UNCHANGED <<state, late>>
    /\ UNCHANGED <<server, connected, new, active, map, remaining, timer, pc, cur, todo,
                   registering, sweeping, uid, lastUid, succeeded, failed, packets, receiver>>

-----------------------------------------------------------------------------

UpdateMessages ==
    \/ AcceptNew \/ RegisterAndMark \/ Sweep
    \/ TransmitFailed \/ FinalCallback \/ FinalGarbage
    \/ \E m \in Messages :
        UpdateMessageSerialize(m) \/ UpdateMessageTransmit(m) \/ UpdateMessageFinal(m)

Next ==
    \/ UpdateMessages \/ Close
    \/ \E m \in Messages :
        \/ Send(m) \/ Expire(m)
        \/ \E keep \in BOOLEAN : ProcessMessage(m, keep) \/ ProcessMessageAck(m, keep)

Spec == Init /\ [][Next]_vars

\* The application calls Update in its loop, and time passes.  Nothing is
\* promised of the network.
FairSpec == Spec /\ WF_vars(UpdateMessages) /\ \A m \in Messages : WF_vars(Expire(m))

-----------------------------------------------------------------------------
(* Properties.                                                             *)

\* OnFailed is called at most once, and the application hears of a message once
\* however acknowledgements, retransmissions and failures interleave, but for one
\* OnSuccess more for every acknowledgement that comes between SetState(Garbage)
\* and the mark.
OutcomeOnce ==
    \A m \in Messages : failed[m] <= 1 /\ succeeded[m] + failed[m] <= 1 + late[m]

\* The contract of the two callbacks: one of them, once.
HeardOnce == \A m \in Messages : succeeded[m] + failed[m] <= 1

\* OnSuccess is called only for a message that reached the peer.
SuccessMeansReceived ==
    \A m \in Messages : succeeded[m] > 0 => m \in received

\* An acknowledgement finds its message as long as that one is not settled,
\* and the map keeps no message that is gone from mMessages.
MapFollowsMessages ==
    /\ \A m \in active : timer[m] # "stopped" => m \in map
    /\ map \subseteq active \union sweeping

\* The application is told of every acknowledged message, unless a client
\* loses its connection first.
AcknowledgedEnds ==
    \A m \in Messages :
        (state[m] = "Success") ~>
            (succeeded[m] + failed[m] > 0 \/ (~server /\ ~connected))

\* What NetMessage.h says of a reliable message: its life ends when it is
\* acknowledged or when it times out trying to transmit.
MessageEnds ==
    \A m \in Messages : (state[m] = "Transmit") ~> (state[m] # "Transmit" \/ ~connected)

\* What NetSecureServerConnection.h says of the transmit buffers: they resist
\* duplicates.  A message the client was told was sent has reached the
\* server's controller.
SuccessMeansDelivered ==
    \A m \in Messages : ~server /\ succeeded[m] > 0 => delivered[m] > 0
=============================================================================
