------------------------- MODULE NetMessagesProofs -------------------------
(***************************************************************************)
(* NetMessages for any set of messages, any number of retransmissions, any *)
(* buffer and any number of copies made by the network: OnFailed is called *)
(* once at most, a further OnSuccess has an acknowledgement that came      *)
(* before the mark to account for it, the application hears of success     *)
(* only for a message that was received, and an acknowledgement finds      *)
(* every message that is under way.                                        *)
(*                                                                         *)
(* The outcome is counted between the callback and SetState(Garbage).      *)
(* Settled is the heart of the argument: a message with a callback that no *)
(* late acknowledgement accounts for is in that bracket, is Garbage, or    *)
(* has left mMessages, and from none of the three does UpdateMessage call  *)
(* it again.  Unfailing does the same for OnFailed: once it was called the *)
(* message is in the bracket or was settled since, and it cannot fail.     *)
(***************************************************************************)
EXTENDS NetMessages, TLAPS

Outcomes(m) == succeeded[m] + failed[m]

\* The lists of the driver, and what the state of a message says of them.
Lists ==
    /\ todo \subseteq active /\ registering \subseteq active
    /\ \A m \in Messages : m \in new => m \notin active /\ state[m] = "SerializeData"
    /\ \A m \in Messages : state[m] = "Unsent" => m \notin new \union active /\ Outcomes(m) = 0
    /\ \A m \in Messages : m \in registering => state[m] = "Register"
    /\ \A m \in Messages : m \in map => state[m] \notin {"Unsent", "SerializeData", "Register"}

\* The message that UpdateMessages is in the middle of.
Current ==
    /\ pc \in {"fail", "callback", "garbage"} => cur \in active
    /\ pc = "fail" => state[cur] \in {"Transmit", "Success"}
    /\ pc \in {"callback", "garbage"} => state[cur] \in {"Failed", "Success"}

Settled ==
    \A m \in Messages :
        /\ Outcomes(m) <= 1 + late[m]
        /\ Outcomes(m) > late[m] =>
            \/ pc = "garbage" /\ cur = m
            \/ state[m] = "Garbage"
            \/ m \notin active \union new

Unfailing ==
    \A m \in Messages :
        /\ failed[m] <= 1
        /\ failed[m] > 0 =>
            \/ pc = "garbage" /\ cur = m
            \/ state[m] \in {"Success", "Garbage"} /\ ~(pc = "fail" /\ cur = m)

\* Success comes from an acknowledgement, and that from the peer.
Evidence ==
    /\ acks \subseteq received
    /\ \A m \in Messages : state[m] = "Success" \/ succeeded[m] > 0 => m \in received

\* The map against the lists; what is being swept has left mMessages.
Mapped ==
    /\ \A m \in Messages : state[m] \in {"Unsent", "SerializeData", "Register"} => timer[m] = "stopped"
    /\ \A m \in active : state[m] = "Transmit" \/ timer[m] # "stopped" => m \in map
    /\ map \subseteq active \union sweeping
    /\ sweeping \intersect active = {}
    /\ pc # "sweep" => sweeping = {}

IInv == TypeOK /\ Lists /\ Current /\ Settled /\ Unfailing /\ Evidence /\ Mapped

LEMMA InitIInv == Init => IInv
<1> SUFFICES ASSUME Init PROVE IInv
  OBVIOUS
<1> USE DEF Init
<1>1. TypeOK
  BY RetransmitAssumption, BufferAssumption, DuplicatesAssumption DEF TypeOK, States
<1>2. Lists /\ Current /\ Settled /\ Unfailing /\ Evidence /\ Mapped
  BY DEF Lists, Current, Settled, Unfailing, Evidence, Mapped, Outcomes
<1> QED
  BY <1>1, <1>2 DEF IInv

-----------------------------------------------------------------------------
(* The steps of UpdateMessages.                                            *)

LEMMA AcceptNewStep == IInv /\ AcceptNew => IInv'
<1> SUFFICES ASSUME IInv, AcceptNew PROVE IInv'
  OBVIOUS
<1> USE DEF IInv, AcceptNew, network, receiver
<1>1. TypeOK'
  BY DEF TypeOK
<1>2. Lists'
  BY DEF TypeOK, Lists, Outcomes
<1>3. Current'
  BY DEF TypeOK, Current
<1>4. Settled'
  BY DEF TypeOK, Settled, Outcomes
<1>5. Evidence'
  BY DEF TypeOK, Evidence
<1>6. Mapped'
  BY DEF TypeOK, Lists, Mapped
<1>7. Unfailing'
  BY DEF TypeOK, Unfailing
<1> QED
  BY <1>1, <1>2, <1>3, <1>4, <1>5, <1>6, <1>7

LEMMA SerializeStep ==
    ASSUME IInv, NEW m \in Messages, UpdateMessageSerialize(m) PROVE IInv'
<1> USE DEF IInv, UpdateMessageSerialize, Updating, Done, SetState, network, receiver
<1>0. m \in active /\ m \notin map /\ pc = "update"
  BY DEF TypeOK, Lists
<1>1. TypeOK'
  <2>1. state' \in [Messages -> States]
    BY DEF TypeOK, States
  <2>2. /\ registering' \in SUBSET Messages /\ remaining' \in [Messages -> Int]
        /\ uid' \in [Messages -> Nat] /\ lastUid' \in Nat
    <3>1. registering \in SUBSET Messages /\ remaining \in [Messages -> Int]
          /\ uid \in [Messages -> Nat] /\ lastUid \in Nat /\ MaxRetransmit \in Int
      BY RetransmitAssumption DEF TypeOK
    <3>2. CASE UNCHANGED <<registering, remaining, uid>>
               /\ lastUid' = IF Orphaned THEN lastUid ELSE lastUid + 1
      <4> HIDE DEF IInv, UpdateMessageSerialize
      <4> QED
        BY <3>1, <3>2
    <3>3. CASE /\ registering' = registering \union {m} /\ lastUid' = lastUid + 1
               /\ uid' = [uid EXCEPT ![m] = lastUid']
               /\ remaining' = [remaining EXCEPT ![m] = MaxRetransmit]
      <4> HIDE DEF IInv, UpdateMessageSerialize
      <4>1. lastUid' \in Nat
        BY <3>1, <3>3
      <4> QED
        BY <3>1, <3>3, <4>1
    <3> QED
      BY <3>2, <3>3
  <2> QED
    BY <2>1, <2>2 DEF TypeOK
<1>2. Lists'
  <2>1. CASE state' = [state EXCEPT ![m] = "Failed"] /\ registering' = registering
    BY <1>0, <2>1 DEF TypeOK, Lists, Outcomes
  <2>2. CASE state' = [state EXCEPT ![m] = "Register"] /\ registering' = registering \union {m}
    BY <1>0, <2>2 DEF TypeOK, Lists, Outcomes
  <2> QED
    BY <2>1, <2>2
<1>3. Current'
  BY DEF TypeOK, Current
<1>4. Settled'
  BY DEF TypeOK, Lists, Settled, Outcomes
<1>5. Evidence'
  BY DEF TypeOK, Evidence
<1>6. Mapped'
  <2>1. UNCHANGED <<timer, active, map, sweeping, pc>>
    OBVIOUS
  <2>2. \A x \in Messages : x # m => state'[x] = state[x]
    BY DEF TypeOK
  <2>3. state'[m] \in {"Failed", "Register"} /\ timer[m] = "stopped"
    BY DEF TypeOK, Mapped
  <2>4. Mapped /\ active \in SUBSET Messages
    BY DEF TypeOK
  <2> HIDE DEF IInv, UpdateMessageSerialize
  <2> QED
    BY <2>1, <2>2, <2>3, <2>4 DEF Mapped
<1>7. Unfailing'
  BY DEF TypeOK, Lists, Unfailing
<1> QED
  BY <1>1, <1>2, <1>3, <1>4, <1>5, <1>6, <1>7

LEMMA TransmitStep ==
    ASSUME IInv, NEW m \in Messages, UpdateMessageTransmit(m) PROVE IInv'
<1> USE DEF IInv, UpdateMessageTransmit, Updating, Done
<1>1. TypeOK'
  <2>1. pc' \in {"idle", "update", "fail", "callback", "garbage", "sweep"}
        /\ cur' \in Messages \union {None}
    BY DEF TypeOK
  <2>2. remaining' \in [Messages -> Int]
    BY DEF TypeOK
  <2>3. timer' \in [Messages -> {"stopped", "running", "expired"}]
    BY DEF TypeOK
  <2>4. packets' \in SUBSET Messages
    BY DEF TypeOK
  <2> QED
    BY <2>1, <2>2, <2>3, <2>4 DEF TypeOK, receiver
<1>2. Lists'
  BY DEF TypeOK, Lists, Outcomes
<1>3. Current'
  BY DEF TypeOK, Lists, Current
<1>4. Settled'
  <2>1. UNCHANGED <<state, active, new, succeeded, failed, late>> /\ pc = "update"
    OBVIOUS
  <2>2. Settled
    OBVIOUS
  <2> HIDE DEF IInv, UpdateMessageTransmit
  <2> QED
    BY <2>1, <2>2 DEF Settled, Outcomes
<1>5. Evidence'
  BY DEF TypeOK, Evidence, receiver
<1>6. Mapped'
  <2>1. /\ UNCHANGED <<state, active, map, sweeping>>
        /\ pc = "update" /\ pc' \in {"update", "fail"} /\ state[m] = "Transmit" /\ m \in active
    BY DEF Lists
  <2>2. \A x \in Messages : x # m => timer'[x] = timer[x]
    BY DEF TypeOK
  <2>3. Mapped /\ active \in SUBSET Messages
    BY DEF TypeOK
  <2> HIDE DEF IInv, UpdateMessageTransmit
  <2> QED
    BY <2>1, <2>2, <2>3 DEF Mapped
<1>7. Unfailing'
  BY DEF TypeOK, Lists, Unfailing
<1> QED
  BY <1>1, <1>2, <1>3, <1>4, <1>5, <1>6, <1>7

LEMMA FailedStep == IInv /\ TransmitFailed => IInv'
<1> SUFFICES ASSUME IInv, TransmitFailed PROVE IInv'
  OBVIOUS
<1> USE DEF IInv, TransmitFailed, SetState, network, receiver
<1>0. cur \in Messages
  BY DEF TypeOK, Current
<1>1. TypeOK'
  BY <1>0 DEF TypeOK, States
<1>2. Lists'
  BY <1>0 DEF TypeOK, Lists, Current, Outcomes
<1>3. Current'
  BY DEF Current
<1>4. Settled'
  BY <1>0 DEF TypeOK, Current, Settled, Outcomes
<1>5. Evidence'
  BY <1>0 DEF TypeOK, Evidence
<1>6. Mapped'
  BY <1>0 DEF TypeOK, Current, Mapped
<1>7. Unfailing'
  BY <1>0 DEF TypeOK, Current, Lists, Unfailing
<1> QED
  BY <1>1, <1>2, <1>3, <1>4, <1>5, <1>6, <1>7

LEMMA FinalStep ==
    ASSUME IInv, NEW m \in Messages, UpdateMessageFinal(m) PROVE IInv'
<1> USE DEF IInv, UpdateMessageFinal, Updating, Done, network, receiver
<1>1. TypeOK'
  BY DEF TypeOK
<1>2. Lists'
  BY DEF TypeOK, Lists, Outcomes
<1>3. Current'
  BY DEF TypeOK, Lists, Current
<1>4. Settled'
  BY DEF TypeOK, Settled, Outcomes
<1>5. Evidence'
  BY DEF TypeOK, Evidence
<1>6. Mapped'
  BY DEF TypeOK, Mapped
<1>7. Unfailing'
  BY DEF TypeOK, Unfailing
<1> QED
  BY <1>1, <1>2, <1>3, <1>4, <1>5, <1>6, <1>7

LEMMA CallbackStep == IInv /\ FinalCallback => IInv'
<1> SUFFICES ASSUME IInv, FinalCallback PROVE IInv'
  OBVIOUS
<1> USE DEF IInv, FinalCallback, network, receiver
<1>0. cur \in Messages
  BY DEF TypeOK, Current
<1>1. TypeOK'
  BY <1>0 DEF TypeOK
<1>2. \A m \in Messages : m # cur => Outcomes(m)' = Outcomes(m)
  BY <1>0 DEF TypeOK, Outcomes
<1>3. Outcomes(cur)' = Outcomes(cur) + 1
  BY <1>0 DEF TypeOK, Current, Outcomes
<1>4. Lists'
  BY <1>0, <1>2 DEF TypeOK, Lists, Current
<1>5. Current'
  BY DEF TypeOK, Current
<1>6. Settled'
  <2>1. Outcomes(cur) \in Nat /\ late[cur] \in Nat
    BY <1>0 DEF TypeOK, Outcomes
  <2>2. ~(Outcomes(cur) > late[cur])
    BY <1>0 DEF Current, Settled
  <2>3. ASSUME NEW m \in Messages, m = cur
        PROVE  Outcomes(m)' <= 1 + late'[m] /\ pc' = "garbage" /\ cur' = m
    BY <1>3, <2>1, <2>2, <2>3
  <2>4. ASSUME NEW m \in Messages, m # cur
        PROVE  /\ Outcomes(m)' <= 1 + late'[m]
               /\ Outcomes(m)' > late'[m] => state'[m] = "Garbage" \/ m \notin active' \union new'
    BY <1>2, <2>4 DEF Settled
  <2> QED
    BY <2>3, <2>4 DEF Settled
<1>9. Unfailing'
  <2>1. failed[cur] \in Nat /\ failed'[cur] = failed[cur] + (IF state[cur] = "Failed" THEN 1 ELSE 0)
    BY <1>0 DEF TypeOK
  <2>2. state[cur] = "Failed" => failed[cur] = 0
    BY <1>0, <2>1 DEF Unfailing
  <2>3. failed'[cur] <= 1
    BY <1>0, <2>1, <2>2 DEF Unfailing
  <2>4. \A m \in Messages : m # cur => failed'[m] = failed[m]
    BY DEF TypeOK
  <2> QED
    BY <2>3, <2>4 DEF Unfailing
<1>7. Evidence'
  BY <1>0 DEF TypeOK, Evidence
<1>8. Mapped'
  BY DEF TypeOK, Mapped
<1> QED
  BY <1>1, <1>4, <1>5, <1>6, <1>7, <1>8, <1>9

LEMMA GarbageStep == IInv /\ FinalGarbage => IInv'
<1> SUFFICES ASSUME IInv, FinalGarbage PROVE IInv'
  OBVIOUS
<1> USE DEF IInv, FinalGarbage, SetState, network, receiver
<1>0. cur \in Messages
  BY DEF TypeOK, Current
<1>1. TypeOK'
  BY <1>0 DEF TypeOK, States
<1>2. Lists'
  BY <1>0 DEF TypeOK, Lists, Current, Outcomes
<1>3. Current'
  BY DEF Current
<1>4. Settled'
  BY <1>0 DEF TypeOK, Settled, Outcomes
<1>5. Evidence'
  BY <1>0 DEF TypeOK, Evidence
<1>6. Mapped'
  BY <1>0 DEF TypeOK, Current, Mapped
<1>7. Unfailing'
  BY <1>0 DEF TypeOK, Current, Lists, Unfailing
<1> QED
  BY <1>1, <1>2, <1>3, <1>4, <1>5, <1>6, <1>7

LEMMA RegisterStep == IInv /\ RegisterAndMark => IInv'
<1> SUFFICES ASSUME IInv, RegisterAndMark PROVE IInv'
  OBVIOUS
<1> USE DEF IInv, RegisterAndMark, network, receiver
<1>1. TypeOK'
  BY DEF TypeOK, States
<1>2. Lists'
  BY DEF TypeOK, Lists, Outcomes
<1>3. Current'
  BY DEF Current
<1>4. Settled'
  BY DEF TypeOK, Lists, Settled, Outcomes
<1>5. Evidence'
  BY DEF TypeOK, Evidence
<1>6. Mapped'
  BY DEF TypeOK, Lists, Mapped
<1>7. Unfailing'
  BY DEF TypeOK, Lists, Unfailing
<1> QED
  BY <1>1, <1>2, <1>3, <1>4, <1>5, <1>6, <1>7

LEMMA SweepStep == IInv /\ Sweep => IInv'
<1> SUFFICES ASSUME IInv, Sweep PROVE IInv'
  OBVIOUS
<1> USE DEF IInv, Sweep, network, receiver
<1>1. TypeOK'
  BY DEF TypeOK
<1>2. Lists'
  BY DEF TypeOK, Lists, Outcomes
<1>3. Current'
  BY DEF Current
<1>4. Settled'
  BY DEF TypeOK, Settled, Outcomes
<1>5. Evidence'
  BY DEF TypeOK, Evidence
<1>6. Mapped'
  BY DEF TypeOK, Mapped
<1>7. Unfailing'
  BY DEF TypeOK, Unfailing
<1> QED
  BY <1>1, <1>2, <1>3, <1>4, <1>5, <1>6, <1>7

-----------------------------------------------------------------------------
(* The application, the clock, the peer and the receiving thread.          *)

LEMMA SendStep ==
    ASSUME IInv, NEW m \in Messages, Send(m) PROVE IInv'
<1> USE DEF IInv, Send, SetState, network, receiver
<1>1. TypeOK'
  BY DEF TypeOK, States
<1>2. Lists'
  BY DEF TypeOK, Lists, Outcomes
<1>3. Current'
  BY DEF TypeOK, Lists, Current
<1>4. Settled'
  <2>1. Outcomes(m) = 0 /\ late[m] \in Nat
    BY DEF TypeOK, Lists
  <2>2. ASSUME NEW x \in Messages
        PROVE  Outcomes(x)' = Outcomes(x) /\ late'[x] = late[x]
    BY DEF Outcomes
  <2>3. \A x \in Messages : x # m => state'[x] = state[x] /\ (x \in new' => x \in new)
    BY DEF TypeOK
  <2> QED
    BY <2>1, <2>2, <2>3 DEF Settled
<1>5. Evidence'
  BY DEF TypeOK, Evidence
<1>6. Mapped'
  BY DEF TypeOK, Lists, Mapped
<1>7. Unfailing'
  BY DEF TypeOK, Lists, Unfailing
<1> QED
  BY <1>1, <1>2, <1>3, <1>4, <1>5, <1>6, <1>7

LEMMA ExpireStep ==
    ASSUME IInv, NEW m \in Messages, Expire(m) PROVE IInv'
<1> USE DEF IInv, Expire, network, receiver
<1>1. TypeOK'
  BY DEF TypeOK
<1>2. Lists' /\ Current'
  BY DEF Lists, Current, Outcomes
<1>3. Settled' /\ Unfailing' /\ Evidence'
  BY DEF Settled, Unfailing, Evidence, Outcomes
<1>4. Mapped'
  BY DEF TypeOK, Lists, Mapped
<1> QED
  BY <1>1, <1>2, <1>3, <1>4

LEMMA ProcessStep ==
    ASSUME IInv, NEW m \in Messages, NEW keep \in BOOLEAN, ProcessMessage(m, keep)
    PROVE  IInv'
<1> USE DEF IInv, ProcessMessage
<1>1. TypeOK'
  <2>1. copies' \in 0..Duplicates
    BY DuplicatesAssumption DEF TypeOK
  <2>2. buffer' \in [0..BufferSize - 1 -> Messages \union {None}]
    <3> DEFINE slot == uid[m] % BufferSize
    <3>1. buffer' = buffer \/ buffer' = [buffer EXCEPT ![slot] = m]
      OBVIOUS
    <3> HIDE DEF slot
    <3> QED
      BY <3>1 DEF TypeOK
  <2>4. delivered' \in [Messages -> Nat]
    <3>1. delivered' = delivered \/ delivered' = [delivered EXCEPT ![m] = @ + 1]
      OBVIOUS
    <3>2. delivered \in [Messages -> Nat]
      BY DEF TypeOK
    <3> HIDE DEF IInv, ProcessMessage
    <3> QED
      BY <3>1, <3>2
  <2>3. packets' \in SUBSET Messages /\ acks' \in SUBSET Messages /\ received' \in SUBSET Messages
    BY DEF TypeOK
  <2> QED
    BY <2>1, <2>2, <2>3, <2>4 DEF TypeOK, sender
<1>2. Lists' /\ Current' /\ Settled' /\ Unfailing' /\ Mapped'
  BY DEF sender, Lists, Current, Settled, Unfailing, Mapped, Outcomes
<1>3. Evidence'
  BY DEF TypeOK, sender, Evidence
<1> QED
  BY <1>1, <1>2, <1>3

LEMMA AckStep ==
    ASSUME IInv, NEW m \in Messages, NEW keep \in BOOLEAN, ProcessMessageAck(m, keep)
    PROVE  IInv'
<1> USE DEF IInv, ProcessMessageAck, SetState
<1>1. TypeOK'
  <2>1. copies' \in 0..Duplicates
    BY DuplicatesAssumption DEF TypeOK
  <2>2. state' \in [Messages -> States]
    BY DEF TypeOK, States
  <2>4. late' \in [Messages -> Nat]
    <3>1. late' = late \/ late' = [late EXCEPT ![m] = @ + 1]
      OBVIOUS
    <3> QED
      BY <3>1 DEF TypeOK
  <2>3. acks' \in SUBSET Messages
    BY DEF TypeOK
  <2> QED
    BY <2>1, <2>2, <2>3, <2>4 DEF TypeOK, receiver
<1>2. Lists'
  BY DEF TypeOK, Lists, Outcomes
<1>3. Current'
  BY DEF TypeOK, Current
<1>4. Settled'
  <2>1. \A x \in Messages : Outcomes(x) \in Nat /\ late[x] \in Nat
    <3>1. succeeded \in [Messages -> Nat] /\ failed \in [Messages -> Nat]
          /\ late \in [Messages -> Nat]
      BY DEF TypeOK
    <3> HIDE DEF IInv, ProcessMessageAck
    <3> QED
      BY <3>1 DEF Outcomes
  <2>2. ASSUME NEW x \in Messages
        PROVE  Outcomes(x)' = Outcomes(x)
    BY DEF Outcomes
  <2>3. \A x \in Messages : x # m => state'[x] = state[x] /\ late'[x] = late[x]
    BY DEF TypeOK
  <2>4. /\ late'[m] = IF m \in map /\ state[m] = "Garbage" /\ m \in active
                     THEN late[m] + 1 ELSE late[m]
        /\ m \in map => state'[m] = "Success"
        /\ m \notin map => state'[m] = state[m]
    BY DEF TypeOK
  <2>5. m \in map => m \notin new
    BY DEF Lists
  <2>6. UNCHANGED <<pc, cur, active, new>>
    OBVIOUS
  <2>7. ASSUME NEW x \in Messages, x # m
        PROVE  /\ Outcomes(x)' <= 1 + late'[x]
               /\ Outcomes(x)' > late'[x] =>
                    \/ pc' = "garbage" /\ cur' = x
                    \/ state'[x] = "Garbage"
                    \/ x \notin active' \union new'
    BY <2>2, <2>3, <2>6, <2>7 DEF Settled
  <2>8. /\ Outcomes(m)' <= 1 + late'[m]
        /\ Outcomes(m)' > late'[m] =>
             \/ pc' = "garbage" /\ cur' = m
             \/ state'[m] = "Garbage"
             \/ m \notin active' \union new'
    <3> HIDE DEF ProcessMessageAck, IInv
    <3>1. Settled
      BY DEF IInv
    <3> QED
      BY <2>1, <2>2, <2>4, <2>5, <2>6, <3>1 DEF Settled
  <2> QED
    BY <2>7, <2>8 DEF Settled
<1>5. Evidence'
  BY DEF TypeOK, receiver, Evidence
<1>6. Mapped'
  <2>1. UNCHANGED <<timer, active, map, sweeping, pc>>
    OBVIOUS
  <2>2. \A x \in Messages : state'[x] = state[x] \/ (state'[x] = "Success" /\ x \in map)
    <3>1. state \in [Messages -> States]
      BY DEF TypeOK
    <3>2. UNCHANGED state \/ (m \in map /\ state' = [state EXCEPT ![m] = "Success"])
      OBVIOUS
    <3> HIDE DEF IInv, ProcessMessageAck
    <3> QED
      BY <3>1, <3>2
  <2>3. Mapped /\ active \in SUBSET Messages
    BY DEF TypeOK
  <2> HIDE DEF IInv, ProcessMessageAck
  <2> QED
    BY <2>1, <2>2, <2>3 DEF Mapped
<1>7. Unfailing'
  BY DEF TypeOK, Current, Lists, Unfailing
<1> QED
  BY <1>1, <1>2, <1>3, <1>4, <1>5, <1>6, <1>7

LEMMA CloseStep == ASSUME IInv, Close PROVE IInv'
<1> USE DEF IInv, Close, network, receiver
<1>1. TypeOK'
  BY DEF TypeOK
<1>2. Lists' /\ Current'
  BY DEF Lists, Current, Outcomes
<1>3. Settled' /\ Unfailing' /\ Evidence'
  BY DEF Settled, Unfailing, Evidence, Outcomes
<1>4. Mapped'
  BY DEF TypeOK, Lists, Mapped
<1> QED
  BY <1>1, <1>2, <1>3, <1>4

LEMMA Invariance == Spec => []IInv
<1>1. IInv /\ [Next]_vars => IInv'
  <2> SUFFICES ASSUME IInv, [Next]_vars PROVE IInv'
    OBVIOUS
  <2>1. CASE UpdateMessages
    BY <2>1, AcceptNewStep, SerializeStep, TransmitStep, FailedStep, FinalStep,
       CallbackStep, GarbageStep, RegisterStep, SweepStep DEF UpdateMessages
  <2>2. CASE Close
    BY <2>2, CloseStep
  <2>3. ASSUME NEW m \in Messages, Send(m) \/ Expire(m) PROVE IInv'
    BY <2>3, SendStep, ExpireStep
  <2>4. ASSUME NEW m \in Messages, NEW keep \in BOOLEAN,
               ProcessMessage(m, keep) \/ ProcessMessageAck(m, keep)
        PROVE  IInv'
    BY <2>4, ProcessStep, AckStep
  <2>5. CASE UNCHANGED vars
    <3>1. TypeOK' /\ Evidence'
      BY <2>5 DEF vars, sender, network, receiver, IInv, TypeOK, Evidence
    <3>2. Lists' /\ Current' /\ Mapped'
      BY <2>5 DEF vars, sender, IInv, Lists, Current, Mapped, Outcomes
    <3>3. Settled' /\ Unfailing'
      BY <2>5 DEF vars, sender, IInv, Settled, Unfailing, Outcomes
    <3> QED
      BY <3>1, <3>2, <3>3 DEF IInv
  <2> QED
    BY <2>1, <2>2, <2>3, <2>4, <2>5 DEF Next
<1> QED
  BY InitIInv, <1>1, PTL DEF Spec

\* The states, lists, counters and packets stay in their types.
THEOREM TypeCorrect == Spec => []TypeOK
<1>1. IInv => TypeOK
  BY DEF IInv
<1> QED
  BY Invariance, <1>1, PTL

\* OnFailed is called once at most, and a message is heard of once, but for one
\* OnSuccess more for every acknowledgement that found it Garbage and not yet marked.
THEOREM OneOutcome == Spec => []OutcomeOnce
<1>1. IInv => OutcomeOnce
  BY DEF IInv, Settled, Unfailing, Outcomes, OutcomeOnce
<1> QED
  BY Invariance, <1>1, PTL

\* OnSuccess is called only for a message the peer has received.
THEOREM NoFalseSuccess == Spec => []SuccessMeansReceived
<1>1. IInv => SuccessMeansReceived
  BY DEF IInv, Evidence, SuccessMeansReceived
<1> QED
  BY Invariance, <1>1, PTL

\* The map knows every message under way and none that is gone.
THEOREM MapExact == Spec => []MapFollowsMessages
<1>1. IInv => MapFollowsMessages
  BY DEF IInv, Mapped, MapFollowsMessages
<1> QED
  BY Invariance, <1>1, PTL
=============================================================================
