---------------------------- MODULE ConcurrentBag ----------------------------
(***************************************************************************)
(* What a ConcurrentRingBuffer promises its callers: a bounded bag.  A     *)
(* call takes effect at one instant between its invocation and its return. *)
(* Input/output order is not guaranteed, and a call may fail although the  *)
(* bag has room or holds an item, because "the allocated slot is in use".  *)
(*                                                                         *)
(* The bag is a set of places, as many as its capacity, each of them empty *)
(* or with an item.  No call names a place, so all a caller can tell is    *)
(* how often an item is in the bag.                                        *)
(***************************************************************************)
CONSTANTS Threads, Items, Nil, Places

VARIABLES
    bag,    \* place -> the item pushed there and not yet popped, or Nil
    call,   \* the call a thread is in: "none", "push" or "pop"
    taken,  \* whether that call has taken effect
    value   \* the item it pushes, has pushed or has popped

bagVars == <<bag, call, taken, value>>

BagInit ==
    /\ bag = [p \in Places |-> Nil]
    /\ call = [t \in Threads |-> "none"]
    /\ taken = [t \in Threads |-> FALSE]
    /\ value = [t \in Threads |-> Nil]

Invoke(t, op, v) ==
    /\ call[t] = "none"
    /\ call' = [call EXCEPT ![t] = op]
    /\ taken' = [taken EXCEPT ![t] = FALSE]
    /\ value' = [value EXCEPT ![t] = v]
    /\ UNCHANGED bag

\* The caller may see the outcome in the step that decides it.
Put(t, p) ==
    /\ call[t] = "push" /\ ~taken[t]
    /\ bag[p] = Nil
    /\ bag' = [bag EXCEPT ![p] = value[t]]
    /\ taken' = [taken EXCEPT ![t] = TRUE]
    /\ call' \in {call, [call EXCEPT ![t] = "none"]}
    /\ UNCHANGED value

Take(t, p) ==
    /\ call[t] = "pop" /\ ~taken[t]
    /\ bag[p] \in Items
    /\ bag' = [bag EXCEPT ![p] = Nil]
    /\ taken' = [taken EXCEPT ![t] = TRUE]
    /\ value' = [value EXCEPT ![t] = bag[p]]
    /\ UNCHANGED call

\* A call that has not taken effect returns failure, and success otherwise.
Return(t) ==
    /\ call[t] # "none"
    /\ call' = [call EXCEPT ![t] = "none"]
    /\ UNCHANGED <<bag, taken, value>>

BagNext == \E t \in Threads :
    \/ \E v \in Items : Invoke(t, "push", v)
    \/ Invoke(t, "pop", Nil)
    \/ \E p \in Places : Put(t, p) \/ Take(t, p)
    \/ Return(t)

BagSpec == BagInit /\ [][BagNext]_bagVars

=============================================================================
