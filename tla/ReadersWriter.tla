---------------------------- MODULE ReadersWriter ----------------------------
(***************************************************************************)
(* What a readers/writer lock promises: any number of threads read, or one *)
(* thread writes.                                                          *)
(***************************************************************************)
CONSTANT Threads

VARIABLES readers, writers

Init == readers = {} /\ writers = {}

StartRead(t) ==
    /\ t \notin readers /\ writers = {}
    /\ readers' = readers \cup {t} /\ UNCHANGED writers

EndRead(t) ==
    /\ t \in readers
    /\ readers' = readers \ {t} /\ UNCHANGED writers

StartWrite(t) ==
    /\ readers = {} /\ writers = {}
    /\ writers' = {t} /\ UNCHANGED readers

EndWrite(t) ==
    /\ writers = {t}
    /\ writers' = {} /\ UNCHANGED readers

Next == \E t \in Threads :
    StartRead(t) \/ EndRead(t) \/ StartWrite(t) \/ EndWrite(t)

Spec == Init /\ [][Next]_<<readers, writers>>

=============================================================================
