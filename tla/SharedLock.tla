------------------------------ MODULE SharedLock ------------------------------
(***************************************************************************)
(* What a readers/writer lock promises: any number of threads may read at   *)
(* once, and a thread that writes is alone.                                 *)
(***************************************************************************)
CONSTANT Threads

VARIABLES
    reading,   \* threads inside `with lock.read()`
    writing    \* threads inside `with lock.write()`

vars == <<reading, writing>>

Init == reading = {} /\ writing = {}

EnterRead(t) == writing = {} /\ reading' = reading \cup {t} /\ UNCHANGED writing

LeaveRead(t) == t \in reading /\ reading' = reading \ {t} /\ UNCHANGED writing

EnterWrite(t) == reading = {} /\ writing = {} /\ writing' = {t} /\ UNCHANGED reading

LeaveWrite(t) == writing = {t} /\ writing' = {} /\ UNCHANGED reading

Next == \E t \in Threads : EnterRead(t) \/ LeaveRead(t) \/ EnterWrite(t) \/ LeaveWrite(t)

Spec == Init /\ [][Next]_vars
=============================================================================
