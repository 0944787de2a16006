------------------------------- MODULE RWLock -------------------------------
(***************************************************************************)
(* RWLock of training/realtime.py: one condition variable, three counters,  *)
(* writer preference.  Each method is one action, because it runs with the  *)
(* condition's own mutex held; Condition.wait_for gives the mutex up while  *)
(* it sleeps, so a thread that was notified looks at the counters again in  *)
(* an action of its own, and may find that others were faster.  A wait with *)
(* a timeout looks once more when the time is up and raises if it still may *)
(* not pass.                                                                *)
(***************************************************************************)
EXTENDS Naturals, FiniteSets

CONSTANTS
    Readers,    \* threads that call read()
    Writers,    \* threads that call write()
    Impatient   \* those that pass a timeout

Threads == Readers \cup Writers

ASSUME ThreadsAssumption ==
    /\ IsFiniteSet(Threads)
    /\ Readers \cap Writers = {}
    /\ Impatient \subseteq Threads

VARIABLES
    lock,    \* _readers, _writer, _writers_waiting
    thread   \* where each thread is with respect to the lock

lockVars == <<lock, thread>>

ThreadState == {"out", "asleep", "woken", "inside"}

LockTypeOK ==
    /\ lock \in [readers : Nat, writer : BOOLEAN, waiting : Nat]
    /\ thread \in [Threads -> ThreadState]

LockInit ==
    /\ lock = [readers |-> 0, writer |-> FALSE, waiting |-> 0]
    /\ thread = [t \in Threads |-> "out"]

\* Mutant: a reader looks for waiting writers only
MayReadBeside == lock.waiting = 0

MayRead == ~lock.writer /\ lock.waiting = 0
MayWrite == lock.readers = 0 /\ ~lock.writer

Becomes(t, s) == thread' = [thread EXCEPT ![t] = s]

\* Condition.notify_all, by a thread that leaves the lock
LeaveNotifying(t) ==
    thread' = [u \in Threads |-> IF u = t THEN "out"
                                 ELSE IF thread[u] = "asleep" THEN "woken" ELSE thread[u]]

EnterRead(t) ==
    /\ MayRead
    /\ lock' = [lock EXCEPT !.readers = @ + 1]
    /\ Becomes(t, "inside")

\* A blocked thread sleeps; a writer has been counted before
KeepWaiting(t, may) == ~may /\ Becomes(t, "asleep") /\ UNCHANGED lock

AcquireRead(t) ==
    /\ thread[t] = "out"
    /\ EnterRead(t) \/ KeepWaiting(t, MayRead)

RecheckRead(t) ==
    /\ thread[t] = "woken"
    /\ EnterRead(t) \/ KeepWaiting(t, MayRead)

\* The time is up: one last look, then TimeoutError
ExpireRead(t) ==
    /\ t \in Impatient /\ thread[t] \in {"asleep", "woken"}
    /\ \/ EnterRead(t)
       \/ ~MayRead /\ Becomes(t, "out") /\ UNCHANGED lock

ReleaseRead(t) ==
    /\ thread[t] = "inside"
    /\ lock' = [lock EXCEPT !.readers = @ - 1]
    /\ IF lock.readers = 1 THEN LeaveNotifying(t) ELSE Becomes(t, "out")

\* The wait is over, one way or the other: `finally` takes the writer off the count
StopWaiting == [lock EXCEPT !.waiting = @ - 1]

EnterWrite(t) ==
    /\ MayWrite
    /\ lock' = [StopWaiting EXCEPT !.writer = TRUE]
    /\ Becomes(t, "inside")

\* Mutant: a writer that must wait is not counted
AcquireWriteUncounted(t) ==
    /\ thread[t] = "out"
    /\ IF MayWrite THEN lock' = [lock EXCEPT !.writer = TRUE] /\ Becomes(t, "inside")
                   ELSE UNCHANGED lock /\ Becomes(t, "asleep")

AcquireWrite(t) ==
    /\ thread[t] = "out"
    /\ \/ /\ MayWrite
          /\ lock' = [lock EXCEPT !.writer = TRUE]
          /\ Becomes(t, "inside")
       \/ /\ ~MayWrite
          /\ lock' = [lock EXCEPT !.waiting = @ + 1]
          /\ Becomes(t, "asleep")

RecheckWrite(t) ==
    /\ thread[t] = "woken"
    /\ EnterWrite(t) \/ KeepWaiting(t, MayWrite)

\* Mutant: no `finally`, a writer that gives up stays counted
ExpireWriteCounted(t) ==
    /\ t \in Impatient /\ thread[t] \in {"asleep", "woken"}
    /\ EnterWrite(t) \/ (~MayWrite /\ Becomes(t, "out") /\ UNCHANGED lock)

\* A writer that gives up notifies nobody
ExpireWrite(t) ==
    /\ t \in Impatient /\ thread[t] \in {"asleep", "woken"}
    /\ \/ EnterWrite(t)
       \/ ~MayWrite /\ lock' = StopWaiting /\ Becomes(t, "out")

ReleaseWrite(t) ==
    /\ thread[t] = "inside"
    /\ lock' = [lock EXCEPT !.writer = FALSE]
    /\ LeaveNotifying(t)

LockNext ==
    \/ \E t \in Readers :
          AcquireRead(t) \/ RecheckRead(t) \/ ExpireRead(t) \/ ReleaseRead(t)
    \/ \E t \in Writers :
          AcquireWrite(t) \/ RecheckWrite(t) \/ ExpireWrite(t) \/ ReleaseWrite(t)

LockSpec == LockInit /\ [][LockNext]_lockVars

-----------------------------------------------------------------------------
Inside(S) == {t \in S : thread[t] = "inside"}
Waiting(S) == {t \in S : thread[t] \in {"asleep", "woken"}}

Shared == INSTANCE SharedLock WITH reading <- Inside(Readers), writing <- Inside(Writers)

\* The three counters of RWLock implement the abstract lock: a writer is alone, however
\* threads overtake each other between being notified and looking again.
Exclusion == Shared!Spec

\* A lock that is free has no sleeper: a thread that sleeps on it anyway is a reader that
\* let a woken writer pass, and the writer's release will notify it.
NoLostWakeup ==
    lock.readers = 0 /\ ~lock.writer
      => \A t \in Threads :
            thread[t] = "asleep" => t \in Readers /\ \E w \in Writers : thread[w] = "woken"
=============================================================================
