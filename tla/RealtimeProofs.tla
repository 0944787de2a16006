--------------------------- MODULE RealtimeProofs ---------------------------
(***************************************************************************)
(* That the readers/writer lock keeps writers alone and wakes its sleepers, *)
(* for any number of threads, and that the adapter swap it protects never   *)
(* lets a drive meet stale KV or a parked model, for any number of jobs and *)
(* ingests, as long as only encoding and training can fail.                 *)
(***************************************************************************)
EXTENDS Realtime, FiniteSetTheorems, TLAPS

-----------------------------------------------------------------------------
(* The lock.                                                               *)

\* The counters count what their names say
Counted ==
  /\ lock.readers = Cardinality(Inside(Readers))
  /\ lock.writer <=> Inside(Writers) # {}
  /\ lock.waiting = Cardinality(Waiting(Writers))

\* A writer is alone
Alone == \A w \in Inside(Writers) : Inside(Readers) = {} /\ Inside(Writers) = {w}

LockInv == LockTypeOK /\ Counted /\ Alone /\ NoLostWakeup

\* The sets of threads that are inside or waiting are finite, and so have sizes.
LEMMA Finite ==
  ASSUME NEW S \in SUBSET Threads
  PROVE  /\ IsFiniteSet(Inside(S)) /\ Cardinality(Inside(S)) \in Nat
         /\ Cardinality(Inside(S)) = 0 <=> Inside(S) = {}
         /\ IsFiniteSet(Waiting(S)) /\ Cardinality(Waiting(S)) \in Nat
         /\ Cardinality(Waiting(S)) = 0 <=> Waiting(S) = {}
<1>1. Inside(S) \subseteq Threads /\ Waiting(S) \subseteq Threads
  BY DEF Inside, Waiting
<1>2. IsFiniteSet(Inside(S)) /\ IsFiniteSet(Waiting(S))
  BY <1>1, ThreadsAssumption, FS_Subset
<1>. QED BY <1>2, FS_CardinalityType, FS_EmptySet

\* A thread that changes its state changes the sets it belongs to, and no others.
LEMMA OneMoves ==
  ASSUME LockTypeOK, NEW t \in Threads, NEW s \in ThreadState, Becomes(t, s),
         NEW S \in SUBSET Threads
  PROVE  /\ thread' \in [Threads -> ThreadState]
         /\ Inside(S)' = IF t \in S /\ s = "inside" THEN Inside(S) \cup {t}
                                                   ELSE Inside(S) \ {t}
         /\ Waiting(S)' = IF t \in S /\ s \in {"asleep", "woken"} THEN Waiting(S) \cup {t}
                                                                  ELSE Waiting(S) \ {t}
BY DEF LockTypeOK, Becomes, Inside, Waiting

\* Leaving with a notification wakes the sleepers, who go on waiting.
LEMMA LeaverNotifies ==
  ASSUME LockTypeOK, NEW t \in Threads, thread[t] = "inside", LeaveNotifying(t),
         NEW S \in SUBSET Threads
  PROVE  /\ thread' \in [Threads -> ThreadState]
         /\ Inside(S)' = Inside(S) \ {t}
         /\ Waiting(S)' = Waiting(S)
         /\ \A u \in Threads : thread'[u] # "asleep"
BY DEF LockTypeOK, LeaveNotifying, Inside, Waiting, ThreadState

\* Sizes of sets that gain or lose one element.
LEMMA SizeAdd ==
  ASSUME NEW S, NEW x, IsFiniteSet(S), x \notin S
  PROVE  Cardinality(S \cup {x}) = Cardinality(S) + 1
BY FS_AddElement

\* The same for an element less.
LEMMA SizeRemove ==
  ASSUME NEW S, NEW x, IsFiniteSet(S), x \in S
  PROVE  Cardinality(S \ {x}) = Cardinality(S) - 1
BY FS_RemoveElement

\* What a step of the lock has to show
Step == LockInv' /\ [Shared!Next]_(Shared!vars)

\* Nobody inside and nobody asleep for nothing: what the counters tell a thread that looks.
LEMMA Looking ==
  ASSUME LockInv
  PROVE  /\ lock.readers \in Nat /\ lock.waiting \in Nat /\ lock.writer \in BOOLEAN
         /\ lock = [readers |-> lock.readers, writer |-> lock.writer, waiting |-> lock.waiting]
         /\ lock.readers = 0 <=> Inside(Readers) = {}
         /\ ~lock.writer <=> Inside(Writers) = {}
         /\ lock.waiting = 0 <=> Waiting(Writers) = {}
<1>1. Readers \in SUBSET Threads /\ Writers \in SUBSET Threads
  BY DEF Threads
<1>2. LockTypeOK /\ Counted
  BY DEF LockInv
<1>3. Cardinality(Inside(Readers)) = 0 <=> Inside(Readers) = {}
  BY <1>1, Finite
<1>4. Cardinality(Waiting(Writers)) = 0 <=> Waiting(Writers) = {}
  BY <1>1, Finite
<1>. QED BY <1>2, <1>3, <1>4 DEF LockTypeOK, Counted

\* A reader enters a lock without writers, inside or waiting.
LEMMA ReaderEnters ==
  ASSUME LockInv, NEW t \in Readers, thread[t] # "inside", EnterRead(t)
  PROVE  Step
<1>. USE DEF Threads
<1>1. Inside(Writers) = {} /\ Waiting(Writers) = {}
  BY Looking DEF EnterRead, MayRead
<1>2. /\ thread' \in [Threads -> ThreadState]
      /\ Inside(Readers)' = Inside(Readers) \cup {t}
      /\ Inside(Writers)' = {} /\ Waiting(Writers)' = {}
  BY <1>1, OneMoves, ThreadsAssumption DEF LockInv, EnterRead, ThreadState
<1>3. Cardinality(Inside(Readers)') = lock.readers + 1
  <2>1. t \notin Inside(Readers) /\ IsFiniteSet(Inside(Readers))
    BY Finite DEF Inside
  <2>. QED BY <2>1, <1>2, SizeAdd DEF LockInv, Counted
<1>4. lock' = [readers |-> lock.readers + 1, writer |-> FALSE, waiting |-> 0]
  BY Looking DEF EnterRead, MayRead
<1>5. LockTypeOK' /\ Counted' /\ Alone' /\ NoLostWakeup'
  BY <1>2, <1>3, <1>4, Looking, FS_EmptySet
     DEF LockTypeOK, Counted, Alone, NoLostWakeup
<1>6. Shared!EnterRead(t)
  BY <1>1, <1>2 DEF Shared!EnterRead
<1>. QED BY <1>5, <1>6 DEF Step, LockInv, Shared!Next

\* A reader that may not pass sleeps or gives up; nobody's place in the lock changes.
LEMMA ReaderStays ==
  ASSUME LockInv, NEW t \in Readers, thread[t] # "inside", ~MayRead, UNCHANGED lock,
         NEW s \in {"asleep", "out"}, Becomes(t, s)
  PROVE  Step
<1>. USE DEF Threads
<1>1. /\ thread' \in [Threads -> ThreadState]
      /\ Inside(Readers)' = Inside(Readers) \ {t}
      /\ Inside(Writers)' = Inside(Writers) \ {t}
      /\ Waiting(Writers)' = Waiting(Writers) \ {t}
  BY OneMoves, ThreadsAssumption DEF LockInv, ThreadState
<1>2. t \notin Inside(Readers) /\ t \notin Inside(Writers) /\ t \notin Waiting(Writers)
  BY ThreadsAssumption DEF Inside, Waiting
<1>3. /\ Inside(Readers)' = Inside(Readers) /\ Inside(Writers)' = Inside(Writers)
      /\ Waiting(Writers)' = Waiting(Writers)
  BY <1>1, <1>2
<1>4. LockTypeOK' /\ Counted' /\ Alone'
  BY <1>1, <1>3 DEF LockInv, LockTypeOK, Counted, Alone
<1>5. NoLostWakeup'
  <2>1. SUFFICES ASSUME lock.readers = 0, ~lock.writer
                 PROVE  \A u \in Threads : thread'[u] = "asleep" =>
                           u \in Readers /\ \E w \in Writers : thread'[w] = "woken"
    BY DEF NoLostWakeup
  <2>2. PICK w \in Writers : thread[w] \in {"asleep", "woken"}
    BY <2>1, Looking DEF MayRead, Waiting
  <2>3. w # t /\ thread[w] = "woken"
    BY <2>1, <2>2, ThreadsAssumption DEF LockInv, NoLostWakeup
  <2>4. thread'[w] = "woken"
    BY <2>3 DEF LockInv, LockTypeOK, Becomes
  <2>5. ASSUME NEW u \in Threads, thread'[u] = "asleep"  PROVE u \in Readers
    BY <2>1, <2>5 DEF LockInv, LockTypeOK, NoLostWakeup, Becomes
  <2>. QED BY <2>4, <2>5
<1>. QED BY <1>3, <1>4, <1>5 DEF Step, LockInv, Shared!vars

\* A reader leaves; the last one wakes the sleepers.
LEMMA ReaderLeaves ==
  ASSUME LockInv, NEW t \in Readers, ReleaseRead(t)
  PROVE  Step
<1>. USE DEF Threads
<1>1. t \in Inside(Readers) /\ t \notin Inside(Writers) /\ t \notin Waiting(Writers)
  BY ThreadsAssumption DEF ReleaseRead, Inside, Waiting
<1>2. Inside(Writers) = {}
  BY <1>1 DEF LockInv, Alone
<1>3. /\ thread' \in [Threads -> ThreadState]
      /\ Inside(Readers)' = Inside(Readers) \ {t}
      /\ Inside(Writers)' = {} /\ Waiting(Writers)' = Waiting(Writers)
      /\ lock.readers = 1 => \A u \in Threads : thread'[u] # "asleep"
  <2>1. CASE lock.readers = 1
    BY <2>1, <1>1, <1>2, LeaverNotifies DEF ReleaseRead, LockInv
  <2>2. CASE lock.readers # 1
    <3>1. Becomes(t, "out") /\ "out" \in ThreadState /\ LockTypeOK
      BY <2>2 DEF ReleaseRead, ThreadState, LockInv
    <3>2. thread' \in [Threads -> ThreadState] /\ Inside(Readers)' = Inside(Readers) \ {t}
      BY <3>1, OneMoves
    <3>3. Inside(Writers)' = Inside(Writers) \ {t} /\ Waiting(Writers)' = Waiting(Writers) \ {t}
      BY <3>1, OneMoves
    <3>. QED BY <2>2, <3>2, <3>3, <1>1, <1>2
  <2>. QED BY <2>1, <2>2
<1>4. Cardinality(Inside(Readers)') = lock.readers - 1 /\ lock.readers # 0
  <2>1. IsFiniteSet(Inside(Readers))
    BY Finite
  <2>2. lock.readers # 0
    BY <1>1, Looking
  <2>. QED BY <1>1, <1>3, <2>1, <2>2, SizeRemove DEF LockInv, Counted
<1>5. lock' = [readers |-> lock.readers - 1, writer |-> FALSE, waiting |-> lock.waiting]
  BY <1>2, Looking DEF ReleaseRead
<1>6. LockTypeOK' /\ Counted' /\ Alone'
  BY <1>2, <1>3, <1>4, <1>5, Looking DEF LockInv, LockTypeOK, Counted, Alone
<1>7. NoLostWakeup'
  BY <1>3, <1>4, <1>5, Looking DEF NoLostWakeup
<1>8. Shared!LeaveRead(t)
  BY <1>1, <1>2, <1>3 DEF Shared!LeaveRead
<1>. QED BY <1>6, <1>7, <1>8 DEF Step, LockInv, Shared!Next

\* A writer enters an empty lock and stops waiting if it did.
LEMMA WriterEnters ==
  ASSUME LockInv, NEW t \in Writers, thread[t] # "inside", MayWrite, Becomes(t, "inside"),
         lock' = [lock EXCEPT !.writer = TRUE,
                              !.waiting = IF thread[t] = "out" THEN @ ELSE @ - 1]
  PROVE  Step
<1>. USE DEF Threads
<1>1. Inside(Readers) = {} /\ Inside(Writers) = {}
  BY Looking DEF MayWrite
<1>2. /\ thread' \in [Threads -> ThreadState]
      /\ Inside(Readers)' = {} /\ Inside(Writers)' = {t}
      /\ Waiting(Writers)' = Waiting(Writers) \ {t}
  <2>1. LockTypeOK /\ "inside" \in ThreadState /\ t \notin Readers
    BY ThreadsAssumption DEF LockInv, ThreadState
  <2>2. thread' \in [Threads -> ThreadState] /\ Inside(Readers)' = Inside(Readers) \ {t}
    BY <2>1, OneMoves
  <2>3. Inside(Writers)' = Inside(Writers) \cup {t} /\ Waiting(Writers)' = Waiting(Writers) \ {t}
    BY <2>1, OneMoves
  <2>. QED BY <1>1, <2>2, <2>3
<1>3. /\ lock'.waiting = Cardinality(Waiting(Writers)') /\ lock'.waiting \in Nat
  <2>1. IsFiniteSet(Waiting(Writers)) /\ lock.waiting = Cardinality(Waiting(Writers))
    BY Finite DEF LockInv, Counted
  <2>2. Cardinality(Waiting(Writers) \ {t}) \in Nat
    BY <2>1, FS_RemoveElement, FS_CardinalityType
  <2>3. CASE thread[t] = "out"
    <3>1. Waiting(Writers) \ {t} = Waiting(Writers)
      BY <2>3 DEF Waiting
    <3>2. lock'.waiting = lock.waiting
      BY <2>3, Looking
    <3>. QED BY <2>1, <2>2, <3>1, <3>2, <1>2
  <2>4. CASE thread[t] # "out"
    <3>1. t \in Waiting(Writers)
      BY <2>4 DEF Waiting, LockInv, LockTypeOK, ThreadState
    <3>2. lock'.waiting = lock.waiting - 1
      BY <2>4, Looking
    <3>3. Cardinality(Waiting(Writers) \ {t}) = Cardinality(Waiting(Writers)) - 1
      BY <2>1, <3>1, SizeRemove
    <3>. QED BY <2>1, <2>2, <3>2, <3>3, <1>2
  <2>. QED BY <2>3, <2>4
<1>4. lock'.readers = 0 /\ lock'.writer = TRUE
      /\ lock' = [readers |-> 0, writer |-> TRUE, waiting |-> lock'.waiting]
  BY Looking DEF MayWrite
<1>5. LockTypeOK' /\ Counted' /\ Alone' /\ NoLostWakeup'
  <2>1. LockTypeOK' /\ NoLostWakeup'
    <3>1. lock' \in [readers : Nat, writer : BOOLEAN, waiting : Nat]
      <4>1. PICK n \in Nat : n = lock'.waiting
        BY <1>3
      <4>2. lock' = [readers |-> 0, writer |-> TRUE, waiting |-> n]
        BY <1>4, <4>1, Zenon
      <4>3. [readers |-> 0, writer |-> TRUE, waiting |-> n]
              \in [readers : Nat, writer : BOOLEAN, waiting : Nat]
        OBVIOUS
      <4>. QED BY <4>2, <4>3, Zenon
    <3>2. NoLostWakeup'
      BY <1>4 DEF NoLostWakeup
    <3>. QED BY <1>2, <3>1, <3>2 DEF LockTypeOK
  <2>2. Counted'
    BY <1>2, <1>3, <1>4, FS_EmptySet DEF Counted
  <2>3. Alone'
    BY <1>2 DEF Alone
  <2>. QED BY <2>1, <2>2, <2>3
<1>6. Shared!EnterWrite(t)
  BY <1>1, <1>2 DEF Shared!EnterWrite
<1>. QED BY <1>5, <1>6 DEF Step, LockInv, Shared!Next

\* A writer that may not pass is counted while it waits, and only then.
LEMMA WriterStays ==
  ASSUME LockInv, NEW t \in Writers, thread[t] # "inside", ~MayWrite,
         NEW s \in {"asleep", "out"}, Becomes(t, s),
         lock' = [lock EXCEPT !.waiting = IF thread[t] = "out" THEN @ + 1
                                          ELSE IF s = "out" THEN @ - 1 ELSE @],
         thread[t] = "out" => s = "asleep"
  PROVE  Step
<1>. USE DEF Threads
<1>1. /\ thread' \in [Threads -> ThreadState]
      /\ Inside(Readers)' = Inside(Readers) \ {t}
      /\ Inside(Writers)' = Inside(Writers) \ {t}
      /\ Waiting(Writers)' = IF s = "asleep" THEN Waiting(Writers) \cup {t}
                                             ELSE Waiting(Writers) \ {t}
  BY SMTT(30), OneMoves, ThreadsAssumption DEF LockInv, ThreadState
<1>2. t \notin Inside(Readers) /\ t \notin Inside(Writers)
  BY DEF Inside
<1>3. Inside(Readers)' = Inside(Readers) /\ Inside(Writers)' = Inside(Writers)
  BY <1>1, <1>2
<1>4. lock'.waiting = Cardinality(Waiting(Writers)') /\ lock'.waiting \in Nat
  <2>1. IsFiniteSet(Waiting(Writers)) /\ lock.waiting = Cardinality(Waiting(Writers))
    BY Finite DEF LockInv, Counted
  <2>2. t \in Waiting(Writers) <=> thread[t] # "out"
    BY DEF Waiting, LockInv, LockTypeOK, ThreadState
  <2>3. /\ Cardinality(Waiting(Writers) \ {t}) \in Nat
        /\ Cardinality(Waiting(Writers) \cup {t}) \in Nat
    BY <2>1, FS_RemoveElement, FS_AddElement, FS_CardinalityType
  <2>4. CASE s = "asleep"
    <3>1. CASE thread[t] = "out"
      <4>1. Cardinality(Waiting(Writers) \cup {t}) = Cardinality(Waiting(Writers)) + 1
        BY <2>1, <2>2, <3>1, SizeAdd
      <4>2. lock'.waiting = lock.waiting + 1
        BY <3>1, Looking
      <4>. QED BY <2>1, <2>3, <2>4, <4>1, <4>2, <1>1
    <3>2. CASE thread[t] # "out"
      <4>1. Waiting(Writers) \cup {t} = Waiting(Writers)
        BY <2>2, <3>2
      <4>2. lock'.waiting = lock.waiting
        BY <2>4, <3>2, Looking
      <4>. QED BY <2>1, <2>3, <2>4, <4>1, <4>2, <1>1
    <3>. QED BY <3>1, <3>2
  <2>5. CASE s = "out"
    <3>1. thread[t] # "out"
      BY <2>5
    <3>2. Cardinality(Waiting(Writers) \ {t}) = Cardinality(Waiting(Writers)) - 1
      BY <2>1, <2>2, <3>1, SizeRemove
    <3>3. lock'.waiting = lock.waiting - 1
      BY <2>5, <3>1, Looking
    <3>4. Waiting(Writers)' = Waiting(Writers) \ {t}
      BY <2>5, <1>1
    <3>. QED BY <2>1, <2>3, <3>2, <3>3, <3>4
  <2>. QED BY <2>4, <2>5
<1>5. /\ lock' = [readers |-> lock.readers, writer |-> lock.writer, waiting |-> lock'.waiting]
      /\ lock'.readers = lock.readers /\ lock'.writer = lock.writer
  BY Looking
<1>6. LockTypeOK' /\ Counted' /\ Alone'
  BY <1>1, <1>3, <1>4, <1>5, Looking DEF LockInv, LockTypeOK, Counted, Alone
<1>7. NoLostWakeup'
  BY <1>5 DEF NoLostWakeup, MayWrite
<1>. QED BY <1>3, <1>6, <1>7 DEF Step, LockInv, Shared!vars

\* A writer leaves an empty lock behind and wakes the sleepers.
LEMMA WriterLeaves ==
  ASSUME LockInv, NEW t \in Writers, ReleaseWrite(t)
  PROVE  Step /\ Inside(Writers)' = {}
<1>. USE DEF Threads
<1>1. Inside(Writers) = {t} /\ Inside(Readers) = {}
  BY DEF ReleaseWrite, Inside, LockInv, Alone
<1>2. /\ thread' \in [Threads -> ThreadState]
      /\ Inside(Readers)' = {} /\ Inside(Writers)' = {}
      /\ Waiting(Writers)' = Waiting(Writers)
      /\ \A u \in Threads : thread'[u] # "asleep"
  BY <1>1, LeaverNotifies DEF ReleaseWrite, LockInv
<1>3. lock' = [readers |-> 0, writer |-> FALSE, waiting |-> lock.waiting]
  BY <1>1, Looking DEF ReleaseWrite
<1>4. LockTypeOK' /\ Counted' /\ Alone' /\ NoLostWakeup'
  BY <1>2, <1>3, Looking, FS_EmptySet DEF LockInv, LockTypeOK, Counted, Alone, NoLostWakeup
<1>5. Shared!LeaveWrite(t)
  BY <1>1, <1>2 DEF Shared!LeaveWrite
<1>. QED BY <1>2, <1>4, <1>5 DEF Step, LockInv, Shared!Next

\* Every step of the lock keeps its invariant and is a step of the abstract lock.
LEMMA LockStep ==
  ASSUME LockInv, LockNext
  PROVE  Step
<1>1. ASSUME NEW t \in Readers, AcquireRead(t)  PROVE Step
  <2>1. CASE EnterRead(t)
    BY <1>1, <2>1, ReaderEnters DEF AcquireRead
  <2>2. CASE KeepWaiting(t, MayRead)
    BY <1>1, <2>2, ReaderStays DEF AcquireRead, KeepWaiting
  <2>. QED BY <1>1, <2>1, <2>2 DEF AcquireRead
<1>2. ASSUME NEW t \in Readers, RecheckRead(t)  PROVE Step
  <2>1. CASE EnterRead(t)
    BY <1>2, <2>1, ReaderEnters DEF RecheckRead
  <2>2. CASE KeepWaiting(t, MayRead)
    BY <1>2, <2>2, ReaderStays DEF RecheckRead, KeepWaiting
  <2>. QED BY <1>2, <2>1, <2>2 DEF RecheckRead
<1>3. ASSUME NEW t \in Readers, ExpireRead(t)  PROVE Step
  <2>1. CASE EnterRead(t)
    BY <1>3, <2>1, ReaderEnters DEF ExpireRead
  <2>2. CASE ~MayRead /\ Becomes(t, "out") /\ UNCHANGED lock
    BY <1>3, <2>2, ReaderStays DEF ExpireRead
  <2>. QED BY <1>3, <2>1, <2>2 DEF ExpireRead
<1>4. ASSUME NEW t \in Writers, AcquireWrite(t)  PROVE Step
  <2>1. CASE MayWrite
    <3>1. lock' = [lock EXCEPT !.writer = TRUE,
                               !.waiting = IF thread[t] = "out" THEN @ ELSE @ - 1]
      BY <1>4, <2>1, Looking DEF AcquireWrite
    <3>. QED BY <1>4, <2>1, <3>1, WriterEnters DEF AcquireWrite
  <2>2. CASE ~MayWrite
    BY <1>4, <2>2, WriterStays DEF AcquireWrite
  <2>. QED BY <2>1, <2>2
<1>5. ASSUME NEW t \in Writers, thread[t] \in {"asleep", "woken"}, EnterWrite(t)  PROVE Step
  <2>1. lock' = [lock EXCEPT !.writer = TRUE,
                             !.waiting = IF thread[t] = "out" THEN @ ELSE @ - 1]
    BY <1>5, Looking DEF EnterWrite, StopWaiting
  <2>. QED BY <1>5, <2>1, WriterEnters DEF EnterWrite
<1>6. ASSUME NEW t \in Writers, RecheckWrite(t)  PROVE Step
  <2>1. CASE EnterWrite(t)
    BY <1>5, <1>6, <2>1 DEF RecheckWrite
  <2>2. CASE KeepWaiting(t, MayWrite)
    <3>1. lock' = [lock EXCEPT !.waiting = IF thread[t] = "out" THEN @ + 1
                                           ELSE IF "asleep" = "out" THEN @ - 1 ELSE @]
      BY <1>6, <2>2, Looking DEF RecheckWrite, KeepWaiting
    <3>. QED BY <1>6, <2>2, <3>1, WriterStays DEF RecheckWrite, KeepWaiting
  <2>. QED BY <1>6, <2>1, <2>2 DEF RecheckWrite
<1>7. ASSUME NEW t \in Writers, ExpireWrite(t)  PROVE Step
  <2>1. CASE EnterWrite(t)
    BY <1>5, <1>7, <2>1 DEF ExpireWrite
  <2>2. CASE ~MayWrite /\ lock' = StopWaiting /\ Becomes(t, "out")
    BY <1>7, <2>2, WriterStays DEF ExpireWrite, StopWaiting
  <2>. QED BY <1>7, <2>1, <2>2 DEF ExpireWrite
<1>. QED BY <1>1, <1>2, <1>3, <1>4, <1>6, <1>7, ReaderLeaves, WriterLeaves DEF LockNext

\* The lock starts free, and so does the abstract one.
LEMMA LockStart ==
  ASSUME LockInit
  PROVE  LockInv /\ Shared!Init
<1>1. \A S \in SUBSET Threads : Inside(S) = {} /\ Waiting(S) = {}
  BY DEF LockInit, Inside, Waiting
<1>2. Inside(Readers) = {} /\ Inside(Writers) = {} /\ Waiting(Writers) = {}
  BY <1>1 DEF Threads
<1>. QED BY <1>2, FS_EmptySet
         DEF LockInit, LockInv, LockTypeOK, Counted, Alone, NoLostWakeup, ThreadState, Shared!Init

(* The swap.                                                               *)

Sound(x) == kv[x] \subseteq {applied}

\* An ingest holds the lock exactly while a writer is inside
StageHeld == stage = "none" <=> Inside(Writers) = {}

\* The KV that is left is the applied adapter's, the cache's own possibly zeroed while it
\* is parked; between the push and the callbacks it is anybody's.
KVSound ==
  stage # "callbacks" =>
    /\ Sound("cpu") /\ Sound("recurrent")
    /\ kv["vram"] \subseteq {applied, Zeroed}
    /\ caches = "resident" => Sound("vram")

Replacing == Stages \ {"none", "waitIdle", "release"}

\* No job has a context while the adapter is replaced
JobsSound ==
  \A j \in DOMAIN jobs : jobs[j] \subseteq {applied} /\ (stage \in Replacing => jobs[j] = {})

Parked ==
  /\ aux \in {"resident", "parked"} /\ caches \in {"resident", "parked"}
  /\ stage \in {"none", "waitIdle", "encode", "parkAux", "release"} => aux = "resident"
  /\ stage \notin {"train", "apply", "callbacks", "unparkCaches"} => caches = "resident"

Untrained == {"waitIdle", "encode", "parkAux", "parkCaches", "train"}

\* Every adapter was trained by an ingest of its own
Budget ==
  trained + lock.waiting + (IF stage \in Untrained THEN 1 ELSE 0) <= ingests

BookInv == TypeOK /\ StageHeld /\ Budget /\ applied <= trained

SoundInv == KVSound /\ JobsSound /\ Parked

\* A drive that comes or goes does not move the writers.
LEMMA DriveMoves ==
  ASSUME LockInv, NEW t \in Readers, Drive(t)
  PROVE  Inside(Writers)' = Inside(Writers) /\ lock'.waiting = lock.waiting
<1>1. lock'.waiting = lock.waiting
  BY Looking DEF Drive, AcquireRead, RecheckRead, ExpireRead, ReleaseRead, EnterRead, KeepWaiting
<1>2. t \in Threads /\ t \notin Writers /\ LockTypeOK
  BY ThreadsAssumption DEF Threads, LockInv
<1>3. \A w \in Writers : thread'[w] = "inside" <=> thread[w] = "inside"
  BY <1>2 DEF Threads, LockTypeOK, ThreadState, Drive, AcquireRead, RecheckRead, ExpireRead,
              ReleaseRead, EnterRead, KeepWaiting, Becomes, LeaveNotifying
<1>. QED BY <1>1, <1>3 DEF Inside

\* An ingest enters a lock without writers and stops waiting, or stays out.
LEMMA IngestArrives ==
  ASSUME LockInv, NEW t \in Writers, AcquireWrite(t) \/ RecheckWrite(t) \/ ExpireWrite(t)
  PROVE  \/ /\ thread'[t] = "inside" /\ Inside(Writers) = {} /\ Inside(Writers)' # {}
            /\ lock'.waiting = IF thread[t] = "out" THEN lock.waiting ELSE lock.waiting - 1
         \/ /\ thread'[t] # "inside" /\ Inside(Writers)' = Inside(Writers)
            /\ IF thread[t] = "out" THEN lock'.waiting = lock.waiting + 1
                                    ELSE lock'.waiting \in {lock.waiting, lock.waiting - 1}
<1>1. t \in Threads /\ LockTypeOK
  BY DEF Threads, LockInv
<1>2. ASSUME MayWrite, Becomes(t, "inside")
      PROVE  thread'[t] = "inside" /\ Inside(Writers) = {} /\ Inside(Writers)' # {}
  BY <1>1, <1>2, Looking DEF MayWrite, Becomes, LockTypeOK, Inside
<1>3. ASSUME NEW s \in {"asleep", "out"}, thread[t] # "inside", Becomes(t, s)
      PROVE  thread'[t] # "inside" /\ Inside(Writers)' = Inside(Writers)
  BY <1>1, <1>3 DEF Becomes, LockTypeOK, Inside, Threads
<1>4. CASE AcquireWrite(t)
  BY <1>2, <1>3, <1>4, Looking DEF AcquireWrite
<1>5. CASE RecheckWrite(t)
  BY <1>2, <1>3, <1>5, Looking DEF RecheckWrite, EnterWrite, KeepWaiting, StopWaiting
<1>6. CASE ExpireWrite(t)
  BY <1>2, <1>3, <1>6, Looking DEF ExpireWrite, EnterWrite, StopWaiting
<1>. QED BY <1>4, <1>5, <1>6

\* Every step of the trainer is a step of the lock, or leaves it alone.
LEMMA LockOfNext ==
  ASSUME Next
  PROVE  LockNext \/ UNCHANGED lockVars
BY DEF Next, Enqueue, Advance, Finish, Drive, BeginIngest, AwaitLock, IngestStep, WaitIdle,
       Encode, ParkAux, ParkCaches, Train, Apply, Callbacks, UnparkCaches, UnparkAux,
       EndIngest, LockNext

\* While an ingest or a drive goes on without touching the lock, its sets stand still.
LEMMA LockStill ==
  ASSUME UNCHANGED lockVars
  PROVE  /\ Inside(Readers)' = Inside(Readers) /\ Inside(Writers)' = Inside(Writers)
         /\ lock' = lock /\ thread' = thread
BY DEF lockVars, Inside

\* The books of the ingests: who holds the lock, and how many adapters there can be.
LEMMA BookStep ==
  ASSUME LockInv, LockInv', BookInv, Next
  PROVE  BookInv'
<1>. USE IngestsAssumption DEF BookInv, TypeOK, Adapter, Goto, Stages, Untrained
<1>1. LockTypeOK' /\ LockTypeOK /\ lock.waiting \in Nat /\ lock'.waiting \in Nat
  BY DEF LockInv, LockTypeOK
<1>2. ASSUME UNCHANGED <<stage, trained, applied, ingests, config, aux, caches>>,
             Inside(Writers)' = Inside(Writers), lock'.waiting = lock.waiting,
             (kv \in [Tiers -> SUBSET KV])', (DOMAIN jobs \subseteq Jobs)',
             (\A j \in DOMAIN jobs : jobs[j] \subseteq KV)'
      PROVE  BookInv'
  BY <1>1, <1>2 DEF StageHeld, Budget
<1>3. ASSUME NEW j \in Jobs, Enqueue(j)  PROVE BookInv'
  BY <1>2, <1>3, LockStill DEF Enqueue, adapter, parking
<1>4. ASSUME NEW j \in Jobs, Advance(j)  PROVE BookInv'
  <2>1. PICK reuse \in SUBSET UNION {kv[x] : x \in Tiers}, spilled \in BOOLEAN :
          LET context == jobs[j] \cup {applied} \cup reuse
          IN /\ jobs' = [jobs EXCEPT ![j] = context]
             /\ kv' = [x \in Tiers |-> IF x = "cpu" /\ ~spilled
                                       THEN kv[x] ELSE kv[x] \cup context]
    BY <1>4 DEF Advance
  <2>. DEFINE context == jobs[j] \cup {applied} \cup reuse
  <2>2. context \subseteq KV
    <3>1. reuse \subseteq KV /\ applied \in KV
      BY DEF KV
    <3>. QED BY <3>1, <1>4 DEF Advance
  <2>3. jobs' = [jobs EXCEPT ![j] = context] /\ j \in DOMAIN jobs
    BY <2>1, <1>4 DEF Advance
  <2>4. kv' = [x \in Tiers |-> IF x = "cpu" /\ ~spilled THEN kv[x] ELSE kv[x] \cup context]
    BY <2>1
  <2>. HIDE DEF context
  <2>5. (kv \in [Tiers -> SUBSET KV])'
    BY <2>2, <2>4
  <2>6. (DOMAIN jobs \subseteq Jobs)' /\ (\A i \in DOMAIN jobs : jobs[i] \subseteq KV)'
    BY <2>2, <2>3
  <2>. QED BY <1>2, <1>4, <2>5, <2>6, LockStill DEF Advance, adapter, parking
<1>5. ASSUME NEW j \in Jobs, Finish(j)  PROVE BookInv'
  BY <1>2, <1>5, LockStill DEF Finish, adapter, parking
<1>6. ASSUME NEW t \in Readers, Drive(t)  PROVE BookInv'
  BY <1>2, <1>6, DriveMoves DEF Drive, adapter, parking, serving
<1>7. ASSUME NEW t \in Writers, BeginIngest(t)  PROVE BookInv'
  <2>1. thread[t] = "out" /\ ingests' = ingests + 1 /\ ingests < MaxIngests
        /\ UNCHANGED <<config, adapter, serving, parking>>
        /\ stage' = IF thread'[t] = "inside" THEN "waitIdle" ELSE stage
    BY <1>7 DEF BeginIngest, AcquireWrite, StageOnEntry
  <2>2. \/ /\ thread'[t] = "inside" /\ Inside(Writers) = {} /\ Inside(Writers)' # {}
           /\ lock'.waiting = lock.waiting
        \/ /\ thread'[t] # "inside" /\ Inside(Writers)' = Inside(Writers)
           /\ lock'.waiting = lock.waiting + 1
    BY <1>7, <2>1, IngestArrives DEF BeginIngest
  <2>3. StageHeld' /\ Budget'
    BY <1>1, <2>1, <2>2 DEF StageHeld, Budget, adapter
  <2>. QED BY <1>1, <2>1, <2>3 DEF adapter, serving, parking
<1>8. ASSUME NEW t \in Writers, AwaitLock(t)  PROVE BookInv'
  <2>1. thread[t] # "out" /\ UNCHANGED <<config, adapter, serving, parking, ingests>>
        /\ stage' = IF thread'[t] = "inside" THEN "waitIdle" ELSE stage
    BY <1>8 DEF AwaitLock, RecheckWrite, ExpireWrite, StageOnEntry
  <2>2. \/ /\ thread'[t] = "inside" /\ Inside(Writers) = {} /\ Inside(Writers)' # {}
           /\ lock'.waiting = lock.waiting - 1
        \/ /\ thread'[t] # "inside" /\ Inside(Writers)' = Inside(Writers)
           /\ lock'.waiting \in {lock.waiting, lock.waiting - 1}
    BY <1>8, <2>1, IngestArrives DEF AwaitLock
  <2>3. StageHeld' /\ Budget'
    BY <1>1, <2>1, <2>2 DEF StageHeld, Budget, adapter
  <2>. QED BY <1>1, <2>1, <2>3 DEF adapter, serving, parking
<1>9. ASSUME stage # "none", stage' \in Stages \ {"none"}, UNCHANGED <<lockVars, ingests, config>>,
             trained' \in Nat, applied' \in 0 .. trained',
             trained' + (IF stage' \in Untrained THEN 1 ELSE 0)
               <= trained + (IF stage \in Untrained THEN 1 ELSE 0),
             (kv \in [Tiers -> SUBSET KV])', UNCHANGED jobs, aux' \in Where, caches' \in Where
      PROVE  BookInv'
  <2>1. StageHeld' /\ Budget'
    BY <1>1, <1>9, LockStill DEF StageHeld, Budget
  <2>2. trained' \in Adapter /\ applied' \in Adapter
    BY <1>1, <1>9, <2>1, LockStill DEF Budget
  <2>. QED BY <1>1, <1>9, <2>1, <2>2
<1>10. ASSUME WaitIdle \/ Encode  PROVE BookInv'
  BY <1>9, <1>10 DEF WaitIdle, Encode, adapter, serving, parking
<1>11. ASSUME ParkAux  PROVE BookInv'
  BY <1>9, <1>11 DEF ParkAux, adapter, serving, Where
<1>12. ASSUME ParkCaches  PROVE BookInv'
  <2>1. (kv \in [Tiers -> SUBSET KV])'
    BY <1>12 DEF ParkCaches, KV, Zeroed, Tiers
  <2>. QED BY <1>9, <1>12, <2>1 DEF ParkCaches, adapter, Where
<1>13. ASSUME Train  PROVE BookInv'
  BY <1>9, <1>13 DEF Train, serving, parking
<1>14. ASSUME Apply  PROVE BookInv'
  BY <1>9, <1>14 DEF Apply, serving, parking
<1>15. ASSUME Callbacks  PROVE BookInv'
  BY <1>9, <1>15 DEF Callbacks, adapter, parking
<1>16. ASSUME UnparkCaches  PROVE BookInv'
  <2>1. (kv \in [Tiers -> SUBSET KV])'
    BY <1>16 DEF UnparkCaches
  <2>. QED BY <1>9, <1>16, <2>1 DEF UnparkCaches, adapter, Where
<1>17. ASSUME UnparkAux  PROVE BookInv'
  BY <1>9, <1>17 DEF UnparkAux, adapter, serving, Where
<1>18. ASSUME NEW t \in Writers, EndIngest(t)  PROVE BookInv'
  <2>1. Inside(Writers)' = {} /\ lock'.waiting = lock.waiting
    BY <1>18, WriterLeaves, Looking DEF EndIngest, ReleaseWrite
  <2>2. StageHeld' /\ Budget'
    BY <1>1, <1>18, <2>1 DEF StageHeld, Budget, EndIngest, adapter
  <2>. QED BY <1>1, <1>18, <2>2 DEF EndIngest, adapter, serving, parking
<1>. QED BY <1>3, <1>4, <1>5, <1>6, <1>7, <1>8, <1>10, <1>11, <1>12, <1>13, <1>14, <1>15,
            <1>16, <1>17, <1>18 DEF Next, IngestStep

\* A drive meets no ingest.
LEMMA DrivingAlone ==
  ASSUME LockInv, StageHeld, Driving
  PROVE  stage = "none"
BY DEF LockInv, Alone, StageHeld, Driving, Inside

\* Only reading a sample and training may raise
OnlyTrainingFails == Faults \cap {"park", "apply", "unpark"} = {}

\* What is served stays sound as long as only encoding and training raise.
LEMMA SoundStep ==
  ASSUME OnlyTrainingFails, LockInv, BookInv, SoundInv, Next
  PROVE  SoundInv'
<1>. USE DEF SoundInv, Goto, Stages, Replacing
<1>1. TypeOK /\ StageHeld
  BY DEF BookInv
<1>2. Returns("park") = {TRUE} /\ Returns("apply") = {TRUE} /\ Returns("unpark") = {TRUE}
  BY DEF OnlyTrainingFails, Returns
<1>3. kv \in [Tiers -> SUBSET KV] /\ Tiers = {"vram", "cpu", "recurrent"}
  BY <1>1 DEF TypeOK, Tiers
<1>4. ASSUME NEW j \in Jobs, Enqueue(j)  PROVE SoundInv'
  BY <1>4 DEF Enqueue, KVSound, Sound, JobsSound, Parked, adapter, parking
<1>5. ASSUME NEW j \in Jobs, Advance(j)  PROVE SoundInv'
  <2>1. PICK reuse \in SUBSET UNION {kv[x] : x \in Tiers}, spilled \in BOOLEAN :
          LET context == jobs[j] \cup {applied} \cup reuse
          IN /\ jobs' = [jobs EXCEPT ![j] = context]
             /\ kv' = [x \in Tiers |-> IF x = "cpu" /\ ~spilled
                                       THEN kv[x] ELSE kv[x] \cup context]
    BY <1>5 DEF Advance
  <2>. DEFINE context == jobs[j] \cup {applied} \cup reuse
  <2>2. stage = "none" /\ j \in DOMAIN jobs
    BY <1>1, <1>5, DrivingAlone DEF Advance
  <2>3. \A x \in Tiers : kv[x] \subseteq {applied}
    BY <1>3, <2>2 DEF KVSound, Sound, Parked
  <2>4. context = {applied}
    BY <2>2, <2>3 DEF JobsSound
  <2>5. jobs' = [jobs EXCEPT ![j] = context]
        /\ kv' = [x \in Tiers |-> IF x = "cpu" /\ ~spilled THEN kv[x] ELSE kv[x] \cup context]
    BY <2>1
  <2>. HIDE DEF context
  <2>6. UNCHANGED <<stage, applied, aux, caches>>
    BY <1>5 DEF Advance, adapter, parking
  <2>7. \A x \in Tiers : kv'[x] \subseteq {applied}
    BY <2>3, <2>4, <2>5
  <2>8. \A i \in DOMAIN jobs' : jobs'[i] \subseteq {applied}
    BY <2>4, <2>5 DEF JobsSound
  <2>. QED BY <1>3, <2>2, <2>6, <2>7, <2>8 DEF KVSound, Sound, JobsSound, Parked
<1>6. ASSUME NEW j \in Jobs, Finish(j)  PROVE SoundInv'
  BY <1>6 DEF Finish, KVSound, Sound, JobsSound, Parked, adapter, parking
<1>7. ASSUME NEW t \in Readers, Drive(t)  PROVE SoundInv'
  BY <1>7 DEF Drive, KVSound, Sound, JobsSound, Parked, adapter, serving, parking
<1>8. ASSUME NEW t \in Writers, BeginIngest(t) \/ AwaitLock(t)  PROVE SoundInv'
  <2>1. UNCHANGED <<applied, kv, jobs, aux, caches>>
        /\ stage' = IF thread'[t] = "inside" THEN "waitIdle" ELSE stage
    BY <1>8 DEF BeginIngest, AwaitLock, StageOnEntry, adapter, serving, parking
  <2>2. thread'[t] = "inside" => stage = "none"
    BY <1>1, <1>8, IngestArrives DEF StageHeld, BeginIngest, AwaitLock
  <2>. QED BY <2>1, <2>2 DEF KVSound, Sound, JobsSound, Parked
<1>9. ASSUME WaitIdle  PROVE SoundInv'
  BY <1>9 DEF WaitIdle, KVSound, Sound, JobsSound, Parked, adapter, serving, parking
<1>10. ASSUME Encode  PROVE SoundInv'
  BY <1>10 DEF Encode, KVSound, Sound, JobsSound, Parked, adapter, serving, parking
<1>11. ASSUME ParkAux  PROVE SoundInv'
  BY <1>2, <1>11 DEF ParkAux, KVSound, Sound, JobsSound, Parked, adapter, serving
<1>12. ASSUME ParkCaches  PROVE SoundInv'
  <2>1. stage = "parkCaches" /\ stage' = "train" /\ UNCHANGED <<applied, jobs, aux>>
    BY <1>2, <1>12 DEF ParkCaches, adapter
  <2>2. \/ UNCHANGED <<caches, kv>>
        \/ caches' = "parked" /\ (kv' = kv \/ kv' = [kv EXCEPT !["vram"] = {Zeroed}])
    BY <1>2, <1>12 DEF ParkCaches
  <2>3. KVSound'
    <3>1. CASE UNCHANGED <<caches, kv>>
      BY <2>1, <3>1 DEF KVSound, Sound
    <3>2. CASE caches' = "parked" /\ kv' = kv
      BY <2>1, <3>2 DEF KVSound, Sound
    <3>3. CASE caches' = "parked" /\ kv' = [kv EXCEPT !["vram"] = {Zeroed}]
      <4>1. kv'["vram"] = {Zeroed} /\ kv'["cpu"] = kv["cpu"] /\ kv'["recurrent"] = kv["recurrent"]
        BY <1>3, <3>3
      <4>. QED BY <2>1, <3>3, <4>1 DEF KVSound, Sound
    <3>. QED BY <2>2, <3>1, <3>2, <3>3
  <2>4. JobsSound' /\ Parked'
    BY <2>1, <2>2 DEF JobsSound, Parked
  <2>. QED BY <2>3, <2>4
<1>13. ASSUME Train  PROVE SoundInv'
  BY <1>13 DEF Train, KVSound, Sound, JobsSound, Parked, serving, parking
<1>14. ASSUME Apply  PROVE SoundInv'
  BY <1>2, <1>14 DEF Apply, KVSound, Sound, JobsSound, Parked, serving, parking
<1>15. ASSUME Callbacks  PROVE SoundInv'
  BY <1>3, <1>15 DEF Callbacks, KVSound, Sound, JobsSound, Parked, adapter, parking
<1>16. ASSUME UnparkCaches  PROVE SoundInv'
  BY ZenonT(30), <1>2, <1>3, <1>16 DEF UnparkCaches, KVSound, Sound, JobsSound, Parked, adapter
<1>17. ASSUME UnparkAux  PROVE SoundInv'
  BY <1>2, <1>17 DEF UnparkAux, KVSound, Sound, JobsSound, Parked, adapter, serving
<1>18. ASSUME NEW t \in Writers, EndIngest(t)  PROVE SoundInv'
  BY <1>18 DEF EndIngest, KVSound, Sound, JobsSound, Parked, adapter, serving, parking
<1>. QED BY <1>4, <1>5, <1>6, <1>7, <1>8, <1>9, <1>10, <1>11, <1>12, <1>13, <1>14, <1>15,
            <1>16, <1>17, <1>18 DEF Next, IngestStep

\* The invariants hold at the start.
LEMMA Start ==
  ASSUME Init
  PROVE  LockInv /\ BookInv /\ SoundInv /\ Shared!Init
<1>1. LockInv /\ Shared!Init /\ Inside(Writers) = {}
  BY LockStart DEF Init, Shared!Init
<1>2. LockTypeOK /\ lock.waiting = 0
  BY <1>1 DEF Init, LockInit, LockInv
<1>3. BookInv
  BY <1>1, <1>2, IngestsAssumption
     DEF Init, BookInv, TypeOK, StageHeld, Budget, Adapter, Tiers, KV, Where, Stages, Untrained
<1>4. SoundInv
  BY DEF Init, SoundInv, KVSound, Sound, JobsSound, Parked, Tiers, Stages, Replacing
<1>. QED BY <1>1, <1>3, <1>4

\* A step that changes nothing changes no invariant.
LEMMA Stutter ==
  ASSUME UNCHANGED vars
  PROVE  /\ LockInv' = LockInv /\ BookInv' = BookInv /\ SoundInv' = SoundInv
         /\ UNCHANGED Shared!vars
<1>1. UNCHANGED lockVars /\ UNCHANGED <<config, trained, applied, kv, jobs, aux, caches, stage, ingests>>
  BY DEF vars, adapter, serving, parking
<1>2. /\ Inside(Readers)' = Inside(Readers) /\ Inside(Writers)' = Inside(Writers)
      /\ Waiting(Writers)' = Waiting(Writers) /\ lock' = lock /\ thread' = thread
  BY <1>1 DEF lockVars, Inside, Waiting
<1>3. LockInv' = LockInv
  BY <1>2 DEF LockInv, LockTypeOK, Counted, Alone, NoLostWakeup
<1>4. BookInv' = BookInv
  BY <1>1, <1>2 DEF BookInv, TypeOK, LockTypeOK, StageHeld, Budget
<1>5. SoundInv' = SoundInv
  BY <1>1 DEF SoundInv, KVSound, Sound, JobsSound, Parked
<1>. QED BY <1>2, <1>3, <1>4, <1>5 DEF Shared!vars

-----------------------------------------------------------------------------
(* The theorems.                                                           *)

\* The inductive invariant of the lock holds of the lock inside the trainer.
THEOREM LockAlwaysSound == Spec => []LockInv
<1>1. LockInv /\ [Next]_vars => LockInv'
  <2>1. CASE LockNext
    BY <2>1, LockStep DEF Step
  <2>2. CASE UNCHANGED lockVars
    BY <2>2 DEF lockVars, LockInv, LockTypeOK, Counted, Alone, NoLostWakeup, Inside, Waiting
  <2>3. CASE UNCHANGED vars
    BY <2>3, Stutter
  <2>. QED BY <2>1, <2>2, <2>3, LockOfNext
<1>. QED BY <1>1, Start, PTL DEF Spec

\* RWLock, with its counters and its wake-ups, implements the abstract readers/writer lock:
\* an ingest is alone, for any number of threads, timeouts and overtakings.
THEOREM IngestsExclusive == Spec => Exclusion
<1>1. LockInv /\ [Next]_vars => [Shared!Next]_(Shared!vars)
  <2>1. CASE LockNext
    BY <2>1, LockStep DEF Step
  <2>2. CASE UNCHANGED lockVars
    BY <2>2, LockStill DEF Shared!vars
  <2>3. CASE UNCHANGED vars
    BY <2>3, Stutter
  <2>. QED BY <2>1, <2>2, <2>3, LockOfNext
<1>2. Init => Shared!Init
  BY Start
<1>. QED BY <1>1, <1>2, LockAlwaysSound, PTL DEF Spec, Exclusion, Shared!Spec

\* No thread sleeps on a lock that is free, unless a woken writer is about to take it.
THEOREM LockWakesSleepers == Spec => []NoLostWakeup
<1>1. LockInv => NoLostWakeup
  BY DEF LockInv
<1>. QED BY <1>1, LockAlwaysSound, PTL

\* The books balance whatever call of ingest raises.
THEOREM BooksKept == Spec => []BookInv
<1>1. LockInv /\ LockInv' /\ BookInv /\ [Next]_vars => BookInv'
  BY BookStep, Stutter
<1>. QED BY <1>1, Start, LockAlwaysSound, PTL DEF Spec

\* Every variable keeps its type.
THEOREM TypesKept == Spec => []TypeOK
<1>1. BookInv => TypeOK
  BY DEF BookInv
<1>. QED BY <1>1, BooksKept, PTL

\* What an ingest that may fail in encoding or training leaves behind is fit to serve.
THEOREM SwapSound == ASSUME OnlyTrainingFails PROVE Spec => []SoundInv
<1>1. LockInv /\ BookInv /\ SoundInv /\ [Next]_vars => SoundInv'
  BY SoundStep, Stutter
<1>. QED BY <1>1, Start, LockAlwaysSound, BooksKept, PTL DEF Spec

\* No drive meets KV of another adapter, for any number of jobs, threads and ingests.
THEOREM KVAlwaysFresh == ASSUME OnlyTrainingFails PROVE Spec => []FreshKV
<1>1. LockInv /\ BookInv /\ SoundInv => FreshKV
  BY DrivingAlone DEF BookInv, SoundInv, FreshKV, KVSound, Sound, JobsSound, Parked, Tiers
<1>. QED BY <1>1, LockAlwaysSound, BooksKept, SwapSound, PTL

\* No drive finds the cache freed or an aux model unloaded.
THEOREM AlwaysServesWhole == ASSUME OnlyTrainingFails PROVE Spec => []ServesWhole
<1>1. LockInv /\ BookInv /\ SoundInv => ServesWhole
  BY DrivingAlone DEF BookInv, SoundInv, ServesWhole, Parked
<1>. QED BY <1>1, LockAlwaysSound, BooksKept, SwapSound, PTL
=============================================================================
