-------------------------- MODULE AsyncJobsProofs --------------------------
(***************************************************************************)
(* That the asyncio wrapper routes results for exactly the jobs the        *)
(* generator has, ends each consumer's queue once, and leaves no consumer  *)
(* and no work waiting for nobody, for any number of jobs.                 *)
(***************************************************************************)
EXTENDS AsyncJobs, TLAPS

\* A job that was never accepted has no queue to speak of
Untouched ==
  \A j \in AsyncJob :
    consumer[j] \in {"none", "refused"} => out[j] = <<>> /\ j \notin jobs

\* A consumer that may still read has its ending in the queue unless its job is tracked
Answerable ==
  \A j \in AsyncJob :
    consumer[j] \in {"top", "get", "body"} /\ j \notin jobs
      => Len(out[j]) > 0 /\ out[j][Len(out[j])] \in Ending

WrapperInv ==
  TypeOK /\ Routed /\ NoLostWakeup /\ OneEnding /\ Untouched /\ Answerable

-----------------------------------------------------------------------------
(* Queues.                                                                 *)

\* Putting appends one item to the queues of S and leaves the others alone.
LEMMA PutAppends ==
  ASSUME out \in [AsyncJob -> Seq(Item)], NEW S \in SUBSET AsyncJob, NEW item,
         \A j \in S : item[j] \in Item
  PROVE  /\ Put(item, S) \in [AsyncJob -> Seq(Item)]
         /\ \A j \in AsyncJob \ S : Put(item, S)[j] = out[j]
         /\ \A j \in S : Put(item, S)[j] = Append(out[j], item[j])
<1>1. \A j \in S : Append(out[j], item[j]) \in Seq(Item)
  OBVIOUS
<1>. QED BY <1>1 DEF Put

LEMMA Appended ==
  ASSUME NEW s \in Seq(Item), NEW x \in Item
  PROVE  /\ Len(Append(s, x)) = Len(s) + 1
         /\ Append(s, x)[Len(s) + 1] = x
         /\ \A n \in 1 .. Len(s) : Append(s, x)[n] = s[n]
OBVIOUS

\* The queues stay in order when jobs leave the map exactly as an ending is put.
LEMMA EndingsPut ==
  ASSUME WrapperInv, NEW S \in SUBSET jobs, NEW item, \A j \in S : item[j] \in Item,
         out' = Put(item, S), consumer' = consumer,
         jobs' = jobs \ {j \in S : item[j] \in Ending}
  PROVE  out' \in [AsyncJob -> Seq(Item)] /\ OneEnding' /\ Untouched' /\ Answerable'
<1>0. S \in SUBSET AsyncJob /\ out \in [AsyncJob -> Seq(Item)]
  BY DEF WrapperInv, TypeOK
<1>1. out' \in [AsyncJob -> Seq(Item)]
  BY <1>0, PutAppends
<1>2. \A j \in AsyncJob \ S : out'[j] = out[j] /\ (j \in jobs' <=> j \in jobs)
  <2>1. \A j \in AsyncJob \ S : Put(item, S)[j] = out[j]
    BY <1>0, PutAppends
  <2>. QED BY <2>1
<1>3. ASSUME NEW j \in S
      PROVE  /\ Len(out'[j]) = Len(out[j]) + 1
             /\ out'[j][Len(out[j]) + 1] = item[j]
             /\ \A n \in 1 .. Len(out[j]) : out'[j][n] = out[j][n]
             /\ j \in jobs' <=> item[j] \notin Ending
  <2>1. out'[j] = Append(out[j], item[j])
    BY <1>0, PutAppends
  <2>2. out[j] \in Seq(Item) /\ item[j] \in Item
    BY <1>0
  <2>. QED BY <2>1, <2>2, Appended
<1>4. OneEnding'
  <2>. SUFFICES ASSUME NEW j \in AsyncJob, NEW n \in 1 .. Len(out'[j]),
                       out'[j][n] \in Ending
                PROVE  n = Len(out'[j]) /\ j \notin jobs'
    BY DEF OneEnding
  <2>1. CASE j \notin S
    BY <1>2, <2>1 DEF WrapperInv, OneEnding
  <2>2. CASE j \in S
    <3>1. \A i \in 1 .. Len(out[j]) : out[j][i] \notin Ending
      BY <2>2 DEF WrapperInv, OneEnding
    <3>2. n = Len(out[j]) + 1
      BY <1>3, <2>2, <3>1
    <3>. QED BY <1>3, <2>2, <3>2
  <2>. QED BY <2>1, <2>2
<1>5. Untouched'
  BY <1>2, <1>3 DEF WrapperInv, Untouched
<1>6. Answerable'
  <2>. SUFFICES ASSUME NEW j \in AsyncJob, consumer[j] \in {"top", "get", "body"},
                       j \notin jobs'
                PROVE  Len(out'[j]) > 0 /\ out'[j][Len(out'[j])] \in Ending
    BY DEF Answerable
  <2>1. CASE j \notin S
    BY <1>2, <2>1 DEF WrapperInv, Answerable
  <2>2. CASE j \in S
    BY <1>3, <2>2
  <2>. QED BY <2>1, <2>2
<1>. QED BY <1>1, <1>4, <1>5, <1>6

\* Nothing about queues, consumers or the map changes.
LEMMA QueuesFramed ==
  ASSUME WrapperInv, UNCHANGED <<jobs, out, consumer>>
  PROVE  OneEnding' /\ Untouched' /\ Answerable'
BY DEF WrapperInv, OneEnding, Untouched, Answerable

-----------------------------------------------------------------------------
(* The iteration task.                                                     *)

LEMMA IterateKeeps ==
  ASSUME WrapperInv, Iterate
  PROVE  WrapperInv'
<1>. PICK came \in [held -> {"nothing", "result", "eos", "error"}] :
       /\ \A j \in held : came[j] = "result" => left[j] > 0
       /\ held' = held \ {j \in held : came[j] \in {"eos", "error"}}
       /\ out' = Put([j \in {j \in held : came[j] # "nothing"} |-> Delivered(came[j])],
                     {j \in held : came[j] # "nothing"} \cap jobs)
       /\ jobs' = jobs \ {j \in held : came[j] \in {"eos", "error"}}
       /\ left' = [j \in AsyncJob |->
                     IF j \in {j2 \in held : came[j2] # "nothing"} /\ came[j] = "result"
                     THEN left[j] - 1 ELSE left[j]]
  BY DEF Iterate, StillTracked
<1>. DEFINE some == {j \in held : came[j] # "nothing"}
            item == [j \in some |-> Delivered(came[j])]
            S == some \cap jobs
<1>1. \A j \in S : item[j] \in Item /\ (item[j] \in Ending <=> came[j] \in {"eos", "error"})
  BY DEF Delivered, Item, Ending
<1>2. jobs' = jobs \ {j \in S : item[j] \in Ending}
  BY <1>1
<1>3. out' = Put(item, S) /\ S \in SUBSET jobs
  OBVIOUS
<1>4. consumer' = consumer
  BY DEF Iterate
<1>. HIDE DEF item, S
<1>5. out' \in [AsyncJob -> Seq(Item)] /\ OneEnding' /\ Untouched' /\ Answerable'
  BY <1>1, <1>2, <1>3, <1>4, EndingsPut
<1>6. left' \in [AsyncJob -> 0 .. Tokens]
  BY TokensAssumption DEF WrapperInv, TypeOK
<1>7. TypeOK'
  BY <1>5, <1>6 DEF WrapperInv, TypeOK, Iterate
<1>8. Routed' /\ NoLostWakeup'
  BY DEF WrapperInv, Routed, NoLostWakeup, Iterate, Awake
<1>. QED BY <1>5, <1>7, <1>8 DEF WrapperInv

\* An exception ends the task: everyone is told.
LEMMA BrokenKeeps ==
  ASSUME WrapperInv, Broken, held' \subseteq held
  PROVE  WrapperInv'
<1>. DEFINE item == [j \in jobs |-> "exception"]
<1>1. \A j \in jobs : item[j] \in Item /\ item[j] \in Ending
  BY DEF Item, Ending
<1>2. out' = Put(item, jobs) /\ consumer' = consumer /\ jobs' = {}
  BY DEF Broken, PutAll, Everyone
<1>. HIDE DEF item
<1>3. jobs' = jobs \ {j \in jobs : item[j] \in Ending}
  BY <1>1, <1>2
<1>4. out' \in [AsyncJob -> Seq(Item)] /\ OneEnding' /\ Untouched' /\ Answerable'
  BY <1>1, <1>2, <1>3, EndingsPut
<1>5. TypeOK' /\ Routed' /\ NoLostWakeup'
  BY <1>2, <1>4 DEF WrapperInv, TypeOK, Routed, NoLostWakeup, Broken
<1>. QED BY <1>4, <1>5 DEF WrapperInv

LEMMA TaskKeeps ==
  ASSUME WrapperInv, Park \/ Cancelled \/ NotifyCondition
  PROVE  WrapperInv'
<1>1. OneEnding' /\ Untouched' /\ Answerable'
  BY QueuesFramed DEF Park, Cancelled, NotifyCondition
<1>2. TypeOK'
  BY DEF WrapperInv, TypeOK, Park, Cancelled, NotifyCondition
<1>3. Routed' /\ NoLostWakeup'
  BY DEF WrapperInv, Routed, NoLostWakeup, Park, Cancelled, NotifyCondition
<1>. QED BY <1>1, <1>2, <1>3 DEF WrapperInv

LEMMA IdleKeeps ==
  ASSUME WrapperInv, Idle
  PROVE  WrapperInv'
<1>1. CASE iteration' = "ready" /\ UNCHANGED <<jobs, held, error, cancelling, notices,
                                               closing, out, consumer, cancelled, left>>
  <2>1. OneEnding' /\ Untouched' /\ Answerable'
    BY <1>1, QueuesFramed
  <2>2. TypeOK' /\ Routed' /\ NoLostWakeup'
    BY <1>1 DEF WrapperInv, TypeOK, Routed, NoLostWakeup
  <2>. QED BY <2>1, <2>2 DEF WrapperInv
<1>2. CASE UNCHANGED held /\ Broken
  BY <1>2, BrokenKeeps
<1>. QED BY <1>1, <1>2 DEF Idle

-----------------------------------------------------------------------------
(* Callers.                                                                *)

LEMMA EnqueueKeeps ==
  ASSUME WrapperInv, NEW j \in AsyncJob, Enqueue(j)
  PROVE  WrapperInv'
<1>1. out[j] = <<>> /\ j \notin jobs
  BY DEF Enqueue, WrapperInv, Untouched
<1>2. CASE error /\ out' = PutAll("exception", {j})
           /\ consumer' = [consumer EXCEPT ![j] = "top"] /\ UNCHANGED <<jobs, held, notices>>
  <2>. DEFINE item == [i \in {j} |-> "exception"]
  <2>1. out \in [AsyncJob -> Seq(Item)] /\ \A i \in {j} : item[i] \in Item
    BY DEF WrapperInv, TypeOK, Item
  <2>2. out' = Put(item, {j}) /\ item[j] = "exception"
    BY <1>2 DEF PutAll
  <2>. HIDE DEF item
  <2>3. out' \in [AsyncJob -> Seq(Item)] /\ \A i \in AsyncJob \ {j} : out'[i] = out[i]
    <3>1. Put(item, {j}) \in [AsyncJob -> Seq(Item)]
      BY <2>1, PutAppends
    <3>2. \A i \in AsyncJob \ {j} : Put(item, {j})[i] = out[i]
      BY <2>1, PutAppends
    <3>. QED BY <2>2, <3>1, <3>2
  <2>4. Len(out'[j]) = 1 /\ out'[j][1] = "exception" /\ out'[j][Len(out'[j])] = "exception"
    <3>1. out'[j] = Append(<<>>, "exception")
      BY <1>1, <2>2 DEF Put
    <3>. QED BY <3>1
  <2>5. TypeOK' /\ Routed' /\ NoLostWakeup'
    BY <1>2, <2>3 DEF WrapperInv, TypeOK, Routed, NoLostWakeup, Enqueue
  <2>6. OneEnding'
    <3>. SUFFICES ASSUME NEW i \in AsyncJob, NEW n \in 1 .. Len(out'[i]),
                         out'[i][n] \in Ending
                  PROVE  n = Len(out'[i]) /\ i \notin jobs'
      BY DEF OneEnding
    <3>1. CASE i = j
      <4>1. Len(out'[i]) = 1 /\ i \notin jobs'
        BY <1>1, <1>2, <2>4, <3>1
      <4>. QED BY <4>1
    <3>2. CASE i # j
      BY <1>2, <2>3, <3>2 DEF WrapperInv, OneEnding
    <3>. QED BY <3>1, <3>2
  <2>7. Untouched'
    BY <1>2, <2>3 DEF WrapperInv, TypeOK, Untouched
  <2>8. Answerable'
    <3>. SUFFICES ASSUME NEW i \in AsyncJob, consumer'[i] \in {"top", "get", "body"},
                         i \notin jobs
                  PROVE  Len(out'[i]) > 0 /\ out'[i][Len(out'[i])] \in Ending
      BY <1>2 DEF Answerable
    <3>1. CASE i = j
      BY <2>4, <3>1 DEF Ending, Item
    <3>2. CASE i # j
      <4>1. out'[i] = out[i] /\ consumer'[i] = consumer[i]
        BY <1>2, <2>3, <3>2 DEF WrapperInv, TypeOK
      <4>. QED BY <4>1 DEF WrapperInv, Answerable
    <3>. QED BY <3>1, <3>2
  <2>. QED BY <2>5, <2>6, <2>7, <2>8 DEF WrapperInv
<1>3. CASE /\ ~ error /\ jobs' = jobs \cup {j} /\ held' = held \cup {j}
           /\ notices' = Notifying
           /\ consumer' = [consumer EXCEPT ![j] = "top"] /\ UNCHANGED out
  <2>1. TypeOK' /\ Routed' /\ NoLostWakeup'
    BY <1>3 DEF WrapperInv, TypeOK, Routed, NoLostWakeup, Enqueue, Notifying
  <2>2. OneEnding'
    BY <1>1, <1>3 DEF WrapperInv, OneEnding
  <2>3. Untouched' /\ Answerable'
    BY <1>3 DEF WrapperInv, TypeOK, Untouched, Answerable
  <2>. QED BY <2>1, <2>2, <2>3 DEF WrapperInv
<1>4. CASE /\ consumer' = [consumer EXCEPT ![j] = "refused"]
           /\ UNCHANGED <<jobs, held, notices, out>>
  <2>1. TypeOK' /\ Routed' /\ NoLostWakeup' /\ OneEnding'
    BY <1>4 DEF WrapperInv, TypeOK, Routed, NoLostWakeup, OneEnding, Enqueue
  <2>2. Untouched' /\ Answerable'
    BY <1>1, <1>4 DEF WrapperInv, TypeOK, Untouched, Answerable
  <2>. QED BY <2>1, <2>2 DEF WrapperInv
<1>. QED BY <1>2, <1>3, <1>4 DEF Enqueue

LEMMA CancelKeeps ==
  ASSUME WrapperInv, NEW j \in AsyncJob, Cancel(j)
  PROVE  WrapperInv'
<1>. DEFINE item == [i \in Woken(j) |-> "sentinel"]
<1>1. /\ Woken(j) \in SUBSET jobs
      /\ \A i \in Woken(j) : item[i] \in Item /\ item[i] \in Ending
  BY DEF Woken, Item, Ending
<1>2. /\ out' = Put(item, Woken(j)) /\ consumer' = consumer
      /\ jobs' = jobs \ {i \in Woken(j) : item[i] \in Ending}
  BY <1>1 DEF Cancel, PutAll, Woken
<1>. HIDE DEF item
<1>3. out' \in [AsyncJob -> Seq(Item)] /\ OneEnding' /\ Untouched' /\ Answerable'
  BY <1>1, <1>2, EndingsPut
<1>4. TypeOK' /\ Routed' /\ NoLostWakeup'
  BY <1>3 DEF WrapperInv, TypeOK, Routed, NoLostWakeup, Cancel
<1>. QED BY <1>3, <1>4 DEF WrapperInv

LEMMA ClosingKeeps ==
  ASSUME WrapperInv, Close \/ Closed
  PROVE  WrapperInv'
<1>1. CASE Close
  <2>1. OneEnding' /\ Untouched' /\ Answerable'
    BY <1>1, QueuesFramed DEF Close
  <2>2. TypeOK' /\ Routed' /\ NoLostWakeup'
    BY <1>1 DEF WrapperInv, TypeOK, Routed, NoLostWakeup, Close
  <2>. QED BY <2>1, <2>2 DEF WrapperInv
<1>2. CASE Closed
  <2>. DEFINE item == [i \in jobs |-> "sentinel"]
  <2>1. \A i \in jobs : item[i] \in Item /\ item[i] \in Ending
    BY DEF Item, Ending
  <2>2. /\ out' = Put(item, jobs) /\ consumer' = consumer
        /\ jobs' = jobs \ {i \in jobs : item[i] \in Ending}
    BY <1>2, <2>1 DEF Closed, PutAll
  <2>. HIDE DEF item
  <2>3. out' \in [AsyncJob -> Seq(Item)] /\ OneEnding' /\ Untouched' /\ Answerable'
    BY <2>1, <2>2, EndingsPut
  <2>4. TypeOK' /\ Routed' /\ NoLostWakeup'
    BY <1>2, <2>3 DEF WrapperInv, TypeOK, Routed, NoLostWakeup, Closed
  <2>. QED BY <2>3, <2>4 DEF WrapperInv
<1>. QED BY <1>1, <1>2

-----------------------------------------------------------------------------
(* Consumers.                                                              *)

\* Taking the head leaves the last item in place unless it was the only one.
LEMMA TailFacts ==
  ASSUME NEW s \in Seq(Item), s # <<>>
  PROVE  /\ Tail(s) \in Seq(Item) /\ Head(s) \in Item /\ Head(s) = s[1]
         /\ Len(s) > 0 /\ Len(Tail(s)) = Len(s) - 1
         /\ \A n \in 1 .. Len(Tail(s)) : Tail(s)[n] = s[n + 1]
OBVIOUS

LEMMA TakeKeeps ==
  ASSUME WrapperInv, NEW j \in AsyncJob, consumer[j] \in {"top", "get"}, Take(j),
         UNCHANGED <<jobs, held, error, iteration, cancelling, notices, closing,
                     cancelled, left>>
  PROVE  WrapperInv'
<1>. DEFINE q == out[j]
<1>1. /\ q \in Seq(Item) /\ q # <<>>
      /\ \A i \in AsyncJob \ {j} : out'[i] = out[i] /\ consumer'[i] = consumer[i]
      /\ out'[j] = Tail(q)
      /\ consumer'[j] \in {"body", "last", "out"}
      /\ consumer'[j] = "body" => Head(q) = "result"
      /\ out' \in [AsyncJob -> Seq(Item)]
      /\ consumer' \in [AsyncJob -> {"none", "refused", "top", "get", "body", "last", "out"}]
  BY TailFacts DEF WrapperInv, TypeOK, Take
<1>2. /\ Len(q) > 0 /\ Len(out'[j]) = Len(q) - 1
      /\ Head(q) = q[1] /\ Len(q) \in Nat
      /\ \A n \in 1 .. Len(out'[j]) : out'[j][n] = q[n + 1]
  BY <1>1, TailFacts
<1>3. TypeOK' /\ Routed' /\ NoLostWakeup'
  BY <1>1 DEF WrapperInv, TypeOK, Routed, NoLostWakeup
<1>4. OneEnding'
  <2>. SUFFICES ASSUME NEW i \in AsyncJob, NEW n \in 1 .. Len(out'[i]),
                       out'[i][n] \in Ending
                PROVE  n = Len(out'[i]) /\ i \notin jobs
    BY DEF OneEnding
  <2>1. CASE i = j
    <3>1. n + 1 \in 1 .. Len(q) /\ q[n + 1] \in Ending
      BY <1>2, <2>1
    <3>2. n + 1 = Len(q) /\ j \notin jobs
      BY <3>1 DEF WrapperInv, OneEnding
    <3>. QED BY <1>2, <2>1, <3>2
  <2>2. CASE i # j
    BY <1>1, <2>2 DEF WrapperInv, OneEnding
  <2>. QED BY <2>1, <2>2
<1>5. Untouched'
  BY <1>1 DEF WrapperInv, Untouched
<1>6. Answerable'
  <2>. SUFFICES ASSUME NEW i \in AsyncJob, consumer'[i] \in {"top", "get", "body"},
                       i \notin jobs
                PROVE  Len(out'[i]) > 0 /\ out'[i][Len(out'[i])] \in Ending
    BY DEF Answerable
  <2>1. CASE i = j
    <3>1. q[Len(q)] \in Ending /\ q[1] = "result"
      BY <1>1, <1>2, <2>1 DEF WrapperInv, Answerable
    <3>2. Len(q) > 1
      BY <1>2, <3>1 DEF Ending
    <3>. QED BY <1>2, <2>1, <3>1, <3>2
  <2>2. CASE i # j
    BY <1>1, <2>2 DEF WrapperInv, Answerable
  <2>. QED BY <2>1, <2>2
<1>. QED BY <1>3, <1>4, <1>5, <1>6 DEF WrapperInv

\* A consumer moves on without touching its queue.
LEMMA MovesKeep ==
  ASSUME WrapperInv, NEW j \in AsyncJob, NEW place \in {"top", "get", "out"},
         consumer[j] \in {"top", "get", "body", "last"},
         place \in {"top", "get"} => consumer[j] \in {"top", "get", "body"},
         consumer' = [consumer EXCEPT ![j] = place],
         UNCHANGED <<jobs, held, error, iteration, cancelling, notices, closing, out,
                     cancelled, left>>
  PROVE  WrapperInv'
<1>1. TypeOK' /\ Routed' /\ NoLostWakeup' /\ OneEnding'
  BY DEF WrapperInv, TypeOK, Routed, NoLostWakeup, OneEnding
<1>2. Untouched' /\ Answerable'
  BY DEF WrapperInv, TypeOK, Untouched, Answerable
<1>. QED BY <1>1, <1>2 DEF WrapperInv

LEMMA ConsumerKeeps ==
  ASSUME WrapperInv, NEW j \in AsyncJob, Consume(j) \/ Abandon(j)
  PROVE  WrapperInv'
<1>1. CASE consumer[j] \in {"top", "get"} /\ Take(j) /\ Consume(j)
  BY <1>1, TakeKeeps DEF Consume
<1>2. CASE /\ consumer[j] = "top" /\ consumer' = [consumer EXCEPT ![j] = "out"]
           /\ UNCHANGED out /\ Consume(j)
  BY <1>2, MovesKeep DEF Consume
<1>3. CASE /\ consumer[j] = "top" /\ consumer' = [consumer EXCEPT ![j] = "get"]
           /\ UNCHANGED out /\ Consume(j)
  BY <1>3, MovesKeep DEF Consume
<1>4. CASE /\ consumer[j] \in {"body", "last"}
           /\ consumer' = [consumer EXCEPT ![j] = IF @ = "body" THEN "top" ELSE "out"]
           /\ UNCHANGED out /\ Consume(j)
  <2>1. CASE consumer[j] = "body"
    BY <1>4, <2>1, MovesKeep DEF Consume
  <2>2. CASE consumer[j] = "last"
    BY <1>4, <2>2, MovesKeep DEF Consume
  <2>. QED BY <1>4, <2>1, <2>2
<1>5. CASE Abandon(j)
  BY <1>5, MovesKeep DEF Abandon
<1>. QED BY <1>1, <1>2, <1>3, <1>4, <1>5 DEF Consume

-----------------------------------------------------------------------------
(* The invariant and what follows from it.                                 *)

\* Whatever the tasks do, and in any order, the wrapper's books stay in this shape.
THEOREM WrapperKept == Spec => []WrapperInv
<1>1. Init => WrapperInv
  <2>. SUFFICES ASSUME Init PROVE WrapperInv
    OBVIOUS
  <2>1. TypeOK
    <3>1. <<>> \in Seq(Item) /\ Tokens \in 0 .. Tokens
      BY TokensAssumption
    <3>. QED BY <3>1 DEF Init, TypeOK
  <2>2. Routed /\ NoLostWakeup /\ Untouched /\ Answerable
    BY DEF Init, Routed, NoLostWakeup, Untouched, Answerable
  <2>3. OneEnding
    BY DEF Init, OneEnding
  <2>. QED BY <2>1, <2>2, <2>3 DEF WrapperInv
<1>2. WrapperInv /\ [Next]_vars => WrapperInv'
  <2>. SUFFICES ASSUME WrapperInv, [Next]_vars PROVE WrapperInv'
    OBVIOUS
  <2>1. CASE Iterate
    BY <2>1, IterateKeeps
  <2>2. CASE IterateRaises
    BY <2>2, BrokenKeeps DEF IterateRaises
  <2>3. CASE Park \/ Cancelled \/ NotifyCondition
    BY <2>3, TaskKeeps
  <2>4. CASE Idle
    BY <2>4, IdleKeeps
  <2>5. CASE Close \/ Closed
    BY <2>5, ClosingKeeps
  <2>6. CASE \E j \in AsyncJob : Enqueue(j) \/ Cancel(j) \/ Consume(j) \/ Abandon(j)
    BY <2>6, EnqueueKeeps, CancelKeeps, ConsumerKeeps
  <2>7. CASE UNCHANGED vars
    <3>1. OneEnding' /\ Untouched' /\ Answerable'
      BY <2>7, QueuesFramed DEF vars
    <3>2. TypeOK' /\ Routed' /\ NoLostWakeup'
      BY <2>7 DEF vars, WrapperInv, TypeOK, Routed, NoLostWakeup
    <3>. QED BY <3>1, <3>2 DEF WrapperInv
  <2>. QED BY <2>1, <2>2, <2>3, <2>4, <2>5, <2>6, <2>7 DEF Next, Iteration
<1>. QED BY <1>1, <1>2, PTL DEF Spec

\* No queue, flag or counter of the wrapper ever leaves its type.
THEOREM WrapperTyped == Spec => []TypeOK
<1>1. WrapperInv => TypeOK
  BY DEF WrapperInv
<1>. QED BY <1>1, WrapperKept, PTL

\* The wrapper routes results for exactly the jobs the generator has.
THEOREM AlwaysRouted == Spec => []Routed
<1>1. WrapperInv => Routed
  BY DEF WrapperInv
<1>. QED BY <1>1, WrapperKept, PTL

\* No consumer's queue ever gets a second ending, or a result after its ending.
THEOREM EndsOnce == Spec => []OneEnding
<1>1. WrapperInv => OneEnding
  BY DEF WrapperInv
<1>. QED BY <1>1, WrapperKept, PTL

\* A consumer blocked on an empty queue always has a job that is still tracked.
THEOREM NobodyEverForgotten == Spec => []NobodyForgotten
<1>1. WrapperInv => NobodyForgotten
  BY DEF WrapperInv, Answerable, NobodyForgotten
<1>. QED BY <1>1, WrapperKept, PTL

\* The iteration task never sleeps while there is work and no notification under way.
THEOREM WakeupsKept == Spec => []NoLostWakeup
<1>1. WrapperInv => NoLostWakeup
  BY DEF WrapperInv
<1>. QED BY <1>1, WrapperKept, PTL
=============================================================================
