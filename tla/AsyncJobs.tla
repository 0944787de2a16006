----------------------------- MODULE AsyncJobs -----------------------------
(***************************************************************************)
(* The asyncio wrapper (exllamav3/generator/async_generator.py): one task  *)
(* iterates the generator for all jobs and puts what comes out into the    *)
(* unbounded queue of each job's consumer; callers create and cancel jobs, *)
(* consumers read their queue, and close() ends it all.                    *)
(*                                                                         *)
(* The tasks share one thread, so what runs between two awaits that        *)
(* suspend is one action.  The condition's lock is never held across such  *)
(* an await other than its own wait(), so it does not appear.  The         *)
(* generator is the set of jobs in its queues (JobQueue has the queues).   *)
(***************************************************************************)
EXTENDS Naturals, Sequences

CONSTANTS
  AsyncJob,    \* the AsyncJobs ever created
  Tokens       \* bound: results a job yields before the one with eos

ASSUME TokensAssumption == Tokens \in Nat

VARIABLES
  jobs,        \* AsyncGenerator.jobs
  held,        \* pending_jobs and active_jobs of the Generator
  error,       \* whether AsyncGenerator.error is set
  iteration,   \* where _run_iteration is
  cancelling,  \* iteration_task.cancel() is called
  notices,     \* _notify_condition tasks that have not run
  closing,     \* where close() is
  out,         \* AsyncJob.queue
  consumer,    \* where each __aiter__ is
  cancelled,   \* AsyncJob.cancelled
  left         \* results without eos each job may still yield

vars == <<jobs, held, error, iteration, cancelling, notices, closing, out, consumer,
          cancelled, left>>

\* A result without eos, the one with eos, an exception, _CANCELLED_SENTINEL
Item == {"result", "eos", "exception", "sentinel"}
Ending == Item \ {"result"}

\* put_result(item[j]) for every j in S
Put(item, S) == [j \in AsyncJob |-> IF j \in S THEN Append(out[j], item[j]) ELSE out[j]]
PutAll(x, S) == Put([j \in S |-> x], S)

Init ==
  /\ jobs = {} /\ held = {} /\ error = FALSE
  /\ iteration = "ready" /\ cancelling = FALSE /\ notices = 0 /\ closing = "open"
  /\ out = [j \in AsyncJob |-> <<>>]
  /\ consumer = [j \in AsyncJob |-> "none"]
  /\ cancelled = [j \in AsyncJob |-> FALSE]
  /\ left = [j \in AsyncJob |-> Tokens]

-----------------------------------------------------------------------------
(* The iteration task.                                                     *)

Awake == iteration = "ready" /\ ~ cancelling

\* condition.wait()
Park ==
  /\ Awake /\ jobs = {}
  /\ iteration' = "parked"
  /\ UNCHANGED <<jobs, held, error, cancelling, notices, closing, out, consumer,
                 cancelled, left>>

\* deliver_results: of a failure the consumer gets the exception, and a job whose eos
\* or failure came out leaves the map
AsDict(came) == came
Delivered(came) == IF came = "error" THEN "exception" ELSE came
AllTracked(over) == jobs
StillTracked(over) == jobs \ over

\* iterate(): each job in the generator's queues may yield a result, end or fail
Iterate ==
  /\ Awake /\ jobs # {}
  /\ \E came \in [held -> {"nothing", "result", "eos", "error"}] :
       LET some == {j \in held : came[j] # "nothing"}
           over == {j \in held : came[j] \in {"eos", "error"}} IN
       /\ \A j \in held : came[j] = "result" => left[j] > 0
       /\ held' = held \ over
       /\ out' = Put([j \in some |-> Delivered(came[j])], some \cap jobs)
       /\ jobs' = StillTracked(over)
       /\ left' = [j \in AsyncJob |->
                     IF j \in some /\ came[j] = "result" THEN left[j] - 1 ELSE left[j]]
  /\ UNCHANGED <<error, iteration, cancelling, notices, closing, consumer, cancelled>>

\* Who is told when an exception ends the task
StillHeld == jobs \cap held'
Everyone == jobs

Broken ==
  /\ error' = TRUE
  /\ iteration' = "ended"
  /\ out' = PutAll("exception", Everyone)
  /\ jobs' = {}
  /\ UNCHANGED <<cancelling, notices, closing, consumer, cancelled, left>>

\* iterate() raises: the results of this call are lost, some of the jobs that ended
IterateRaises ==
  /\ Awake /\ jobs # {}
  /\ held' \in SUBSET held
  /\ Broken

\* The wait times out while the disk tier has pages to flush: idle_work, which may raise
Idle ==
  /\ iteration = "parked" /\ ~ cancelling
  /\ \/ /\ iteration' = "ready"
        /\ UNCHANGED <<jobs, held, error, cancelling, notices, closing, out, consumer,
                       cancelled, left>>
     \/ /\ jobs = {} /\ UNCHANGED held
        /\ Broken

\* CancelledError, at whichever await the task is
WhenReady == iteration = "ready"
AtAnyAwait == iteration # "ended"

Cancelled ==
  /\ AtAnyAwait /\ cancelling
  /\ iteration' = "ended"
  /\ UNCHANGED <<jobs, held, error, cancelling, notices, closing, out, consumer,
                 cancelled, left>>

NotifyCondition ==
  /\ notices > 0
  /\ notices' = notices - 1
  /\ iteration' = IF iteration = "parked" THEN "ready" ELSE iteration
  /\ UNCHANGED <<jobs, held, error, cancelling, closing, out, consumer, cancelled, left>>

-----------------------------------------------------------------------------
(* Callers.                                                                *)

\* create_task(_notify_condition())
Silent == notices
Notifying == notices + 1

\* AsyncJob(...): enqueue.  On a generator that is closed it would never be served:
\* callers do not.
Enqueue(j) ==
  /\ consumer[j] = "none" /\ closing # "closed"
  /\ \/ /\ error
        /\ out' = PutAll("exception", {j})
        /\ consumer' = [consumer EXCEPT ![j] = "top"]
        /\ UNCHANGED <<jobs, held, notices>>
     \/ /\ ~ error
        /\ jobs' = jobs \cup {j}
        /\ held' = held \cup {j}
        /\ notices' = Notifying
        /\ consumer' = [consumer EXCEPT ![j] = "top"]
        /\ UNCHANGED out
     \/ /\ ~ error     \* the generator refuses it: the constructor raises
        /\ consumer' = [consumer EXCEPT ![j] = "refused"]
        /\ UNCHANGED <<jobs, held, notices, out>>
  /\ UNCHANGED <<error, iteration, cancelling, closing, cancelled, left>>

\* Whom cancel() wakes: nobody twice
WakeNone(j) == {}
WakeAlways(j) == {j}
Woken(j) == {j} \cap jobs

\* AsyncJob.cancel, from any task
Cancel(j) ==
  /\ consumer[j] \notin {"none", "refused"} /\ ~ cancelled[j]
  /\ held' = IF error THEN held ELSE held \ {j}
  /\ out' = PutAll("sentinel", Woken(j))
  /\ jobs' = jobs \ {j}
  /\ cancelled' = [cancelled EXCEPT ![j] = TRUE]
  /\ UNCHANGED <<error, iteration, cancelling, notices, closing, consumer, left>>

\* close() up to the await of the iteration task, and the rest.  Its own notification
\* finds a task that the cancellation has already woken.
Close ==
  /\ closing = "open"
  /\ cancelling' = (iteration # "ended")
  /\ closing' = "waiting"
  /\ UNCHANGED <<jobs, held, error, iteration, notices, out, consumer, cancelled, left>>

Closed ==
  /\ closing = "waiting" /\ iteration = "ended"
  /\ out' = PutAll("sentinel", jobs)
  /\ jobs' = {}
  /\ closing' = "closed"
  /\ UNCHANGED <<held, error, iteration, cancelling, notices, consumer, cancelled, left>>

-----------------------------------------------------------------------------
(* Consumers: __aiter__.                                                   *)

\* The head of the queue is taken: the loop's body runs on a result, else it is over
Take(j) ==
  /\ out[j] # <<>>
  /\ out' = [out EXCEPT ![j] = Tail(@)]
  /\ consumer' = [consumer EXCEPT ![j] =
       CASE Head(out[j]) = "result" -> "body"
         [] Head(out[j]) = "eos"    -> "last"
         [] OTHER                   -> "out"]

Consume(j) ==
  /\ \/ /\ consumer[j] = "top" /\ cancelled[j]
        /\ consumer' = [consumer EXCEPT ![j] = "out"]
        /\ UNCHANGED out
     \/ /\ consumer[j] = "top" /\ ~ cancelled[j] /\ out[j] = <<>>
        /\ consumer' = [consumer EXCEPT ![j] = "get"]
        /\ UNCHANGED out
     \/ /\ consumer[j] = "top" /\ ~ cancelled[j]
        /\ Take(j)
     \/ /\ consumer[j] = "get"
        /\ Take(j)
     \/ /\ consumer[j] \in {"body", "last"}
        /\ consumer' = [consumer EXCEPT ![j] = IF @ = "body" THEN "top" ELSE "out"]
        /\ UNCHANGED out
  /\ UNCHANGED <<jobs, held, error, iteration, cancelling, notices, closing, cancelled, left>>

\* A consumer breaks out of its loop, or its task is cancelled
Abandon(j) ==
  /\ consumer[j] \in {"top", "get", "body", "last"}
  /\ consumer' = [consumer EXCEPT ![j] = "out"]
  /\ UNCHANGED <<jobs, held, error, iteration, cancelling, notices, closing, out,
                 cancelled, left>>

-----------------------------------------------------------------------------
Iteration == Park \/ Iterate \/ IterateRaises \/ Cancelled

Next ==
  \/ Iteration \/ Idle \/ NotifyCondition \/ Close \/ Closed
  \/ \E j \in AsyncJob : Enqueue(j) \/ Cancel(j) \/ Consume(j) \/ Abandon(j)

\* The loop runs what is ready; every job in the queues ends after finitely many
\* iterations (JobQueue); the loop bodies return.  Nobody need cancel or close.
Fairness ==
  /\ WF_vars(Iteration) /\ WF_vars(NotifyCondition) /\ WF_vars(Closed)
  /\ \A j \in AsyncJob :
       WF_vars(Consume(j)) /\ SF_vars(Iterate /\ j \in held /\ j \notin held')

Spec == Init /\ [][Next]_vars /\ Fairness

-----------------------------------------------------------------------------
(* Properties.                                                             *)

\* Every variable keeps the type its code counterpart has.
TypeOK ==
  /\ jobs \subseteq AsyncJob /\ held \subseteq AsyncJob
  /\ error \in BOOLEAN /\ cancelling \in BOOLEAN /\ notices \in Nat
  /\ iteration \in {"ready", "parked", "ended"}
  /\ closing \in {"open", "waiting", "closed"}
  /\ out \in [AsyncJob -> Seq(Item)]
  /\ consumer \in [AsyncJob -> {"none", "refused", "top", "get", "body", "last", "out"}]
  /\ cancelled \in [AsyncJob -> BOOLEAN]
  /\ left \in [AsyncJob -> 0 .. Tokens]

\* While the wrapper lives, it routes results for exactly the jobs in the generator's
\* queues: none runs unheard, and none is awaited that will never run.
Routed == ~ error /\ closing # "closed" => jobs = held

\* Exactly one ending reaches each consumer: nothing is put after an ending, and a job
\* still tracked has had none.
OneEnding ==
  \A j \in AsyncJob : \A n \in 1 .. Len(out[j]) :
    out[j][n] \in Ending => n = Len(out[j]) /\ j \notin jobs

\* A consumer blocked in queue.get() on a queue that is empty still has its job tracked,
\* so that somebody will wake it: "rather than waiting forever for results that will no
\* longer be produced".
NobodyForgotten ==
  \A j \in AsyncJob : consumer[j] = "get" /\ out[j] = <<>> => j \in jobs

\* The iteration task never sleeps on work without a notification under way.
NoLostWakeup == iteration = "parked" /\ jobs # {} => notices > 0 \/ cancelling

\* Nobody is left waiting, however the job, the generator, a cancellation and close()
\* interleave: every consumer that reads its job leaves its loop in the end, and close()
\* returns.
EveryoneReturns ==
  /\ \A j \in AsyncJob : consumer[j] = "top" ~> consumer[j] = "out"
  /\ closing = "waiting" ~> closing = "closed"
=============================================================================
