------------------------------ MODULE JobQueue ------------------------------
(***************************************************************************)
(* Which job runs when: the queues of Generator (exllamav3/generator/      *)
(* generator.py), that is enqueue, cancel, iterate_start_jobs, the prefill *)
(* round of iterate, and what iterate_gen does to the queues: completion   *)
(* and requeueing.  Pages are counted only (PagedJobs has them), and jobs  *)
(* share none.                                                             *)
(*                                                                         *)
(* A job id is a slot: once its job is out of the queues, a caller may     *)
(* submit another one under it, so that jobs keep arriving for ever.       *)
(***************************************************************************)
EXTENDS Naturals, Sequences, FiniteSets, SequencesExt, Sublist

CONSTANTS
  Job,            \* slots for jobs
  Kinds,          \* what a submitted job may look like
  MaxPages,       \* pages of the cache
  MaxBatch,       \* max_batch_size
  FullChunk,      \* max_chunk_size
  SharedChunk,    \* shared_chunk_size, in the same unit
  Cooldown,       \* prefill_cooldown
  DefaultSkips,   \* max_skips of a Job constructed without it
  Turns           \* bound: prefill_rotation is kept modulo Turns

Kind ==
  [ pages    : Nat \ {0},    \* pages it occupies
    width    : Nat \ {0},    \* its sequences
    prompt   : Nat,          \* length of its prompt, in the unit of the chunks
    tokens   : Nat \ {0},    \* max_new_tokens
    segment  : Nat,          \* tokens until it requeues, 0 for never
    maxSkips : Nat ]

ASSUME KindsAssumption == \A kind \in Kinds :
  /\ kind \in Kind
  /\ kind.pages <= MaxPages /\ kind.width <= MaxBatch   \* else prepare_for_queue refuses it
  /\ kind.segment > 0 => kind.width = 1                 \* multi-sequence jobs never requeue
ASSUME ChunksAssumption ==
  /\ SharedChunk \in Nat \ {0} /\ FullChunk \in Nat /\ SharedChunk <= FullChunk
  /\ Cooldown \in Nat /\ DefaultSkips \in Nat
ASSUME SizesAssumption == MaxPages \in Nat /\ MaxBatch \in Nat

\* The rotation is only ever used modulo the number of prompts waiting.
ASSUME TurnsAssumption == Turns \in Nat \ {0} /\ \A n \in 1 .. MaxBatch : Turns % n = 0

VARIABLES
  pending,    \* pending_jobs
  active,     \* active_jobs
  job,        \* the Job objects
  cooldown,   \* prefill_cooldown_left
  rotation,   \* prefill_rotation
  pc,         \* where iterate() is
  queue,      \* the rest of the copy of pending_jobs that iterate_start_jobs walks
  skipped     \* skipped_jobs

vars == <<pending, active, job, cooldown, rotation, pc, queue, skipped>>

Fresh ==
  [ pages |-> 1, width |-> 1, prompt |-> 0, tokens |-> 1, segment |-> 0,
    maxSkips |-> 0, left |-> 0, skips |-> 0 ]

Pending == ToSet(pending)
Active == ToSet(active)

\* The pages of the active jobs, and their sequences
PagesUsed == Cardinality(UNION {{j} \X (1 .. job[j].pages) : j \in Active})
BatchSize == Cardinality(UNION {{j} \X (1 .. job[j].width) : j \in Active})

Ingesting(j) == j \in Active /\ job[j].prompt > 0

Init ==
  /\ pending = <<>> /\ active = <<>>
  /\ job = [j \in Job |-> Fresh]
  /\ cooldown = 0 /\ rotation = 0
  /\ pc = "idle" /\ queue = <<>> /\ skipped = {}

-----------------------------------------------------------------------------
(* Callers.                                                                *)

\* prepare_for_queue: left counts down the segment, skips up
Submitted(kind) ==
  [Fresh EXCEPT !.pages = kind.pages, !.width = kind.width, !.prompt = kind.prompt,
                !.tokens = kind.tokens, !.segment = kind.segment, !.left = kind.segment,
                !.maxSkips = kind.maxSkips]

Enqueue(j) ==
  /\ pc = "idle"
  /\ j \notin Pending \cup Active
  /\ \E kind \in Kinds :
       job' = [job EXCEPT ![j] = Submitted(kind)]
  /\ pending' = Append(pending, j)
  /\ UNCHANGED <<active, cooldown, rotation, pc, queue, skipped>>

Cancel(j) ==
  /\ pc = "idle"
  /\ j \in Pending \cup Active
  /\ pending' = Dropped(pending, {j})
  /\ active' = Dropped(active, {j})
  /\ job' = [job EXCEPT ![j] = Fresh]
  /\ UNCHANGED <<cooldown, rotation, pc, queue, skipped>>

\* clear_queue: the turns and the cooldown stand
ClearQueue ==
  /\ pc = "idle"
  /\ Pending \cup Active # {}
  /\ pending' = <<>> /\ active' = <<>>
  /\ job' = [j \in Job |-> Fresh]
  /\ UNCHANGED <<cooldown, rotation, pc, queue, skipped>>

-----------------------------------------------------------------------------
(* iterate_start_jobs.                                                     *)

Iterate ==
  /\ pc = "idle"
  /\ Pending \cup Active # {}
  /\ queue' = IF PagesUsed < MaxPages /\ BatchSize < MaxBatch THEN pending ELSE <<>>
  /\ skipped' = {}
  /\ pc' = "start"
  /\ UNCHANGED <<pending, active, job, cooldown, rotation>>

FitsPages(j) == job[j].pages <= MaxPages - PagesUsed
Fits(j) == job[j].width + BatchSize <= MaxBatch /\ job[j].pages <= MaxPages - PagesUsed

\* "skipped too many times": nothing may start past such a job
StalledLate(S) == \E j \in S : job[j].skips > job[j].maxSkips
Stalled(S) == \E j \in S : job[j].skips >= job[j].maxSkips

Skip ==
  /\ pc = "start" /\ queue # <<>>
  /\ ~ Fits(Head(queue))
  /\ skipped' = skipped \cup {Head(queue)}
  /\ queue' = Tail(queue)
  /\ UNCHANGED <<pending, active, job, cooldown, rotation, pc>>

Stall ==
  /\ pc = "start" /\ queue # <<>>
  /\ Fits(Head(queue)) /\ Stalled(skipped)
  /\ queue' = <<>>
  /\ UNCHANGED <<pending, active, job, cooldown, rotation, pc, skipped>>

\* The next job that fits leaves the queue, past the ones skipped
Uncounted == job
Overtaken == [i \in Job |-> IF i \in skipped THEN [job[i] EXCEPT !.skips = @ + 1] ELSE job[i]]

StartJob ==
  /\ pc = "start" /\ queue # <<>>
  /\ Fits(Head(queue)) /\ ~ Stalled(skipped)
  /\ pending' = Dropped(pending, {Head(queue)})
  /\ queue' = Tail(queue)
  /\ \/ /\ active' = Append(active, Head(queue))
        /\ job' = Overtaken
     \/ /\ UNCHANGED active      \* allocate_pages raised: reap_failed_job
        /\ job' = [Overtaken EXCEPT ![Head(queue)] = Fresh]
  /\ UNCHANGED <<cooldown, rotation, pc, skipped>>

-----------------------------------------------------------------------------
(* The prefill round.                                                      *)

Prefilling == Picked(active, {i \in DOMAIN active : job[active[i]].prompt > 0})

\* Some job is generating while another has prompt left, and the settings care
Contended ==
  /\ Prefilling # <<>> /\ Len(Prefilling) < Len(active)
  /\ SharedChunk < FullChunk \/ Cooldown > 0

\* The jobs whose prefill() computes something in this round
LatestServed == {Last(Prefilling)}
Selected == {Prefilling[(rotation % Len(Prefilling)) + 1]}
Served == IF ~ Contended THEN ToSet(Prefilling) ELSE IF cooldown > 0 THEN {} ELSE Selected

Chunk == IF Contended /\ SharedChunk < FullChunk THEN SharedChunk ELSE FullChunk

CooldownNext == IF ~ Contended THEN 0 ELSE IF cooldown > 0 THEN cooldown - 1 ELSE Cooldown

\* A job whose prefill raises is reaped; the others go on
PrefillRound ==
  /\ pc = "start" /\ queue = <<>>
  /\ \E failed \in SUBSET Served :
       /\ active' = Dropped(active, failed)
       /\ job' = [j \in Job |->
            IF j \in failed THEN Fresh
            ELSE IF j \in Served
                 THEN [job[j] EXCEPT !.prompt = IF @ > Chunk THEN @ - Chunk ELSE 0]
                 ELSE job[j]]
  /\ cooldown' = CooldownNext
  /\ rotation' = IF Contended /\ cooldown = 0 THEN (rotation + 1) % Turns ELSE rotation
  /\ pc' = "generate"
  /\ skipped' = {}
  /\ UNCHANGED <<pending, queue>>

-----------------------------------------------------------------------------
(* iterate_gen: one token for every job whose prompt is ingested.          *)

Ready == {j \in Active : job[j].prompt = 0}

\* Those that have to requeue unless they end: their segment is used up
SegmentDone == {j \in Ready : job[j].left = 1}

\* A requeued job is constructed anew: its prompt is the whole sequence, of which it
\* may have to ingest the end again, it takes another page for its next segment, and
\* max_skips is not carried over
Requeued(J, replay) ==
  [J EXCEPT !.prompt = replay, !.tokens = @ - 1, !.left = J.segment,
            !.pages = IF @ < MaxPages THEN @ + 1 ELSE @,
            !.maxSkips = DefaultSkips, !.skips = 0]

\* Requeued jobs go to the front, each before the ones inserted earlier
AtFront(jobs) == Reverse(jobs) \o pending

\* The jobs that leave the batch
EndedOnly(ended, requeued) == ended
EndedOrRequeued(ended, requeued) == ended \cup requeued

Generate ==
  /\ pc = "generate"
  /\ \E ended \in SUBSET Ready :
       /\ {j \in Ready : job[j].tokens = 1} \subseteq ended
       /\ LET requeued == SegmentDone \ ended IN
          \E replay \in [requeued -> {0, 1}] :
            /\ active' = Dropped(active, EndedOrRequeued(ended, requeued))
            /\ pending' = AtFront(Picked(active, {i \in DOMAIN active : active[i] \in requeued}))
            /\ job' = [j \in Job |->
                 CASE j \in ended    -> Fresh
                   [] j \in requeued -> Requeued(job[j], replay[j])
                   [] j \in Ready \ (ended \cup requeued) ->
                        [job[j] EXCEPT !.tokens = @ - 1, !.left = IF @ = 0 THEN 0 ELSE @ - 1]
                   [] OTHER -> job[j]]
  /\ pc' = "idle"
  /\ UNCHANGED <<cooldown, rotation, queue, skipped>>

-----------------------------------------------------------------------------
Step == Iterate \/ Skip \/ Stall \/ StartJob \/ PrefillRound \/ Generate

Calls == ClearQueue \/ \E j \in Job : Enqueue(j) \/ Cancel(j)

Next == Calls \/ Step

\* Callers go on iterating for as long as jobs remain, and iterate() returns.
Spec == Init /\ [][Next]_vars /\ WF_vars(Step)

-----------------------------------------------------------------------------
(* Properties.                                                             *)

\* Every variable keeps the type its code counterpart has, and no job is in the queues
\* twice: not after a requeue, a failed start or a cancel.
TypeOK ==
  /\ IsInjective(pending \o active)
  /\ pending \in Seq(Job) /\ active \in Seq(Job) /\ queue \in Seq(Job)
  /\ \A j \in Job : job[j] \in
       [ pages : Nat \ {0}, width : Nat \ {0}, prompt : Nat, tokens : Nat \ {0},
         segment : Nat, maxSkips : Nat, left : Nat, skips : Nat ]
  /\ cooldown \in 0 .. Cooldown /\ rotation \in 0 .. Turns - 1
  /\ pc \in {"idle", "start", "generate"}
  /\ skipped \subseteq Job

\* Started jobs fit the batch and the cache together, however many start, fail
\* or requeue in one iteration.
WithinCapacity == BatchSize <= MaxBatch /\ PagesUsed <= MaxPages

\* No job waits in the queue for ever, though smaller ones keep arriving.
NeverPassedOverForever == \A j \in Job : j \in Pending ~> j \notin Pending

\* "With several prompts waiting, they take turns" (prefill_cooldown): every
\* prompt is ingested in the end, though others keep arriving.
PromptsTakeTurns == \A j \in Job : Ingesting(j) ~> ~ Ingesting(j)

\* Once a waiting job has been skipped max_skips times, nothing behind it in the
\* queue starts before it.
Ahead(i, j) ==
  \E m, n \in DOMAIN pending : m < n /\ pending[m] = i /\ pending[n] = j
NotOvertaken ==
  [][\A i, j \in Job :
       i \in Active' \ Active /\ j \in Pending /\ job[j].skips >= job[j].maxSkips
         => i = j \/ Ahead(i, j)]_vars
=============================================================================
