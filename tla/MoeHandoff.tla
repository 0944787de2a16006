---------------------------- MODULE MoeHandoff ----------------------------
(***************************************************************************)
(* The handoff between the model's forward pass and the process that       *)
(* computes offloaded experts on the CPU (model/moe_cpu_host.py and        *)
(* exllamav3_ext/cpu/moe_handoff.cu).                                      *)
(*                                                                         *)
(* Four kinds of actor share a region of pinned memory.  The host          *)
(* publishes job descriptors in two rings and enqueues work on the GPU     *)
(* streams, which it never waits for, except that a streamed prefill reads *)
(* its expert counts back.  Each device has a compute stream and a copy    *)
(* stream; a stream executes its operations in order and waits at flags    *)
(* and events.  The worker process has a compute loop and a stager thread. *)
(* A watchdog thread of the host looks after the worker.                   *)
(*                                                                         *)
(* Data are the sequence numbers of the jobs they belong to.  Flags have W *)
(* values and are compared cyclically.                                     *)
(***************************************************************************)
EXTENDS Integers, Sequences, FiniteSets, Functions, SequencesExt

CONSTANTS
  Device,       \* the GPUs
  Layers,       \* a forward pass: the device of each offloaded layer, in order
  Shapes,       \* what a layer may ask for: [chunks, kind (plain, or idle), batches]
  NumSlots,     \* compute slots
  NumWslots,    \* weight-staging slots
  Ring,         \* entries of the job ring
  StageRing,    \* entries of the stage ring
  Margin,       \* how far below its size a ring is kept
  W,            \* values of a flag: more than twice the jobs under way
  Scenarios,    \* how streams wait, and the bounds of a behaviour:
                \* [memops, mortal (the worker may die), passes (forward passes),
                \*  past (jobs that went through before)]
  MaxBatches    \* bound: batches of streamed experts

ASSUME HandoffAssumption ==
  /\ NumSlots \in Nat \ {0} /\ NumWslots \in Nat \ {0}
  /\ Margin \in Nat \ {0} /\ Ring > Margin /\ StageRing > Margin
  /\ W \in Nat /\ W > 2 * NumSlots /\ W > 2 * (MaxBatches + 1)
  /\ Layers \in Seq(Device)

Slot == 0 .. NumSlots - 1
Wslot == 0 .. NumWslots - 1
Stream == Device \X {"compute", "copy"}

Size(r) == IF r = "jobs" THEN Ring ELSE StageRing

\* Flags live in the shared region; events belong to the driver.
Flag == ({"ready", "done", "consumed"} \X Slot) \cup ({"staged", "freed"} \X Wslot)
Event == ({"landed", "used"} \X Device \X Wslot) \cup {<<"hidden", d>> : d \in Device}

\* Data nobody should use: a buffer being written, or written from such a one.
Torn == -1

VARIABLES
  host,      \* where the forward pass is, and MoeCpuHost's counters
  stream,    \* operations enqueued on each stream and not executed
  ring,      \* the job ring and the stage ring: entries, tail, head
  flag,      \* the flags
  event,     \* the events
  mem,       \* the slots' inputs and outputs, the staging slots, the VRAM slots
  proc,      \* the worker process: its compute loop and its stager
  abort,     \* the abort flag
  dog,       \* the watchdog
  scene      \* the scenario

vars == <<host, stream, ring, flag, event, mem, proc, abort, dog, scene>>

\* The cyclic comparison of a flag with a sequence number.
Reached(v, n) == (v - n) % W < W \div 2

Op(do, at, val) == [do |-> do, at |-> at, val |-> val]
Wait(f, i, n) == Op("wait", <<f, i>>, n)
Set(f, i, n) == Op("set", <<f, i>>, n)

\* The last of the first n jobs to have had a slot; slots go round.
LastTenant(s, n) == Max({0} \cup {i \in 1 .. n : (i - 1) % NumSlots = s})

Init ==
  /\ scene \in Scenarios
  /\ LET last == [s \in Slot |-> LastTenant(s, scene.past)] IN
     /\ host = [at |-> "idle", pass |-> 0, layer |-> 0, chunks |-> 0, kind |-> "plain",
                batches |-> 0, jobs |-> <<>>, seq |-> scene.past, wseq |-> 0,
                last |-> last, prev |-> [w \in Wslot |-> 0],
                used |-> [dw \in Device \X Wslot |-> 0]]
     /\ flag = [f \in Flag |-> IF f[1] \in {"staged", "freed"} THEN 0 ELSE last[f[2]] % W]
     /\ mem = [x |-> last, out |-> last,
               pinned |-> [w \in Wslot |-> 0], vram |-> [dw \in Device \X Wslot |-> 0]]
  /\ stream = [s \in Stream |-> <<>>]
  /\ ring = [r \in {"jobs", "stage"} |->
               [buf |-> [i \in 0 .. Size(r) - 1 |-> <<>>], tail |-> 0, head |-> 0]]
  /\ event = [e \in Event |-> 0]
  /\ proc = [alive |-> TRUE,
             worker |-> [at |-> "idle", job |-> <<>>, x |-> 0],
             stager |-> [at |-> "idle", job |-> <<>>]]
  /\ abort = FALSE
  /\ dog = [at |-> "watching", seq |-> 0, wseq |-> 0]

-----------------------------------------------------------------------------
(* The forward pass. *)

Dev == Layers[host.layer]
Compute == <<Dev, "compute">>
Copy == <<Dev, "copy">>
NextSlot == host.seq % NumSlots
NextWslot == host.wseq % NumWslots

\* Mutant: the margin forgotten, and off by one.
FullLate(r) == ring[r].tail - ring[r].head > Size(r)

\* The margin keeps a publisher from overwriting descriptors nobody has read.
Full(r) == ring[r].tail - ring[r].head >= Size(r) - Margin
Push(r, job) ==
  [ring EXCEPT ![r].buf[ring[r].tail % Size(r)] = job, ![r].tail = @ + 1]

GPU == <<flag, event, mem, proc, abort, dog, scene>>

\* begin_pass raises once the abort flag is set.
BeginPass ==
  /\ host.at = "idle" /\ (abort \/ host.pass < scene.passes)
  /\ host' = IF abort THEN [host EXCEPT !.at = "failed"]
             ELSE [host EXCEPT !.at = "layer", !.pass = @ + 1, !.layer = 1]
  /\ UNCHANGED <<stream, ring, GPU>>

\* A layer is reached. The hidden state comes over from the device of the layer before;
\* a streamed prefill reads its expert counts, so the host waits for it and the stream.
StartLayer ==
  LET from == <<Layers[host.layer - 1], "compute">>
      moved == host.layer > 1 /\ from # Compute
      n == host.pass * Len(Layers) + host.layer
  IN
  /\ host.at = "layer"
  /\ \E shape \in Shapes :
       /\ shape.batches > 0 =>
            /\ stream[Compute] = <<>> /\ (moved => stream[from] = <<>>)
            /\ host.wseq + shape.batches <= MaxBatches
       /\ host' = [host EXCEPT !.at = "run", !.chunks = shape.chunks, !.kind = shape.kind,
                               !.batches = shape.batches]
  /\ stream' = IF ~ moved THEN stream
               ELSE [stream EXCEPT ![from] = Append(@, Op("record", <<"hidden", from[1]>>, n)),
                                   ![Compute] = Append(@, Op("await", <<"hidden", from[1]>>, n))]
  /\ UNCHANGED <<ring, GPU>>

\* _collect_one, submit_collect_fused: wait for the job, read its output back unless its
\* issue counted no expert of the CPU's, and give the slot free after the readback.
Collect(job) ==
  <<Wait("done", job.slot, job.seq)>>
  \o (IF job.kind = "idle" THEN <<>> ELSE <<Op("out", job.slot, job.seq)>>)
  \o <<Set("consumed", job.slot, job.seq)>>

CollectOldest ==
  /\ host.jobs # <<>>
  /\ host' = [host EXCEPT !.jobs = Tail(@)]
  /\ stream' = [stream EXCEPT ![Compute] = @ \o Collect(Head(host.jobs))]
  /\ UNCHANGED <<ring, GPU>>

\* The sliding window of _issue_compute. Mutant: a whole batch is issued before any of it
\* is collected.
NoWindow == FALSE
WindowFull == Len(host.jobs) >= NumSlots
MakeWindow == host.at = "run" /\ host.chunks > 0 /\ WindowFull /\ CollectOldest

\* Mutant: the next tenant waits for the result of the last one only.
Computed(slot) ==
  IF host.last[slot] = 0 THEN <<>> ELSE <<Wait("done", slot, host.last[slot])>>

\* What the slot's next tenant waits for: its last one's readback, not its result.
Vacated(slot) ==
  IF host.last[slot] = 0 THEN <<>> ELSE <<Wait("consumed", slot, host.last[slot])>>

\* _issue_compute, submit_issue_fused: a job of one chunk. A full ring holds the host up.
Publish ==
  LET slot == NextSlot
      job == [seq |-> host.seq + 1, slot |-> slot, kind |-> host.kind]
  IN
  /\ host.at = "run" /\ host.chunks > 0 /\ ~ WindowFull /\ ~ Full("jobs")
  /\ ring' = Push("jobs", job)
  /\ stream' = [stream EXCEPT ![Compute] = @ \o Vacated(slot)
                 \o <<Op("in", slot, job.seq), Set("ready", slot, job.seq)>>]
  /\ host' = [host EXCEPT !.seq = job.seq, !.chunks = @ - 1, !.last[slot] = job.seq,
                          !.jobs = Append(@, job)]
  /\ UNCHANGED GPU

\* One batch of _submit_prefill_streamed goes over on the copy stream and is computed with
\* on the compute stream; in between, moving is how its weights come to the device.
Streamed(w, n, moving) ==
  [stream EXCEPT
    ![Copy] = @ \o (IF host.used[<<Dev, w>>] = 0 THEN <<>>
                    ELSE <<Op("await", <<"used", Dev, w>>, host.used[<<Dev, w>>])>>)
                \o moving \o <<Op("record", <<"landed", Dev, w>>, n)>>,
    ![Compute] = @ \o <<Op("await", <<"landed", Dev, w>>, n), Op("use", <<Dev, w>>, n),
                        Op("record", <<"used", Dev, w>>, n)>>]

BatchNext == host.at = "run" /\ host.chunks = 0 /\ host.batches > 0
Batched(w, n) == [host EXCEPT !.wseq = n, !.batches = @ - 1, !.used[<<Dev, w>>] = n]

\* Through a staging slot the stager fills.
StageBatch ==
  LET w == NextWslot
      n == host.wseq + 1
  IN
  /\ BatchNext /\ ~ Full("stage")
  /\ ring' = Push("stage", [seq |-> n, slot |-> w, prev |-> host.prev[w]])
  /\ stream' = Streamed(w, n, <<Wait("staged", w, n), Op("dma", <<Dev, w>>, n),
                                Set("freed", w, n)>>)
  /\ host' = [Batched(w, n) EXCEPT !.prev[w] = n]
  /\ UNCHANGED GPU

\* Straight out of the pinned arena.
ArenaBatch ==
  LET w == NextWslot
      n == host.wseq + 1
  IN
  /\ BatchNext
  /\ stream' = Streamed(w, n, <<Op("fetch", <<Dev, w>>, n)>>)
  /\ host' = Batched(w, n)
  /\ UNCHANGED <<ring, GPU>>

\* A host held up by a full ring gives up on an aborted or dead worker.
RingStall ==
  /\ \/ host.at = "run" /\ host.chunks > 0 /\ ~ WindowFull /\ Full("jobs")
     \/ BatchNext /\ Full("stage")
  /\ abort \/ ~ proc.alive
  /\ host' = [host EXCEPT !.at = "failed"]
  /\ UNCHANGED <<stream, ring, GPU>>

\* submit_collect, after everything the layer enqueues besides.
CollectRest ==
  host.at = "run" /\ host.chunks = 0 /\ host.batches = 0 /\ CollectOldest

EndLayer ==
  /\ host.at = "run" /\ host.chunks = 0 /\ host.batches = 0 /\ host.jobs = <<>>
  /\ host' = IF host.layer = Len(Layers) THEN [host EXCEPT !.at = "idle"]
             ELSE [host EXCEPT !.at = "layer", !.layer = @ + 1]
  /\ UNCHANGED <<stream, ring, GPU>>

HostStep ==
  \/ BeginPass \/ StartLayer \/ MakeWindow \/ Publish \/ StageBatch \/ ArenaBatch
  \/ RingStall \/ CollectRest \/ EndLayer

-----------------------------------------------------------------------------
(* The streams. *)

Blocked(op) ==
  \/ op.do = "wait" /\ ~ Reached(flag[op.at], op.val)
  \/ op.do = "await" /\ event[op.at] < op.val

\* A stream executes its next operation.
Execute(s) ==
  LET op == Head(stream[s]) IN
  /\ stream[s] # <<>> /\ ~ Blocked(op)
  /\ stream' = [stream EXCEPT ![s] = Tail(@)]
  /\ flag' = IF op.do = "set" THEN [flag EXCEPT ![op.at] = op.val % W] ELSE flag
  /\ event' = IF op.do = "record" THEN [event EXCEPT ![op.at] = op.val] ELSE event
  /\ mem' = CASE op.do = "in" -> [mem EXCEPT !.x[op.at] = op.val]
              [] op.do = "dma" -> [mem EXCEPT !.vram[op.at] = mem.pinned[op.at[2]]]
              [] op.do = "fetch" -> [mem EXCEPT !.vram[op.at] = op.val]
              [] OTHER -> mem
  /\ UNCHANGED <<host, ring, proc, abort, dog, scene>>

\* moe_flag_wait_kernel: the fallback for waits times out, and the stream goes on.
GiveUp(s) ==
  /\ ~ scene.memops /\ stream[s] # <<>>
  /\ Head(stream[s]).do = "wait" /\ Blocked(Head(stream[s]))
  /\ abort' = TRUE
  /\ stream' = [stream EXCEPT ![s] = Tail(@)]
  /\ UNCHANGED <<host, ring, flag, event, mem, proc, dog, scene>>

StreamStep(s) == Execute(s) \/ GiveUp(s)

-----------------------------------------------------------------------------
(* The worker process, exl3_moe_cpu_worker_run. *)

Oldest(r) == ring[r].buf[ring[r].head % Size(r)]
Taken(r) == [ring EXCEPT ![r].head = @ + 1]

WorkerTakes ==
  /\ proc.alive /\ proc.worker.at = "idle" /\ ring["jobs"].head # ring["jobs"].tail
  /\ proc' = [proc EXCEPT !.worker.at = "waiting", !.worker.job = Oldest("jobs")]
  /\ ring' = Taken("jobs")
  /\ UNCHANGED <<host, stream, flag, event, mem, abort, dog, scene>>

\* The inputs are there. A gated job none of whose experts is the CPU's is not computed.
WorkerStarts ==
  LET job == proc.worker.job IN
  /\ proc.alive /\ proc.worker.at = "waiting" /\ Reached(flag[<<"ready", job.slot>>], job.seq)
  /\ proc' = [proc EXCEPT !.worker.at = "computing", !.worker.x = mem.x[job.slot]]
  /\ mem' = IF job.kind = "idle" THEN mem ELSE [mem EXCEPT !.out[job.slot] = Torn]
  /\ UNCHANGED <<host, stream, ring, flag, event, abort, dog, scene>>

\* The output is right if the inputs were the job's and stayed so.
WorkerEnds ==
  LET job == proc.worker.job
      right == proc.worker.x = job.seq /\ mem.x[job.slot] = job.seq
  IN
  /\ proc.alive /\ proc.worker.at = "computing"
  /\ mem' = IF job.kind = "idle" THEN mem
            ELSE [mem EXCEPT !.out[job.slot] = IF right THEN job.seq ELSE Torn]
  /\ flag' = [flag EXCEPT ![<<"done", job.slot>>] = job.seq % W]
  /\ proc' = [proc EXCEPT !.worker.at = "idle"]
  /\ UNCHANGED <<host, stream, ring, event, abort, dog, scene>>

StagerTakes ==
  /\ proc.alive /\ proc.stager.at = "idle" /\ ring["stage"].head # ring["stage"].tail
  /\ proc' = [proc EXCEPT !.stager.at = "waiting", !.stager.job = Oldest("stage")]
  /\ ring' = Taken("stage")
  /\ UNCHANGED <<host, stream, flag, event, mem, abort, dog, scene>>

\* The staging slot's previous tenant is on its device.
StagerStarts ==
  LET job == proc.stager.job IN
  /\ proc.alive /\ proc.stager.at = "waiting" /\ Reached(flag[<<"freed", job.slot>>], job.prev)
  /\ proc' = [proc EXCEPT !.stager.at = "copying"]
  /\ mem' = [mem EXCEPT !.pinned[job.slot] = Torn]
  /\ UNCHANGED <<host, stream, ring, flag, event, abort, dog, scene>>

StagerEnds ==
  LET job == proc.stager.job IN
  /\ proc.alive /\ proc.stager.at = "copying"
  /\ mem' = [mem EXCEPT !.pinned[job.slot] = job.seq]
  /\ flag' = [flag EXCEPT ![<<"staged", job.slot>>] = job.seq % W]
  /\ proc' = [proc EXCEPT !.stager.at = "idle"]
  /\ UNCHANGED <<host, stream, ring, event, abort, dog, scene>>

Work == WorkerTakes \/ WorkerStarts \/ WorkerEnds
Stage == StagerTakes \/ StagerStarts \/ StagerEnds

Die ==
  /\ scene.mortal /\ proc.alive
  /\ proc' = [proc EXCEPT !.alive = FALSE]
  /\ UNCHANGED <<host, stream, ring, flag, event, mem, abort, dog, scene>>

-----------------------------------------------------------------------------
(* The watchdog, _start_watchdog. *)

\* It finds the worker dead, reads the counters and writes the flags beyond them.
Release ==
  LET beyond(f) == IF f[1] \in {"done", "consumed"} THEN host.seq + 1 ELSE host.wseq + 1 IN
  /\ dog.at = "watching" /\ ~ proc.alive
  /\ dog' = [at |-> "released", seq |-> host.seq + 1, wseq |-> host.wseq + 1]
  /\ flag' = [f \in Flag |-> IF f[1] = "ready" THEN flag[f] ELSE beyond(f) % W]
  /\ UNCHANGED <<host, stream, ring, event, mem, proc, abort, scene>>

\* Then it sets the abort flag and is gone.
SetAbort ==
  /\ dog.at = "released"
  /\ dog' = [dog EXCEPT !.at = "gone"]
  /\ abort' = TRUE
  /\ UNCHANGED <<host, stream, ring, flag, event, mem, proc, scene>>

Watch == Release \/ SetAbort

-----------------------------------------------------------------------------
Next ==
  \/ HostStep
  \/ \E s \in Stream : StreamStep(s)
  \/ Work \/ Stage \/ Die \/ Watch

\* The driver runs every stream and the kernel's timeout, the system the threads; the host
\* need not begin another pass, and nothing has to die.
Fairness ==
  /\ \A s \in Stream : WF_vars(StreamStep(s))
  /\ WF_vars(Work) /\ WF_vars(Stage) /\ WF_vars(Watch)
  /\ WF_vars(HostStep /\ ~ BeginPass)

Spec == Init /\ [][Next]_vars /\ Fairness

-----------------------------------------------------------------------------
\* Types; no ring overwrites a descriptor before it is taken, and no layer has more jobs
\* to collect than there are slots.
TypeOK ==
  /\ host.at \in {"idle", "layer", "run", "failed"}
  /\ Len(host.jobs) <= NumSlots
  /\ \A s \in Stream : \A i \in DOMAIN stream[s] : stream[s][i].val \in Nat
  /\ \A r \in DOMAIN ring : ring[r].tail - ring[r].head \in 0 .. Size(r)
  /\ flag \in [Flag -> 0 .. W - 1] /\ event \in [Event -> Nat]
  /\ abort \in BOOLEAN
  /\ proc.worker.at \in {"idle", "waiting", "computing"}
  /\ proc.stager.at \in {"idle", "waiting", "copying"}
  /\ dog.at \in {"watching", "released", "gone"}

\* Once waits have been released or given up the pass computes garbage, and says so.
Excused == abort \/ dog.at = "released"

\* The right data is in place whenever a stream reads it: no readback takes the output of
\* another job or one half written, and no batch is computed with other experts' weights,
\* whatever streams, devices, worker and stager overtake each other.
Delivered ==
  \A s \in Stream :
    stream[s] # <<>> /\ ~ Excused =>
      LET op == Head(stream[s]) IN
      /\ op.do = "out" => mem.out[op.at] = op.val
      /\ op.do = "use" => mem.vram[op.at] = op.val
      /\ op.do = "dma" => mem.pinned[op.at[2]] = op.val

\* The host has gone on publishing after the watchdog read its counters.
Overrun == dog.at # "watching" /\ (host.seq > dog.seq \/ host.wseq > dog.wseq)

\* No stream hangs, with the worker alive or dead: all that is enqueued is executed, unless
\* the host enqueues jobs beyond those a dead worker's watchdog knew.
Idle == \A s \in Stream : stream[s] = <<>>
Draining == ~ Idle ~> Idle \/ (scene.memops /\ Overrun)

\* _start_watchdog: "a dead worker would otherwise hang the stream forever. Detect it
\* host-side and unblock every pending GEQ wait".
NoStreamHangs == ~ Idle ~> Idle
=============================================================================
