------------------------------ MODULE Realtime ------------------------------
(***************************************************************************)
(* RealtimeQLoRA (training/realtime.py) with its parkers (aux_offload.py):  *)
(* one loaded model serves and trains in turns.  Drives of the generator    *)
(* hold the read side of the lock; ingest holds the write side while it     *)
(* waits for the generator to be idle, encodes its samples, parks what only *)
(* serving needs, trains, pushes the new adapter and brings everything      *)
(* back.  Each call of ingest that can raise is an action, so that what     *)
(* `finally` restores, and what it does not, is visible.                    *)
(*                                                                          *)
(* An adapter is the number of ingests that trained it.  KV is known by the *)
(* adapter it was computed with; a tier is the set of these.  Pages that    *)
(* leave a tier are no concern here, so a tier only shrinks where the code  *)
(* empties it.                                                              *)
(*                                                                          *)
(* Abstracted: samples and losses, learning rate, trainer checkpoints, and  *)
(* on which device the training state is while nobody trains.  One          *)
(* generator is attached.                                                   *)
(***************************************************************************)
EXTENDS RWLock

CONSTANTS
    Jobs,        \* requests
    Faults,      \* the calls of ingest that may raise
    MaxIngests   \* bound: calls of ingest

Fallible == {"encode", "park", "train", "apply", "unpark"}

ASSUME FaultsAssumption == Faults \subseteq Fallible
ASSUME IngestsAssumption == MaxIngests \in Nat

Tiers == {"vram", "cpu", "recurrent"}
Adapter == 0 .. MaxIngests
Zeroed == MaxIngests + 1   \* no adapter: what a cache that was freed and allocated again holds
KV == Adapter \cup {Zeroed}
Where == {"resident", "parked", "lost"}
Stages == {"none", "waitIdle", "encode", "parkAux", "parkCaches", "train", "apply",
           "callbacks", "unparkCaches", "unparkAux", "release"}

VARIABLES
    config,    \* offload_aux_when_training, offload_cache_when_training
    trained,   \* the adapter in the fp32 masters
    applied,   \* the adapter in the runtime slots of the model
    kv,        \* per tier, the adapters that the KV a new request may find came from
    jobs,      \* the generator's remaining jobs, each with the KV its context came from
    aux,       \* the aux models
    caches,    \* the generator's cache
    stage,     \* where the ingest that holds the lock is
    ingests    \* calls of ingest so far

serving == <<kv, jobs>>
parking == <<aux, caches>>
adapter == <<trained, applied>>
vars == <<lockVars, config, adapter, serving, parking, stage, ingests>>

\* The books keep their types; a stage is one of ingest's calls.
TypeOK ==
    /\ LockTypeOK
    /\ config \in [aux : BOOLEAN, cache : BOOLEAN]
    /\ trained \in Adapter /\ applied \in Adapter
    /\ kv \in [Tiers -> SUBSET KV]
    /\ DOMAIN jobs \subseteq Jobs
    /\ \A j \in DOMAIN jobs : jobs[j] \subseteq KV
    /\ aux \in Where /\ caches \in Where
    /\ stage \in Stages
    /\ ingests \in 0 .. MaxIngests

Init ==
    /\ LockInit
    /\ config \in [aux : BOOLEAN, cache : BOOLEAN]
    /\ trained = 0 /\ applied = 0
    /\ kv = [x \in Tiers |-> {}]
    /\ jobs = [j \in {} |-> {}]
    /\ aux = "resident" /\ caches = "resident"
    /\ stage = "none"
    /\ ingests = 0

Goto(s) == stage' = s

\* Whether a call returns: only the ones in Faults may raise
Returns(call) == IF call \in Faults THEN BOOLEAN ELSE {TRUE}

-----------------------------------------------------------------------------
(* Serving.                                                                *)

Driving == \E t \in Readers : thread[t] = "inside"

\* Generator.enqueue needs no lock
Enqueue(j) ==
    /\ j \notin DOMAIN jobs
    /\ jobs' = [i \in DOMAIN jobs \cup {j} |-> IF i = j THEN {} ELSE jobs[i]]
    /\ UNCHANGED <<lockVars, config, adapter, kv, parking, stage, ingests>>

\* A step of a job: it may take what the tiers have for its prompt, computes KV with the
\* adapter in place, and publishes its pages, its checkpoints, and (when its pages are
\* evicted) its part of the CPU tier.
Advance(j) ==
    /\ Driving /\ j \in DOMAIN jobs
    /\ \E reuse \in SUBSET UNION {kv[x] : x \in Tiers}, spilled \in BOOLEAN :
          LET context == jobs[j] \cup {applied} \cup reuse
          IN /\ jobs' = [jobs EXCEPT ![j] = context]
             /\ kv' = [x \in Tiers |-> IF x = "cpu" /\ ~spilled
                                       THEN kv[x] ELSE kv[x] \cup context]
    /\ UNCHANGED <<lockVars, config, adapter, parking, stage, ingests>>

Finish(j) ==
    /\ Driving /\ j \in DOMAIN jobs
    /\ jobs' = [i \in DOMAIN jobs \ {j} |-> jobs[i]]
    /\ UNCHANGED <<lockVars, config, adapter, kv, parking, stage, ingests>>

\* `with rt.inference():` around a drive.  A host that locks each iterate() leaves jobs behind.
Drive(t) ==
    /\ AcquireRead(t) \/ RecheckRead(t) \/ ExpireRead(t) \/ ReleaseRead(t)
    /\ UNCHANGED <<config, adapter, serving, parking, stage, ingests>>

-----------------------------------------------------------------------------
(* ingest.                                                                 *)

StageOnEntry(t) == stage' = IF thread'[t] = "inside" THEN "waitIdle" ELSE stage

BeginIngest(t) ==
    /\ ingests < MaxIngests
    /\ AcquireWrite(t)
    /\ StageOnEntry(t)
    /\ ingests' = ingests + 1
    /\ UNCHANGED <<config, adapter, serving, parking>>

AwaitLock(t) ==
    /\ RecheckWrite(t) \/ ExpireWrite(t)
    /\ StageOnEntry(t)
    /\ UNCHANGED <<config, adapter, serving, parking, ingests>>

\* _wait_generators_idle: nobody can drive while the lock is held, so a job that is left
\* is waited for in vain and the deadline passes.
WaitIdle ==
    /\ stage = "waitIdle"
    /\ Goto(IF DOMAIN jobs = {} THEN "encode" ELSE "release")
    /\ UNCHANGED <<lockVars, config, adapter, serving, parking, ingests>>

\* A sample may be refused, and all of them may be skipped
Encode ==
    /\ stage = "encode"
    /\ \E examples \in BOOLEAN, ok \in Returns("encode") :
          Goto(IF ok /\ examples THEN "parkAux" ELSE "release")
    /\ UNCHANGED <<lockVars, config, adapter, serving, parking, ingests>>

\* A parker that refuses (a tensor-parallel model) is met after others have parked
ParkAux ==
    /\ stage = "parkAux"
    /\ \E ok \in Returns("park"), some \in BOOLEAN :
          /\ aux' = IF config.aux /\ aux = "resident" /\ (ok \/ some) THEN "parked" ELSE aux
          /\ Goto(IF ok \/ ~config.aux THEN "parkCaches" ELSE "release")
    /\ UNCHANGED <<lockVars, config, adapter, serving, caches, ingests>>

\* The page table goes on naming pages whose storage is gone
ParkCaches ==
    /\ stage = "parkCaches"
    /\ \E ok \in Returns("park"), some \in BOOLEAN :
          LET frees == config.cache /\ caches = "resident" /\ (ok \/ some)
          IN /\ caches' = IF frees THEN "parked" ELSE caches
             /\ kv' = IF frees /\ kv["vram"] # {} THEN [kv EXCEPT !["vram"] = {Zeroed}] ELSE kv
             /\ Goto(IF ok \/ ~config.cache THEN "train" ELSE "release")
    /\ UNCHANGED <<lockVars, config, adapter, jobs, aux, ingests>>

\* Mutant: no `finally` around the training
TrainUnguarded ==
    /\ stage = "train"
    /\ \E ok \in Returns("train") :
          /\ trained' = trained + 1
          /\ Goto(IF ok THEN "apply" ELSE "release")
    /\ UNCHANGED <<lockVars, config, applied, serving, parking, ingests>>

\* All windows: what raises may do so before the first optimizer step or after it.
Train ==
    /\ stage = "train"
    /\ \E ok \in Returns("train"), stepped \in BOOLEAN :
          /\ trained' = IF ok \/ stepped THEN trained + 1 ELSE trained
          /\ Goto(IF ok THEN "apply" ELSE "unparkCaches")
    /\ UNCHANGED <<lockVars, config, applied, serving, parking, ingests>>

\* apply_to_native installs the adapter layer by layer; half of it is another adapter
Apply ==
    /\ stage = "apply"
    /\ applied' = trained
    /\ \E ok \in Returns("apply") : Goto(IF ok THEN "callbacks" ELSE "unparkCaches")
    /\ UNCHANGED <<lockVars, config, trained, serving, parking, ingests>>

\* invalidate_generator_cache: page table, recurrent checkpoints and CPU tier
Callbacks ==
    /\ stage = "callbacks"
    /\ kv' = [x \in Tiers |-> {}]
    /\ Goto("unparkCaches")
    /\ UNCHANGED <<lockVars, config, adapter, jobs, parking, ingests>>

\* Mutant: the reset of the page table is left to the update callbacks
UnparkCachesOnly ==
    /\ stage = "unparkCaches"
    /\ caches' = IF caches = "parked" THEN "resident" ELSE caches
    /\ Goto("unparkAux")
    /\ UNCHANGED <<lockVars, config, adapter, serving, aux, ingests>>

\* Layers that cannot be allocated again are lost: the parker has let go of their homes,
\* and the exception leaves before the page table is reset and the aux models return.
UnparkCaches ==
    /\ stage = "unparkCaches"
    /\ IF caches = "resident"
       THEN Goto("unparkAux") /\ UNCHANGED <<caches, kv>>
       ELSE \E ok \in Returns("unpark") :
               /\ caches' = IF ok /\ caches = "parked" THEN "resident" ELSE "lost"
               /\ kv' = IF ok THEN [kv EXCEPT !["vram"] = {}] ELSE kv
               /\ Goto(IF ok THEN "unparkAux" ELSE "release")
    /\ UNCHANGED <<lockVars, config, adapter, jobs, aux, ingests>>

UnparkAux ==
    /\ stage = "unparkAux"
    /\ \E ok \in Returns("unpark") :
          aux' = CASE aux = "parked" /\ ok -> "resident"
                   [] aux = "parked" /\ ~ok -> "lost"
                   [] OTHER -> aux
    /\ Goto("release")
    /\ UNCHANGED <<lockVars, config, adapter, serving, caches, ingests>>

EndIngest(t) ==
    /\ stage = "release"
    /\ ReleaseWrite(t)
    /\ Goto("none")
    /\ UNCHANGED <<config, adapter, serving, parking, ingests>>

IngestStep ==
    \/ WaitIdle \/ Encode \/ ParkAux \/ ParkCaches \/ Train \/ Apply \/ Callbacks
    \/ UnparkCaches \/ UnparkAux
    \/ \E t \in Writers : EndIngest(t)

Next ==
    \/ \E j \in Jobs : Enqueue(j) \/ Advance(j) \/ Finish(j)
    \/ \E t \in Readers : Drive(t)
    \/ \E t \in Writers : BeginIngest(t) \/ AwaitLock(t)
    \/ IngestStep

\* A thread that was notified runs, a drive ends, and an ingest goes on to its end.  Nobody
\* need ever start a drive or an ingest, and no timeout need ever pass.
Fairness ==
    /\ \A t \in Readers :
          /\ WF_vars(Drive(t) /\ RecheckRead(t))
          /\ WF_vars(Drive(t) /\ ReleaseRead(t))
    /\ \A t \in Writers : WF_vars(AwaitLock(t) /\ RecheckWrite(t))
    /\ WF_vars(IngestStep)

Spec == Init /\ [][Next]_vars /\ Fairness

-----------------------------------------------------------------------------
\* No drive meets KV of another adapter than the one in place, neither in a tier a prompt
\* is looked up in nor in the context of a job it resumes, whatever an ingest in between
\* did or failed to do.
FreshKV ==
    Driving => /\ \A x \in Tiers : kv[x] \subseteq {applied}
               /\ \A j \in DOMAIN jobs : jobs[j] \subseteq {applied}

\* A drive finds the caches allocated and the aux models loaded: what an ingest parked is
\* back before the lock is released, also when the ingest fails.
ServesWhole == Driving => aux = "resident" /\ caches = "resident"

\* An ingest never waits for the lock forever behind drives that keep coming ("a stream of
\* requests can't starve training"), and no drive waits forever behind an ingest that gave
\* up, as long as the lock is free of readers again and again.  Only then is a drive that
\* slept behind a writer notified: a writer that times out wakes nobody.
Served(t) == t \in Waiting(Threads) ~> t \notin Waiting(Threads)
EveryoneServed ==
    /\ \A w \in Writers : Served(w)
    /\ []<>(lock.readers = 0) => \A r \in Readers : Served(r)
=============================================================================
