# A TLA+ model of the stateful core of exllamav3

The repository is an inference library (`src/exllamav3`) with a QLoRA training package on
top.  Almost all of it is tensor code.  What has protocol state is modelled here:

* the *dynamic generator*, a scheduler that runs many jobs over one paged K/V cache, shares
  pages between jobs by the content they hold, speculates, rewinds and requeues, and is driven
  by an asyncio wrapper;
* the *tiers* behind that cache: pages in pinned memory and on disk, and recurrent
  checkpoints, with their writer and reader threads;
* the *realtime trainer*, which serves and trains one loaded model in turns under a
  readers/writer lock;
* the *handoff* between the GPU streams and the process that computes offloaded experts on the
  CPU.

The modules are model-checked on small instances with TLC, and facts about them are proved,
for every instance, with TLAPS.

Contents: [Inventory](#inventory) · [Modules](#modules) · [Correspondence](#correspondence) ·
[Runs](#runs) · [Findings](#findings) · [Fairness](#fairness) · [Proofs](#proofs) ·
[Left out](#left-out) · [Plan](#plan)

## Inventory

Paths are under `src/exllamav3/`.

| component | state it keeps | operations | what has to be true |
|---|---|---|---|
| **Page table** `generator/pagetable.py` | per physical page: hash, previous hash, reference count, fill mark, tokens, saved identity; two dicts by hash (referenced, unreferenced); an access clock | allocate (hit, evict, unique), add/sub reference, revert, clear, update hash, defragment, validate | a page is in exactly one dict, hashes are unique, counts are exact, the eviction order is complete and gives up leaves first |
| **Jobs** `generator/job.py` | per job: tokens, position, block table, checkpoint of held tokens, deferred pages, budget | prepare, allocate, prefill with partial-page copy, receive a sample, publish a completed page, hold, rewind, requeue, release | a job attends to K/V of its own context only; a published page holds what its hash names and is never truncated |
| **Generator iteration** `generator/generator.py` | pending and active queues, prefill rotation and cooldown | enqueue, cancel, iterate (start, prefill, draft, decode, verify, roll back, release, requeue), contain a failed job | capacity is kept, nobody starves, a rejected draft is taken back exactly |
| **Async wrapper** `generator/async_generator.py` | map of tracked jobs, latched error, a condition, one queue per consumer | iterate and deliver, enqueue, notify, cancel, close, read | each consumer gets exactly one ending, nobody waits for nobody |
| **CPU page tier** `generator/cpu_cache.py` | pinned slots by hash, an event per slot, transfers in flight | store on eviction, restore on allocation, prefetch and promote from disk, wait for a busy slot | a slot is not reused under a transfer; what is restored is what was stored |
| **Disk tier** `generator/disk_cache.py` | files of pages and of checkpoints, a mirror of the index, a write queue, switches (paused, disabled), writer and reader threads | write behind, read, drop, flush, abort, pause on a full disk, recover after a crash | the mirror never names a page file that is not there; a dropped write leaves nobody waiting |
| **Recurrent checkpoints** `cache/recurrent.py` | checkpoints by page hash, in pooled host buffers; releases postponed for the writer | stash, restore, evict, rekey, prune, offer to disk | a checkpoint follows its page through every change of hash; a buffer is recycled when nobody needs it |
| **Realtime training** `training/realtime.py`, `training/aux_offload.py` | a readers/writer lock (condition and three counters); the adapter trained and the adapter in place; what is parked | inference, ingest: wait for idle, encode, park, train, apply, invalidate, bring back | no drive meets K/V of an old adapter or a parked model; nobody waits for ever |
| **CPU expert host** `model/moe_cpu_host.py`, `exllamav3_ext/cpu/moe_handoff.*` | pinned slots, two rings of descriptors, flags, per-device streams and events; worker process with a stager thread; a watchdog | issue, collect, stream a batch of weights, compute, stage, time out, release a dead worker's waits | a stream reads the data of its own job; streams neither deadlock nor hang |
| **Text stream** in `job.py`, `generator/filter/`, `generator/sampler/` | held text, stop strings, banned strings, filters | decode, match, hold, emit | held text is emitted or withdrawn, once |
| **Drafting** `generator/ngram.py`, `draft_confidence.py` | suffix automaton, calibration | propose, score | none for safety: every draft is verified |
| **MemT memory** `generator/memt_memory.py` | snapshots of conversation memory | commit, rebase a job | a snapshot seeds the hash chain it was computed for |
| **Tensor parallelism** `model/model_tp*.py` | worker processes, shared-memory barriers | dispatch, gather, reduce | barriers neither deadlock nor overtake |
| **Rest** | none, or weights | modules, quantisation, loading, tokenizer, training steps, kernels | numeric |

How they interact: a caller (or a consumer of the async wrapper) enqueues a `Job`;
`iterate()` runs on one thread and moves each job through start, prefill, decode and release;
all of a job's memory comes from the page table, which is where jobs meet: they share pages
by hash, evict each other's leftovers and copy from each other's partly filled pages.  A
job's block table, the page records and the K/V tensors are three descriptions of one thing,
updated in different places; most of the generator's hazards are about their falling apart.
A page that is evicted goes to the CPU tier by a copy that the device executes later, and from
there to disk by a thread; the recurrent checkpoints anchored to it go the same way, keyed by
the same hash.  The realtime trainer takes the lock that every drive of the generator holds
shared, changes the adapter, and empties all three tiers.  The expert host lies below all of
this, inside the model's forward pass, and meets the others nowhere.

What is hard: in the generator there is one thread, but every stage of `iterate()` walks the
batch job by job, so a job sees the page table as its predecessors in the same stage left it.
Pages carry their content hash before they carry the content; publication is deferred while
tokens may still be withdrawn; a page that loses the race for a hash gives way; a claimed page
that was never written reverts to what it was; cancellation falls between any two iterations.
In the tiers four threads and a device stream share slots, ordered by events and by a lock
that is given up between two looks; writes fail, a disk fills up, the process dies.  In the
handoff the host never waits for what it enqueued, so all order between host, streams,
worker and stager is in flags that wrap.  `PROJECT.json` lists each hazard at its line with the
properties aimed at it.

## Modules

| module | what it is |
|---|---|
| `PageTable` | page records and the table as values; each `CachePage`/`PageTable` method as an operator from table to table; what `validate_pagetable` checks |
| `EvictionOrder` | `build_eviction_order`, the default tree policy, as an operator on a table |
| `PagedJobs` | the state machine: page table, K/V tensors, jobs and the stages of `iterate()`; the properties |
| `JobQueue` | the scheduling state machine: queue order, skips, prefill turns, requeues; pages are only counted |
| `AsyncJobs` | the asyncio wrapper around a generator that is a set of jobs |
| `PageTiers` | CPU tier and the page half of the disk tier: main thread, device stream, writer, readers, crashes |
| `LossyStore` | abstract: what the page tiers promise together |
| `Checkpoints` | recurrent checkpoint cache, its buffer pool, and the checkpoint half of the disk tier |
| `RWLock` | the trainer's readers/writer lock |
| `SharedLock` | abstract: a writer is alone |
| `Realtime` | drives and ingests over `RWLock`; the adapter, the K/V of three tiers, what is parked |
| `MoeHandoff` | forward pass, streams, rings, flags, worker, stager and watchdog of the expert host |
| `Sublist` | what a list keeps when elements are taken out, defined by positions and not by recursion |
| `MC*` | instances for TLC |
| `PagedJobsProofs`, `PagedCacheProofs`, `JobQueueProofs`, `AsyncJobsProofs`, `PageTiersProofs`, `CheckpointsProofs`, `RealtimeProofs`, `SublistProofs` | lemmas and theorems |

`PagedJobs` extends `EvictionOrder`, which extends `PageTable`; `Realtime` extends `RWLock` and
composes its actions with the trainer's.  `JobQueue`, `PageTiers` and `Checkpoints` take
`Sublist`.  Two refinements are stated, checked and proved:

* `PageTiers` implements `LossyStore` (its property `Promise`): a page is *kept* if any table,
  file, queue or transfer still refers to it, and a *delivery* is the copy the stream is about
  to execute into a cache page, with the bytes its slot has at that moment;
* `RWLock`, and with it `Realtime`, implements `SharedLock` (`Exclusion`): who reads and who
  writes is who is inside.

The other state machines abstract from one another: `PagedJobs` leaves the order in which
pending jobs start open, so whatever it satisfies holds under the order `JobQueue` chooses;
`JobQueue` counts pages instead of tracking them; `AsyncJobs` sees the generator as a set of
jobs each of which may yield, end or fail at an iteration, and takes from `JobQueue` that each
ends at last; `PageTiers` and `Checkpoints` see the generator as any sequence of stores,
lookups and renames; `Realtime` knows K/V only by the adapter it was computed with.
No definition is `RECURSIVE`, so all of them can be used in proofs.

## Correspondence

**Tokens, hashes and K/V.**  A page hash in the code is a digest of the previous hash and the
page's tokens, or a random value.  In the model a hash is a record `[base, toks]`: base 0 is
a content hash and `toks` the whole token string it stands for (a digest without collisions);
any other base is a random hash, drawn as the least base nothing refers to.  The K/V entry
in a slot is the token string the entry was computed for (an attention layer's K/V depends on
all tokens up to it), so "the K/V is right" is an equation between strings: `OwnContext`,
`CacheSound`.  Sampling and drafting choose any token of `Sampled`.

**`PageTable`.**  `page[p]` is the `CachePage` with its fields; `referenced` and
`unreferenced` are the two dicts as sets of pages (the key is the page's own hash;
`HashesUnique` is what makes that sound, and it is proved).  `AddRef`, `AddRefClear`,
`AddRefUnique`, `SubRef`, `Reverted`, `Clear`, `UpdateHash` are the methods of the same names.

**`PagedJobs`.**  `table`, `serial`, `cache` and `job` are the data; `pc`, `cur`, `todo`,
`order` and `k` say where `iterate()` is.  One action is one round of a loop of the code over
pages or over jobs:

| code | actions |
|---|---|
| `Generator.enqueue`, `cancel`, `clear_queue` | `Enqueue`, `CancelPending`, `CancelActive`, `ClearQueue` (only between iterations) |
| `iterate_start_jobs`, `Sequence.allocate_pages`, `PageTable.allocate_pages` | `StartJob`, `ClaimHit`, `ClaimMiss`, `ClaimUnique`, `AllocFinish`, `StartsDone` |
| `Job.prefill` | `Prefill` (span, skip of shared pages, partial match and copy, fill marks; or the pass raises), `PrefillsDone` |
| the decode pass of `iterate_gen`, `get_input_ids_list` | `Forward` (with a draft window of any length), `ForwardsDone` |
| `receive_sample` | `Accept`, `HashCompleted`, then one of `JudgeEos`, `JudgeRequeue`, `JudgeEmit`, `JudgeIncomplete`, `JudgeHold`, `JudgeMatch` |
| the assertion of `hash_completed_page` | `Hashable`; `HashRaises` if it does not hold, and `Raised` after that |
| `rewind_checkpoint`, `flush_checkpoint` | `RewindPage`, `RewindDone`; `FlushDeferred`, `FlushDone` |
| verification of a draft in `iterate_gen` | `Verified`, `Unverified`, `RejectPage`, `RejectDone`, `RowsDone` |
| release of finished, requeued and cancelled jobs, `reap_failed_job` | `ReleasePage`, `ReleaseDone`, `IterationDone` |

An `AssertionError` out of `hash_completed_page` leaves `iterate()`, since nothing in it contains one.  The page has been
released by then and is still in the block table, and the model stops with the table in that state
(`pc = "raised"`): the async wrapper latches the error, ends its task and keeps consumers from touching the
generator again (`async_generator.py:58-69`, `149`); the caller of a synchronous generator has the exception.
That Python evaluates assertions (no `-O`) is assumed, and that such a caller does not go on iterating.

What text a token completes decides which verdict it gets; the verdicts are choices, limited
by the code's conditions (a checkpoint exists, the limit is reached, the budget is used up).
`BoundaryHolds` says whether a banned string may begin with the token whose acceptance
completes a page: without it the run `generating` shows what the hold protocol guarantees,
with it the run `rewind_shared` shows where it fails.  `FailedWrites` says whether a prefill pass
may raise, and whether its K/V may be written by then (the drafter's pass raises after the
target's, or the target's in one of its last layers).

**`JobQueue`.**  `pending`, `active`, `cooldown` and `rotation` are the generator's fields,
`queue` and `skipped` the locals of `iterate_start_jobs`.  A `Job` here is a slot which callers
use again, so that arrivals never stop; a job is its page count, width, prompt length in
chunks, tokens, segment length and skip counters.  A started job may fail to allocate, a
served prompt may raise, a generating job may end at any token, and one whose segment is used
up requeues at the front with one more page; `clear_queue` empties both queues.

**`AsyncJobs`.**  All tasks share an event loop, so the code between two suspending awaits is
one action: `Park`, `Iterate` (with delivery), `IterateRaises`, `Idle` (the 0.25 s time-out and
`idle_work`), `Cancelled` for the iteration task; `NotifyCondition` for each notification
task; `Enqueue`, `Cancel`, `Close`, `Closed` for callers; `Consume` and `Abandon` for the
iterator, whose places are `top` (before the check of `cancelled`), `get` (blocked), `body`,
`last` (the body on the eos result) and `out`.

**`PageTiers`.**  The bytes of a page are its hash; `Torn` is a slot that is being read into,
`Bad` a file that fails its checksum.  The device stream is a queue of copies; an event is the
number of copies still ahead of it, so `Execute` brings every event one nearer.  The tier's
lock is held for one action.  `write_page` looks into `pages` and `pending_pages` without it; that is
part of `Store` all the same, because a page is stored when it has no entry, and one whose write is pending
has one (`Tenants`, proved), so nothing can change between the two looks.

| code | actions |
|---|---|
| `CPUPageCache.store`, `prefetch`, `fetch` with `_new_slot`, `_evict_one` | `Store`, `Prefetch`, `Restore`; if the victim is busy `VictimRead`, `VictimFlush`, `UseVictim`; `Fetch` |
| `begin_promote` and the reader pool | `PromoteInto`; `BeginRead`, `EndRead` |
| `write_page`, `_make_room`, the writer thread | `WritePage`, `MakeRoom`; `TakeOp`, `WriteTmp`, `PublishPage`, `DeletePage`, `Flush`, `FailWrite` |
| `abort`, the free-space check, start after a crash | `Abort`, `SpaceReturns`, `Crash` |

**`Checkpoints`.**  A checkpoint is the final hash of its anchor page; a stash is the pooled
buffer it lives in.  `Rename` tells which keys are placeholders and what they become.
What the code looks up without the lock is looked up in an action of its own for each table, with the writer in between: `note_state` is
`NoteIfUnlisted`, `NoteIfOnDisk`, `NoteIfQueued`; `write_page` is `PageIfUnlisted`, `PageIfUnqueued`, `QueuePage`;
`release_after_write` is `ReleaseNext`, `OfferIfOnDisk` and `OfferIfQueued` for each candidate, `SettleRelease`;
the checkpoints' half of a flush is `FlushStates`, `FlushIfOnDisk` and `FlushIfQueued` for each checkpoint, `PruneStates`.
All but `write_page` may call `write_state`, as `drain_ready_states` (`DrainOne`) does; `call` is that call: `CheckListed` and `CheckPending` look into `states` and
`pending_states`, `ReserveWrite` enters the write under the lock, `QueueWrite` queues it after the file has
been laid out, and if that fails `LayoutFails` and `LayoutFailed` take it back.  Only `rekey_state`, which holds the
lock around the call when it replaces a queued write, has it in one piece (`WriteState`).  The
pool of the code grows when it is empty; `Buffers` bounds it, and a request for which there is no
buffer left (`HasBuffer`) is not made.

**`Realtime` and `RWLock`.**  Each method of the lock runs under the condition's mutex and is one
action; `Condition.wait_for` gives the mutex up, so a thread that was notified (`woken`) looks
again in an action of its own and may find that others were faster.  `stage` is where the
ingest that holds the lock is; each call of `ingest` that may raise is an action with both
outcomes, and what follows it is what the code's `try`/`finally` lets follow.  An adapter is the
number of ingests that trained it.

**`MoeHandoff`.**  Data are the sequence numbers of the jobs they belong to, so a readback is right
if the number in the slot is its job's.  A stream is the queue of operations the host enqueued:
`wait` and `set` on a flag, `record` and `await` on an event, and `in`, `out`, `dma`, `fetch`, `use` on data.
Flags have `W` values and compare cyclically, as `u32` does.  The forward pass is
`BeginPass`, `StartLayer`, `Publish`, `StageBatch`, `ArenaBatch`, `CollectOldest`, `EndLayer`; a full
ring holds it up or makes it raise (`RingStall`).  The watchdog's writes to the flags are one
action, its setting of the abort flag another.

## Runs

`PageSize` is 2 instead of 256: both ends of a page, and crossing from one to the next, are
then two tokens apart, and nothing in the code depends on more room inside a page.  Two
sampled tokens make two continuations differ; `"B"` is a BOS token no model samples.
Jobs are interchangeable in `PagedJobs` (symmetry); the runs with liveness use none.

| run | instance | shows |
|---|---|---|
| `sharing` | 3 jobs, 4 pages, three prompts with their first page in common, plain decoding in segments of 1, prefill passes that raise; 437,000 states | the books stay exact through sharing, eviction, revert, giving way and republication; an admitted job never runs out of pages; every free page can be evicted, leaves first; no job reads a page before somebody has computed it.  Three jobs is the least with one sharing, one ending and one evicting; 4 pages do not hold all three.  An answer to the shortest prompt may complete the second page of the next one while that job is still prefilling it, so the assertion at `job.py:706` raises |
| `generating` | 2 jobs, 5 pages, a prompt of 3 tokens that ends inside a page and one of 6 that fills it, a draft of 1, banned strings, prefill passes that raise before they write, `MaxNew` 3 in segments of 1; 1.1 million states | no job reads K/V of another context; hashes and links name what pages hold; a page stays complete once a job is past it; rejected drafts and withdrawn tokens are taken back exactly; no page a rewind may truncate is published, given that no hold starts on the token that completes a page; a requeued job finds its pages by hash.  (Here no page is completed that another job is still prefilling.)  Three tokens let a hold span a boundary and be resumed after a rewind; two jobs with the short prompt run side by side, one with the long prompt needs every page, so the pages it finds were left by the other and the other way round |
| `scheduling` | 3 slots, kinds: one page, whole batch, requeueing; 4 pages, batch of 3 | capacity, no duplicates, no overtaking past a stalled job, and (liveness) every waiting job starts or is withdrawn and every prompt is ingested.  Three jobs is the least in which one generates while two prompts compete, and in which smaller jobs can take turns past a larger one |
| `async` | 2 async jobs, one result before the ending | one ending per consumer, no lost wake-up, every reader leaves and `close()` returns.  Consumers interact only through the map and the iteration task, so two (one that ends and one that does not) meet every case |
| `tiers` | 3 pages, 2 slots, a disk of 1 page, 2 reads in flight, requests begin with at most 1 copy and 1 operation queued | the lossy store; one owner per slot; the mirror and the directory; the main thread returns.  Two slots for three pages make every store an eviction while the other slot is busy; a disk of one page makes every write evict |
| `checkpoints` | 2 pages of which one is renamed, 3 buffers, RAM for 1, disk for 2, requests begin with an empty queue; 1.03 million states | no buffer is recycled early or twice, a checkpoint is its page's, postponed releases happen.  RAM for one checkpoint makes every insertion evict the one whose write may be pending; three buffers are one in RAM, one in the writer's hand and one being filled.  One request alone queues several operations (a page, ready candidates, those of a release or a flush), so a writer that lags behind is met with `MaxQueue` 0 |
| `realtime` | 3 drives (one impatient), 2 impatient writers, 2 ingests, encoding and training may fail; each of the 4 configurations | drives meet K/V of one adapter only and everything resident; exclusion; nobody waits for ever.  Two writers are the least in which one gives up while the other is inside; a third reader lets two overtake one |
| `handoff` | 2 devices with a layer each, 2 compute slots, 1 staging slot, rings of 3 and 2 with a margin of 1, 16 flag values; 530,000 states | no readback takes another job's output, no batch is computed with other weights, every stream drains.  The three scenarios are two passes undisturbed that begin 4 jobs before the flags wrap; one pass with a worker that may die; one with waits that time out.  A prefill of 3 chunks in 2 slots meets the window, the other device's layer meets its slots; `W` must exceed twice the jobs under way, as 2^32 does |
| `rewind_shared`, `draft_leftovers` | 2 jobs | findings 1 and 2 |
| `resurrected` | as `checkpoints`, with `RereadPending` | finding 3 |
| `dead_worker` | as `handoff`, one pass, a worker that may die | finding 4 |

Deadlock is checked in `sharing`, `generating` and `scheduling`, whose systems go on for ever
(`AllServed` stands for a generator waiting for callers).  The others may really stop: a closed
wrapper, a tier nobody asks, a trainer and a host at the bound of their requests; there the
liveness properties say that they do not stop with work left.

The properties of `PagedJobs` that follow `validate_pagetable` (`AllPagesFiled`,
`AllHashesUnique`, `RefCountsExact`, `OwnContext`) hold or fail in every state the model passes
through, which is more often than the stress test can call it.  `TypeOK` of a module also holds
its structural facts: that no job is queued twice (`JobQueue`), that a pending write is
queued, in the writer's hand or about to be queued (`Checkpoints`), that no ring overwrites a descriptor
(`MoeHandoff`).  That of `PageTiers` is proved and in no run.  Each property has in
`PROJECT.json` a mutant, a plausible slip in one definition, which violates it.

## Findings

Each of these four is shown by a run and quoted with its lines in `PROJECT.json`.

1. **A rewind truncates a shared page** (`rewind_shared`).  `receive_sample` publishes the page
   a token completes before it matches that token against the banned strings.  If the string
   begins right there, the page is public while its last token is on hold; another job shares
   it, and the rewind truncates it under that job.
2. **Leftovers of a draft read as a prompt** (`draft_leftovers`).  A job that ends inside its
   draft window releases pages with unverified draft tokens, fill marks and `prev_hash` None;
   a later prompt that begins with those tokens copies K/V of another context.
3. **A checkpoint in use is recycled** (`resurrected`).  A checkpoint evicted from RAM whose disk
   write is pending has its release postponed.  Asked for again, `read_state` hands out that same
   stash; when the write is done, the postponed release gives its buffers to the pool while the
   cache has it.  The run `checkpoints` leaves this request out, and everything else holds.
4. **A dead worker hangs the stream after all** (`dead_worker`).  The watchdog releases the waits it
   knows and later sets the abort flag, but the pass goes on issuing jobs, whose waits nobody
   releases.  `Draining` says that this is the only way a stream can hang.

Met while modelling, and left to the reader without a run:

* `job.py:706` asserts that the twin of a completed page is complete.  A starting job files its
  prompt pages under their content hashes before it prefills them, so the twin may be empty.  The run
  `sharing` meets this: the assertion raises (`HashRaises`), having released the job's own page (line 704), and an
  error of one job ends the generator for all.  The table stays sound and every page holds what its record says;
  `RefCountsExact`, `OwnContext`, `CompleteKept` and `HeldUnpublished` say nothing of jobs after it, as no forward pass
  follows.  Without the assertion (`python -O`) the job would take the empty page for its own and read it:
  that is the mutant `HashableUnasserted`, under which TLC finds `OwnContext` violated.
* `disk_cache.py:893` (`write_state`) looks into `states` and then into `pending_states` without the lock.  If the writer
  publishes the checkpoint in between, it is written once more.  A deletion queued behind that second write, of a key
  the writer lists again when the write is done, leaves the checkpoint listed without its file; `read_state` then
  drops the entry.  So it is lost, never wrong: `CheckpointsSound` is about what RAM and files hold, and does not
  claim that what is listed has a file.
* `reap_failed_job` promises to "Contain a per-job failure so the generator stays usable for other
  jobs" (`generator.py:2342`).  A prompt's last page, and every output page, is taken with its old
  identity backed up (`pagetable.py:154`), and `prefill` drops the backup only after its forward
  passes (`job.py:1745`).  If a pass raises once K/V is written, releasing the job reverts the page
  to its old content hash and fill mark over foreign K/V, which later jobs find by that hash.  With
  `FailedWrites = {FALSE, TRUE}` in `MCGenerating.cfg`, TLC finds `CacheSound` violated; the books
  (run `sharing`, and the proofs) hold all the same.
* A prompt page that was evicted may leave a complete successor behind, which a later job with that
  prompt finds by hash.  The pass that fills the gap stops in front of that page, and then sets its
  fill mark to zero, as the loop over the pages of a pass goes one page further than the pass
  (`job.py:1729-1732`): the page is computed anew for nothing.  `CompleteKept`, which is proved, says
  that nobody has read past it by then.
* `CachePage`'s docs say that `kv_position` counts tokens valid assuming `prev_hash`; a page from the
  middle of a sequence can have None there (`pagetable.py:172-174`).  Finding 2 is what becomes of it.
* Two jobs with one prompt started in one iteration: the second never links its first output
  page, which completes under a hash that is not the digest of its chain and that
  `validate_pagetable` (`pagetable.py:649`) rejects.
* `max_skips` is lost on requeue: `prepare_for_requeue` constructs the job anew without it
  (`job.py:1270`).
* Realtime: with `"park"` or `"unpark"` among the `Faults`, `ServesWhole` fails (the parking is outside
  the `try`, and what cannot be allocated again is lost); with `"apply"`, `FreshKV` fails (the
  callbacks that empty the tiers are not reached).  Drives that keep coming let a reader sleep on
  behind a writer that gave up, because a time-out notifies nobody: hence the premise in
  `EveryoneServed`.  `sync_to_inference`, `unload_from_inference` and `load` take no lock.
* Handoff: the watchdog writes the flags before the abort flag, so a pass that begins in between
  is not refused.  An exception between issue and collect leaves `consumed` flags unwritten, and
  the next tenant of the slot waits for ever.  A fused issue that the extension refuses is retried
  once the ring has room, and the result of the retry is not looked at (`moe_cpu_host.py:1516`).

## Fairness

`PagedJobs` states none: it has only safety properties.

`JobQueue` assumes `WF_vars(Step)`: `generate()` and the async loop call `iterate()` as long as
jobs remain, and `iterate()` is sequential, so its next step is taken.  Callers may stop or
never stop.  The bound on tokens per job is the code's own (`max_new_tokens`).

`AsyncJobs` assumes weak fairness of the iteration task, of notification tasks, of `close()`
once called and of each consumer's loop: asyncio runs every ready task, and bodies of `async
for` return.  The time-out is not fair, so no wake-up rests on it.  That a job in the
generator's queues ends if iterations go on is strong fairness of `Iterate` ending that job;
`JobQueue` and the token limits are the reason.

`PageTiers` assumes weak fairness of the writer, the readers, the main thread inside a request and the
device stream: threads that are not waiting run, copies complete.  No request need come, no write
need fail or succeed, and space need never return.  `Checkpoints` assumes it of the writer only.

`Realtime` assumes that a notified thread looks at the lock again, that a drive ends and that an
ingest goes on to its end.  No drive or ingest need start and no time-out need pass.

`MoeHandoff` assumes it of each stream, worker, stager, watchdog and of the host except for
beginning another pass.  A stream's fairness includes the kernel's time-out, where waits have
one.  Nothing has to die.

## Proofs

### The page table and the jobs that use it

`PagedJobsProofs` and `PagedCacheProofs`, which extends it, are one argument in four parts.  All of
it is for any positive number of pages, any page size, any set of jobs, prompts and tokens, any
draft width and chunking, from the assumptions the modules name (types of the constants only).

**The books.**  `PagesNeverLost` (`Spec => []AllPagesFiled`), `HashesNeverClash` (`AllHashesUnique`)
and `CountsAlwaysExact` (`RefCountsExact`), with no hypothesis.  None is inductive.  A reference count
can only be seen to be exact if the page that is released was filed as referenced, that a page is
filed right rests on its count, and a revert or an eviction keeps hashes unique only because the
table is filed right.  The invariant is

    BooksInv == /\ Sound(table)                    \* typed, filed, hashes unique
                /\ CountsMatch(table, BlockTables) \* counts are places in block tables
                /\ JobsShaped /\ PagesOfActive     \* only active jobs have pages
                /\ JobInHand                       \* the job in hand is one

until the assertion of `hash_completed_page` raises.  That is a step in which a page is released whose place is still in
a block table, and only the table remains sound after it (`RaisesSound`): what `BooksKept` states is
`BooksHold == Sound(table) /\ (pc # "raised" => BooksInv)`.  The lemmas on the page table show of each operation that it preserves `Sound` and by
how much it moves which count (`AddRefSound`, `SubRefSound`, ...), including that an unused
random hash always exists (`FreshExists`: a table refers to finitely many); then there are the
counting lemmas on block tables (`PageAppended`, `PageReplaced`, `PageReleased`), one lemma per
operation of `iterate()`, and `NextBooks` puts them together.

**The cache.**  Proved under three hypotheses, defined in `PagedJobsProofs`:

* `PromptsOpen`: all prompts begin with one token, a BOS token, that is never sampled and occurs
  nowhere else in them;
* `HoldsInside`: if strings are banned, none begins with the token that completes a page;
* `RaisesUnwritten`: a prefill pass that raises has not written K/V.

Each is there because the code fails without it: finding 2 needs a prompt that occurs
inside another sequence, finding 1 a hold that begins at a page boundary, and a pass that raises
after writing leaves K/V behind that its page's backup does not know of (see Findings).  So these
theorems say that nothing *else* goes wrong:

| theorem | property |
|---|---|
| `ContextsNeverMix` | `OwnContext` |
| `CacheNeverLies` | `CacheSound` |
| `FrontierKept` | `NeverOffFrontier` |
| `PassedPagesComplete` | `CompleteKept` |
| `HoldsStayUnpublished` | `HeldUnpublished` |
| `WritesNeverShared` | `WritesUnshared`, which finding 1 violates without `HoldsInside` |
| `CacheTyped` | `TypeOK` |

They all follow from one invariant, `CacheInv`, that none of them would be inductive without.  It holds until the
assertion raises; then the table is still sound, typed, and true of the K/V (`TableInv`, `RaisesTrue`), and nobody
reads any more.  So `CacheKept` is `Spec => []CacheHolds`, where `CacheHolds` has `TableInv` and `pc # "raised" => CacheInv`.
`OwnContext` and `CompleteKept` rest on the raise: a job takes another's page for its own only if that page is
complete.  `CacheInv` is

* `BooksInv`, `Typed`, and `Turns`: a stage of `iterate()` serves jobs in the state it expects;
* `JobFine(j)`, of each job's own counters (`Fine`): its position, checkpoint, deferred pages, draft and
  loop variable fit the phase the job is in.  The loops that take tokens back count down over
  page boundaries, and only this says that they stop where they should;
* `PagesTrue(table, cache)`, of each page alone: it holds the K/V of successive tokens of some sequence
  (`Truth`), of the one its link and its content hash name if they name one, and so does what is
  saved for a revert.  A page that nobody uses must be right too, since it may be found later;
* `BasesApart(table, BlockTables)`: pages in use whose hashes go back to one placeholder are successive
  pages of one job.  Otherwise a page completed behind a placeholder could be taken for the twin of
  another job's;
* `JobServed(j)`, of a job's pages (`Owed`): they are allocated to it, hold its tokens and the K/V of its
  row (`ContentTrue`), are filled up to the mark its phase says (`MarksTrue`), linked to each other
  (`LinksTrue`) and filed under the hashes they should have, those it still writes to under placeholders
  (`NamesTrue`): so nobody else can find them.

A lemma of its own shows that each action keeps `CacheInv`.  What an action may do to the pages of
other jobs is the same for all of them and is said once (`OthersUndisturbed`, `HandStep`, `QuietStep`): the
contents it changes are those of its job's own pages or of nobody's; of a shared page it changes only the
reference count and the access serial.

**The eviction order.**  `EvictionListed`: `BuildEvictionOrder` of any table that is filed right and in
which no page has the hash of an empty sequence lists the unreferenced pages, each once, whatever
their `prev_hash` links say; and so `NothingLostToEviction` (`EvictionComplete`).  Pages found under two
roots, or twice under one, would be given out twice: `TreesApart` shows that trees are disjoint, since a page
has at most one parent and a root has none, and pages on a cycle are in no tree and left to the last
resort.  The walks are functions defined by recursion on a number; `Recursively` gives
such a function its equation and `Inductively` does induction over it, both stated with sets where the
library's theorems take an operator.  `Concatenated` and `Emitted` are written out in
`EvictionOrder` for that reason: of the recursive `FlattenSeq` and `SelectSeq` nothing can be proved.

**Admission.**  `AllocationNeverStarves` (`NeverStarved`).  `AllocInv` says that during an allocation the
unreferenced pages the job still wants (`Wanted`: a page for each prompt hash that no referenced page has, and one for
each output page) are no more than there are, and that what is left of the eviction order has every
unreferenced page.  A hit on an unreferenced page lowers both sides, a hit on a referenced one
neither, and the order stays good since pages only leave the unreferenced ones.

The last two use `CacheInv` for the types of counters and hashes, so they are stated under its hypotheses as well;
in the run `sharing`, which has passes that raise after writing, they are model-checked without the third.

### The other components

`JobQueueProofs` proves, for any jobs, kinds of jobs, sizes and settings that the module's assumptions allow:

* `JobsTyped` (`TypeOK`: no job is queued twice, whatever is requeued, put back or cancelled) and
  `BatchFits` (`WithinCapacity`);
* `NoneOvertaken` (`NotOvertaken`, an action property): a job starts before a pending one that has
  been skipped `max_skips` times only if it is ahead of it.

The invariant is `JobInv == Shaped /\ Once /\ Fitting(Active, job) /\ Walk`.  Capacity is a sum over
the active jobs.  Sums over sets are folds, which the provers cannot unfold, so `JobQueue` says the
same with a cardinality, that of one element per page of each job, and `Fitting` reasons about
those sets (`Units`).  `NotOvertaken` compares a job that starts with pending ones which the scan may
have passed already or not yet reached: `Walk` says that what is left of the copied queue is
pending and in the order of the queue, and that every other pending job has been skipped in this scan.

`AsyncJobsProofs` proves `WrapperTyped` (`TypeOK`), `AlwaysRouted`, `EndsOnce`, `NobodyEverForgotten` and
`WakeupsKept` for any set of jobs and any natural `Tokens`.  `NobodyForgotten` speaks of consumers
blocked on an empty queue; its strengthening `Answerable` says that every consumer that may still
read has its ending in the queue unless its job is tracked, and needs `OneEnding`, and `Untouched` for
jobs not accepted yet.  `EndingsPut` is the shared argument: whoever takes jobs off the map puts
an ending into exactly their queues.

`PageTiersProofs` proves, for any finite sets of pages and slots, any disk budget and any number of
reads in flight, with crashes, failing writes and damaged files:

* `TiersTyped` (`TypeOK`: types, and no event beyond the end of the stream), `SlotOwners` (`SlotsOwned`) and `FilesOnDisk` (`PagesOnDisk`);
* `TiersKeepPromise`: `Spec => Promise`, the refinement of `LossyStore`.

None is inductive alone.  `TierInv` has a part for each table: who owns which slot (`Slotted`); what the main thread, which gave up the lock to wait,
still finds when it returns (`Waited`); that a page being read in is nobody else's (`Reads`); that
each pending page has one write, queued or in hand, no deletion overtakes a newer write, and at
most one flush is waited for (`Queues`); that a queued write names the slot its page is in
(`Tenants`); that an event is no later than the end of the stream (`Events`); and `Contents`, on which the
refinement rests.  A slot holds what it should only once the copies enqueued before have run, so
`Holds(b, q, s, k, p)` says that slot `s` will hold page `p` once `k` copies of the stream `q` are done: that
the last of them to write `s` brings `p`, or none does and it holds `p` already.  A stored entry
holds its page at the end of the stream, an operation of the writer from its event on, and a copy into
a cache page when its turn comes.  The refinement then takes each step to a step of `LossyStore` or
a stutter: a step that brings a copy into a cache page to the head of the stream is a
`Deliver`, one by which the tiers come to refer to a new page a `Store`, one that only gives up references a `Lose`.

`CheckpointsProofs` proves, for any finite set of keys, any buffers, renamings and budgets:

* `CheckpointsTyped` (`TypeOK`);
* `BuffersApart` (`PoolDisjoint`): no buffer is in the pool twice, or while somebody needs it;
* `RightCheckpoints` (`CheckpointsSound`): what is found under a key, in RAM or in a file, is its page's checkpoint;

all three under the hypothesis `RereadPending = FALSE`: no checkpoint is asked for while it is evicted
from RAM and its write is pending.  The code does not exclude that, and finding 3 is what
follows if it happens; so these theorems say that nothing *else* can go wrong.  `CheckInv` is `Typed` and

* `Sound`, of the tier: one write for each pending key, of the stash that is pending, queued or in hand, except for the
  key that `write_state` has reserved and not yet queued (`Writes`, `Reserving`); the pool has nothing that the
  cache, the main thread or a pending write refers to, and a postponed release is of a stash that is
  pending and in nobody else's hands (`Pooled`); buffers, files and the writer's hand have
  the checkpoint of the key they are filed under (`Images`);
* `Shelf`, of the cache: each key and each stash once, with the right contents;
* `Course` and `Errand`: at which step between two locks the main thread may be, and what it carries, such
  as stashes to release that nobody else has;
* `Calling`, of `write_state`: its stash is one that the cache or the main thread keeps, with the right contents, and from
  the look at `pending_states` to the reservation nobody else reserves its key (only the main thread does).

Outside `write_state` this is `MainInv`, which the main thread's actions are proved from.  `PoolDisjoint` is not inductive because a buffer goes through the hands of the main thread, the queue and
the writer before it is back in the pool; `CheckpointsSound` because a stash that is
filled again would change what a write in progress reads (`Unhurt`).  One lemma per helper of the tier
(`DropStateSound`, `WriteFailedSound`, `BackgroundSound` for the writer's steps, ...) shows that `Sound` is kept, one per action the rest.

`SublistProofs` has the lemmas on lists with elements taken out: what stays is in order, each element once
(`PickedFacts`, `DroppedFacts`), and exactly the others (`DroppedSet`).  `SelectSeq` and the folds are
recursive, and of what a recursive definition computes nothing can be proved here.  `Picked` and `Dropped`
define the same lists explicitly, and `DropQueuedWrites` and `DropStates` say in one piece what the
code's loops do element by element.

`RealtimeProofs` proves, for any finite sets of reader and writer threads, any of them impatient, any
requests and any number of ingests:

* `LockAlwaysSound`, `IngestsExclusive` (`Spec => Exclusion`, the refinement of `SharedLock`) and
  `LockWakesSleepers`.  The invariant `LockInv` says that each counter is the number of threads it
  counts (`Counted`), that a writer is alone, and that nobody sleeps on a free lock but a reader
  behind a woken writer.  Exclusion alone is not inductive: it is the counters that a thread
  looks at.  Each lemma about a method also shows the step of the abstract lock it takes.
* `TypesKept` and `BooksKept`: `BookInv` ties the stage of an ingest to who holds the lock, and bounds the
  adapters by the ingests.
* `SwapSound`, `KVAlwaysFresh` (`FreshKV`) and `AlwaysServesWhole` (`ServesWhole`), under the assumption
  `OnlyTrainingFails` that parking, applying and bringing back do not raise; Findings says what
  happens otherwise.  `SoundInv` says at which stages old K/V, zeroed K/V and parked models
  may be around; `DrivingAlone` that none of those stages is under way while somebody drives.

### What is only model-checked

* The liveness properties: fairness and `ENABLED` are out of the prover's reach.
* `LeavesFirst`.  It compares places in the eviction order, so it needs what the trees look like: that
  no unreferenced page is above a referenced one, and that links have no cycles.  A rewind leaves stale links
  behind that break both, so it is checked, and expected to hold, without banned strings only.
* `TypeOK` and `Delivered` of the handoff.
* `NothingLostToEviction`, `AllocationNeverStarves` and `CacheTyped` where a prefill pass raises after it has written.

## Left out

Most of the repository's lines are numeric: model code for dozens of architectures, quantisation
and conversion, training steps, samplers, CUDA and Triton kernels, loaders.  They keep no
protocol state, run on one thread and compute with real tensors; there is nothing in them for
these tools to check, and the share of the source that the map names stays small for that
reason.  Of the parts with state, these are not modelled:

* Generator: multi-sequence jobs (classifier-free guidance) in `PagedJobs`; MTP drafting, which
  omits the last cached page; MemT seeds; multimodal spans; forced tokens; failures in the middle
  of an allocation; defragmentation, which runs only with no job and permutes page indices; the
  debug `lru` policy; `make_unique`, which nobody calls.  `PagedJobs` has no tier behind it, so
  restored pages do not appear in it.
* The text stream: which verdict a token gets is a choice.  Drafters: a draft is any sequence of
  tokens of the chosen width.  Loop detection is a pure function of the tokens.
* Async: `enqueue` after `close()` returned (callers do not); Python's own races in
  `asyncio.wait_for`.
* Tiers: parents of pages and recency, so the order of eviction (any may go); sizes (one unit each);
  tensor-parallel slabs; sibling directories; SQLite rows and their errors (the directory decides what
  a restart finds); closing.
* Realtime: samples and losses; trainer checkpoints; on which device the training state is while
  nobody trains; the calls that take no lock.
* Handoff: loading of layers and its acknowledgements, installs and promotions of experts, thread
  affinity, shutdown.  Ring positions do not wrap, and reaching the bound takes 2^32 jobs.
* Tensor parallelism: see the plan.

## Plan

Done: 1 `PageTable`, `EvictionOrder`, `PagedJobs`; 2 the books' proofs; 3 `JobQueue`; 4 `AsyncJobs` with
proofs; 5 and 6 `PageTiers` with its refinement of `LossyStore`; 7 `Checkpoints`; then `RWLock` and `Realtime`
with proofs, and `MoeHandoff`; the proofs of `PageTiers` with the refinement, of `JobQueue` and of
`Checkpoints`; the proofs about the K/V cache, admission and eviction.  In this order next:

8. The abstract promise of the page cache (a partial map from content hashes to K/V, a hit is
   sound) as a specification that `PagedJobs` implements under a refinement mapping; the
   abstract stream of one consumer that `AsyncJobs` implements.
9. `TokenStream`: held text, stop and banned strings; the loop detector as an algorithm against
   a reference definition.
10. The barrier of the tensor-parallel backend.
11. `PagedJobs` with a restore in the middle of `allocate_pages`, which may fail.

To prove: `LeavesFirst` without banned strings; `Delivered` of the handoff for slots and jobs of any number.
