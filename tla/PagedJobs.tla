----------------------------- MODULE PagedJobs -----------------------------
(***************************************************************************)
(* Jobs over the paged K/V cache: what Generator.iterate and the Job       *)
(* methods it calls (exllamav3/generator/generator.py, job.py) do to the   *)
(* page table, the cache tensors and each job's sequence, for single-      *)
(* sequence jobs on an attention-only model, with an optional drafter.     *)
(*                                                                         *)
(* iterate() runs on one thread; pc says where it is.  A loop of the code  *)
(* over pages or jobs is one step per round, so that the order in which    *)
(* jobs of one batch see each other's page-table changes is explicit.      *)
(* Between two calls of iterate() (pc = "idle") callers enqueue and cancel. *)
(* Assertions are on (no "python -O"): the one of hash_completed_page       *)
(* raises, which is the last thing the generator does (pc = "raised").      *)
(***************************************************************************)
EXTENDS EvictionOrder

CONSTANTS
  Job,            \* the jobs ever submitted
  Prompts,        \* the prompts they may carry
  Sampled,        \* the tokens the model may sample or a drafter propose
  MaxNew,         \* the max_new_tokens they may ask for
  RqTokens,       \* max_rq_tokens, 0 for None (the default)
  MaxDraft,       \* max_draft_tokens, 0 without a drafter
  MaxChunk,       \* max_chunk_size, in tokens
  SharedChunk,    \* shared_chunk_size, in tokens
  Banned,         \* whether jobs carry banned strings
  BoundaryHolds,  \* whether a banned string may start with the token whose
                  \* acceptance completes a page
  FailedWrites    \* whether a prefill pass that raises has written its K/V by
                  \* then; {} if none raises

ASSUME JobsAssumption ==
  /\ Prompts \subseteq Seq(Token)
  /\ Sampled \subseteq Token
  /\ MaxNew \subseteq Nat \ {0}
  /\ RqTokens \in Nat
  /\ MaxDraft \in Nat
  /\ MaxChunk \in Nat
  /\ SharedChunk \in Nat
  /\ Banned \in BOOLEAN
  /\ BoundaryHolds \in BOOLEAN
  /\ FailedWrites \subseteq BOOLEAN

VARIABLES
  table,     \* the PageTable
  serial,    \* PageTable.access_serial
  cache,     \* the K/V tensors: per page and slot, the context it was computed for
  job,       \* the Job objects
  pc,        \* where iterate() is
  cur,       \* the job it is working on
  todo,      \* the jobs this stage still has to serve
  order,     \* available_pages of the allocation under way
  k          \* loop variable

vars == <<table, serial, cache, job, pc, cur, todo, order, k>>

NoJob == "no job"

ASSUME NoJobAssumption == NoJob \notin Job

Slot == 0 .. PageSize - 1
MaxTokens == NumPages * PageSize
Smaller(a, b) == IF a < b THEN a ELSE b
Larger(a, b) == IF a > b THEN a ELSE b
CeilDiv(a, b) == (a + b - 1) \div b
Minus(a, b) == IF a > b THEN a - b ELSE 0

JobState ==
  [ stage    : {"new", "pending", "active", "done"},
    ids      : Seq(Token),        \* sequence_ids
    plen     : Nat,               \* len(input_ids)
    limit    : Nat,               \* max_new_tokens
    pos      : Nat,               \* Sequence.kv_position
    pages    : Seq(Page),         \* allocated_pages
    offset   : Nat \cup {None},   \* checkpoint["offset"]; None without a checkpoint
    deferred : Seq(Nat),          \* checkpoint["deferred_pages"]
    explored : SUBSET Token,      \* checkpoint["explored_tokens"]
    draft    : Seq(Token),        \* this round's draft tokens
    fate     : {"go", "eos", "requeue", "rewound", "cancelled"} ]

Fresh ==
  [ stage |-> "new", ids |-> <<>>, plen |-> 0, limit |-> 0, pos |-> 0,
    pages |-> <<>>, offset |-> None, deferred |-> <<>>, explored |-> {},
    draft |-> <<>>, fate |-> "go" ]

Active == {j \in Job : job[j].stage = "active"}
Pending == {j \in Job : job[j].stage = "pending"}

\* Jobs on their way out, whose pages deallocate_pages has still to give back
Leaving == {j \in Active : job[j].fate # "go"}

\* Job.is_prefill_done
PrefillDone(J) == J.pos + 1 = Len(J.ids)

-----------------------------------------------------------------------------
(* Queue-time arithmetic: Job.prepare_for_queue, Sequence.prepare.         *)

\* max_new_tokens, capped to what the cache leaves past the prompt
CappedLimit(len, asked) ==
  LET room == Minus(MaxTokens, len + 1 + MaxDraft) IN
  IF room >= 1 THEN Smaller(asked, room) ELSE asked

\* max_rq_tokens: the whole response and a draft window, or up to a page boundary
Budget(len, limit) ==
  IF RqTokens = 0 THEN limit + 1 + MaxDraft
  ELSE LET aligned == CeilDiv(len - 1 + RqTokens, PageSize) * PageSize
           end     == Smaller(aligned, MaxTokens - MaxDraft)
       IN Larger(1, Minus(end, len))

RqMargin == IF RqTokens = 0 THEN MaxDraft ELSE 0
RqHeadroom == IF RqTokens = 0 THEN 0 ELSE MaxDraft

\* len(page_hashes) and the pages a sequence takes in all
ContextPages(len) == (len - 1) \div PageSize
TotalPages(len, limit) == CeilDiv(len + Budget(len, limit) + RqHeadroom, PageSize)

\* page_hashes[i]
PromptHash(J, i) == Chain(Root, SubSeq(J.ids, 1, (i + 1) * PageSize))
PromptHashes(J) == {PromptHash(J, i) : i \in 0 .. ContextPages(J.plen) - 1}

\* Job.current_new_pages_required
UncachedPagesRequired(J) ==
  Cardinality({h \in PromptHashes(J) : ~ Holds(table, Page, h)})
  + TotalPages(J.plen, J.limit) - ContextPages(J.plen)
NewPagesRequired(J) ==
  Cardinality({h \in PromptHashes(J) : ~ Holds(table, table.referenced, h)})
  + TotalPages(J.plen, J.limit) - ContextPages(J.plen)

-----------------------------------------------------------------------------
(* Job.hash_completed_page: the page takes its content hash, or gives way  *)
(* to the referenced page that already has it.                             *)

UnchainedHash(t, J, i) == Root
LastHash(t, J, i) == IF i = 0 THEN Root ELSE t.page[J.pages[i]].phash

FinalHash(t, J, i) ==
  Chain(LastHash(t, J, i), SubSeq(J.ids, i * PageSize + 1, (i + 1) * PageSize))

\* Page i + 1 of the job, if it has one, follows a page with hash h
Linked(t, J, i, h) ==
  IF i + 1 < Len(J.pages) THEN [t EXCEPT !.page[J.pages[i + 2]].prev = h] ELSE t

LinkNext(t, J, i, h) ==
  IF i + 1 < Len(J.pages)
  THEN [Linked(t, J, i, h) EXCEPT !.page[J.pages[i + 2]].saved = None]
  ELSE t

\* Mutant: the twin may be one that its job is still filling.
HashableUnasserted(t, J, i) ==
  /\ i + 1 \in DOMAIN J.pages
  /\ Holds(t, t.referenced, FinalHash(t, J, i)) =>
       Holds(t, SubRef(t, J.pages[i + 1]).referenced, FinalHash(t, J, i))

\* What hash_completed_page counts on: the page is in the block table, and if another
\* referenced page has its hash, that one is still there once the page is released
\* and is complete ("assert page.kv_position == PAGE_SIZE")
Hashable(t, J, i) ==
  /\ i + 1 \in DOMAIN J.pages
  /\ Holds(t, t.referenced, FinalHash(t, J, i)) =>
       LET released == SubRef(t, J.pages[i + 1]) IN
       \E twin \in released.referenced :
         released.page[twin].phash = FinalHash(t, J, i) /\ Complete(released, twin)

\* "switch to referencing that instead"
GiveWayUncounted(t, J, i, h) ==
  LET released == SubRef(t, J.pages[i + 1])
      twin     == Lookup(released, released.referenced, h)
      J2       == [J EXCEPT !.pages[i + 1] = twin]
  IN [ table |-> LinkNext(released, J2, i, h), job |-> J2 ]
GiveWay(t, J, i, h) ==
  LET own      == J.pages[i + 1]
      released == SubRef(t, own)
      twin     == Lookup(released, released.referenced, h)
      J2       == [J EXCEPT !.pages[i + 1] = twin]
  IN [ table |-> LinkNext(AddRef(released, twin, t.page[own].serial), J2, i, h),
       job   |-> J2 ]

\* "Update the hash", once no unreferenced page has it
Publish(t, J, i, h) ==
  LET cleared == IF Holds(t, t.unreferenced, h)
                 THEN Clear(t, Lookup(t, t.unreferenced, h)) ELSE t
  IN [ table |-> LinkNext(UpdateHash(cleared, J.pages[i + 1], h), J, i, h), job |-> J ]

\* What hashing page i (from 0) of job J leaves: the table and the job.
Hashed(t, J, i) ==
  LET h == FinalHash(t, J, i) IN
  IF Holds(t, t.referenced, h) THEN GiveWay(t, J, i, h) ELSE Publish(t, J, i, h)

\* It raises otherwise, having released the page if it has come that far.  Nothing in
\* iterate() contains an exception from here.
Raise(J, i) ==
  /\ ~ Hashable(table, J, i)
  /\ table' = IF i + 1 \in DOMAIN J.pages THEN SubRef(table, J.pages[i + 1]) ELSE table
  /\ pc' = "raised"
  /\ UNCHANGED <<serial, cache, job, cur, todo, order, k>>

-----------------------------------------------------------------------------
Init ==
  /\ table = EmptyTable
  /\ serial = NumPages
  /\ cache = [p \in Page |-> [i \in Slot |-> <<>>]]
  /\ job = [j \in Job |-> Fresh]
  /\ pc = "idle"
  /\ cur = NoJob
  /\ todo = {}
  /\ order = None
  /\ k = 0

-----------------------------------------------------------------------------
(* Callers.                                                                *)

\* Generator.enqueue; a request that can never fit is refused (not a step)
Enqueue(j) ==
  /\ pc = "idle"
  /\ job[j].stage = "new"
  /\ \E prompt \in Prompts, asked \in MaxNew :
       LET limit == CappedLimit(Len(prompt), asked) IN
       /\ TotalPages(Len(prompt), limit) <= NumPages
       /\ job' = [job EXCEPT ![j] = [Fresh EXCEPT !.stage = "pending", !.ids = prompt,
                                       !.plen = Len(prompt), !.limit = limit]]
  /\ UNCHANGED <<table, serial, cache, pc, cur, todo, order, k>>

\* Generator.cancel of a pending job, and of an active one (its pages follow)
CancelPending(j) ==
  /\ pc = "idle"
  /\ job[j].stage = "pending"
  /\ job' = [job EXCEPT ![j] = [Fresh EXCEPT !.stage = "done"]]
  /\ UNCHANGED <<table, serial, cache, pc, cur, todo, order, k>>

CancelActive(j) ==
  /\ pc = "idle"
  /\ job[j].stage = "active"
  /\ job' = [job EXCEPT ![j].fate = "cancelled"]
  /\ pc' = "release"
  /\ UNCHANGED <<table, serial, cache, cur, todo, order, k>>

\* Generator.clear_queue: both at once, of every job
ClearQueue ==
  /\ pc = "idle"
  /\ Active \cup Pending # {}
  /\ job' = [j \in Job |-> CASE j \in Active  -> [job[j] EXCEPT !.fate = "cancelled"]
                            [] j \in Pending -> [Fresh EXCEPT !.stage = "done"]
                            [] OTHER        -> job[j]]
  /\ pc' = "release"
  /\ UNCHANGED <<table, serial, cache, cur, todo, order, k>>

\* Generator.iterate is called
Iterate ==
  /\ pc = "idle"
  /\ Active \cup Pending # {}
  /\ pc' = "start"
  /\ UNCHANGED <<table, serial, cache, job, cur, todo, order, k>>

-----------------------------------------------------------------------------
(* iterate_start_jobs, PageTable.allocate_pages.                           *)

\* A pending job that fits becomes active.  (Which of the jobs that fit goes
\* first is the queue's business, left open here.)
StartJob(j) ==
  /\ pc = "start"
  /\ job[j].stage = "pending"
  /\ NewPagesRequired(job[j]) <= Cardinality(table.unreferenced)
  /\ job' = [job EXCEPT ![j].stage = "active"]
  /\ cur' = j
  /\ pc' = "alloc"
  /\ order' = None
  /\ UNCHANGED <<table, serial, cache, todo, k>>

AllocIndex == Len(job[cur].pages)
AllocDone == AllocIndex = TotalPages(job[cur].plen, job[cur].limit)

Claim(p) == job' = [job EXCEPT ![cur].pages = Append(@, p)]

\* next_evictable: the eviction order is built at the first miss; pages claimed
\* by hash since then are skipped
NextEvictable(avail, p) ==
  \E i \in DOMAIN avail :
    /\ p = avail[i]
    /\ table.page[p].refs = 0
    /\ \A m \in 1 .. i - 1 : table.page[avail[m]].refs > 0
    /\ order' = SubSeq(avail, i + 1, Len(avail))

AvailablePages ==
  IF order = None THEN BuildEvictionOrder(table, PromptHashes(job[cur])) ELSE order

\* A prompt page found by its hash, referenced or not
ClaimHit ==
  /\ pc = "alloc" /\ ~ AllocDone
  /\ AllocIndex < ContextPages(job[cur].plen)
  /\ LET h == PromptHash(job[cur], AllocIndex) IN
       \E p \in Page :
         /\ table.page[p].phash = h
         /\ table' = AddRef(table, p, serial + 1)
         /\ Claim(p)
  /\ serial' = serial + 1
  /\ UNCHANGED <<cache, pc, cur, todo, order, k>>

\* A prompt page that is nowhere: an evicted page takes its hash
ClaimMiss ==
  /\ pc = "alloc" /\ ~ AllocDone
  /\ AllocIndex < ContextPages(job[cur].plen)
  /\ LET h == PromptHash(job[cur], AllocIndex) IN
       /\ ~ Holds(table, Page, h)
       /\ \E p \in Page :
            /\ NextEvictable(AvailablePages, p)
            /\ table' = AddRefClear(table, p, serial + 1, h)
            /\ Claim(p)
  /\ serial' = serial + 1
  /\ UNCHANGED <<cache, pc, cur, todo, k>>

\* A page for output, linked to the page before it if that one is complete
ClaimUnique ==
  /\ pc = "alloc" /\ ~ AllocDone
  /\ AllocIndex >= ContextPages(job[cur].plen)
  /\ \E p \in Page :
       /\ NextEvictable(AvailablePages, p)
       /\ LET t == AddRefUnique(table, p, serial + 1)
              last == IF AllocIndex = 0 THEN p ELSE job[cur].pages[AllocIndex]
          IN table' = IF AllocIndex > 0 /\ Complete(t, last)
                      THEN [t EXCEPT !.page[p].prev = t.page[last].phash]
                      ELSE t
       /\ Claim(p)
  /\ serial' = serial + 1
  /\ UNCHANGED <<cache, pc, cur, todo, k>>

\* All pages claimed: the job resumes after its leading complete pages
AllocFinish ==
  /\ pc = "alloc" /\ AllocDone
  /\ LET pages  == job[cur].pages
         cached == CHOOSE n \in 0 .. Len(pages) :
                     /\ \A i \in 1 .. n : Complete(table, pages[i])
                     /\ n < Len(pages) => ~ Complete(table, pages[n + 1])
     IN job' = [job EXCEPT ![cur].pos = cached * PageSize]
  /\ pc' = "start"
  /\ cur' = NoJob
  /\ order' = None
  /\ UNCHANGED <<table, serial, cache, todo, k>>

\* Which jobs with prompt left get a prefill pass: all of them, unless a job is
\* generating; then at most one, in turns (shared chunks, cooldown)
StartsDone ==
  /\ pc = "start"
  /\ LET ingesting == {j \in Active : ~ PrefillDone(job[j])} IN
       IF ingesting = Active \/ SharedChunk = MaxChunk
       THEN todo' = ingesting /\ k' = MaxChunk
       ELSE todo' \in {{}} \cup {{j} : j \in ingesting} /\ k' = SharedChunk
  /\ pc' = "prefill"
  /\ UNCHANGED <<table, serial, cache, job, cur, order>>

-----------------------------------------------------------------------------
(* Job.prefill, one call.                                                  *)

\* The leading complete pages a call skips, and the span it then computes:
\* up to the end of the chunk, but not into the next complete page.
PrefillSpan(t, J, chunk) ==
  LET whole == Smaller(((J.pos + MaxChunk) \div PageSize) * PageSize, Len(J.ids) - 1)
      p0    == J.pos \div PageSize
      p1    == CeilDiv(whole, PageSize)
      Done(i) == Complete(t, J.pages[i + 1])
      skip  == CHOOSE i \in p0 .. Larger(p0, p1) :
                 /\ \A m \in p0 .. i - 1 : Done(m)
                 /\ i >= p1 \/ ~ Done(i)
      start == IF skip = p0 THEN J.pos ELSE skip * PageSize
      hits  == {i \in start \div PageSize .. Minus(p1, 1) : i < p1 /\ Done(i)}
      until == IF hits = {} THEN whole
               ELSE (CHOOSE i \in hits : \A m \in hits : i <= m) * PageSize
  IN [ start |-> start,
       end   |-> IF chunk = MaxChunk THEN until
                 ELSE Smaller(until, ((start + chunk) \div PageSize) * PageSize) ]

\* How many of the tokens to prefill page q already holds, from its first slot
Match(t, J, q, span) ==
  LET Same(i) == t.page[q].toks[i] = J.ids[span.start + i + 1]
      longest == Smaller(t.page[q].kv, span.end - span.start)
  IN CHOOSE n \in 0 .. longest :
       (\A i \in 0 .. n - 1 : Same(i)) /\ (n < longest => ~ Same(n))

\* The best page to copy a partial match from: one whose predecessor has the
\* hash of this sequence's previous page
CopySource(t, J, span) ==
  LET own == J.pages[span.start \div PageSize + 1]
      candidates ==
        IF span.start % PageSize # 0 THEN {}
        ELSE {q \in Page \ {own} :
                /\ t.page[q].prev = LastHash(t, J, span.start \div PageSize)
                /\ Match(t, J, q, span) > 1}
      Better(q, r) == \/ Match(t, J, q, span) > Match(t, J, r, span)
                      \/ Match(t, J, q, span) = Match(t, J, r, span) /\ q <= r
  IN {q \in candidates : \A r \in candidates : Better(q, r)}

\* The context a position's K/V is computed for
Context(J, i) == SubSeq(J.ids, 1, i + 1)

\* kv_position of page i (from 0) once the sequence is ingested up to end
FillMarkUncapped(end, i) == Minus(end, i * PageSize)
FillMark(end, i) == Smaller(Minus(end, i * PageSize), PageSize)

\* Page metadata after a forward pass over span: every page it touched, and the
\* one after it
Ingested(t, J, first, span) ==
  LET last == Smaller(span.end \div PageSize + 1, Len(J.pages)) - 1
      New(rec, i) ==
        [rec EXCEPT
          !.kv = FillMark(span.end, i),
          !.prev = LastHash(t, J, i),
          !.toks = [s \in Slot |->
                      IF span.start <= i * PageSize + s /\ i * PageSize + s < span.end
                      THEN J.ids[i * PageSize + s + 1] ELSE @[s]],
          !.saved = None]
  IN [t EXCEPT !.page = [p \in Page |->
        IF \E i \in first .. last : J.pages[i + 1] = p
        THEN New(t.page[p], CHOOSE i \in first .. last : J.pages[i + 1] = p)
        ELSE t.page[p]]]

\* The forward pass, of the target or the drafter, may raise: reap_failed_job
\* drops the job before any page is marked as ingested
Outcomes == [done : {TRUE}, written : {TRUE}] \cup [done : {FALSE}, written : FailedWrites]

Prefill(j) ==
  /\ pc = "prefill"
  /\ Leaving = {}
  /\ j \in todo
  /\ todo' = todo \ {j}
  /\ LET J     == job[j]
         span  == PrefillSpan(table, J, k)
         first == span.start \div PageSize
         own   == J.pages[first + 1]
     IN IF span.end <= span.start
        THEN /\ job' = [job EXCEPT ![j].pos = span.start]
             /\ UNCHANGED <<table, cache>>
        ELSE LET sources == CopySource(table, J, span)
                 src     == CHOOSE q \in sources : TRUE
                 n       == IF sources = {} THEN 0 ELSE Match(table, J, src, span)
                 rest    == [span EXCEPT !.start = @ + n]
                 copied  == IF n = 0 THEN table
                            ELSE [table EXCEPT
                                   !.page[own].prev = table.page[src].prev,
                                   !.page[own].toks = [s \in Slot |->
                                      IF s < n THEN table.page[src].toks[s] ELSE @[s]],
                                   !.page[own].kv = n,
                                   !.page[own].saved = None]
             IN \E outcome \in Outcomes :
                /\ outcome.done \/ rest.end > rest.start
                /\ table' = IF outcome.done /\ rest.end > rest.start
                            THEN Ingested(copied, J, first, rest) ELSE copied
                /\ cache' = [p \in Page |-> [s \in Slot |->
                     IF p = own /\ s < n THEN cache[src][s]
                     ELSE IF outcome.written /\ \E i \in first .. Len(J.pages) - 1 :
                               /\ J.pages[i + 1] = p
                               /\ i * PageSize + s \in rest.start .. rest.end - 1
                          THEN Context(J, (CHOOSE i \in first .. Len(J.pages) - 1 :
                                             J.pages[i + 1] = p) * PageSize + s)
                          ELSE cache[p][s]]]
                /\ job' = IF outcome.done THEN [job EXCEPT ![j].pos = span.end]
                          ELSE [job EXCEPT ![j].fate = "cancelled"]
  /\ UNCHANGED <<serial, pc, cur, order, k>>

PrefillsDone ==
  /\ pc = "prefill"
  /\ Leaving = {}
  /\ todo = {}
  /\ LET ready == {j \in Active : PrefillDone(job[j])} IN
       /\ todo' = ready
       /\ pc' = IF ready = {} THEN "idle" ELSE "forward"
       /\ k' \in IF ready = {} THEN {0} ELSE 0 .. MaxDraft
  /\ UNCHANGED <<table, serial, cache, job, cur, order>>

-----------------------------------------------------------------------------
(* iterate_gen: the forward pass over the batch, k drafted tokens wide.    *)

\* The page a job's position falls in, from 0
PageAt(pos) == pos \div PageSize

\* The pages job J's window of 1 + k tokens falls in
Window(J) == PageAt(J.pos) .. PageAt(J.pos + k)

\* get_input_ids_list and iterate_gen ("assert page.ref_count == 1") demand this
\* of every page they write to
WindowOwned(J) ==
  \A i \in Window(J) : i < Len(J.pages) => table.page[J.pages[i + 1]].refs = 1

\* The write position in each page is the position of the sequence
AtFrontier(J) ==
  \A i \in Window(J) :
    i < Len(J.pages) /\ table.page[J.pages[i + 1]].kv = Minus(J.pos, i * PageSize)

\* One job's row: its unprocessed token and its draft are recorded in its pages
\* and their K/V written (get_input_ids_list, or the decode_rows path)
Forward(j) ==
  /\ pc = "forward"
  /\ j \in todo
  /\ WindowOwned(job[j]) /\ AtFrontier(job[j])
  /\ \E draft \in [1 .. k -> Sampled] :
       LET J      == job[j]
           row    == J.ids \o draft
           final  == J.pos + k + 1
           mine   == {J.pages[i + 1] : i \in Window(J)}
           Index(p) == CHOOSE i \in Window(J) : J.pages[i + 1] = p
           Written(p, s) ==
             p \in mine /\ Index(p) * PageSize + s \in J.pos .. final - 1
       IN /\ table' = [table EXCEPT !.page = [p \in Page |->
                 IF p \in mine
                 THEN [table.page[p] EXCEPT
                        !.kv = Smaller(PageSize, final - Index(p) * PageSize),
                        !.toks = [s \in Slot |-> IF Written(p, s)
                                    THEN row[Index(p) * PageSize + s + 1] ELSE @[s]],
                        !.saved = None]
                 ELSE table.page[p]]]
          /\ cache' = [p \in Page |-> [s \in Slot |->
                 IF Written(p, s) THEN SubSeq(row, 1, Index(p) * PageSize + s + 1)
                 ELSE cache[p][s]]]
          /\ job' = [job EXCEPT ![j].draft = draft]
  /\ todo' = todo \ {j}
  /\ UNCHANGED <<serial, pc, cur, order, k>>

ForwardsDone ==
  /\ pc = "forward"
  /\ todo = {}
  /\ todo' = {j \in Active : PrefillDone(job[j])}
  /\ pc' = "sample"
  /\ cur' = NoJob
  /\ UNCHANGED <<table, serial, cache, job, order, k>>

NextRow(j) ==
  /\ pc = "sample"
  /\ cur = NoJob
  /\ j \in todo
  /\ cur' = j
  /\ k' = 0
  /\ todo' = todo \ {j}
  /\ UNCHANGED <<table, serial, cache, job, pc, order>>

-----------------------------------------------------------------------------
(* Job.receive_sample: accept one token, then decide what becomes of it.   *)

\* The page a sampled token completes, from 0, is the one before the new position
DonePage(J) == PageAt(J.pos) - 1

\* A hold may still rewind the page's tokens: its hash waits, in deferred_pages
NeverHolding(J) == FALSE
Holding(J) == J.offset \notin {0, None}

Accept(t) ==
  /\ pc = "sample"
  /\ cur # NoJob
  /\ job[cur].offset = 0 => t \notin job[cur].explored
  /\ LET J    == [job[cur] EXCEPT !.ids = Append(@, t), !.pos = @ + 1]
         ends == J.pos % PageSize = 0
     IN /\ job' = [job EXCEPT ![cur] =
             IF ends /\ Holding(J) THEN [J EXCEPT !.deferred = Append(@, DonePage(J))]
             ELSE J]
        /\ pc' = IF ends /\ ~ Holding(J) THEN "complete" ELSE "judge"
        /\ table' = IF ends /\ Holding(J)
                    THEN Linked(table, J, DonePage(J), table.page[J.pages[DonePage(J) + 1]].phash)
                    ELSE table
  /\ UNCHANGED <<serial, cache, cur, todo, order, k>>

\* It is final at once otherwise
HashCompleted ==
  /\ pc = "complete"
  /\ Hashable(table, job[cur], DonePage(job[cur]))
  /\ LET after == Hashed(table, job[cur], DonePage(job[cur])) IN
       /\ table' = after.table
       /\ job' = [job EXCEPT ![cur] = after.job]
  /\ pc' = "judge"
  /\ UNCHANGED <<serial, cache, cur, todo, order, k>>

NewTokens(J) == Len(J.ids) - J.plen
AtLimit(J) == NewTokens(J) >= J.limit
RequeueNow(J) == NewTokens(J) + RqMargin > Budget(J.plen, J.limit)

\* A stop token or string, a filter or a detected loop may end the job at any
\* token; max_new_tokens ends it there.  Deferred pages are final then.
JudgeEos ==
  /\ pc = "judge"
  /\ job' = [job EXCEPT ![cur].fate = "eos"]
  /\ pc' = "flush"
  /\ UNCHANGED <<table, serial, cache, cur, todo, order, k>>

JudgeRequeue ==
  /\ pc = "judge"
  /\ ~ AtLimit(job[cur])
  /\ RequeueNow(job[cur])
  /\ job' = [job EXCEPT ![cur].fate = "requeue"]
  /\ pc' = "flush"
  /\ UNCHANGED <<table, serial, cache, cur, todo, order, k>>

\* Nothing banned is in the making: the hold, if any, is released
JudgeEmit ==
  /\ pc = "judge"
  /\ ~ AtLimit(job[cur]) /\ ~ RequeueNow(job[cur])
  /\ pc' = "flush"
  /\ UNCHANGED <<table, serial, cache, job, cur, todo, order, k>>

\* The held text ends in an incomplete character: returns before the banned
\* strings are looked at, leaving the checkpoint as it is
JudgeIncomplete ==
  /\ pc = "judge"
  /\ Banned
  /\ ~ AtLimit(job[cur]) /\ ~ RequeueNow(job[cur])
  /\ pc' = "verify"
  /\ UNCHANGED <<table, serial, cache, job, cur, todo, order, k>>

\* set_checkpoint
Checkpointed(J) ==
  LET t == J.ids[Len(J.ids)] IN
  CASE J.offset = None -> [J EXCEPT !.offset = 1, !.explored = {t}, !.deferred = <<>>]
    [] J.offset = 0      -> [J EXCEPT !.offset = 1, !.explored = @ \cup {t}]
    [] OTHER             -> [J EXCEPT !.offset = @ + 1]

\* The vocabulary is never exhausted: a token is left that was not yet explored
MayBan(J) ==
  /\ Banned
  /\ ~ Sampled \subseteq Checkpointed(J).explored
  /\ ~ AtLimit(J) /\ ~ RequeueNow(J)
  /\ \/ BoundaryHolds
     \/ J.offset \notin {0, None}
     \/ J.pos % PageSize # 0

\* Part of a banned string: hold
JudgeHold ==
  /\ pc = "judge"
  /\ MayBan(job[cur])
  /\ job' = [job EXCEPT ![cur] = Checkpointed(@)]
  /\ pc' = "verify"
  /\ UNCHANGED <<table, serial, cache, cur, todo, order, k>>

\* All of one: rewind_checkpoint cuts the sequence, its pages follow
JudgeMatch ==
  /\ pc = "judge"
  /\ MayBan(job[cur])
  /\ LET J   == Checkpointed(job[cur])
         pos == J.pos - J.offset
     IN /\ job' = [job EXCEPT ![cur] =
             [J EXCEPT !.pos = pos, !.ids = SubSeq(@, 1, Len(@) - J.offset),
                       !.fate = "rewound"]]
        /\ k' = PageAt(pos)
  /\ pc' = "rewind"
  /\ UNCHANGED <<table, serial, cache, cur, todo, order>>

\* kv_position of page i (from 0) after a rewind to J.pos
RewindFillStale(J, i) ==
  IF i = PageAt(J.pos) THEN (J.pos + J.offset) % PageSize ELSE 0
RewindFill(J, i) == IF i = PageAt(J.pos) THEN J.pos % PageSize ELSE 0

\* One page of the rewind loop, from the page of the new position on.  Pages
\* past the old position are rolled back up to the write frontier; the old
\* position is the new one plus the offset.
RewindPage ==
  /\ pc = "rewind"
  /\ LET J == job[cur] IN
       /\ k + 1 \in DOMAIN J.pages
       /\ LET p == J.pages[k + 1] IN
            /\ k > PageAt(J.pos + J.offset) => table.page[p].kv > 0
            /\ LET t == IF Complete(table, p)
                        THEN UpdateHash(table, p, FreshHash(table)) ELSE table
               IN table' = [t EXCEPT
                    !.page[p].kv = RewindFill(J, k),
                    !.page[p].saved = None]
  /\ k' = k + 1
  /\ UNCHANGED <<serial, cache, job, pc, cur, todo, order>>

\* The checkpoint stays, empty; the pages it deferred held rewound tokens
Rewound(J) == [J EXCEPT !.offset = 0, !.deferred = <<>>]

RewindDone ==
  /\ pc = "rewind"
  /\ LET J == job[cur] IN
       /\ \/ k >= Len(J.pages)
          \/ k > PageAt(J.pos + J.offset) /\ table.page[J.pages[k + 1]].kv = 0
       /\ job' = [job EXCEPT ![cur] = Rewound(@)]
  /\ pc' = "verify"
  /\ UNCHANGED <<table, serial, cache, cur, todo, order, k>>

\* hash_deferred_pages, and then the checkpoint is dropped
FlushDeferred ==
  /\ pc = "flush"
  /\ job[cur].deferred # <<>>
  /\ LET J     == [job[cur] EXCEPT !.deferred = Tail(@)]
         after == Hashed(table, J, Head(job[cur].deferred))
     IN /\ Hashable(table, J, Head(job[cur].deferred))
        /\ table' = after.table
        /\ job' = [job EXCEPT ![cur] = after.job]
  /\ UNCHANGED <<serial, cache, pc, cur, todo, order, k>>

\* Either of them raises
Unhashed ==
  CASE pc = "complete" -> {DonePage(job[cur])}
    [] pc = "flush" /\ job[cur].deferred # <<>> -> {Head(job[cur].deferred)}
    [] OTHER -> {}

HashRaises == \E i \in Unhashed : Raise(job[cur], i)

FlushDone ==
  /\ pc = "flush"
  /\ job[cur].deferred = <<>>
  /\ job' = [job EXCEPT ![cur].offset = None, ![cur].explored = {}]
  /\ pc' = "verify"
  /\ UNCHANGED <<table, serial, cache, cur, todo, order, k>>

-----------------------------------------------------------------------------
(* Verification of the drafted tokens, and the end of the iteration.       *)

\* The draft proposed the token just sampled, and a logit position follows it
DraftTrusted(J) == J.fate = "go" /\ k < Len(J.draft)
DraftAgrees(J) ==
  /\ J.fate = "go"
  /\ k < Len(J.draft)
  /\ J.draft[k + 1] = J.ids[Len(J.ids)]

\* Go on with the next position of the window
Verified ==
  /\ pc = "verify"
  /\ DraftAgrees(job[cur])
  /\ pc' = "sample"
  /\ k' = k + 1
  /\ UNCHANGED <<table, serial, cache, job, cur, todo, order>>

\* How many written tokens reject_remainder takes back: the rest of the window on
\* a mismatch and before a requeue.  A job that ends or rewound keeps its pages as
\* they are.
Remainder(J) == IF J.fate \in {"go", "requeue"} THEN Len(J.draft) - k ELSE 0

Unverified ==
  /\ pc = "verify"
  /\ ~ DraftAgrees(job[cur])
  /\ k' = Remainder(job[cur])
  /\ pc' = "reject"
  /\ UNCHANGED <<table, serial, cache, job, cur, todo, order>>

\* One round of its loop: as much as the last page still holds of it.
RejectedFromLast(J) == J.pages[PageAt(J.pos - 1) + 1]
RejectedFrom(J) == J.pages[PageAt(J.pos + k - 1) + 1]

RejectPage ==
  /\ pc = "reject"
  /\ k > 0
  /\ LET p == RejectedFrom(job[cur])
         r == Smaller(table.page[p].kv, k)
     IN /\ table' = [table EXCEPT !.page[p].kv = @ - r]
        /\ k' = k - r
  /\ UNCHANGED <<serial, cache, job, pc, cur, todo, order>>

RejectDone ==
  /\ pc = "reject"
  /\ k = 0
  /\ job' = [job EXCEPT ![cur].draft = <<>>,
                        ![cur].fate = IF @ = "rewound" THEN "go" ELSE @]
  /\ pc' = "sample"
  /\ cur' = NoJob
  /\ UNCHANGED <<table, serial, cache, todo, order, k>>

RowsDone ==
  /\ pc = "sample"
  /\ cur = NoJob
  /\ todo = {}
  /\ pc' = "release"
  /\ UNCHANGED <<table, serial, cache, job, cur, todo, order, k>>

\* Job.deallocate_pages, one page of a finished, requeued or cancelled job
ReleasePage(j) ==
  /\ pc \in {"prefill", "release"}
  /\ j \in Leaving
  /\ cur \in {NoJob, j}
  /\ job[j].pages # <<>>
  /\ table' = SubRef(table, Head(job[j].pages))
  /\ job' = [job EXCEPT ![j].pages = Tail(@)]
  /\ cur' = j
  /\ UNCHANGED <<serial, cache, pc, todo, order, k>>

\* Its pages are back: it leaves, or prepare_for_requeue makes it a pending job
\* whose prompt is the whole sequence
ReleaseDone(j) ==
  /\ pc \in {"prefill", "release"}
  /\ j \in Leaving
  /\ cur \in {NoJob, j}
  /\ job[j].pages = <<>>
  /\ job' = [job EXCEPT ![j] =
       IF @.fate = "requeue"
       THEN LET J == job[j] IN
            [Fresh EXCEPT !.stage = "pending", !.ids = J.ids, !.plen = Len(J.ids),
               !.limit = CappedLimit(Len(J.ids), J.limit - NewTokens(J))]
       ELSE [Fresh EXCEPT !.stage = "done"]]
  /\ cur' = NoJob
  /\ UNCHANGED <<table, serial, cache, pc, todo, order, k>>

IterationDone ==
  /\ pc = "release"
  /\ Leaving = {}
  /\ pc' = "idle"
  /\ k' = 0
  /\ UNCHANGED <<table, serial, cache, job, cur, todo, order>>

-----------------------------------------------------------------------------
Starting ==
  \/ \E j \in Job : StartJob(j)
  \/ ClaimHit \/ ClaimMiss \/ ClaimUnique \/ AllocFinish
  \/ StartsDone

Ingesting == PrefillsDone \/ \E j \in Job : Prefill(j)

Generating ==
  \/ \E j \in Job : Forward(j) \/ NextRow(j)
  \/ ForwardsDone
  \/ \E t \in Sampled : Accept(t)
  \/ HashCompleted
  \/ JudgeEos \/ JudgeRequeue \/ JudgeEmit \/ JudgeIncomplete \/ JudgeHold \/ JudgeMatch
  \/ RewindPage \/ RewindDone
  \/ FlushDeferred \/ FlushDone
  \/ Verified \/ Unverified \/ RejectPage \/ RejectDone
  \/ RowsDone

Releasing ==
  \/ \E j \in Job : ReleasePage(j) \/ ReleaseDone(j)
  \/ IterationDone

\* Nobody calls iterate() after an exception out of it ("the generator is unusable")
Raised == pc = "raised" /\ UNCHANGED vars

\* With no job in it the generator waits for callers
AllServed == pc = "idle" /\ Active \cup Pending = {} /\ UNCHANGED vars

Calling == ClearQueue \/ \E j \in Job : Enqueue(j) \/ CancelPending(j) \/ CancelActive(j)

Next ==
  Calling \/ AllServed \/ Iterate \/ Starting \/ Ingesting \/ Generating \/ Releasing
  \/ HashRaises \/ Raised

Spec == Init /\ [][Next]_vars

-----------------------------------------------------------------------------
(* Properties.                                                             *)

\* Every variable keeps the type its code counterpart has.
TypeOK ==
  /\ table \in Table
  /\ serial \in Nat
  /\ cache \in [Page -> [Slot -> Seq(Token)]]
  /\ job \in [Job -> JobState]
  /\ pc \in {"idle", "start", "alloc", "prefill", "forward", "sample", "judge",
             "complete", "rewind", "flush", "verify", "reject", "release", "raised"}
  /\ cur \in Job \cup {NoJob}
  /\ todo \subseteq Job
  /\ order = None \/ order \in Seq(Page)
  /\ k \in Nat

\* validate_pagetable, "Check page collections": no page is lost from both
\* dicts or left in the wrong one, whatever jobs start, share, rewind and end.
AllPagesFiled == PagesFiled(table)

\* validate_pagetable, "Check that all hashes are unique": two pages filed
\* under one hash would lose one of them from its dict.
AllHashesUnique == HashesUnique(table)

\* validate_pagetable, "Check job reference counts": a page is referenced once
\* per place it has in a job's block table, mid-allocation and mid-release too.
\* (After a raise the page just released is still in the block table.)
Places(p) == UNION { {<<j, i>> : i \in {m \in DOMAIN job[j].pages : job[j].pages[m] = p}}
                     : j \in Job }
RefCountsExact ==
  pc # "raised" => \A p \in Page : table.page[p].refs = Cardinality(Places(p))

\* Jobs whose block table a forward pass may still read: none after a raise.
Readers ==
  {j \in Active : job[j].fate \in {"go", "rewound"} /\ (pc = "alloc" => j # cur)
                  /\ pc # "raised"}

\* No job ever attends to K/V of another context: below its position, each slot
\* of its block table holds the K/V of its own tokens, and the page records them
\* (validate_pagetable, "Check job sequences").
OwnContext ==
  \A j \in Readers : \A i \in 0 .. job[j].pos - 1 :
    LET p == job[j].pages[PageAt(i) + 1] IN
    /\ cache[p][i % PageSize] = Context(job[j], i)
    /\ table.page[p].toks[i % PageSize] = job[j].ids[i + 1]

\* A complete page filed under a content hash holds the K/V and the tokens that
\* hash names, so every later hit on it is sound.
PublishedSound ==
  \A p \in Page :
    LET rec == table.page[p] IN
    Complete(table, p) /\ rec.phash.base = 0 =>
      /\ Len(rec.phash.toks) % PageSize = 0
      /\ \A s \in Slot :
           LET n == Len(rec.phash.toks) - PageSize + s + 1 IN
           /\ cache[p][s] = SubSeq(rec.phash.toks, 1, n)
           /\ rec.toks[s] = rec.phash.toks[n]

\* CachePage: kv_position is the "Number of tokens in page for which KV is valid
\* assuming prev_hash".
ValidAssuming(p, prev) ==
  \A s \in 0 .. table.page[p].kv - 1 :
    cache[p][s] = prev.toks \o [i \in 1 .. s + 1 |-> table.page[p].toks[i - 1]]

\* It is that for every page linked into a chain of content hashes: a partial
\* match copied from it is a match of the whole context.
LinkedPagesValid ==
  \A p \in Page :
    table.page[p].prev.base = 0 /\ table.page[p].prev # Root =>
      ValidAssuming(p, table.page[p].prev)

\* The page cache never lies about its contents: what a job finds in it by content hash,
\* and what it copies from a page that follows its own prefix, is K/V of that context.
CacheSound == PublishedSound /\ LinkedPagesValid

\* iterate_start_jobs admits a job only if its pages can be found: the
\* allocation never runs out of pages to evict ("available_pages.popleft()").
NeverStarved ==
  pc = "alloc" /\ ~ AllocDone =>
    \/ /\ AllocIndex < ContextPages(job[cur].plen)
       /\ Holds(table, Page, PromptHash(job[cur], AllocIndex))
    \/ \E i \in DOMAIN AvailablePages : table.page[AvailablePages[i]].refs = 0

\* A sequence writes where its own pages end: the page of its position holds
\* exactly the tokens before it and the window's other pages none, so what is
\* written goes to the slots it is recorded in; and taking drafted tokens back
\* finds them there, so its loop ends.
NeverOffFrontier ==
  /\ pc = "forward" => \A j \in todo : AtFrontier(job[j])
  /\ pc = "reject" /\ k > 0 => table.page[RejectedFrom(job[cur])].kv > 0

\* "assert page.ref_count == 1" (iterate_gen, get_input_ids_list): a sequence
\* generates into pages of its own.
WritesUnshared ==
  pc = "forward" => \A j \in todo : WindowOwned(job[j])

\* While tokens are held, no page that a rewind of the hold would truncate is
\* filed under a content hash, where another job could find and share it.
HeldUnpublished ==
  \A j \in Readers :
    LET J == job[j] IN
    J.offset \notin {0, None} /\ J.fate = "go" /\ ~ (pc = "flush" /\ j = cur) =>
      \A i \in PageAt(J.pos - J.offset) .. PageAt(J.pos - 1) :
        table.page[J.pages[i + 1]].phash.base # 0

\* A page that a job's position has passed stays complete for as long as the job may
\* read it, whatever the jobs it shares the page with prefill, rewind, reject or release.
CompleteKept ==
  \A j \in Readers : \A i \in 0 .. PageAt(job[j].pos) - 1 :
    Complete(table, job[j].pages[i + 1])

\* build_eviction_order gives every unreferenced page, each once: no page is
\* lost to allocation and none is handed out twice, whatever trees, broken
\* chains and released placeholders the table holds.
EvictionComplete ==
  LET evicted == BuildEvictionOrder(table, {}) IN
  /\ Range(evicted) = table.unreferenced
  /\ Len(evicted) = Cardinality(table.unreferenced)

\* While no job is half-way through claiming or releasing its pages, a cached
\* page is given up before the page it continues: the beginning of a prompt
\* outlives what followed it.
LeavesFirst ==
  pc = "start" =>
    LET evicted == BuildEvictionOrder(table, {})
        At(i) == table.page[evicted[i]]
    IN \A m, n \in DOMAIN evicted :
         At(m).kv > 0 /\ At(n).kv > 0 /\ At(m).prev = At(n).phash => m < n

=============================================================================
