----------------------------- MODULE Checkpoints -----------------------------
(***************************************************************************)
(* The recurrent checkpoint cache (cache/recurrent.py: RecurrentCache and   *)
(* HostPool) and the half of the disk tier that persists its checkpoints    *)
(* (generator/disk_cache.py).  The main thread stashes checkpoints in       *)
(* pooled host buffers and evicts them; a writer thread writes the queued   *)
(* ones from those same buffers.  The hazards are all about a buffer that   *)
(* is handed to the pool while somebody still needs what it holds, and a    *)
(* checkpoint that changes its name while it is on its way to the disk.     *)
(*                                                                          *)
(* A checkpoint is its page: the bytes of one are the final hash of its     *)
(* anchor page (Final).  A stash is the buffer it lives in.  The lock of    *)
(* the tier is held for one action; what the code does between two          *)
(* acquisitions are separate actions, so the writer runs in between, and so *)
(* are the reads it makes of the tables without the lock.                   *)
(*                                                                          *)
(* Abstracted: sizes (every checkpoint is one unit of the RAM budget; the   *)
(* disk budget, the spacing test and the free-space test may refuse any     *)
(* write, and making room may drop any entry), recency on disk, sibling     *)
(* directories, tensor-parallel sides, errors of the SQLite index.          *)
(***************************************************************************)
EXTENDS Sublist, Integers, Functions, SequencesExt

CONSTANTS
    Keys,          \* page hashes a checkpoint may be filed under
    Content,       \* those that are content hashes (the rest are placeholders)
    Rename,        \* placeholder |-> the final hash its page will get
    Buffers,       \* host buffers
    Capacity,      \* checkpoints the RAM budget holds
    DiskMax,       \* pages and checkpoints the disk budget holds
    MaxQueue,      \* bound: operations queued for the writer when a request starts
    RereadPending, \* whether a checkpoint may be asked for while its write is pending
    None

ASSUME KeysAssumption == Content \subseteq Keys /\ None \notin Keys \cup Buffers
ASSUME RenameAssumption ==
    /\ DOMAIN Rename \subseteq Keys
    /\ \A k \in DOMAIN Rename : Rename[k] \in Content \ DOMAIN Rename
ASSUME KeysFinite == IsFiniteSet(Keys)
ASSUME CapacityAssumption == Capacity \in Nat \ {0}

VARIABLES
    cache,   \* RecurrentCache, oldest first: sequence of [key, stash]
    tier,    \* the pool with what the buffers hold, and the disk tier's tables and queue
    file,    \* states/<key>.rs
    writer,  \* the operation the writer has taken off the queue
    main,    \* where the main thread is, or goes on after
    call     \* the write_state() that it is in

vars == <<cache, tier, file, writer, main, call>>

Final(k) == IF k \in DOMAIN Rename THEN Rename[k] ELSE k

Forget(f, k) == Restrict(f, DOMAIN f \ {k})
Bind(f, k, v) == [x \in DOMAIN f \cup {k} |-> IF x = k THEN v ELSE f[x]]

Cached == {cache[i].key : i \in DOMAIN cache}
StashOf(k) == (CHOOSE e \in ToSet(cache) : e.key = k).stash
Without(k) == Dropped(cache, {e \in ToSet(cache) : e.key = k})
Entry(k, b) == [key |-> k, stash |-> b]
MoveToEnd(k) == Append(Without(k), Entry(k, StashOf(k)))

Op(kind, k, b) == [kind |-> kind, key |-> k, stash |-> b]

Idle == [at |-> "idle"]
NoOp == [phase |-> "idle"]
NoCall == [at |-> "none"]

-----------------------------------------------------------------------------
(* The tier's helpers, on the record of its tables.  Those with a choice    *)
(* return the set of possible outcomes.                                     *)

\* HostPool.give.  From here on anybody may overwrite the buffer.
Give(t, b) == [t EXCEPT !.pool = Append(@, b), !.bytes = [@ EXCEPT ![b] = None]]

\* Mutant: the release runs with the write, asked for or not.
StateWrittenFreed(t, k) ==
    IF k \notin DOMAIN t.pending THEN t
    ELSE Give([t EXCEPT !.pending = Forget(@, k)], t.pending[k])

\* Drop the pending reference; run the deferred release once nothing else is
\* queued for the same stash.
StateWritten(t, k) ==
    IF k \notin DOMAIN t.pending THEN t
    ELSE LET b == t.pending[k]
             u == [t EXCEPT !.pending = Forget(@, k)]
         IN  IF b \in Range(u.pending) \/ b \notin t.deferred THEN u
             ELSE Give([u EXCEPT !.deferred = @ \ {b}], b)

\* The deletions of a queue, in their order.
Lasting(q) == Picked(q, {i \in DOMAIN q : q[i].kind = "delete"})

\* Mutant: the queue is cleared and the stashes are forgotten.
DropQueueOnly(t) == [t EXCEPT !.queue = Lasting(@)]

\* The queued writes go, each like one that is written: a deferred release runs
\* with the last queued write of its stash, unless the writer has another one.
DropQueuedWrites(t) ==
    LET q == t.queue
        keys(kind) == {q[i].key : i \in {j \in DOMAIN q : q[j].kind = kind}}
        rest == Restrict(t.pending, DOMAIN t.pending \ keys("state"))
        freed == t.deferred \ Range(rest)
        last == {i \in DOMAIN q : /\ q[i].kind = "state" /\ q[i].stash \in freed
                                  /\ \A j \in DOMAIN q : j > i /\ q[j].kind = "state" =>
                                       q[j].stash # q[i].stash}
        given == Picked(q, last)
    IN  [t EXCEPT !.pendingPages = @ \ keys("page"), !.pending = rest, !.queue = Lasting(q),
                  !.deferred = @ \ freed,
                  !.pool = @ \o [i \in DOMAIN given |-> given[i].stash],
                  !.bytes = [b \in Buffers |-> IF b \in freed THEN None ELSE @[b]]]

\* A full disk pauses the writes; a run of failures, or a read-only file
\* system, ends them; a single failure does neither.
WriteFailed(t) ==
    {t} \cup IF t.writes = "off" THEN {}
             ELSE {DropQueuedWrites([t EXCEPT !.writes = s]) : s \in {"paused", "off"}}

DropState(t, k) == [t EXCEPT !.states = @ \ {k}, !.queue = Append(@, Op("delete", k, None))]
DropStates(t, gone) ==
    [t EXCEPT !.states = @ \ gone,
              !.queue = @ \o [i \in 1..Cardinality(gone) |-> Op("delete", SetToSeq(gone)[i], None)]]
DropPage(t, k)  == [t EXCEPT !.pages = @ \ {k}]
EvictPage(t, k) == IF k \in t.states THEN DropState(DropPage(t, k), k) ELSE DropPage(t, k)

Used(t) == Cardinality(t.pages) + Cardinality(t.pendingPages)
           + Cardinality(t.states) + Cardinality(DOMAIN t.pending)

\* Evict in any order until one more entry fits; the write is skipped when
\* nothing is left to evict.
MakeRoom(t) ==
    IF Used(t) < DiskMax THEN {t}
    ELSE {EvictPage(t, k) : k \in t.pages} \cup {DropState(t, k) : k \in t.states}

CanWrite(t) == t.writes = "on"

Reserved(t, k, b) == [t EXCEPT !.pending = Bind(@, k, b)]
Queued(t, k, b) == [t EXCEPT !.queue = Append(@, Op("state", k, b))]

\* write_state(), called with the lock held throughout: skipped, queued, or failed.
WriteState(t, k, b) ==
    IF k \in t.states \cup DOMAIN t.pending \/ ~CanWrite(t) THEN {t}
    ELSE LET placed == {Reserved(u, k, b) : u \in MakeRoom(t)}
         IN  {t} \cup {Queued(u, k, b) : u \in placed}
                 \cup UNION {WriteFailed(StateWritten(u, k)) : u \in placed}

WritePage(t, k) ==
    {t} \cup {[u EXCEPT !.pendingPages = @ \cup {k},
                        !.queue = Append(@, Op("page", k, None))] : u \in MakeRoom(t)}

\* A queued write of the old key is replaced: first the new write, then the
\* old operation goes; one the writer has already taken stays.
ReplaceWrite(t, old, new, b) ==
    LET olds(u) == {o \in ToSet(u.queue) : o.kind = "state" /\ o.key = old}
    IN  {IF olds(u) = {} THEN u
         ELSE StateWritten([u EXCEPT !.queue = Dropped(@, olds(u))], old)
            : u \in WriteState(t, new, b)}

-----------------------------------------------------------------------------
(* Buffers.                                                                 *)

\* Every reference to a buffer outside the pool that the program still follows.
Held == {e.stash : e \in ToSet(cache)} \cup Range(tier.pending) \cup Range(tier.candidates)
        \cup (IF main.at = "idle" THEN {} ELSE ToSet(main.release) \cup ({main.stash} \ {None}))
        \cup (IF call = NoCall THEN {} ELSE {call.stash})

Fresh == Buffers \ (Held \cup ToSet(tier.pool))

\* HostPool.take: the last buffer returned, else a new allocation (bound: Buffers).
HasBuffer == tier.pool # <<>> \/ Fresh # {}
TakeBuffer == IF tier.pool # <<>> THEN Last(tier.pool) ELSE CHOOSE b \in Fresh : TRUE
Fill(v) == [tier EXCEPT !.pool = IF @ # <<>> THEN Front(@) ELSE @, !.bytes = [@ EXCEPT ![TakeBuffer] = v]]

-----------------------------------------------------------------------------
(* The main thread.                                                         *)

Begin(at, k, b, new, release, then) ==
    [at |-> at, key |-> k, stash |-> b, new |-> new, release |-> release, offers |-> {}, then |-> then]

At(place) == main.at = place /\ call = NoCall
Resting == At("idle") /\ Len(tier.queue) <= MaxQueue
Call(k, b) == [at |-> "states", key |-> k, stash |-> b]

\* put(): a known key only moves to the end of the queue.
Put(k) ==
    /\ Resting
    /\ IF k \in Cached
       THEN cache' = MoveToEnd(k) /\ UNCHANGED main
       ELSE main' = Begin("room", k, None, TRUE, <<>>, "room") /\ UNCHANGED cache
    /\ UNCHANGED <<tier, file, writer, call>>

\* get_stashed(): from RAM, else read_state().  For a write still pending that
\* returns the stash itself, whose release may already be waiting for the write.
GetStashed(k) ==
    /\ Resting
    /\ IF k \in Cached THEN cache' = MoveToEnd(k) /\ UNCHANGED <<tier, main>>
       ELSE IF k \in DOMAIN tier.pending
       THEN /\ RereadPending
            /\ main' = Begin("room", k, tier.pending[k], FALSE, <<>>, "room")
            /\ UNCHANGED <<cache, tier>>
       ELSE /\ k \in tier.states
            /\ \/ /\ file[k] # None
                  /\ HasBuffer
                  /\ tier' = Fill(file[k])
                  /\ main' = Begin("room", k, TakeBuffer, FALSE, <<>>, "room")
               \/ tier' = DropState(tier, k) /\ UNCHANGED main   \* unreadable, or gone
            /\ UNCHANGED cache
    /\ UNCHANGED <<file, writer, call>>

\* _insert(): evict while the cache is full.  Any entry may be the one that
\* goes: the oldest, or the oldest whose page chain is broken.
EvictForRoom ==
    /\ At("room") /\ Len(cache) >= Capacity
    /\ \E e \in ToSet(cache) :
         /\ cache' = Without(e.key)
         /\ main' = [main EXCEPT !.at = "release", !.release = <<e.stash>>]
    /\ UNCHANGED <<tier, file, writer, call>>

Insert ==
    /\ At("room") /\ Len(cache) < Capacity /\ (main.new => HasBuffer)
    /\ LET b == IF main.new THEN TakeBuffer ELSE main.stash IN
         /\ cache' = Append(cache, Entry(main.key, b))
         /\ tier' = IF main.new THEN Fill(Final(main.key)) ELSE tier
         /\ main' = IF main.new /\ main.key \in Content
                    THEN [main EXCEPT !.at = "drain", !.stash = b, !.then = "note"]
                    ELSE Idle
    /\ UNCHANGED <<file, writer, call>>

\* drain_ready_states(): the candidates whose page the writer has published.
DrainOne ==
    /\ At("drain") /\ tier.ready # <<>>
    /\ LET k == Head(tier.ready) IN
         /\ tier' = [tier EXCEPT !.ready = Tail(@), !.candidates = Forget(@, k)]
         /\ call' = IF k \in DOMAIN tier.candidates THEN Call(k, tier.candidates[k]) ELSE NoCall
    /\ UNCHANGED <<cache, file, writer, main>>

Drained ==
    /\ At("drain") /\ tier.ready = <<>>
    /\ main' = [main EXCEPT !.at = main.then]
    /\ UNCHANGED <<cache, tier, file, writer, call>>

\* note_state(): known already?  On disk, or on its way there?  None of it under the lock.
NoteIfUnlisted ==
    /\ At("note")
    /\ main' = IF main.key \in tier.states THEN Idle ELSE [main EXCEPT !.at = "notePending"]
    /\ UNCHANGED <<cache, tier, file, writer, call>>

NoteIfOnDisk ==
    /\ At("notePending")
    /\ LET known == main.key \in DOMAIN tier.pending \/ ~CanWrite(tier) IN
         /\ main' = IF known \/ main.key \in tier.pages THEN Idle ELSE [main EXCEPT !.at = "noteQueued"]
         /\ call' = IF ~known /\ main.key \in tier.pages THEN Call(main.key, main.stash) ELSE NoCall
    /\ UNCHANGED <<cache, tier, file, writer>>

NoteIfQueued ==
    /\ At("noteQueued")
    /\ IF main.key \in tier.pendingPages
       THEN call' = Call(main.key, main.stash) /\ UNCHANGED tier
       ELSE tier' = [tier EXCEPT !.candidates = Bind(@, main.key, main.stash)] /\ UNCHANGED call
    /\ main' = Idle
    /\ UNCHANGED <<cache, file, writer>>

\* write_page(), called when a page enters the CPU tier.
StorePage(k) ==
    /\ Resting /\ k \in Content
    /\ main' = Begin("drain", k, None, FALSE, <<>>, "page")
    /\ UNCHANGED <<cache, tier, file, writer, call>>

PageIfUnlisted ==
    /\ At("page")
    /\ main' = IF main.key \in tier.pages THEN Idle ELSE [main EXCEPT !.at = "pagePending"]
    /\ UNCHANGED <<cache, tier, file, writer, call>>

PageIfUnqueued ==
    /\ At("pagePending")
    /\ main' = IF main.key \in tier.pendingPages \/ ~CanWrite(tier) THEN Idle
               ELSE [main EXCEPT !.at = "pageRoom"]
    /\ UNCHANGED <<cache, tier, file, writer, call>>

QueuePage ==
    /\ At("pageRoom")
    /\ tier' \in WritePage(tier, main.key)
    /\ main' = Idle
    /\ UNCHANGED <<cache, file, writer, call>>

\* rekey(): a candidate, or a queued write, goes over to the new key under one lock;
\* otherwise what is listed goes, and the new key is written.
Rekey(old) ==
    /\ Resting /\ old \in Cached \cap DOMAIN Rename /\ Rename[old] \notin Cached
    /\ LET new == Rename[old]
           b == StashOf(old)
       IN  /\ cache' = Append(Without(old), Entry(new, b))
           /\ CASE old \in DOMAIN tier.candidates ->
                     /\ tier' = [tier EXCEPT !.candidates = Bind(Forget(@, old), new, @[old])]
                     /\ UNCHANGED call
                [] old \in DOMAIN tier.pending \ DOMAIN tier.candidates ->
                     tier' \in ReplaceWrite(tier, old, new, b) /\ UNCHANGED call
                [] OTHER ->
                     /\ tier' = IF old \in tier.states THEN DropState(tier, old) ELSE tier
                     /\ call' = Call(new, b)
    /\ UNCHANGED <<file, writer, main>>

\* prune_stranded() when the generator goes idle: any checkpoints may have lost
\* the chain of pages below them.
PruneStranded ==
    \E gone \in SUBSET ToSet(cache) :
        /\ Resting /\ gone # {}
        /\ cache' = Dropped(cache, gone)
        /\ main' = Begin("release", None, None, FALSE,
                         LET out == Picked(cache, {i \in DOMAIN cache : cache[i] \in gone})
                         IN  [i \in DOMAIN out |-> out[i].stash], "trim")
        /\ UNCHANGED <<tier, file, writer, call>>

\* release_after_write(), first lock: take the stash's candidates out.
ReleaseNext ==
    /\ At("release") /\ main.release # <<>>
    /\ LET mine == {k \in DOMAIN tier.candidates : tier.candidates[k] = Head(main.release)} IN
         /\ tier' = [tier EXCEPT !.candidates = Restrict(@, DOMAIN @ \ mine)]
         /\ main' = [main EXCEPT !.at = "offer", !.offers = mine]
    /\ UNCHANGED <<cache, file, writer, call>>

\* ... then offer each to the disk: two reads without the lock again.
OfferIfOnDisk(k) ==
    /\ At("offer") /\ k \in main.offers
    /\ IF k \in tier.pages
       THEN call' = Call(k, Head(main.release)) /\ main' = [main EXCEPT !.offers = @ \ {k}]
       ELSE main' = [main EXCEPT !.at = "offerQueued"] /\ UNCHANGED call
    /\ UNCHANGED <<cache, tier, file, writer>>

OfferIfQueued(k) ==
    /\ At("offerQueued") /\ k \in main.offers
    /\ call' = IF k \in tier.pendingPages THEN Call(k, Head(main.release)) ELSE NoCall
    /\ main' = [main EXCEPT !.at = "offer", !.offers = @ \ {k}]
    /\ UNCHANGED <<cache, tier, file, writer>>

\* Mutant: the release does not wait for the write.
SettleNow(t, b) == Give(t, b)

\* ... second lock: give the buffers back now, or when the last write is done.
Settle(t, b) == IF b \in Range(t.pending) THEN [t EXCEPT !.deferred = @ \cup {b}] ELSE Give(t, b)

SettleRelease ==
    /\ At("offer") /\ main.offers = {}
    /\ tier' = Settle(tier, Head(main.release))
    /\ main' = [main EXCEPT !.at = "release", !.release = Tail(@)]
    /\ UNCHANGED <<cache, file, writer, call>>

\* Everything released: back to _insert(), or done; an idle generator also
\* drops the pooled buffers (HostPool.release).
Released ==
    /\ At("release") /\ main.release = <<>>
    /\ main' = IF main.then = "room" THEN [main EXCEPT !.at = "room"] ELSE Idle
    /\ tier' = IF main.then = "trim" THEN [tier EXCEPT !.pool = <<>>] ELSE tier
    /\ UNCHANGED <<cache, file, writer, call>>

\* flush_cache_to_disk(), the checkpoints' half: one after the other, oldest
\* first, those whose page is on disk or on its way are written ...
FlushStates ==
    /\ Resting
    /\ main' = [Begin("flush", None, None, FALSE, <<>>, "flush") EXCEPT !.offers = Cached \cap Content]
    /\ UNCHANGED <<cache, tier, file, writer, call>>

Foremost(i) == cache[i].key \in main.offers /\ \A j \in 1..i - 1 : cache[j].key \notin main.offers

FlushIfOnDisk ==
    /\ At("flush")
    /\ \E i \in DOMAIN cache :
         /\ Foremost(i)
         /\ IF cache[i].key \in tier.pages
            THEN /\ call' = Call(cache[i].key, cache[i].stash)
                 /\ main' = [main EXCEPT !.offers = @ \ {cache[i].key}]
            ELSE main' = [main EXCEPT !.at = "flushQueued"] /\ UNCHANGED call
    /\ UNCHANGED <<cache, tier, file, writer>>

FlushIfQueued ==
    /\ At("flushQueued")
    /\ \E i \in DOMAIN cache :
         /\ Foremost(i)
         /\ call' = IF cache[i].key \in tier.pendingPages
                    THEN Call(cache[i].key, cache[i].stash) ELSE NoCall
         /\ main' = [main EXCEPT !.at = "flush", !.offers = @ \ {cache[i].key}]
    /\ UNCHANGED <<cache, tier, file, writer>>

\* ... then prune_states() drops the ones no chain needs.
PruneStates ==
    /\ At("flush") /\ main.offers = {}
    /\ \E gone \in SUBSET (tier.states \ DOMAIN tier.pending) : tier' = DropStates(tier, gone)
    /\ main' = Idle
    /\ UNCHANGED <<cache, file, writer, call>>

\* abort(), after a generator error.
Abort ==
    /\ Resting
    /\ tier' = DropQueuedWrites([tier EXCEPT !.writes = "off", !.candidates = <<>>])
    /\ UNCHANGED <<cache, file, writer, main, call>>

SpaceReturns ==
    /\ tier.writes = "paused"
    /\ tier' = [tier EXCEPT !.writes = "on"]
    /\ UNCHANGED <<cache, file, writer, main, call>>

-----------------------------------------------------------------------------
(* write_state().  First, without the lock: listed?  Pending, or writing off?          *)

CheckListed ==
    /\ call.at = "states"
    /\ call' = IF call.key \in tier.states THEN NoCall ELSE [call EXCEPT !.at = "pending"]
    /\ UNCHANGED <<cache, tier, file, writer, main>>

\* Mutant: whether a write is pending already is not looked up.
CheckWritable ==
    /\ call.at = "pending"
    /\ call' = IF ~CanWrite(tier) THEN NoCall ELSE [call EXCEPT !.at = "room"]
    /\ UNCHANGED <<cache, tier, file, writer, main>>

CheckPending ==
    /\ call.at = "pending"
    /\ call' = IF call.key \in DOMAIN tier.pending \/ ~CanWrite(tier) THEN NoCall
               ELSE [call EXCEPT !.at = "room"]
    /\ UNCHANGED <<cache, tier, file, writer, main>>

\* With the lock: make room and reserve it, or skip the write (the spacing test, the budget).
ReserveWrite ==
    /\ call.at = "room"
    /\ \/ call' = NoCall /\ UNCHANGED tier
       \/ /\ call' = [call EXCEPT !.at = "queue"]
          /\ \E t \in MakeRoom(tier) : tier' = Reserved(t, call.key, call.stash)
    /\ UNCHANGED <<cache, file, writer, main>>

\* Without it the file is laid out; then the write is queued ...
QueueWrite ==
    /\ call.at = "queue"
    /\ tier' = Queued(tier, call.key, call.stash)
    /\ call' = NoCall
    /\ UNCHANGED <<cache, file, writer, main>>

\* ... or, if that failed, taken back, and the failure counted.
LayoutFails ==
    /\ call.at = "queue"
    /\ tier' = StateWritten(tier, call.key)
    /\ call' = [call EXCEPT !.at = "failed"]
    /\ UNCHANGED <<cache, file, writer, main>>

LayoutFailed ==
    /\ call.at = "failed"
    /\ tier' \in WriteFailed(tier)
    /\ call' = NoCall
    /\ UNCHANGED <<cache, file, writer, main>>

-----------------------------------------------------------------------------
(* The writer thread.                                                       *)

TakeOp ==
    /\ writer = NoOp /\ tier.queue # <<>>
    /\ writer' = [phase |-> "write", op |-> Head(tier.queue), image |-> None]
    /\ tier' = [tier EXCEPT !.queue = Tail(@)]
    /\ UNCHANGED <<cache, file, main, call>>

WriteTmp ==
    /\ writer.phase = "write" /\ writer.op.kind = "state"
    /\ writer' = [writer EXCEPT !.phase = "publish", !.image = tier.bytes[writer.op.stash]]
    /\ UNCHANGED <<cache, tier, file, main, call>>

PublishPage ==
    /\ writer.phase = "write" /\ writer.op.kind = "page"
    /\ LET k == writer.op.key IN
         tier' = [tier EXCEPT !.pendingPages = @ \ {k}, !.pages = @ \cup {k},
                              !.ready = IF k \in DOMAIN tier.candidates THEN Append(@, k) ELSE @]
    /\ writer' = NoOp
    /\ UNCHANGED <<cache, file, main, call>>

PublishState ==
    /\ writer.phase = "publish" /\ writer.op.kind = "state"
    /\ LET k == writer.op.key IN
         /\ file' = [file EXCEPT ![k] = writer.image]
         /\ tier' = StateWritten([tier EXCEPT !.states = @ \cup {k}], k)
    /\ writer' = NoOp
    /\ UNCHANGED <<cache, main, call>>

DeleteState ==
    /\ writer.phase = "write" /\ writer.op.kind = "delete"
    /\ file' = [file EXCEPT ![writer.op.key] = None]
    /\ writer' = NoOp
    /\ UNCHANGED <<cache, tier, main, call>>

\* A write fails at any point before the rename.
FailWrite ==
    /\ writer.phase \in {"write", "publish"} /\ writer.op.kind # "delete"
    /\ tier' \in WriteFailed(IF writer.op.kind = "page"
                             THEN [tier EXCEPT !.pendingPages = @ \ {writer.op.key}]
                             ELSE StateWritten(tier, writer.op.key))
    /\ writer' = NoOp
    /\ UNCHANGED <<cache, file, main, call>>

WriterStep == TakeOp \/ WriteTmp \/ PublishPage \/ PublishState \/ DeleteState

-----------------------------------------------------------------------------
Init ==
    /\ cache = <<>>
    /\ tier = [pool |-> <<>>, bytes |-> [b \in Buffers |-> None],
               states |-> {}, pages |-> {}, pending |-> <<>>, pendingPages |-> {},
               candidates |-> <<>>, ready |-> <<>>, deferred |-> {}, queue |-> <<>>,
               writes |-> "on"]
    /\ file = [k \in Keys |-> None]
    /\ writer = NoOp
    /\ main = Idle
    /\ call = NoCall

Next ==
    \/ \E k \in Keys : \/ Put(k) \/ GetStashed(k)
                       \/ StorePage(k) \/ Rekey(k) \/ OfferIfOnDisk(k) \/ OfferIfQueued(k)
    \/ EvictForRoom \/ Insert \/ DrainOne \/ Drained
    \/ NoteIfUnlisted \/ NoteIfOnDisk \/ NoteIfQueued
    \/ PageIfUnlisted \/ PageIfUnqueued \/ QueuePage
    \/ PruneStranded \/ ReleaseNext \/ SettleRelease \/ Released
    \/ FlushStates \/ FlushIfOnDisk \/ FlushIfQueued \/ PruneStates \/ Abort \/ SpaceReturns
    \/ CheckListed \/ CheckPending \/ ReserveWrite \/ QueueWrite \/ LayoutFails \/ LayoutFailed
    \/ WriterStep \/ FailWrite

Spec == Init /\ [][Next]_vars /\ WF_vars(WriterStep)

-----------------------------------------------------------------------------
\* Every table holds what the code puts there; what the tier says is pending is
\* queued, in the writer's hand, or about to be queued by the main thread.
TypeOK ==
    /\ cache \in Seq([key : Keys, stash : Buffers]) /\ Len(cache) <= Capacity
    /\ tier.bytes \in [Buffers -> Keys \cup {None}]
    /\ file \in [Keys -> Keys \cup {None}]
    /\ tier.pool \in Seq(Buffers) /\ tier.deferred \subseteq Range(tier.pending)
    /\ DOMAIN tier.pending =
         {op.key : op \in {o \in ToSet(tier.queue) : o.kind = "state"}}
         \cup (IF writer # NoOp /\ writer.op.kind = "state" THEN {writer.op.key} ELSE {})
         \cup (IF call.at = "queue" THEN {call.key} ELSE {})
    /\ DOMAIN tier.candidates \cup tier.states \cup ToSet(tier.ready) \subseteq Content

\* HostPool hands out a buffer only when nobody needs what it holds: no pooled
\* buffer belongs to a checkpoint in RAM, to a candidate or to a pending
\* write, and none is in the pool twice.  _release() defers to the writer,
\* rekey_state() and _state_written() count the writes of one stash.
PoolDisjoint ==
    /\ ToSet(tier.pool) \cap Held = {}
    /\ Cardinality(ToSet(tier.pool)) = Len(tier.pool)

\* A checkpoint follows its page: what RAM, a file or a write in progress holds
\* under a hash is the checkpoint of the page that has, or will get, that hash,
\* and no two keys share a buffer.
CheckpointsSound ==
    /\ \A e \in ToSet(cache) : tier.bytes[e.stash] = Final(e.key)
    /\ \A e, f \in ToSet(cache) : e.stash = f.stash => e = f
    /\ \A k \in Keys : file[k] \in {None, Final(k)}

\* A stash whose release waits for the writer is released in the end: after the
\* write, after its failure, or when abort() or a full disk drops it.
DeferredReleased == \A b \in Buffers : b \in tier.deferred ~> b \notin tier.deferred
=============================================================================
