------------------------------ MODULE PageTiers ------------------------------
(***************************************************************************)
(* The two page tiers behind the page table: the pinned-memory tier         *)
(* (generator/cpu_cache.py, CPUPageCache) and the page half of the disk     *)
(* tier (generator/disk_cache.py, DiskPageCache).  Five actors share the    *)
(* slots: the main thread, which stores, promotes and restores pages; the   *)
(* device stream, which executes the copies the main thread enqueued, in    *)
(* order and later; the writer thread, which writes slots to files; the     *)
(* reader pool, which reads files into slots; and the crash of the process. *)
(*                                                                          *)
(* The bytes of a page are its hash.  An event on the stream is the number  *)
(* of copies still ahead of it.  The tier's lock is held for one action.    *)
(*                                                                          *)
(* Abstracted: parents of pages and recency (any page may be the next to    *)
(* go), sizes (one unit per page), tensor-parallel ranks, several streams,  *)
(* sibling directories, the SQLite rows (the directory decides what a       *)
(* restart finds; the rows only add recency), errors of the index.          *)
(***************************************************************************)
EXTENDS Integers, Sequences, FiniteSets, Functions, SequencesExt, Sublist

CONSTANTS
    Pages,       \* content hashes of pages
    Slots,       \* slots of the pinned arena
    DiskMax,     \* pages the disk budget holds
    MaxReads,    \* max_promotions: reads in flight the prefetch may cause
    MaxStream,   \* bound: copies enqueued when a request starts
    MaxQueue,    \* bound: operations queued for the writer when a request starts
    None, Torn, Bad

ASSUME ConstantsDistinct ==
    {None, Torn, Bad} \cap Pages = {} /\ None # Torn /\ None # Bad /\ Torn # Bad
ASSUME ConstantsFinite == IsFiniteSet(Pages) /\ IsFiniteSet(Slots)

VARIABLES
    entries,  \* CPUPageCache.entries: page |-> [slot, state]
    free,     \* slots never handed out, and free_slots
    slab,     \* what each slot holds; Torn while a read is writing it
    events,   \* slot_events: how far the stream must get before a thread may write the slot
    stream,   \* copies enqueued and not yet executed: [dir, slot, page]
    disk,     \* the disk tier's mirror, queue and switches
    file,     \* pages/<hash>.kv; Bad is a file that fails its checksum
    readers,  \* reads in flight: [page, slot, after, image]
    writer,   \* the operation the writer has taken off the queue
    main      \* where the main thread is

vars == <<entries, free, slab, events, stream, disk, file, readers, writer, main>>

Forget(f, k) == Restrict(f, DOMAIN f \ {k})
Bind(f, k, v) == [x \in DOMAIN f \cup {k} |-> IF x = k THEN v ELSE f[x]]

Idle == [at |-> "idle"]
NoOp == [phase |-> "idle"]
Op(kind, p, s, n) == [kind |-> kind, page |-> p, slot |-> s, after |-> n]

-----------------------------------------------------------------------------
(* The disk tier's tables.                                                  *)

\* Mutant: the whole queue goes.
ClearQueue(d) ==
    [d EXCEPT !.pending = @ \ {op.page : op \in {o \in ToSet(d.queue) : o.kind = "page"}}, !.queue = <<>>]

\* The deletions and flushes of a queue, in their order.
Lasting(q) == Picked(q, {i \in DOMAIN q : q[i].kind # "page"})

\* Queued page writes go; deletions and flushes stay.
DropQueuedWrites(d) ==
    [d EXCEPT !.pending = @ \ {op.page : op \in {o \in ToSet(d.queue) : o.kind = "page"}},
              !.queue = Lasting(@)]

\* A full disk pauses the writes; a run of failures, or a read-only file
\* system, ends them; a single failure does neither.
WriteFailed(d) ==
    {d} \cup IF d.disabled THEN {}
             ELSE {DropQueuedWrites([d EXCEPT !.paused = TRUE]),
                   DropQueuedWrites([d EXCEPT !.disabled = TRUE])}

Drop(d, p) == [d EXCEPT !.pages = @ \ {p}, !.queue = Append(@, Op("delete", p, None, 0))]

DropAll(d, gone) ==
    [d EXCEPT !.pages = @ \ gone,
              !.queue = @ \o [i \in 1..Cardinality(gone) |-> Op("delete", SetToSeq(gone)[i], None, 0)]]

\* Entries go until one more page fits (a restart may find the directory over
\* its budget), or until nothing is left to go.
Excess(d) == Cardinality(d.pages) + Cardinality(d.pending) + 1 - DiskMax
Fits(d) == Excess(d) <= 0
MakeRoom(d) ==
    IF Fits(d) THEN {d}
    ELSE {DropAll(d, gone) : gone \in {g \in SUBSET d.pages :
            Cardinality(g) = IF Excess(d) <= Cardinality(d.pages) THEN Excess(d) ELSE Cardinality(d.pages)}}

\* The write may also be skipped: a page not persistable, too little space.
\* It looks into pages and pending_pages without the lock, but a page that is stored has
\* no entry, so no write of it is pending that the writer could finish in between.
WritePage(d, p, s, n) ==
    IF p \in d.pages \cup d.pending \/ d.disabled \/ d.paused THEN {d}
    ELSE {d} \cup {IF Fits(e) THEN [e EXCEPT !.pending = @ \cup {p},
                                           !.queue = Append(@, Op("page", p, s, n))]
                    ELSE e : e \in MakeRoom(d)}

-----------------------------------------------------------------------------
(* The main thread: storing, promoting and restoring pages.                 *)

Resting == main = Idle /\ Len(stream) <= MaxStream /\ Len(disk.queue) <= MaxQueue

Reading(p) == \E r \in readers : r.page = p
Busy(p) == Reading(p) \/ p \in disk.pending

\* store(): copy the dying page into the slot, and queue the write behind the copy.
StoreInto(p, s, others) ==
    LET n == Len(stream) + 1 IN
    /\ entries' = Bind(others, p, [slot |-> s, state |-> "stored"])
    /\ stream' = Append(stream, [dir |-> "out", slot |-> s, page |-> p])
    /\ events' = [events EXCEPT ![s] = n]
    /\ disk' \in WritePage(disk, p, s, n)
    /\ main' = Idle
    /\ UNCHANGED readers

\* Mutant: the read does not wait for the slot's copies.
PromoteAtOnce(p, s, others, after) ==
    /\ entries' = Bind(others, p, [slot |-> s, state |-> "reading"])
    /\ readers' = readers \cup {[page |-> p, slot |-> s, after |-> 0, image |-> None]}
    /\ events' = [events EXCEPT ![s] = 0]
    /\ main' = after
    /\ UNCHANGED <<stream, disk>>

\* begin_promote(): the entry exists from here on; the read waits for the
\* copies of the slot's previous tenant.
PromoteInto(p, s, others, after) ==
    /\ entries' = Bind(others, p, [slot |-> s, state |-> "reading"])
    /\ readers' = readers \cup {[page |-> p, slot |-> s, after |-> events[s], image |-> None]}
    /\ events' = [events EXCEPT ![s] = 0]
    /\ main' = after
    /\ UNCHANGED <<stream, disk>>

Await(p) == [at |-> "await", page |-> p]

Use(how, p, s, others) ==
    \/ how = "store"    /\ StoreInto(p, s, others)
    \/ how = "prefetch" /\ PromoteInto(p, s, others, Idle)
    \/ how = "restore"  /\ PromoteInto(p, s, others, Await(p))

\* _new_slot(): a free slot (they are interchangeable), else the slot of an
\* entry.  The eviction order is a snapshot that may lack any of the entries, so
\* any entry may be the one that goes; one that is being read or written is
\* waited for, after it has left the table.
NewSlot(how, p) ==
    \/ /\ free # {}
       /\ LET s == CHOOSE t \in free : TRUE IN free' = free \ {s} /\ Use(how, p, s, entries)
    \/ /\ free = {}
       /\ \E v \in DOMAIN entries :
            LET s == entries[v].slot
                others == Forget(entries, v)
            IN  IF ~Busy(v) THEN Use(how, p, s, others)
                ELSE /\ entries' = others
                     /\ main' = [at |-> "waitRead", how |-> how, page |-> p, victim |-> v, slot |-> s]
                     /\ UNCHANGED <<events, stream, disk, readers>>
       /\ UNCHANGED free

VictimRead ==
    /\ main.at = "waitRead" /\ ~Reading(main.victim)
    /\ main' = [main EXCEPT !.at = "checkWrite"]
    /\ UNCHANGED <<entries, free, slab, events, stream, disk, file, readers, writer>>

\* Mutant: a pending write of the victim is not waited for.
VictimTaken ==
    /\ main.at = "checkWrite"
    /\ main' = [main EXCEPT !.at = "use"]
    /\ UNCHANGED <<entries, free, slab, events, stream, disk, file, readers, writer>>

\* flush() of the disk tier, if the victim's write is still pending.
VictimFlush ==
    /\ main.at = "checkWrite"
    /\ IF main.victim \in disk.pending
       THEN /\ disk' = [disk EXCEPT !.queue = Append(@, Op("flush", None, None, 0))]
            /\ main' = [main EXCEPT !.at = "waitFlush"]
       ELSE main' = [main EXCEPT !.at = "use"] /\ UNCHANGED disk
    /\ UNCHANGED <<entries, free, slab, events, stream, file, readers, writer>>

UseVictim ==
    /\ main.at = "use"
    /\ Use(main.how, main.page, main.slot, entries)
    /\ UNCHANGED <<free, slab, file, writer>>

\* store() of a page that leaves VRAM; one already stored is not copied again.
Store(p) ==
    /\ Resting /\ p \notin DOMAIN entries
    /\ NewSlot("store", p)
    /\ UNCHANGED <<slab, file, writer>>

\* prefetch() of the pages of a coming allocation.
Prefetch(p) ==
    /\ Resting /\ p \in disk.pages \ DOMAIN entries
    /\ Cardinality(readers) < MaxReads
    /\ NewSlot("prefetch", p)
    /\ UNCHANGED <<slab, file, writer>>

\* allocate_pages() misses a page in VRAM: fetch() it from the tier, or promote
\* it from disk and wait.
Restore(p) ==
    /\ Resting
    /\ \/ p \in DOMAIN entries /\ main' = Await(p)
          /\ UNCHANGED <<entries, free, events, stream, disk, readers>>
       \/ p \in disk.pages \ DOMAIN entries /\ NewSlot("restore", p)
    /\ UNCHANGED <<slab, file, writer>>

\* The read is over: copy the slot to the cache page, or drop the failed entry.
Fetch ==
    /\ main.at = "await" /\ entries[main.page].state # "reading"
    /\ LET p == main.page
           s == entries[p].slot
       IN  IF entries[p].state = "failed"
           THEN /\ entries' = Forget(entries, p)
                /\ free' = free \cup {s}
                /\ UNCHANGED <<events, stream>>
           ELSE /\ stream' = Append(stream, [dir |-> "in", slot |-> s, page |-> p])
                /\ events' = [events EXCEPT ![s] = Len(stream) + 1]
                /\ UNCHANGED <<entries, free>>
    /\ main' = Idle
    /\ UNCHANGED <<slab, disk, file, readers, writer>>

\* abort(), after a generator error.
Abort ==
    /\ main = Idle /\ ~disk.disabled
    /\ disk' = DropQueuedWrites([disk EXCEPT !.disabled = TRUE])
    /\ UNCHANGED <<entries, free, slab, events, stream, file, readers, writer, main>>

SpaceReturns ==
    /\ disk.paused
    /\ disk' = [disk EXCEPT !.paused = FALSE]
    /\ UNCHANGED <<entries, free, slab, events, stream, file, readers, writer, main>>

-----------------------------------------------------------------------------
(* The device stream.                                                       *)

Nearer(n) == IF n = 0 THEN 0 ELSE n - 1

\* A read or a write that waits for an event waits for one copy less.
Closer(op) == [op EXCEPT !.after = Nearer(@)]

\* The copy at the head is done; every event is one copy nearer.
Execute ==
    /\ stream # <<>>
    /\ slab' = IF Head(stream).dir = "out" THEN [slab EXCEPT ![Head(stream).slot] = Head(stream).page] ELSE slab
    /\ stream' = Tail(stream)
    /\ events' = [s \in Slots |-> Nearer(events[s])]
    /\ disk' = [disk EXCEPT !.queue = [i \in DOMAIN @ |-> Closer(@[i])]]
    /\ readers' = {Closer(r) : r \in readers}
    /\ writer' = IF writer = NoOp THEN NoOp ELSE [writer EXCEPT !.op = Closer(@)]
    /\ UNCHANGED <<entries, free, file, main>>

-----------------------------------------------------------------------------
(* The reader pool.                                                         *)

\* The entry is looked up by identity: one that was evicted meanwhile is not touched.
Conclude(r, state) ==
    /\ readers' = readers \ {r}
    /\ entries' = IF r.page \in DOMAIN entries THEN [entries EXCEPT ![r.page].state = state] ELSE entries

ReadFailed(r) ==
    /\ Conclude(r, "failed")
    /\ disk' = IF r.page \in disk.pages THEN Drop(disk, r.page) ELSE disk

BeginRead(r) ==
    /\ r.after = 0 /\ r.image = None
    /\ IF file[r.page] = None THEN ReadFailed(r) /\ UNCHANGED slab
       ELSE /\ readers' = (readers \ {r}) \cup {[r EXCEPT !.image = file[r.page]]}
            /\ slab' = [slab EXCEPT ![r.slot] = Torn]
            /\ UNCHANGED <<entries, disk>>
    /\ UNCHANGED <<free, events, stream, file, writer, main>>

EndRead(r) ==
    /\ r.image # None
    /\ \/ /\ r.image # Bad
          /\ Conclude(r, "stored")
          /\ slab' = [slab EXCEPT ![r.slot] = r.image]
          /\ UNCHANGED disk
       \/ ReadFailed(r) /\ UNCHANGED slab
    /\ UNCHANGED <<free, events, stream, file, writer, main>>

-----------------------------------------------------------------------------
(* The writer thread.                                                       *)

TakeOp ==
    /\ writer = NoOp /\ disk.queue # <<>>
    /\ writer' = [phase |-> "write", op |-> Head(disk.queue), image |-> None]
    /\ disk' = [disk EXCEPT !.queue = Tail(@)]
    /\ UNCHANGED <<entries, free, slab, events, stream, file, readers, main>>

\* Mutant: the mirror lists the page before its file is in place.
WriteTmpListed ==
    /\ writer.phase = "write" /\ writer.op.kind = "page" /\ writer.op.after = 0
    /\ writer' = [writer EXCEPT !.phase = "publish", !.image = slab[writer.op.slot]]
    /\ disk' = [disk EXCEPT !.pages = @ \cup {writer.op.page}]
    /\ UNCHANGED <<entries, free, slab, events, stream, file, readers, main>>

\* Wait for the copy into the slot, then write the temporary file.
WriteTmp ==
    /\ writer.phase = "write" /\ writer.op.kind = "page" /\ writer.op.after = 0
    /\ writer' = [writer EXCEPT !.phase = "publish", !.image = slab[writer.op.slot]]
    /\ UNCHANGED <<entries, free, slab, events, stream, disk, file, readers, main>>

\* Rename, then the mirror (a crash in between leaves the same directory).
PublishPage ==
    /\ writer.phase = "publish"
    /\ file' = [file EXCEPT ![writer.op.page] = writer.image]
    /\ disk' = [disk EXCEPT !.pending = @ \ {writer.op.page}, !.pages = @ \cup {writer.op.page}]
    /\ writer' = NoOp
    /\ UNCHANGED <<entries, free, slab, events, stream, readers, main>>

DeletePage ==
    /\ writer.phase = "write" /\ writer.op.kind = "delete"
    /\ file' = [file EXCEPT ![writer.op.page] = None]
    /\ writer' = NoOp
    /\ UNCHANGED <<entries, free, slab, events, stream, disk, readers, main>>

Flush ==
    /\ writer.phase = "write" /\ writer.op.kind = "flush"
    /\ main' = [main EXCEPT !.at = "use"]
    /\ writer' = NoOp
    /\ UNCHANGED <<entries, free, slab, events, stream, disk, file, readers>>

\* A page write fails at any point before the rename.
FailWrite ==
    /\ writer # NoOp /\ writer.op.kind = "page" /\ (writer.phase = "write" => writer.op.after = 0)
    /\ disk' \in WriteFailed([disk EXCEPT !.pending = @ \ {writer.op.page}])
    /\ writer' = NoOp
    /\ UNCHANGED <<entries, free, slab, events, stream, file, readers, main>>

-----------------------------------------------------------------------------
\* The process dies; the next one starts from the directory (_load_index).  A
\* power loss may also leave files of full size without their data.
Crash ==
    \E lost \in SUBSET {p \in Pages : file[p] # None} :
        LET found == [p \in Pages |-> IF p \in lost THEN Bad ELSE file[p]] IN
        /\ file' = found
        /\ disk' = [pages |-> {p \in Pages : found[p] # None}, pending |-> {}, queue |-> <<>>,
                    paused |-> FALSE, disabled |-> FALSE]
        /\ entries' = <<>> /\ free' = Slots
        /\ slab' = [s \in Slots |-> None] /\ events' = [s \in Slots |-> 0] /\ stream' = <<>>
        /\ readers' = {} /\ writer' = NoOp /\ main' = Idle

Init ==
    /\ entries = <<>> /\ free = Slots
    /\ slab = [s \in Slots |-> None] /\ events = [s \in Slots |-> 0] /\ stream = <<>>
    /\ disk = [pages |-> {}, pending |-> {}, queue |-> <<>>, paused |-> FALSE, disabled |-> FALSE]
    /\ file = [p \in Pages |-> None]
    /\ readers = {} /\ writer = NoOp /\ main = Idle

WriterStep == TakeOp \/ WriteTmp \/ PublishPage \/ DeletePage \/ Flush
ReaderStep == \E r \in readers : BeginRead(r) \/ EndRead(r)
MainStep == VictimRead \/ VictimFlush \/ UseVictim \/ Fetch

Next ==
    \/ \E p \in Pages : Store(p) \/ Prefetch(p) \/ Restore(p)
    \/ MainStep \/ Abort \/ SpaceReturns
    \/ Execute \/ ReaderStep \/ WriterStep \/ FailWrite \/ Crash

\* The stream makes progress, and so does every thread that is not waiting.
Spec == /\ Init /\ [][Next]_vars
        /\ WF_vars(WriterStep) /\ WF_vars(ReaderStep) /\ WF_vars(MainStep) /\ WF_vars(Execute)

-----------------------------------------------------------------------------
\* Every table holds what the code puts there, and no event lies beyond the end
\* of the stream.
TypeOK ==
    /\ DOMAIN entries \subseteq Pages
    /\ \A p \in DOMAIN entries : entries[p] \in [slot : Slots, state : {"stored", "reading", "failed"}]
    /\ slab \in [Slots -> Pages \cup {None, Torn}] /\ events \in [Slots -> 0..Len(stream)]
    /\ \A op \in ToSet(disk.queue) : op.after \in 0..Len(stream)
    /\ \A r \in readers : r.after \in 0..Len(stream)
    /\ file \in [Pages -> Pages \cup {None, Bad}]
    /\ disk.pages \cup disk.pending \subseteq Pages

Owner == IF main.at \in {"waitRead", "checkWrite", "waitFlush", "use"} THEN {main.slot} ELSE {}

\* Every slot has one owner: it is free, an entry's, or in the hands of a main
\* thread that waits for its last user.  A page that is read or written keeps
\* its slot, and a pending page has its write queued or in hand: "A slot whose
\* contents are still being read from disk or written to it must not be
\* recycled" (_busy, and the waits in _evict_one).
SlotsOwned ==
    LET held == {entries[p].slot : p \in DOMAIN entries} IN
    /\ Cardinality(held) = Cardinality(DOMAIN entries)
    /\ Cardinality(free) + Cardinality(held) + Cardinality(Owner) = Cardinality(Slots)
    /\ free \cup held \cup Owner = Slots
    /\ \A p \in disk.pending : p \in DOMAIN entries \/ (Owner # {} /\ main.victim = p)
    /\ \A p \in disk.pending : \/ \E op \in ToSet(disk.queue) : op.kind = "page" /\ op.page = p
                               \/ writer # NoOp /\ writer.op.kind = "page" /\ writer.op.page = p
    /\ \A r \in readers : \/ r.page \in DOMAIN entries /\ entries[r.page].slot = r.slot
                          \/ main.at = "waitRead" /\ main.slot = r.slot

\* The mirror never lists a page without its file, whatever was dropped,
\* queued, failed or lost in a crash, and a file holds the page it is named
\* for, or fails its checksum.
PagesOnDisk ==
    /\ \A p \in disk.pages : file[p] # None
    /\ \A p \in Pages : file[p] \in {None, Bad, p}

\* Together the tiers are a lossy store: no page appears that was not stored,
\* across crashes too, and the copy the stream is executing into a cache page
\* delivers the bytes of the page it was asked for.
Kept == DOMAIN entries \cup disk.pending \cup {p \in Pages : file[p] # None}
        \cup {r.page : r \in readers} \cup {c.page : c \in ToSet(stream)}
        \cup (IF writer = NoOp \/ writer.op.kind # "page" THEN {} ELSE {writer.op.page})
        \cup (IF main.at = "idle" THEN {} ELSE {main.page})

Delivery == IF stream # <<>> /\ Head(stream).dir = "in"
            THEN [page |-> Head(stream).page, bytes |-> slab[Head(stream).slot]] ELSE None

Store0 == INSTANCE LossyStore WITH kept <- Kept, delivery <- Delivery

Promise == Store0!Spec

\* The main thread never waits for a transfer for ever: not for a page being
\* read, not for the flush behind a slot's pending write, whatever fails.
AlwaysReturns == main # Idle ~> main = Idle
=============================================================================
