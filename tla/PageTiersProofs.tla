-------------------------- MODULE PageTiersProofs --------------------------
(***************************************************************************)
(* That the two page tiers keep what they promise, for any number of pages *)
(* and slots and any budget: every slot has one owner and keeps its        *)
(* contents while anybody uses it, the mirror never lists a page without   *)
(* its file, and together the tiers implement LossyStore.                  *)
(*                                                                         *)
(* The inductive invariant has one part per table: who owns which slot     *)
(* (Slotted), what the main thread waits for (Waited), the reads (Reads),  *)
(* the writer's queue (Queues, Tenants), the files (PagesOnDisk) and what  *)
(* each slot holds once the copies ahead are done (Contents).              *)
(***************************************************************************)
EXTENDS PageTiers, SublistProofs

-----------------------------------------------------------------------------
(* Types.                                                                   *)

Entries == [slot : Slots, state : {"stored", "reading", "failed"}]
Copies == [dir : {"out", "in"}, slot : Slots, page : Pages]
Ops == {o \in [kind : {"page", "delete", "flush"}, page : Pages \cup {None},
               slot : Slots \cup {None}, after : Nat] :
          /\ o.kind # "flush" => o.page \in Pages
          /\ o.kind = "page" => o.slot \in Slots}
Disks == [pages : SUBSET Pages, pending : SUBSET Pages, queue : Seq(Ops),
          paused : BOOLEAN, disabled : BOOLEAN]
ReadsUnderWay == [page : Pages, slot : Slots, after : Nat, image : Pages \cup {None, Bad}]
Hands == [phase : {"write", "publish"}, op : Ops, image : Pages \cup {None, Torn}]
Awaits == [at : {"await"}, page : Pages]
Waits == [at : {"waitRead", "checkWrite", "waitFlush", "use"},
          how : {"store", "prefetch", "restore"}, page : Pages, victim : Pages, slot : Slots]

Typed ==
    /\ DOMAIN entries \subseteq Pages
    /\ \A p \in DOMAIN entries : entries[p] \in Entries
    /\ free \subseteq Slots
    /\ slab \in [Slots -> Pages \cup {None, Torn}]
    /\ events \in [Slots -> Nat]
    /\ stream \in Seq(Copies)
    /\ disk \in Disks
    /\ file \in [Pages -> Pages \cup {None, Bad}]
    /\ readers \subseteq ReadsUnderWay
    /\ writer = NoOp \/ writer \in Hands
    /\ main = Idle \/ main \in Awaits \/ main \in Waits

-----------------------------------------------------------------------------
(* The parts of the invariant.                                              *)

\* Every slot is free, one entry's, or the main thread's.
Slotted ==
    /\ \A p, q \in DOMAIN entries : entries[p].slot = entries[q].slot => p = q
    /\ \A p \in DOMAIN entries : entries[p].slot \notin free
    /\ main \in Waits => /\ main.slot \notin free
                         /\ \A p \in DOMAIN entries : entries[p].slot # main.slot
    /\ \A s \in Slots : \/ s \in free
                        \/ \E p \in DOMAIN entries : entries[p].slot = s
                        \/ main \in Waits /\ main.slot = s

\* What the main thread waits for is there, and what it makes room for is not yet.
Waited ==
    /\ main \in Awaits => main.page \in DOMAIN entries
    /\ main \in Waits => /\ main.page \notin DOMAIN entries \cup disk.pending
                         /\ main.victim \notin DOMAIN entries
                         /\ main.victim # main.page
                         /\ main.at = "use" => main.victim \notin disk.pending
    /\ \A p \in disk.pending : \/ p \in DOMAIN entries /\ entries[p].state = "stored"
                               \/ main \in Waits /\ main.victim = p

\* A read under way has its entry, or the main thread waits for it; nothing else
\* happens to its page.
Reads ==
    /\ \A r \in readers :
         /\ \/ r.page \in DOMAIN entries /\ entries[r.page].state = "reading"
               /\ entries[r.page].slot = r.slot
            \/ main \in Waits /\ main.at = "waitRead" /\ main.victim = r.page
               /\ main.slot = r.slot
         /\ r.page \notin disk.pending
         /\ r.image \in {None, Bad, r.page}
         /\ r.image # None => r.after = 0
    /\ \A r, t \in readers : r.page = t.page => r = t

\* The writer's operation is kind k, of page p
InHand(w, k, p) == w \in Hands /\ w.op.kind = k /\ w.op.page = p

\* The writes of pages: one for each pending page, queued or in hand.
PageWrites(d, w) ==
    LET Q == 1..Len(d.queue) IN
    /\ d.pending \cap d.pages = {}
    /\ \A p \in d.pending : \/ \E i \in Q : d.queue[i].kind = "page" /\ d.queue[i].page = p
                            \/ InHand(w, "page", p)
    /\ \A i \in Q : d.queue[i].kind = "page" => /\ d.queue[i].page \in d.pending
                                                /\ ~ InHand(w, "page", d.queue[i].page)
    /\ \A p \in Pages : InHand(w, "page", p) => p \in d.pending
    /\ \A i, j \in Q : d.queue[i].kind = "page" /\ d.queue[j].kind = "page"
                         /\ d.queue[i].page = d.queue[j].page => i = j
    /\ w \in Hands /\ w.phase = "publish" => w.op.kind = "page" /\ w.image = w.op.page

\* The deletions of files: none of a page that the mirror lists, and none behind a
\* newer write of the page.
Deletions(d, w) ==
    LET Q == 1..Len(d.queue) IN
    /\ \A i, j \in Q : d.queue[i].kind = "page" /\ d.queue[j].kind = "delete"
                         /\ d.queue[i].page = d.queue[j].page => j < i
    /\ \A i \in Q : d.queue[i].kind = "delete" => /\ d.queue[i].page \notin d.pages
                                                  /\ ~ InHand(w, "page", d.queue[i].page)
    /\ \A p \in Pages : InHand(w, "delete", p) => p \notin d.pages

\* The flush: there is one only while the main thread waits for it, and the write it
\* waits for is not behind it.
Flushes(d, w, m) ==
    LET Q == 1..Len(d.queue) IN
    /\ \A i \in Q : d.queue[i].kind = "flush" =>
         /\ m \in Waits /\ m.at = "waitFlush"
         /\ w \in Hands => w.op.kind # "flush"
         /\ \A j \in Q : /\ d.queue[j].kind = "flush" => i = j
                         /\ d.queue[j].kind = "page" /\ d.queue[j].page = m.victim => j < i
    /\ w \in Hands /\ w.op.kind = "flush" =>
         m \in Waits /\ m.at = "waitFlush" /\ m.victim \notin d.pending

Queues(d, w, m) == PageWrites(d, w) /\ Deletions(d, w) /\ Flushes(d, w, m)

\* Slot s is where page p is, or was when the main thread began to wait
Tenant(p, s) ==
    \/ p \in DOMAIN entries /\ entries[p].slot = s
    \/ main \in Waits /\ main.victim = p /\ main.slot = s

\* A queued write, and the one in hand, read the slot of their page.
Tenants ==
    /\ \A i \in 1..Len(disk.queue) :
         disk.queue[i].kind = "page" => Tenant(disk.queue[i].page, disk.queue[i].slot)
    /\ writer \in Hands /\ writer.op.kind = "page" => Tenant(writer.op.page, writer.op.slot)

\* No copy from i to j of the stream q writes slot s
Untouched(q, s, i, j) == \A k \in i..j : ~ (q[k].dir = "out" /\ q[k].slot = s)

\* With slots b, slot s holds page p once the first k copies of q are done
Holds(b, q, s, k, p) ==
    \/ b[s] = p /\ Untouched(q, s, 1, k)
    \/ \E j \in 1..k : /\ q[j].dir = "out" /\ q[j].slot = s /\ q[j].page = p
                       /\ Untouched(q, s, j + 1, k)

\* The slot holds the operation's page when its event has passed, and from then on.
Written(b, q, op) ==
    /\ op.after <= Len(q)
    /\ op.kind = "page" => /\ Holds(b, q, op.slot, op.after, op.page)
                           /\ Untouched(q, op.slot, op.after + 1, Len(q))

Contents ==
    /\ \A p \in DOMAIN entries :
         entries[p].state = "stored" => Holds(slab, stream, entries[p].slot, Len(stream), p)
    /\ \A k \in 1..Len(stream) :
         stream[k].dir = "in" => Holds(slab, stream, stream[k].slot, k - 1, stream[k].page)
    /\ \A i \in 1..Len(disk.queue) : Written(slab, stream, disk.queue[i])
    /\ writer \in Hands /\ writer.phase = "write" => Written(slab, stream, writer.op)
    /\ \A r \in readers : r.after <= Len(stream)

\* A read waits for every copy of its slot; the event of a slot that nobody reads into
\* lies behind all of its copies.
Events ==
    /\ \A r \in readers : \A k \in 1..Len(stream) : stream[k].slot = r.slot => k <= r.after
    /\ \A s \in Slots : /\ events[s] <= Len(stream)
                        /\ \/ \E r \in readers : r.slot = s
                           \/ \A k \in 1..Len(stream) : stream[k].slot = s => k <= events[s]

TierInv ==
    /\ Typed /\ Slotted /\ Waited /\ Reads
    /\ Queues(disk, writer, main) /\ Tenants /\ PagesOnDisk
    /\ Contents /\ Events

-----------------------------------------------------------------------------
(* The operators on the writer's queue.                                     *)

\* What lasts of a queue is part of it, each operation once, and none a page write.
LEMMA LastingFacts ==
  ASSUME NEW q \in Seq(Ops)
  PROVE  /\ Lasting(q) \in Seq(Ops)
         /\ \E h \in [1..Len(Lasting(q)) -> 1..Len(q)] :
              /\ \A i \in 1..Len(Lasting(q)) :
                   Lasting(q)[i] = q[h[i]] /\ q[h[i]].kind # "page"
              /\ \A i, j \in 1..Len(Lasting(q)) : h[i] = h[j] => i = j
<1> DEFINE stay == {i \in DOMAIN q : q[i].kind # "page"}
           N == Len(Lasting(q))
<1>1. DOMAIN q = 1..Len(q)
  BY LenProperties
<1>2. stay \in SUBSET (1..Len(q)) /\ Lasting(q) = Picked(q, stay)
  BY <1>1 DEF Lasting
<1>3. \A k \in stay : q[k].kind # "page"
  OBVIOUS
<1> HIDE DEF stay
<1>4. Lasting(q) \in Seq(Ops) /\ N \in Nat
  BY <1>2, PickedFacts
<1>a. PICK h : Picks(h, Lasting(q), q, stay)
  BY <1>2, PickedFacts
<1>5. /\ h \in [1..N -> stay]
      /\ \A i \in 1..N : Lasting(q)[i] = q[h[i]]
      /\ \A i, j \in 1..N : i < j => h[i] < h[j]
  BY <1>a DEF Picks
<1>6. h \in [1..N -> 1..Len(q)] /\ \A i \in 1..N : h[i] \in Int
  <2>1. stay \subseteq 1..Len(q) /\ Len(q) \in Nat
    BY <1>2, LenProperties
  <2>2. \A i \in 1..N : h[i] \in stay
    BY <1>5
  <2> HIDE DEF N
  <2>3. \A i \in 1..N : h[i] \in 1..Len(q)
    BY <2>1, <2>2
  <2>. QED BY <1>5, <2>1, <2>3
<1>7. ASSUME NEW i \in 1..N, NEW j \in 1..N, h[i] = h[j]
      PROVE  i = j
  <2>1. ~ (i < j) /\ ~ (j < i)
    BY <1>5, <1>6, <1>7
  <2>. QED BY <1>4, <2>1
<1>. QED BY <1>3, <1>4, <1>5, <1>6, <1>7

\* Dropping the queued writes leaves the mirror and the switches alone, drops from
\* pending what was queued, and keeps a part of the queue without page writes.
LEMMA DropFacts ==
  ASSUME NEW d \in Disks
  PROVE  LET e == DropQueuedWrites(d) IN
         /\ e \in Disks /\ e.pages = d.pages /\ e.pending \subseteq d.pending
         /\ \A p \in d.pending : p \in e.pending <=>
              ~ \E i \in 1..Len(d.queue) : d.queue[i].kind = "page" /\ d.queue[i].page = p
         /\ \E h \in [1..Len(e.queue) -> 1..Len(d.queue)] :
              /\ \A i \in 1..Len(e.queue) : e.queue[i] = d.queue[h[i]] /\ e.queue[i].kind # "page"
              /\ \A i, j \in 1..Len(e.queue) : h[i] = h[j] => i = j
<1> DEFINE e == DropQueuedWrites(d)
<1>1. d.queue \in Seq(Ops) /\ d.pending \in SUBSET Pages /\ d.pages \in SUBSET Pages
  BY DEF Disks
<1>2. DOMAIN d.queue = 1..Len(d.queue)
  BY <1>1
<1>3. /\ e.queue = Lasting(d.queue) /\ e.pages = d.pages
      /\ e.pending = d.pending \ {op.page : op \in {o \in ToSet(d.queue) : o.kind = "page"}}
      /\ e = [d EXCEPT !.pending = e.pending, !.queue = Lasting(d.queue)]
  BY DEF Disks, DropQueuedWrites
<1>4. \A o : o \in ToSet(d.queue) <=> \E i \in 1..Len(d.queue) : o = d.queue[i]
  BY <1>2 DEF ToSet
<1>5. \A p \in d.pending : p \in e.pending <=>
        ~ \E i \in 1..Len(d.queue) : d.queue[i].kind = "page" /\ d.queue[i].page = p
  <2> DEFINE queued == {op.page : op \in {o \in ToSet(d.queue) : o.kind = "page"}}
  <2>1. \A p : p \in queued <=> \E o \in ToSet(d.queue) : o.kind = "page" /\ o.page = p
    OBVIOUS
  <2>2. \A p : p \in queued <=>
          \E i \in 1..Len(d.queue) : d.queue[i].kind = "page" /\ d.queue[i].page = p
    BY <1>4, <2>1
  <2>3. e.pending = d.pending \ queued
    BY <1>3
  <2> HIDE DEF queued, e
  <2>. QED BY <2>2, <2>3
<1>6. e \in Disks
  <2>1. Lasting(d.queue) \in Seq(Ops) /\ e.pending \in SUBSET Pages
    BY <1>1, <1>3, LastingFacts
  <2>. QED BY <1>3, <2>1 DEF Disks
<1> HIDE DEF e
<1>7. \E h \in [1..Len(e.queue) -> 1..Len(d.queue)] :
        /\ \A i \in 1..Len(e.queue) : e.queue[i] = d.queue[h[i]] /\ e.queue[i].kind # "page"
        /\ \A i, j \in 1..Len(e.queue) : h[i] = h[j] => i = j
  <2> DEFINE r == Lasting(d.queue)
  <2>1. PICK h \in [1..Len(r) -> 1..Len(d.queue)] :
          /\ \A i \in 1..Len(r) : r[i] = d.queue[h[i]] /\ d.queue[h[i]].kind # "page"
          /\ \A i, j \in 1..Len(r) : h[i] = h[j] => i = j
    BY <1>1, LastingFacts
  <2>2. e.queue = r
    BY <1>3
  <2> HIDE DEF r
  <2>3. \A i \in 1..Len(r) : r[i].kind # "page"
    BY <2>1
  <2>. QED BY <2>1, <2>2, <2>3
<1>. QED BY <1>3, <1>5, <1>6, <1>7 DEF e

\* The queue of e is the queue of d with more behind it: deletions of pages that left
\* the mirror, and perhaps at the end the write of page p.
Extended(d, e, p, s, n) ==
    /\ e \in Disks /\ e.pages \subseteq d.pages
    /\ e.paused = d.paused /\ e.disabled = d.disabled
    /\ Len(d.queue) <= Len(e.queue)
    /\ \A i \in 1..Len(d.queue) : e.queue[i] = d.queue[i]
    /\ \A i \in 1..Len(e.queue) : i > Len(d.queue) =>
         \/ /\ e.queue[i].kind = "delete" /\ e.queue[i].after = 0
            /\ e.queue[i].page \in d.pages \ e.pages
         \/ /\ i = Len(e.queue) /\ e.queue[i] = Op("page", p, s, n)
            /\ p \notin d.pages \cup d.pending /\ p \in e.pending
    /\ \/ e.pending = d.pending
       \/ /\ e.pending = d.pending \cup {p} /\ p \notin d.pages \cup d.pending
          /\ Len(d.queue) < Len(e.queue) /\ e.queue[Len(e.queue)] = Op("page", p, s, n)

\* A finite set has an enumeration.
LEMMA Enumerated ==
  ASSUME NEW T, IsFiniteSet(T)
  PROVE  Cardinality(T) \in Nat /\ SetToSeq(T) \in [1..Cardinality(T) -> T]
<1>1. Cardinality(T) \in Nat /\ ExistsBijection(1..Cardinality(T), T)
  BY FS_CardinalityType
<1>2. PICK f \in Bijection(1..Cardinality(T), T) : TRUE
  BY <1>1 DEF ExistsBijection
<1>3. f \in [1..Cardinality(T) -> T] /\ IsInjective(f)
  BY <1>2 DEF Bijection, Injection, IsInjective
<1>. QED BY <1>1, <1>3 DEF SetToSeq

\* Entries dropped from the mirror leave their deletions at the end of the queue.
LEMMA DropAllFacts ==
  ASSUME NEW d \in Disks, NEW gone \in SUBSET d.pages, NEW p, NEW s, NEW n
  PROVE  /\ Extended(d, DropAll(d, gone), p, s, n)
         /\ DropAll(d, gone).pending = d.pending
         /\ \A i \in 1..Len(DropAll(d, gone).queue) : i > Len(d.queue) =>
              DropAll(d, gone).queue[i].kind = "delete"
<1> DEFINE e == DropAll(d, gone)
           tail == [i \in 1..Cardinality(gone) |-> Op("delete", SetToSeq(gone)[i], None, 0)]
<1>1. d.queue \in Seq(Ops) /\ d.pages \in SUBSET Pages
  BY DEF Disks
<1>2. IsFiniteSet(gone)
  BY <1>1, ConstantsFinite, FS_Subset
<1>3. Cardinality(gone) \in Nat /\ \A i \in 1..Cardinality(gone) : SetToSeq(gone)[i] \in gone
  BY <1>2, Enumerated
<1>4. \A i \in 1..Cardinality(gone) : tail[i] \in Ops
  BY <1>1, <1>3 DEF Ops, Op
<1>5. tail \in Seq(Ops) /\ Len(tail) = Cardinality(gone)
  BY <1>3, <1>4
<1>6. \A i \in 1..Len(tail) : /\ tail[i].kind = "delete" /\ tail[i].after = 0
                              /\ tail[i].page \in gone
  BY <1>3, <1>5 DEF Op
<1>7. e = [d EXCEPT !.pages = d.pages \ gone, !.queue = d.queue \o tail]
  BY DEF DropAll, Disks
<1> HIDE DEF tail, e
<1>8. /\ d.queue \o tail \in Seq(Ops)
      /\ Len(d.queue \o tail) = Len(d.queue) + Len(tail)
      /\ \A i \in 1..Len(d.queue) : (d.queue \o tail)[i] = d.queue[i]
      /\ \A i \in 1..Len(d.queue \o tail) : i > Len(d.queue) =>
           i - Len(d.queue) \in 1..Len(tail) /\ (d.queue \o tail)[i] = tail[i - Len(d.queue)]
  <2>1. /\ d.queue \o tail \in Seq(Ops)
        /\ Len(d.queue \o tail) = Len(d.queue) + Len(tail)
        /\ \A i \in 1..Len(d.queue) + Len(tail) : (d.queue \o tail)[i] =
             IF i <= Len(d.queue) THEN d.queue[i] ELSE tail[i - Len(d.queue)]
    BY <1>1, <1>5, ConcatProperties
  <2>2. Len(d.queue) \in Nat /\ Len(tail) \in Nat
    BY <1>1, <1>5
  <2>. QED BY <2>1, <2>2
<1>9. /\ e \in Disks /\ e.pages = d.pages \ gone /\ e.queue = d.queue \o tail
      /\ e.pending = d.pending /\ e.paused = d.paused /\ e.disabled = d.disabled
  BY <1>1, <1>7, <1>8 DEF Disks
<1>10. \A i \in 1..Len(e.queue) : i > Len(d.queue) =>
         /\ e.queue[i].kind = "delete" /\ e.queue[i].after = 0
         /\ e.queue[i].page \in d.pages \ e.pages
  BY <1>6, <1>8, <1>9
<1>11. Len(d.queue) <= Len(e.queue) /\ \A i \in 1..Len(d.queue) : e.queue[i] = d.queue[i]
  BY <1>1, <1>5, <1>8, <1>9
<1>. QED BY <1>9, <1>10, <1>11 DEF Extended, e

\* A disk table is an extension of itself.
LEMMA SameExtended ==
  ASSUME NEW d \in Disks, NEW p, NEW s, NEW n
  PROVE  Extended(d, d, p, s, n)
<1>1. d.queue \in Seq(Ops)
  BY DEF Disks
<1>2. Len(d.queue) \in Nat
  BY <1>1
<1>. QED BY <1>2 DEF Extended

\* One entry dropped from the mirror leaves its deletion at the end of the queue.
LEMMA DropOneFacts ==
  ASSUME NEW d \in Disks, NEW v \in d.pages, NEW p, NEW s, NEW n
  PROVE  Extended(d, Drop(d, v), p, s, n) /\ Drop(d, v).pending = d.pending
<1> DEFINE e == Drop(d, v)
           op == Op("delete", v, None, 0)
<1>1. d.queue \in Seq(Ops) /\ d.pages \in SUBSET Pages
  BY DEF Disks
<1>2. op \in Ops /\ op.kind = "delete" /\ op.after = 0 /\ op.page = v
  BY <1>1 DEF Ops, Op
<1>3. e = [d EXCEPT !.pages = d.pages \ {v}, !.queue = Append(d.queue, op)]
  BY DEF Drop, Disks
<1> HIDE DEF op, e
<1>4. /\ Append(d.queue, op) \in Seq(Ops) /\ Len(Append(d.queue, op)) = Len(d.queue) + 1
      /\ Len(d.queue) \in Nat
      /\ \A i \in 1..Len(d.queue) : Append(d.queue, op)[i] = d.queue[i]
      /\ Append(d.queue, op)[Len(d.queue) + 1] = op
  BY <1>1, <1>2, AppendProperties
<1>5. /\ e \in Disks /\ e.pages = d.pages \ {v} /\ e.queue = Append(d.queue, op)
      /\ e.pending = d.pending /\ e.paused = d.paused /\ e.disabled = d.disabled
  BY <1>1, <1>3, <1>4 DEF Disks
<1>6. \A i \in 1..Len(e.queue) : i > Len(d.queue) => i = Len(d.queue) + 1 /\ e.queue[i] = op
  BY <1>4, <1>5
<1>7. Len(d.queue) <= Len(e.queue) /\ \A i \in 1..Len(d.queue) : e.queue[i] = d.queue[i]
  BY <1>4, <1>5
<1>8. \A i \in 1..Len(e.queue) : i > Len(d.queue) =>
        /\ e.queue[i].kind = "delete" /\ e.queue[i].after = 0
        /\ e.queue[i].page \in d.pages \ e.pages
  BY <1>2, <1>5, <1>6
<1>. QED BY <1>5, <1>7, <1>8 DEF Extended, e

\* A page write goes behind the deletions that made room for it.
LEMMA QueuedFacts ==
  ASSUME NEW d \in Disks, NEW f, NEW p \in Pages, NEW s \in Slots, NEW n \in Nat,
         Extended(d, f, p, s, n), f.pending = d.pending, p \notin d.pages \cup d.pending,
         \A i \in 1..Len(f.queue) : i > Len(d.queue) => f.queue[i].kind = "delete"
  PROVE  Extended(d, [f EXCEPT !.pending = @ \cup {p}, !.queue = Append(@, Op("page", p, s, n))],
                  p, s, n)
<1> DEFINE op == Op("page", p, s, n)
           e == [f EXCEPT !.pending = @ \cup {p}, !.queue = Append(@, op)]
<1>1. f \in Disks /\ f.queue \in Seq(Ops) /\ f.pending \in SUBSET Pages
  BY DEF Extended, Disks
<1>2. op \in Ops /\ op.kind = "page"
  BY DEF Ops, Op
<1>3. e = [f EXCEPT !.pending = f.pending \cup {p}, !.queue = Append(f.queue, op)]
  BY <1>1 DEF Disks
<1> HIDE DEF op, e
<1>4. /\ Append(f.queue, op) \in Seq(Ops) /\ Len(Append(f.queue, op)) = Len(f.queue) + 1
      /\ Len(f.queue) \in Nat /\ Len(d.queue) \in Nat
      /\ \A i \in 1..Len(f.queue) : Append(f.queue, op)[i] = f.queue[i]
      /\ Append(f.queue, op)[Len(f.queue) + 1] = op
  <2>1. d.queue \in Seq(Ops)
    BY DEF Disks
  <2>. QED BY <1>1, <1>2, <2>1, AppendProperties
<1>5. /\ e \in Disks /\ e.pages = f.pages /\ e.queue = Append(f.queue, op)
      /\ e.pending = d.pending \cup {p} /\ e.paused = f.paused /\ e.disabled = f.disabled
  BY <1>1, <1>3, <1>4 DEF Disks
<1>6. Len(d.queue) < Len(e.queue) /\ \A i \in 1..Len(d.queue) : e.queue[i] = d.queue[i]
  BY <1>4, <1>5 DEF Extended
<1>7. ASSUME NEW i \in 1..Len(e.queue), i > Len(d.queue)
      PROVE  \/ /\ e.queue[i].kind = "delete" /\ e.queue[i].after = 0
                /\ e.queue[i].page \in d.pages \ e.pages
             \/ i = Len(e.queue) /\ e.queue[i] = op /\ p \in e.pending
  <2>1. CASE i = Len(f.queue) + 1
    BY <1>4, <1>5, <2>1
  <2>2. CASE i # Len(f.queue) + 1
    <3>1. i \in 1..Len(f.queue) /\ e.queue[i] = f.queue[i]
      BY <1>4, <1>5, <2>2
    <3>2. \/ /\ f.queue[i].kind = "delete" /\ f.queue[i].after = 0
             /\ f.queue[i].page \in d.pages \ f.pages
          \/ f.queue[i] = op
      BY <1>7, <3>1 DEF Extended, op
    <3>3. f.queue[i].kind # "page"
      BY <1>7, <3>1
    <3>. QED BY <1>2, <1>5, <3>1, <3>2, <3>3
  <2>. QED BY <2>1, <2>2
<1>8. e.queue[Len(e.queue)] = op
  BY <1>4, <1>5
<1>9. e.pages \subseteq d.pages /\ e.paused = d.paused /\ e.disabled = d.disabled
  BY <1>5 DEF Extended
<1>. QED
  <2>1. Len(d.queue) <= Len(e.queue)
    BY <1>4, <1>5, <1>6
  <2>2. Extended(d, e, p, s, n)
    BY <1>5, <1>6, <1>7, <1>8, <1>9, <2>1 DEF Extended, op
  <2>. QED BY <2>2 DEF e, op

\* write_page only ever adds to the queue, and the write itself last.
LEMMA WriteFacts ==
  ASSUME NEW d \in Disks, NEW p \in Pages, NEW s \in Slots, NEW n \in Nat,
         NEW e \in WritePage(d, p, s, n)
  PROVE  Extended(d, e, p, s, n)
<1>1. CASE e = d
  BY <1>1, SameExtended
<1>2. CASE e # d
  <2>1. p \notin d.pages \cup d.pending
    BY <1>2 DEF WritePage
  <2>2. PICK f \in MakeRoom(d) :
          e = IF Fits(f) THEN [f EXCEPT !.pending = @ \cup {p},
                                        !.queue = Append(@, Op("page", p, s, n))]
              ELSE f
    BY <1>2, <2>1 DEF WritePage
  <2>3. /\ Extended(d, f, p, s, n) /\ f.pending = d.pending
        /\ \A i \in 1..Len(f.queue) : i > Len(d.queue) => f.queue[i].kind = "delete"
    <3>1. CASE f = d
      <4>1. d.queue \in Seq(Ops)
        BY DEF Disks
      <4>2. Len(d.queue) \in Nat
        BY <4>1
      <4>. QED BY <3>1, <4>2, SameExtended
    <3>2. CASE f # d
      <4>1. PICK gone \in SUBSET d.pages : f = DropAll(d, gone)
        BY <2>2, <3>2 DEF MakeRoom
      <4>. QED BY <4>1, DropAllFacts
    <3>. QED BY <3>1, <3>2
  <2>. QED BY <2>1, <2>2, <2>3, QueuedFacts
<1>. QED BY <1>1, <1>2

-----------------------------------------------------------------------------
(* What the operators do to the writer's queue.                             *)

\* Nothing waits behind the flush
NotFlushing(m) == ~ (m \in Waits /\ m.at = "waitFlush")

\* The queue stays in order when it grows, provided a new page write meets no flush.
LEMMA ExtensionKeepsQueues ==
  ASSUME NEW d \in Disks, NEW e, NEW w, NEW m, NEW m2, NEW p \in Pages, NEW s, NEW n,
         Queues(d, w, m), Extended(d, e, p, s, n),
         \/ m2 = m /\ e.pending = d.pending
         \/ NotFlushing(m)
  PROVE  Queues(e, w, m2)
<1>1. Len(d.queue) \in Nat /\ Len(e.queue) \in Nat /\ Len(d.queue) <= Len(e.queue)
  <2>1. d.queue \in Seq(Ops) /\ e.queue \in Seq(Ops)
    BY DEF Extended, Disks
  <2>. QED BY <2>1 DEF Extended
<1>2. \A i \in 1..Len(d.queue) : i \in 1..Len(e.queue) /\ e.queue[i] = d.queue[i]
  BY <1>1 DEF Extended
<1> DEFINE new(i) == i > Len(d.queue)
<1>3. \A i \in 1..Len(e.queue) : new(i) =>
        \/ e.queue[i].kind = "delete" /\ e.queue[i].page \in d.pages \ e.pages
        \/ /\ i = Len(e.queue) /\ e.queue[i].kind = "page" /\ e.queue[i].page = p
           /\ p \notin d.pages \cup d.pending /\ p \in e.pending
  BY DEF Extended, Op
<1>4. \A i \in 1..Len(e.queue) : new(i) \/ i \in 1..Len(d.queue)
  BY <1>1
<1>5. /\ e.pages \subseteq d.pages /\ d.pending \subseteq e.pending
      /\ \A x \in e.pending : x \in d.pending \/ (x = p /\ p \notin d.pages \cup d.pending)
  BY DEF Extended
<1>6. d.pending \cap d.pages = {}
  BY DEF Queues, PageWrites
<1>7. PageWrites(e, w)
  <2>1. e.pending \cap e.pages = {}
    BY <1>5, <1>6
  <2>2. ASSUME NEW x \in e.pending
        PROVE  \/ \E i \in 1..Len(e.queue) : e.queue[i].kind = "page" /\ e.queue[i].page = x
               \/ InHand(w, "page", x)
    <3>1. CASE x \in d.pending
      BY <1>2, <3>1 DEF Queues, PageWrites
    <3>2. CASE x \notin d.pending
      BY <1>1, <3>2 DEF Extended, Op
    <3>. QED BY <3>1, <3>2
  <2>3. ASSUME NEW i \in 1..Len(e.queue), e.queue[i].kind = "page"
        PROVE  e.queue[i].page \in e.pending /\ ~ InHand(w, "page", e.queue[i].page)
    <3>1. CASE new(i)
      BY <1>3, <2>3, <3>1 DEF Queues, PageWrites
    <3>2. CASE ~ new(i)
      BY <1>2, <1>4, <1>5, <2>3, <3>2 DEF Queues, PageWrites
    <3>. QED BY <3>1, <3>2
  <2>4. \A x \in Pages : InHand(w, "page", x) => x \in e.pending
    BY <1>5 DEF Queues, PageWrites
  <2>5. ASSUME NEW i \in 1..Len(e.queue), NEW j \in 1..Len(e.queue),
               e.queue[i].kind = "page", e.queue[j].kind = "page",
               e.queue[i].page = e.queue[j].page
        PROVE  i = j
    <3>1. CASE new(i) /\ new(j)
      BY <1>3, <2>5, <3>1
    <3>2. CASE ~ new(i) /\ ~ new(j)
      BY <1>2, <1>4, <2>5, <3>2 DEF Queues, PageWrites
    <3>3. ASSUME NEW k \in 1..Len(e.queue), NEW l \in 1..Len(e.queue), new(k), ~ new(l),
                 e.queue[k].kind = "page", e.queue[l].kind = "page"
          PROVE  e.queue[k].page # e.queue[l].page
      <4>1. e.queue[k].page \notin d.pending
        BY <1>3, <3>3
      <4>2. e.queue[l].page \in d.pending
        BY <1>2, <1>4, <3>3 DEF Queues, PageWrites
      <4>. QED BY <4>1, <4>2
    <3>. QED BY <2>5, <3>1, <3>2, <3>3
  <2>6. w \in Hands /\ w.phase = "publish" => w.op.kind = "page" /\ w.image = w.op.page
    BY DEF Queues, PageWrites
  <2>. QED BY <2>1, <2>2, <2>3, <2>4, <2>5, <2>6 DEF PageWrites
<1>8. Deletions(e, w)
  <2>1. ASSUME NEW i \in 1..Len(e.queue), NEW j \in 1..Len(e.queue),
               e.queue[i].kind = "page", e.queue[j].kind = "delete",
               e.queue[i].page = e.queue[j].page
        PROVE  j < i
    <3>1. CASE ~ new(i) /\ ~ new(j)
      BY <1>2, <1>4, <2>1, <3>1 DEF Queues, Deletions
    <3>2. CASE new(i) /\ ~ new(j)
      BY <1>1, <3>2
    <3>3. CASE new(j)
      <4>1. e.queue[j].page \in d.pages
        BY <1>3, <2>1, <3>3
      <4>2. e.queue[i].page \notin d.pages
        BY <1>2, <1>3, <1>4, <1>6, <2>1 DEF Queues, PageWrites
      <4>. QED BY <2>1, <4>1, <4>2
    <3>. QED BY <3>1, <3>2, <3>3
  <2>2. ASSUME NEW i \in 1..Len(e.queue), e.queue[i].kind = "delete"
        PROVE  e.queue[i].page \notin e.pages /\ ~ InHand(w, "page", e.queue[i].page)
    <3>1. CASE new(i)
      <4>1. e.queue[i].page \in d.pages \ e.pages
        BY <1>3, <2>2, <3>1
      <4>2. d.pages \subseteq Pages
        BY DEF Disks
      <4>. QED BY <1>6, <4>1, <4>2 DEF Queues, PageWrites
    <3>2. CASE ~ new(i)
      BY <1>2, <1>4, <1>5, <2>2, <3>2 DEF Queues, Deletions
    <3>. QED BY <3>1, <3>2
  <2>3. \A x \in Pages : InHand(w, "delete", x) => x \notin e.pages
    BY <1>5 DEF Queues, Deletions
  <2>. QED BY <2>1, <2>2, <2>3 DEF Deletions
<1>9. Flushes(e, w, m2)
  <2>1. CASE NotFlushing(m)
    <3>1. \A i \in 1..Len(e.queue) : e.queue[i].kind # "flush"
      BY <1>2, <1>3, <1>4, <2>1 DEF Queues, Flushes, NotFlushing
    <3>2. ~ (w \in Hands /\ w.op.kind = "flush")
      BY <2>1 DEF Queues, Flushes, NotFlushing
    <3>. QED BY <3>1, <3>2 DEF Flushes
  <2>2. CASE m2 = m /\ e.pending = d.pending
    <3>1. \A i \in 1..Len(e.queue) : new(i) => e.queue[i].kind = "delete"
      BY <1>3, <2>2
    <3>2. \A i \in 1..Len(e.queue) : e.queue[i].kind \in {"page", "flush"} =>
            i \in 1..Len(d.queue) /\ e.queue[i] = d.queue[i]
      BY <1>2, <1>4, <3>1
    <3>3. ASSUME NEW i \in 1..Len(e.queue), e.queue[i].kind = "flush"
          PROVE  /\ m \in Waits /\ m.at = "waitFlush"
                 /\ w \in Hands => w.op.kind # "flush"
                 /\ \A j \in 1..Len(e.queue) :
                      /\ e.queue[j].kind = "flush" => i = j
                      /\ e.queue[j].kind = "page" /\ e.queue[j].page = m.victim => j < i
      BY <3>2, <3>3 DEF Queues, Flushes
    <3>4. w \in Hands /\ w.op.kind = "flush" =>
            m \in Waits /\ m.at = "waitFlush" /\ m.victim \notin e.pending
      BY <2>2 DEF Queues, Flushes
    <3>. QED BY <2>2, <3>3, <3>4 DEF Flushes
  <2>. QED BY <2>1, <2>2
<1>. QED BY <1>7, <1>8, <1>9 DEF Queues

\* The queue stays in order when its page writes are dropped.
LEMMA DropKeepsQueues ==
  ASSUME NEW d \in Disks, NEW w, NEW m, Queues(d, w, m)
  PROVE  Queues(DropQueuedWrites(d), w, m)
<1> DEFINE e == DropQueuedWrites(d)
<1>1. /\ e \in Disks /\ e.pages = d.pages /\ e.pending \subseteq d.pending
      /\ \A p \in d.pending : p \in e.pending <=>
           ~ \E i \in 1..Len(d.queue) : d.queue[i].kind = "page" /\ d.queue[i].page = p
  BY DropFacts
<1>2. PICK h \in [1..Len(e.queue) -> 1..Len(d.queue)] :
        /\ \A i \in 1..Len(e.queue) : e.queue[i] = d.queue[h[i]] /\ e.queue[i].kind # "page"
        /\ \A i, j \in 1..Len(e.queue) : h[i] = h[j] => i = j
  BY DropFacts
<1> HIDE DEF e
<1>3. PageWrites(e, w)
  <2>1. \A p \in Pages : InHand(w, "page", p) => p \in e.pending
    BY <1>1 DEF Queues, PageWrites
  <2>2. \A p \in e.pending : InHand(w, "page", p)
    BY <1>1 DEF Queues, PageWrites
  <2>3. e.pending \cap e.pages = {}
    BY <1>1 DEF Queues, PageWrites
  <2>4. w \in Hands /\ w.phase = "publish" => w.op.kind = "page" /\ w.image = w.op.page
    BY DEF Queues, PageWrites
  <2>. QED BY <1>2, <2>1, <2>2, <2>3, <2>4 DEF PageWrites
<1>4. Deletions(e, w)
  <2>1. \A i \in 1..Len(e.queue) : e.queue[i].kind # "page"
    BY <1>2
  <2>2. ASSUME NEW i \in 1..Len(e.queue), e.queue[i].kind = "delete"
        PROVE  e.queue[i].page \notin d.pages /\ ~ InHand(w, "page", e.queue[i].page)
    <3>1. h[i] \in 1..Len(d.queue) /\ e.queue[i] = d.queue[h[i]]
      BY <1>2
    <3>2. d.queue[h[i]].kind = "delete"
      BY <2>2, <3>1
    <3>3. d.queue[h[i]].page \notin d.pages /\ ~ InHand(w, "page", d.queue[h[i]].page)
      BY <3>1, <3>2 DEF Queues, Deletions
    <3>. QED BY <3>1, <3>3
  <2>3. \A p \in Pages : InHand(w, "delete", p) => p \notin d.pages
    BY DEF Queues, Deletions
  <2>. QED BY <1>1, <2>1, <2>2, <2>3 DEF Deletions
<1>5. Flushes(e, w, m)
  <2>1. ASSUME NEW i \in 1..Len(e.queue), e.queue[i].kind = "flush"
        PROVE  /\ m \in Waits /\ m.at = "waitFlush"
               /\ w \in Hands => w.op.kind # "flush"
               /\ \A j \in 1..Len(e.queue) :
                    /\ e.queue[j].kind = "flush" => i = j
                    /\ e.queue[j].kind = "page" /\ e.queue[j].page = m.victim => j < i
    <3>1. h[i] \in 1..Len(d.queue) /\ d.queue[h[i]].kind = "flush"
      BY <1>2, <2>1
    <3>2. /\ m \in Waits /\ m.at = "waitFlush"
          /\ w \in Hands => w.op.kind # "flush"
      BY <3>1 DEF Queues, Flushes
    <3>3. ASSUME NEW j \in 1..Len(e.queue), e.queue[j].kind = "flush"
          PROVE  i = j
      <4>1. h[j] \in 1..Len(d.queue) /\ d.queue[h[j]].kind = "flush"
        BY <1>2, <3>3
      <4>2. h[i] = h[j]
        BY <3>1, <4>1 DEF Queues, Flushes
      <4>. QED BY <1>2, <4>2
    <3>. QED BY <1>2, <3>2, <3>3
  <2>2. w \in Hands /\ w.op.kind = "flush" =>
          m \in Waits /\ m.at = "waitFlush" /\ m.victim \notin e.pending
    BY <1>1 DEF Queues, Flushes
  <2>. QED BY <2>1, <2>2 DEF Flushes
<1>. QED BY <1>3, <1>4, <1>5 DEF Queues, e

-----------------------------------------------------------------------------
(* What each slot holds.                                                    *)

\* A copy appended to the stream changes nothing about the copies before it.
LEMMA HoldsAppended ==
  ASSUME NEW q \in Seq(Copies), NEW c \in Copies, NEW b, NEW s, NEW p,
         NEW k \in 0..Len(q), Holds(b, q, s, k, p)
  PROVE  Holds(b, Append(q, c), s, k, p)
<1>1. Len(q) \in Nat /\ \A i \in 1..Len(q) : Append(q, c)[i] = q[i]
  BY AppendProperties
<1>2. \A i \in 1..k : Append(q, c)[i] = q[i]
  BY <1>1
<1> DEFINE z == Append(q, c)
<1>3. \A i \in 1..k : z[i] = q[i]
  BY <1>2
<1> HIDE DEF z
<1>4. CASE b[s] = p /\ Untouched(q, s, 1, k)
  BY <1>3, <1>4 DEF Holds, Untouched, z
<1>5. CASE \E j \in 1..k : /\ q[j].dir = "out" /\ q[j].slot = s /\ q[j].page = p
                           /\ Untouched(q, s, j + 1, k)
  <2>1. PICK j \in 1..k : /\ q[j].dir = "out" /\ q[j].slot = s /\ q[j].page = p
                          /\ Untouched(q, s, j + 1, k)
    BY <1>5
  <2>2. \A i \in j + 1..k : i \in 1..k
    BY <1>1
  <2>3. Untouched(z, s, j + 1, k)
    BY <1>3, <2>1, <2>2 DEF Untouched
  <2>. QED BY <1>3, <2>1, <2>3 DEF Holds, z
<1>. QED BY <1>4, <1>5 DEF Holds

\* The last copy of the stream, if it does not write the slot, leaves its contents.
LEMMA HoldsBehind ==
  ASSUME NEW q \in Seq(Copies), NEW c \in Copies, NEW b, NEW s, NEW p,
         Holds(b, q, s, Len(q), p), ~ (c.dir = "out" /\ c.slot = s)
  PROVE  Holds(b, Append(q, c), s, Len(q) + 1, p)
<1> DEFINE z == Append(q, c)
           n == Len(q)
<1>1. n \in Nat /\ z[n + 1] = c
  BY AppendProperties
<1>2. Holds(b, z, s, n, p)
  <2>1. n \in 0..Len(q)
    BY <1>1
  <2>. QED BY <2>1, HoldsAppended
<1> HIDE DEF z, n
<1>3. CASE b[s] = p /\ Untouched(z, s, 1, n)
  <2>1. \A i \in 1..n + 1 : i \in 1..n \/ i = n + 1
    BY <1>1
  <2>2. Untouched(z, s, 1, n + 1)
    BY <1>1, <1>3, <2>1 DEF Untouched
  <2>. QED BY <1>3, <2>2 DEF Holds, z, n
<1>4. CASE \E j \in 1..n : /\ z[j].dir = "out" /\ z[j].slot = s /\ z[j].page = p
                           /\ Untouched(z, s, j + 1, n)
  <2>1. PICK j \in 1..n : /\ z[j].dir = "out" /\ z[j].slot = s /\ z[j].page = p
                          /\ Untouched(z, s, j + 1, n)
    BY <1>4
  <2>2. \A i \in j + 1..n + 1 : i \in j + 1..n \/ i = n + 1
    BY <1>1
  <2>3. Untouched(z, s, j + 1, n + 1)
    BY <1>1, <2>1, <2>2 DEF Untouched
  <2>4. j \in 1..n + 1
    BY <1>1
  <2>. QED BY <2>1, <2>3, <2>4 DEF Holds, z, n
<1>. QED BY <1>2, <1>3, <1>4 DEF Holds

\* A copy into the slot, once done, leaves its page there.
LEMMA HoldsCopied ==
  ASSUME NEW q \in Seq(Copies), NEW c \in Copies, NEW b, c.dir = "out"
  PROVE  Holds(b, Append(q, c), c.slot, Len(q) + 1, c.page)
<1>1. Len(q) \in Nat /\ Append(q, c)[Len(q) + 1] = c
  BY AppendProperties
<1>2. Len(q) + 1 \in 1..Len(q) + 1
  BY <1>1
<1>3. Untouched(Append(q, c), c.slot, Len(q) + 1 + 1, Len(q) + 1)
  BY <1>1 DEF Untouched
<1>. QED BY <1>1, <1>2, <1>3 DEF Holds

\* The slots after the copy c
Copied(b, c) == IF c.dir = "out" THEN [b EXCEPT ![c.slot] = c.page] ELSE b

\* The first copy done, a slot holds after k more what it held after k + 1.
LEMMA HoldsExecuted ==
  ASSUME NEW q \in Seq(Copies), q # <<>>, NEW b, NEW s \in DOMAIN b, NEW p,
         NEW k \in 1..Len(q), Holds(b, q, s, k, p)
  PROVE  Holds(Copied(b, Head(q)), Tail(q), s, k - 1, p)
<1> DEFINE z == Tail(q)
           b2 == Copied(b, Head(q))
<1>1. /\ Len(q) \in Nat \ {0} /\ Len(z) = Len(q) - 1 /\ Head(q) = q[1]
      /\ \A i \in 1..Len(z) : z[i] = q[i + 1]
  BY HeadTailProperties
<1>2. \A i, l \in Int : i >= 1 /\ l <= k /\ Untouched(q, s, i + 1, l) => Untouched(z, s, i, l - 1)
  <2>. TAKE i \in Int, l \in Int
  <2>. HAVE i >= 1 /\ l <= k /\ Untouched(q, s, i + 1, l)
  <2>1. \A x \in i..l - 1 : x + 1 \in i + 1..l /\ x \in 1..Len(z)
    BY <1>1
  <2>. QED BY <1>1, <2>1 DEF Untouched
<1>3. ~ (q[1].dir = "out" /\ q[1].slot = s) => b2[s] = b[s]
  BY <1>1 DEF Copied
<1>4. q[1].dir = "out" /\ q[1].slot = s => b2[s] = q[1].page
  BY <1>1 DEF Copied
<1> HIDE DEF z, b2
<1>5. CASE b[s] = p /\ Untouched(q, s, 1, k)
  <2>1. 1 \in 1..k /\ Untouched(q, s, 2, k)
    BY <1>5 DEF Untouched
  <2>2. b2[s] = p
    BY <1>3, <1>5, <2>1 DEF Untouched
  <2>3. Untouched(z, s, 1, k - 1)
    BY <1>2, <2>1
  <2>. QED BY <2>2, <2>3 DEF Holds, z, b2
<1>6. CASE \E j \in 1..k : /\ q[j].dir = "out" /\ q[j].slot = s /\ q[j].page = p
                           /\ Untouched(q, s, j + 1, k)
  <2>1. PICK j \in 1..k : /\ q[j].dir = "out" /\ q[j].slot = s /\ q[j].page = p
                          /\ Untouched(q, s, j + 1, k)
    BY <1>6
  <2>2. Untouched(z, s, j, k - 1)
    BY <1>2, <2>1
  <2>3. CASE j = 1
    BY <1>4, <2>1, <2>2, <2>3 DEF Holds, z, b2
  <2>4. CASE j # 1
    <3>1. j - 1 \in 1..k - 1 /\ j - 1 \in 1..Len(z) /\ (j - 1) + 1 = j
      BY <1>1, <2>4
    <3>2. z[j - 1] = q[j]
      BY <1>1, <3>1
    <3>3. Untouched(z, s, (j - 1) + 1, k - 1)
      BY <2>2, <3>1
    <3>. QED BY <2>1, <3>1, <3>2, <3>3 DEF Holds, z, b2
  <2>. QED BY <2>3, <2>4
<1>. QED BY <1>5, <1>6 DEF Holds

\* A slot whose copies are all behind it holds its page already, and keeps it.
LEMMA HoldsKept ==
  ASSUME NEW q \in Seq(Copies), q # <<>>, NEW b, NEW s \in DOMAIN b, NEW p,
         Holds(b, q, s, 0, p), Untouched(q, s, 1, Len(q))
  PROVE  Holds(Copied(b, Head(q)), Tail(q), s, 0, p)
<1>1. /\ Len(q) \in Nat \ {0} /\ Head(q) = q[1]
  BY HeadTailProperties
<1>2. ~ (q[1].dir = "out" /\ q[1].slot = s)
  BY <1>1 DEF Untouched
<1>3. b[s] = p
  BY DEF Holds
<1>4. Copied(b, Head(q))[s] = p
  BY <1>1, <1>2, <1>3 DEF Copied
<1>. QED BY <1>4 DEF Holds, Untouched

\* An operation stays good when a copy that does not write its slot is appended.
LEMMA WrittenAppended ==
  ASSUME NEW q \in Seq(Copies), NEW c \in Copies, NEW b, NEW op \in Ops, Written(b, q, op),
         ~ (op.kind = "page" /\ c.dir = "out" /\ c.slot = op.slot)
  PROVE  Written(b, Append(q, c), op)
<1> DEFINE z == Append(q, c)
<1>1. /\ Len(q) \in Nat /\ Len(z) = Len(q) + 1 /\ z[Len(q) + 1] = c
      /\ \A i \in 1..Len(q) : z[i] = q[i]
  BY AppendProperties
<1>2. op.after \in 0..Len(q) /\ op.after \in Nat
  BY <1>1 DEF Written, Ops
<1>3. ASSUME op.kind = "page"
      PROVE  Holds(b, z, op.slot, op.after, op.page) /\ Untouched(z, op.slot, op.after + 1, Len(z))
  <2>1. Holds(b, z, op.slot, op.after, op.page)
    BY <1>2, <1>3, HoldsAppended DEF Written
  <2>2. \A i \in op.after + 1..Len(z) :
          i = Len(q) + 1 \/ (i \in op.after + 1..Len(q) /\ i \in 1..Len(q))
    BY <1>1, <1>2
  <2> HIDE DEF z
  <2>3. Untouched(z, op.slot, op.after + 1, Len(z))
    BY <1>1, <1>3, <2>2 DEF Written, Untouched
  <2>. QED BY <2>1, <2>3
<1>. QED BY <1>1, <1>2, <1>3 DEF Written

\* An operation stays good when the first copy is done.
LEMMA WrittenExecuted ==
  ASSUME NEW q \in Seq(Copies), q # <<>>, NEW b, Slots \subseteq DOMAIN b,
         NEW op \in Ops, Written(b, q, op)
  PROVE  Written(Copied(b, Head(q)), Tail(q), [op EXCEPT !.after = Nearer(@)])
<1> DEFINE z == Tail(q)
           b2 == Copied(b, Head(q))
           n == op.after
           op2 == [op EXCEPT !.after = Nearer(@)]
<1>1. /\ Len(q) \in Nat \ {0} /\ Len(z) = Len(q) - 1
      /\ \A i \in 1..Len(z) : z[i] = q[i + 1]
  BY HeadTailProperties
<1>2. n \in 0..Len(q) /\ n \in Nat
  BY <1>1 DEF Written, Ops
<1>3. /\ op2.kind = op.kind /\ op2.slot = op.slot /\ op2.page = op.page
      /\ op2.after = Nearer(n)
  BY DEF Ops
<1>4. Nearer(n) \in 0..Len(z) /\ (n = 0 => Nearer(n) = 0) /\ (n > 0 => Nearer(n) = n - 1)
  BY <1>1, <1>2 DEF Nearer
<1>5. ASSUME op.kind = "page"
      PROVE  /\ Holds(b2, z, op.slot, Nearer(n), op.page)
             /\ Untouched(z, op.slot, Nearer(n) + 1, Len(z))
  <2>1. op.slot \in DOMAIN b
    BY <1>5 DEF Ops
  <2>2. Holds(b, q, op.slot, n, op.page) /\ Untouched(q, op.slot, n + 1, Len(q))
    BY <1>5 DEF Written
  <2>3. Holds(b2, z, op.slot, Nearer(n), op.page)
    <3>1. CASE n = 0
      <4>1. Untouched(q, op.slot, 1, Len(q))
        BY <2>2, <3>1
      <4>2. Holds(b2, z, op.slot, 0, op.page)
        BY <2>1, <2>2, <3>1, <4>1, HoldsKept
      <4>. QED BY <1>4, <3>1, <4>2
    <3>2. CASE n # 0
      <4>1. n \in 1..Len(q)
        BY <1>2, <3>2
      <4>2. Holds(b2, z, op.slot, n - 1, op.page)
        BY <2>1, <2>2, <4>1, HoldsExecuted
      <4>. QED BY <1>2, <1>4, <3>2, <4>2
    <3>. QED BY <3>1, <3>2
  <2>4. \A i \in Nearer(n) + 1..Len(z) : i + 1 \in n + 1..Len(q) /\ i \in 1..Len(z)
    BY <1>1, <1>2, <1>4
  <2> HIDE DEF z, b2, n
  <2>5. Untouched(z, op.slot, Nearer(n) + 1, Len(z))
    BY <1>1, <2>2, <2>4 DEF Untouched
  <2>. QED BY <2>3, <2>5
<1> HIDE DEF z, b2, n, op2
<1>6. Written(b2, z, op2)
  BY <1>1, <1>3, <1>4, <1>5 DEF Written
<1>. QED BY <1>6 DEF z, b2, op2

-----------------------------------------------------------------------------
(* Where the threads are.                                                   *)

\* The places of the main thread, and of the writer, exclude each other.
LEMMA Places ==
  /\ Idle.at = "idle" /\ Idle \notin Waits /\ Idle \notin Awaits
  /\ \A p \in Pages : Await(p) \in Awaits /\ Await(p).page = p /\ Await(p).at = "await"
  /\ \A m \in Awaits : m \notin Waits /\ m.at = "await" /\ m.page \in Pages
  /\ \A m \in Waits : /\ m.at \in {"waitRead", "checkWrite", "waitFlush", "use"}
                      /\ m.page \in Pages /\ m.victim \in Pages /\ m.slot \in Slots
  /\ NoOp \notin Hands /\ NoOp.phase = "idle"
  /\ \A w \in Hands : /\ w.phase \in {"write", "publish"} /\ w.op \in Ops
                      /\ w.image \in Pages \cup {None, Torn}
<1>1. Idle.at = "idle" /\ Idle \notin Waits /\ Idle \notin Awaits
  BY DEF Idle, Waits, Awaits
<1>2. \A p \in Pages : Await(p) \in Awaits /\ Await(p).page = p /\ Await(p).at = "await"
  BY DEF Await, Awaits
<1>3. \A m \in Awaits : m \notin Waits /\ m.at = "await" /\ m.page \in Pages
  BY DEF Waits, Awaits
<1>4. \A m \in Waits : /\ m.at \in {"waitRead", "checkWrite", "waitFlush", "use"}
                       /\ m.page \in Pages /\ m.victim \in Pages /\ m.slot \in Slots
  BY DEF Waits
<1>5. NoOp \notin Hands /\ NoOp.phase = "idle"
  BY DEF NoOp, Hands
<1>6. \A w \in Hands : /\ w.phase \in {"write", "publish"} /\ w.op \in Ops
                       /\ w.image \in Pages \cup {None, Torn}
  BY DEF Hands
<1>. QED BY <1>1, <1>2, <1>3, <1>4, <1>5, <1>6

\* What the type invariant says of the members of the tables.
LEMMA Members ==
  ASSUME Typed
  PROVE  /\ disk.pages \subseteq Pages /\ disk.pending \subseteq Pages
         /\ disk.queue \in Seq(Ops) /\ Len(disk.queue) \in Nat
         /\ DOMAIN disk.queue = 1..Len(disk.queue)
         /\ \A i \in 1..Len(disk.queue) : disk.queue[i] \in Ops
         /\ stream \in Seq(Copies) /\ Len(stream) \in Nat
         /\ \A k \in 1..Len(stream) : stream[k] \in Copies
         /\ DOMAIN slab = Slots /\ DOMAIN events = Slots
         /\ \A s \in Slots : events[s] \in Nat
         /\ \A r \in readers : /\ r.page \in Pages /\ r.slot \in Slots /\ r.after \in Nat
                               /\ r.image \in Pages \cup {None, Bad}
         /\ \A p \in DOMAIN entries : p \in Pages /\ entries[p].slot \in Slots
                                      /\ entries[p].state \in {"stored", "reading", "failed"}
<1>1. disk.pages \subseteq Pages /\ disk.pending \subseteq Pages /\ disk.queue \in Seq(Ops)
  BY DEF Typed, Disks
<1>2. /\ Len(disk.queue) \in Nat /\ DOMAIN disk.queue = 1..Len(disk.queue)
      /\ \A i \in 1..Len(disk.queue) : disk.queue[i] \in Ops
  BY <1>1, LenProperties, ElementOfSeq
<1>3. /\ stream \in Seq(Copies) /\ Len(stream) \in Nat
      /\ \A k \in 1..Len(stream) : stream[k] \in Copies
  BY LenProperties, ElementOfSeq DEF Typed
<1>4. DOMAIN slab = Slots /\ DOMAIN events = Slots /\ \A s \in Slots : events[s] \in Nat
  BY DEF Typed
<1>5. \A r \in readers : /\ r.page \in Pages /\ r.slot \in Slots /\ r.after \in Nat
                         /\ r.image \in Pages \cup {None, Bad}
  BY DEF Typed, ReadsUnderWay
<1>6. \A p \in DOMAIN entries : p \in Pages /\ entries[p].slot \in Slots
                                /\ entries[p].state \in {"stored", "reading", "failed"}
  BY DEF Typed, Entries
<1>. QED BY <1>1, <1>2, <1>3, <1>4, <1>5, <1>6

-----------------------------------------------------------------------------
(* Taking a slot.                                                           *)

\* Slot s is vacant: beside it the free slots and the entries f are all there is, and
\* whatever is read or written keeps its entry.
Vacant(s, f, rest) ==
    /\ DOMAIN f \subseteq DOMAIN entries
    /\ \A q \in DOMAIN f : f[q] = entries[q] /\ f[q].slot # s /\ f[q].slot \notin rest
    /\ disk.pending \subseteq DOMAIN f
    /\ \A r \in readers : r.page \in DOMAIN f
    /\ rest \subseteq Slots /\ s \notin rest
    /\ \A t \in Slots : t \in rest \/ t = s \/ \E q \in DOMAIN f : f[q].slot = t

\* The tables of entries and slots stay consistent when a page takes a vacant slot.
LEMMA EntryTaken ==
  ASSUME TierInv, NEW p \in Pages, NEW s \in Slots, NEW others, NEW st \in {"stored", "reading"},
         p \notin DOMAIN entries, Vacant(s, others, free'),
         entries' = Bind(others, p, [slot |-> s, state |-> st]),
         main' = Idle \/ main' = Await(p)
  PROVE  /\ DOMAIN entries' = DOMAIN others \cup {p} /\ p \notin DOMAIN others
         /\ entries'[p].slot = s /\ entries'[p].state = st
         /\ \A q \in DOMAIN others : entries'[q] = entries[q] /\ q \in DOMAIN entries
         /\ DOMAIN entries' \subseteq Pages /\ free' \subseteq Slots
         /\ \A q \in DOMAIN entries' : entries'[q] \in Entries
         /\ main' \notin Waits /\ (main' = Idle \/ main' \in Awaits)
         /\ main' \in Awaits => main'.page = p
         /\ Slotted'
<1>1. /\ DOMAIN entries' = DOMAIN others \cup {p} /\ p \notin DOMAIN others
      /\ entries'[p] = [slot |-> s, state |-> st]
      /\ \A q \in DOMAIN others : entries'[q] = entries[q] /\ q \in DOMAIN entries
  BY DEF Bind, Vacant
<1>2. entries'[p].slot = s /\ entries'[p].state = st /\ entries'[p] \in Entries
  BY <1>1 DEF Entries
<1>3. \A q \in DOMAIN others : q \in Pages /\ entries[q] \in Entries
  BY <1>1 DEF TierInv, Typed
<1>4. main' \notin Waits /\ (main' = Idle \/ main' \in Awaits)
      /\ (main' \in Awaits => main'.page = p)
  BY Places
<1>5. Slotted'
  <2>1. \A q, x \in DOMAIN entries' : entries'[q].slot = entries'[x].slot => q = x
    BY <1>1, <1>2 DEF Vacant, TierInv, Slotted
  <2>2. \A q \in DOMAIN entries' : entries'[q].slot \notin free'
    BY <1>1, <1>2 DEF Vacant
  <2>3. \A t \in Slots : t \in free' \/ \E q \in DOMAIN entries' : entries'[q].slot = t
    BY <1>1, <1>2 DEF Vacant
  <2>. QED BY <1>4, <2>1, <2>2, <2>3 DEF Slotted
<1>. QED BY <1>1, <1>2, <1>3, <1>4, <1>5 DEF Vacant

\* While the main thread is not inside a wait, a write that is queued or in hand and a
\* read under way use the slot of their page's entry, which is not a vacant one.
LEMMA SlotsInUse ==
  ASSUME TierInv, main \in Waits => main.at = "use",
         NEW s, NEW others, Vacant(s, others, free')
  PROVE  /\ \A i \in 1..Len(disk.queue) : disk.queue[i].kind = "page" =>
              LET op == disk.queue[i] IN
              op.slot # s /\ op.page \in DOMAIN others /\ others[op.page].slot = op.slot
         /\ writer \in Hands /\ writer.op.kind = "page" =>
              /\ writer.op.slot # s /\ writer.op.page \in DOMAIN others
              /\ others[writer.op.page].slot = writer.op.slot
         /\ \A r \in readers : /\ r.page \in DOMAIN others /\ r.slot # s
                               /\ others[r.page].slot = r.slot /\ others[r.page].state = "reading"
<1>1. \A x \in disk.pending : /\ x \in DOMAIN others /\ others[x] = entries[x]
                              /\ others[x].slot # s /\ ~ (main \in Waits /\ main.victim = x)
  BY DEF Vacant, TierInv, Waited
<1>2. ASSUME NEW i \in 1..Len(disk.queue), disk.queue[i].kind = "page"
      PROVE  LET op == disk.queue[i] IN
             op.slot # s /\ op.page \in DOMAIN others /\ others[op.page].slot = op.slot
  <2>1. disk.queue[i].page \in disk.pending
    BY <1>2 DEF TierInv, Queues, PageWrites
  <2>2. Tenant(disk.queue[i].page, disk.queue[i].slot)
    BY <1>2 DEF TierInv, Tenants
  <2>. QED BY <1>1, <2>1, <2>2 DEF Tenant
<1>3. ASSUME writer \in Hands, writer.op.kind = "page"
      PROVE  /\ writer.op.slot # s /\ writer.op.page \in DOMAIN others
             /\ others[writer.op.page].slot = writer.op.slot
  <2>1. writer.op.page \in Pages
    BY <1>3, Places DEF Ops
  <2>2. writer.op.page \in disk.pending
    BY <1>3, <2>1 DEF TierInv, Queues, PageWrites, InHand
  <2>3. Tenant(writer.op.page, writer.op.slot)
    BY <1>3 DEF TierInv, Tenants
  <2>. QED BY <1>1, <2>2, <2>3 DEF Tenant
<1>4. ASSUME NEW r \in readers
      PROVE  /\ r.page \in DOMAIN others /\ r.slot # s
             /\ others[r.page].slot = r.slot /\ others[r.page].state = "reading"
  <2>1. /\ r.page \in DOMAIN entries /\ entries[r.page].state = "reading"
        /\ entries[r.page].slot = r.slot
    BY DEF TierInv, Reads
  <2>. QED BY <2>1 DEF Vacant
<1>. QED BY <1>2, <1>3, <1>4

\* store() into a vacant slot keeps every table in order.
LEMMA StoreKeeps ==
  ASSUME TierInv, main \in Waits => main.at = "use",
         NEW p \in Pages, NEW s \in Slots, NEW others,
         p \notin DOMAIN entries \cup disk.pending, Vacant(s, others, free'),
         StoreInto(p, s, others), UNCHANGED <<slab, file, writer>>
  PROVE  TierInv'
<1> DEFINE c == [dir |-> "out", slot |-> s, page |-> p]
           n == Len(stream) + 1
<1>1. /\ entries' = Bind(others, p, [slot |-> s, state |-> "stored"])
      /\ stream' = Append(stream, c) /\ events' = [events EXCEPT ![s] = n]
      /\ disk' \in WritePage(disk, p, s, n) /\ main' = Idle /\ readers' = readers
      /\ slab' = slab /\ file' = file /\ writer' = writer
  BY DEF StoreInto
<1>2. Typed /\ disk \in Disks /\ c \in Copies
  BY DEF TierInv, Typed, Copies
<1>3. /\ DOMAIN entries' = DOMAIN others \cup {p} /\ p \notin DOMAIN others
      /\ entries'[p].slot = s /\ entries'[p].state = "stored"
      /\ \A q \in DOMAIN others : entries'[q] = entries[q] /\ q \in DOMAIN entries
      /\ DOMAIN entries' \subseteq Pages /\ free' \subseteq Slots
      /\ \A q \in DOMAIN entries' : entries'[q] \in Entries
      /\ Slotted'
  BY <1>1, EntryTaken
<1>4. /\ Len(stream) \in Nat /\ Len(stream') = n /\ stream' \in Seq(Copies) /\ stream'[n] = c
      /\ \A k \in 1..Len(stream) : stream'[k] = stream[k]
  BY <1>1, <1>2, AppendProperties DEF Typed
<1>5. Extended(disk, disk', p, s, n)
  BY <1>1, <1>2, <1>4, WriteFacts
<1>6. /\ \A i \in 1..Len(disk.queue) : disk.queue[i].kind = "page" =>
           LET op == disk.queue[i] IN
           op.slot # s /\ op.page \in DOMAIN others /\ others[op.page].slot = op.slot
      /\ writer \in Hands /\ writer.op.kind = "page" =>
           /\ writer.op.slot # s /\ writer.op.page \in DOMAIN others
           /\ others[writer.op.page].slot = writer.op.slot
      /\ \A r \in readers : /\ r.page \in DOMAIN others /\ r.slot # s
                            /\ others[r.page].slot = r.slot /\ others[r.page].state = "reading"
  BY SlotsInUse
<1>7. \A q \in DOMAIN others : others[q] = entries[q] /\ others[q].slot # s
  BY DEF Vacant
<1>8. \A x \in disk'.pending : x \in disk.pending \/ x = p
  BY <1>5 DEF Extended
<1>9. \A i \in 1..Len(disk'.queue) :
        \/ i \in 1..Len(disk.queue) /\ disk'.queue[i] = disk.queue[i]
        \/ disk'.queue[i].kind = "delete" /\ disk'.queue[i].after = 0
        \/ disk'.queue[i] = Op("page", p, s, n)
  <2>1. Len(disk.queue) \in Nat /\ Len(disk'.queue) \in Nat
    BY <1>2, <1>5, LenProperties DEF Extended, Disks
  <2>2. \A i \in 1..Len(disk'.queue) : i > Len(disk.queue) \/ i \in 1..Len(disk.queue)
    BY <2>1
  <2>. QED BY <1>5, <2>2 DEF Extended
<1>10. Typed'
  <2>1. events' \in [Slots -> Nat]
    BY <1>1, <1>2, <1>4 DEF Typed
  <2>2. disk' \in Disks
    BY <1>5 DEF Extended
  <2>. QED BY <1>1, <1>2, <1>3, <1>4, <2>1, <2>2 DEF Typed
<1>11. Waited'
  <2>1. main' \notin Awaits /\ main' \notin Waits
    BY <1>1, Places
  <2>2. \A x \in disk.pending : x \in DOMAIN others /\ entries[x].state = "stored"
    BY <1>3 DEF TierInv, Waited, Vacant
  <2>3. \A x \in disk'.pending : x \in DOMAIN entries' /\ entries'[x].state = "stored"
    BY <1>3, <1>8, <2>2
  <2>. QED BY <2>1, <2>3 DEF Waited
<1>12. Reads'
  <2>1. ASSUME NEW r \in readers
        PROVE  /\ r.page \in DOMAIN entries' /\ entries'[r.page].state = "reading"
               /\ entries'[r.page].slot = r.slot
               /\ r.page \notin disk'.pending
    BY <1>3, <1>6, <1>7, <1>8 DEF TierInv, Reads
  <2>2. /\ \A r \in readers : /\ r.image \in {None, Bad, r.page}
                              /\ r.image # None => r.after = 0
        /\ \A r, t \in readers : r.page = t.page => r = t
    BY DEF TierInv, Reads
  <2>. QED BY <1>1, <2>1, <2>2 DEF Reads
<1>13. Queues(disk, writer, main)' /\ PagesOnDisk'
  <2>1. NotFlushing(main)
    BY DEF NotFlushing
  <2>2. Queues(disk', writer, main')
    BY <1>2, <1>5, <2>1, ExtensionKeepsQueues DEF TierInv
  <2>3. PagesOnDisk'
    BY <1>1, <1>5 DEF TierInv, PagesOnDisk, Extended
  <2>. QED BY <1>1, <2>2, <2>3
<1>14. Tenants'
  <2>1. ASSUME NEW i \in 1..Len(disk'.queue), disk'.queue[i].kind = "page"
        PROVE  Tenant(disk.queue[i].page, disk.queue[i].slot)'
    <3>1. disk'.queue[i].page \in DOMAIN entries'
          /\ entries'[disk'.queue[i].page].slot = disk'.queue[i].slot
      <4>1. CASE i \in 1..Len(disk.queue) /\ disk'.queue[i] = disk.queue[i]
        BY <1>3, <1>6, <1>7, <2>1, <4>1
      <4>2. CASE disk'.queue[i] = Op("page", p, s, n)
        BY <1>3, <4>2 DEF Op
      <4>. QED BY <1>9, <2>1, <4>1, <4>2
    <3>. QED BY <3>1 DEF Tenant
  <2>2. writer \in Hands /\ writer.op.kind = "page" => Tenant(writer.op.page, writer.op.slot)'
    BY <1>1, <1>3, <1>6, <1>7 DEF Tenant
  <2>. QED BY <1>1, <2>1, <2>2 DEF Tenants
<1>15. Contents'
  <2>0. c.dir = "out" /\ c.slot = s /\ c.page = p
    OBVIOUS
  <2> HIDE DEF c
  <2>1. ASSUME NEW q \in DOMAIN entries', entries'[q].state = "stored"
        PROVE  Holds(slab, stream', entries'[q].slot, n, q)
    <3>1. CASE q = p
      BY <1>1, <1>2, <1>3, <2>0, <3>1, HoldsCopied DEF Typed
    <3>2. CASE q # p
      <4>1. q \in DOMAIN others /\ entries'[q] = entries[q] /\ entries[q].slot # s
        BY <1>3, <1>7, <3>2
      <4>2. Holds(slab, stream, entries[q].slot, Len(stream), q)
        BY <1>3, <2>1, <4>1 DEF TierInv, Contents
      <4>. QED BY <1>1, <1>2, <2>0, <4>1, <4>2, HoldsBehind DEF Typed
    <3>. QED BY <3>1, <3>2
  <2>2. ASSUME NEW k \in 1..n, stream'[k].dir = "in"
        PROVE  Holds(slab, stream', stream'[k].slot, k - 1, stream'[k].page)
    <3>1. k # n
      BY <1>4, <2>0, <2>2
    <3>2. k \in 1..Len(stream) /\ k - 1 \in 0..Len(stream) /\ stream'[k] = stream[k]
      BY <1>4, <3>1
    <3>3. Holds(slab, stream, stream[k].slot, k - 1, stream[k].page)
      BY <2>2, <3>2 DEF TierInv, Contents
    <3>. QED BY <1>1, <1>2, <3>2, <3>3, HoldsAppended DEF Typed
  <2>3. ASSUME NEW i \in 1..Len(disk'.queue)
        PROVE  Written(slab, stream', disk'.queue[i])
    <3>1. CASE i \in 1..Len(disk.queue) /\ disk'.queue[i] = disk.queue[i]
      <4>1. disk.queue[i] \in Ops /\ Written(slab, stream, disk.queue[i])
        BY <1>2, <3>1, Members DEF TierInv, Contents
      <4>2. ~ (disk.queue[i].kind = "page" /\ c.slot = disk.queue[i].slot)
        BY <1>6, <2>0, <3>1
      <4>. QED BY <1>1, <1>2, <3>1, <4>1, <4>2, WrittenAppended DEF Typed
    <3>2. CASE disk'.queue[i].kind = "delete" /\ disk'.queue[i].after = 0
      BY <1>4, <3>2 DEF Written
    <3>3. CASE disk'.queue[i] = Op("page", p, s, n)
      <4>1. Holds(slab, stream', s, n, p)
        BY <1>1, <1>2, <2>0, HoldsCopied DEF Typed
      <4>2. Untouched(stream', s, n + 1, n)
        BY <1>4 DEF Untouched
      <4>. QED BY <1>4, <3>3, <4>1, <4>2 DEF Written, Op
    <3>. QED BY <1>9, <3>1, <3>2, <3>3
  <2>4. ASSUME writer \in Hands, writer.phase = "write"
        PROVE  Written(slab, stream', writer.op)
    <3>1. writer.op \in Ops /\ Written(slab, stream, writer.op)
      BY <2>4, Places DEF TierInv, Contents
    <3>2. ~ (writer.op.kind = "page" /\ c.slot = writer.op.slot)
      BY <1>6, <2>0, <2>4
    <3>. QED BY <1>1, <1>2, <3>1, <3>2, WrittenAppended DEF Typed
  <2>5. \A r \in readers : r.after <= n
    <3>1. \A r \in readers : r.after \in Nat /\ r.after <= Len(stream)
      BY <1>2, Members DEF TierInv, Contents
    <3>. QED BY <1>4, <3>1
  <2>. QED BY <1>1, <1>4, <2>1, <2>2, <2>3, <2>4, <2>5 DEF Contents
<1>16. Events'
  <2>1. \A k \in 1..n : (k \in 1..Len(stream) /\ stream'[k] = stream[k]) \/ stream'[k].slot = s
    BY <1>4
  <2>2. ASSUME NEW r \in readers, NEW k \in 1..n, stream'[k].slot = r.slot
        PROVE  k <= r.after
    BY <1>6, <2>1, <2>2 DEF TierInv, Events
  <2>3. ASSUME NEW t \in Slots
        PROVE  /\ events'[t] <= n
               /\ \/ \E r \in readers : r.slot = t
                  \/ \A k \in 1..n : stream'[k].slot = t => k <= events'[t]
    <3>1. CASE t = s
      BY <1>1, <1>2, <1>4, <3>1, Members
    <3>2. CASE t # s
      <4>1. events'[t] = events[t] /\ events[t] \in Nat
        BY <1>1, <1>2, <3>2, Members
      <4>2. events[t] <= Len(stream) /\
            (\/ \E r \in readers : r.slot = t
             \/ \A k \in 1..Len(stream) : stream[k].slot = t => k <= events[t])
        BY DEF TierInv, Events
      <4>. QED BY <1>4, <2>1, <3>2, <4>1, <4>2
    <3>. QED BY <3>1, <3>2
  <2>. QED BY <1>1, <1>4, <2>2, <2>3 DEF Events
<1>. QED BY <1>3, <1>10, <1>11, <1>12, <1>13, <1>14, <1>15, <1>16 DEF TierInv

\* begin_promote() into a vacant slot keeps every table in order.
LEMMA PromoteKeeps ==
  ASSUME TierInv, main \in Waits => main.at = "use",
         NEW p \in Pages, NEW s \in Slots, NEW others,
         p \notin DOMAIN entries \cup disk.pending, Vacant(s, others, free'),
         PromoteInto(p, s, others, main'), main' = Idle \/ main' = Await(p),
         UNCHANGED <<slab, file, writer>>
  PROVE  TierInv'
<1> DEFINE new == [page |-> p, slot |-> s, after |-> events[s], image |-> None]
<1>1. /\ entries' = Bind(others, p, [slot |-> s, state |-> "reading"])
      /\ readers' = readers \cup {new} /\ events' = [events EXCEPT ![s] = 0]
      /\ stream' = stream /\ disk' = disk
      /\ slab' = slab /\ file' = file /\ writer' = writer
  BY DEF PromoteInto
<1>2. Typed /\ disk \in Disks
  BY DEF TierInv, Typed
<1>3. /\ DOMAIN entries' = DOMAIN others \cup {p} /\ p \notin DOMAIN others
      /\ entries'[p].slot = s /\ entries'[p].state = "reading"
      /\ \A q \in DOMAIN others : entries'[q] = entries[q] /\ q \in DOMAIN entries
      /\ DOMAIN entries' \subseteq Pages /\ free' \subseteq Slots
      /\ \A q \in DOMAIN entries' : entries'[q] \in Entries
      /\ main' \notin Waits /\ (main' = Idle \/ main' \in Awaits)
      /\ main' \in Awaits => main'.page = p
      /\ Slotted'
  BY <1>1, EntryTaken
<1>4. /\ \A i \in 1..Len(disk.queue) : disk.queue[i].kind = "page" =>
           LET op == disk.queue[i] IN
           op.slot # s /\ op.page \in DOMAIN others /\ others[op.page].slot = op.slot
      /\ writer \in Hands /\ writer.op.kind = "page" =>
           /\ writer.op.slot # s /\ writer.op.page \in DOMAIN others
           /\ others[writer.op.page].slot = writer.op.slot
      /\ \A r \in readers : /\ r.page \in DOMAIN others /\ r.slot # s
                            /\ others[r.page].slot = r.slot /\ others[r.page].state = "reading"
  BY SlotsInUse
<1>5. \A q \in DOMAIN others : others[q] = entries[q] /\ others[q].slot # s
  BY DEF Vacant
<1>6. /\ new \in ReadsUnderWay /\ new.page = p /\ new.slot = s /\ new.after = events[s]
      /\ new.image = None /\ events[s] \in Nat
  BY <1>2, Members DEF ReadsUnderWay
<1> HIDE DEF new
<1>7. Typed'
  <2>1. events' \in [Slots -> Nat]
    BY <1>1, <1>2 DEF Typed
  <2>. QED BY <1>1, <1>2, <1>3, <1>6, <2>1 DEF Typed
<1>8. Waited'
  <2>1. \A x \in disk.pending : x \in DOMAIN entries' /\ entries'[x].state = "stored"
    BY <1>3 DEF TierInv, Waited, Vacant
  <2>. QED BY <1>1, <1>3, <2>1 DEF Waited
<1>9. Reads'
  <2>1. ASSUME NEW r \in readers
        PROVE  /\ r.page \in DOMAIN entries' /\ entries'[r.page].state = "reading"
               /\ entries'[r.page].slot = r.slot /\ r.page # p
    BY <1>3, <1>4, <1>5
  <2>2. /\ \A r \in readers : /\ r.image \in {None, Bad, r.page} /\ r.page \notin disk.pending
                              /\ r.image # None => r.after = 0
        /\ \A r, t \in readers : r.page = t.page => r = t
    BY DEF TierInv, Reads
  <2>. QED BY <1>1, <1>3, <1>6, <2>1, <2>2 DEF Reads
<1>10. Queues(disk, writer, main)' /\ PagesOnDisk'
  <2>1. NotFlushing(main) /\ Extended(disk, disk, p, s, 0)
    BY <1>2, SameExtended DEF NotFlushing
  <2>2. Queues(disk, writer, main')
    BY <1>2, <2>1, ExtensionKeepsQueues DEF TierInv
  <2>. QED BY <1>1, <2>2 DEF TierInv, PagesOnDisk
<1>11. Tenants'
  <2>1. \A i \in 1..Len(disk.queue) : disk.queue[i].kind = "page" =>
          Tenant(disk.queue[i].page, disk.queue[i].slot)'
    BY <1>1, <1>3, <1>4, <1>5 DEF Tenant
  <2>2. writer \in Hands /\ writer.op.kind = "page" => Tenant(writer.op.page, writer.op.slot)'
    BY <1>1, <1>3, <1>4, <1>5 DEF Tenant
  <2>. QED BY <1>1, <2>1, <2>2 DEF Tenants
<1>12. events[s] <= Len(stream)
       /\ \A k \in 1..Len(stream) : stream[k].slot = s => k <= events[s]
  BY <1>4 DEF TierInv, Events
<1>13. Contents'
  <2>1. \A q \in DOMAIN entries' : entries'[q].state = "stored" =>
          q \in DOMAIN entries /\ entries'[q] = entries[q]
    BY <1>3
  <2>. QED BY <1>1, <1>6, <1>12, <2>1 DEF TierInv, Contents
<1>14. Events'
  <2>1. \A r \in readers' : \A k \in 1..Len(stream) : stream[k].slot = r.slot => k <= r.after
    BY <1>1, <1>6, <1>12 DEF TierInv, Events
  <2>2. ASSUME NEW t \in Slots
        PROVE  /\ events'[t] <= Len(stream)
               /\ \/ \E r \in readers' : r.slot = t
                  \/ \A k \in 1..Len(stream) : stream[k].slot = t => k <= events'[t]
    <3>1. CASE t = s
      BY <1>1, <1>2, <1>6, <3>1, Members
    <3>2. CASE t # s
      BY <1>1, <1>2, <3>2, Members DEF TierInv, Events
    <3>. QED BY <3>1, <3>2
  <2>. QED BY <1>1, <2>1, <2>2 DEF Events
<1>. QED BY <1>3, <1>7, <1>8, <1>9, <1>10, <1>11, <1>13, <1>14 DEF TierInv

\* Whatever a vacant slot is taken for.
LEMMA UseKeeps ==
  ASSUME TierInv, main \in Waits => main.at = "use",
         NEW how, NEW p \in Pages, NEW s \in Slots, NEW others,
         p \notin DOMAIN entries \cup disk.pending, Vacant(s, others, free'),
         Use(how, p, s, others), UNCHANGED <<slab, file, writer>>
  PROVE  TierInv'
<1>1. CASE StoreInto(p, s, others)
  BY <1>1, StoreKeeps
<1>2. CASE PromoteInto(p, s, others, Idle)
  <2>1. main' = Idle
    BY <1>2 DEF PromoteInto
  <2>. QED BY <1>2, <2>1, PromoteKeeps
<1>3. CASE PromoteInto(p, s, others, Await(p))
  <2>1. main' = Await(p)
    BY <1>3 DEF PromoteInto
  <2>. QED BY <1>3, <2>1, PromoteKeeps
<1>. QED BY <1>1, <1>2, <1>3 DEF Use

\* Giving up an entry, the main thread begins to wait.
LEMMA WaitKeeps ==
  ASSUME TierInv, main = Idle, NEW how \in {"store", "prefetch", "restore"}, NEW p \in Pages,
         p \notin DOMAIN entries, NEW v \in DOMAIN entries,
         entries' = Forget(entries, v),
         main' = [at |-> "waitRead", how |-> how, page |-> p, victim |-> v,
                  slot |-> entries[v].slot],
         UNCHANGED <<free, slab, events, stream, disk, file, readers, writer>>
  PROVE  TierInv'
<1>1. /\ DOMAIN entries' = DOMAIN entries \ {v}
      /\ \A q \in DOMAIN entries' : entries'[q] = entries[q]
  BY DEF Forget, Restrict
<1>2. Typed /\ main \notin Waits /\ main \notin Awaits
  BY Places DEF TierInv
<1>3. v \in Pages /\ entries[v].slot \in Slots /\ v # p
  BY <1>2, Members
<1>4. /\ main' \in Waits /\ main'.at = "waitRead" /\ main'.victim = v
      /\ main'.page = p /\ main'.slot = entries[v].slot
  BY <1>3 DEF Waits
<1>5. main' \notin Awaits
  BY <1>4, Places
<1>6. \A x \in disk.pending : x \in DOMAIN entries /\ entries[x].state = "stored"
  BY <1>2 DEF TierInv, Waited
<1>7. Typed'
  BY <1>1, <1>2, <1>4 DEF Typed
<1>8. Slotted'
  <2>1. entries[v].slot \notin free
        /\ \A q \in DOMAIN entries' : entries'[q].slot # entries[v].slot
    BY <1>1 DEF TierInv, Slotted
  <2>2. \A t \in Slots : \/ t \in free
                         \/ \E q \in DOMAIN entries' : entries'[q].slot = t
                         \/ t = entries[v].slot
    <3>. TAKE t \in Slots
    <3>1. t \in free \/ \E q \in DOMAIN entries : entries[q].slot = t
      BY <1>2 DEF TierInv, Slotted
    <3>. QED BY <1>1, <3>1
  <2>3. /\ \A q, x \in DOMAIN entries' : entries'[q].slot = entries'[x].slot => q = x
        /\ \A q \in DOMAIN entries' : entries'[q].slot \notin free
    BY <1>1 DEF TierInv, Slotted
  <2>. QED BY <1>4, <2>1, <2>2, <2>3 DEF Slotted
<1>9. Waited'
  BY <1>1, <1>3, <1>4, <1>5, <1>6 DEF Waited
<1>10. Reads'
  <2>1. \A r \in readers : /\ r.page \in DOMAIN entries /\ entries[r.page].state = "reading"
                           /\ entries[r.page].slot = r.slot
    BY <1>2 DEF TierInv, Reads
  <2>2. \A r \in readers :
          \/ r.page \in DOMAIN entries' /\ entries'[r.page].state = "reading"
             /\ entries'[r.page].slot = r.slot
          \/ main' \in Waits /\ main'.at = "waitRead" /\ main'.victim = r.page
             /\ main'.slot = r.slot
    BY <1>1, <1>4, <2>1
  <2>. QED BY <2>2 DEF TierInv, Reads
<1>11. Queues(disk, writer, main)' /\ PagesOnDisk'
  <2>1. NotFlushing(main) /\ Extended(disk, disk, p, None, 0) /\ disk \in Disks
    BY <1>2, SameExtended DEF NotFlushing, Typed
  <2>2. Queues(disk, writer, main')
    BY <2>1, ExtensionKeepsQueues DEF TierInv
  <2>. QED BY <2>2 DEF TierInv, PagesOnDisk
<1>12. Tenants'
  <2>1. \A x, t : Tenant(x, t) => Tenant(x, t)'
    BY <1>1, <1>2, <1>4 DEF Tenant
  <2>. QED BY <2>1 DEF TierInv, Tenants
<1>13. Contents' /\ Events'
  BY <1>1 DEF TierInv, Contents, Events
<1>. QED BY <1>7, <1>8, <1>9, <1>10, <1>11, <1>12, <1>13 DEF TierInv

\* A free slot is vacant.
LEMMA FreeVacant ==
  ASSUME TierInv, main = Idle, NEW s \in free, free' = free \ {s}
  PROVE  Vacant(s, entries, free')
<1>1. main \notin Waits
  BY Places
<1>2. disk.pending \subseteq DOMAIN entries /\ \A r \in readers : r.page \in DOMAIN entries
  BY <1>1 DEF TierInv, Waited, Reads
<1>3. /\ \A q \in DOMAIN entries : entries[q].slot \notin free
      /\ \A t \in Slots : t \in free \/ \E q \in DOMAIN entries : entries[q].slot = t
      /\ free \subseteq Slots
  BY <1>1 DEF TierInv, Slotted, Typed
<1>. QED BY <1>2, <1>3 DEF Vacant

\* The slot of an entry that is neither read nor written is vacant without the entry.
LEMMA VictimVacant ==
  ASSUME TierInv, main = Idle, NEW v \in DOMAIN entries, ~ Busy(v), free' = free
  PROVE  Vacant(entries[v].slot, Forget(entries, v), free')
<1> DEFINE others == Forget(entries, v)
<1>1. main \notin Waits
  BY Places
<1>2. /\ DOMAIN others = DOMAIN entries \ {v}
      /\ \A q \in DOMAIN others : others[q] = entries[q]
  BY DEF Forget, Restrict
<1> HIDE DEF others
<1>3. disk.pending \subseteq DOMAIN others /\ \A r \in readers : r.page \in DOMAIN others
  BY <1>1, <1>2 DEF TierInv, Waited, Reads, Busy, Reading
<1>4. /\ \A q \in DOMAIN others : others[q].slot # entries[v].slot /\ others[q].slot \notin free
      /\ entries[v].slot \notin free /\ free \subseteq Slots
  BY <1>2 DEF TierInv, Slotted, Typed
<1>5. ASSUME NEW t \in Slots
      PROVE  t \in free \/ t = entries[v].slot \/ \E q \in DOMAIN others : others[q].slot = t
  <2>1. t \in free \/ \E q \in DOMAIN entries : entries[q].slot = t
    BY <1>1 DEF TierInv, Slotted
  <2>. QED BY <1>2, <2>1
<1>. QED BY <1>2, <1>3, <1>4, <1>5 DEF Vacant, others

\* The slot a waiting main thread has taken over is vacant once it may use it.
LEMMA WonVacant ==
  ASSUME TierInv, main \in Waits, main.at = "use", free' = free
  PROVE  Vacant(main.slot, entries, free')
<1>1. disk.pending \subseteq DOMAIN entries /\ \A r \in readers : r.page \in DOMAIN entries
  BY DEF TierInv, Waited, Reads
<1>2. /\ \A q \in DOMAIN entries : entries[q].slot \notin free /\ entries[q].slot # main.slot
      /\ main.slot \notin free /\ free \subseteq Slots
      /\ \A t \in Slots : t \in free \/ t = main.slot \/ \E q \in DOMAIN entries : entries[q].slot = t
  BY DEF TierInv, Slotted, Typed
<1>. QED BY <1>1, <1>2 DEF Vacant

\* _new_slot() and what it was called for, up to the first wait.
LEMMA NewSlotKeeps ==
  ASSUME TierInv, main = Idle, NEW how \in {"store", "prefetch", "restore"}, NEW p \in Pages,
         p \notin DOMAIN entries, NewSlot(how, p), UNCHANGED <<slab, file, writer>>
  PROVE  TierInv'
<1>0. main \notin Waits /\ Typed
  BY Places DEF TierInv
<1>1. p \notin DOMAIN entries \cup disk.pending
  BY <1>0 DEF TierInv, Waited
<1>2. CASE free # {}
  <2> DEFINE s == CHOOSE t \in free : TRUE
  <2>1. s \in free /\ free' = free \ {s} /\ Use(how, p, s, entries)
    BY <1>2 DEF NewSlot
  <2> HIDE DEF s
  <2>2. s \in Slots
    BY <1>0, <2>1 DEF Typed
  <2>. QED BY <1>0, <1>1, <2>1, <2>2, FreeVacant, UseKeeps
<1>3. CASE free = {}
  <2>1. PICK v \in DOMAIN entries :
          IF ~ Busy(v) THEN Use(how, p, entries[v].slot, Forget(entries, v))
          ELSE /\ entries' = Forget(entries, v)
               /\ main' = [at |-> "waitRead", how |-> how, page |-> p, victim |-> v,
                           slot |-> entries[v].slot]
               /\ UNCHANGED <<events, stream, disk, readers>>
    BY <1>3 DEF NewSlot
  <2>2. free' = free
    BY <1>3 DEF NewSlot
  <2>3. CASE ~ Busy(v)
    <3>1. entries[v].slot \in Slots
      BY <1>0, Members
    <3>2. Vacant(entries[v].slot, Forget(entries, v), free')
      BY <2>2, <2>3, VictimVacant
    <3>3. Use(how, p, entries[v].slot, Forget(entries, v))
      BY <2>1, <2>3
    <3>. QED BY <1>0, <1>1, <3>1, <3>2, <3>3, UseKeeps
  <2>4. CASE Busy(v)
    <3>1. /\ entries' = Forget(entries, v)
          /\ main' = [at |-> "waitRead", how |-> how, page |-> p, victim |-> v,
                      slot |-> entries[v].slot]
          /\ UNCHANGED <<free, slab, events, stream, disk, file, readers, writer>>
      BY <2>1, <2>2, <2>4
    <3>. QED BY <3>1, WaitKeeps
  <2>. QED BY <2>3, <2>4
<1>. QED BY <1>2, <1>3

\* The main thread stays where nobody else looks: what a change of its place must keep.
LEMMA MainMoves ==
  ASSUME TierInv, UNCHANGED <<entries, free, slab, events, stream, disk, file, readers, writer>>,
         Typed', Slotted', Waited', Reads', Tenants', Queues(disk, writer, main')
  PROVE  TierInv'
<1>1. Queues(disk, writer, main)' /\ PagesOnDisk' /\ Contents' /\ Events'
  BY DEF TierInv, PagesOnDisk, Contents, Events
<1>. QED BY <1>1 DEF TierInv

\* store(), prefetch() and restore.
LEMMA RequestKeeps ==
  ASSUME TierInv, NEW p \in Pages, Store(p) \/ Prefetch(p) \/ Restore(p)
  PROVE  TierInv'
<1>1. main = Idle
  BY DEF Store, Prefetch, Restore, Resting
<1>2. CASE \/ Store(p) \/ Prefetch(p)
           \/ Restore(p) /\ p \notin DOMAIN entries
  <2>1. /\ p \notin DOMAIN entries /\ UNCHANGED <<slab, file, writer>>
        /\ \E how \in {"store", "prefetch", "restore"} : NewSlot(how, p)
    BY <1>2 DEF Store, Prefetch, Restore
  <2>. QED BY <1>1, <2>1, NewSlotKeeps
<1>3. CASE Restore(p) /\ p \in DOMAIN entries
  <2>1. /\ main' = Await(p)
        /\ UNCHANGED <<entries, free, slab, events, stream, disk, file, readers, writer>>
    BY <1>3 DEF Restore
  <2>2. main \notin Waits /\ main' \in Awaits /\ main'.page = p /\ main' \notin Waits
    BY <1>1, <2>1, Places
  <2>3. Typed' /\ Slotted' /\ Waited' /\ Reads'
    BY <1>3, <2>1, <2>2 DEF TierInv, Typed, Slotted, Waited, Reads
  <2>4. Tenants'
    <3>1. \A x, t : Tenant(x, t) => Tenant(x, t)'
      BY <2>1, <2>2 DEF Tenant
    <3>. QED BY <2>1, <3>1 DEF TierInv, Tenants
  <2>5. Queues(disk, writer, main')
    <3>1. NotFlushing(main) /\ Extended(disk, disk, p, None, 0) /\ disk \in Disks
      BY <2>2, SameExtended DEF NotFlushing, TierInv, Typed
    <3>. QED BY <3>1, ExtensionKeepsQueues DEF TierInv
  <2>. QED BY <2>1, <2>3, <2>4, <2>5, MainMoves
<1>. QED BY <1>2, <1>3

-----------------------------------------------------------------------------
(* The main thread.                                                         *)

\* Another queue in the same table.
LEMMA QueueReplaced ==
  ASSUME NEW d \in Disks, NEW q \in Seq(Ops)
  PROVE  /\ [d EXCEPT !.queue = q] \in Disks
         /\ [d EXCEPT !.queue = q].pages = d.pages
         /\ [d EXCEPT !.queue = q].pending = d.pending
         /\ [d EXCEPT !.queue = q].queue = q
BY DEF Disks

\* Where the main thread is when its place has a name.
LEMMA PlaceOfMain ==
  ASSUME Typed
  PROVE  /\ main.at \in {"waitRead", "checkWrite", "waitFlush", "use"} => main \in Waits
         /\ main.at = "await" => main \in Awaits
BY Places DEF Typed

\* A main thread that waits for no flush may go anywhere, as far as the queue goes.
LEMMA QueuesWithoutFlush ==
  ASSUME TierInv, NotFlushing(main), NEW m
  PROVE  Queues(disk, writer, m)
<1>1. disk \in Disks
  BY DEF TierInv, Typed
<1>2. Queues(disk, writer, main)
  BY DEF TierInv
<1>3. PageWrites(disk, writer) /\ Deletions(disk, writer)
  BY <1>2 DEF Queues
<1>4. Flushes(disk, writer, m)
  BY <1>2 DEF Queues, Flushes, NotFlushing
<1>. QED BY <1>3, <1>4 DEF Queues

\* The main thread gets one wait further.
LEMMA WaitMoves ==
  ASSUME TierInv, main \in Waits,
         NEW at \in {"checkWrite", "waitFlush", "use"},
         main' = [main EXCEPT !.at = at],
         \A r \in readers : r.page # main.victim,
         at = "use" => main.victim \notin disk'.pending,
         UNCHANGED <<entries, free, readers>>, disk'.pending = disk.pending
  PROVE  /\ main' \in Waits /\ main'.at = at /\ main'.victim = main.victim
         /\ main'.page = main.page /\ main'.slot = main.slot
         /\ Slotted' /\ Waited' /\ Reads'
         /\ \A x, t : Tenant(x, t) => Tenant(x, t)'
<1>1. /\ main' \in Waits /\ main'.at = at /\ main'.victim = main.victim
      /\ main'.page = main.page /\ main'.slot = main.slot
  BY DEF Waits
<1>2. main' \notin Awaits
  BY <1>1, Places
<1>3. Slotted'
  BY <1>1 DEF TierInv, Slotted
<1>4. Waited'
  BY <1>1, <1>2 DEF TierInv, Waited
<1>5. Reads'
  BY DEF TierInv, Reads
<1>6. \A x, t : Tenant(x, t) => Tenant(x, t)'
  BY <1>1 DEF Tenant
<1>. QED BY <1>1, <1>3, <1>4, <1>5, <1>6

\* The victim's read is over, or its write is not pending.
LEMMA VictimKeeps ==
  ASSUME TierInv, VictimRead \/ (VictimFlush /\ main.victim \notin disk.pending)
  PROVE  TierInv'
<1>1. PICK at \in {"checkWrite", "use"} :
        /\ main' = [main EXCEPT !.at = at]
        /\ main.at \in {"waitRead", "checkWrite"}
        /\ \A r \in readers : r.page # main.victim
        /\ at = "use" => main.victim \notin disk.pending
        /\ UNCHANGED <<entries, free, slab, events, stream, disk, file, readers, writer>>
  <2>1. CASE VictimRead
    BY <2>1 DEF VictimRead, Reading
  <2>2. CASE VictimFlush /\ main.victim \notin disk.pending
    <3>1. main \in Waits
      BY <2>2, PlaceOfMain DEF VictimFlush, TierInv
    <3>2. ASSUME NEW r \in readers PROVE r.page # main.victim
      BY <2>2, <3>1 DEF VictimFlush, TierInv, Reads, Waited
    <3>. QED BY <2>2, <3>2 DEF VictimFlush
  <2>. QED BY <2>1, <2>2
<1>2. main \in Waits /\ NotFlushing(main)
  BY <1>1, PlaceOfMain DEF NotFlushing, TierInv
<1>3. /\ main' \in Waits /\ Slotted' /\ Waited' /\ Reads'
      /\ \A x, t : Tenant(x, t) => Tenant(x, t)'
  BY <1>1, <1>2, WaitMoves
<1>4. Typed'
  BY <1>1, <1>3 DEF TierInv, Typed
<1>5. Tenants'
  BY <1>1, <1>3 DEF TierInv, Tenants
<1>6. Queues(disk, writer, main')
  BY <1>2, QueuesWithoutFlush
<1>. QED BY <1>1, <1>3, <1>4, <1>5, <1>6, MainMoves

\* The flush is queued behind the victim's write.
LEMMA VictimFlushKeeps ==
  ASSUME TierInv, VictimFlush, main.victim \in disk.pending
  PROVE  TierInv'
<1> DEFINE op == Op("flush", None, None, 0)
           n == Len(disk.queue)
<1>1. /\ disk' = [disk EXCEPT !.queue = Append(disk.queue, op)]
      /\ main' = [main EXCEPT !.at = "waitFlush"] /\ main.at = "checkWrite"
      /\ UNCHANGED <<entries, free, slab, events, stream, file, readers, writer>>
  BY DEF VictimFlush, TierInv, Typed, Disks
<1>2. Typed /\ disk \in Disks /\ disk.queue \in Seq(Ops) /\ n \in Nat
  BY Members DEF TierInv, Typed
<1>3. op \in Ops /\ op.kind = "flush" /\ op.after = 0
  BY DEF Op, Ops
<1> HIDE DEF op
<1>4. main \in Waits /\ NotFlushing(main)
  BY <1>1, <1>2, PlaceOfMain DEF NotFlushing
<1>5. /\ disk' \in Disks /\ disk'.pages = disk.pages /\ disk'.pending = disk.pending
      /\ disk'.queue = Append(disk.queue, op)
  <2>1. Append(disk.queue, op) \in Seq(Ops)
    BY <1>2, <1>3
  <2>. QED BY <1>1, <1>2, <2>1, QueueReplaced
<1>6. /\ Len(disk'.queue) = n + 1 /\ disk'.queue[n + 1] = op
      /\ \A i \in 1..n : disk'.queue[i] = disk.queue[i]
      /\ \A i \in 1..n + 1 : i \in 1..n \/ i = n + 1
  BY <1>2, <1>3, <1>5, AppendProperties
<1> HIDE DEF n
<1>7. \A r \in readers : r.page # main.victim
  BY <1>1, <1>4 DEF TierInv, Reads, Waited
<1>8. /\ main' \in Waits /\ main'.at = "waitFlush" /\ main'.victim = main.victim
      /\ Slotted' /\ Waited' /\ Reads'
      /\ \A x, t : Tenant(x, t) => Tenant(x, t)'
  BY <1>1, <1>4, <1>5, <1>7, WaitMoves
<1>9. Typed'
  BY <1>1, <1>5, <1>8 DEF TierInv, Typed
<1>10. Queues(disk, writer, main)'
  <2>1. PageWrites(disk, writer) /\ Deletions(disk, writer) /\ Flushes(disk, writer, main)
    BY DEF TierInv, Queues
  <2>2. \A i \in 1..n + 1 : disk'.queue[i].kind \in {"page", "delete"} =>
          i \in 1..n /\ disk'.queue[i] = disk.queue[i]
    BY <1>3, <1>6
  <2>3. \A i \in 1..n : i \in 1..n + 1
    BY <1>2
  <2>4. PageWrites(disk', writer)
    BY <1>5, <1>6, <2>1, <2>2, <2>3 DEF PageWrites, n
  <2>5. Deletions(disk', writer)
    BY <1>5, <1>6, <2>1, <2>2 DEF Deletions, n
  <2>6. /\ \A i \in 1..n : disk.queue[i].kind # "flush"
        /\ ~ (writer \in Hands /\ writer.op.kind = "flush")
    BY <1>4, <2>1 DEF Flushes, NotFlushing, n
  <2>7. \A j \in 1..n + 1 : disk'.queue[j].kind = "page" => j < n + 1
    BY <1>2, <2>2 DEF n
  <2>8. \A i \in 1..n + 1 : disk'.queue[i].kind = "flush" => i = n + 1
    BY <1>6, <2>6
  <2>9. Flushes(disk', writer, main')
    BY <1>6, <1>8, <2>6, <2>7, <2>8 DEF Flushes
  <2>. QED BY <1>1, <2>4, <2>5, <2>9 DEF Queues
<1>11. Tenants'
  <2>1. \A i \in 1..n + 1 : disk'.queue[i].kind = "page" =>
          i \in 1..n /\ disk'.queue[i] = disk.queue[i]
    BY <1>3, <1>6
  <2>. QED BY <1>1, <1>6, <1>8, <2>1 DEF TierInv, Tenants, n
<1>12. Contents'
  <2>1. Written(slab, stream, op)
    BY <1>2, <1>3, Members DEF Written
  <2>2. \A i \in 1..n + 1 : Written(slab, stream, disk'.queue[i])
    BY <1>6, <2>1 DEF TierInv, Contents, n
  <2>. QED BY <1>1, <1>6, <2>2 DEF TierInv, Contents
<1>13. PagesOnDisk' /\ Events'
  BY <1>1, <1>5 DEF TierInv, PagesOnDisk, Events
<1>. QED BY <1>8, <1>9, <1>10, <1>11, <1>12, <1>13 DEF TierInv

\* The slot is used at last.
LEMMA UseVictimKeeps ==
  ASSUME TierInv, UseVictim
  PROVE  TierInv'
<1>1. main \in Waits /\ main.at = "use" /\ free' = free /\ UNCHANGED <<slab, file, writer>>
      /\ Use(main.how, main.page, main.slot, entries)
  BY PlaceOfMain DEF UseVictim, TierInv
<1>2. main.page \in Pages /\ main.slot \in Slots
  BY <1>1, Places
<1>3. main.page \notin DOMAIN entries \cup disk.pending
  BY <1>1 DEF TierInv, Waited
<1>4. Vacant(main.slot, entries, free')
  BY <1>1, WonVacant
<1>. QED BY <1>1, <1>2, <1>3, <1>4, UseKeeps

\* fetch(): the read has failed, and its entry and slot are given back, or the copy to
\* the cache page is enqueued.
LEMMA FetchKeeps ==
  ASSUME TierInv, Fetch
  PROVE  TierInv'
<1> DEFINE p == main.page
           s == entries[p].slot
           c == [dir |-> "in", slot |-> s, page |-> p]
           n == Len(stream) + 1
<1>1. Typed /\ main \in Awaits /\ main \notin Waits /\ p \in DOMAIN entries /\ p \in Pages
  BY PlaceOfMain, Places DEF Fetch, TierInv, Waited
<1>2. s \in Slots /\ entries[p].state \in {"stored", "failed"}
  BY <1>1, Members DEF Fetch
<1>3. main' = Idle /\ main' \notin Waits /\ main' \notin Awaits
      /\ UNCHANGED <<slab, disk, file, readers, writer>>
  BY Places DEF Fetch
<1>4. NotFlushing(main)
  BY <1>1 DEF NotFlushing
<1>5. Queues(disk, writer, main)' /\ PagesOnDisk'
  BY <1>3, <1>4, QueuesWithoutFlush DEF TierInv, PagesOnDisk
<1>6. /\ \A x \in disk.pending : x \in DOMAIN entries /\ entries[x].state = "stored"
      /\ \A r \in readers : /\ r.page \in DOMAIN entries /\ entries[r.page].state = "reading"
                            /\ entries[r.page].slot = r.slot
  BY <1>1 DEF TierInv, Waited, Reads
<1>7. CASE entries[p].state = "failed"
  <2>1. /\ entries' = Forget(entries, p) /\ free' = free \cup {s}
        /\ UNCHANGED <<events, stream>>
    BY <1>7 DEF Fetch
  <2>2. /\ DOMAIN entries' = DOMAIN entries \ {p}
        /\ \A q \in DOMAIN entries' : entries'[q] = entries[q]
    BY <2>1 DEF Forget, Restrict
  <2>3. Typed'
    BY <1>1, <1>2, <1>3, <2>1, <2>2 DEF Typed
  <2>4. Slotted'
    <3>1. \A t \in Slots : \/ t \in free'
                           \/ \E q \in DOMAIN entries' : entries'[q].slot = t
      <4>. TAKE t \in Slots
      <4>1. t \in free \/ \E q \in DOMAIN entries : entries[q].slot = t
        BY <1>1 DEF TierInv, Slotted
      <4>. QED BY <2>1, <2>2, <4>1
    <3>2. /\ \A q, x \in DOMAIN entries' : entries'[q].slot = entries'[x].slot => q = x
          /\ \A q \in DOMAIN entries' : entries'[q].slot \notin free'
      BY <1>1, <2>1, <2>2 DEF TierInv, Slotted
    <3>. QED BY <1>3, <3>1, <3>2 DEF Slotted
  <2>5. \A x \in DOMAIN entries : entries[x].state # "failed" => x \in DOMAIN entries'
    BY <1>7, <2>2
  <2>6. Waited' /\ Reads'
    <3>1. \A x \in disk.pending : x \in DOMAIN entries' /\ entries'[x].state = "stored"
      BY <1>6, <2>2, <2>5
    <3>2. \A r \in readers : /\ r.page \in DOMAIN entries' /\ entries'[r.page].state = "reading"
                             /\ entries'[r.page].slot = r.slot
      BY <1>6, <2>2, <2>5
    <3>. QED BY <1>3, <3>1, <3>2 DEF TierInv, Waited, Reads
  <2>7. Tenants'
    <3>1. \A x \in disk.pending : \A t : Tenant(x, t) => Tenant(x, t)'
      BY <1>1, <1>6, <2>2, <2>5 DEF Tenant
    <3>2. \A i \in 1..Len(disk.queue) : disk.queue[i].kind = "page" =>
            disk.queue[i].page \in disk.pending
      BY DEF TierInv, Queues, PageWrites
    <3>3. writer \in Hands /\ writer.op.kind = "page" => writer.op.page \in disk.pending
      BY Places DEF TierInv, Queues, PageWrites, InHand, Ops
    <3>. QED BY <1>3, <3>1, <3>2, <3>3 DEF TierInv, Tenants
  <2>8. Contents' /\ Events'
    BY <1>3, <2>1, <2>2 DEF TierInv, Contents, Events
  <2>. QED BY <1>5, <2>3, <2>4, <2>6, <2>7, <2>8 DEF TierInv
<1>8. CASE entries[p].state = "stored"
  <2>0. c \in Copies /\ c.dir = "in" /\ c.slot = s /\ c.page = p
    BY <1>1, <1>2 DEF Copies
  <2>1. /\ stream' = Append(stream, c) /\ events' = [events EXCEPT ![s] = n]
        /\ UNCHANGED <<entries, free>>
    BY <1>8 DEF Fetch
  <2> HIDE DEF c
  <2>2. /\ Len(stream) \in Nat /\ Len(stream') = n /\ stream' \in Seq(Copies) /\ stream'[n] = c
        /\ \A k \in 1..Len(stream) : stream'[k] = stream[k]
    BY <1>1, <2>0, <2>1, AppendProperties DEF Typed
  <2>3. Typed'
    <3>1. events' \in [Slots -> Nat]
      <4>1. n \in Nat /\ events \in [Slots -> Nat]
        BY <1>1, <2>2 DEF Typed
      <4> HIDE DEF n, s
      <4>. QED BY <1>2, <2>1, <4>1
    <3>. QED BY <1>1, <1>3, <2>1, <2>2, <3>1 DEF Typed
  <2>4. Slotted'
    BY <1>1, <1>3, <2>1 DEF TierInv, Slotted
  <2>5. Waited' /\ Reads'
    BY <1>3, <1>6, <2>1 DEF TierInv, Waited, Reads
  <2>6. Tenants'
    <3>1. \A x, t : Tenant(x, t) => Tenant(x, t)'
      BY <1>1, <2>1 DEF Tenant
    <3>. QED BY <1>3, <3>1 DEF TierInv, Tenants
  <2>7. Contents'
    <3>1. ASSUME NEW q \in DOMAIN entries, entries[q].state = "stored"
          PROVE  Holds(slab, stream', entries[q].slot, n, q)
      <4>1. Holds(slab, stream, entries[q].slot, Len(stream), q)
        BY <3>1 DEF TierInv, Contents
      <4>. QED BY <1>1, <2>0, <2>1, <4>1, HoldsBehind DEF Typed
    <3>2. ASSUME NEW k \in 1..n, stream'[k].dir = "in"
          PROVE  Holds(slab, stream', stream'[k].slot, k - 1, stream'[k].page)
      <4>1. CASE k = n
        <5>1. Holds(slab, stream, s, n - 1, p)
          <6>1. n - 1 = Len(stream)
            BY <2>2
          <6>. QED BY <1>1, <1>8, <6>1 DEF TierInv, Contents
        <5>2. n - 1 \in 0..Len(stream)
          BY <2>2
        <5>3. Holds(slab, stream', s, n - 1, p)
          BY <1>1, <2>0, <2>1, <5>1, <5>2, HoldsAppended DEF Typed
        <5>. QED BY <2>0, <2>2, <4>1, <5>3
      <4>2. CASE k # n
        <5>1. k \in 1..Len(stream) /\ k - 1 \in 0..Len(stream) /\ stream'[k] = stream[k]
          BY <2>2, <4>2
        <5>2. Holds(slab, stream, stream[k].slot, k - 1, stream[k].page)
          BY <3>2, <5>1 DEF TierInv, Contents
        <5>. QED BY <1>1, <2>0, <2>1, <5>1, <5>2, HoldsAppended DEF Typed
      <4>. QED BY <4>1, <4>2
    <3>3. ASSUME NEW op \in Ops, Written(slab, stream, op)
          PROVE  Written(slab, stream', op)
      BY <1>1, <2>0, <2>1, <3>3, WrittenAppended DEF Typed
    <3>4. \A i \in 1..Len(disk.queue) : Written(slab, stream', disk.queue[i])
      BY <1>1, <3>3, Members DEF TierInv, Contents
    <3>5. writer \in Hands /\ writer.phase = "write" => Written(slab, stream', writer.op)
      BY <3>3, Places DEF TierInv, Contents
    <3>6. \A r \in readers : r.after <= n
      <4>1. \A r \in readers : r.after \in Nat /\ r.after <= Len(stream)
        BY <1>1, Members DEF TierInv, Contents
      <4>. QED BY <2>2, <4>1
    <3>. QED BY <1>3, <2>1, <2>2, <3>1, <3>2, <3>4, <3>5, <3>6 DEF Contents
  <2>8. Events'
    <3>1. \A k \in 1..n : \/ k \in 1..Len(stream) /\ stream'[k] = stream[k]
                          \/ k = n /\ stream'[k].slot = s
      BY <2>0, <2>2
    <3>2. \A r \in readers : r.slot # s
      BY <1>1, <1>6, <1>8 DEF TierInv, Slotted
    <3>3. \A r \in readers : \A k \in 1..n : stream'[k].slot = r.slot => k <= r.after
      BY <3>1, <3>2 DEF TierInv, Events
    <3>4. ASSUME NEW t \in Slots
          PROVE  /\ events'[t] <= n
                 /\ \/ \E r \in readers : r.slot = t
                    \/ \A k \in 1..n : stream'[k].slot = t => k <= events'[t]
      <4>1. CASE t = s
        BY <1>1, <2>1, <2>2, <4>1, Members
      <4>2. CASE t # s
        <5>1. events'[t] = events[t] /\ events[t] \in Nat
          BY <1>1, <2>1, <4>2, Members
        <5>2. events[t] <= Len(stream) /\
              (\/ \E r \in readers : r.slot = t
               \/ \A k \in 1..Len(stream) : stream[k].slot = t => k <= events[t])
          BY DEF TierInv, Events
        <5>. QED BY <2>2, <3>1, <4>2, <5>1, <5>2
      <4>. QED BY <4>1, <4>2
    <3>. QED BY <1>3, <2>2, <3>3, <3>4 DEF Events
  <2>. QED BY <1>5, <2>3, <2>4, <2>5, <2>6, <2>7, <2>8 DEF TierInv
<1>. QED BY <1>2, <1>7, <1>8

-----------------------------------------------------------------------------
(* The writer thread, and what empties its queue.                           *)

\* Operations leave the queue, or come into the hand of the writer; no page begins to
\* be pending.
Consumed ==
    /\ UNCHANGED <<entries, free, slab, events, stream, readers, main>>
    /\ disk' \in Disks /\ disk'.pending \subseteq disk.pending
    /\ \A i \in 1..Len(disk'.queue) : \E j \in 1..Len(disk.queue) : disk'.queue[i] = disk.queue[j]
    /\ writer' = NoOp \/ writer' \in Hands
    /\ writer' \in Hands =>
         \/ /\ writer \in Hands /\ writer'.op = writer.op
            /\ writer'.phase = "write" => writer.phase = "write"
         \/ \E j \in 1..Len(disk.queue) : writer'.op = disk.queue[j]

\* What the queue and the writer's hand may lose without disturbing anybody.
LEMMA ConsumedKeeps ==
  ASSUME TierInv, Consumed, file' \in [Pages -> Pages \cup {None, Bad}],
         Queues(disk, writer, main)', PagesOnDisk'
  PROVE  TierInv'
<1>1. Typed'
  BY DEF Consumed, TierInv, Typed
<1>2. Slotted' /\ Waited' /\ Reads'
  BY DEF Consumed, TierInv, Slotted, Waited, Reads
<1>3. Tenants'
  <2>1. \A x, t : Tenant(x, t) => Tenant(x, t)'
    BY DEF Consumed, Tenant
  <2>2. \A i \in 1..Len(disk'.queue) : disk'.queue[i].kind = "page" =>
          Tenant(disk'.queue[i].page, disk'.queue[i].slot)
    BY DEF Consumed, TierInv, Tenants
  <2>3. writer' \in Hands /\ writer'.op.kind = "page" => Tenant(writer'.op.page, writer'.op.slot)
    BY DEF Consumed, TierInv, Tenants
  <2>. QED BY <2>1, <2>2, <2>3 DEF Tenants
<1>4. Contents'
  <2>1. \A i \in 1..Len(disk'.queue) : Written(slab, stream, disk'.queue[i])
    BY DEF Consumed, TierInv, Contents
  <2>2. writer' \in Hands /\ writer'.phase = "write" => Written(slab, stream, writer'.op)
    BY DEF Consumed, TierInv, Contents
  <2>. QED BY <2>1, <2>2 DEF Consumed, TierInv, Contents
<1>5. Events'
  BY DEF Consumed, TierInv, Events
<1>. QED BY <1>1, <1>2, <1>3, <1>4, <1>5 DEF TierInv

\* The switches turned, the rest of the table as it was.
LEMMA SwitchedFacts ==
  ASSUME NEW d \in Disks, NEW b \in BOOLEAN
  PROVE  /\ [d EXCEPT !.disabled = b] \in Disks /\ [d EXCEPT !.paused = b] \in Disks
         /\ \A e \in {[d EXCEPT !.disabled = b], [d EXCEPT !.paused = b]} :
              e.pages = d.pages /\ e.pending = d.pending /\ e.queue = d.queue
BY DEF Disks

\* A table that differs in its switches has the same queue.
LEMMA SwitchedQueues ==
  ASSUME NEW d, NEW e, NEW w, NEW m, Queues(d, w, m),
         e.pages = d.pages, e.pending = d.pending, e.queue = d.queue
  PROVE  Queues(e, w, m)
<1>1. PageWrites(e, w)
  BY DEF Queues, PageWrites
<1>2. Deletions(e, w)
  BY DEF Queues, Deletions
<1>3. Flushes(e, w, m)
  BY DEF Queues, Flushes
<1>. QED BY <1>1, <1>2, <1>3 DEF Queues

\* abort(), and space that returns.
LEMMA SwitchKeeps ==
  ASSUME TierInv, Abort \/ SpaceReturns
  PROVE  TierInv'
<1>1. disk \in Disks /\ file \in [Pages -> Pages \cup {None, Bad}] /\ Queues(disk, writer, main)
      /\ (writer = NoOp \/ writer \in Hands)
  BY DEF TierInv, Typed
<1>2. CASE Abort
  <2> DEFINE d == [disk EXCEPT !.disabled = TRUE]
  <2>1. /\ d \in Disks /\ d.pages = disk.pages /\ d.pending = disk.pending
        /\ d.queue = disk.queue
    BY <1>1, SwitchedFacts
  <2>2. /\ disk' = DropQueuedWrites(d)
        /\ UNCHANGED <<entries, free, slab, events, stream, file, readers, writer, main>>
    BY <1>2 DEF Abort
  <2> HIDE DEF d
  <2>3. /\ disk' \in Disks /\ disk'.pages = d.pages /\ disk'.pending \subseteq d.pending
        /\ \E h \in [1..Len(disk'.queue) -> 1..Len(d.queue)] :
             \A i \in 1..Len(disk'.queue) : disk'.queue[i] = d.queue[h[i]]
    BY <2>1, <2>2, DropFacts
  <2>4. Queues(d, writer, main)
    BY <1>1, <2>1, SwitchedQueues
  <2>5. Queues(disk, writer, main)'
    BY <2>1, <2>2, <2>4, DropKeepsQueues
  <2>6. Consumed
    <3>1. ASSUME NEW i \in 1..Len(disk'.queue)
          PROVE  \E j \in 1..Len(disk.queue) : disk'.queue[i] = disk.queue[j]
      <4>1. PICK h \in [1..Len(disk'.queue) -> 1..Len(d.queue)] :
              \A k \in 1..Len(disk'.queue) : disk'.queue[k] = d.queue[h[k]]
        BY <2>3
      <4>2. h[i] \in 1..Len(disk.queue) /\ disk'.queue[i] = disk.queue[h[i]]
        BY <2>1, <4>1
      <4>. QED BY <4>2
    <3>. QED BY <1>1, <2>1, <2>2, <2>3, <3>1 DEF Consumed
  <2>7. PagesOnDisk'
    BY <2>1, <2>2, <2>3 DEF TierInv, PagesOnDisk
  <2>. QED BY <1>1, <2>2, <2>5, <2>6, <2>7, ConsumedKeeps
<1>3. CASE SpaceReturns
  <2>1. /\ disk' \in Disks /\ disk'.pages = disk.pages /\ disk'.pending = disk.pending
        /\ disk'.queue = disk.queue
        /\ UNCHANGED <<entries, free, slab, events, stream, file, readers, writer, main>>
    BY <1>1, <1>3, SwitchedFacts DEF SpaceReturns
  <2>2. Queues(disk, writer, main)'
    BY <1>1, <2>1, SwitchedQueues
  <2>3. Consumed
    BY <1>1, <2>1 DEF Consumed
  <2>4. PagesOnDisk'
    BY <2>1 DEF TierInv, PagesOnDisk
  <2>. QED BY <1>1, <2>1, <2>2, <2>3, <2>4, ConsumedKeeps
<1>. QED BY <1>2, <1>3

\* What the writer has in its hand when it is at work.
LEMMA HandFacts ==
  ASSUME TierInv, writer # NoOp
  PROVE  /\ writer \in Hands /\ writer.op \in Ops
         /\ writer.op.kind # "flush" => writer.op.page \in Pages
         /\ \A k, p : InHand(writer, k, p) <=> writer.op.kind = k /\ writer.op.page = p
         /\ \A k, p : ~ InHand(NoOp, k, p)
<1>1. writer \in Hands /\ writer.op \in Ops /\ NoOp \notin Hands
  BY Places DEF TierInv, Typed
<1>2. writer.op.kind # "flush" => writer.op.page \in Pages
  BY <1>1 DEF Ops
<1>. QED BY <1>1, <1>2 DEF InHand

\* The writer takes the first operation.
LEMMA TakeOpKeeps ==
  ASSUME TierInv, TakeOp
  PROVE  TierInv'
<1> DEFINE op == disk.queue[1]
           n == Len(disk.queue)
<1>1. /\ disk \in Disks /\ disk.queue \in Seq(Ops) /\ disk.queue # <<>> /\ n \in Nat
      /\ file \in [Pages -> Pages \cup {None, Bad}]
  BY Members DEF TierInv, Typed, TakeOp
<1>2. /\ Tail(disk.queue) \in Seq(Ops) /\ Len(Tail(disk.queue)) = n - 1 /\ n > 0
      /\ Head(disk.queue) = op /\ op \in Ops
      /\ \A i \in 1..n - 1 : Tail(disk.queue)[i] = disk.queue[i + 1]
  BY <1>1, HeadTailProperties
<1>3. /\ writer' = [phase |-> "write", op |-> op, image |-> None] /\ writer = NoOp
      /\ disk' = [disk EXCEPT !.queue = Tail(disk.queue)]
      /\ UNCHANGED <<entries, free, slab, events, stream, file, readers, main>>
  BY <1>1, <1>2 DEF TakeOp, Disks
<1>4. /\ disk' \in Disks /\ disk'.pages = disk.pages /\ disk'.pending = disk.pending
      /\ disk'.queue = Tail(disk.queue)
  BY <1>1, <1>2, <1>3, QueueReplaced
<1>5. /\ Len(disk'.queue) = n - 1
      /\ \A i \in 1..n - 1 : i + 1 \in 1..n /\ disk'.queue[i] = disk.queue[i + 1]
  BY <1>2, <1>4
<1> HIDE DEF op, n
<1>6. /\ writer' \in Hands /\ writer'.op = op /\ writer'.phase = "write"
      /\ \A k, p : InHand(writer', k, p) <=> op.kind = k /\ op.page = p
      /\ \A k, p : ~ InHand(writer, k, p)
      /\ writer \notin Hands
  BY <1>2, <1>3, Places DEF Hands, InHand
<1>7. PageWrites(disk, writer) /\ Deletions(disk, writer) /\ Flushes(disk, writer, main)
  BY DEF TierInv, Queues
<1>8. \A i \in 1..n : i = 1 \/ (i - 1 \in 1..n - 1 /\ disk'.queue[i - 1] = disk.queue[i])
  <2>. TAKE i \in 1..n
  <2>1. i # 1 => i - 1 \in 1..n - 1 /\ (i - 1) + 1 = i
    BY <1>1 DEF n
  <2>. QED BY <1>5, <2>1
<1>9. 1 \in 1..n /\ op = disk.queue[1] /\ \A i \in 1..n - 1 : i + 1 # 1
  BY <1>1, <1>2 DEF op, n
<1>10. PageWrites(disk', writer')
  <2>1. ASSUME NEW p \in disk.pending
        PROVE  \/ \E i \in 1..n - 1 : disk'.queue[i].kind = "page" /\ disk'.queue[i].page = p
               \/ InHand(writer', "page", p)
    <3>1. PICK i \in 1..n : disk.queue[i].kind = "page" /\ disk.queue[i].page = p
      BY <1>6, <1>7 DEF PageWrites, n
    <3>. QED BY <1>6, <1>8, <1>9, <3>1
  <2>2. ASSUME NEW i \in 1..n - 1, disk'.queue[i].kind = "page"
        PROVE  disk'.queue[i].page \in disk.pending /\ ~ InHand(writer', "page", disk'.queue[i].page)
    BY <1>5, <1>6, <1>7, <1>9, <2>2, SMTT(30) DEF PageWrites, n
  <2>3. \A p \in Pages : InHand(writer', "page", p) => p \in disk.pending
    BY <1>6, <1>7, <1>9 DEF PageWrites, n
  <2>4. ASSUME NEW i \in 1..n - 1, NEW j \in 1..n - 1,
               disk'.queue[i].kind = "page", disk'.queue[j].kind = "page",
               disk'.queue[i].page = disk'.queue[j].page
        PROVE  i = j
    <3>1. /\ i + 1 \in 1..n /\ disk'.queue[i] = disk.queue[i + 1]
          /\ j + 1 \in 1..n /\ disk'.queue[j] = disk.queue[j + 1]
      BY <1>5
    <3>2. /\ disk.queue[i + 1].kind = "page" /\ disk.queue[j + 1].kind = "page"
          /\ disk.queue[i + 1].page = disk.queue[j + 1].page
      BY <2>4, <3>1
    <3>3. i + 1 = j + 1
      BY <1>7, <3>1, <3>2 DEF PageWrites, n
    <3>. QED BY <3>3
  <2>5. disk'.pending \cap disk'.pages = {}
    BY <1>4, <1>7 DEF PageWrites
  <2>. QED BY <1>4, <1>5, <1>6, <2>1, <2>2, <2>3, <2>4, <2>5 DEF PageWrites
<1>11. Deletions(disk', writer')
  <2>1. ASSUME NEW i \in 1..n - 1, NEW j \in 1..n - 1,
               disk'.queue[i].kind = "page", disk'.queue[j].kind = "delete",
               disk'.queue[i].page = disk'.queue[j].page
        PROVE  j < i
    <3>1. j + 1 < i + 1
      BY <1>5, <1>7, <2>1 DEF Deletions, n
    <3>. QED BY <3>1
  <2>2. ASSUME NEW i \in 1..n - 1, disk'.queue[i].kind = "delete"
        PROVE  disk'.queue[i].page \notin disk.pages /\ ~ InHand(writer', "page", disk'.queue[i].page)
    <3>1. i + 1 \in 1..n /\ disk.queue[i + 1].kind = "delete" /\ ~ (i + 1 < 1)
          /\ disk'.queue[i] = disk.queue[i + 1]
      BY <1>5, <2>2
    <3>2. disk.queue[i + 1].page \notin disk.pages
      BY <1>7, <3>1 DEF Deletions, n
    <3>3. ~ (op.kind = "page" /\ op.page = disk.queue[i + 1].page)
      BY <1>7, <1>9, <3>1 DEF Deletions, n
    <3>. QED BY <1>6, <3>1, <3>2, <3>3
  <2>3. \A p \in Pages : InHand(writer', "delete", p) => p \notin disk.pages
    BY <1>6, <1>7, <1>9 DEF Deletions, n
  <2>. QED BY <1>4, <1>5, <2>1, <2>2, <2>3 DEF Deletions
<1>12. Flushes(disk', writer', main)
  <2>1. ASSUME NEW i \in 1..n - 1, disk'.queue[i].kind = "flush"
        PROVE  /\ main \in Waits /\ main.at = "waitFlush"
               /\ op.kind # "flush"
               /\ \A j \in 1..n - 1 :
                    /\ disk'.queue[j].kind = "flush" => i = j
                    /\ disk'.queue[j].kind = "page" /\ disk'.queue[j].page = main.victim => j < i
    <3>1. i + 1 \in 1..n /\ disk.queue[i + 1].kind = "flush" /\ i + 1 # 1
      BY <1>5, <1>9, <2>1
    <3>2. main \in Waits /\ main.at = "waitFlush" /\ op.kind # "flush"
      BY <1>7, <1>9, <3>1 DEF Flushes, n
    <3>3. ASSUME NEW j \in 1..n - 1
          PROVE  /\ disk'.queue[j].kind = "flush" => i = j
                 /\ disk'.queue[j].kind = "page" /\ disk'.queue[j].page = main.victim => j < i
      <4>1. /\ disk.queue[j + 1].kind = "flush" => i + 1 = j + 1
            /\ disk.queue[j + 1].kind = "page" /\ disk.queue[j + 1].page = main.victim
                 => j + 1 < i + 1
        BY <1>5, <1>7, <3>1 DEF Flushes, n
      <4>2. (i + 1 = j + 1 => i = j) /\ (j + 1 < i + 1 => j < i)
        OBVIOUS
      <4>. QED BY <1>5, <4>1, <4>2
    <3>. QED BY <3>2, <3>3
  <2>2. ASSUME op.kind = "flush"
        PROVE  main \in Waits /\ main.at = "waitFlush" /\ main.victim \notin disk.pending
    <3>1. main \in Waits /\ main.at = "waitFlush"
      BY <1>7, <1>9, <2>2 DEF Flushes, n
    <3>2. \A j \in 1..n : ~ (disk.queue[j].kind = "page" /\ disk.queue[j].page = main.victim)
      BY <1>7, <1>9, <2>2 DEF Flushes, n
    <3>. QED BY <1>6, <1>7, <3>1, <3>2 DEF PageWrites, n
  <2>. QED BY <1>4, <1>5, <1>6, <2>1, <2>2 DEF Flushes
<1>13. Consumed
  <2>1. \A i \in 1..Len(disk'.queue) : \E j \in 1..Len(disk.queue) : disk'.queue[i] = disk.queue[j]
    BY <1>5 DEF n
  <2>2. \E j \in 1..Len(disk.queue) : writer'.op = disk.queue[j]
    BY <1>6, <1>9 DEF n
  <2>. QED BY <1>3, <1>4, <1>6, <2>1, <2>2 DEF Consumed
<1>14. Queues(disk, writer, main)' /\ PagesOnDisk' /\ file' \in [Pages -> Pages \cup {None, Bad}]
  BY <1>1, <1>3, <1>4, <1>10, <1>11, <1>12 DEF Queues, TierInv, PagesOnDisk
<1>. QED BY <1>13, <1>14, ConsumedKeeps

\* The temporary file holds the page, because its slot does.
LEMMA WriteTmpKeeps ==
  ASSUME TierInv, WriteTmp
  PROVE  TierInv'
<1>1. /\ writer.phase = "write" /\ writer.op.kind = "page" /\ writer.op.after = 0
      /\ writer' = [writer EXCEPT !.phase = "publish", !.image = slab[writer.op.slot]]
      /\ UNCHANGED <<entries, free, slab, events, stream, disk, file, readers, main>>
  BY DEF WriteTmp
<1>2. writer \in Hands /\ writer.op \in Ops /\ writer.op.page \in Pages
  BY <1>1, HandFacts, Places
<1>3. slab[writer.op.slot] = writer.op.page
  <2>1. Holds(slab, stream, writer.op.slot, 0, writer.op.page)
    BY <1>1, <1>2 DEF TierInv, Contents, Written
  <2>. QED BY <2>1 DEF Holds
<1>4. /\ writer' \in Hands /\ writer'.op = writer.op /\ writer'.phase = "publish"
      /\ writer'.image = writer.op.page
  BY <1>1, <1>2, <1>3 DEF Hands
<1>5. \A k, p : InHand(writer', k, p) <=> InHand(writer, k, p)
  BY <1>2, <1>4 DEF InHand
<1>6. Queues(disk, writer, main)'
  <2>1. PageWrites(disk, writer')
    BY <1>1, <1>4, <1>5 DEF TierInv, Queues, PageWrites
  <2>2. Deletions(disk, writer')
    BY <1>5 DEF TierInv, Queues, Deletions
  <2>3. Flushes(disk, writer', main)
    BY <1>2, <1>4 DEF TierInv, Queues, Flushes
  <2>. QED BY <1>1, <2>1, <2>2, <2>3 DEF Queues
<1>7. Consumed
  BY <1>1, <1>2, <1>4 DEF Consumed, TierInv, Typed
<1>8. PagesOnDisk' /\ file' \in [Pages -> Pages \cup {None, Bad}]
  BY <1>1 DEF TierInv, PagesOnDisk, Typed
<1>. QED BY <1>6, <1>7, <1>8, ConsumedKeeps

\* A write that is over, well or badly, leaves the queue as it was.
LEMMA HandEmptied ==
  ASSUME TierInv, writer # NoOp, NEW d,
         d.queue = disk.queue,
         IF writer.op.kind = "page"
         THEN /\ d.pending = disk.pending \ {writer.op.page}
              /\ d.pages = disk.pages \/ d.pages = disk.pages \cup {writer.op.page}
         ELSE d.pending = disk.pending /\ d.pages = disk.pages
  PROVE  /\ PageWrites(d, NoOp) /\ Deletions(d, NoOp)
         /\ writer.op.kind # "flush" => Queues(d, NoOp, main)
<1>1. /\ writer \in Hands /\ writer.op \in Ops
      /\ writer.op.kind # "flush" => writer.op.page \in Pages
      /\ \A k, p : InHand(writer, k, p) <=> writer.op.kind = k /\ writer.op.page = p
      /\ \A k, p : ~ InHand(NoOp, k, p)
      /\ NoOp \notin Hands
  BY HandFacts, Places
<1>2. PageWrites(disk, writer) /\ Deletions(disk, writer) /\ Flushes(disk, writer, main)
  BY DEF TierInv, Queues
<1>3. CASE writer.op.kind = "page"
  <2>1. d.pending \cap d.pages = {}
    BY <1>2, <1>3 DEF PageWrites
  <2>2. \A p \in d.pending :
          \E i \in 1..Len(d.queue) : d.queue[i].kind = "page" /\ d.queue[i].page = p
    BY <1>1, <1>2, <1>3 DEF PageWrites
  <2>3. \A i \in 1..Len(d.queue) : d.queue[i].kind = "page" => d.queue[i].page \in d.pending
    BY <1>1, <1>2, <1>3 DEF PageWrites
  <2>4. PageWrites(d, NoOp)
    BY <1>1, <1>2, <2>1, <2>2, <2>3 DEF PageWrites
  <2>5. Deletions(d, NoOp)
    BY <1>1, <1>2, <1>3 DEF Deletions
  <2>6. Flushes(d, NoOp, main)
    BY <1>1, <1>2 DEF Flushes
  <2>. QED BY <2>4, <2>5, <2>6 DEF Queues
<1>4. CASE writer.op.kind # "page"
  <2>1. PageWrites(d, NoOp)
    BY <1>1, <1>2, <1>4 DEF PageWrites
  <2>2. Deletions(d, NoOp)
    BY <1>1, <1>2, <1>4 DEF Deletions
  <2>3. Flushes(d, NoOp, main)
    BY <1>1, <1>2, <1>4 DEF Flushes
  <2>. QED BY <2>1, <2>2, <2>3 DEF Queues
<1>. QED BY <1>3, <1>4

\* The file is in place before the mirror lists it.
LEMMA PublishKeeps ==
  ASSUME TierInv, PublishPage
  PROVE  TierInv'
<1> DEFINE x == writer.op.page
<1>1. /\ writer.phase = "publish" /\ writer' = NoOp
      /\ file' = [file EXCEPT ![x] = writer.image]
      /\ disk' = [disk EXCEPT !.pending = @ \ {x}, !.pages = @ \cup {x}]
      /\ UNCHANGED <<entries, free, slab, events, stream, readers, main>>
  BY DEF PublishPage
<1>2. writer # NoOp
  BY <1>1, Places
<1>3. writer \in Hands /\ writer.op.kind = "page" /\ writer.image = x /\ x \in Pages
  BY <1>1, <1>2, HandFacts DEF TierInv, Queues, PageWrites
<1>4. /\ disk' \in Disks /\ disk'.pending = disk.pending \ {x} /\ disk'.queue = disk.queue
      /\ disk'.pages = disk.pages \cup {x}
  BY <1>1, <1>3 DEF Disks, TierInv, Typed
<1>5. Queues(disk, writer, main)'
  BY <1>1, <1>2, <1>3, <1>4, HandEmptied
<1>6. Consumed
  BY <1>1, <1>4, Places DEF Consumed
<1>7. PagesOnDisk' /\ file' \in [Pages -> Pages \cup {None, Bad}]
  <2>1. file \in [Pages -> Pages \cup {None, Bad}] /\ None \notin Pages
    BY ConstantsDistinct DEF TierInv, Typed
  <2>2. file' \in [Pages -> Pages \cup {None, Bad}] /\ file'[x] = x
        /\ \A p \in Pages : p # x => file'[p] = file[p]
    BY <1>1, <1>3, <2>1
  <2>3. disk.pages \subseteq Pages
    BY DEF TierInv, Typed, Disks
  <2>. QED BY <1>3, <1>4, <2>1, <2>2, <2>3 DEF TierInv, PagesOnDisk
<1>. QED BY <1>5, <1>6, <1>7, ConsumedKeeps

\* A file goes only when the mirror has forgotten it.
LEMMA DeleteKeeps ==
  ASSUME TierInv, DeletePage
  PROVE  TierInv'
<1> DEFINE x == writer.op.page
<1>1. /\ writer.phase = "write" /\ writer.op.kind = "delete" /\ writer' = NoOp
      /\ file' = [file EXCEPT ![x] = None]
      /\ UNCHANGED <<entries, free, slab, events, stream, disk, readers, main>>
  BY DEF DeletePage
<1>2. writer # NoOp
  BY <1>1, Places
<1>3. writer \in Hands /\ x \in Pages /\ x \notin disk.pages
  BY <1>1, <1>2, HandFacts DEF TierInv, Queues, Deletions
<1>4. Queues(disk, writer, main)'
  BY <1>1, <1>2, HandEmptied
<1>5. Consumed
  BY <1>1, Places DEF Consumed, TierInv, Typed
<1>6. PagesOnDisk' /\ file' \in [Pages -> Pages \cup {None, Bad}]
  <2>1. file \in [Pages -> Pages \cup {None, Bad}]
    BY DEF TierInv, Typed
  <2>2. file' \in [Pages -> Pages \cup {None, Bad}] /\ file'[x] = None
        /\ \A p \in Pages : p # x => file'[p] = file[p]
    BY <1>1, <1>3, <2>1
  <2>3. disk.pages \subseteq Pages
    BY DEF TierInv, Typed, Disks
  <2>. QED BY <1>1, <1>3, <2>2, <2>3 DEF TierInv, PagesOnDisk
<1>. QED BY <1>4, <1>5, <1>6, ConsumedKeeps

\* A write fails; a full disk or a run of failures takes the queued ones with it.
LEMMA FailWriteKeeps ==
  ASSUME TierInv, FailWrite
  PROVE  TierInv'
<1> DEFINE x == writer.op.page
           d == [disk EXCEPT !.pending = @ \ {x}]
<1>1. /\ writer # NoOp /\ writer.op.kind = "page" /\ writer' = NoOp
      /\ disk' \in WriteFailed(d)
      /\ UNCHANGED <<entries, free, slab, events, stream, file, readers, main>>
  BY DEF FailWrite
<1>2. /\ d \in Disks /\ d.pages = disk.pages /\ d.queue = disk.queue
      /\ d.pending = disk.pending \ {x}
  BY DEF TierInv, Typed, Disks
<1> HIDE DEF d
<1>3. Queues(d, NoOp, main)
  BY <1>1, <1>2, HandEmptied
<1>4. /\ disk' \in Disks /\ disk'.pages = disk.pages /\ disk'.pending \subseteq disk.pending
      /\ \A i \in 1..Len(disk'.queue) : \E j \in 1..Len(disk.queue) : disk'.queue[i] = disk.queue[j]
      /\ Queues(disk', NoOp, main)
  <2>1. CASE disk' = d
    BY <1>2, <1>3, <2>1
  <2>2. CASE disk' # d
    <3>1. PICK f \in {[d EXCEPT !.disabled = TRUE], [d EXCEPT !.paused = TRUE]} :
            disk' = DropQueuedWrites(f)
      BY <1>1, <2>2 DEF WriteFailed
    <3>2. f \in Disks /\ f.pages = d.pages /\ f.pending = d.pending /\ f.queue = d.queue
      BY <1>2, <3>1, SwitchedFacts
    <3>3. Queues(f, NoOp, main)
      BY <1>3, <3>2, SwitchedQueues
    <3>4. Queues(disk', NoOp, main)
      BY <3>1, <3>2, <3>3, DropKeepsQueues
    <3>5. /\ disk' \in Disks /\ disk'.pages = f.pages /\ disk'.pending \subseteq f.pending
          /\ \E h \in [1..Len(disk'.queue) -> 1..Len(f.queue)] :
               \A i \in 1..Len(disk'.queue) : disk'.queue[i] = f.queue[h[i]]
      BY <3>1, <3>2, DropFacts
    <3>. QED BY <1>2, <3>2, <3>4, <3>5
  <2>. QED BY <2>1, <2>2
<1>5. Consumed
  BY <1>1, <1>4, Places DEF Consumed
<1>6. Queues(disk, writer, main)' /\ PagesOnDisk' /\ file' \in [Pages -> Pages \cup {None, Bad}]
  BY <1>1, <1>4 DEF TierInv, PagesOnDisk, Typed
<1>. QED BY <1>5, <1>6, ConsumedKeeps

\* The flush finds the victim's write done, and lets the main thread go on.
LEMMA FlushKeeps ==
  ASSUME TierInv, Flush
  PROVE  TierInv'
<1>1. /\ writer.phase = "write" /\ writer.op.kind = "flush" /\ writer' = NoOp
      /\ main' = [main EXCEPT !.at = "use"]
      /\ UNCHANGED <<entries, free, slab, events, stream, disk, file, readers>>
  BY DEF Flush
<1>2. writer # NoOp /\ writer \in Hands /\ NoOp \notin Hands
  BY <1>1, Places, HandFacts
<1>3. main \in Waits /\ main.at = "waitFlush" /\ main.victim \notin disk.pending
  BY <1>1, <1>2 DEF TierInv, Queues, Flushes
<1>4. \A r \in readers : r.page # main.victim
  BY <1>3 DEF TierInv, Reads, Waited
<1>5. /\ main' \in Waits /\ Slotted' /\ Waited' /\ Reads'
      /\ \A x, t : Tenant(x, t) => Tenant(x, t)'
  BY <1>1, <1>3, <1>4, WaitMoves
<1>6. Queues(disk, writer, main)'
  <2>1. PageWrites(disk, NoOp) /\ Deletions(disk, NoOp)
    BY <1>1, <1>2, HandEmptied
  <2>2. \A i \in 1..Len(disk.queue) : disk.queue[i].kind # "flush"
    BY <1>1, <1>2 DEF TierInv, Queues, Flushes
  <2>3. Flushes(disk, NoOp, main')
    BY <1>2, <2>2 DEF Flushes
  <2>. QED BY <1>1, <2>1, <2>3 DEF Queues
<1>7. Typed' /\ Tenants'
  BY <1>1, <1>2, <1>5 DEF TierInv, Typed, Tenants
<1>8. PagesOnDisk' /\ Contents' /\ Events'
  BY <1>1, <1>2 DEF TierInv, PagesOnDisk, Contents, Events
<1>. QED BY <1>5, <1>6, <1>7, <1>8 DEF TierInv

-----------------------------------------------------------------------------
(* The device stream.                                                       *)

\* A queue with the same kinds and pages at the same places is in the same order.
LEMMA RelabelledQueues ==
  ASSUME NEW d, NEW e, NEW w, NEW v, NEW m, Queues(d, w, m),
         e.pages = d.pages, e.pending = d.pending, Len(e.queue) = Len(d.queue),
         \A i \in 1..Len(d.queue) :
           e.queue[i].kind = d.queue[i].kind /\ e.queue[i].page = d.queue[i].page,
         v \in Hands <=> w \in Hands,
         w \in Hands => /\ v.op.kind = w.op.kind /\ v.op.page = w.op.page
                        /\ v.phase = w.phase /\ v.image = w.image
  PROVE  Queues(e, v, m)
<1>1. \A k, p : InHand(v, k, p) <=> InHand(w, k, p)
  BY DEF InHand
<1>2. PageWrites(e, v)
  BY <1>1, SMTT(30) DEF Queues, PageWrites
<1>3. Deletions(e, v)
  BY <1>1 DEF Queues, Deletions
<1>4. Flushes(e, v, m)
  BY DEF Queues, Flushes
<1>. QED BY <1>2, <1>3, <1>4 DEF Queues

\* What an event becomes when one copy is done.
LEMMA NearerFacts ==
  ASSUME NEW n \in Nat
  PROVE  /\ Nearer(n) \in Nat /\ Nearer(n) <= n
         /\ (n = 0 => Nearer(n) = 0) /\ (n # 0 => Nearer(n) = n - 1)
BY DEF Nearer

\* The copy at the head of the stream is done.
LEMMA ExecuteKeeps ==
  ASSUME TierInv, Execute
  PROVE  TierInv'
<1> DEFINE Q == 1..Len(disk.queue)
           q2 == [i \in Q |-> Closer(disk.queue[i])]
           n == Len(stream)
<1>1. Typed /\ disk \in Disks /\ stream \in Seq(Copies) /\ stream # <<>>
  BY Members DEF TierInv, Typed, Execute
<1>2. /\ n \in Nat \ {0} /\ Len(Tail(stream)) = n - 1 /\ Tail(stream) \in Seq(Copies)
      /\ Head(stream) = stream[1] /\ Head(stream) \in Copies
      /\ \A k \in 1..n - 1 : k + 1 \in 1..n /\ Tail(stream)[k] = stream[k + 1]
  BY <1>1, HeadTailProperties
<1>3. /\ stream' = Tail(stream) /\ slab' = Copied(slab, Head(stream))
      /\ events' = [s \in Slots |-> Nearer(events[s])]
      /\ readers' = {Closer(r) : r \in readers}
      /\ writer' = IF writer = NoOp THEN NoOp ELSE [writer EXCEPT !.op = Closer(@)]
      /\ UNCHANGED <<entries, free, file, main>>
  BY DEF Execute, Copied
<1>4. disk' = [disk EXCEPT !.queue = q2]
  <2>1. DOMAIN disk.queue = Q
    BY <1>1, Members
  <2>. QED BY <2>1 DEF Execute
<1>5. \A op \in Ops : /\ Closer(op) \in Ops /\ Closer(op).kind = op.kind
                      /\ Closer(op).page = op.page /\ Closer(op).slot = op.slot
  <2>1. \A op \in Ops : op.after \in Nat /\ Nearer(op.after) \in Nat
    BY NearerFacts DEF Ops
  <2>. QED BY <2>1 DEF Ops, Closer
<1>6. \A r \in readers : /\ Closer(r) \in ReadsUnderWay /\ Closer(r).page = r.page
                         /\ Closer(r).slot = r.slot /\ Closer(r).image = r.image
                         /\ Closer(r).after = Nearer(r.after)
                         /\ r.after \in Nat /\ r.after <= n
  <2>1. \A r \in readers : r \in ReadsUnderWay /\ r.after \in Nat /\ Nearer(r.after) \in Nat
                           /\ r.after <= n
    BY <1>1, Members, NearerFacts DEF TierInv, Typed, Contents
  <2>. QED BY <2>1 DEF ReadsUnderWay, Closer
<1>7. \A i \in Q : disk.queue[i] \in Ops
  BY <1>1, Members
<1>8. q2 \in Seq(Ops) /\ Len(q2) = Len(disk.queue) /\ \A i \in Q : q2[i] = Closer(disk.queue[i])
  <2>1. Len(disk.queue) \in Nat
    BY <1>1, Members
  <2>2. \A i \in Q : Closer(disk.queue[i]) \in Ops
    BY <1>5, <1>7
  <2>. QED BY <2>1, <2>2
<1>9. /\ disk' \in Disks /\ disk'.pages = disk.pages /\ disk'.pending = disk.pending
      /\ disk'.queue = q2
  BY <1>1, <1>4, <1>8, QueueReplaced
<1>10. writer \in Hands => /\ writer' \in Hands /\ writer'.op = Closer(writer.op)
                           /\ writer'.phase = writer.phase /\ writer'.image = writer.image
                           /\ writer.op \in Ops
  <2>1. ASSUME writer \in Hands
        PROVE  /\ writer' \in Hands /\ writer'.op = Closer(writer.op)
               /\ writer'.phase = writer.phase /\ writer'.image = writer.image
               /\ writer.op \in Ops
    <3>1. writer.op \in Ops /\ Closer(writer.op) \in Ops /\ writer # NoOp
      BY <1>5, <2>1, Places
    <3>2. writer' = [writer EXCEPT !.op = Closer(writer.op)]
      BY <1>3, <3>1
    <3>. QED BY <2>1, <3>1, <3>2 DEF Hands
  <2>. QED BY <2>1
<1>11. writer \notin Hands => writer' = NoOp /\ writer' \notin Hands
  BY <1>1, <1>3, Places DEF Typed
<1> HIDE DEF q2
<1>12. DOMAIN slab = Slots /\ slab' \in [Slots -> Pages \cup {None, Torn}]
  BY <1>1, <1>2, <1>3 DEF Typed, Copied, Copies
<1>13. Typed'
  <2>1. events' \in [Slots -> Nat]
    <3>1. \A s \in Slots : Nearer(events[s]) \in Nat
      BY <1>1, Members, NearerFacts
    <3>. QED BY <1>3, <3>1
  <2>2. readers' \subseteq ReadsUnderWay
    BY <1>3, <1>6
  <2>3. stream' \in Seq(Copies) /\ disk' \in Disks /\ (writer' = NoOp \/ writer' \in Hands)
    BY <1>1, <1>2, <1>3, <1>9, <1>10, <1>11 DEF Typed
  <2>. QED BY <1>1, <1>3, <1>12, <2>1, <2>2, <2>3 DEF Typed
<1>14. Slotted' /\ Waited' /\ PagesOnDisk'
  BY <1>3, <1>9 DEF TierInv, Slotted, Waited, PagesOnDisk
<1>15. Reads'
  <2>1. ASSUME NEW r \in readers
        PROVE  /\ \/ Closer(r).page \in DOMAIN entries
                     /\ entries[Closer(r).page].state = "reading"
                     /\ entries[Closer(r).page].slot = Closer(r).slot
                  \/ main \in Waits /\ main.at = "waitRead" /\ main.victim = Closer(r).page
                     /\ main.slot = Closer(r).slot
               /\ Closer(r).page \notin disk.pending
               /\ Closer(r).image \in {None, Bad, Closer(r).page}
               /\ Closer(r).image # None => Closer(r).after = 0
    <3>1. r.image # None => r.after = 0
      BY DEF TierInv, Reads
    <3>2. Closer(r).image # None => Closer(r).after = 0
      BY <1>6, <3>1, NearerFacts
    <3>. QED BY <1>6, <3>2 DEF TierInv, Reads
  <2>2. ASSUME NEW r \in readers, NEW t \in readers, Closer(r).page = Closer(t).page
        PROVE  Closer(r) = Closer(t)
    BY <1>6, <2>2 DEF TierInv, Reads
  <2>. QED BY <1>3, <1>9, <2>1, <2>2 DEF Reads
<1>16. Queues(disk, writer, main)'
  <2>1. \A i \in 1..Len(disk.queue) :
          disk'.queue[i].kind = disk.queue[i].kind /\ disk'.queue[i].page = disk.queue[i].page
    BY <1>5, <1>7, <1>8, <1>9
  <2>2. /\ writer' \in Hands <=> writer \in Hands
        /\ writer \in Hands =>
             /\ writer'.op.kind = writer.op.kind /\ writer'.op.page = writer.op.page
             /\ writer'.phase = writer.phase /\ writer'.image = writer.image
    BY <1>5, <1>10, <1>11
  <2>3. Queues(disk, writer, main)
    BY DEF TierInv
  <2>4. Queues(disk', writer', main)
    BY <1>8, <1>9, <2>1, <2>2, <2>3, RelabelledQueues
  <2>. QED BY <1>3, <2>4
<1>17. Tenants'
  <2>1. \A x, t : Tenant(x, t)' <=> Tenant(x, t)
    BY <1>3 DEF Tenant
  <2>2. \A i \in Q : disk'.queue[i].kind = "page" => Tenant(disk'.queue[i].page, disk'.queue[i].slot)
    BY <1>5, <1>7, <1>8, <1>9 DEF TierInv, Tenants
  <2>3. writer' \in Hands /\ writer'.op.kind = "page" => Tenant(writer'.op.page, writer'.op.slot)
    BY <1>5, <1>10, <1>11 DEF TierInv, Tenants
  <2>. QED BY <1>8, <1>9, <2>1, <2>2, <2>3 DEF Tenants
<1>18. ASSUME NEW op \in Ops, Written(slab, stream, op)
       PROVE  Written(slab', stream', Closer(op))
  BY <1>1, <1>3, <1>12, <1>18, WrittenExecuted DEF Closer
<1>19. Contents'
  <2>1. ASSUME NEW p \in DOMAIN entries, entries[p].state = "stored"
        PROVE  Holds(slab', stream', entries[p].slot, n - 1, p)
    <3>1. Holds(slab, stream, entries[p].slot, n, p) /\ entries[p].slot \in Slots
      BY <1>1, <2>1, Members DEF TierInv, Contents
    <3>2. n \in 1..Len(stream)
      BY <1>2
    <3>. QED BY <1>1, <1>3, <1>12, <3>1, <3>2, HoldsExecuted
  <2>2. ASSUME NEW k \in 1..n - 1, stream'[k].dir = "in"
        PROVE  Holds(slab', stream', stream'[k].slot, k - 1, stream'[k].page)
    <3>1. k + 1 \in 1..n /\ k \in 1..n /\ stream'[k] = stream[k + 1] /\ (k + 1) - 1 = k
      BY <1>2, <1>3
    <3>2. Holds(slab, stream, stream[k + 1].slot, k, stream[k + 1].page)
      BY <2>2, <3>1 DEF TierInv, Contents
    <3>3. stream[k + 1].slot \in Slots
      BY <1>1, <3>1, Members DEF Copies
    <3>. QED BY <1>1, <1>3, <1>12, <3>1, <3>2, <3>3, HoldsExecuted
  <2>3. \A i \in Q : Written(slab', stream', disk'.queue[i])
    BY <1>7, <1>8, <1>9, <1>18 DEF TierInv, Contents
  <2>4. writer' \in Hands /\ writer'.phase = "write" => Written(slab', stream', writer'.op)
    BY <1>10, <1>11, <1>18 DEF TierInv, Contents
  <2>5. \A r \in readers' : r.after <= n - 1
    <3>1. ASSUME NEW r \in readers PROVE Closer(r).after <= n - 1
      BY <1>2, <1>6, NearerFacts
    <3>. QED BY <1>3, <3>1
  <2>. QED BY <1>2, <1>3, <1>8, <1>9, <2>1, <2>2, <2>3, <2>4, <2>5 DEF Contents
<1>20. Events'
  <2>1. ASSUME NEW r \in readers, NEW k \in 1..n - 1, stream'[k].slot = r.slot
        PROVE  k <= Closer(r).after
    <3>1. k + 1 \in 1..n /\ stream'[k] = stream[k + 1]
      BY <1>2, <1>3
    <3>2. k + 1 <= r.after
      BY <2>1, <3>1 DEF TierInv, Events
    <3>3. r.after \in Nat /\ r.after # 0 /\ k \in Nat
      BY <1>2, <1>6, <3>1, <3>2
    <3>4. Closer(r).after = r.after - 1
      BY <1>6, <3>3, NearerFacts
    <3>. QED BY <3>2, <3>3, <3>4
  <2>2. ASSUME NEW t \in Slots
        PROVE  /\ events'[t] <= n - 1
               /\ \/ \E r \in readers : r.slot = t
                  \/ \A k \in 1..n - 1 : stream'[k].slot = t => k <= events'[t]
    <3>1. events'[t] = Nearer(events[t]) /\ events[t] \in Nat
      BY <1>1, <1>3, Members
    <3>2. events[t] <= n /\ (\/ \E r \in readers : r.slot = t
                             \/ \A k \in 1..n : stream[k].slot = t => k <= events[t])
      BY DEF TierInv, Events
    <3>3. ASSUME NEW k \in 1..n - 1, stream'[k].slot = t, k + 1 <= events[t]
          PROVE  k <= events'[t]
      BY <3>1, <3>3, NearerFacts, SMTT(30)
    <3>4. \A k \in 1..n - 1 : k + 1 \in 1..n /\ stream'[k] = stream[k + 1]
      BY <1>2, <1>3
    <3>5. events'[t] <= n - 1
      BY <1>2, <3>1, <3>2, NearerFacts
    <3>. QED BY <3>2, <3>3, <3>4, <3>5
  <2>. QED BY <1>2, <1>3, <1>6, <2>1, <2>2 DEF Events
<1>. QED BY <1>13, <1>14, <1>15, <1>16, <1>17, <1>19, <1>20 DEF TierInv

-----------------------------------------------------------------------------
(* The reader pool.                                                         *)

\* The slot of a read whose turn has come is nobody else's: no copy, no write and no
\* other read uses it, and its entry, if there is one, is the page being read.
LEMMA ReadAlone ==
  ASSUME TierInv, NEW r \in readers, r.after = 0
  PROVE  /\ r.page \in Pages /\ r.slot \in Slots /\ r.page \notin disk.pending
         /\ \A k \in 1..Len(stream) : stream[k].slot # r.slot
         /\ \A p \in DOMAIN entries : entries[p].slot = r.slot => p = r.page
         /\ r.page \in DOMAIN entries => /\ entries[r.page].slot = r.slot
                                         /\ entries[r.page].state = "reading"
         /\ \A i \in 1..Len(disk.queue) :
              disk.queue[i].kind = "page" => disk.queue[i].slot # r.slot
         /\ writer \in Hands /\ writer.op.kind = "page" => writer.op.slot # r.slot
<1>1. /\ r.page \in Pages /\ r.slot \in Slots /\ r.page \notin disk.pending
      /\ \/ r.page \in DOMAIN entries /\ entries[r.page].state = "reading"
            /\ entries[r.page].slot = r.slot
         \/ main \in Waits /\ main.at = "waitRead" /\ main.victim = r.page
            /\ main.slot = r.slot
  BY Members DEF TierInv, Reads
<1>2. \A k \in 1..Len(stream) : stream[k].slot # r.slot
  <2>1. ASSUME NEW k \in 1..Len(stream), stream[k].slot = r.slot
        PROVE  FALSE
    <3>1. k <= 0
      BY <2>1 DEF TierInv, Events
    <3>. QED BY <3>1
  <2>. QED BY <2>1
<1>3. \A p \in DOMAIN entries : entries[p].slot = r.slot => p = r.page
  BY <1>1 DEF TierInv, Slotted
<1>4. r.page \in DOMAIN entries => /\ entries[r.page].slot = r.slot
                                   /\ entries[r.page].state = "reading"
  BY <1>1 DEF TierInv, Waited
<1>5. ASSUME NEW x, Tenant(x, r.slot)
      PROVE  x = r.page
  BY <1>1, <1>3, <1>5 DEF Tenant, TierInv, Slotted
<1>6. ASSUME NEW i \in 1..Len(disk.queue), disk.queue[i].kind = "page"
      PROVE  disk.queue[i].slot # r.slot
  <2>1. disk.queue[i].page \in disk.pending
    BY <1>6 DEF TierInv, Queues, PageWrites
  <2>2. Tenant(disk.queue[i].page, disk.queue[i].slot)
    BY <1>6 DEF TierInv, Tenants
  <2>. QED BY <1>1, <1>5, <2>1, <2>2
<1>7. ASSUME writer \in Hands, writer.op.kind = "page"
      PROVE  writer.op.slot # r.slot
  <2>1. writer.op.page \in Pages
    BY <1>7, Places, HandFacts
  <2>2. writer.op.page \in disk.pending
    BY <1>7, <2>1 DEF TierInv, Queues, PageWrites, InHand
  <2>3. Tenant(writer.op.page, writer.op.slot)
    BY <1>7 DEF TierInv, Tenants
  <2>. QED BY <1>1, <1>5, <2>2, <2>3
<1>. QED BY <1>1, <1>2, <1>3, <1>4, <1>6, <1>7

\* A read that begins or ends disturbs nobody but its page.
LEMMA ReadKeeps ==
  ASSUME TierInv, NEW r \in readers, r.after = 0, NEW now,
         UNCHANGED <<free, events, stream, file, writer, main>>,
         slab' \in [Slots -> Pages \cup {None, Torn}],
         \A s \in Slots : s # r.slot => slab'[s] = slab[s],
         disk' = disk \/ (r.page \in disk.pages /\ disk' = Drop(disk, r.page)),
         DOMAIN entries' = DOMAIN entries,
         \A q \in DOMAIN entries : q # r.page => entries'[q] = entries[q],
         r.page \in DOMAIN entries =>
           /\ entries'[r.page] \in Entries /\ entries'[r.page].slot = entries[r.page].slot
           /\ entries'[r.page].state = "stored" => slab'[r.slot] = r.page,
         readers' = (readers \ {r}) \cup now,
         now # {} => entries' = entries,
         \A t \in now : /\ t \in ReadsUnderWay /\ t.page = r.page /\ t.slot = r.slot
                        /\ t.after = 0 /\ t.image \in {Bad, r.page},
         \A t, u \in now : t = u
  PROVE  TierInv'
<1>1. /\ r.page \in Pages /\ r.slot \in Slots /\ r.page \notin disk.pending
      /\ \A k \in 1..Len(stream) : stream[k].slot # r.slot
      /\ \A p \in DOMAIN entries : entries[p].slot = r.slot => p = r.page
      /\ r.page \in DOMAIN entries => /\ entries[r.page].slot = r.slot
                                      /\ entries[r.page].state = "reading"
      /\ \A i \in 1..Len(disk.queue) :
           disk.queue[i].kind = "page" => disk.queue[i].slot # r.slot
      /\ writer \in Hands /\ writer.op.kind = "page" => writer.op.slot # r.slot
  BY ReadAlone
<1>2. Typed /\ disk \in Disks /\ stream \in Seq(Copies) /\ Len(stream) \in Nat
  BY Members DEF TierInv, Typed
<1>3. Extended(disk, disk', r.page, r.slot, 0) /\ disk'.pending = disk.pending
  BY <1>2, DropOneFacts, SameExtended
<1>4. disk' \in Disks /\ disk'.pages \subseteq disk.pages
  BY <1>3 DEF Extended
<1>5. \A i \in 1..Len(disk'.queue) :
        \/ i \in 1..Len(disk.queue) /\ disk'.queue[i] = disk.queue[i]
        \/ disk'.queue[i].kind = "delete" /\ disk'.queue[i].after = 0
  <2>1. Len(disk.queue) \in Nat /\ Len(disk'.queue) \in Nat
    BY <1>2, <1>4, LenProperties DEF Disks
  <2>2. \A i \in 1..Len(disk'.queue) : i > Len(disk.queue) \/ i \in 1..Len(disk.queue)
    BY <2>1
  <2>3. \A i \in 1..Len(disk'.queue) : i > Len(disk.queue) =>
           disk'.queue[i].kind = "delete" /\ disk'.queue[i].after = 0
    BY <1>3 DEF Extended
  <2>4. \A i \in 1..Len(disk.queue) : disk'.queue[i] = disk.queue[i]
    BY <1>3 DEF Extended
  <2>. QED BY <2>2, <2>3, <2>4
<1>6. \A q \in DOMAIN entries : /\ entries'[q].slot = entries[q].slot
                                /\ q # r.page => entries'[q] = entries[q]
  OBVIOUS
<1>7. Typed'
  <2>1. \A q \in DOMAIN entries' : entries'[q] \in Entries
    BY <1>2 DEF Typed
  <2>2. readers' \subseteq ReadsUnderWay
    BY <1>2 DEF Typed
  <2>. QED BY <1>2, <1>4, <2>1, <2>2 DEF Typed
<1>8. Slotted'
  BY <1>6 DEF TierInv, Slotted
<1>9. Waited'
  BY <1>1, <1>3, <1>6 DEF TierInv, Waited
<1>10. Reads'
  <2>1. ASSUME NEW t \in readers, t # r
        PROVE  /\ t.page # r.page
               /\ \/ t.page \in DOMAIN entries' /\ entries'[t.page].state = "reading"
                     /\ entries'[t.page].slot = t.slot
                  \/ main \in Waits /\ main.at = "waitRead" /\ main.victim = t.page
                     /\ main.slot = t.slot
               /\ t.page \notin disk'.pending
               /\ t.image \in {None, Bad, t.page}
               /\ t.image # None => t.after = 0
    BY <1>3, <1>6, <2>1 DEF TierInv, Reads
  <2>2. ASSUME NEW t \in now
        PROVE  /\ \/ t.page \in DOMAIN entries' /\ entries'[t.page].state = "reading"
                     /\ entries'[t.page].slot = t.slot
                  \/ main \in Waits /\ main.at = "waitRead" /\ main.victim = t.page
                     /\ main.slot = t.slot
               /\ t.page \notin disk'.pending
               /\ t.image \in {None, Bad, t.page}
               /\ t.image # None => t.after = 0
    <3>1. /\ entries' = entries /\ t.page = r.page /\ t.slot = r.slot
          /\ t.after = 0 /\ t.image \in {Bad, r.page}
      BY <2>2
    <3>. QED BY <1>1, <1>3, <3>1 DEF TierInv, Reads
  <2>3. ASSUME NEW t \in readers', NEW u \in readers', t.page = u.page
        PROVE  t = u
    BY <2>1, <2>3 DEF TierInv, Reads
  <2>. QED BY <2>1, <2>2, <2>3 DEF Reads
<1>11. Queues(disk, writer, main)'
  <2>1. Queues(disk', writer, main)
    BY <1>1, <1>2, <1>3, ExtensionKeepsQueues DEF TierInv
  <2>. QED BY <2>1
<1>12. Tenants'
  <2>1. \A x, s : Tenant(x, s) => Tenant(x, s)'
    BY <1>6 DEF Tenant
  <2>2. ASSUME NEW i \in 1..Len(disk'.queue), disk'.queue[i].kind = "page"
        PROVE  Tenant(disk'.queue[i].page, disk'.queue[i].slot)
    BY <1>5, <2>2 DEF TierInv, Tenants
  <2>. QED BY <2>1, <2>2 DEF TierInv, Tenants
<1>13. PagesOnDisk'
  BY <1>4 DEF TierInv, PagesOnDisk
<1>14. ASSUME NEW s \in Slots, NEW k, NEW p, s # r.slot, Holds(slab, stream, s, k, p)
       PROVE  Holds(slab', stream, s, k, p)
  BY <1>14 DEF Holds
<1>15. ASSUME NEW op \in Ops, Written(slab, stream, op), op.kind = "page" => op.slot # r.slot
       PROVE  Written(slab', stream, op)
  <2>1. op.kind = "page" => op.slot \in Slots
    BY DEF Ops
  <2>. QED BY <1>14, <1>15, <2>1 DEF Written
<1>16. Contents'
  <2>1. ASSUME NEW p \in DOMAIN entries', entries'[p].state = "stored"
        PROVE  Holds(slab', stream, entries'[p].slot, Len(stream), p)
    <3>1. CASE p = r.page
      <4>1. slab'[r.slot] = p /\ entries'[p].slot = r.slot
        BY <1>1, <2>1, <3>1
      <4>2. Untouched(stream, r.slot, 1, Len(stream))
        BY <1>1 DEF Untouched
      <4>. QED BY <4>1, <4>2 DEF Holds
    <3>2. CASE p # r.page
      <4>1. /\ p \in DOMAIN entries /\ entries'[p] = entries[p] /\ entries[p].slot # r.slot
            /\ entries[p].slot \in Slots
        BY <1>1, <1>2, <1>6, <3>2, Members
      <4>2. Holds(slab, stream, entries[p].slot, Len(stream), p)
        BY <2>1, <4>1 DEF TierInv, Contents
      <4>. QED BY <1>14, <4>1, <4>2
    <3>. QED BY <3>1, <3>2
  <2>2. ASSUME NEW k \in 1..Len(stream), stream[k].dir = "in"
        PROVE  Holds(slab', stream, stream[k].slot, k - 1, stream[k].page)
    <3>1. stream[k].slot \in Slots /\ stream[k].slot # r.slot
      BY <1>1, <1>2, Members DEF Copies
    <3>2. Holds(slab, stream, stream[k].slot, k - 1, stream[k].page)
      BY <2>2 DEF TierInv, Contents
    <3>. QED BY <1>14, <3>1, <3>2
  <2>3. ASSUME NEW i \in 1..Len(disk'.queue)
        PROVE  Written(slab', stream, disk'.queue[i])
    <3>1. CASE i \in 1..Len(disk.queue) /\ disk'.queue[i] = disk.queue[i]
      <4>1. disk.queue[i] \in Ops /\ Written(slab, stream, disk.queue[i])
        BY <1>2, <3>1, Members DEF TierInv, Contents
      <4>. QED BY <1>1, <1>15, <3>1, <4>1
    <3>2. CASE disk'.queue[i].kind = "delete" /\ disk'.queue[i].after = 0
      BY <1>2, <3>2 DEF Written
    <3>. QED BY <1>5, <3>1, <3>2
  <2>4. ASSUME writer \in Hands, writer.phase = "write"
        PROVE  Written(slab', stream, writer.op)
    <3>1. writer.op \in Ops /\ Written(slab, stream, writer.op)
      BY <2>4, Places DEF TierInv, Contents
    <3>. QED BY <1>1, <1>15, <2>4, <3>1
  <2>5. ASSUME NEW t \in readers' PROVE t.after <= Len(stream)
    <3>1. t \in readers \/ t.after = 0
      OBVIOUS
    <3>. QED BY <1>2, <3>1 DEF TierInv, Contents
  <2>. QED BY <2>1, <2>2, <2>3, <2>4, <2>5 DEF Contents
<1>17. Events'
  <2>1. ASSUME NEW t \in readers', NEW k \in 1..Len(stream), stream[k].slot = t.slot
        PROVE  k <= t.after
    <3>1. t \in readers
      BY <1>1, <2>1
    <3>. QED BY <2>1, <3>1 DEF TierInv, Events
  <2>2. ASSUME NEW s \in Slots
        PROVE  /\ events[s] <= Len(stream)
               /\ \/ \E t \in readers' : t.slot = s
                  \/ \A k \in 1..Len(stream) : stream[k].slot = s => k <= events[s]
    <3>1. CASE s = r.slot
      BY <1>1, <3>1 DEF TierInv, Events
    <3>2. CASE s # r.slot
      BY <3>2 DEF TierInv, Events
    <3>. QED BY <3>1, <3>2
  <2>. QED BY <2>1, <2>2 DEF Events
<1>. QED BY <1>7, <1>8, <1>9, <1>10, <1>11, <1>12, <1>13, <1>16, <1>17 DEF TierInv

\* A read that is over has marked its entry, if the entry is still there.
LEMMA ConcludedKeeps ==
  ASSUME TierInv, NEW r \in readers, r.after = 0, NEW st \in {"stored", "failed"}, Conclude(r, st),
         disk' = disk \/ (r.page \in disk.pages /\ disk' = Drop(disk, r.page)),
         st = "stored" => r.image = r.page /\ slab' = [slab EXCEPT ![r.slot] = r.image],
         st = "failed" => slab' = slab,
         UNCHANGED <<free, events, stream, file, writer, main>>
  PROVE  TierInv'
<1>1. Typed /\ r.page \in Pages /\ r.slot \in Slots
  BY Members DEF TierInv
<1>2. /\ slab' \in [Slots -> Pages \cup {None, Torn}]
      /\ \A s \in Slots : s # r.slot => slab'[s] = slab[s]
      /\ st = "stored" => slab'[r.slot] = r.page
  BY <1>1 DEF Typed
<1>3. /\ DOMAIN entries' = DOMAIN entries
      /\ \A q \in DOMAIN entries : q # r.page => entries'[q] = entries[q]
      /\ r.page \in DOMAIN entries => entries'[r.page] = [entries[r.page] EXCEPT !.state = st]
  BY DEF Conclude
<1>4. r.page \in DOMAIN entries =>
        /\ entries'[r.page] \in Entries /\ entries'[r.page].slot = entries[r.page].slot
        /\ entries'[r.page].state = st
  BY <1>1, <1>3 DEF Typed, Entries
<1> DEFINE now == {t \in readers : FALSE}
<1>5. /\ readers' = (readers \ {r}) \cup now /\ now = {}
      /\ now # {} => entries' = entries
      /\ \A t \in now : /\ t \in ReadsUnderWay /\ t.page = r.page /\ t.slot = r.slot
                        /\ t.after = 0 /\ t.image \in {Bad, r.page}
      /\ \A t, u \in now : t = u
  BY DEF Conclude
<1>6. r.page \in DOMAIN entries =>
        /\ entries'[r.page] \in Entries /\ entries'[r.page].slot = entries[r.page].slot
        /\ entries'[r.page].state = "stored" => slab'[r.slot] = r.page
  BY <1>2, <1>4
<1> HIDE DEF now
<1>. QED BY <1>2, <1>3, <1>5, <1>6, ReadKeeps

\* A failed read.
LEMMA ReadFailedKeeps ==
  ASSUME TierInv, NEW r \in readers, r.after = 0, ReadFailed(r),
         UNCHANGED <<free, slab, events, stream, file, writer, main>>
  PROVE  TierInv'
BY ConcludedKeeps DEF ReadFailed

\* A read begins: its slot is torn.
LEMMA BeginReadKeeps ==
  ASSUME TierInv, NEW r \in readers, BeginRead(r)
  PROVE  TierInv'
<1>1. /\ r.after = 0 /\ r.image = None
      /\ UNCHANGED <<free, events, stream, file, writer, main>>
  BY DEF BeginRead
<1>2. CASE file[r.page] = None
  BY <1>1, <1>2, ReadFailedKeeps DEF BeginRead
<1>3. CASE file[r.page] # None
  <2> DEFINE u == [r EXCEPT !.image = file[r.page]]
             now == {u}
  <2>1. /\ readers' = (readers \ {r}) \cup now /\ slab' = [slab EXCEPT ![r.slot] = Torn]
        /\ entries' = entries /\ disk' = disk
    BY <1>3 DEF BeginRead
  <2>2. Typed /\ r \in ReadsUnderWay /\ r.page \in Pages /\ r.slot \in Slots
    BY Members DEF TierInv, Typed
  <2>3. file[r.page] \in {Bad, r.page}
    BY <1>3, <2>2 DEF TierInv, PagesOnDisk
  <2>4. /\ u \in ReadsUnderWay /\ u.page = r.page /\ u.slot = r.slot
        /\ u.after = 0 /\ u.image \in {Bad, r.page}
    BY <1>1, <2>2, <2>3 DEF ReadsUnderWay
  <2>7. /\ \A t \in now : /\ t \in ReadsUnderWay /\ t.page = r.page /\ t.slot = r.slot
                          /\ t.after = 0 /\ t.image \in {Bad, r.page}
        /\ \A t, v \in now : t = v
    BY <2>4
  <2> HIDE DEF u, now
  <2>5. slab' \in [Slots -> Pages \cup {None, Torn}] /\ \A s \in Slots : s # r.slot => slab'[s] = slab[s]
    BY <2>1, <2>2 DEF Typed
  <2>6. /\ DOMAIN entries' = DOMAIN entries
        /\ \A q \in DOMAIN entries : q # r.page => entries'[q] = entries[q]
        /\ r.page \in DOMAIN entries =>
             /\ entries'[r.page] \in Entries /\ entries'[r.page].slot = entries[r.page].slot
             /\ entries'[r.page].state = "stored" => slab'[r.slot] = r.page
        /\ now # {} => entries' = entries
    BY <1>1, <2>1, <2>2, ReadAlone DEF Typed
  <2>. QED BY <1>1, <2>1, <2>5, <2>6, <2>7, ReadKeeps
<1>. QED BY <1>2, <1>3

\* A read ends: the slot holds the page, or the entry has failed.
LEMMA EndReadKeeps ==
  ASSUME TierInv, NEW r \in readers, EndRead(r)
  PROVE  TierInv'
<1>1. /\ r.image # None /\ UNCHANGED <<free, events, stream, file, writer, main>>
  BY DEF EndRead
<1>2. r.after = 0 /\ r.image \in {Bad, r.page}
  BY <1>1 DEF TierInv, Reads
<1>3. CASE r.image # Bad /\ Conclude(r, "stored") /\ slab' = [slab EXCEPT ![r.slot] = r.image]
           /\ disk' = disk
  BY <1>1, <1>2, <1>3, ConcludedKeeps
<1>4. CASE ReadFailed(r) /\ slab' = slab
  BY <1>1, <1>2, <1>4, ReadFailedKeeps
<1>. QED BY <1>3, <1>4 DEF EndRead

-----------------------------------------------------------------------------
(* The invariant.                                                           *)

\* Tables as they are at the start of a process, over whatever whole or broken files
\* there are.
Started ==
    /\ file \in [Pages -> Pages \cup {None, Bad}]
    /\ \A p \in Pages : file[p] \in {None, Bad, p}
    /\ entries = <<>> /\ free = Slots
    /\ slab = [s \in Slots |-> None] /\ events = [s \in Slots |-> 0] /\ stream = <<>>
    /\ disk = [pages |-> {p \in Pages : file[p] # None}, pending |-> {}, queue |-> <<>>,
               paused |-> FALSE, disabled |-> FALSE]
    /\ readers = {} /\ writer = NoOp /\ main = Idle

\* A process that starts over whole or broken files starts well.
LEMMA StartedWell == Started => TierInv
<1>. SUFFICES ASSUME Started PROVE TierInv
  OBVIOUS
<1>1. DOMAIN entries = {} /\ Len(stream) = 0 /\ Len(disk.queue) = 0
  BY DEF Started
<1>2. main \notin Waits /\ main \notin Awaits /\ writer \notin Hands
  BY Places DEF Started
<1>3. /\ disk \in Disks /\ disk.pending = {}
      /\ disk.pages = {p \in Pages : file[p] # None}
  <2>1. <<>> \in Seq(Ops)
    OBVIOUS
  <2>. QED BY <2>1 DEF Started, Disks
<1>4. stream \in Seq(Copies)
  BY DEF Started
<1>5. Typed
  BY <1>1, <1>3, <1>4 DEF Started, Typed
<1>6. Slotted /\ Waited /\ Reads
  BY <1>1, <1>2, <1>3 DEF Started, Slotted, Waited, Reads
<1>7. Queues(disk, writer, main)
  BY <1>1, <1>2, <1>3 DEF Queues, PageWrites, Deletions, Flushes, InHand
<1>8. Tenants /\ PagesOnDisk
  BY <1>1, <1>2, <1>3 DEF Started, Tenants, PagesOnDisk
<1>9. Contents
  BY <1>1, <1>2 DEF Started, Contents
<1>10. Events
  BY <1>1 DEF Started, Events
<1>. QED BY <1>5, <1>6, <1>7, <1>8, <1>9, <1>10 DEF TierInv

\* The first process finds no files.
LEMMA TiersBegin ==
  ASSUME Init
  PROVE  TierInv
<1>1. file = [p \in Pages |-> None] /\ {p \in Pages : file[p] # None} = {}
  BY DEF Init
<1>2. Started
  BY <1>1 DEF Init, Started
<1>. QED BY <1>2, StartedWell

\* After a crash the tables are those of a new process.
LEMMA CrashKeeps ==
  ASSUME TierInv, Crash
  PROVE  TierInv'
<1>1. PICK lost \in SUBSET {p \in Pages : file[p] # None} :
        LET found == [p \in Pages |-> IF p \in lost THEN Bad ELSE file[p]] IN
        /\ file' = found
        /\ disk' = [pages |-> {p \in Pages : found[p] # None}, pending |-> {}, queue |-> <<>>,
                    paused |-> FALSE, disabled |-> FALSE]
        /\ entries' = <<>> /\ free' = Slots
        /\ slab' = [s \in Slots |-> None] /\ events' = [s \in Slots |-> 0] /\ stream' = <<>>
        /\ readers' = {} /\ writer' = NoOp /\ main' = Idle
  BY DEF Crash
<1>2. \A p \in Pages : file[p] \in {None, Bad, p}
  BY DEF TierInv, PagesOnDisk
<1>3. /\ \A p \in Pages : file'[p] \in {None, Bad, p}
      /\ file' \in [Pages -> Pages \cup {None, Bad}]
  BY <1>1, <1>2
<1>4. Started'
  BY <1>1, <1>3 DEF Started
<1>. QED BY <1>4, StartedWell, PTL

\* Every step keeps the invariant.
LEMMA TiersStep ==
  ASSUME TierInv, Next
  PROVE  TierInv'
<1>1. ASSUME NEW p \in Pages, Store(p) \/ Prefetch(p) \/ Restore(p)
      PROVE  TierInv'
  BY <1>1, RequestKeeps
<1>2. CASE MainStep
  <2>1. CASE VictimRead
    BY <2>1, VictimKeeps
  <2>2. CASE VictimFlush
    BY <2>2, VictimKeeps, VictimFlushKeeps
  <2>3. CASE UseVictim
    BY <2>3, UseVictimKeeps
  <2>4. CASE Fetch
    BY <2>4, FetchKeeps
  <2>. QED BY <1>2, <2>1, <2>2, <2>3, <2>4 DEF MainStep
<1>3. CASE Abort \/ SpaceReturns
  BY <1>3, SwitchKeeps
<1>4. CASE Execute
  BY <1>4, ExecuteKeeps
<1>5. CASE ReaderStep
  BY <1>5, BeginReadKeeps, EndReadKeeps DEF ReaderStep
<1>6. CASE WriterStep
  BY <1>6, TakeOpKeeps, WriteTmpKeeps, PublishKeeps, DeleteKeeps, FlushKeeps DEF WriterStep
<1>7. CASE FailWrite
  BY <1>7, FailWriteKeeps
<1>8. CASE Crash
  BY <1>8, CrashKeeps
<1>. QED BY <1>1, <1>2, <1>3, <1>4, <1>5, <1>6, <1>7, <1>8 DEF Next

\* A stutter keeps the invariant.
LEMMA TiersStutter ==
  ASSUME TierInv, UNCHANGED vars
  PROVE  TierInv'
<1>1. Typed' /\ Slotted' /\ Waited' /\ Reads'
  BY DEF vars, TierInv, Typed, Slotted, Waited, Reads
<1>2. Queues(disk, writer, main)' /\ PagesOnDisk'
  BY DEF vars, TierInv, PagesOnDisk
<1>3. Tenants'
  BY DEF vars, TierInv, Tenants, Tenant
<1>4. Contents' /\ Events'
  BY DEF vars, TierInv, Contents, Events
<1>. QED BY <1>1, <1>2, <1>3, <1>4 DEF TierInv

\* The tables, the slots, the queue, the files and the bytes agree at all times.
THEOREM TierInvariant == Spec => []TierInv
<1>1. Init => TierInv
  BY TiersBegin
<1>2. TierInv /\ [Next]_vars => TierInv'
  BY TiersStep, TiersStutter
<1>. QED BY <1>1, <1>2, PTL DEF Spec

\* Every table holds what the code puts there, and no event lies beyond the stream.
THEOREM TiersTyped == Spec => []TypeOK
<1>1. ASSUME TierInv PROVE TypeOK
  <2>1. Typed /\ Contents /\ Events
    BY <1>1 DEF TierInv
  <2>2. /\ Len(stream) \in Nat /\ ToSet(disk.queue) = {disk.queue[i] : i \in 1..Len(disk.queue)}
        /\ \A i \in 1..Len(disk.queue) : disk.queue[i] \in Ops
        /\ disk.pages \subseteq Pages /\ disk.pending \subseteq Pages
        /\ \A s \in Slots : events[s] \in Nat
        /\ \A r \in readers : r.after \in Nat
    BY <2>1, Members DEF ToSet
  <2>3. events \in [Slots -> 0..Len(stream)]
    BY <2>1, <2>2 DEF Typed, Events
  <2>4. \A op \in ToSet(disk.queue) : op.after \in 0..Len(stream)
    <3>1. \A i \in 1..Len(disk.queue) : disk.queue[i].after \in Nat
                                        /\ disk.queue[i].after <= Len(stream)
      BY <2>1, <2>2 DEF Contents, Written, Ops
    <3>. QED BY <2>2, <3>1
  <2>5. \A r \in readers : r.after \in 0..Len(stream)
    BY <2>1, <2>2 DEF Contents
  <2>. QED BY <2>1, <2>2, <2>3, <2>4, <2>5 DEF Typed, Entries, TypeOK
<1>. QED BY <1>1, TierInvariant, PTL

\* The mirror never lists a page without its file.
THEOREM FilesOnDisk == Spec => []PagesOnDisk
<1>1. TierInv => PagesOnDisk
  BY DEF TierInv
<1>. QED BY <1>1, TierInvariant, PTL

\* The numbers of SlotsOwned, from the parts of the invariant that name the owners.
LEMMA SlotsCounted ==
  ASSUME TierInv
  PROVE  LET held == {entries[p].slot : p \in DOMAIN entries} IN
         /\ Cardinality(held) = Cardinality(DOMAIN entries)
         /\ Cardinality(free) + Cardinality(held) + Cardinality(Owner) = Cardinality(Slots)
         /\ free \cup held \cup Owner = Slots
<1> DEFINE P == DOMAIN entries
           held == {entries[p].slot : p \in P}
           f == [p \in P |-> entries[p].slot]
<1>1. Typed /\ Slotted
  BY DEF TierInv
<1>2. IsFiniteSet(P)
  BY <1>1, ConstantsFinite, FS_Subset DEF Typed
<1>3. /\ f \in [P -> held] /\ \A p, q \in P : f[p] = f[q] => p = q
      /\ \A s \in held : \E p \in P : f[p] = s
  BY <1>1 DEF Slotted
<1>4. ExistsBijection(P, held)
  <2> HIDE DEF P, held, f
  <2>1. f \in Bijection(P, held)
    BY <1>3, Fun_IsBij
  <2>. QED BY <2>1 DEF ExistsBijection
<1>5. IsFiniteSet(held) /\ Cardinality(held) = Cardinality(P)
  BY <1>2, <1>4, FS_Bijection
<1>6. Owner = IF main \in Waits THEN {main.slot} ELSE {}
  BY <1>1, Places, PlaceOfMain DEF Owner, Typed
<1>7. held \subseteq Slots /\ free \subseteq Slots /\ Owner \subseteq Slots
  BY <1>1, <1>6, Members, Places DEF Typed
<1>8. free \cap held = {} /\ (free \cup held) \cap Owner = {} /\ free \cup held \cup Owner = Slots
  BY <1>1, <1>6, <1>7 DEF Slotted
<1>9. IsFiniteSet(free) /\ IsFiniteSet(Owner) /\ IsFiniteSet(Slots)
  BY <1>7, ConstantsFinite, FS_Subset
<1> HIDE DEF held
<1>10. IsFiniteSet(free \cup held)
       /\ Cardinality(free \cup held) = Cardinality(free) + Cardinality(held) - Cardinality({})
  BY <1>5, <1>8, <1>9, FS_Union
<1>11. Cardinality(free \cup held \cup Owner)
         = Cardinality(free \cup held) + Cardinality(Owner) - Cardinality({})
  BY <1>8, <1>9, <1>10, FS_Union
<1>12. /\ Cardinality({}) = 0 /\ Cardinality(free) \in Nat /\ Cardinality(held) \in Nat
       /\ Cardinality(Owner) \in Nat
  BY <1>5, <1>9, FS_EmptySet, FS_CardinalityType
<1>13. Cardinality(free) + Cardinality(held) + Cardinality(Owner) = Cardinality(Slots)
  BY <1>8, <1>10, <1>11, <1>12
<1>. QED BY <1>5, <1>8, <1>13 DEF held

\* Every slot has one owner, and keeps it while its page is read or written.
THEOREM SlotOwners == Spec => []SlotsOwned
<1>1. ASSUME TierInv PROVE SlotsOwned
  <2> DEFINE held == {entries[p].slot : p \in DOMAIN entries}
  <2>1. /\ Cardinality(held) = Cardinality(DOMAIN entries)
        /\ Cardinality(free) + Cardinality(held) + Cardinality(Owner) = Cardinality(Slots)
        /\ free \cup held \cup Owner = Slots
    BY <1>1, SlotsCounted
  <2>2. Typed /\ disk.pending \subseteq Pages
        /\ ToSet(disk.queue) = {disk.queue[i] : i \in 1..Len(disk.queue)}
    BY <1>1, Members DEF TierInv, ToSet
  <2>3. main \in Waits => Owner # {}
    BY Places DEF Owner
  <2>4. \A p \in disk.pending : p \in DOMAIN entries \/ (Owner # {} /\ main.victim = p)
    BY <1>1, <2>3 DEF TierInv, Waited
  <2>5. ASSUME NEW p \in disk.pending
        PROVE  \/ \E op \in ToSet(disk.queue) : op.kind = "page" /\ op.page = p
               \/ writer # NoOp /\ writer.op.kind = "page" /\ writer.op.page = p
    <3>1. \/ \E i \in 1..Len(disk.queue) : disk.queue[i].kind = "page" /\ disk.queue[i].page = p
          \/ InHand(writer, "page", p)
      BY <1>1 DEF TierInv, Queues, PageWrites
    <3>. QED BY <2>2, <3>1, Places DEF InHand
  <2>6. \A r \in readers : \/ r.page \in DOMAIN entries /\ entries[r.page].slot = r.slot
                           \/ main.at = "waitRead" /\ main.slot = r.slot
    BY <1>1 DEF TierInv, Reads
  <2> HIDE DEF held
  <2>. QED BY <2>1, <2>4, <2>5, <2>6 DEF SlotsOwned, held
<1>. QED BY <1>1, TierInvariant, PTL

-----------------------------------------------------------------------------
(* The tiers implement LossyStore.                                          *)

\* The tiers have heard of page x
Known(x) ==
    \/ x \in DOMAIN entries \cup disk.pending
    \/ x \in Pages /\ file[x] # None
    \/ \E r \in readers : r.page = x
    \/ \E k \in 1..Len(stream) : stream[k].page = x
    \/ writer # NoOp /\ writer.op.kind = "page" /\ writer.op.page = x
    \/ main.at # "idle" /\ main.page = x

\* What Kept collects.
LEMMA KeptKnown == TierInv => \A x : x \in Kept <=> Known(x)
<1>. SUFFICES ASSUME TierInv, NEW x PROVE x \in Kept <=> Known(x)
  OBVIOUS
<1>1. ToSet(stream) = {stream[k] : k \in 1..Len(stream)}
  BY Members DEF TierInv, ToSet
<1>. QED BY <1>1 DEF Kept, Known

\* What the copies of q deliver next, when every slot holds what it should
Due(q) == IF q # <<>> /\ Head(q).dir = "in"
          THEN [page |-> Head(q).page, bytes |-> Head(q).page] ELSE None

\* The copy at the head of the stream delivers the page it was asked for.
LEMMA DeliveryDue == TierInv => Delivery = Due(stream)
<1>. SUFFICES ASSUME TierInv PROVE Delivery = Due(stream)
  OBVIOUS
<1>1. CASE stream # <<>> /\ Head(stream).dir = "in"
  <2>1. 1 \in 1..Len(stream) /\ Head(stream) = stream[1]
    BY <1>1, Members, HeadTailProperties DEF TierInv
  <2>2. Holds(slab, stream, Head(stream).slot, 0, Head(stream).page)
    BY <1>1, <2>1 DEF TierInv, Contents
  <2>3. slab[Head(stream).slot] = Head(stream).page
    BY <2>2 DEF Holds
  <2>. QED BY <1>1, <2>3 DEF Delivery, Due
<1>2. CASE ~ (stream # <<>> /\ Head(stream).dir = "in")
  BY <1>2 DEF Delivery, Due
<1>. QED BY <1>1, <1>2

\* A step after which the tiers know no more pages, save perhaps p, than before.
LEMMA NothingNew ==
  ASSUME TierInv, TierInv'
  PROVE  /\ (\A x : Known(x)' => Known(x)) => Kept' \subseteq Kept
         /\ \A p : (\A x : Known(x)' => Known(x) \/ x = p) => Kept' \subseteq Kept \cup {p}
         /\ Delivery = Due(stream) /\ Delivery' = Due(stream')
<1>1. \A x : x \in Kept <=> Known(x)
  BY KeptKnown
<1>2. (\A x : x \in Kept <=> Known(x))'
  BY KeptKnown, PTL
<1>3. Delivery = Due(stream)
  BY DeliveryDue
<1>4. (Delivery = Due(stream))'
  BY DeliveryDue, PTL
<1>5. Delivery' = Due(stream')
  BY <1>4 DEF Due
<1>. QED BY <1>1, <1>2, <1>3, <1>5

\* A step that leaves the stream's head alone and tells the tiers of no page.
LEMMA LoseStep ==
  ASSUME TierInv, TierInv', \A x : Known(x)' => Known(x), Due(stream') = Due(stream)
  PROVE  Store0!Next
<1>1. Kept' \subseteq Kept /\ Delivery' = Delivery
  BY NothingNew
<1>. QED BY <1>1 DEF Store0!Next, Store0!Lose

\* A copy behind others, or into a slot, is not due.
LEMMA AppendedDue ==
  ASSUME NEW q \in Seq(Copies), NEW c \in Copies, q # <<>> \/ c.dir = "out"
  PROVE  Due(Append(q, c)) = Due(q)
<1>1. /\ Append(q, c) \in Seq(Copies) /\ Append(q, c) # <<>> /\ Len(q) \in Nat
      /\ q # <<>> => Len(q) > 0 /\ Append(q, c)[1] = q[1]
      /\ q = <<>> => Append(q, c)[1] = c
  BY AppendProperties, EmptySeq, LenProperties
<1>2. Head(Append(q, c)) = Append(q, c)[1] /\ (q # <<>> => Head(q) = q[1])
  BY <1>1, HeadTailProperties
<1>. QED BY <1>1, <1>2 DEF Due, Copies

\* Storing or promoting a page into a slot tells the tiers of that page.
LEMMA UseTells ==
  ASSUME TierInv, TierInv', NEW how, NEW p \in Pages, NEW s \in Slots, NEW others,
         DOMAIN others \subseteq DOMAIN entries, Use(how, p, s, others),
         UNCHANGED <<slab, file, writer>>
  PROVE  (\A x : Known(x)' => Known(x) \/ x = p) /\ Due(stream') = Due(stream)
<1>1. stream \in Seq(Copies) /\ Len(stream) \in Nat /\ disk \in Disks
  BY Members DEF TierInv, Typed
<1>2. CASE StoreInto(p, s, others)
  <2> DEFINE c == [dir |-> "out", slot |-> s, page |-> p]
             n == Len(stream) + 1
  <2>1. /\ entries' = Bind(others, p, [slot |-> s, state |-> "stored"])
        /\ stream' = Append(stream, c) /\ disk' \in WritePage(disk, p, s, n)
        /\ main' = Idle /\ readers' = readers /\ UNCHANGED <<file, writer>>
    BY <1>2 DEF StoreInto
  <2>2. c \in Copies /\ c.page = p /\ c.dir = "out" /\ n \in Nat
    BY <1>1 DEF Copies
  <2> HIDE DEF c
  <2>3. /\ Len(stream') = n /\ stream'[n] = c
        /\ \A k \in 1..Len(stream) : stream'[k] = stream[k]
    BY <1>1, <2>1, <2>2, AppendProperties
  <2>4. \A k \in 1..Len(stream') : k \in 1..Len(stream) \/ k = n
    BY <1>1, <2>3
  <2>5. \A k \in 1..Len(stream') : \/ k \in 1..Len(stream) /\ stream'[k] = stream[k]
                                   \/ stream'[k].page = p
    BY <2>2, <2>3, <2>4
  <2>6. DOMAIN entries' \subseteq DOMAIN entries \cup {p}
    BY <2>1 DEF Bind
  <2>7. disk'.pending \subseteq disk.pending \cup {p}
    BY <1>1, <2>1, <2>2, WriteFacts DEF Extended
  <2>8. Due(stream') = Due(stream)
    BY <1>1, <2>1, <2>2, AppendedDue
  <2> HIDE DEF n
  <2>. QED BY <2>1, <2>5, <2>6, <2>7, <2>8, Places DEF Known
<1>3. ASSUME NEW after \in {Idle, Await(p)}, PromoteInto(p, s, others, after)
      PROVE  (\A x : Known(x)' => Known(x) \/ x = p) /\ Due(stream') = Due(stream)
  <2>1. /\ DOMAIN entries' \subseteq DOMAIN entries \cup {p}
        /\ \A r \in readers' : r \in readers \/ r.page = p
        /\ main' = after /\ UNCHANGED <<stream, disk, file, writer>>
    BY <1>3 DEF PromoteInto, Bind
  <2>. QED BY <2>1, Places DEF Known
<1>. QED BY <1>2, <1>3 DEF Use

\* Taking a slot for a page tells the tiers of that page.
LEMMA NewSlotTells ==
  ASSUME TierInv, TierInv', NEW how, NEW p \in Pages, NewSlot(how, p),
         UNCHANGED <<slab, file, writer>>
  PROVE  (\A x : Known(x)' => Known(x) \/ x = p) /\ Due(stream') = Due(stream)
<1>1. Typed /\ free \subseteq Slots
  BY DEF TierInv, Typed
<1>2. CASE free # {}
  <2>1. PICK s \in free : Use(how, p, s, entries)
    BY <1>2 DEF NewSlot
  <2>. QED BY <1>1, <2>1, UseTells
<1>3. CASE free = {}
  <2>1. PICK v \in DOMAIN entries :
          \/ Use(how, p, entries[v].slot, Forget(entries, v))
          \/ /\ entries' = Forget(entries, v)
             /\ main' = [at |-> "waitRead", how |-> how, page |-> p, victim |-> v,
                         slot |-> entries[v].slot]
             /\ UNCHANGED <<events, stream, disk, readers>>
    BY <1>3 DEF NewSlot
  <2>2. DOMAIN Forget(entries, v) \subseteq DOMAIN entries /\ entries[v].slot \in Slots
    BY <1>1, Members DEF Forget, Restrict
  <2>3. CASE Use(how, p, entries[v].slot, Forget(entries, v))
    BY <2>2, <2>3, UseTells
  <2>4. CASE /\ entries' = Forget(entries, v)
             /\ main' = [at |-> "waitRead", how |-> how, page |-> p, victim |-> v,
                         slot |-> entries[v].slot]
             /\ UNCHANGED <<events, stream, disk, readers>>
    <3>1. main'.page = p
      BY <2>4
    <3>. QED BY <2>2, <2>4, <3>1 DEF Known
  <2>. QED BY <2>1, <2>3, <2>4
<1>. QED BY <1>2, <1>3

\* A request is a store, or asks for a page the tiers know.
LEMMA RequestPromised ==
  ASSUME TierInv, TierInv', NEW p \in Pages, Store(p) \/ Prefetch(p) \/ Restore(p)
  PROVE  Store0!Next
<1>1. CASE Store(p)
  <2>1. (\A x : Known(x)' => Known(x) \/ x = p) /\ Due(stream') = Due(stream)
    BY <1>1, NewSlotTells DEF Store
  <2>2. Kept' \subseteq Kept \cup {p} /\ Delivery' = Delivery
    BY <2>1, NothingNew
  <2>. QED BY <2>2 DEF Store0!Next, Store0!Store
<1>2. CASE Prefetch(p) \/ Restore(p)
  <2>1. Known(p)
    BY <1>2 DEF Prefetch, Restore, Known, TierInv, PagesOnDisk
  <2>2. (\A x : Known(x)' => Known(x) \/ x = p) /\ Due(stream') = Due(stream)
    <3>1. CASE \E how : NewSlot(how, p) /\ UNCHANGED <<slab, file, writer>>
      BY <3>1, NewSlotTells
    <3>2. CASE main' = Await(p) /\ UNCHANGED <<entries, free, events, stream, disk, readers, file, writer>>
      BY <3>2, Places DEF Known
    <3>. QED BY <1>2, <3>1, <3>2 DEF Prefetch, Restore
  <2>. QED BY <2>1, <2>2, LoseStep
<1>. QED BY <1>1, <1>2

\* A copy into a cache page is due once the copies before it are done, and not before.
LEMMA FetchPromised ==
  ASSUME TierInv, TierInv', Fetch
  PROVE  Store0!Next
<1> DEFINE p == main.page
           c == [dir |-> "in", slot |-> entries[p].slot, page |-> p]
<1>1. /\ main.at = "await" /\ main' = Idle /\ UNCHANGED <<disk, file, readers, writer>>
      /\ \/ stream' = stream /\ entries' = Forget(entries, p)
         \/ stream' = Append(stream, c) /\ entries' = entries
  BY DEF Fetch
<1>2. Known(p) /\ p \in Pages /\ p \in DOMAIN entries
  BY <1>1, PlaceOfMain, Places DEF Known, TierInv, Waited
<1>3. CASE stream' = stream /\ entries' = Forget(entries, p)
  <2>1. DOMAIN entries' \subseteq DOMAIN entries
    BY <1>3 DEF Forget, Restrict
  <2>2. \A x : Known(x)' => Known(x)
    BY <1>1, <1>3, <2>1, Places DEF Known
  <2>. QED BY <1>3, <2>2, LoseStep
<1>4. CASE stream' = Append(stream, c) /\ entries' = entries
  <2>1. stream \in Seq(Copies) /\ Len(stream) \in Nat /\ c \in Copies /\ c.page = p /\ c.dir = "in"
    BY <1>2, Members DEF TierInv, Copies
  <2> HIDE DEF c, p
  <2>2. /\ Len(stream') = Len(stream) + 1 /\ stream'[Len(stream) + 1] = c
        /\ \A k \in 1..Len(stream) : stream'[k] = stream[k]
    BY <1>4, <2>1, AppendProperties
  <2>3. \A k \in 1..Len(stream') : k \in 1..Len(stream) \/ stream'[k].page = p
    BY <2>1, <2>2
  <2>4. \A x : Known(x)' => Known(x)
    <3>1. \A x : Known(x)' => Known(x) \/ x = p
      BY <1>1, <1>4, <2>2, <2>3, Places DEF Known
    <3>. QED BY <1>2, <3>1
  <2>5. CASE stream # <<>>
    BY <1>4, <2>1, <2>4, <2>5, AppendedDue, LoseStep
  <2>6. CASE stream = <<>>
    <3>1. stream' # <<>> /\ Head(stream') = c
      BY <1>4, <2>1, <2>2, <2>6, AppendProperties, EmptySeq, HeadTailProperties
    <3>2. Due(stream') = [page |-> p, bytes |-> p]
      BY <2>1, <3>1 DEF Due
    <3>3. Kept' \subseteq Kept /\ Delivery' = Due(stream') /\ p \in Kept
      BY <1>2, <2>4, NothingNew, KeptKnown
    <3>. QED BY <1>2, <3>2, <3>3 DEF Store0!Next, Store0!Deliver
  <2>. QED BY <2>5, <2>6
<1>. QED BY <1>1, <1>3, <1>4

\* The copy at the head is done: the next one delivers, or nobody does.
LEMMA ExecutePromised ==
  ASSUME TierInv, TierInv', Execute
  PROVE  Store0!Next
<1>1. /\ stream # <<>> /\ stream' = Tail(stream) /\ readers' = {Closer(r) : r \in readers}
      /\ writer' = IF writer = NoOp THEN NoOp ELSE [writer EXCEPT !.op = Closer(@)]
      /\ UNCHANGED <<entries, file, main>>
  BY DEF Execute
<1>2. Typed /\ stream \in Seq(Copies) /\ Len(stream) \in Nat
  BY Members DEF TierInv
<1>3. disk'.pending = disk.pending
  <2>1. disk \in Disks
    BY <1>2 DEF Typed
  <2>. QED BY <2>1 DEF Execute, Disks
<1>4. \A r \in readers : Closer(r).page = r.page
  BY <1>2 DEF Typed, ReadsUnderWay, Closer
<1>5. writer' # NoOp => /\ writer # NoOp /\ writer'.op.kind = writer.op.kind
                        /\ writer'.op.page = writer.op.page
  <2>1. ASSUME writer # NoOp
        PROVE  writer'.op.kind = writer.op.kind /\ writer'.op.page = writer.op.page
    <3>1. writer \in Hands /\ writer.op \in Ops /\ writer' = [writer EXCEPT !.op = Closer(writer.op)]
      BY <1>1, <1>2, <2>1, HandFacts
    <3>2. writer'.op = Closer(writer.op)
      BY <3>1 DEF Hands
    <3>. QED BY <3>1, <3>2 DEF Closer, Ops
  <2>. QED BY <1>1, <2>1
<1>6. /\ Tail(stream) \in Seq(Copies) /\ Len(Tail(stream)) \in Nat
      /\ \A k \in 1..Len(Tail(stream)) : k + 1 \in 1..Len(stream) /\ stream'[k] = stream[k + 1]
  BY <1>1, <1>2, HeadTailProperties
<1>7. \A x : Known(x)' => Known(x)
  BY <1>1, <1>3, <1>4, <1>5, <1>6 DEF Known
<1>8. Kept' \subseteq Kept /\ Delivery' = Due(stream')
  BY <1>7, NothingNew
<1>9. CASE stream' # <<>> /\ Head(stream').dir = "in"
  <2> DEFINE p == Head(stream').page
  <2>1. 1 \in 1..Len(Tail(stream)) /\ Head(stream') = stream'[1] /\ Head(stream') \in Copies
    BY <1>1, <1>6, <1>9, HeadTailProperties, EmptySeq
  <2>2. p \in Pages /\ Known(p)
    BY <1>6, <2>1 DEF Copies, Known
  <2>3. p \in Kept
    BY <2>2, KeptKnown
  <2>4. Due(stream') = [page |-> p, bytes |-> p]
    BY <1>9 DEF Due
  <2>. QED BY <1>8, <2>2, <2>3, <2>4 DEF Store0!Next, Store0!Deliver
<1>10. CASE ~ (stream' # <<>> /\ Head(stream').dir = "in")
  BY <1>8, <1>10 DEF Due, Store0!Next, Store0!EndDelivery
<1>. QED BY <1>9, <1>10

\* The main thread's other steps and the switches tell the tiers of no page.
LEMMA MainPromised ==
  ASSUME TierInv, TierInv', VictimRead \/ VictimFlush \/ UseVictim \/ Abort \/ SpaceReturns
  PROVE  Store0!Next
<1>1. Typed /\ disk \in Disks
  BY DEF TierInv, Typed
<1>2. CASE VictimRead \/ VictimFlush
  <2>1. main \in Waits
    BY <1>1, <1>2, PlaceOfMain DEF VictimRead, VictimFlush
  <2>2. main'.page = main.page /\ main.at # "idle" /\ disk'.pending = disk.pending
        /\ UNCHANGED <<entries, file, readers, stream, writer>>
    BY <1>1, <1>2, <2>1, Places DEF VictimRead, VictimFlush, Waits, Disks
  <2>. QED BY <2>2, LoseStep DEF Known
<1>3. CASE UseVictim
  <2>1. main \in Waits /\ main.page \in Pages /\ main.slot \in Slots /\ Known(main.page)
    BY <1>1, <1>3, PlaceOfMain, Places DEF UseVictim, Known
  <2>2. (\A x : Known(x)' => Known(x) \/ x = main.page) /\ Due(stream') = Due(stream)
    BY <1>3, <2>1, UseTells DEF UseVictim
  <2>. QED BY <2>1, <2>2, LoseStep
<1>4. CASE Abort \/ SpaceReturns
  <2>1. disk'.pending \subseteq disk.pending
    <3>1. CASE Abort
      <4>1. [disk EXCEPT !.disabled = TRUE] \in Disks
            /\ [disk EXCEPT !.disabled = TRUE].pending = disk.pending
        BY <1>1 DEF Disks
      <4>. QED BY <3>1, <4>1, DropFacts DEF Abort
    <3>2. CASE SpaceReturns
      BY <1>1, <3>2 DEF SpaceReturns, Disks
    <3>. QED BY <1>4, <3>1, <3>2
  <2>2. UNCHANGED <<entries, file, readers, stream, writer, main>>
    BY <1>4 DEF Abort, SpaceReturns
  <2>. QED BY <2>1, <2>2, LoseStep DEF Known
<1>. QED BY <1>2, <1>3, <1>4

\* Nor do the readers.
LEMMA ReadPromised ==
  ASSUME TierInv, TierInv', NEW r \in readers, BeginRead(r) \/ EndRead(r)
  PROVE  Store0!Next
<1>1. Typed /\ disk \in Disks /\ r \in ReadsUnderWay
  BY DEF TierInv, Typed
<1>2. disk' = disk \/ disk' = Drop(disk, r.page)
  BY DEF BeginRead, EndRead, ReadFailed
<1>3. disk'.pending = disk.pending
  BY <1>1, <1>2 DEF Drop, Disks
<1>4. DOMAIN entries' = DOMAIN entries /\ UNCHANGED <<file, stream, writer, main>>
  BY DEF BeginRead, EndRead, ReadFailed, Conclude
<1>5. \A t \in readers' : \E u \in readers : t.page = u.page
  <2>1. [r EXCEPT !.image = file[r.page]].page = r.page
    BY <1>1 DEF ReadsUnderWay
  <2>. QED BY <2>1 DEF BeginRead, EndRead, ReadFailed, Conclude
<1>. QED BY <1>3, <1>4, <1>5, LoseStep DEF Known

\* Nor does the writer: the page it takes is pending, and the file it puts in place
\* was in its hand.
LEMMA WritePromised ==
  ASSUME TierInv, TierInv', WriterStep \/ FailWrite
  PROVE  Store0!Next
<1>1. Typed /\ disk \in Disks
  BY DEF TierInv, Typed
<1>2. CASE TakeOp
  <2>1. disk.queue \in Seq(Ops) /\ disk.queue # <<>> /\ Len(disk.queue) \in Nat
        /\ Head(disk.queue) = disk.queue[1]
    BY <1>1, <1>2, Members, HeadTailProperties DEF TakeOp
  <2>2. 1 \in 1..Len(disk.queue)
    BY <2>1, EmptySeq
  <2>3. disk.queue[1].kind = "page" => disk.queue[1].page \in disk.pending
    BY <2>2 DEF TierInv, Queues, PageWrites
  <2>4. writer'.op = disk.queue[1] /\ disk'.pending = disk.pending
        /\ UNCHANGED <<entries, file, readers, stream, main>>
    BY <1>1, <1>2, <2>1 DEF TakeOp, Disks
  <2>. QED BY <2>3, <2>4, LoseStep DEF Known
<1>3. CASE WriteTmp
  <2>1. writer # NoOp
    BY <1>3, Places DEF WriteTmp
  <2>2. writer'.op = writer.op /\ UNCHANGED <<entries, disk, file, readers, stream, main>>
    BY <1>3, <2>1, HandFacts DEF WriteTmp, Hands
  <2>. QED BY <2>1, <2>2, LoseStep DEF Known
<1>4. CASE PublishPage
  <2>1. writer # NoOp /\ writer.phase = "publish"
    BY <1>4, Places DEF PublishPage
  <2>2. writer \in Hands /\ writer.op.kind = "page"
    BY <2>1, HandFacts DEF TierInv, Queues, PageWrites
  <2>3. /\ disk'.pending \subseteq disk.pending /\ writer' = NoOp
        /\ \A p \in Pages : p # writer.op.page => file'[p] = file[p]
        /\ UNCHANGED <<entries, readers, stream, main>>
    BY <1>1, <1>4 DEF PublishPage, Disks, Typed
  <2>. QED BY <2>1, <2>2, <2>3, LoseStep DEF Known
<1>5. CASE DeletePage
  <2>1. /\ \A p \in Pages : file'[p] = file[p] \/ file'[p] = None
        /\ writer' = NoOp /\ UNCHANGED <<entries, disk, readers, stream, main>>
    BY <1>1, <1>5 DEF DeletePage, Typed
  <2>. QED BY <2>1, LoseStep DEF Known
<1>6. CASE Flush
  <2>1. writer \in Hands
    BY <1>6, Places, HandFacts DEF Flush
  <2>2. main \in Waits
    BY <1>6, <2>1 DEF Flush, TierInv, Queues, Flushes
  <2>3. /\ main'.page = main.page /\ main.at # "idle"
        /\ writer' = NoOp /\ UNCHANGED <<entries, disk, file, readers, stream>>
    BY <1>6, <2>2, Places DEF Flush, Waits
  <2>. QED BY <2>3, LoseStep DEF Known
<1>7. CASE FailWrite
  <2> DEFINE d == [disk EXCEPT !.pending = @ \ {writer.op.page}]
  <2>1. /\ d \in Disks /\ d.pending \subseteq disk.pending
        /\ [d EXCEPT !.paused = TRUE] \in Disks /\ [d EXCEPT !.disabled = TRUE] \in Disks
        /\ [d EXCEPT !.paused = TRUE].pending = d.pending
        /\ [d EXCEPT !.disabled = TRUE].pending = d.pending
    BY <1>1 DEF Disks
  <2>2. disk' \in WriteFailed(d)
    BY <1>7 DEF FailWrite
  <2> HIDE DEF d
  <2>3. disk'.pending \subseteq disk.pending
    BY <2>1, <2>2, DropFacts DEF WriteFailed
  <2>4. writer' = NoOp /\ UNCHANGED <<entries, file, readers, stream, main>>
    BY <1>7 DEF FailWrite
  <2>. QED BY <2>3, <2>4, LoseStep DEF Known
<1>. QED BY <1>2, <1>3, <1>4, <1>5, <1>6, <1>7 DEF WriterStep

\* A crash loses pages and the delivery, and finds no page that was not there.
LEMMA CrashPromised ==
  ASSUME TierInv, TierInv', Crash
  PROVE  Store0!Next
<1>1. PICK lost \in SUBSET {p \in Pages : file[p] # None} :
        /\ file' = [p \in Pages |-> IF p \in lost THEN Bad ELSE file[p]]
        /\ disk'.pending = {} /\ entries' = <<>> /\ stream' = <<>>
        /\ readers' = {} /\ writer' = NoOp /\ main' = Idle
  BY DEF Crash
<1>2. \A p \in Pages : file'[p] # None => file[p] # None
  BY <1>1
<1>3. DOMAIN entries' = {} /\ Len(stream') = 0
  BY <1>1
<1>4. \A x : Known(x)' => Known(x)
  BY <1>1, <1>2, <1>3, Places DEF Known
<1>5. Kept' \subseteq Kept /\ Delivery' = Due(stream')
  BY <1>4, NothingNew
<1>. QED BY <1>1, <1>5 DEF Due, Store0!Next, Store0!EndDelivery

\* Every step of the tiers is a step of LossyStore, or changes nothing it sees.
LEMMA StepPromised ==
  ASSUME TierInv, TierInv', [Next]_vars
  PROVE  [Store0!Next]_(Store0!vars)
<1>1. ASSUME NEW p \in Pages, Store(p) \/ Prefetch(p) \/ Restore(p)
      PROVE  Store0!Next
  BY <1>1, RequestPromised
<1>2. CASE MainStep
  BY <1>2, MainPromised, FetchPromised DEF MainStep
<1>3. CASE Abort \/ SpaceReturns
  BY <1>3, MainPromised
<1>4. CASE Execute
  BY <1>4, ExecutePromised
<1>5. CASE ReaderStep
  BY <1>5, ReadPromised DEF ReaderStep
<1>6. CASE WriterStep \/ FailWrite
  BY <1>6, WritePromised
<1>7. CASE Crash
  BY <1>7, CrashPromised
<1>8. CASE UNCHANGED vars
  BY <1>8 DEF vars, Store0!vars, Kept, Delivery
<1>. QED BY <1>1, <1>2, <1>3, <1>4, <1>5, <1>6, <1>7, <1>8 DEF Next

\* Together the tiers implement the lossy store, across crashes.
THEOREM TiersKeepPromise == Spec => Promise
<1>1. Init => Store0!Init
  <2>. SUFFICES ASSUME Init PROVE Store0!Init
    OBVIOUS
  <2>1. \A x : ~ Known(x)
    BY Places DEF Init, Known
  <2>2. Kept = {} /\ Delivery = Due(stream)
    BY <2>1, TiersBegin, KeptKnown, DeliveryDue
  <2>. QED BY <2>2 DEF Init, Due, Store0!Init
<1>2. TierInv /\ TierInv' /\ [Next]_vars => [Store0!Next]_(Store0!vars)
  BY StepPromised
<1>. QED BY <1>1, <1>2, TierInvariant, PTL DEF Spec, Promise, Store0!Spec
=============================================================================
