-------------------------- MODULE CheckpointsProofs --------------------------
(***************************************************************************)
(* That a recurrent checkpoint is never lost, mixed up or recycled early,  *)
(* for any set of pages, buffers and renamings and any budgets, as long as *)
(* no checkpoint is asked for while its write is pending.                  *)
(*                                                                         *)
(* The inductive invariant says who refers to which buffer (Pooled), what  *)
(* the writer's queue has to do with the writes pending (Writes), what     *)
(* buffers and files hold (Images, Shelf), and what the main thread        *)
(* carries while it is between two locks (Course, Errand) or between two   *)
(* steps of write_state() (Calling), one of whose steps lies between a     *)
(* pending write and its place in the queue (Reserving).                   *)
(***************************************************************************)
EXTENDS Checkpoints, SublistProofs

-----------------------------------------------------------------------------
(* Types.                                                                   *)

Maps == UNION {[D -> Buffers] : D \in SUBSET Content}
Ops == {o \in [kind : {"page", "state", "delete"}, key : Content, stash : Buffers \cup {None}] :
          o.kind = "state" => o.stash \in Buffers}
Tiers == [pool : Seq(Buffers), bytes : [Buffers -> Keys \cup {None}],
          states : SUBSET Content, pages : SUBSET Content, pending : Maps,
          pendingPages : SUBSET Content, candidates : Maps, ready : Seq(Content),
          deferred : SUBSET Buffers, queue : Seq(Ops), writes : {"on", "paused", "off"}]
Hands == [phase : {"write", "publish"}, op : Ops, image : Keys \cup {None}]
Entries == [key : Keys, stash : Buffers]
Places == [at : {"room", "release", "offer", "offerQueued", "drain", "note", "notePending",
                 "noteQueued", "page", "pagePending", "pageRoom", "flush", "flushQueued"},
           key : Keys \cup {None}, stash : Buffers \cup {None}, new : BOOLEAN,
           release : Seq(Buffers), offers : SUBSET Content,
           then : {"room", "note", "page", "trim", "flush"}]
Calls == [at : {"states", "pending", "room", "queue", "failed"}, key : Content, stash : Buffers]

Typed ==
    /\ cache \in Seq(Entries) /\ Len(cache) <= Capacity
    /\ tier \in Tiers
    /\ file \in [Keys -> Keys \cup {None}]
    /\ writer = NoOp \/ writer \in Hands
    /\ main = Idle \/ main \in Places

-----------------------------------------------------------------------------
(* The parts of the invariant.                                              *)

\* The writer's operation is a kind of operation on key k
InHand(w, kind, k) == w \in Hands /\ w.op.kind = kind /\ w.op.key = k

\* The writes of checkpoints: one for each pending key but those in X, which have none,
\* queued or in hand, and it reads the pending stash.
Writes(t, w, X) ==
    LET Q == 1..Len(t.queue)
        pend == DOMAIN t.pending \ X
    IN  /\ \A k \in pend : \/ \E i \in Q : t.queue[i].kind = "state" /\ t.queue[i].key = k
                           \/ InHand(w, "state", k)
        /\ \A i \in Q : t.queue[i].kind = "state" =>
             /\ t.queue[i].key \in pend /\ t.queue[i].stash = t.pending[t.queue[i].key]
             /\ ~ InHand(w, "state", t.queue[i].key)
        /\ \A k \in Content : InHand(w, "state", k) => k \in pend /\ w.op.stash = t.pending[k]
        /\ \A i, j \in Q : t.queue[i].kind = "state" /\ t.queue[j].kind = "state"
                             /\ t.queue[i].key = t.queue[j].key => i = j

Only(x) == {x}

\* The pending write that write_state() has reserved and not yet queued.
Reserving(c) == IF c.at = "queue" THEN Only(c.key) ELSE {}

\* The stashes that the cache, and the main thread, refer to
Stashes(c) == {e.stash : e \in ToSet(c)}
Kept(c, m) == Stashes(c) \cup (IF m \in Places THEN ToSet(m.release) \cup ({m.stash} \ {None})
                               ELSE {})

\* The pool has each buffer once, and none that is in K or pending; a deferred one is
\* pending and not in K, a candidate is in K.
Pooled(t, K) ==
    /\ Distinct(t.pool) /\ \A i \in 1..Len(t.pool) : t.pool[i] \notin K \cup Range(t.pending)
    /\ t.deferred \subseteq Range(t.pending) /\ t.deferred \cap K = {}
    /\ Range(t.candidates) \subseteq K

\* What is pending, a candidate, in the writer's hand or on disk under a key is the
\* checkpoint of the page that has, or will get, that key.
Images(t, f, w) ==
    /\ \A k \in DOMAIN t.pending : t.bytes[t.pending[k]] = Final(k)
    /\ \A k \in DOMAIN t.candidates : t.bytes[t.candidates[k]] = Final(k)
    /\ \A k \in Keys : f[k] \in {None, Final(k)}
    /\ w \in Hands => /\ w.phase = "write" => w.image = None
                      /\ w.phase = "publish" =>
                           w.op.kind # "delete" /\ (w.op.kind = "state" => w.image = Final(w.op.key))

Sound(t, w, f, K, X) == t \in Tiers /\ Writes(t, w, X) /\ Pooled(t, K) /\ Images(t, f, w)

\* The cache has each key and each stash once, with the checkpoint of the key.
Shelf(c, t) ==
    /\ \A i, j \in 1..Len(c) : c[i].key = c[j].key \/ c[i].stash = c[j].stash => i = j
    /\ \A i \in 1..Len(c) : t.bytes[c[i].stash] = Final(c[i].key)

\* What the main thread is doing between two locks
Course(c, m) ==
    \/ m = Idle
    \/ /\ m.then = "room" /\ m.at \in {"room", "release", "offer", "offerQueued"}
       /\ m.key \in Keys /\ (\A i \in 1..Len(c) : c[i].key # m.key)
       /\ (m.new <=> m.stash = None) /\ (m.at = "room" => m.release = <<>>)
    \/ /\ m.then = "note" /\ m.at \in {"drain", "note", "notePending", "noteQueued"}
       /\ m.release = <<>>
       /\ m.key \in Content /\ \E i \in 1..Len(c) : c[i] = Entry(m.key, m.stash)
    \/ /\ m.then = "page" /\ m.at \in {"drain", "page", "pagePending", "pageRoom"} /\ m.release = <<>>
       /\ m.key \in Content /\ m.stash = None
    \/ m.then = "trim" /\ m.at \in {"release", "offer", "offerQueued"} /\ m.stash = None
    \/ m.then = "flush" /\ m.at \in {"flush", "flushQueued"} /\ m.release = <<>> /\ m.stash = None

\* What it carries: stashes to release that nobody else has, the checkpoint of its key,
\* and while it offers the first one to the disk, the keys that this is the checkpoint of.
Errand(c, m, t) ==
    m \in Places =>
      /\ Distinct(m.release)
      /\ \A i \in 1..Len(m.release) : m.release[i] # m.stash /\ m.release[i] \notin Stashes(c)
      /\ m.stash # None => t.bytes[m.stash] = Final(m.key)
      /\ m.then = "room" => m.stash \notin Stashes(c)
      /\ m.at \in {"offer", "offerQueued"} =>
           /\ m.release # <<>> /\ Head(m.release) \notin Range(t.candidates)
           /\ \A k \in m.offers : t.bytes[Head(m.release)] = Final(k)

\* In write_state(): the stash is kept, and holds the checkpoint of the key; between the
\* look at the pending writes and the reservation nobody else reserves the key.
Calling(c, t, K) ==
    c # NoCall =>
      /\ c \in Calls /\ c.stash \in K /\ t.bytes[c.stash] = Final(c.key)
      /\ c.at = "room" => c.key \notin DOMAIN t.pending
      /\ c.at = "queue" => c.key \in DOMAIN t.pending /\ t.pending[c.key] = c.stash

\* Outside write_state(), and in it.
MainInv ==
    /\ Typed /\ Sound(tier, writer, file, Kept(cache, main), {})
    /\ Shelf(cache, tier) /\ Course(cache, main) /\ Errand(cache, main, tier)
CheckInv ==
    /\ Typed /\ Sound(tier, writer, file, Kept(cache, main), Reserving(call))
    /\ Shelf(cache, tier) /\ Course(cache, main) /\ Errand(cache, main, tier)
    /\ Calling(call, tier, Kept(cache, main))

-----------------------------------------------------------------------------
(* Tables by key.                                                           *)

LEMMA MapFacts ==
  ASSUME NEW m \in Maps
  PROVE  /\ DOMAIN m \in SUBSET Content /\ \A k \in DOMAIN m : m[k] \in Buffers
         /\ \A k \in DOMAIN m : m[k] \in Range(m)
         /\ \A b : b \in Range(m) <=> \E k \in DOMAIN m : m[k] = b
BY DEF Maps, Range

LEMMA NothingBound == <<>> \in Maps /\ DOMAIN <<>> = {} /\ Range(<<>>) = {}
<1>1. DOMAIN <<>> = {}
  OBVIOUS
<1>2. <<>> \in [{} -> Buffers]
  OBVIOUS
<1>3. <<>> \in Maps
  BY <1>2 DEF Maps
<1>4. Range(<<>>) = {}
  BY <1>1 DEF Range
<1>. QED BY <1>1, <1>3, <1>4

LEMMA BindFacts ==
  ASSUME NEW m \in Maps, NEW k \in Content, NEW b \in Buffers
  PROVE  /\ Bind(m, k, b) \in Maps /\ DOMAIN Bind(m, k, b) = DOMAIN m \cup {k}
         /\ Bind(m, k, b)[k] = b /\ \A x \in DOMAIN m : x # k => Bind(m, k, b)[x] = m[x]
         /\ Range(Bind(m, k, b)) \subseteq Range(m) \cup {b}
         /\ k \notin DOMAIN m => Range(m) \subseteq Range(Bind(m, k, b))
<1>1. DOMAIN m \in SUBSET Content /\ \A x \in DOMAIN m : m[x] \in Buffers
  BY MapFacts
<1>2. DOMAIN Bind(m, k, b) = DOMAIN m \cup {k}
  BY DEF Bind
<1>3. /\ Bind(m, k, b)[k] = b
      /\ \A x \in DOMAIN m : x # k => Bind(m, k, b)[x] = m[x]
  BY DEF Bind
<1>4. Bind(m, k, b) \in [DOMAIN m \cup {k} -> Buffers] /\ DOMAIN m \cup {k} \in SUBSET Content
  BY <1>1 DEF Bind
<1>5. Bind(m, k, b) \in Maps
  BY <1>4 DEF Maps
<1>6. Range(Bind(m, k, b)) \subseteq Range(m) \cup {b}
  BY <1>2, <1>3 DEF Range
<1>7. k \notin DOMAIN m => Range(m) \subseteq Range(Bind(m, k, b))
  BY <1>2, <1>3 DEF Range
<1>. QED BY <1>2, <1>3, <1>5, <1>6, <1>7

LEMMA RestrictFacts ==
  ASSUME NEW m \in Maps, NEW S
  PROVE  /\ Restrict(m, DOMAIN m \ S) \in Maps
         /\ DOMAIN Restrict(m, DOMAIN m \ S) = DOMAIN m \ S
         /\ \A x \in DOMAIN m \ S : Restrict(m, DOMAIN m \ S)[x] = m[x]
         /\ Range(Restrict(m, DOMAIN m \ S)) \subseteq Range(m)
         /\ \A b : b \in Range(Restrict(m, DOMAIN m \ S)) <=> \E x \in DOMAIN m : x \notin S /\ m[x] = b
<1>1. DOMAIN m \in SUBSET Content /\ \A x \in DOMAIN m : m[x] \in Buffers
  BY MapFacts
<1>2. /\ DOMAIN Restrict(m, DOMAIN m \ S) = DOMAIN m \ S
      /\ \A x \in DOMAIN m \ S : Restrict(m, DOMAIN m \ S)[x] = m[x]
  BY DEF Restrict
<1>3. Restrict(m, DOMAIN m \ S) \in [DOMAIN m \ S -> Buffers] /\ DOMAIN m \ S \in SUBSET Content
  BY <1>1 DEF Restrict
<1>4. Restrict(m, DOMAIN m \ S) \in Maps
  BY <1>3 DEF Maps
<1>5. \A b : b \in Range(Restrict(m, DOMAIN m \ S)) <=> \E x \in DOMAIN m : x \notin S /\ m[x] = b
  BY <1>2 DEF Range
<1>6. Range(Restrict(m, DOMAIN m \ S)) \subseteq Range(m)
  BY <1>2 DEF Range
<1>. QED BY <1>2, <1>4, <1>5, <1>6

LEMMA ForgetFacts ==
  ASSUME NEW m \in Maps, NEW k
  PROVE  /\ Forget(m, k) \in Maps /\ DOMAIN Forget(m, k) = DOMAIN m \ {k}
         /\ \A x \in DOMAIN m : x # k => Forget(m, k)[x] = m[x]
         /\ Range(Forget(m, k)) \subseteq Range(m)
         /\ \A b : b \in Range(Forget(m, k)) <=> \E x \in DOMAIN m : x # k /\ m[x] = b
<1>. DEFINE S == {k}
<1>1. Forget(m, k) = Restrict(m, DOMAIN m \ S) /\ \A x : x \in S <=> x = k
  BY DEF Forget
<1>2. /\ Restrict(m, DOMAIN m \ S) \in Maps
      /\ DOMAIN Restrict(m, DOMAIN m \ S) = DOMAIN m \ S
      /\ \A x \in DOMAIN m \ S : Restrict(m, DOMAIN m \ S)[x] = m[x]
      /\ Range(Restrict(m, DOMAIN m \ S)) \subseteq Range(m)
      /\ \A b : b \in Range(Restrict(m, DOMAIN m \ S)) <=> \E x \in DOMAIN m : x \notin S /\ m[x] = b
  BY RestrictFacts
<1>. QED BY <1>1, <1>2

-----------------------------------------------------------------------------
(* The tier's helpers.                                                      *)

\* At rest, or at work
LEMMA AtRest ==
  /\ NoCall \notin Calls /\ Reserving(NoCall) = {} /\ \A c \in Calls : c.at # "none" /\ c # NoCall
  /\ NoOp \notin Hands /\ Idle \notin Places /\ Idle.at = "idle" /\ NoOp.phase = "idle"
  /\ \A m \in Places : m.at # "idle" /\ m # Idle
  /\ \A w \in Hands : w.phase # "idle" /\ w # NoOp
BY DEF NoOp, Idle, Hands, Places, NoCall, Calls, Reserving

LEMMA QueueFacts ==
  ASSUME NEW t \in Tiers
  PROVE  /\ t.queue \in Seq(Ops) /\ Len(t.queue) \in Nat /\ DOMAIN t.queue = 1..Len(t.queue)
         /\ \A i \in 1..Len(t.queue) :
              /\ t.queue[i] \in Ops /\ t.queue[i].key \in Content
              /\ t.queue[i].kind = "state" => t.queue[i].stash \in Buffers
         /\ t.pending \in Maps /\ t.candidates \in Maps
         /\ t.pool \in Seq(Buffers) /\ Len(t.pool) \in Nat
<1>1. t.queue \in Seq(Ops) /\ t.pool \in Seq(Buffers) /\ t.pending \in Maps /\ t.candidates \in Maps
  BY DEF Tiers
<1>2. Len(t.queue) \in Nat /\ DOMAIN t.queue = 1..Len(t.queue) /\ Len(t.pool) \in Nat
  BY <1>1, LenProperties
<1>3. \A i \in 1..Len(t.queue) : t.queue[i] \in Ops
  BY <1>1, ElementOfSeq
<1>4. \A o \in Ops : o.key \in Content /\ (o.kind = "state" => o.stash \in Buffers)
  BY DEF Ops
<1>. QED BY <1>1, <1>2, <1>3, <1>4

\* The tables that the invariant does not speak of may change, and candidates may go or
\* come from K.
LEMMA CandidatesSound ==
  ASSUME NEW t, NEW u \in Tiers, NEW w, NEW f, NEW K, NEW X, Sound(t, w, f, K, X),
         u.pool = t.pool, u.bytes = t.bytes, u.pending = t.pending,
         u.deferred = t.deferred, u.queue = t.queue,
         \A k \in DOMAIN u.candidates :
           u.candidates[k] \in K /\ t.bytes[u.candidates[k]] = Final(k)
  PROVE  Sound(u, w, f, K, X)
<1>1. Writes(u, w, X)
  BY DEF Sound, Writes
<1>3. u.candidates \in Maps
  BY DEF Tiers
<1>4. Range(u.candidates) \subseteq K
  BY <1>3, MapFacts
<1>5. Pooled(u, K)
  BY <1>4 DEF Sound, Pooled
<1>6. Images(u, f, w)
  BY DEF Sound, Images
<1>. QED BY <1>1, <1>5, <1>6 DEF Sound

LEMMA UnlistedSound ==
  ASSUME NEW t, NEW u \in Tiers, NEW w, NEW f, NEW K, NEW X, Sound(t, w, f, K, X),
         u.pool = t.pool, u.bytes = t.bytes, u.pending = t.pending,
         u.deferred = t.deferred, u.queue = t.queue, u.candidates = t.candidates
  PROVE  Sound(u, w, f, K, X)
<1>1. t.candidates \in Maps
  BY DEF Sound, Tiers
<1>2. \A k \in DOMAIN t.candidates : t.candidates[k] \in K /\ t.bytes[t.candidates[k]] = Final(k)
  BY <1>1, MapFacts DEF Sound, Pooled, Images
<1>. QED BY <1>2, CandidatesSound

\* Only those who refer to a buffer count, not how.
LEMMA KeptSound ==
  ASSUME NEW t, NEW w, NEW f, NEW K, NEW L, NEW X, Sound(t, w, f, K, X),
         \A b \in L : b \in K \/ (b \in Buffers /\ b \notin Range(t.pending)
                                  /\ \A i \in 1..Len(t.pool) : t.pool[i] # b),
         Range(t.candidates) \subseteq L
  PROVE  Sound(t, w, f, L, X)
<1>1. t.deferred \cap L = {}
  BY DEF Sound, Pooled
<1>2. \A i \in 1..Len(t.pool) : t.pool[i] \notin L
  BY DEF Sound, Pooled
<1>. QED BY <1>1, <1>2 DEF Sound, Pooled

\* Whatever leaves the mirror, its deletions go to the end of the queue.
LEMMA DeletedSound ==
  ASSUME NEW t, NEW u \in Tiers, NEW w, NEW f, NEW K, Sound(t, w, f, K, {}),
         u.pool = t.pool, u.bytes = t.bytes, u.pending = t.pending,
         u.deferred = t.deferred, u.candidates = t.candidates,
         Len(t.queue) <= Len(u.queue), \A i \in 1..Len(t.queue) : u.queue[i] = t.queue[i],
         \A i \in 1..Len(u.queue) : i > Len(t.queue) =>
           u.queue[i].kind = "delete"
  PROVE  Sound(u, w, f, K, {})
<1> DEFINE Q == 1..Len(t.queue)
           R == 1..Len(u.queue)
<1>1. Len(t.queue) \in Nat /\ Len(u.queue) \in Nat
  BY QueueFacts DEF Sound
<1>2. Q \subseteq R /\ \A i \in R : i \in Q \/ u.queue[i].kind = "delete"
  BY <1>1
<1>4. \A i \in R : u.queue[i].kind = "state" => i \in Q /\ t.queue[i].kind = "state"
  BY <1>2
<1>6. Writes(u, w, {})
  <2>2. \A k \in DOMAIN u.pending : \/ \E i \in R : u.queue[i].kind = "state" /\ u.queue[i].key = k
                                    \/ InHand(w, "state", k)
    <3>1. \A k \in DOMAIN t.pending : \/ \E i \in Q : t.queue[i].kind = "state" /\ t.queue[i].key = k
                                      \/ InHand(w, "state", k)
      BY DEF Sound, Writes
    <3>. QED BY <1>2, <3>1
  <2>3. ASSUME NEW i \in R, u.queue[i].kind = "state"
        PROVE  /\ u.queue[i].key \in DOMAIN u.pending
               /\ u.queue[i].stash = u.pending[u.queue[i].key]
               /\ ~ InHand(w, "state", u.queue[i].key)
    BY <1>4, <2>3 DEF Sound, Writes
  <2>4. \A k \in Content : InHand(w, "state", k) => k \in DOMAIN u.pending /\ w.op.stash = u.pending[k]
    BY DEF Sound, Writes
  <2>5. ASSUME NEW i \in R, NEW j \in R, u.queue[i].kind = "state", u.queue[j].kind = "state",
               u.queue[i].key = u.queue[j].key
        PROVE  i = j
    BY SMTT(30), <1>4, <2>5 DEF Sound, Writes
  <2>. QED BY <2>2, <2>3, <2>4, <2>5 DEF Writes
<1>8. Pooled(u, K)
  BY DEF Sound, Pooled
<1>9. Images(u, f, w)
  BY DEF Sound, Images
<1>. QED BY <1>6, <1>8, <1>9 DEF Sound

LEMMA OpFacts ==
  ASSUME NEW k \in Content
  PROVE  /\ Op("delete", k, None) \in Ops /\ Op("page", k, None) \in Ops
         /\ \A b \in Buffers : Op("state", k, b) \in Ops
BY DEF Op, Ops

\* What a step of the tier leaves to the main thread: the same candidates, deferred
\* releases and pool, and every buffer as it was.
Alike(t, u) ==
    /\ u.bytes = t.bytes /\ u.pending = t.pending /\ u.candidates = t.candidates
    /\ u.pool = t.pool /\ u.deferred = t.deferred

LEMMA DropStateSound ==
  ASSUME NEW t, NEW w, NEW f, NEW K, Sound(t, w, f, K, {}), NEW k \in t.states
  PROVE  Sound(DropState(t, k), w, f, K, {}) /\ Alike(t, DropState(t, k))
<1> DEFINE u == DropState(t, k)
           o == Op("delete", k, None)
<1>1. t \in Tiers /\ t.queue \in Seq(Ops) /\ Len(t.queue) \in Nat /\ t.states \in SUBSET Content
  BY QueueFacts DEF Sound, Tiers
<1>2. o \in Ops /\ o.kind = "delete" /\ o.key = k
  BY <1>1, OpFacts DEF Op
<1>3. /\ u.states = t.states \ {k} /\ u.queue = Append(t.queue, o) /\ Alike(t, u)
      /\ u = [t EXCEPT !.states = t.states \ {k}, !.queue = Append(t.queue, o)]
  BY <1>1 DEF DropState, Tiers, Alike
<1> HIDE DEF o, u
<1>4. /\ Append(t.queue, o) \in Seq(Ops) /\ Len(Append(t.queue, o)) = Len(t.queue) + 1
      /\ \A i \in 1..Len(t.queue) : Append(t.queue, o)[i] = t.queue[i]
      /\ Append(t.queue, o)[Len(t.queue) + 1] = o
  BY <1>1, <1>2, AppendProperties
<1>5. u \in Tiers
  BY <1>1, <1>3, <1>4 DEF Tiers
<1>6. \A i \in 1..Len(u.queue) : i > Len(t.queue) => i = Len(t.queue) + 1
  BY <1>1, <1>3, <1>4
<1>7. Sound(u, w, f, K, {})
  <2>2. \A i \in 1..Len(u.queue) : i > Len(t.queue) => u.queue[i].kind = "delete"
    BY <1>2, <1>3, <1>4, <1>6
  <2>3. Len(t.queue) <= Len(u.queue) /\ \A i \in 1..Len(t.queue) : u.queue[i] = t.queue[i]
    BY <1>1, <1>3, <1>4
  <2>4. /\ u.pool = t.pool /\ u.bytes = t.bytes /\ u.pending = t.pending
        /\ u.deferred = t.deferred /\ u.candidates = t.candidates
    BY <1>3 DEF Alike
  <2>. QED BY <1>5, <2>2, <2>3, <2>4, DeletedSound
<1>. QED BY <1>3, <1>7 DEF u

\* A finite set has an enumeration.
LEMMA Enumerated ==
  ASSUME NEW T, IsFiniteSet(T)
  PROVE  Cardinality(T) \in Nat /\ SetToSeq(T) \in [1..Cardinality(T) -> T]
<1>1. Cardinality(T) \in Nat /\ ExistsBijection(1..Cardinality(T), T)
  BY FS_CardinalityType
<1>2. PICK g \in Bijection(1..Cardinality(T), T) : TRUE
  BY <1>1 DEF ExistsBijection
<1>3. g \in [1..Cardinality(T) -> T] /\ IsInjective(g)
  BY <1>2 DEF Bijection, Injection, IsInjective
<1>. QED BY <1>1, <1>3 DEF SetToSeq

LEMMA DropStatesSound ==
  ASSUME NEW t, NEW w, NEW f, NEW K, Sound(t, w, f, K, {}), NEW gone \in SUBSET t.states
  PROVE  Sound(DropStates(t, gone), w, f, K, {}) /\ Alike(t, DropStates(t, gone))
<1> DEFINE u == DropStates(t, gone)
           tail == [i \in 1..Cardinality(gone) |-> Op("delete", SetToSeq(gone)[i], None)]
<1>1. t \in Tiers /\ t.queue \in Seq(Ops) /\ Len(t.queue) \in Nat /\ t.states \in SUBSET Content
  BY QueueFacts DEF Sound, Tiers
<1>2. IsFiniteSet(gone)
  BY <1>1, KeysFinite, KeysAssumption, FS_Subset
<1>3. Cardinality(gone) \in Nat /\ \A i \in 1..Cardinality(gone) : SetToSeq(gone)[i] \in gone
  BY <1>2, Enumerated
<1>4. \A i \in 1..Cardinality(gone) : tail[i] \in Ops
  BY <1>1, <1>3, OpFacts
<1>5. tail \in Seq(Ops) /\ Len(tail) = Cardinality(gone)
  BY <1>3, <1>4
<1>6. \A i \in 1..Len(tail) : tail[i].kind = "delete"
  BY <1>5 DEF Op
<1>7. /\ u = [t EXCEPT !.states = t.states \ gone, !.queue = t.queue \o tail]
      /\ u.states = t.states \ gone /\ u.queue = t.queue \o tail /\ Alike(t, u)
  BY <1>1 DEF DropStates, Tiers, Alike
<1> HIDE DEF tail, u
<1>8. /\ t.queue \o tail \in Seq(Ops)
      /\ Len(t.queue \o tail) = Len(t.queue) + Len(tail)
      /\ \A i \in 1..Len(t.queue) + Len(tail) : (t.queue \o tail)[i] =
           IF i <= Len(t.queue) THEN t.queue[i] ELSE tail[i - Len(t.queue)]
  BY <1>1, <1>5, ConcatProperties
<1>9. Len(tail) \in Nat
  BY <1>3, <1>5
<1>10. \A i \in 1..Len(t.queue) : u.queue[i] = t.queue[i]
  BY <1>1, <1>7, <1>8, <1>9
<1>11. ASSUME NEW i \in 1..Len(u.queue), i > Len(t.queue)
       PROVE  u.queue[i].kind = "delete"
  <2>1. i - Len(t.queue) \in 1..Len(tail) /\ ~ (i <= Len(t.queue)) /\ i \in 1..Len(t.queue) + Len(tail)
    BY <1>1, <1>7, <1>8, <1>9, <1>11
  <2>2. u.queue[i] = tail[i - Len(t.queue)]
    BY <1>7, <1>8, <2>1
  <2>. QED BY <1>6, <2>1, <2>2
<1>12. u \in Tiers
  BY <1>1, <1>7, <1>8 DEF Tiers
<1>13. Len(t.queue) <= Len(u.queue)
  BY <1>1, <1>7, <1>8, <1>9
<1>14. /\ u.pool = t.pool /\ u.bytes = t.bytes /\ u.pending = t.pending
       /\ u.deferred = t.deferred /\ u.candidates = t.candidates
  BY <1>7 DEF Alike
<1>15. Sound(u, w, f, K, {})
  BY <1>10, <1>11, <1>12, <1>13, <1>14, DeletedSound
<1>. QED BY <1>7, <1>15 DEF u

LEMMA MakeRoomSound ==
  ASSUME NEW t, NEW w, NEW f, NEW K, Sound(t, w, f, K, {}), NEW u \in MakeRoom(t)
  PROVE  Sound(u, w, f, K, {}) /\ Alike(t, u)
<1>1. \/ u = t \/ (\E k \in t.pages : u = EvictPage(t, k)) \/ (\E k \in t.states : u = DropState(t, k))
  BY DEF MakeRoom
<1>2. CASE u = t
  BY <1>2 DEF Alike
<1>3. ASSUME NEW k \in t.states, u = DropState(t, k)
      PROVE  Sound(u, w, f, K, {}) /\ Alike(t, u)
  BY <1>3, DropStateSound
<1>4. ASSUME NEW k \in t.pages, u = EvictPage(t, k)
      PROVE  Sound(u, w, f, K, {}) /\ Alike(t, u)
  <2> DEFINE v == DropPage(t, k)
  <2>1. /\ v \in Tiers /\ v.pool = t.pool /\ v.bytes = t.bytes /\ v.states = t.states
        /\ v.pending = t.pending /\ v.deferred = t.deferred /\ v.queue = t.queue
        /\ v.candidates = t.candidates
    BY DEF Sound, Tiers, DropPage
  <2>2. Sound(v, w, f, K, {}) /\ Alike(t, v)
    BY <2>1, UnlistedSound DEF Alike
  <2>3. u = v \/ (k \in v.states /\ u = DropState(v, k))
    BY <1>4, <2>1 DEF EvictPage
  <2> HIDE DEF v
  <2>4. CASE u = v
    BY <2>1, <2>2, <2>4
  <2>5. CASE k \in v.states /\ u = DropState(v, k)
    <3>1. Sound(u, w, f, K, {}) /\ Alike(v, u)
      BY <2>2, <2>5, DropStateSound
    <3>. QED BY <2>1, <3>1 DEF Alike
  <2>. QED BY <2>3, <2>4, <2>5
<1>. QED BY <1>1, <1>2, <1>3, <1>4

\* write_state() reserves a key that is not pending for a checkpoint that somebody keeps ...
LEMMA ReservedSound ==
  ASSUME NEW t, NEW w, NEW f, NEW K, Sound(t, w, f, K, {}),
         NEW k \in Content, NEW b \in Buffers, k \notin DOMAIN t.pending,
         b \in K, t.bytes[b] = Final(k),
         NEW u, u = Reserved(t, k, b)
  PROVE  /\ Sound(u, w, f, K, Only(k)) /\ k \in DOMAIN u.pending /\ u.pending[k] = b
         /\ u.bytes = t.bytes /\ u.candidates = t.candidates
<1> DEFINE p == Bind(t.pending, k, b)
           X == Only(k)
<1>0. \A x : x \in X <=> x = k
  BY DEF Only
<1>1. t \in Tiers /\ t.pending \in Maps
  BY QueueFacts DEF Sound
<1>2. /\ p \in Maps /\ DOMAIN p = DOMAIN t.pending \cup {k} /\ p[k] = b
      /\ \A x \in DOMAIN t.pending : p[x] = t.pending[x]
      /\ Range(p) \subseteq Range(t.pending) \cup {b} /\ Range(t.pending) \subseteq Range(p)
  <2>1. ASSUME NEW m \in Maps
        PROVE  /\ Bind(m, k, b) \in Maps /\ DOMAIN Bind(m, k, b) = DOMAIN m \cup {k}
               /\ Bind(m, k, b)[k] = b
               /\ \A x \in DOMAIN m : x # k => Bind(m, k, b)[x] = m[x]
               /\ Range(Bind(m, k, b)) \subseteq Range(m) \cup {b}
               /\ k \notin DOMAIN m => Range(m) \subseteq Range(Bind(m, k, b))
    <3>1. Bind(m, k, b) \in Maps /\ DOMAIN Bind(m, k, b) = DOMAIN m \cup {k}
      BY BindFacts
    <3>2. Bind(m, k, b)[k] = b /\ \A x \in DOMAIN m : x # k => Bind(m, k, b)[x] = m[x]
      BY DEF Bind
    <3>. QED BY <3>1, <3>2 DEF Range
  <2>2. /\ p \in Maps /\ DOMAIN p = DOMAIN t.pending \cup {k} /\ p[k] = b
        /\ \A x \in DOMAIN t.pending : x # k => p[x] = t.pending[x]
        /\ Range(p) \subseteq Range(t.pending) \cup {b}
        /\ k \notin DOMAIN t.pending => Range(t.pending) \subseteq Range(p)
    BY <1>1, <2>1
  <2> HIDE DEF p
  <2>. QED BY <2>2
<1>3. /\ u.pending = p /\ u.queue = t.queue
      /\ u.bytes = t.bytes /\ u.candidates = t.candidates /\ u.deferred = t.deferred
      /\ u.pool = t.pool /\ u = [t EXCEPT !.pending = p]
  BY <1>1 DEF Tiers, Reserved
<1> HIDE DEF p, X
<1>4. u \in Tiers
  BY <1>1, <1>2, <1>3 DEF Tiers
<1>5. DOMAIN u.pending \ X = DOMAIN t.pending \ {} /\ \A x \in DOMAIN t.pending : u.pending[x] = t.pending[x]
  BY <1>0, <1>2, <1>3
<1>6. Writes(u, w, X)
  <2>1. Writes(t, w, {})
    BY DEF Sound
  <2>. QED BY <1>3, <1>5, <2>1 DEF Writes
<1>7. Pooled(u, K)
  <2>1. \A i \in 1..Len(u.pool) : u.pool[i] \notin K \cup Range(u.pending)
    BY <1>2, <1>3 DEF Sound, Pooled
  <2>2. u.deferred \subseteq Range(u.pending)
    BY <1>2, <1>3 DEF Sound, Pooled
  <2>. QED BY <1>3, <2>1, <2>2 DEF Sound, Pooled
<1>8. Images(u, f, w)
  <2>1. \A x \in DOMAIN u.pending : u.bytes[u.pending[x]] = Final(x)
    BY <1>2, <1>3 DEF Sound, Images
  <2>. QED BY <1>3, <2>1 DEF Sound, Images
<1>. QED BY <1>2, <1>3, <1>4, <1>6, <1>7, <1>8 DEF Sound, X

\* ... and queues its write.
LEMMA QueuedSound ==
  ASSUME NEW t, NEW w, NEW f, NEW K, NEW k \in Content, NEW b \in Buffers,
         Sound(t, w, f, K, Only(k)), k \in DOMAIN t.pending, t.pending[k] = b,
         NEW u, u = Queued(t, k, b)
  PROVE  Sound(u, w, f, K, {}) /\ u.bytes = t.bytes /\ u.candidates = t.candidates
<1> DEFINE o == Op("state", k, b)
           n == Len(t.queue)
           X == Only(k)
<1>0. \A x : x \in X <=> x = k
  BY DEF Only
<1>1. t \in Tiers /\ t.queue \in Seq(Ops) /\ n \in Nat
  BY QueueFacts DEF Sound
<1>2. o \in Ops /\ o.kind = "state" /\ o.key = k /\ o.stash = b
  BY OpFacts DEF Op
<1>3. Writes(t, w, X) /\ Pooled(t, K) /\ Images(t, f, w)
  BY DEF Sound
<1>4. /\ u.pending = t.pending /\ u.queue = Append(t.queue, o)
      /\ u.bytes = t.bytes /\ u.candidates = t.candidates /\ u.deferred = t.deferred
      /\ u.pool = t.pool /\ u = [t EXCEPT !.queue = Append(t.queue, o)]
  BY <1>1 DEF Tiers, Queued
<1> HIDE DEF o, X
<1>5. /\ u.queue \in Seq(Ops) /\ Len(u.queue) = n + 1 /\ u.queue[n + 1] = o
      /\ \A i \in 1..n : u.queue[i] = t.queue[i]
  BY <1>1, <1>2, <1>4, AppendProperties
<1>6. u \in Tiers
  BY <1>1, <1>4, <1>5 DEF Tiers
<1> DEFINE Q == 1..n
           R == 1..Len(u.queue)
<1>7. /\ \A i \in R : i \in Q \/ i = n + 1
      /\ Q \subseteq R /\ n + 1 \in R /\ n + 1 \notin Q
  BY <1>1, <1>5
<1>8. ~ InHand(w, "state", k) /\ \A i \in Q : t.queue[i].kind = "state" => t.queue[i].key # k
  BY <1>0, <1>3 DEF Writes
<1> HIDE DEF n, Q, R
<1>9. Writes(u, w, {})
  <2>2. ASSUME NEW x \in DOMAIN u.pending
        PROVE  \/ \E i \in R : u.queue[i].kind = "state" /\ u.queue[i].key = x
               \/ InHand(w, "state", x)
    <3>1. CASE x = k
      BY <1>2, <1>5, <1>7, <3>1
    <3>2. CASE x # k
      <4>1. \/ \E i \in Q : t.queue[i].kind = "state" /\ t.queue[i].key = x
            \/ InHand(w, "state", x)
        BY <1>0, <1>3, <1>4, <2>2, <3>2 DEF Writes, Q, n
      <4>. QED BY <1>5, <1>7, <4>1 DEF Q
    <3>. QED BY <3>1, <3>2
  <2>3. ASSUME NEW i \in R, u.queue[i].kind = "state"
        PROVE  /\ u.queue[i].key \in DOMAIN u.pending
               /\ u.queue[i].stash = u.pending[u.queue[i].key]
               /\ ~ InHand(w, "state", u.queue[i].key)
    <3>1. CASE i \in Q
      <4>1. u.queue[i] = t.queue[i]
        BY <1>5, <3>1 DEF Q
      <4>2. /\ t.queue[i].key \in DOMAIN t.pending /\ t.queue[i].stash = t.pending[t.queue[i].key]
            /\ ~ InHand(w, "state", t.queue[i].key)
        BY <1>3, <2>3, <3>1, <4>1 DEF Writes, Q, n
      <4>. QED BY <1>4, <4>1, <4>2
    <3>2. CASE i = n + 1
      BY <1>2, <1>4, <1>5, <1>8, <3>2
    <3>. QED BY <1>7, <3>1, <3>2
  <2>4. ASSUME NEW x \in Content, InHand(w, "state", x)
        PROVE  x \in DOMAIN u.pending /\ w.op.stash = u.pending[x]
    BY <1>3, <1>4, <2>4 DEF Writes
  <2>5. ASSUME NEW i \in R, NEW j \in R, u.queue[i].kind = "state", u.queue[j].kind = "state",
               u.queue[i].key = u.queue[j].key
        PROVE  i = j
    <3>1. CASE i \in Q /\ j \in Q
      <4>1. t.queue[i].kind = "state" /\ t.queue[j].kind = "state" /\ t.queue[i].key = t.queue[j].key
        BY <1>5, <2>5, <3>1 DEF Q
      <4>. QED BY <1>3, <3>1, <4>1 DEF Writes, Q, n
    <3>2. \A x \in Q : u.queue[x].kind = "state" => u.queue[x].key # k
      BY <1>5, <1>8 DEF Q
    <3>3. u.queue[n + 1].key = k
      BY <1>2, <1>5
    <3>. QED BY <1>7, <2>5, <3>1, <3>2, <3>3
  <2>. QED BY <2>2, <2>3, <2>4, <2>5 DEF Writes, R
<1>10. Pooled(u, K) /\ Images(u, f, w)
  BY <1>3, <1>4 DEF Pooled, Images
<1>. QED BY <1>4, <1>6, <1>9, <1>10 DEF Sound

LEMMA WritePageSound ==
  ASSUME NEW t, NEW w, NEW f, NEW K, Sound(t, w, f, K, {}), NEW k \in Content,
         NEW u \in WritePage(t, k)
  PROVE  Sound(u, w, f, K, {}) /\ u.bytes = t.bytes /\ u.candidates = t.candidates
<1>1. CASE u = t
  BY <1>1
<1>2. ASSUME NEW v \in MakeRoom(t),
             u = [v EXCEPT !.pendingPages = v.pendingPages \cup {k},
                           !.queue = Append(v.queue, Op("page", k, None))]
      PROVE  Sound(u, w, f, K, {}) /\ u.bytes = t.bytes /\ u.candidates = t.candidates
  <2> DEFINE o == Op("page", k, None)
             n == Len(v.queue)
  <2>1. Sound(v, w, f, K, {}) /\ Alike(t, v)
    BY MakeRoomSound
  <2>2. v \in Tiers /\ v.queue \in Seq(Ops) /\ n \in Nat
    BY <2>1, QueueFacts DEF Sound
  <2>3. o \in Ops /\ o.kind = "page"
    BY OpFacts DEF Op
  <2>4. /\ u.queue = Append(v.queue, o) /\ Alike(v, u)
    BY <1>2, <2>2 DEF Tiers, Alike
  <2> HIDE DEF o
  <2>5. /\ u.queue \in Seq(Ops) /\ Len(u.queue) = n + 1 /\ u.queue[n + 1] = o
        /\ \A i \in 1..n : u.queue[i] = v.queue[i]
    BY <2>2, <2>3, <2>4, AppendProperties
  <2>6. u \in Tiers
    BY <1>2, <2>2, <2>4, <2>5 DEF Tiers
  <2>7. \A i \in 1..Len(u.queue) : u.queue[i].kind # "page" => i \in 1..n /\ u.queue[i] = v.queue[i]
    BY <2>2, <2>3, <2>5
  <2>8. 1..n \subseteq 1..Len(u.queue)
    BY <2>2, <2>5
  <2>9. Writes(u, w, {})
    <3>1. \A x \in DOMAIN u.pending :
            \/ \E i \in 1..Len(u.queue) : u.queue[i].kind = "state" /\ u.queue[i].key = x
            \/ InHand(w, "state", x)
      <4>1. \A x \in DOMAIN v.pending :
              \/ \E i \in 1..n : v.queue[i].kind = "state" /\ v.queue[i].key = x
              \/ InHand(w, "state", x)
        BY <2>1 DEF Sound, Writes
      <4>. QED BY <2>4, <2>5, <2>8, <4>1 DEF Alike
    <3>2. ASSUME NEW i \in 1..Len(u.queue), u.queue[i].kind = "state"
          PROVE  /\ u.queue[i].key \in DOMAIN u.pending
                 /\ u.queue[i].stash = u.pending[u.queue[i].key]
                 /\ ~ InHand(w, "state", u.queue[i].key)
      BY <2>1, <2>4, <2>7, <3>2 DEF Sound, Writes, Alike
    <3>3. ASSUME NEW i \in 1..Len(u.queue), NEW j \in 1..Len(u.queue), u.queue[i].kind = "state",
                 u.queue[j].kind = "state", u.queue[i].key = u.queue[j].key
          PROVE  i = j
      BY SMTT(30), <2>1, <2>7, <3>3 DEF Sound, Writes
    <3>. QED BY SMTT(30), <2>1, <2>4, <3>1, <3>2, <3>3 DEF Sound, Writes, Alike
  <2>11. Pooled(u, K)
    BY <2>1, <2>4 DEF Sound, Pooled, Alike
  <2>12. Images(u, f, w)
    BY <2>1, <2>4 DEF Sound, Images, Alike
  <2>. QED BY <2>1, <2>4, <2>6, <2>9, <2>11, <2>12 DEF Sound, Alike
<1>3. \/ u = t
      \/ \E v \in MakeRoom(t) : u = [v EXCEPT !.pendingPages = v.pendingPages \cup {k},
                                              !.queue = Append(v.queue, Op("page", k, None))]
  BY DEF WritePage
<1>. QED BY <1>1, <1>2, <1>3

\* A buffer returns to the pool.
LEMMA GiveFacts ==
  ASSUME NEW t \in Tiers, NEW b \in Buffers
  PROVE  /\ Give(t, b) \in Tiers
         /\ \A c \in Buffers : c # b => Give(t, b).bytes[c] = t.bytes[c]
         /\ Len(Give(t, b).pool) = Len(t.pool) + 1
         /\ \A i \in 1..Len(t.pool) : Give(t, b).pool[i] = t.pool[i]
         /\ Give(t, b).pool[Len(t.pool) + 1] = b
         /\ Give(t, b).states = t.states /\ Give(t, b).pending = t.pending
         /\ Give(t, b).candidates = t.candidates /\ Give(t, b).queue = t.queue
         /\ Give(t, b).deferred = t.deferred
<1> DEFINE u == Give(t, b)
<1>1. t.pool \in Seq(Buffers) /\ t.bytes \in [Buffers -> Keys \cup {None}]
  BY DEF Tiers
<1>2. /\ u = [t EXCEPT !.pool = Append(t.pool, b), !.bytes = [t.bytes EXCEPT ![b] = None]]
      /\ u.pool = Append(t.pool, b) /\ u.bytes = [t.bytes EXCEPT ![b] = None]
      /\ u.states = t.states /\ u.pending = t.pending /\ u.candidates = t.candidates
      /\ u.queue = t.queue /\ u.deferred = t.deferred
  BY DEF Give, Tiers
<1>3. /\ Append(t.pool, b) \in Seq(Buffers) /\ Len(Append(t.pool, b)) = Len(t.pool) + 1
      /\ \A i \in 1..Len(t.pool) : Append(t.pool, b)[i] = t.pool[i]
      /\ Append(t.pool, b)[Len(t.pool) + 1] = b
  BY <1>1, AppendProperties
<1>4. u.bytes \in [Buffers -> Keys \cup {None}] /\ \A c \in Buffers : c # b => u.bytes[c] = t.bytes[c]
  BY <1>1, <1>2
<1> HIDE DEF u
<1>5. u \in Tiers
  BY <1>2, <1>3, <1>4 DEF Tiers
<1>. QED BY <1>2, <1>3, <1>4, <1>5 DEF u

\* That nobody refers to any more.
LEMMA GivePooled ==
  ASSUME NEW t \in Tiers, NEW K, Pooled(t, K), NEW b \in Buffers,
         b \notin K, b \notin Range(t.pending), \A i \in 1..Len(t.pool) : t.pool[i] # b
  PROVE  Pooled(Give(t, b), K)
<1> DEFINE u == Give(t, b)
           n == Len(t.pool)
<1>1. /\ Len(u.pool) = n + 1 /\ \A i \in 1..n : u.pool[i] = t.pool[i]
      /\ u.pool[n + 1] = b
      /\ u.pending = t.pending /\ u.candidates = t.candidates /\ u.deferred = t.deferred
  BY GiveFacts
<1>2. n \in Nat
  BY QueueFacts
<1>3. \A i \in 1..Len(u.pool) : i \in 1..n \/ i = n + 1
  BY <1>1, <1>2
<1> HIDE DEF u, n
<1>4. Distinct(u.pool)
  <2>1. \A i, j \in 1..n : t.pool[i] = t.pool[j] => i = j
    BY DEF Pooled, Distinct, n
  <2>2. \A i \in 1..n : t.pool[i] # b
    BY DEF n
  <2>. QED BY <1>1, <1>3, <2>1, <2>2 DEF Distinct
<1>5. \A i \in 1..Len(u.pool) : u.pool[i] \notin K \cup Range(u.pending)
  BY <1>1, <1>3 DEF Pooled, n
<1>6. Pooled(u, K)
  BY <1>1, <1>4, <1>5 DEF Pooled
<1>. QED BY <1>6 DEF u

\* A buffer that stays, or is no longer anybody's, keeps the images of the others.
LEMMA ImagesKept ==
  ASSUME NEW t \in Tiers, NEW u \in Tiers, NEW w, NEW f, NEW K, Pooled(t, K), Images(t, f, w),
         u.candidates = t.candidates,
         \A x \in DOMAIN u.pending : x \in DOMAIN t.pending /\ u.pending[x] = t.pending[x],
         \A c \in Buffers : c \in K \cup Range(u.pending) => u.bytes[c] = t.bytes[c]
  PROVE  Images(u, f, w)
<1>1. \A x \in DOMAIN u.pending : u.bytes[u.pending[x]] = Final(x)
  <2>. TAKE x \in DOMAIN u.pending
  <2>1. u.pending[x] \in Buffers /\ u.pending[x] \in Range(u.pending)
    BY QueueFacts, MapFacts
  <2>. QED BY <2>1 DEF Images
<1>2. \A x \in DOMAIN u.candidates : u.bytes[u.candidates[x]] = Final(x)
  <2>. TAKE x \in DOMAIN u.candidates
  <2>1. t.candidates[x] \in Buffers /\ t.candidates[x] \in Range(t.candidates)
    BY QueueFacts, MapFacts
  <2>. QED BY <2>1 DEF Images, Pooled
<1>. QED BY <1>1, <1>2 DEF Images

\* What the cache and the main thread count on: the buffers in K are as they were, and
\* nobody became a candidate.
Unhurt(t, u, K) ==
    /\ \A b \in Buffers : b \in K => u.bytes[b] = t.bytes[b]
    /\ Range(u.candidates) \subseteq Range(t.candidates)

\* What write_state() counts on: nobody reserves a key in between, or takes back the write
\* it has reserved.
Retained(t, u, X) ==
    /\ DOMAIN u.pending \subseteq DOMAIN t.pending
    /\ \A k \in X : k \in DOMAIN t.pending => k \in DOMAIN u.pending /\ u.pending[k] = t.pending[k]

\* The write of key k has left the queue, or the writer's hand: the pending reference
\* goes, and with the last one the deferred release runs.
LEMMA StateWrittenSound ==
  ASSUME NEW t \in Tiers, NEW w, NEW f, NEW K, NEW k, NEW X, k \notin X,
         Writes(t, w, X \cup Only(k)), Pooled(t, K), Images(t, f, w)
  PROVE  /\ Sound(StateWritten(t, k), w, f, K, X) /\ Unhurt(t, StateWritten(t, k), K)
         /\ Retained(t, StateWritten(t, k), X)
<1> DEFINE u == StateWritten(t, k)
           Z == Only(k)
<1>0. \A x : x \in Z <=> x = k
  BY DEF Only
<1> HIDE DEF Z
<1>1. t.pending \in Maps
  BY DEF Tiers
<1>2. CASE k \notin DOMAIN t.pending
  <2>1. u = t /\ DOMAIN t.pending \ (X \cup Z) = DOMAIN t.pending \ X
    BY <1>0, <1>2 DEF StateWritten
  <2>2. Writes(t, w, X)
    BY <2>1 DEF Writes, Z
  <2>. QED BY <2>1, <2>2 DEF Sound, Unhurt, Retained
<1>3. CASE k \in DOMAIN t.pending
  <2> DEFINE b == t.pending[k]
             p == Forget(t.pending, k)
             v == [t EXCEPT !.pending = p]
             x == [v EXCEPT !.deferred = t.deferred \ {b}]
  <2>1. /\ p \in Maps /\ DOMAIN p = DOMAIN t.pending \ Z
        /\ \A y \in DOMAIN t.pending : y # k => p[y] = t.pending[y]
        /\ Range(p) \subseteq Range(t.pending)
        /\ \A c : c \in Range(p) <=> \E y \in DOMAIN t.pending : y # k /\ t.pending[y] = c
    <3>1. ASSUME NEW m \in Maps
          PROVE  /\ Forget(m, k) \in Maps /\ DOMAIN Forget(m, k) = DOMAIN m \ {k}
                 /\ \A z \in DOMAIN m : z # k => Forget(m, k)[z] = m[z]
                 /\ Range(Forget(m, k)) \subseteq Range(m)
                 /\ \A c : c \in Range(Forget(m, k)) <=> \E z \in DOMAIN m : z # k /\ m[z] = c
      <4>1. /\ Forget(m, k) \in Maps /\ DOMAIN Forget(m, k) = DOMAIN m \ {k}
            /\ \A z \in DOMAIN m : z # k => Forget(m, k)[z] = m[z]
            /\ Range(Forget(m, k)) \subseteq Range(m)
        BY ForgetFacts
      <4>2. \A c : c \in Range(Forget(m, k)) <=> \E z \in DOMAIN m : z # k /\ m[z] = c
        BY <4>1 DEF Range
      <4>. QED BY <4>1, <4>2
    <3>2. DOMAIN t.pending \ Z = DOMAIN t.pending \ {k}
      BY <1>0
    <3>. QED BY <1>1, <3>1, <3>2
  <2>2. b \in Buffers /\ b \in Range(t.pending)
    BY <1>1, <1>3, MapFacts
  <2>3. \A c \in t.deferred : c = b \/ c \in Range(p)
    <3>. TAKE c \in t.deferred
    <3>1. PICK y \in DOMAIN t.pending : t.pending[y] = c
      BY <1>1, MapFacts DEF Pooled
    <3>. QED BY <2>1, <3>1
  <2>4. /\ b \in Range(p) \/ b \notin t.deferred => u = v
        /\ ~ (b \in Range(p) \/ b \notin t.deferred) => u = Give(x, b)
    BY <1>3 DEF StateWritten, Tiers
  <2> HIDE DEF p
  <2>5. /\ v \in Tiers /\ v.pool = t.pool /\ v.bytes = t.bytes
        /\ v.pending = p /\ v.candidates = t.candidates /\ v.queue = t.queue /\ v.deferred = t.deferred
    BY <2>1 DEF Tiers
  <2>6. /\ x \in Tiers /\ x.pool = t.pool /\ x.bytes = t.bytes
        /\ x.pending = p /\ x.candidates = t.candidates /\ x.queue = t.queue
        /\ x.deferred = t.deferred \ {b}
    BY <2>1 DEF Tiers
  <2> HIDE DEF v, x, u, b
  <2>7. /\ u \in Tiers /\ u.pending = p
        /\ u.candidates = t.candidates /\ u.queue = t.queue
        /\ Pooled(u, K)
        /\ \A c \in Buffers : c \in K \cup Range(p) => u.bytes[c] = t.bytes[c]
    <3>1. CASE b \in Range(p) \/ b \notin t.deferred
      <4>1. t.deferred \subseteq Range(p)
        BY <2>3, <3>1
      <4>2. Pooled(v, K)
        BY <2>1, <2>5, <4>1 DEF Pooled
      <4>. QED BY <2>4, <2>5, <3>1, <4>2
    <3>2. CASE ~ (b \in Range(p) \/ b \notin t.deferred)
      <4>1. b \notin K /\ b \notin Range(p) /\ \A i \in 1..Len(t.pool) : t.pool[i] # b
        BY <2>2, <3>2 DEF Pooled
      <4>2. Pooled(x, K)
        BY <2>1, <2>3, <2>6 DEF Pooled
      <4>3. Pooled(Give(x, b), K)
        BY <2>2, <2>6, <4>1, <4>2, GivePooled
      <4>4. /\ Give(x, b) \in Tiers
            /\ Give(x, b).pending = x.pending /\ Give(x, b).candidates = x.candidates
            /\ Give(x, b).queue = x.queue
            /\ \A c \in Buffers : c # b => Give(x, b).bytes[c] = x.bytes[c]
        BY <2>2, <2>6, GiveFacts
      <4>5. \A c \in Buffers : c \in K \cup Range(p) => c # b
        BY <4>1
      <4>. QED BY <2>4, <2>6, <3>2, <4>3, <4>4, <4>5
    <3>. QED BY <3>1, <3>2
  <2>8. Writes(u, w, X)
    <3>1. u.queue = t.queue /\ DOMAIN u.pending \ X = DOMAIN t.pending \ (X \cup Z)
      BY <2>1, <2>7
    <3>2. \A y \in DOMAIN t.pending \ (X \cup Z) : u.pending[y] = t.pending[y]
      BY <1>0, <2>1, <2>7
    <3>3. Writes(t, w, X \cup Z)
      BY DEF Z
    <3>. QED BY <3>1, <3>2, <3>3 DEF Writes
  <2>10. \A y \in DOMAIN u.pending : y \in DOMAIN t.pending /\ u.pending[y] = t.pending[y]
    <3>1. DOMAIN p = DOMAIN t.pending \ Z /\ u.pending = p
      BY <2>1, <2>7
    <3>2. \A y \in DOMAIN p : p[y] = t.pending[y]
      BY <1>0, <2>1
    <3>. QED BY <3>1, <3>2
  <2>11. Images(u, f, w)
    BY <2>7, <2>10, ImagesKept
  <2>12. Sound(u, w, f, K, X)
    BY <2>7, <2>8, <2>11 DEF Sound
  <2>13. Unhurt(t, u, K)
    BY <2>7 DEF Unhurt
  <2>14. Retained(t, u, X)
    BY <1>0, <2>1, <2>7 DEF Retained
  <2>. QED BY <2>12, <2>13, <2>14 DEF u
<1>. QED BY <1>2, <1>3

\* What lasts of a queue is part of it, and nothing but deletions.
LEMMA LastingFacts ==
  ASSUME NEW q \in Seq(Ops)
  PROVE  /\ Lasting(q) \in Seq(Ops)
         /\ \A i \in 1..Len(Lasting(q)) :
              /\ Lasting(q)[i].kind = "delete"
              /\ \E j \in 1..Len(q) : Lasting(q)[i] = q[j]
<1>1. DOMAIN q = 1..Len(q)
  BY LenProperties
<1>2. PICK stay \in SUBSET (1..Len(q)) : stay = {i \in DOMAIN q : q[i].kind = "delete"}
  BY <1>1
<1>3. Lasting(q) = Picked(q, stay) /\ \A i \in stay : i \in 1..Len(q) /\ q[i].kind = "delete"
  BY <1>2 DEF Lasting
<1>4. /\ Picked(q, stay) \in Seq(Ops) /\ Len(Picked(q, stay)) \in Nat
      /\ \E h : Picks(h, Picked(q, stay), q, stay)
  BY PickedFacts
<1>5. ASSUME NEW i \in 1..Len(Lasting(q))
      PROVE  Lasting(q)[i].kind = "delete" /\ \E j \in 1..Len(q) : Lasting(q)[i] = q[j]
  <2>1. PICK h : Picks(h, Lasting(q), q, stay)
    BY <1>3, <1>4
  <2>2. h[i] \in stay /\ Lasting(q)[i] = q[h[i]]
    BY <2>1 DEF Picks
  <2>. QED BY <1>3, <2>2
<1>. QED BY <1>3, <1>4, <1>5

\* A full disk, or the end of the tier, drops the queued writes: what remains pending is
\* in the writer's hand, and the deferred stashes nobody writes any more are free.
LEMMA DropWritesSound ==
  ASSUME NEW t, NEW w, NEW f, NEW K, NEW X, Sound(t, w, f, K, X)
  PROVE  /\ Sound(DropQueuedWrites(t), w, f, K, X)
         /\ DropQueuedWrites(t).candidates = t.candidates
         /\ \A c \in Buffers : c \in K => DropQueuedWrites(t).bytes[c] = t.bytes[c]
         /\ Retained(t, DropQueuedWrites(t), X)
<1> DEFINE q == t.queue
           S == {q[i].key : i \in {j \in DOMAIN q : q[j].kind = "state"}}
           P == {q[i].key : i \in {j \in DOMAIN q : q[j].kind = "page"}}
           rest == Restrict(t.pending, DOMAIN t.pending \ S)
           freed == t.deferred \ Range(rest)
           last == {i \in DOMAIN q : /\ q[i].kind = "state" /\ q[i].stash \in freed
                                     /\ \A j \in DOMAIN q : j > i /\ q[j].kind = "state" =>
                                          q[j].stash # q[i].stash}
           given == Picked(q, last)
           back == [i \in DOMAIN given |-> given[i].stash]
           blank == [b \in Buffers |-> IF b \in freed THEN None ELSE t.bytes[b]]
           u == DropQueuedWrites(t)
           old == t.pool
           n == Len(old)
<1>1. /\ t \in Tiers /\ q \in Seq(Ops) /\ Len(q) \in Nat /\ DOMAIN q = 1..Len(q)
      /\ t.pending \in Maps /\ old \in Seq(Buffers) /\ n \in Nat
      /\ \A i \in 1..Len(q) : q[i].kind = "state" => q[i].stash \in Buffers
  <2>1. t \in Tiers
    BY SMTT(30) DEF Sound
  <2>. QED BY <2>1, QueueFacts
<1>2. /\ u = [t EXCEPT !.pendingPages = t.pendingPages \ P, !.pending = rest, !.queue = Lasting(q),
                       !.deferred = t.deferred \ freed, !.pool = old \o back, !.bytes = blank]
      /\ u.candidates = t.candidates
      /\ u.pending = rest /\ u.queue = Lasting(q) /\ u.deferred = t.deferred \ freed
      /\ u.pool = old \o back /\ u.bytes = blank
  BY <1>1 DEF DropQueuedWrites, Tiers
<1>3. /\ rest \in Maps /\ DOMAIN rest = DOMAIN t.pending \ S
      /\ \A x \in DOMAIN t.pending \ S : rest[x] = t.pending[x]
      /\ Range(rest) \subseteq Range(t.pending)
  <2> HIDE DEF S
  <2>1. ASSUME NEW m \in Maps
        PROVE  /\ Restrict(m, DOMAIN m \ S) \in Maps /\ DOMAIN Restrict(m, DOMAIN m \ S) = DOMAIN m \ S
               /\ \A x \in DOMAIN m \ S : Restrict(m, DOMAIN m \ S)[x] = m[x]
               /\ Range(Restrict(m, DOMAIN m \ S)) \subseteq Range(m)
    BY RestrictFacts
  <2>. QED BY <1>1, <2>1
<1>4. /\ t.deferred \ freed \subseteq Range(rest) /\ freed \cap Range(rest) = {}
      /\ freed \subseteq t.deferred /\ freed \subseteq Range(t.pending) /\ freed \cap K = {}
  BY DEF Sound, Pooled
<1>5. \A x : x \in S <=> \E i \in 1..Len(q) : q[i].kind = "state" /\ q[i].key = x
  BY <1>1
<1>6. /\ last \in SUBSET (1..Len(q))
      /\ \A i \in last : q[i].kind = "state" /\ q[i].stash \in freed
      /\ \A i, j \in last : j > i => q[j].stash # q[i].stash
  BY <1>1
<1>7. blank \in [Buffers -> Keys \cup {None}] /\ \A b \in Buffers : b \notin freed => blank[b] = t.bytes[b]
  BY <1>1 DEF Tiers
<1> HIDE DEF S, P, rest, freed, last, given, blank, u, q, old, n
<1>8. /\ given \in Seq(Ops) /\ Len(given) \in Nat /\ DOMAIN given = 1..Len(given)
      /\ \E h : Picks(h, given, q, last)
  <2>1. /\ Picked(q, last) \in Seq(Ops) /\ Len(Picked(q, last)) \in Nat
        /\ \E h : Picks(h, Picked(q, last), q, last)
    BY <1>1, <1>6, PickedFacts
  <2>. QED BY <2>1, LenProperties DEF given
<1>a. PICK h : Picks(h, given, q, last)
  BY <1>8
<1>9. /\ h \in [1..Len(given) -> last] /\ \A i \in 1..Len(given) : given[i] = q[h[i]]
      /\ \A i, j \in 1..Len(given) : i < j => h[i] < h[j]
  BY <1>a DEF Picks
<1>10. ASSUME NEW i \in 1..Len(given)
       PROVE  back[i] = given[i].stash /\ back[i] \in Buffers /\ back[i] \in freed
  <2>1. h[i] \in last /\ given[i] = q[h[i]]
    BY <1>9
  <2>2. h[i] \in 1..Len(q) /\ q[h[i]].kind = "state" /\ q[h[i]].stash \in freed
    BY <1>6, <2>1
  <2>3. back[i] = given[i].stash
    BY <1>8
  <2>. QED BY <1>1, <2>1, <2>2, <2>3
<1>11. back \in Seq(Buffers) /\ Len(back) = Len(given)
  BY <1>8, <1>10
<1>12. \A i, j \in 1..Len(given) : back[i] = back[j] => i = j
  <2>1. \A i, j \in 1..Len(given) : i < j => back[i] # back[j]
    <3>1. ASSUME NEW i \in 1..Len(given), NEW j \in 1..Len(given), i < j
          PROVE  back[i] # back[j]
      <4>1. h[i] \in last /\ h[j] \in last /\ h[j] > h[i]
        BY <1>1, <1>6, <1>9, <3>1
      <4>2. q[h[j]].stash # q[h[i]].stash
        BY <1>6, <4>1
      <4>. QED BY <1>9, <1>10, <4>2
    <3>. QED BY <3>1
  <2>. QED BY <1>8, <2>1
<1> HIDE DEF back
<1>13. /\ old \o back \in Seq(Buffers)
       /\ Len(old \o back) = n + Len(given)
       /\ \A i \in 1..n + Len(given) :
            (old \o back)[i] = IF i <= n THEN old[i] ELSE back[i - n]
  <2>1. /\ old \o back \in Seq(Buffers) /\ Len(old \o back) = Len(old) + Len(back)
        /\ \A i \in 1..Len(old) + Len(back) :
             (old \o back)[i] = IF i <= Len(old) THEN old[i] ELSE back[i - Len(old)]
    BY <1>1, <1>11, ConcatProperties
  <2>. QED BY <1>11, <2>1 DEF n
<1>14. \A i \in 1..Len(u.pool) :
         \/ i \in 1..n /\ u.pool[i] = old[i]
         \/ i - n \in 1..Len(given) /\ u.pool[i] = back[i - n]
  <2>1. u.pool = old \o back /\ Len(u.pool) = n + Len(given)
    BY <1>2, <1>13
  <2>. TAKE i \in 1..Len(u.pool)
  <2>2. i \in 1..n \/ i - n \in 1..Len(given)
    BY <1>1, <1>8, <2>1
  <2>3. i \in 1..n + Len(given) /\ (i \in 1..n <=> i <= n)
    BY <1>1, <1>8, <2>1
  <2>4. u.pool[i] = IF i <= n THEN old[i] ELSE back[i - n]
    BY <1>13, <2>1, <2>3
  <2>. QED BY <2>2, <2>3, <2>4
<1>15. \A i \in 1..n : old[i] \notin K \cup Range(t.pending)
  BY DEF Sound, Pooled, n, old
<1>16. \A i \in 1..Len(u.pool) : u.pool[i] \notin K \cup Range(u.pending)
  BY <1>2, <1>3, <1>4, <1>10, <1>14, <1>15
<1>17. Distinct(u.pool)
  <2>1. Distinct(old)
    BY DEF Sound, Pooled, old
  <2>2. ASSUME NEW i \in 1..Len(u.pool), NEW j \in 1..Len(u.pool), u.pool[i] = u.pool[j]
        PROVE  i = j
    <3>1. i \in Nat /\ j \in Nat
      BY <1>2, <1>13
    <3>2. \A x \in 1..n : \A y \in 1..Len(given) : old[x] # back[y]
      BY <1>4, <1>10, <1>15
    <3>3. CASE i \in 1..n /\ u.pool[i] = old[i] /\ j \in 1..n /\ u.pool[j] = old[j]
      BY <2>1, <2>2, <3>3 DEF Distinct, n
    <3>4. CASE /\ i - n \in 1..Len(given) /\ u.pool[i] = back[i - n]
               /\ j - n \in 1..Len(given) /\ u.pool[j] = back[j - n]
      <4>1. i - n = j - n
        BY <1>12, <2>2, <3>4
      <4>. QED BY <1>1, <3>1, <4>1
    <3>. QED BY <1>14, <2>2, <3>2, <3>3, <3>4
  <2>. QED BY <2>2 DEF Distinct
<1>18. Lasting(q) \in Seq(Ops) /\ \A i \in 1..Len(Lasting(q)) :
         Lasting(q)[i].kind = "delete" /\ \E j \in 1..Len(q) : Lasting(q)[i] = q[j]
  BY <1>1, LastingFacts
<1>19. u \in Tiers
  BY <1>1, <1>2, <1>3, <1>7, <1>13, <1>18 DEF Tiers
<1>20. Pooled(u, K)
  <2>1. Range(t.candidates) \subseteq K /\ t.deferred \cap K = {}
    BY DEF Sound, Pooled
  <2>. QED BY <1>2, <1>4, <1>16, <1>17, <2>1 DEF Pooled
<1>21. /\ \A k \in S : k \in DOMAIN t.pending \ X
       /\ \A k \in DOMAIN t.pending \ X : k \in S \/ InHand(w, "state", k)
       /\ \A k \in Content : InHand(w, "state", k) =>
            k \in DOMAIN t.pending \ X /\ k \notin S /\ w.op.stash = t.pending[k]
  BY <1>5 DEF Sound, Writes, q
<1>22. Writes(u, w, X)
  <2>1. \A k \in DOMAIN u.pending \ X : InHand(w, "state", k)
    BY <1>2, <1>3, <1>21
  <2>2. \A k \in Content : InHand(w, "state", k) => k \in DOMAIN u.pending \ X /\ w.op.stash = u.pending[k]
    BY <1>2, <1>3, <1>21
  <2>3. \A i \in 1..Len(u.queue) : u.queue[i].kind # "state"
    BY <1>2, <1>18
  <2>. QED BY <2>1, <2>2, <2>3 DEF Writes
<1>23. Images(u, f, w)
  <2>1. \A x \in DOMAIN u.pending : x \in DOMAIN t.pending /\ u.pending[x] = t.pending[x]
    BY <1>2, <1>3
  <2>2. \A c \in Buffers : c \in K \cup Range(u.pending) => u.bytes[c] = t.bytes[c]
    BY <1>2, <1>4, <1>7
  <2>3. Pooled(t, K) /\ Images(t, f, w) /\ t \in Tiers /\ u.candidates = t.candidates
    BY <1>2 DEF Sound
  <2>. QED BY <1>19, <2>1, <2>2, <2>3, ImagesKept
<1>24. \A c \in Buffers : c \in K => u.bytes[c] = t.bytes[c]
  BY <1>2, <1>4, <1>7
<1>25. Retained(t, u, X)
  BY <1>2, <1>3, <1>21 DEF Retained
<1>. QED BY <1>2, <1>19, <1>20, <1>22, <1>23, <1>24, <1>25 DEF Sound, u

LEMMA WriteFailedSound ==
  ASSUME NEW t, NEW w, NEW f, NEW K, NEW X, Sound(t, w, f, K, X), NEW u \in WriteFailed(t)
  PROVE  Sound(u, w, f, K, X) /\ Unhurt(t, u, K) /\ Retained(t, u, X)
<1>1. CASE u = t
  BY <1>1 DEF Unhurt, Retained
<1>2. ASSUME NEW v \in Tiers, u = DropQueuedWrites(v), v.candidates = t.candidates,
             v.pool = t.pool, v.bytes = t.bytes, v.pending = t.pending,
             v.deferred = t.deferred, v.queue = t.queue
      PROVE  Sound(u, w, f, K, X) /\ Unhurt(t, u, K) /\ Retained(t, u, X)
  <2>1. Sound(v, w, f, K, X)
    BY <1>2, UnlistedSound
  <2>2. /\ Sound(u, w, f, K, X) /\ u.candidates = v.candidates
        /\ \A c \in Buffers : c \in K => u.bytes[c] = v.bytes[c]
        /\ Retained(v, u, X)
    BY <1>2, <2>1, DropWritesSound
  <2>. QED BY <1>2, <2>2 DEF Unhurt, Retained
<1>3. \/ u = t \/ u = DropQueuedWrites([t EXCEPT !.writes = "paused"])
      \/ u = DropQueuedWrites([t EXCEPT !.writes = "off"])
  BY DEF WriteFailed
<1>4. t \in Tiers
  BY DEF Sound
<1> DEFINE p == [t EXCEPT !.writes = "paused"]
           d == [t EXCEPT !.writes = "off"]
<1>5. /\ p \in Tiers /\ p.candidates = t.candidates
      /\ p.pool = t.pool /\ p.bytes = t.bytes /\ p.pending = t.pending
      /\ p.deferred = t.deferred /\ p.queue = t.queue
  BY <1>4 DEF Tiers
<1>6. /\ d \in Tiers /\ d.candidates = t.candidates
      /\ d.pool = t.pool /\ d.bytes = t.bytes /\ d.pending = t.pending
      /\ d.deferred = t.deferred /\ d.queue = t.queue
  BY <1>4 DEF Tiers
<1> HIDE DEF p, d
<1>7. u = t \/ u = DropQueuedWrites(p) \/ u = DropQueuedWrites(d)
  BY <1>3 DEF p, d
<1>. QED BY <1>1, <1>2, <1>5, <1>6, <1>7

\* write_state() at one go, as rekey_state() calls it with the lock held
LEMMA WriteStateSound ==
  ASSUME NEW t, NEW w, NEW f, NEW K, Sound(t, w, f, K, {}),
         NEW k \in Content, NEW b \in Buffers, b \in K, t.bytes[b] = Final(k),
         NEW u \in WriteState(t, k, b)
  PROVE  Sound(u, w, f, K, {}) /\ Unhurt(t, u, K)
<1>1. CASE u = t
  BY <1>1 DEF Unhurt
<1>2. ASSUME NEW r \in MakeRoom(t), k \notin DOMAIN t.pending, NEW v, v = Reserved(r, k, b)
      PROVE  /\ Sound(v, w, f, K, Only(k)) /\ k \in DOMAIN v.pending /\ v.pending[k] = b
             /\ v.bytes = t.bytes /\ v.candidates = t.candidates
  <2>1. Sound(r, w, f, K, {}) /\ Alike(t, r)
    BY MakeRoomSound
  <2>2. k \notin DOMAIN r.pending /\ r.bytes[b] = Final(k)
    BY <1>2, <2>1 DEF Alike
  <2>3. /\ Sound(v, w, f, K, Only(k)) /\ k \in DOMAIN v.pending /\ v.pending[k] = b
        /\ v.bytes = r.bytes /\ v.candidates = r.candidates
    BY <1>2, <2>1, <2>2, ReservedSound
  <2>. QED BY <2>1, <2>3 DEF Alike
<1>3. ASSUME NEW r \in MakeRoom(t), k \notin DOMAIN t.pending, u = Queued(Reserved(r, k, b), k, b)
      PROVE  Sound(u, w, f, K, {}) /\ Unhurt(t, u, K)
  <2>1. PICK v : v = Reserved(r, k, b)
    OBVIOUS
  <2>2. /\ Sound(v, w, f, K, Only(k)) /\ k \in DOMAIN v.pending /\ v.pending[k] = b
        /\ v.bytes = t.bytes /\ v.candidates = t.candidates
    BY <1>2, <1>3, <2>1
  <2>3. u = Queued(v, k, b)
    BY <1>3, <2>1
  <2>4. Sound(u, w, f, K, {}) /\ u.bytes = v.bytes /\ u.candidates = v.candidates
    BY <2>2, <2>3, QueuedSound
  <2>. QED BY <2>2, <2>4 DEF Unhurt
<1>4. ASSUME NEW r \in MakeRoom(t), k \notin DOMAIN t.pending,
             u \in WriteFailed(StateWritten(Reserved(r, k, b), k))
      PROVE  Sound(u, w, f, K, {}) /\ Unhurt(t, u, K)
  <2>1. PICK v : v = Reserved(r, k, b)
    OBVIOUS
  <2>2. PICK s : s = StateWritten(v, k)
    OBVIOUS
  <2>3. Sound(v, w, f, K, Only(k)) /\ v.bytes = t.bytes /\ v.candidates = t.candidates
    BY <1>2, <1>4, <2>1
  <2>4. v \in Tiers /\ Writes(v, w, {} \cup Only(k)) /\ Pooled(v, K) /\ Images(v, f, w)
    <3>1. {} \cup Only(k) = Only(k)
      OBVIOUS
    <3>. QED BY <2>3, <3>1 DEF Sound
  <2>5. Sound(s, w, f, K, {}) /\ Unhurt(v, s, K)
    BY <2>2, <2>4, StateWrittenSound
  <2>6. u \in WriteFailed(s)
    BY <1>4, <2>1, <2>2
  <2>7. Sound(u, w, f, K, {}) /\ Unhurt(s, u, K)
    BY <2>5, <2>6, WriteFailedSound
  <2>. QED BY <2>3, <2>5, <2>7 DEF Unhurt
<1>5. \/ u = t
      \/ /\ k \notin DOMAIN t.pending
         /\ \E r \in MakeRoom(t) : \/ u = Queued(Reserved(r, k, b), k, b)
                                   \/ u \in WriteFailed(StateWritten(Reserved(r, k, b), k))
  BY DEF WriteState
<1>. QED BY <1>1, <1>3, <1>4, <1>5

\* Without the operations in S
Unqueued(t, S) == [t EXCEPT !.queue = Dropped(t.queue, S)]

\* A queued write may be taken back.
LEMMA UnqueuedSound ==
  ASSUME NEW t, NEW w, NEW f, NEW K, Sound(t, w, f, K, {}), NEW k,
         NEW S, S = {o \in ToSet(t.queue) : o.kind = "state" /\ o.key = k}, S # {}, NEW u, u = Unqueued(t, S)
  PROVE  Sound(StateWritten(u, k), w, f, K, {}) /\ Unhurt(t, StateWritten(u, k), K)
<1> DEFINE q == t.queue
           r == u.queue
           Q == 1..Len(q)
           R == 1..Len(r)
<1>1. t \in Tiers /\ q \in Seq(Ops)
  BY QueueFacts DEF Sound
<1>2. /\ r = Dropped(q, S) /\ u.pending = t.pending
      /\ u.bytes = t.bytes /\ u.pool = t.pool /\ u.candidates = t.candidates
      /\ u.deferred = t.deferred /\ u = [t EXCEPT !.queue = r]
  BY <1>1 DEF Tiers, Unqueued
<1>3. \A x \in Q : q[x] \in S <=> q[x].kind = "state" /\ q[x].key = k
  BY <1>1, InSequence
<1> HIDE DEF q, r
<1>4. Dropped(q, S) \in Seq(Ops) /\ \E h : Thins(h, Dropped(q, S), q, S)
  BY <1>1, DroppedFacts
<1>5. PICK h : Thins(h, r, q, S)
  BY <1>2, <1>4
<1>20. /\ h \in [R -> Q] /\ \A i \in R : r[i] = q[h[i]] /\ q[h[i]] \notin S
       /\ \A i, j \in R : i < j => h[i] < h[j]
  BY <1>5 DEF Thins
<1>21. \A x \in Q : q[x] \notin S => \E i \in R : h[i] = x
  BY <1>5 DEF Thins
<1>6. u \in Tiers
  BY <1>1, <1>2, <1>4 DEF Tiers, r, q
<1>7. PICK y \in Q : q[y] \in S
  <2>1. \A x : x \in ToSet(q) <=> \E i \in 1..Len(q) : q[i] = x
    BY <1>1, InSequence
  <2>. QED BY <2>1 DEF q
<1>8. \A i \in R : h[i] \in Q
  BY <1>20
<1>9. Len(q) \in Nat /\ Len(r) \in Nat
  BY <1>1, <1>2, <1>4, LenProperties
<1>10. \A i, j \in R : h[i] = h[j] => i = j
  BY <1>20, <1>8, <1>9
<1> HIDE DEF Q, R
<1>12. \A i \in R : r[i].kind = "state" => r[i].key # k
  BY <1>3, <1>8, <1>20
<1>13. ~ InHand(w, "state", k)
  BY <1>3, <1>7 DEF Sound, Writes, Q, q
<1>14. ASSUME NEW X, \A x : x \in X <=> x = k
       PROVE  Writes(u, w, X)
  <2>2. ASSUME NEW x \in DOMAIN u.pending \ X
        PROVE  \/ \E i \in R : r[i].kind = "state" /\ r[i].key = x
               \/ InHand(w, "state", x)
    <3>1. x # k /\ x \in DOMAIN t.pending
      BY <1>2, <1>14
    <3>2. \/ \E i \in Q : q[i].kind = "state" /\ q[i].key = x
          \/ InHand(w, "state", x)
      BY <3>1 DEF Sound, Writes, Q, q
    <3>. QED BY <1>3, <1>21, <1>20, <3>1, <3>2
  <2>3. ASSUME NEW i \in R, r[i].kind = "state"
        PROVE  /\ r[i].key \in DOMAIN u.pending \ X /\ r[i].stash = u.pending[r[i].key]
               /\ ~ InHand(w, "state", r[i].key)
    <3>1. q[h[i]].kind = "state" /\ q[h[i]] = r[i] /\ h[i] \in Q
      BY <1>20, <1>8, <2>3
    <3>2. /\ q[h[i]].key \in DOMAIN t.pending /\ q[h[i]].stash = t.pending[q[h[i]].key]
          /\ ~ InHand(w, "state", q[h[i]].key)
      BY <3>1 DEF Sound, Writes, Q, q
    <3>3. r[i].key # k
      BY <1>12, <2>3
    <3>. QED BY <1>2, <1>14, <3>1, <3>2, <3>3
  <2>4. ASSUME NEW x \in Content, InHand(w, "state", x)
        PROVE  x \in DOMAIN u.pending \ X /\ w.op.stash = u.pending[x]
    BY <1>2, <1>13, <1>14, <2>4 DEF Sound, Writes
  <2>5. ASSUME NEW i \in R, NEW j \in R, r[i].kind = "state", r[j].kind = "state", r[i].key = r[j].key
        PROVE  i = j
    <3>1. /\ q[h[i]].kind = "state" /\ q[h[j]].kind = "state" /\ q[h[i]].key = q[h[j]].key
          /\ h[i] \in Q /\ h[j] \in Q
      BY <1>20, <1>8, <2>5
    <3>2. \A a, c \in Q : q[a].kind = "state" /\ q[c].kind = "state" /\ q[a].key = q[c].key => a = c
      BY DEF Sound, Writes, Q, q
    <3>3. h[i] = h[j]
      BY <3>1, <3>2
    <3>. QED BY <1>10, <3>3
  <2>6. /\ \A x \in DOMAIN u.pending \ X : \/ \E i \in R : r[i].kind = "state" /\ r[i].key = x
                                          \/ InHand(w, "state", x)
        /\ \A i \in R : r[i].kind = "state" =>
             /\ r[i].key \in DOMAIN u.pending \ X /\ r[i].stash = u.pending[r[i].key]
             /\ ~ InHand(w, "state", r[i].key)
    BY <2>2, <2>3
  <2>7. \A x \in Content : InHand(w, "state", x) =>
          x \in DOMAIN u.pending \ X /\ w.op.stash = u.pending[x]
    BY <2>4
  <2>8. \A i, j \in R : r[i].kind = "state" /\ r[j].kind = "state" /\ r[i].key = r[j].key => i = j
    BY <2>5
  <2>. QED BY <2>6, <2>7, <2>8 DEF Writes, R, r
<1>16. Pooled(u, K) /\ Images(u, f, w)
  BY <1>2 DEF Sound, Pooled, Images
<1>17. Sound(StateWritten(u, k), w, f, K, {}) /\ Unhurt(u, StateWritten(u, k), K)
  <2>1. Writes(u, w, {} \cup Only(k))
    BY <1>14 DEF Only
  <2>2. Pooled(u, K) /\ Images(u, f, w) /\ u \in Tiers
    BY <1>6, <1>16
  <2>. QED BY <2>1, <2>2, StateWrittenSound
<1>. QED BY <1>2, <1>17 DEF Unhurt

\* A checkpoint changes its name for one of the same page, with its write or as a candidate.
LEMMA ReplaceWriteSound ==
  ASSUME NEW t, NEW w, NEW f, NEW K, Sound(t, w, f, K, {}), NEW old, NEW new \in Content,
         NEW b \in Buffers, b \in K, t.bytes[b] = Final(new), NEW u \in ReplaceWrite(t, old, new, b)
  PROVE  Sound(u, w, f, K, {}) /\ Unhurt(t, u, K)
<1> DEFINE olds(v) == {o \in ToSet(v.queue) : o.kind = "state" /\ o.key = old}
<1>1. PICK v \in WriteState(t, new, b) :
        u = IF olds(v) = {} THEN v ELSE StateWritten([v EXCEPT !.queue = Dropped(v.queue, olds(v))], old)
  BY DEF ReplaceWrite
<1>2. Sound(v, w, f, K, {}) /\ Unhurt(t, v, K)
  BY WriteStateSound
<1>3. CASE olds(v) = {}
  BY <1>1, <1>2, <1>3
<1>4. CASE olds(v) # {}
  <2>1. Sound(u, w, f, K, {}) /\ Unhurt(v, u, K)
    <3>1. PICK S : S = olds(v)
      OBVIOUS
    <3>2. u = StateWritten(Unqueued(v, S), old)
      BY <1>1, <1>4, <3>1 DEF Unqueued
    <3>3. S # {} /\ S = {o \in ToSet(v.queue) : o.kind = "state" /\ o.key = old}
      BY <1>4, <3>1
    <3>4. PICK q : q = Unqueued(v, S)
      OBVIOUS
    <3>5. Sound(StateWritten(q, old), w, f, K, {}) /\ Unhurt(v, StateWritten(q, old), K)
      BY <1>2, <3>3, <3>4, UnqueuedSound
    <3>. QED BY <3>2, <3>4, <3>5
  <2>. QED BY <1>2, <2>1 DEF Unhurt
<1>. QED BY <1>3, <1>4

LEMMA RenamedSound ==
  ASSUME NEW t, NEW w, NEW f, NEW K, Sound(t, w, f, K, {}),
         NEW old \in DOMAIN t.candidates, NEW new \in Content, Final(old) = Final(new), NEW u,
         u = [t EXCEPT !.candidates = Bind(Forget(t.candidates, old), new, t.candidates[old])]
  PROVE  Sound(u, w, f, K, {}) /\ Unhurt(t, u, K)
<1> DEFINE c == t.candidates
           a == Forget(c, old)
           e == c[old]
           d == Bind(a, new, e)
<1>1. u = [t EXCEPT !.candidates = d]
  OBVIOUS
<1>2. t \in Tiers /\ c \in Maps
  BY QueueFacts DEF Sound
<1>3. c[old] \in Buffers /\ \A k \in DOMAIN c : c[k] \in Range(c)
  BY <1>2, MapFacts
<1> HIDE DEF c
<1>4. /\ a \in Maps /\ DOMAIN a = DOMAIN c \ {old}
      /\ \A x \in DOMAIN c : x # old => a[x] = c[x]
  BY ZenonT(30), <1>2, ForgetFacts
<1> HIDE DEF a, e
<1>5. /\ d \in Maps /\ DOMAIN d = DOMAIN a \cup {new} /\ d[new] = c[old]
      /\ \A x \in DOMAIN a : x # new => d[x] = a[x]
  <2>1. ASSUME NEW m \in Maps, NEW y \in Buffers
        PROVE  /\ Bind(m, new, y) \in Maps /\ DOMAIN Bind(m, new, y) = DOMAIN m \cup {new}
               /\ Bind(m, new, y)[new] = y
               /\ \A x \in DOMAIN m : x # new => Bind(m, new, y)[x] = m[x]
    <3>1. Bind(m, new, y) \in Maps
      BY BindFacts
    <3>. QED BY <3>1 DEF Bind
  <2>. QED BY <1>3, <1>4, <2>1 DEF e
<1> HIDE DEF d
<1>6. \A x \in DOMAIN d : x = new \/ (x \in DOMAIN c /\ x # old /\ d[x] = c[x])
  BY <1>4, <1>5
<1>7. /\ u \in Tiers /\ u.candidates = d
      /\ u.pool = t.pool /\ u.bytes = t.bytes /\ u.states = t.states /\ u.pending = t.pending
      /\ u.deferred = t.deferred /\ u.queue = t.queue
  BY <1>1, <1>2, <1>5 DEF Tiers
<1>8. \A x \in DOMAIN d : d[x] \in Range(c) /\ t.bytes[d[x]] = Final(x)
  BY <1>3, <1>5, <1>6 DEF Sound, Images, c
<1>9. \A x \in DOMAIN u.candidates : u.candidates[x] \in K /\ t.bytes[u.candidates[x]] = Final(x)
  BY <1>7, <1>8 DEF Sound, Pooled, c
<1>10. Sound(u, w, f, K, {})
  BY <1>7, <1>9, CandidatesSound
<1>11. Range(u.candidates) \subseteq Range(t.candidates)
  BY <1>5, <1>7, <1>8, MapFacts DEF c
<1>. QED BY <1>7, <1>10, <1>11 DEF Unhurt

\* A buffer that nobody refers to is filled, and a buffer nobody needs is given back, now or
\* when the last write of it is done.
LEMMA SettleSound ==
  ASSUME NEW t, NEW w, NEW f, NEW K, NEW L, Sound(t, w, f, K, {}), NEW b \in Buffers, b \in K,
         L \subseteq K, b \notin L, Range(t.candidates) \subseteq L
  PROVE  Sound(Settle(t, b), w, f, L, {}) /\ Unhurt(t, Settle(t, b), L)
<1>1. t \in Tiers /\ t.deferred \subseteq Buffers
  BY DEF Sound, Tiers
<1>2. Sound(t, w, f, L, {})
  BY KeptSound
<1>3. CASE b \in Range(t.pending)
  <2> DEFINE u == [t EXCEPT !.deferred = t.deferred \cup {b}]
  <2>1. /\ u \in Tiers /\ u.candidates = t.candidates /\ u.pool = t.pool /\ u.bytes = t.bytes
        /\ u.states = t.states /\ u.pending = t.pending /\ u.queue = t.queue
        /\ u.deferred = t.deferred \cup {b}
    BY <1>1 DEF Tiers
  <2> HIDE DEF u
  <2>2. Pooled(u, L)
    BY <1>2, <1>3, <2>1 DEF Sound, Pooled
  <2>3. Writes(u, w, {}) /\ Images(u, f, w)
    BY <1>2, <2>1 DEF Sound, Writes, Images
  <2>4. Settle(t, b) = u
    BY <1>3 DEF Settle, u
  <2>. QED BY <2>1, <2>2, <2>3, <2>4 DEF Sound, Unhurt
<1>4. CASE b \notin Range(t.pending)
  <2> DEFINE u == Give(t, b)
  <2>1. /\ u \in Tiers
        /\ \A c \in Buffers : c # b => u.bytes[c] = t.bytes[c]
        /\ u.states = t.states /\ u.pending = t.pending
        /\ u.candidates = t.candidates /\ u.queue = t.queue /\ u.deferred = t.deferred
    BY <1>1, GiveFacts
  <2>2. Pooled(t, L) /\ \A i \in 1..Len(t.pool) : t.pool[i] # b
    BY <1>2 DEF Sound, Pooled
  <2>3. Pooled(u, L)
    BY <1>1, <1>4, <2>2, GivePooled
  <2> HIDE DEF u
  <2>4. Writes(u, w, {})
    BY <1>2, <2>1 DEF Sound, Writes
  <2>5. \A c \in Buffers : c \in L \cup Range(u.pending) => u.bytes[c] = t.bytes[c]
    BY <1>4, <2>1
  <2>6. Images(u, f, w)
    <3>1. Images(t, f, w)
      BY DEF Sound
    <3>2. \A x \in DOMAIN u.pending : x \in DOMAIN t.pending /\ u.pending[x] = t.pending[x]
      BY <2>1
    <3>. QED BY <1>1, <2>1, <2>2, <2>5, <3>1, <3>2, ImagesKept
  <2>7. Settle(t, b) = u
    BY <1>4 DEF Settle, u
  <2>. QED BY <2>1, <2>3, <2>4, <2>5, <2>6, <2>7 DEF Sound, Unhurt
<1>. QED BY <1>3, <1>4

-----------------------------------------------------------------------------
(* The cache and the main thread.                                           *)

LEMMA StashFacts ==
  ASSUME NEW c \in Seq(Entries)
  PROVE  /\ Len(c) \in Nat /\ DOMAIN c = 1..Len(c)
         /\ \A i \in 1..Len(c) : /\ c[i] \in Entries /\ c[i].key \in Keys /\ c[i].stash \in Buffers
                                 /\ c[i].stash \in Stashes(c) /\ c[i] = Entry(c[i].key, c[i].stash)
         /\ \A b \in Stashes(c) : b \in Buffers /\ \E i \in 1..Len(c) : c[i].stash = b
<1>1. /\ Len(c) \in Nat /\ DOMAIN c = 1..Len(c) /\ \A i \in 1..Len(c) : c[i] \in Entries /\ c[i] \in ToSet(c)
      /\ \A x : x \in ToSet(c) => \E i \in 1..Len(c) : c[i] = x
  BY InSequence
<1>2. \A e \in Entries : e.key \in Keys /\ e.stash \in Buffers /\ e = Entry(e.key, e.stash)
  BY DEF Entries, Entry
<1>3. \A e \in ToSet(c) : e.stash \in Stashes(c)
  BY DEF Stashes
<1>4. \A b \in Stashes(c) : \E i \in 1..Len(c) : c[i].stash = b
  BY <1>1 DEF Stashes
<1>. QED BY <1>1, <1>2, <1>3, <1>4

LEMMA PlaceFacts ==
  ASSUME NEW m \in Places, NEW c
  PROVE  /\ m.release \in Seq(Buffers) /\ Len(m.release) \in Nat /\ m.offers \in SUBSET Content
         /\ \A i \in 1..Len(m.release) : m.release[i] \in Buffers /\ m.release[i] \in Kept(c, m)
         /\ m.stash # None => m.stash \in Buffers /\ m.stash \in Kept(c, m)
         /\ Stashes(c) \subseteq Kept(c, m)
         /\ \A b \in Kept(c, m) : b \in Stashes(c) \/ (b = m.stash /\ b # None)
                                  \/ \E i \in 1..Len(m.release) : m.release[i] = b
<1>1. m.release \in Seq(Buffers) /\ m.stash \in Buffers \cup {None} /\ m.offers \in SUBSET Content
  BY DEF Places
<1>2. /\ Len(m.release) \in Nat
      /\ \A i \in 1..Len(m.release) : m.release[i] \in Buffers /\ m.release[i] \in ToSet(m.release)
      /\ \A x : x \in ToSet(m.release) => \E i \in 1..Len(m.release) : m.release[i] = x
  BY <1>1, InSequence
<1>3. Kept(c, m) = Stashes(c) \cup (ToSet(m.release) \cup ({m.stash} \ {None}))
  BY DEF Kept
<1>. QED BY <1>1, <1>2, <1>3

LEMMA IdleKept ==
  ASSUME NEW c
  PROVE  Kept(c, Idle) = Stashes(c)
BY AtRest DEF Kept

LEMMA ShelfKept ==
  ASSUME NEW c \in Seq(Entries), NEW t, NEW u, NEW K, Shelf(c, t), Unhurt(t, u, K),
         Stashes(c) \subseteq K
  PROVE  Shelf(c, u)
BY StashFacts DEF Shelf, Unhurt

LEMMA ErrandKept ==
  ASSUME NEW c, NEW m, NEW t, NEW u, Errand(c, m, t), Unhurt(t, u, Kept(c, m))
  PROVE  Errand(c, m, u)
<1>. SUFFICES ASSUME m \in Places
     PROVE  Errand(c, m, u)
  BY DEF Errand
<1>1. m.stash # None => u.bytes[m.stash] = Final(m.key)
  BY PlaceFacts DEF Errand, Unhurt
<1>2. ASSUME m.at \in {"offer", "offerQueued"}
      PROVE  /\ m.release # <<>> /\ Head(m.release) \notin Range(u.candidates)
             /\ \A k \in m.offers : u.bytes[Head(m.release)] = Final(k)
  <2>1. /\ m.release # <<>> /\ Head(m.release) \notin Range(t.candidates)
        /\ \A k \in m.offers : t.bytes[Head(m.release)] = Final(k)
    BY <1>2 DEF Errand
  <2>2. Head(m.release) = m.release[1] /\ 1 \in 1..Len(m.release)
    BY <2>1, PlaceFacts, EmptySeq, HeadTailProperties
  <2>3. Head(m.release) \in Buffers /\ Head(m.release) \in Kept(c, m)
    BY <2>2, PlaceFacts
  <2>. QED BY <2>1, <2>3 DEF Unhurt
<1>. QED BY <1>1, <1>2 DEF Errand

\* A step that touches neither the cache nor the main thread
LEMMA BehindSound ==
  ASSUME MainInv, UNCHANGED <<cache, main>>, file' \in [Keys -> Keys \cup {None}],
         writer' = NoOp \/ writer' \in Hands,
         Sound(tier', writer', file', Kept(cache, main), {}), Unhurt(tier, tier', Kept(cache, main))
  PROVE  MainInv'
<1>1. Typed'
  BY DEF MainInv, Typed, Sound
<1>2. Stashes(cache) \subseteq Kept(cache, main)
  BY DEF Kept
<1>3. Shelf(cache, tier')
  BY <1>2, ShelfKept DEF MainInv, Typed
<1>4. Errand(cache, main, tier')
  BY ErrandKept DEF MainInv
<1>. QED BY <1>1, <1>3, <1>4 DEF MainInv

\* What the main thread asks write_state() for: a checkpoint that somebody keeps.
Asked(c, t, K) ==
    c # NoCall => \E k \in Content, b \in Buffers : c = Call(k, b) /\ b \in K /\ t.bytes[b] = Final(k)

\* d is the cache c without the entries in S
CutFrom(d, c, S, t) ==
    /\ d \in Seq(Entries) /\ Len(d) <= Len(c) /\ Shelf(d, t)
    /\ \A i \in 1..Len(c) : c[i] \in S => Len(d) < Len(c)
    /\ \A i \in 1..Len(d) : d[i] \notin S /\ \E j \in 1..Len(c) : d[i] = c[j]
    /\ \A j \in 1..Len(c) : c[j] \notin S => \E i \in 1..Len(d) : d[i] = c[j]

LEMMA ShelfPart ==
  ASSUME NEW c \in Seq(Entries), NEW t, NEW S, Shelf(c, t)
  PROVE  CutFrom(Dropped(c, S), c, S, t)
<1> DEFINE d == Dropped(c, S)
<1>1. d \in Seq(Entries) /\ \E h : Thins(h, d, c, S)
  BY DroppedFacts
<1> HIDE DEF d
<1>2. PICK h : Thins(h, d, c, S)
  BY <1>1
<1>3. /\ h \in [1..Len(d) -> 1..Len(c)]
      /\ \A i \in 1..Len(d) : d[i] = c[h[i]] /\ c[h[i]] \notin S
      /\ \A i, j \in 1..Len(d) : i < j => h[i] < h[j]
  BY <1>2 DEF Thins
<1>4. \A x \in 1..Len(c) : c[x] \notin S => \E i \in 1..Len(d) : h[i] = x
  BY <1>2 DEF Thins
<1>5. Len(c) \in Nat /\ Len(d) \in Nat
  BY <1>1, LenProperties
<1>6. \A i \in 1..Len(d) : h[i] \in 1..Len(c)
  BY <1>3
<1>7. \A i, j \in 1..Len(d) : h[i] = h[j] => i = j
  BY <1>3, <1>5, <1>6
<1>8. Shelf(d, t)
  <2>1. ASSUME NEW i \in 1..Len(d), NEW j \in 1..Len(d), d[i].key = d[j].key \/ d[i].stash = d[j].stash
        PROVE  i = j
    <3>1. h[i] = h[j]
      BY <1>3, <1>6, <2>1 DEF Shelf
    <3>. QED BY <1>7, <3>1
  <2>2. ASSUME NEW i \in 1..Len(d)
        PROVE  t.bytes[d[i].stash] = Final(d[i].key)
    <3>1. d[i] = c[h[i]] /\ h[i] \in 1..Len(c)
      BY <1>3, <1>6
    <3>. QED BY <3>1 DEF Shelf
  <2>. QED BY <2>1, <2>2 DEF Shelf
<1>9. Len(d) <= Len(c) /\ \A i \in 1..Len(c) : c[i] \in S => Len(d) < Len(c)
  <2>1. ASSUME NEW s \in Seq(Entries), NEW Z
        PROVE  /\ Len(Dropped(s, Z)) <= Len(s)
               /\ \A i \in 1..Len(s) : s[i] \in Z => Len(Dropped(s, Z)) < Len(s)
    BY DroppedShorter
  <2>. QED BY <2>1 DEF d
<1>10. \A i \in 1..Len(d) : d[i] \notin S /\ \E j \in 1..Len(c) : d[i] = c[j]
  BY <1>3, <1>6
<1>11. \A j \in 1..Len(c) : c[j] \notin S => \E i \in 1..Len(d) : d[i] = c[j]
  <2>. TAKE j \in 1..Len(c)
  <2>. HAVE c[j] \notin S
  <2>1. PICK i \in 1..Len(d) : h[i] = j
    BY <1>4
  <2>2. d[i] = c[j]
    BY <1>3, <2>1
  <2>. QED BY <2>2
<1>. QED BY <1>1, <1>8, <1>9, <1>10, <1>11 DEF CutFrom, d

\* The entry of a key
LEMMA Shelved ==
  ASSUME cache \in Seq(Entries), NEW k \in Cached
  PROVE  \E i \in 1..Len(cache) : cache[i] = Entry(k, StashOf(k))
<1>1. /\ DOMAIN cache = 1..Len(cache) /\ \A x \in ToSet(cache) : \E i \in 1..Len(cache) : cache[i] = x
      /\ \A i \in 1..Len(cache) : cache[i] \in ToSet(cache)
  BY InSequence
<1>2. \E e \in ToSet(cache) : e.key = k
  BY <1>1 DEF Cached
<1> DEFINE e == CHOOSE x \in ToSet(cache) : x.key = k
<1>3. e \in ToSet(cache) /\ e.key = k
  BY <1>2
<1>4. StashOf(k) = e.stash
  BY DEF StashOf
<1> HIDE DEF e
<1>5. PICK i \in 1..Len(cache) : cache[i] = e
  BY <1>1, <1>3
<1>6. cache[i] = Entry(cache[i].key, cache[i].stash)
  BY StashFacts
<1>. QED BY <1>3, <1>4, <1>5, <1>6

LEMMA CachedFacts ==
  ASSUME cache \in Seq(Entries)
  PROVE  \A k : k \in Cached <=> \E i \in 1..Len(cache) : cache[i].key = k
<1>1. DOMAIN cache = 1..Len(cache)
  BY StashFacts
<1>. QED BY <1>1 DEF Cached

Rehouse(k, new) == Append(Without(k), Entry(new, StashOf(k)))

\* The checkpoint of a key moves to the end, under its name or a new one of its page.
LEMMA Rehoused ==
  ASSUME cache \in Seq(Entries), Shelf(cache, tier), NEW k \in Cached, NEW new \in Keys,
         new = k \/ new \notin Cached, Final(new) = Final(k),
         NEW c, c = Rehouse(k, new)
  PROVE  /\ c \in Seq(Entries) /\ Len(c) <= Len(cache) /\ Shelf(c, tier)
         /\ Stashes(c) = Stashes(cache)
         /\ StashOf(k) \in Stashes(cache) /\ StashOf(k) \in Buffers
         /\ tier.bytes[StashOf(k)] = Final(k)
<1> DEFINE b == StashOf(k)
           S == {e \in ToSet(cache) : e.key = k}
           d == Without(k)
           n == Len(d)
<1>1. PICK x \in 1..Len(cache) : cache[x] = Entry(k, b)
  BY Shelved
<1>2. /\ Len(cache) \in Nat /\ \A i \in 1..Len(cache) : cache[i] \in ToSet(cache)
      /\ \A i \in 1..Len(cache) : cache[i] \in S <=> cache[i].key = k
  BY InSequence
<1>3. b \in Buffers /\ b \in Stashes(cache) /\ tier.bytes[b] = Final(k)
  <2>1. cache[x].stash = b /\ cache[x].key = k
    BY <1>1 DEF Entry
  <2>. QED BY <2>1, StashFacts DEF Shelf
<1>4. d = Dropped(cache, S)
  BY DEF Without
<1> HIDE DEF S, d, b
<1>5. /\ d \in Seq(Entries) /\ Shelf(d, tier)
      /\ \A i \in 1..Len(cache) : cache[i] \in S => Len(d) < Len(cache)
      /\ \A i \in 1..Len(d) : d[i] \notin S /\ \E j \in 1..Len(cache) : d[i] = cache[j]
      /\ \A j \in 1..Len(cache) : cache[j] \notin S => \E i \in 1..Len(d) : d[i] = cache[j]
  <2>1. CutFrom(d, cache, S, tier)
    BY <1>4, ShelfPart
  <2>. QED BY <2>1 DEF CutFrom
<1>6. n \in Nat /\ n < Len(cache)
  <2>1. cache[x] \in S
    BY <1>1, <1>2 DEF Entry
  <2>. QED BY <1>5, <2>1, LenProperties
<1>7. \A i \in 1..n : \E j \in 1..Len(cache) : d[i] = cache[j] /\ cache[j].key # k
  BY <1>2, <1>5
<1>8. Entry(new, b) \in Entries /\ Entry(new, b).key = new /\ Entry(new, b).stash = b
  BY <1>3 DEF Entry, Entries
<1>9. /\ c \in Seq(Entries) /\ Len(c) = n + 1 /\ c[n + 1] = Entry(new, b)
      /\ \A i \in 1..n : c[i] = d[i]
  <2>1. c = Append(d, Entry(new, b))
    BY DEF d, b, Rehouse
  <2>. QED BY <1>5, <1>8, <2>1, AppendProperties
<1>10. \A i \in 1..Len(c) : i \in 1..n \/ i = n + 1
  BY <1>6, <1>9
<1>11. \A i \in 1..n : d[i].key # new /\ d[i].stash # b
  <2>. TAKE i \in 1..n
  <2>1. PICK j \in 1..Len(cache) : d[i] = cache[j] /\ cache[j].key # k
    BY <1>7
  <2>2. cache[j].key # new
    BY <2>1, CachedFacts
  <2>3. cache[j].stash # b
    BY <1>1, <2>1 DEF Shelf, Entry
  <2>. QED BY <2>1, <2>2, <2>3
<1>12. Shelf(c, tier)
  <2>1. ASSUME NEW i \in 1..Len(c), NEW j \in 1..Len(c), c[i].key = c[j].key \/ c[i].stash = c[j].stash
        PROVE  i = j
    <3>1. CASE i \in 1..n /\ j \in 1..n
      BY <1>5, <1>9, <2>1, <3>1 DEF Shelf
    <3>2. CASE i \in 1..n /\ j = n + 1
      BY <1>8, <1>9, <1>11, <2>1, <3>2
    <3>3. CASE i = n + 1 /\ j \in 1..n
      BY <1>8, <1>9, <1>11, <2>1, <3>3
    <3>. QED BY <1>10, <3>1, <3>2, <3>3
  <2>2. \A i \in 1..Len(c) : tier.bytes[c[i].stash] = Final(c[i].key)
    <3>1. \A i \in 1..n : tier.bytes[c[i].stash] = Final(c[i].key)
      BY SMTT(30), <1>5, <1>9 DEF Shelf
    <3>. QED BY <1>3, <1>8, <1>9, <1>10, <3>1
  <2>. QED BY <2>1, <2>2 DEF Shelf
<1>13. Stashes(c) = Stashes(cache)
  <2>1. ASSUME NEW y \in Stashes(c)
        PROVE  y \in Stashes(cache)
    <3>1. PICK i \in 1..Len(c) : c[i].stash = y
      BY <1>9, StashFacts
    <3>2. CASE i \in 1..n
      <4>1. PICK j \in 1..Len(cache) : d[i] = cache[j]
        BY <1>7, <3>2
      <4>. QED BY <1>9, <3>1, <3>2, <4>1, StashFacts
    <3>3. CASE i = n + 1
      BY <1>3, <1>8, <1>9, <3>1, <3>3
    <3>. QED BY <1>10, <3>2, <3>3
  <2>2. ASSUME NEW y \in Stashes(cache)
        PROVE  y \in Stashes(c)
    <3>1. PICK j \in 1..Len(cache) : cache[j].stash = y
      BY StashFacts
    <3>2. CASE cache[j] \notin S
      <4>1. PICK i \in 1..n : d[i] = cache[j]
        BY <1>5, <3>2
      <4>2. i \in 1..Len(c) /\ c[i].stash = y
        BY <1>6, <1>9, <3>1, <4>1
      <4>. QED BY <1>9, <4>2, StashFacts
    <3>3. CASE cache[j] \in S
      <4>1. cache[j].stash = b
        BY <1>1, <1>2, <3>3 DEF Shelf, Entry
      <4>2. n + 1 \in 1..Len(c) /\ c[n + 1].stash = y
        BY <1>6, <1>8, <1>9, <3>1, <4>1
      <4>. QED BY <1>9, <4>2, StashFacts
    <3>. QED BY <3>2, <3>3
  <2>. QED BY <2>1, <2>2
<1>. QED BY <1>3, <1>6, <1>9, <1>12, <1>13 DEF b

\* Who refers to a buffer, as the model counts them
LEMMA HeldFacts ==
  ASSUME Typed
  PROVE  Held = Kept(cache, main) \cup Range(tier.pending) \cup Range(tier.candidates)
                \cup (IF call = NoCall THEN {} ELSE {call.stash})
<1>1. Stashes(cache) = {e.stash : e \in ToSet(cache)}
  BY DEF Stashes
<1>2. CASE main = Idle
  BY <1>1, <1>2, AtRest, IdleKept DEF Held
<1>3. CASE main \in Places
  BY <1>1, <1>3, AtRest DEF Held, Kept
<1>. QED BY <1>2, <1>3 DEF Typed

\* A new checkpoint gets a buffer that nobody refers to.
LEMMA FillSound ==
  ASSUME Typed, Sound(tier, writer, file, Kept(cache, main), {}), HasBuffer, NEW v \in Keys,
         NEW L, L \subseteq Kept(cache, main) \cup {TakeBuffer}, Range(tier.candidates) \subseteq L
  PROVE  /\ TakeBuffer \in Buffers /\ TakeBuffer \notin Kept(cache, main)
         /\ TakeBuffer \notin Range(tier.candidates)
         /\ Sound(Fill(v), writer, file, L, {}) /\ Unhurt(tier, Fill(v), Kept(cache, main))
         /\ Fill(v).bytes[TakeBuffer] = v
<1> DEFINE b == TakeBuffer
           p == tier.pool
           q == IF p # <<>> THEN Front(p) ELSE p
           n == Len(p)
           u == Fill(v)
           K == Kept(cache, main)
<1>1. /\ tier \in Tiers /\ p \in Seq(Buffers) /\ n \in Nat
      /\ Pooled(tier, K)
  BY QueueFacts DEF Sound
<1>2. /\ b \in Buffers /\ b \notin K /\ b \notin Range(tier.pending) /\ b \notin Range(tier.candidates)
      /\ q \in Seq(Buffers) /\ Len(q) <= n /\ \A i \in 1..Len(q) : q[i] = p[i] /\ p[i] # b
  <2>1. CASE p # <<>>
    <3>1. n # 0
      BY <1>1, <2>1, EmptySeq
    <3>2. b = p[n] /\ n \in 1..n
      BY <1>1, <2>1, <3>1 DEF TakeBuffer, Last
    <3>3. b \in Buffers
      BY <1>1, <3>2, ElementOfSeq
    <3>4. q = [i \in 1..n - 1 |-> p[i]]
      BY <2>1 DEF Front, SubSeq
    <3>5. q \in Seq(Buffers) /\ Len(q) = n - 1 /\ \A i \in 1..n - 1 : q[i] = p[i]
      <4>1. \A i \in 1..n - 1 : p[i] \in Buffers
        BY <1>1, ElementOfSeq
      <4> HIDE DEF p, q, n
      <4>2. n - 1 \in Nat
        BY <1>1, <3>1
      <4>. QED BY <3>4, <4>1, <4>2
    <3>6. \A i \in 1..n - 1 : p[i] # b
      <4>1. \A i \in 1..n - 1 : i \in 1..n /\ i # n
        BY <1>1
      <4>. QED BY <1>1, <3>2, <4>1 DEF Pooled, Distinct
    <3>. QED BY <1>1, <3>2, <3>3, <3>5, <3>6 DEF Pooled
  <2>2. CASE p = <<>>
    <3>1. b \in Fresh
      BY <2>2 DEF HasBuffer, TakeBuffer
    <3>2. b \in Buffers /\ b \notin Held
      BY <3>1 DEF Fresh
    <3>3. q = p /\ Len(p) = 0
      BY <2>2, EmptySeq
    <3>. QED BY <1>1, <3>2, <3>3, HeldFacts
  <2>. QED BY <2>1, <2>2
<1>3. /\ u = [tier EXCEPT !.pool = q, !.bytes = [tier.bytes EXCEPT ![b] = v]]
      /\ u.pool = q /\ u.bytes = [tier.bytes EXCEPT ![b] = v]
      /\ u.states = tier.states /\ u.pending = tier.pending /\ u.candidates = tier.candidates
      /\ u.queue = tier.queue /\ u.deferred = tier.deferred
  BY <1>1 DEF Fill, Tiers
<1>4. tier.bytes \in [Buffers -> Keys \cup {None}]
  BY <1>1 DEF Tiers
<1> HIDE DEF b, p, q, u, K, n
<1>5. u.bytes \in [Buffers -> Keys \cup {None}] /\ u.bytes[b] = v
      /\ \A x \in Buffers : x # b => u.bytes[x] = tier.bytes[x]
  BY <1>2, <1>3, <1>4
<1>6. u \in Tiers
  BY <1>1, <1>2, <1>3, <1>5 DEF Tiers
<1>7. \A i \in 1..Len(u.pool) : i \in 1..n /\ u.pool[i] = p[i]
  <2>1. Len(q) \in Nat
    BY <1>2, LenProperties
  <2>. QED BY <1>1, <1>2, <1>3, <2>1
<1>8. Pooled(u, K)
  <2>1. Distinct(u.pool)
    BY <1>1, <1>7 DEF Pooled, Distinct, p, n
  <2>2. \A i \in 1..Len(u.pool) : u.pool[i] \notin K \cup Range(u.pending)
    BY <1>1, <1>3, <1>7 DEF Pooled, p, n
  <2>. QED BY <1>1, <1>3, <2>1, <2>2 DEF Pooled
<1>9. Writes(u, writer, {})
  BY <1>3 DEF Sound, Writes
<1>10. \A x \in Buffers : x \in K \cup Range(u.pending) => u.bytes[x] = tier.bytes[x]
  BY <1>2, <1>3, <1>5
<1>11. Images(u, file, writer)
  <2>1. Images(tier, file, writer)
    BY DEF Sound
  <2>2. \A x \in DOMAIN u.pending : x \in DOMAIN tier.pending /\ u.pending[x] = tier.pending[x]
    BY <1>3
  <2>3. tier \in Tiers /\ Pooled(tier, K) /\ u.candidates = tier.candidates
    BY <1>1, <1>3
  <2>. QED BY <1>6, <1>10, <2>1, <2>2, <2>3, ImagesKept
<1>12. Sound(u, writer, file, K, {})
  BY <1>6, <1>8, <1>9, <1>11 DEF Sound
<1>13. Sound(u, writer, file, L, {})
  <2>1. \A i \in 1..Len(u.pool) : u.pool[i] # b
    <3>1. \A i \in 1..Len(q) : q[i] # b
      BY <1>2
    <3>. QED BY <1>3, <3>1
  <2>2. \A x \in L : x \in K \/ (x \in Buffers /\ x \notin Range(u.pending)
                                 /\ \A i \in 1..Len(u.pool) : u.pool[i] # x)
    BY <1>2, <1>3, <2>1 DEF K, b
  <2>3. Range(u.candidates) \subseteq L
    BY <1>3
  <2>. QED BY <1>12, <2>2, <2>3, KeptSound
<1>14. Unhurt(tier, u, K)
  BY <1>3, <1>10 DEF Unhurt
<1>. QED BY <1>2, <1>5, <1>13, <1>14 DEF b, u, K

-----------------------------------------------------------------------------
(* The steps of the main thread.                                            *)

LEMMA NothingToRelease ==
  /\ <<>> \in Seq(Buffers) /\ Len(<<>>) = 0 /\ ToSet(<<>>) = {} /\ Distinct(<<>>)
  /\ \A m \in Places : m.release = <<>> =>
       \A c : Kept(c, m) = Stashes(c) \cup ({m.stash} \ {None})
<1>1. <<>> \in Seq(Buffers) /\ Len(<<>>) = 0
  BY EmptySeq
<1>2. ToSet(<<>>) = {} /\ Distinct(<<>>)
  <2>1. 1..Len(<<>>) = {}
    BY <1>1
  <2>2. \A x : x \in ToSet(<<>>) => \E i \in 1..Len(<<>>) : <<>>[i] = x
    BY <1>1, InSequence
  <2>. QED BY <2>1, <2>2 DEF Distinct
<1>. QED BY <1>1, <1>2 DEF Kept

LEMMA LightErrand ==
  ASSUME NEW c, NEW m, NEW t, m.release = <<>>, m.at \notin {"offer", "offerQueued"},
         m.stash # None => t.bytes[m.stash] = Final(m.key),
         m.then = "room" => m.stash \notin Stashes(c)
  PROVE  Errand(c, m, t)
<1>1. Distinct(m.release) /\ \A i \in 1..Len(m.release) : FALSE
  BY NothingToRelease
<1>. QED BY <1>1 DEF Errand

LEMMA BeginFacts ==
  ASSUME NEW at \in {"room", "release", "drain", "flush"}, NEW k \in Keys \cup {None},
         NEW b \in Buffers \cup {None}, NEW new \in BOOLEAN, NEW r \in Seq(Buffers),
         NEW then \in {"room", "note", "page", "trim", "flush"}
  PROVE  Begin(at, k, b, new, r, then) \in Places
BY DEF Begin, Places

\* The main thread is at rest after the step.
LEMMA IdleSound ==
  ASSUME main' = Idle, cache' \in Seq(Entries), Len(cache') <= Capacity,
         file' \in [Keys -> Keys \cup {None}], writer' = NoOp \/ writer' \in Hands,
         Sound(tier', writer', file', Stashes(cache'), {}), Shelf(cache', tier')
  PROVE  MainInv'
<1>1. Typed'
  BY DEF Typed, Sound
<1>2. Sound(tier', writer', file', Kept(cache', main'), {})
  BY IdleKept
<1>3. Course(cache', main') /\ Errand(cache', main', tier')
  BY AtRest DEF Course, Errand
<1>. QED BY <1>1, <1>2, <1>3 DEF MainInv

\* It is not.
LEMMA BusySound ==
  ASSUME main' \in Places, cache' \in Seq(Entries), Len(cache') <= Capacity,
         file' \in [Keys -> Keys \cup {None}], writer' = NoOp \/ writer' \in Hands,
         Sound(tier', writer', file', Kept(cache', main'), {}), Shelf(cache', tier'),
         Course(cache', main'), Errand(cache', main', tier')
  PROVE  MainInv'
BY DEF MainInv, Typed, Sound

LEMMA AtRestFacts ==
  ASSUME MainInv, Resting
  PROVE  /\ main = Idle /\ Sound(tier, writer, file, Stashes(cache), {})
         /\ Kept(cache, main) = Stashes(cache)
<1>1. main = Idle
  BY AtRest DEF MainInv, Typed, Resting, At
<1>. QED BY <1>1, IdleKept DEF MainInv

LEMMA MovedStep ==
  ASSUME MainInv, Resting, NEW k \in Keys, k \in Cached, cache' = MoveToEnd(k),
         UNCHANGED <<tier, file, writer, main>>
  PROVE  MainInv'
<1>1. cache \in Seq(Entries) /\ Shelf(cache, tier) /\ Len(cache) <= Capacity
  BY DEF MainInv, Typed
<1>2. cache' = Rehouse(k, k)
  BY DEF MoveToEnd, Rehouse
<1>3. /\ cache' \in Seq(Entries) /\ Len(cache') <= Len(cache) /\ Shelf(cache', tier)
      /\ Stashes(cache') = Stashes(cache)
  BY <1>1, <1>2, Rehoused
<1>4. Len(cache') \in Nat /\ Len(cache) \in Nat /\ Capacity \in Nat
  BY <1>1, <1>3, LenProperties, CapacityAssumption
<1>5. main' = Idle /\ Sound(tier', writer', file', Stashes(cache'), {})
  BY <1>3, AtRestFacts
<1>6. file' \in [Keys -> Keys \cup {None}] /\ (writer' = NoOp \/ writer' \in Hands)
  BY DEF MainInv, Typed
<1>7. Len(cache') <= Capacity /\ Shelf(cache', tier')
  BY <1>1, <1>3, <1>4
<1>. QED BY <1>3, <1>5, <1>6, <1>7, IdleSound

LEMMA PutStep ==
  ASSUME MainInv, NEW k \in Keys, Put(k)
  PROVE  MainInv'
<1>1. CASE k \in Cached
  BY <1>1, MovedStep DEF Put
<1>2. CASE k \notin Cached
  <2>1. /\ Resting /\ main' = Begin("room", k, None, TRUE, <<>>, "room")
        /\ UNCHANGED <<cache, tier, file, writer>>
    BY <1>2 DEF Put
  <2>2. /\ main' \in Places /\ main'.at = "room" /\ main'.key = k /\ main'.stash = None
        /\ main'.new = TRUE /\ main'.release = <<>> /\ main'.then = "room"
    <3>1. Begin("room", k, None, TRUE, <<>>, "room") \in Places
      BY BeginFacts, NothingToRelease
    <3>. QED BY <2>1, <3>1 DEF Begin
  <2>3. Kept(cache', main') = Stashes(cache')
    BY ZenonT(30), <2>2, NothingToRelease
  <2>4. Sound(tier', writer', file', Kept(cache', main'), {})
    BY <2>1, <2>3, AtRestFacts
  <2>5. Course(cache', main')
    <3>1. \A i \in 1..Len(cache) : cache[i].key # k
      BY <1>2, CachedFacts DEF MainInv, Typed
    <3>. QED BY <2>1, <2>2, <3>1 DEF Course
  <2>6. Errand(cache', main', tier')
    <3>1. None \notin Stashes(cache')
      BY <2>1, StashFacts, KeysAssumption DEF MainInv, Typed
    <3>. QED BY <2>2, <3>1, LightErrand
  <2>. QED BY <2>1, <2>2, <2>4, <2>5, <2>6, BusySound DEF MainInv, Typed
<1>. QED BY <1>1, <1>2

LEMMA GetStashedStep ==
  ASSUME MainInv, RereadPending = FALSE, NEW k \in Keys, GetStashed(k)
  PROVE  MainInv'
<1>1. /\ Resting /\ UNCHANGED <<file, writer>>
      /\ file' \in [Keys -> Keys \cup {None}] /\ (writer' = NoOp \/ writer' \in Hands)
      /\ cache \in Seq(Entries) /\ Len(cache) <= Capacity
  BY DEF GetStashed, MainInv, Typed
<1>2. CASE k \in Cached
  BY <1>2, MovedStep DEF GetStashed
<1>3. ASSUME k \notin Cached, k \in tier.states, UNCHANGED cache, file[k] # None, HasBuffer,
             tier' = Fill(file[k]), main' = Begin("room", k, TakeBuffer, FALSE, <<>>, "room")
      PROVE  MainInv'
  <2>1. Typed /\ Sound(tier, writer, file, Kept(cache, main), {}) /\ Kept(cache, main) = Stashes(cache)
    BY <1>1, AtRestFacts DEF MainInv
  <2>2. file[k] = Final(k) /\ file[k] \in Keys
    BY <1>3, <2>1 DEF Sound, Images, Typed
  <2>3. Range(tier.candidates) \subseteq Stashes(cache)
    BY <2>1 DEF Sound, Pooled
  <2>4. PICK L : L = Stashes(cache) \cup {TakeBuffer}
    OBVIOUS
  <2>5. /\ TakeBuffer \in Buffers /\ TakeBuffer \notin Stashes(cache)
        /\ Sound(tier', writer, file, L, {}) /\ Unhurt(tier, tier', Stashes(cache))
        /\ tier'.bytes[TakeBuffer] = Final(k)
    BY <1>3, <2>1, <2>2, <2>3, <2>4, FillSound
  <2>6. /\ main' \in Places /\ main'.at = "room" /\ main'.key = k /\ main'.stash = TakeBuffer
        /\ main'.new = FALSE /\ main'.release = <<>> /\ main'.then = "room"
    <3>1. Begin("room", k, TakeBuffer, FALSE, <<>>, "room") \in Places
      BY <2>5, BeginFacts, NothingToRelease
    <3>. QED BY <1>3, <3>1 DEF Begin
  <2>11. TakeBuffer # None
    BY <2>5, KeysAssumption
  <2>7. Kept(cache', main') = L
    BY <1>3, <2>4, <2>6, <2>11, NothingToRelease
  <2>8. Course(cache', main')
    <3>1. \A i \in 1..Len(cache') : cache'[i].key # main'.key
      BY <1>1, <1>3, <2>6, CachedFacts
    <3>2. main'.new <=> main'.stash = None
      BY <2>6, <2>11
    <3>3. /\ main'.then = "room" /\ main'.at \in {"room", "release", "offer", "offerQueued"}
          /\ main'.key \in Keys /\ (main'.at = "room" => main'.release = <<>>)
      BY <2>6
    <3>. QED BY <3>1, <3>2, <3>3 DEF Course
  <2>9. Errand(cache', main', tier')
    BY <1>3, <2>5, <2>6, LightErrand
  <2>10. Shelf(cache', tier')
    BY <1>1, <1>3, <2>5, ShelfKept DEF MainInv
  <2>. QED BY <1>1, <1>3, <2>5, <2>6, <2>7, <2>8, <2>9, <2>10, BusySound
<1>4. ASSUME k \in tier.states, UNCHANGED <<cache, main>>, tier' = DropState(tier, k)
      PROVE  MainInv'
  <2>1. Sound(tier', writer, file, Kept(cache, main), {}) /\ Alike(tier, tier')
    BY <1>4, DropStateSound DEF MainInv
  <2>2. Unhurt(tier, tier', Kept(cache, main))
    BY <2>1 DEF Alike, Unhurt
  <2>. QED BY <1>1, <1>4, <2>1, <2>2, BehindSound
<1>. QED BY <1>2, <1>3, <1>4 DEF GetStashed

\* Where the main thread is says what it is doing.
LEMMA CourseFacts ==
  ASSUME NEW c, NEW m, Course(c, m), m.at # "idle"
  PROVE  /\ m.at = "room" => /\ m.then = "room" /\ m.key \in Keys /\ (m.new <=> m.stash = None)
                             /\ m.release = <<>> /\ \A i \in 1..Len(c) : c[i].key # m.key
         /\ m.at = "drain" => /\ m.release = <<>> /\ m.key \in Content
                              /\ \/ m.then = "note" /\ \E i \in 1..Len(c) : c[i] = Entry(m.key, m.stash)
                                 \/ m.then = "page" /\ m.stash = None
         /\ m.at \in {"note", "notePending", "noteQueued"} =>
              /\ m.then = "note" /\ m.release = <<>> /\ m.key \in Content
              /\ \E i \in 1..Len(c) : c[i] = Entry(m.key, m.stash)
         /\ m.at \in {"page", "pagePending", "pageRoom"} =>
              m.then = "page" /\ m.release = <<>> /\ m.key \in Content /\ m.stash = None
         /\ m.at \in {"release", "offer", "offerQueued"} =>
              \/ /\ m.then = "room" /\ m.key \in Keys /\ (m.new <=> m.stash = None)
                 /\ \A i \in 1..Len(c) : c[i].key # m.key
              \/ m.then = "trim" /\ m.stash = None
         /\ m.at \in {"flush", "flushQueued"} => m.then = "flush" /\ m.release = <<>> /\ m.stash = None
BY AtRest DEF Course

LEMMA OneToRelease ==
  ASSUME NEW b \in Buffers
  PROVE  /\ <<b>> \in Seq(Buffers) /\ Len(<<b>>) = 1 /\ <<b>>[1] = b
         /\ ToSet(<<b>>) = {b} /\ Distinct(<<b>>)
<1>1. <<b>> \in Seq(Buffers) /\ Len(<<b>>) = 1 /\ <<b>>[1] = b
  OBVIOUS
<1>2. 1..Len(<<b>>) = {1}
  BY <1>1
<1>3. ToSet(<<b>>) = {<<b>>[i] : i \in 1..Len(<<b>>)}
  <2>1. ASSUME NEW s \in Seq(Buffers)
        PROVE  ToSet(s) = {s[i] : i \in 1..Len(s)}
    BY InSequence
  <2>. QED BY <1>1, <2>1
<1>. QED BY <1>1, <1>2, <1>3 DEF Distinct

LEMMA EvictStep ==
  ASSUME MainInv, EvictForRoom
  PROVE  MainInv'
<1>1. PICK e \in ToSet(cache) :
        cache' = Without(e.key) /\ main' = [main EXCEPT !.at = "release", !.release = <<e.stash>>]
  BY DEF EvictForRoom, At
<1>2. /\ main.at = "room" /\ UNCHANGED <<tier, file, writer>>
      /\ cache \in Seq(Entries) /\ Len(cache) <= Capacity /\ Shelf(cache, tier)
      /\ file' \in [Keys -> Keys \cup {None}] /\ (writer' = NoOp \/ writer' \in Hands)
  BY DEF EvictForRoom, At, MainInv, Typed
<1>3. main \in Places
  BY <1>2, AtRest DEF MainInv, Typed
<1>4. /\ main.then = "room" /\ main.key \in Keys /\ (main.new <=> main.stash = None)
      /\ main.release = <<>> /\ \A i \in 1..Len(cache) : cache[i].key # main.key
  BY <1>2, CourseFacts DEF MainInv
<1> DEFINE S == {x \in ToSet(cache) : x.key = e.key}
           b == e.stash
<1>5. PICK y \in 1..Len(cache) : cache[y] = e
  BY <1>2, InSequence
<1>6. b \in Buffers /\ b \in Stashes(cache)
  BY <1>2, <1>5, StashFacts
<1>7. \A i \in 1..Len(cache) : cache[i] \in S <=> i = y
  <2>1. \A i \in 1..Len(cache) : cache[i] \in ToSet(cache)
    BY <1>2, InSequence
  <2>. QED BY <1>2, <1>5, <2>1 DEF Shelf
<1>8. cache' = Dropped(cache, S)
  BY <1>1 DEF Without
<1> HIDE DEF S, b
<1>9. CutFrom(cache', cache, S, tier)
  BY <1>2, <1>8, ShelfPart
<1>10. /\ cache' \in Seq(Entries) /\ Len(cache') <= Len(cache) /\ Shelf(cache', tier)
       /\ \A i \in 1..Len(cache') : cache'[i] \notin S /\ \E j \in 1..Len(cache) : cache'[i] = cache[j]
       /\ \A j \in 1..Len(cache) : cache[j] \notin S => \E i \in 1..Len(cache') : cache'[i] = cache[j]
  BY <1>9 DEF CutFrom
<1>11. Len(cache') <= Capacity
  BY <1>2, <1>10, LenProperties, CapacityAssumption
<1>12. ASSUME NEW x
       PROVE  x \in Stashes(cache') <=> x \in Stashes(cache) /\ x # b
  <2>1. ASSUME x \in Stashes(cache')
        PROVE  x \in Stashes(cache) /\ x # b
    <3>1. PICK i \in 1..Len(cache') : cache'[i].stash = x
      BY <1>10, <2>1, StashFacts
    <3>2. PICK j \in 1..Len(cache) : cache'[i] = cache[j] /\ cache[j] \notin S
      BY <1>10
    <3>. QED BY <1>2, <1>5, <1>7, <3>1, <3>2, StashFacts DEF Shelf, b
  <2>2. ASSUME x \in Stashes(cache), x # b
        PROVE  x \in Stashes(cache')
    <3>1. PICK j \in 1..Len(cache) : cache[j].stash = x
      BY <1>2, <2>2, StashFacts
    <3>2. cache[j] \notin S
      BY <1>5, <1>7, <2>2, <3>1 DEF b
    <3>3. PICK i \in 1..Len(cache') : cache'[i] = cache[j]
      BY <1>10, <3>2
    <3>. QED BY <1>10, <3>1, <3>3, StashFacts
  <2>. QED BY <2>1, <2>2
<1>13. /\ main' \in Places /\ main'.at = "release" /\ main'.release = <<b>> /\ main'.then = "room"
       /\ main'.key = main.key /\ main'.new = main.new /\ main'.stash = main.stash
  BY <1>1, <1>3, <1>4, <1>6, OneToRelease DEF Places, b
<1>14. Kept(cache', main') = Kept(cache, main)
  <2>1. Kept(cache', main') = Stashes(cache') \cup ({b} \cup ({main.stash} \ {None}))
    BY <1>6, <1>13, OneToRelease DEF Kept
  <2>2. Kept(cache, main) = Stashes(cache) \cup ({main.stash} \ {None})
    BY <1>3, <1>4, NothingToRelease
  <2>3. ASSUME NEW x
        PROVE  x \in Kept(cache', main') <=> x \in Kept(cache, main)
    BY <1>6, <1>12, <2>1, <2>2
  <2>. QED BY <2>3
<1>15. Course(cache', main')
  <2>1. \A i \in 1..Len(cache') : cache'[i].key # main.key
    BY <1>4, <1>10
  <2>. QED BY <1>4, <1>13, <2>1 DEF Course
<1>16. Errand(cache', main', tier')
  <2>1. /\ main.stash # None => tier.bytes[main.stash] = Final(main.key)
        /\ main.stash \notin Stashes(cache)
    BY <1>3, <1>4 DEF MainInv, Errand
  <2>2. Distinct(main'.release) /\ \A i \in 1..Len(main'.release) : main'.release[i] = b
    BY <1>6, <1>13, OneToRelease
  <2>3. b # main.stash /\ b \notin Stashes(cache') /\ main.stash \notin Stashes(cache')
    BY <1>6, <1>12, <2>1
  <2>. QED BY <1>2, <1>13, <2>1, <2>2, <2>3 DEF Errand
<1>17. Sound(tier', writer', file', Kept(cache', main'), {}) /\ Shelf(cache', tier')
  BY <1>2, <1>10, <1>14 DEF MainInv
<1>. QED BY <1>2, <1>10, <1>11, <1>13, <1>15, <1>16, <1>17, BusySound

LEMMA InsertStep ==
  ASSUME MainInv, Insert
  PROVE  MainInv'
<1>1. /\ main.at = "room" /\ Len(cache) < Capacity /\ (main.new => HasBuffer) /\ UNCHANGED <<file, writer>>
      /\ cache \in Seq(Entries) /\ Shelf(cache, tier) /\ Typed
      /\ Sound(tier, writer, file, Kept(cache, main), {})
      /\ file' \in [Keys -> Keys \cup {None}] /\ (writer' = NoOp \/ writer' \in Hands)
  BY DEF Insert, At, MainInv, Typed
<1>2. main \in Places /\ main.new \in BOOLEAN
  BY <1>1, AtRest DEF Typed, Places
<1>3. /\ main.then = "room" /\ main.key \in Keys /\ (main.new <=> main.stash = None)
      /\ main.release = <<>> /\ \A i \in 1..Len(cache) : cache[i].key # main.key
  BY <1>1, CourseFacts DEF MainInv
<1>4. /\ main.stash # None => tier.bytes[main.stash] = Final(main.key)
      /\ main.stash \notin Stashes(cache)
  BY <1>2, <1>3 DEF MainInv, Errand
<1>5. Kept(cache, main) = Stashes(cache) \cup ({main.stash} \ {None})
  BY <1>2, <1>3, NothingToRelease
<1> DEFINE b == IF main.new THEN TakeBuffer ELSE main.stash
           k == main.key
           L == Stashes(cache) \cup {b}
<1>6. /\ cache' = Append(cache, Entry(k, b))
      /\ tier' = IF main.new THEN Fill(Final(k)) ELSE tier
      /\ \/ main' = Idle
         \/ k \in Content /\ main' = [main EXCEPT !.at = "drain", !.stash = b, !.then = "note"]
  BY DEF Insert, At
<1>7. Final(k) \in Keys
  BY <1>3, KeysAssumption, RenameAssumption DEF Final
<1>8. /\ b \in Buffers /\ b \notin Stashes(cache) /\ b # None
      /\ Sound(tier', writer, file, L, {}) /\ Unhurt(tier, tier', Stashes(cache))
      /\ tier'.bytes[b] = Final(k)
  <2>1. CASE main.new
    <3>1. main.stash = None /\ b = TakeBuffer /\ tier' = Fill(Final(k)) /\ HasBuffer
      BY <1>1, <1>3, <1>6, <2>1
    <3>2. Kept(cache, main) = Stashes(cache)
      BY <1>5, <3>1
    <3> HIDE DEF b
    <3>3. L \subseteq Kept(cache, main) \cup {TakeBuffer} /\ Range(tier.candidates) \subseteq L
      BY <1>1, <3>1, <3>2 DEF Sound, Pooled
    <3> HIDE DEF L
    <3>4. /\ TakeBuffer \in Buffers /\ TakeBuffer \notin Kept(cache, main)
          /\ Sound(Fill(Final(k)), writer, file, L, {}) /\ Unhurt(tier, Fill(Final(k)), Kept(cache, main))
          /\ Fill(Final(k)).bytes[TakeBuffer] = Final(k)
      <4>1. ASSUME NEW v \in Keys
            PROVE  /\ TakeBuffer \in Buffers /\ TakeBuffer \notin Kept(cache, main)
                   /\ Sound(Fill(v), writer, file, L, {}) /\ Unhurt(tier, Fill(v), Kept(cache, main))
                   /\ Fill(v).bytes[TakeBuffer] = v
        BY <1>1, <3>1, <3>3, FillSound
      <4>. QED BY <1>7, <4>1
    <3>. QED BY <3>1, <3>2, <3>4, KeysAssumption
  <2>2. CASE ~ main.new
    <3>1. main.stash # None /\ b = main.stash /\ tier' = tier
      BY <1>3, <1>6, <2>2
    <3>2. L = Kept(cache, main)
      BY <1>5, <3>1
    <3>3. b \in Buffers
      BY <1>2, <3>1, PlaceFacts
    <3>. QED BY <1>1, <1>4, <3>1, <3>2, <3>3 DEF Unhurt
  <2>. QED BY <2>1, <2>2
<1> DEFINE n == Len(cache)
<1> HIDE DEF b, k, L, n
<1>9. Entry(k, b) \in Entries /\ Entry(k, b).key = k /\ Entry(k, b).stash = b
  BY <1>3, <1>8 DEF Entry, Entries, k
<1>10. /\ cache' \in Seq(Entries) /\ Len(cache') = n + 1 /\ cache'[n + 1] = Entry(k, b) /\ n \in Nat
       /\ \A i \in 1..n : cache'[i] = cache[i]
  BY <1>1, <1>6, <1>9, AppendProperties, LenProperties DEF n
<1>11. \A i \in 1..Len(cache') : i \in 1..n \/ i = n + 1
  BY <1>10
<1>12. n + 1 \in 1..Len(cache') /\ 1..n \subseteq 1..Len(cache') /\ Len(cache') <= Capacity
  BY <1>1, <1>10, CapacityAssumption DEF n
<1>13. Stashes(cache') = L
  <2>1. ASSUME NEW x \in Stashes(cache')
        PROVE  x \in L
    <3>1. PICK i \in 1..Len(cache') : cache'[i].stash = x
      BY <1>10, StashFacts
    <3>2. i \in 1..n => x \in Stashes(cache)
      BY <1>1, <1>10, <3>1, StashFacts DEF n
    <3>. QED BY <1>9, <1>10, <1>11, <3>1, <3>2 DEF L
  <2>2. ASSUME NEW x \in Stashes(cache)
        PROVE  x \in Stashes(cache')
    <3>1. PICK i \in 1..n : cache[i].stash = x
      BY <1>1, StashFacts DEF n
    <3>2. i \in 1..Len(cache') /\ cache'[i].stash = x
      BY <1>10, <1>12, <3>1
    <3>. QED BY <1>10, <3>2, StashFacts
  <2>3. b \in Stashes(cache')
    BY <1>9, <1>10, <1>12, StashFacts
  <2>. QED BY <2>1, <2>2, <2>3 DEF L
<1>14. Shelf(cache', tier')
  <2>1. Shelf(cache, tier')
    BY <1>1, <1>8, ShelfKept
  <2>2. \A i \in 1..n : cache[i].key # k /\ cache[i].stash # b /\ cache[i].stash \in Stashes(cache)
    BY <1>1, <1>3, <1>8, StashFacts DEF k, n
  <2>3. ASSUME NEW i \in 1..Len(cache'), NEW j \in 1..Len(cache'),
               cache'[i].key = cache'[j].key \/ cache'[i].stash = cache'[j].stash
        PROVE  i = j
    <3>1. CASE i \in 1..n /\ j \in 1..n
      BY <1>10, <2>1, <2>3, <3>1 DEF Shelf, n
    <3>2. CASE i \in 1..n /\ j = n + 1
      BY <1>9, <1>10, <2>2, <2>3, <3>2
    <3>3. CASE i = n + 1 /\ j \in 1..n
      BY <1>9, <1>10, <2>2, <2>3, <3>3
    <3>. QED BY <1>11, <3>1, <3>2, <3>3
  <2>4. \A i \in 1..Len(cache') : tier'.bytes[cache'[i].stash] = Final(cache'[i].key)
    <3>1. \A i \in 1..n : tier'.bytes[cache'[i].stash] = Final(cache'[i].key)
      BY <1>10, <2>1 DEF Shelf, n
    <3>. QED BY <1>8, <1>9, <1>10, <1>11, <3>1
  <2>. QED BY <2>3, <2>4 DEF Shelf
<1>15. CASE main' = Idle
  BY <1>1, <1>8, <1>10, <1>12, <1>13, <1>14, <1>15, IdleSound
<1>16. CASE k \in Content /\ main' = [main EXCEPT !.at = "drain", !.stash = b, !.then = "note"]
  <2>1. /\ main' \in Places /\ main'.at = "drain" /\ main'.stash = b /\ main'.then = "note"
        /\ main'.key = k /\ main'.release = <<>>
    BY <1>2, <1>3, <1>8, <1>16 DEF Places, k
  <2>2. Kept(cache', main') = L
    <3>1. Kept(cache', main') = Stashes(cache') \cup ({b} \ {None})
      BY <2>1, NothingToRelease
    <3>. QED BY <1>13, <3>1 DEF L
  <2>3. Course(cache', main')
    BY <1>10, <1>12, <1>16, <2>1 DEF Course
  <2>4. Errand(cache', main', tier')
    BY <1>8, <2>1, LightErrand
  <2>. QED BY <1>1, <1>8, <1>10, <1>12, <1>14, <2>1, <2>2, <2>3, <2>4, BusySound
<1>. QED BY <1>6, <1>15, <1>16 DEF b, k

LEMMA DrainStep ==
  ASSUME MainInv, DrainOne
  PROVE  MainInv' /\ Asked(call', tier', Kept(cache', main'))
<1> DEFINE k == Head(tier.ready)
           c == Forget(tier.candidates, k)
           t == [tier EXCEPT !.ready = Tail(tier.ready), !.candidates = c]
           K == Kept(cache, main)
<1>1. /\ tier.ready # <<>> /\ UNCHANGED <<cache, file, writer, main>>
      /\ tier' = t
      /\ call' = IF k \in DOMAIN tier.candidates THEN Call(k, tier.candidates[k]) ELSE NoCall
  BY DEF DrainOne
<1>2. /\ tier \in Tiers /\ tier.ready \in Seq(Content) /\ tier.candidates \in Maps
      /\ Sound(tier, writer, file, K, {})
      /\ file' \in [Keys -> Keys \cup {None}] /\ (writer' = NoOp \/ writer' \in Hands)
  BY <1>1 DEF MainInv, Typed, Tiers
<1>3. k \in Content /\ Tail(tier.ready) \in Seq(Content)
  BY <1>1, <1>2, HeadTailProperties
<1> HIDE DEF k, K
<1>4. /\ c \in Maps /\ \A x \in DOMAIN c : x \in DOMAIN tier.candidates /\ c[x] = tier.candidates[x]
      /\ Range(c) \subseteq Range(tier.candidates)
  <2>1. /\ Forget(tier.candidates, k) \in Maps
        /\ DOMAIN Forget(tier.candidates, k) = DOMAIN tier.candidates \ {k}
        /\ \A x \in DOMAIN tier.candidates : x # k => Forget(tier.candidates, k)[x] = tier.candidates[x]
        /\ Range(Forget(tier.candidates, k)) \subseteq Range(tier.candidates)
    BY ZenonT(30), <1>2, ForgetFacts
  <2>. QED BY <2>1
<1> HIDE DEF c
<1>5. /\ t \in Tiers /\ t.candidates = c /\ t.pool = tier.pool /\ t.bytes = tier.bytes
      /\ t.states = tier.states /\ t.pending = tier.pending /\ t.deferred = tier.deferred
      /\ t.queue = tier.queue
  BY <1>2, <1>3, <1>4 DEF Tiers
<1> HIDE DEF t
<1>6. \A x \in DOMAIN tier.candidates :
        /\ tier.candidates[x] \in K /\ tier.candidates[x] \in Buffers
        /\ tier.bytes[tier.candidates[x]] = Final(x)
  BY <1>2, MapFacts DEF Sound, Pooled, Images
<1>7. Sound(t, writer, file, K, {})
  <2>1. \A x \in DOMAIN t.candidates : t.candidates[x] \in K /\ tier.bytes[t.candidates[x]] = Final(x)
    BY <1>4, <1>5, <1>6
  <2>. QED BY <1>2, <1>5, <2>1, CandidatesSound
<1>8. Asked(call', tier', K)
  <2>1. CASE k \in DOMAIN tier.candidates
    BY <1>1, <1>3, <1>5, <1>6, <2>1 DEF Asked
  <2>2. CASE k \notin DOMAIN tier.candidates
    BY <1>1, <2>2 DEF Asked
  <2>. QED BY <2>1, <2>2
<1>9. Unhurt(tier, tier', K)
  BY <1>1, <1>4, <1>5 DEF Unhurt
<1>10. MainInv'
  BY <1>1, <1>2, <1>7, <1>9, BehindSound DEF K
<1>. QED BY <1>1, <1>8, <1>10 DEF K

LEMMA DrainedStep ==
  ASSUME MainInv, Drained
  PROVE  MainInv'
<1>1. /\ main.at = "drain" /\ main' = [main EXCEPT !.at = main.then]
      /\ UNCHANGED <<cache, tier, file, writer>>
  BY DEF Drained, At
<1>2. main \in Places
  BY <1>1, AtRest DEF MainInv, Typed
<1>3. /\ main.release = <<>> /\ main.key \in Content
      /\ \/ main.then = "note" /\ \E i \in 1..Len(cache) : cache[i] = Entry(main.key, main.stash)
         \/ main.then = "page" /\ main.stash = None
  BY <1>1, CourseFacts DEF MainInv
<1>4. /\ main' \in Places /\ main'.at = main.then /\ main'.release = main.release
      /\ main'.key = main.key /\ main'.stash = main.stash /\ main'.then = main.then
  BY <1>1, <1>2, <1>3 DEF Places
<1>5. Kept(cache, main') = Kept(cache, main)
  BY <1>2, <1>4 DEF Kept
<1>6. Course(cache, main')
  BY <1>3, <1>4 DEF Course
<1>7. Errand(cache, main', tier)
  <2>1. main.stash # None => tier.bytes[main.stash] = Final(main.key)
    BY <1>2 DEF MainInv, Errand
  <2>. QED BY <1>3, <1>4, <2>1, LightErrand
<1>. QED BY <1>1, <1>4, <1>5, <1>6, <1>7, BusySound DEF MainInv, Typed

\* A checkpoint in the cache has been stored: its key and its stash.
LEMMA NotedFacts ==
  ASSUME MainInv, main.at \in {"note", "notePending", "noteQueued"}
  PROVE  /\ main \in Places /\ main.then = "note" /\ main.release = <<>>
         /\ main.key \in Content /\ main.stash \in Buffers /\ main.stash \in Stashes(cache)
         /\ tier.bytes[main.stash] = Final(main.key)
         /\ \E i \in 1..Len(cache) : cache[i] = Entry(main.key, main.stash)
         /\ Kept(cache, main) = Stashes(cache) /\ Sound(tier, writer, file, Stashes(cache), {})
         /\ cache \in Seq(Entries) /\ Len(cache) <= Capacity /\ Shelf(cache, tier)
         /\ file \in [Keys -> Keys \cup {None}] /\ (writer = NoOp \/ writer \in Hands)
<1>1. main \in Places /\ main.at # "idle"
  BY AtRest DEF MainInv, Typed
<1>2. /\ main.then = "note" /\ main.release = <<>> /\ main.key \in Content
      /\ \E i \in 1..Len(cache) : cache[i] = Entry(main.key, main.stash)
  BY <1>1, CourseFacts DEF MainInv
<1>3. /\ cache \in Seq(Entries) /\ Len(cache) <= Capacity /\ Shelf(cache, tier)
      /\ file \in [Keys -> Keys \cup {None}] /\ (writer = NoOp \/ writer \in Hands)
  BY DEF MainInv, Typed
<1>4. PICK i \in 1..Len(cache) : cache[i] = Entry(main.key, main.stash)
  BY <1>2
<1>5. cache[i].key = main.key /\ cache[i].stash = main.stash
  BY <1>4 DEF Entry
<1>6. main.stash \in Buffers /\ main.stash \in Stashes(cache)
  BY <1>3, <1>5, StashFacts
<1>7. tier.bytes[main.stash] = Final(main.key)
  BY <1>3, <1>5 DEF Shelf
<1>8. Kept(cache, main) = Stashes(cache)
  <2>1. Kept(cache, main) = Stashes(cache) \cup ({main.stash} \ {None})
    BY <1>1, <1>2, NothingToRelease
  <2>. QED BY <1>6, <2>1
<1>. QED BY <1>1, <1>2, <1>3, <1>6, <1>7, <1>8 DEF MainInv

\* The main thread looks on, or is done with it.
LEMMA NotedStep ==
  ASSUME MainInv, main.at \in {"note", "notePending", "noteQueued"}, UNCHANGED <<cache, tier, file, writer>>,
         \/ main' = Idle
         \/ \E at \in {"notePending", "noteQueued"} : main' = [main EXCEPT !.at = at]
  PROVE  MainInv'
<1>1. /\ main \in Places /\ main.then = "note" /\ main.release = <<>>
      /\ main.key \in Content /\ main.stash \in Buffers /\ main.stash \in Stashes(cache)
      /\ tier.bytes[main.stash] = Final(main.key)
      /\ \E i \in 1..Len(cache) : cache[i] = Entry(main.key, main.stash)
      /\ Kept(cache, main) = Stashes(cache) /\ Sound(tier, writer, file, Stashes(cache), {})
      /\ cache \in Seq(Entries) /\ Len(cache) <= Capacity /\ Shelf(cache, tier)
      /\ file' \in [Keys -> Keys \cup {None}] /\ (writer' = NoOp \/ writer' \in Hands)
  BY NotedFacts
<1>2. CASE main' = Idle
  BY <1>1, <1>2, IdleSound
<1>3. ASSUME NEW at \in {"notePending", "noteQueued"}, main' = [main EXCEPT !.at = at]
      PROVE  MainInv'
  <2>1. /\ main' \in Places /\ main'.at = at /\ main'.release = main.release
        /\ main'.key = main.key /\ main'.stash = main.stash /\ main'.then = main.then
    BY <1>1, <1>3 DEF Places
  <2>2. Kept(cache, main') = Kept(cache, main)
    BY <1>1, <2>1 DEF Kept
  <2>3. Course(cache, main')
    BY <1>1, <2>1 DEF Course
  <2>4. Errand(cache, main', tier)
    BY <1>1, <2>1, LightErrand
  <2>. QED BY <1>1, <2>1, <2>2, <2>3, <2>4, BusySound
<1>. QED BY <1>2, <1>3

LEMMA NoteIfUnlistedStep ==
  ASSUME MainInv, NoteIfUnlisted
  PROVE  MainInv'
<1>1. /\ main.at = "note" /\ UNCHANGED <<cache, tier, file, writer>>
      /\ main' = Idle \/ main' = [main EXCEPT !.at = "notePending"]
  BY DEF NoteIfUnlisted, At
<1>. QED BY <1>1, NotedStep

LEMMA NoteIfOnDiskStep ==
  ASSUME MainInv, NoteIfOnDisk
  PROVE  MainInv' /\ Asked(call', tier', Kept(cache', main'))
<1>1. /\ main.at = "notePending" /\ UNCHANGED <<cache, tier, file, writer>>
      /\ \/ main' = [main EXCEPT !.at = "noteQueued"] /\ call' = NoCall
         \/ main' = Idle /\ call' \in {NoCall, Call(main.key, main.stash)}
  BY DEF NoteIfOnDisk, At
<1>2. MainInv'
  BY <1>1, NotedStep
<1>3. /\ main.key \in Content /\ main.stash \in Buffers /\ main.stash \in Stashes(cache)
      /\ tier.bytes[main.stash] = Final(main.key)
  BY <1>1, NotedFacts
<1>4. main' = Idle => Kept(cache', main') = Stashes(cache)
  BY <1>1, IdleKept
<1>. QED BY <1>1, <1>2, <1>3, <1>4 DEF Asked

LEMMA NoteIfQueuedStep ==
  ASSUME MainInv, NoteIfQueued
  PROVE  MainInv' /\ Asked(call', tier', Kept(cache', main'))
<1> DEFINE k == main.key
           b == main.stash
           K == Stashes(cache)
           m == tier.candidates
           c == Bind(m, k, b)
<1>1. /\ main.at = "noteQueued" /\ UNCHANGED <<cache, file, writer>> /\ main' = Idle
      /\ \/ call' = Call(k, b) /\ tier' = tier
         \/ call' = NoCall /\ tier' = [tier EXCEPT !.candidates = c]
  BY DEF NoteIfQueued, At
<1>2. /\ k \in Content /\ b \in Buffers /\ b \in K /\ tier.bytes[b] = Final(k)
      /\ Sound(tier, writer, file, K, {})
      /\ cache \in Seq(Entries) /\ Len(cache) <= Capacity /\ Shelf(cache, tier)
      /\ file' \in [Keys -> Keys \cup {None}] /\ (writer' = NoOp \/ writer' \in Hands)
  BY <1>1, NotedFacts
<1>3. m \in Maps /\ tier \in Tiers
  BY <1>2, QueueFacts DEF Sound
<1>4. Kept(cache', main') = K
  BY <1>1, IdleKept
<1> HIDE DEF k, b, K
<1>5. CASE call' = Call(k, b) /\ tier' = tier
  <2>1. MainInv'
    BY <1>1, <1>5, NotedStep
  <2>2. Asked(call', tier', K)
    BY <1>2, <1>5 DEF Asked
  <2>. QED BY <1>4, <2>1, <2>2
<1>6. CASE call' = NoCall /\ tier' = [tier EXCEPT !.candidates = c]
  <2>1. \A x \in DOMAIN m : m[x] \in K /\ tier.bytes[m[x]] = Final(x)
    BY <1>2, <1>3, MapFacts DEF Sound, Pooled, Images
  <2> HIDE DEF m
  <2>2. /\ c \in Maps /\ DOMAIN c = DOMAIN m \cup {k} /\ c[k] = b
        /\ \A x \in DOMAIN m : x # k => c[x] = m[x]
    <3>1. c \in Maps
      BY <1>2, <1>3, BindFacts
    <3>. QED BY <3>1 DEF Bind
  <2> HIDE DEF c
  <2>3. \A x \in DOMAIN c : c[x] \in K /\ tier.bytes[c[x]] = Final(x)
    BY <1>2, <2>1, <2>2
  <2>4. /\ tier' \in Tiers /\ tier'.candidates = c /\ tier'.pool = tier.pool
        /\ tier'.bytes = tier.bytes /\ tier'.pending = tier.pending
        /\ tier'.deferred = tier.deferred /\ tier'.queue = tier.queue
    BY <1>3, <1>6, <2>2 DEF Tiers
  <2>5. Sound(tier', writer, file, K, {})
    BY <1>2, <2>3, <2>4, CandidatesSound
  <2>6. Shelf(cache, tier')
    BY <1>2, <2>4 DEF Shelf
  <2>7. MainInv'
    BY <1>1, <1>2, <2>5, <2>6, IdleSound DEF K
  <2>. QED BY <1>6, <2>7 DEF Asked
<1>. QED BY <1>1, <1>5, <1>6

LEMMA StorePageStep ==
  ASSUME MainInv, NEW k \in Keys, StorePage(k)
  PROVE  MainInv'
<1>1. /\ Resting /\ k \in Content /\ main' = Begin("drain", k, None, FALSE, <<>>, "page")
      /\ UNCHANGED <<cache, tier, file, writer>>
  BY DEF StorePage
<1>2. /\ main' \in Places /\ main'.at = "drain" /\ main'.key = k /\ main'.stash = None
      /\ main'.release = <<>> /\ main'.then = "page"
  <2>1. Begin("drain", k, None, FALSE, <<>>, "page") \in Places
    BY BeginFacts, NothingToRelease
  <2>. QED BY <1>1, <2>1 DEF Begin
<1>3. Kept(cache', main') = Stashes(cache)
  BY <1>1, <1>2, NothingToRelease
<1>4. Sound(tier', writer', file', Kept(cache', main'), {})
  BY <1>1, <1>3, AtRestFacts
<1>5. Course(cache', main')
  BY <1>1, <1>2 DEF Course
<1>6. Errand(cache', main', tier')
  BY <1>2, LightErrand
<1>. QED BY <1>1, <1>2, <1>4, <1>5, <1>6, BusySound DEF MainInv, Typed

LEMMA PagedStep ==
  ASSUME MainInv, main.at \in {"page", "pagePending"}, UNCHANGED <<cache, tier, file, writer>>,
         \/ main' = Idle
         \/ \E at \in {"pagePending", "pageRoom"} : main' = [main EXCEPT !.at = at]
  PROVE  MainInv'
<1>1. main \in Places /\ main.at # "idle"
  BY AtRest DEF MainInv, Typed
<1>2. main.then = "page" /\ main.key \in Content /\ main.release = <<>> /\ main.stash = None
  BY <1>1, CourseFacts DEF MainInv
<1>3. Kept(cache, main) = Stashes(cache)
  <2>1. Kept(cache, main) = Stashes(cache) \cup ({main.stash} \ {None})
    BY <1>1, <1>2, NothingToRelease
  <2>. QED BY <1>2, <2>1
<1>4. CASE main' = Idle
  BY <1>3, <1>4, IdleSound DEF MainInv, Typed
<1>5. ASSUME NEW at \in {"pagePending", "pageRoom"}, main' = [main EXCEPT !.at = at]
      PROVE  MainInv'
  <2>1. /\ main' \in Places /\ main'.at = at /\ main'.release = main.release
        /\ main'.key = main.key /\ main'.stash = main.stash /\ main'.then = main.then
    BY <1>1, <1>5 DEF Places
  <2>2. Kept(cache, main') = Kept(cache, main)
    BY <1>1, <2>1 DEF Kept
  <2>3. Course(cache, main')
    BY <1>2, <2>1 DEF Course
  <2>4. Errand(cache, main', tier)
    BY <1>2, <2>1, LightErrand
  <2>. QED BY <2>1, <2>2, <2>3, <2>4, BusySound DEF MainInv, Typed
<1>. QED BY <1>4, <1>5

LEMMA PageIfUnlistedStep ==
  ASSUME MainInv, PageIfUnlisted
  PROVE  MainInv'
<1>1. /\ main.at = "page" /\ UNCHANGED <<cache, tier, file, writer>>
      /\ main' = Idle \/ main' = [main EXCEPT !.at = "pagePending"]
  BY DEF PageIfUnlisted, At
<1>. QED BY <1>1, PagedStep

LEMMA PageIfUnqueuedStep ==
  ASSUME MainInv, PageIfUnqueued
  PROVE  MainInv'
<1>1. /\ main.at = "pagePending" /\ UNCHANGED <<cache, tier, file, writer>>
      /\ main' = Idle \/ main' = [main EXCEPT !.at = "pageRoom"]
  BY DEF PageIfUnqueued, At
<1>. QED BY <1>1, PagedStep

LEMMA QueuePageStep ==
  ASSUME MainInv, QueuePage
  PROVE  MainInv'
<1>1. main.at = "pageRoom" /\ tier' \in WritePage(tier, main.key) /\ main' = Idle /\ UNCHANGED <<cache, file, writer>>
  BY DEF QueuePage, At
<1>2. main \in Places /\ main.at # "idle"
  BY <1>1, AtRest DEF MainInv, Typed
<1>3. main.key \in Content /\ main.release = <<>> /\ main.stash = None
  BY <1>1, <1>2, CourseFacts DEF MainInv
<1>4. Kept(cache, main) = Stashes(cache)
  BY <1>2, <1>3, NothingToRelease
<1>5. /\ Sound(tier', writer, file, Stashes(cache), {}) /\ tier'.bytes = tier.bytes
  BY <1>1, <1>3, <1>4, WritePageSound DEF MainInv
<1>6. Shelf(cache, tier')
  BY <1>5 DEF MainInv, Shelf
<1>. QED BY <1>1, <1>5, <1>6, IdleSound DEF MainInv, Typed

LEMMA RekeyStep ==
  ASSUME MainInv, NEW k \in Keys, Rekey(k)
  PROVE  MainInv' /\ Asked(call', tier', Kept(cache', main'))
<1> DEFINE new == Rename[k]
           b == StashOf(k)
           K == Stashes(cache)
<1>1. /\ Resting /\ k \in Cached /\ k \in DOMAIN Rename /\ new \notin Cached
      /\ cache' = Rehouse(k, new) /\ UNCHANGED <<file, writer, main>>
      /\ \/ /\ k \in DOMAIN tier.candidates /\ call' = NoCall
            /\ tier' = [tier EXCEPT !.candidates = Bind(Forget(tier.candidates, k), new, tier.candidates[k])]
         \/ tier' \in ReplaceWrite(tier, k, new, b) /\ call' = NoCall
         \/ /\ tier' = tier \/ (k \in tier.states /\ tier' = DropState(tier, k))
            /\ call' = Call(new, b)
  BY DEF Rekey, Rehouse, Resting, At
<1>2. new \in Content /\ new \in Keys /\ Final(k) = new /\ Final(new) = new
  BY <1>1, RenameAssumption, KeysAssumption DEF Final
<1>3. cache \in Seq(Entries) /\ Shelf(cache, tier) /\ Len(cache) <= Capacity
  BY DEF MainInv, Typed
<1>4. main = Idle /\ Sound(tier, writer, file, K, {})
  BY <1>1, AtRestFacts
<1> HIDE DEF new
<1>5. /\ cache' \in Seq(Entries) /\ Len(cache') <= Len(cache) /\ Shelf(cache', tier)
      /\ Stashes(cache') = K /\ b \in K /\ b \in Buffers /\ tier.bytes[b] = Final(k)
  BY <1>1, <1>2, <1>3, Rehoused
<1> HIDE DEF b, K
<1>6. Sound(tier', writer, file, K, {}) /\ Unhurt(tier, tier', K)
  <2>1. CASE /\ k \in DOMAIN tier.candidates
             /\ tier' = [tier EXCEPT !.candidates = Bind(Forget(tier.candidates, k), new, tier.candidates[k])]
    BY <1>2, <1>4, <2>1, RenamedSound
  <2>2. CASE tier' \in ReplaceWrite(tier, k, new, b)
    BY <1>2, <1>4, <1>5, <2>2, ReplaceWriteSound
  <2>3. CASE tier' = tier
    BY <1>4, <2>3 DEF Unhurt
  <2>4. CASE k \in tier.states /\ tier' = DropState(tier, k)
    BY <1>4, <2>4, DropStateSound DEF Alike, Unhurt
  <2>. QED BY <1>1, <2>1, <2>2, <2>3, <2>4
<1>7. Shelf(cache', tier')
  BY <1>5, <1>6, ShelfKept
<1>8. Len(cache') <= Capacity
  BY <1>3, <1>5, LenProperties, CapacityAssumption
<1>9. file' \in [Keys -> Keys \cup {None}] /\ (writer' = NoOp \/ writer' \in Hands)
  BY <1>1 DEF MainInv, Typed
<1>10. MainInv'
  BY <1>1, <1>4, <1>5, <1>6, <1>7, <1>8, <1>9, IdleSound
<1>11. Kept(cache', main') = K
  BY <1>1, <1>4, <1>5, IdleKept
<1>12. tier'.bytes[b] = Final(new)
  BY <1>2, <1>5, <1>6 DEF Unhurt
<1>. QED BY <1>1, <1>2, <1>5, <1>10, <1>11, <1>12 DEF Asked

LEMMA PruneStrandedStep ==
  ASSUME MainInv, PruneStranded
  PROVE  MainInv'
<1>1. PICK gone \in SUBSET ToSet(cache) :
        /\ Resting /\ gone # {} /\ cache' = Dropped(cache, gone)
        /\ main' = Begin("release", None, None, FALSE,
                         LET out == Picked(cache, {i \in DOMAIN cache : cache[i] \in gone})
                         IN  [i \in DOMAIN out |-> out[i].stash], "trim")
        /\ UNCHANGED <<tier, file, writer>>
  BY DEF PruneStranded
<1> DEFINE T == {i \in DOMAIN cache : cache[i] \in gone}
           out == Picked(cache, T)
           r == [i \in DOMAIN out |-> out[i].stash]
<1>2. /\ cache \in Seq(Entries) /\ Len(cache) <= Capacity /\ Shelf(cache, tier)
      /\ DOMAIN cache = 1..Len(cache) /\ Len(cache) \in Nat
      /\ file' \in [Keys -> Keys \cup {None}] /\ (writer' = NoOp \/ writer' \in Hands)
  BY <1>1, StashFacts DEF MainInv, Typed
<1>3. T \in SUBSET (1..Len(cache)) /\ \A i \in 1..Len(cache) : i \in T <=> cache[i] \in gone
  BY <1>2
<1> HIDE DEF T
<1>4. /\ Picked(cache, T) \in Seq(Entries) /\ Len(Picked(cache, T)) \in Nat
      /\ \E h : Picks(h, Picked(cache, T), cache, T)
  BY <1>2, <1>3, PickedFacts
<1> HIDE DEF out
<1>a. PICK h : Picks(h, out, cache, T)
  BY <1>4 DEF out
<1>5. /\ h \in [1..Len(out) -> T] /\ \A i \in 1..Len(out) : out[i] = cache[h[i]]
      /\ \A i, j \in 1..Len(out) : i < j => h[i] < h[j]
      /\ \A k \in T : \E i \in 1..Len(out) : h[i] = k
  BY <1>a DEF Picks
<1>6. out \in Seq(Entries) /\ Len(out) \in Nat /\ DOMAIN out = 1..Len(out)
  BY <1>4, LenProperties DEF out
<1>7. \A i \in 1..Len(out) : h[i] \in T /\ h[i] \in 1..Len(cache)
  BY <1>3, <1>5
<1>8. \A i \in 1..Len(out) : r[i] = cache[h[i]].stash /\ r[i] \in Buffers
  <2>. TAKE i \in 1..Len(out)
  <2>1. h[i] \in 1..Len(cache) /\ out[i] = cache[h[i]]
    BY <1>5, <1>7
  <2>2. r[i] = out[i].stash
    BY <1>6
  <2>. QED BY <1>2, <2>1, <2>2, StashFacts
<1>9. r \in Seq(Buffers) /\ Len(r) = Len(out)
  BY <1>6, <1>8
<1> HIDE DEF r
<1>10. Distinct(r)
  <2>1. ASSUME NEW i \in 1..Len(r), NEW j \in 1..Len(r), r[i] = r[j]
        PROVE  i = j
    <3>1. h[i] = h[j] /\ h[i] \in Nat
      BY <1>2, <1>7, <1>8, <1>9, <2>1 DEF Shelf
    <3>2. ~ (i < j) /\ ~ (j < i)
      BY <1>5, <1>9, <3>1
    <3>. QED BY <1>6, <1>9, <3>2
  <2>. QED BY <2>1 DEF Distinct
<1>11. CutFrom(cache', cache, gone, tier)
  BY <1>1, <1>2, ShelfPart
<1>12. /\ cache' \in Seq(Entries) /\ Len(cache') <= Len(cache) /\ Shelf(cache', tier)
       /\ \A i \in 1..Len(cache') : cache'[i] \notin gone /\ \E j \in 1..Len(cache) : cache'[i] = cache[j]
       /\ \A j \in 1..Len(cache) : cache[j] \notin gone => \E i \in 1..Len(cache') : cache'[i] = cache[j]
  BY <1>11 DEF CutFrom
<1>13. Len(cache') <= Capacity
  BY <1>2, <1>12, LenProperties, CapacityAssumption
<1>14. ASSUME NEW x \in Stashes(cache')
       PROVE  x \in Stashes(cache) /\ \A i \in 1..Len(r) : r[i] # x
  <2>1. PICK y \in 1..Len(cache') : cache'[y].stash = x
    BY <1>12, StashFacts
  <2>2. PICK j \in 1..Len(cache) : cache'[y] = cache[j] /\ cache[j] \notin gone
    BY <1>12
  <2>3. x \in Stashes(cache)
    BY <1>2, <2>1, <2>2, StashFacts
  <2>4. ASSUME NEW i \in 1..Len(r), r[i] = x
        PROVE  FALSE
    <3>1. h[i] \in T /\ h[i] \in 1..Len(cache) /\ cache[h[i]].stash = cache[j].stash
      BY <1>7, <1>8, <1>9, <2>1, <2>2, <2>4
    <3>2. h[i] = j
      BY <1>2, <3>1 DEF Shelf
    <3>. QED BY <1>3, <2>2, <3>1, <3>2
  <2>. QED BY <2>3, <2>4
<1>15. \A i \in 1..Len(r) : r[i] \in Stashes(cache)
  BY <1>2, <1>7, <1>8, <1>9, StashFacts
<1>16. ASSUME NEW x \in Stashes(cache)
       PROVE  x \in Stashes(cache') \/ x \in ToSet(r)
  <2>1. PICK j \in 1..Len(cache) : cache[j].stash = x
    BY <1>2, StashFacts
  <2>2. CASE cache[j] \in gone
    <3>1. PICK i \in 1..Len(out) : h[i] = j
      BY <1>3, <1>5, <2>2
    <3>2. i \in 1..Len(r) /\ r[i] = x
      BY <1>8, <1>9, <2>1, <3>1
    <3>. QED BY <1>9, <3>2, InSequence
  <2>3. CASE cache[j] \notin gone
    <3>1. PICK i \in 1..Len(cache') : cache'[i] = cache[j]
      BY <1>12, <2>3
    <3>. QED BY <1>12, <2>1, <3>1, StashFacts
  <2>. QED BY <2>2, <2>3
<1>17. /\ main' \in Places /\ main'.at = "release" /\ main'.release = r /\ main'.then = "trim"
       /\ main'.stash = None
  <2>1. Begin("release", None, None, FALSE, r, "trim") \in Places
    BY <1>9, BeginFacts
  <2>2. main' = Begin("release", None, None, FALSE, r, "trim")
    BY <1>1 DEF r, out, T
  <2>. QED BY <2>1, <2>2 DEF Begin
<1>18. Kept(cache', main') = Stashes(cache)
  <2>1. Kept(cache', main') = Stashes(cache') \cup ToSet(r)
    BY <1>17 DEF Kept
  <2>2. \A x \in ToSet(r) : x \in Stashes(cache)
    BY <1>9, <1>15, InSequence
  <2>. QED BY <1>14, <1>16, <2>1, <2>2
<1>19. Sound(tier', writer', file', Kept(cache', main'), {}) /\ Shelf(cache', tier')
  BY <1>1, <1>12, <1>18, AtRestFacts
<1>20. Course(cache', main')
  BY <1>17 DEF Course
<1>21. Errand(cache', main', tier')
  <2>1. \A i \in 1..Len(r) : r[i] # None /\ r[i] \notin Stashes(cache')
    BY <1>8, <1>9, <1>14, KeysAssumption
  <2>. QED BY <1>10, <1>17, <2>1 DEF Errand
<1>. QED BY <1>1, <1>2, <1>12, <1>13, <1>17, <1>19, <1>20, <1>21, BusySound

\* The first stash to release is nobody else's.
LEMMA ReleaseFacts ==
  ASSUME MainInv, main.at \in {"release", "offer", "offerQueued"}, main.release # <<>>
  PROVE  /\ main \in Places /\ Head(main.release) \in Buffers
         /\ Head(main.release) \in Kept(cache, main)
         /\ Head(main.release) # main.stash /\ Head(main.release) \notin Stashes(cache)
         /\ Tail(main.release) \in Seq(Buffers) /\ Distinct(Tail(main.release))
         /\ \A i \in 1..Len(Tail(main.release)) :
              \E j \in 1..Len(main.release) : Tail(main.release)[i] = main.release[j]
         /\ \A m \in Places : m.release = Tail(main.release) /\ m.stash = main.stash =>
              /\ Kept(cache, m) \subseteq Kept(cache, main) /\ Head(main.release) \notin Kept(cache, m)
              /\ \A x \in Kept(cache, main) : x = Head(main.release) \/ x \in Kept(cache, m)
<1> DEFINE r == main.release
           b == Head(r)
           t == Tail(r)
           n == Len(r)
<1>1. main \in Places /\ r \in Seq(Buffers) /\ n \in Nat /\ r # <<>>
  BY AtRest, PlaceFacts DEF MainInv, Typed
<1>2. b = r[1] /\ n > 0 /\ t \in Seq(Buffers) /\ Len(t) = n - 1 /\ \A i \in 1..Len(t) : t[i] = r[i + 1]
  BY <1>1, HeadTailProperties, EmptySeq
<1>3. 1 \in 1..n /\ Len(t) \in Nat /\ \A i \in 1..Len(t) : i + 1 \in 1..n /\ i + 1 # 1
  BY <1>1, <1>2
<1>4. /\ Distinct(r) /\ \A i \in 1..n : r[i] # main.stash /\ r[i] \notin Stashes(cache)
  BY <1>1 DEF MainInv, Errand
<1>5. \A i \in 1..n : r[i] \in Buffers /\ r[i] \in Kept(cache, main)
  BY <1>1, PlaceFacts
<1> HIDE DEF b, t, n
<1>6. b \in Buffers /\ b \in Kept(cache, main) /\ b # main.stash /\ b \notin Stashes(cache)
  BY <1>2, <1>3, <1>4, <1>5
<1>7. \A i \in 1..Len(t) : t[i] # b
  BY <1>2, <1>3, <1>4 DEF Distinct, n
<1>8. Distinct(t)
  <2>1. ASSUME NEW i \in 1..Len(t), NEW j \in 1..Len(t), t[i] = t[j]
        PROVE  i = j
    <3>1. i + 1 = j + 1
      BY <1>2, <1>3, <1>4, <2>1 DEF Distinct, n
    <3>. QED BY <1>3, <3>1
  <2>. QED BY <2>1 DEF Distinct
<1>9. \A i \in 1..Len(t) : \E j \in 1..n : t[i] = r[j]
  BY <1>2, <1>3
<1>10. ASSUME NEW m \in Places, m.release = t, m.stash = main.stash
       PROVE  /\ Kept(cache, m) \subseteq Kept(cache, main) /\ b \notin Kept(cache, m)
              /\ \A x \in Kept(cache, main) : x = b \/ x \in Kept(cache, m)
  <2>1. /\ Kept(cache, main) = Stashes(cache) \cup (ToSet(r) \cup ({main.stash} \ {None}))
        /\ Kept(cache, m) = Stashes(cache) \cup (ToSet(t) \cup ({main.stash} \ {None}))
    BY <1>1, <1>10 DEF Kept
  <2>2. /\ \A x : x \in ToSet(r) <=> \E i \in 1..n : r[i] = x
        /\ \A x : x \in ToSet(t) <=> \E i \in 1..Len(t) : t[i] = x
    BY <1>1, <1>2, InSequence DEF n
  <2>3. \A x \in ToSet(t) : x \in ToSet(r) /\ x # b
    BY <1>7, <1>9, <2>2
  <2>4. \A x \in ToSet(r) : x = b \/ x \in ToSet(t)
    <3>. TAKE x \in ToSet(r)
    <3>1. PICK i \in 1..n : r[i] = x
      BY <2>2
    <3>2. i = 1 \/ i - 1 \in 1..Len(t)
      BY <1>1, <1>2, <1>3 DEF n
    <3>3. CASE i - 1 \in 1..Len(t)
      <4>1. t[i - 1] = r[(i - 1) + 1] /\ (i - 1) + 1 = i
        BY <1>2, <3>3
      <4>. QED BY <2>2, <3>1, <3>3, <4>1
    <3>. QED BY <1>2, <3>1, <3>2, <3>3
  <2>. QED BY <1>6, <2>1, <2>3, <2>4
<1>. QED BY <1>1, <1>2, <1>6, <1>8, <1>9, <1>10 DEF b, t, n

\* Who releases a stash is making room or pruning.
LEMMA ReleaseCourse ==
  ASSUME NEW c, NEW m, NEW p, Course(c, m), m.at \in {"release", "offer", "offerQueued"},
         p.at \in {"release", "offer", "offerQueued"}, p.then = m.then, p.key = m.key,
         p.new = m.new, p.stash = m.stash
  PROVE  Course(c, p)
<1>1. m.at # "idle"
  OBVIOUS
<1>2. \/ /\ m.then = "room" /\ m.key \in Keys /\ (m.new <=> m.stash = None)
         /\ \A i \in 1..Len(c) : c[i].key # m.key
      \/ m.then = "trim" /\ m.stash = None
  BY <1>1, CourseFacts
<1>. QED BY <1>2 DEF Course

LEMMA ReleaseNextStep ==
  ASSUME MainInv, ReleaseNext
  PROVE  MainInv'
<1> DEFINE b == Head(main.release)
           m == tier.candidates
           mine == {k \in DOMAIN m : m[k] = b}
           c == Restrict(m, DOMAIN m \ mine)
           K == Kept(cache, main)
<1>1. /\ main.at = "release" /\ main.release # <<>> /\ UNCHANGED <<cache, file, writer>>
      /\ tier' = [tier EXCEPT !.candidates = c]
      /\ main' = [main EXCEPT !.at = "offer", !.offers = mine]
  BY DEF ReleaseNext, At
<1>2. /\ main \in Places /\ b \in Buffers /\ b \in K
  BY <1>1, ReleaseFacts
<1>3. /\ tier \in Tiers /\ m \in Maps /\ Sound(tier, writer, file, K, {})
      /\ file' \in [Keys -> Keys \cup {None}] /\ (writer' = NoOp \/ writer' \in Hands)
      /\ cache \in Seq(Entries) /\ Len(cache) <= Capacity /\ Shelf(cache, tier)
  BY <1>1 DEF MainInv, Typed, Tiers
<1>4. mine \in SUBSET Content /\ \A k \in mine : tier.bytes[b] = Final(k)
  BY <1>3, MapFacts DEF Sound, Images
<1>5. \A x \in DOMAIN m : m[x] \in K /\ tier.bytes[m[x]] = Final(x) /\ m[x] \in Range(m)
  BY <1>3, MapFacts DEF Sound, Pooled, Images
<1>6. \A x \in DOMAIN m \ mine : m[x] # b
  OBVIOUS
<1> HIDE DEF mine, b, K, m
<1>7. c \in Maps /\ DOMAIN c = DOMAIN m \ mine /\ \A x \in DOMAIN m \ mine : c[x] = m[x]
  BY <1>3, RestrictFacts
<1> HIDE DEF c
<1>8. \A x \in DOMAIN c : c[x] \in K /\ tier.bytes[c[x]] = Final(x) /\ c[x] # b /\ c[x] \in Range(m)
  BY <1>5, <1>6, <1>7
<1>9. b \notin Range(c) /\ Range(c) \subseteq Range(m)
  BY <1>7, <1>8, MapFacts
<1>10. /\ tier' \in Tiers /\ tier'.candidates = c /\ tier'.pool = tier.pool
       /\ tier'.bytes = tier.bytes /\ tier'.states = tier.states /\ tier'.pending = tier.pending
       /\ tier'.deferred = tier.deferred /\ tier'.queue = tier.queue
  BY <1>1, <1>3, <1>7 DEF Tiers
<1>11. Sound(tier', writer, file, K, {})
  BY <1>3, <1>8, <1>10, CandidatesSound
<1>12. /\ main' \in Places /\ main'.at = "offer" /\ main'.offers = mine /\ main'.then = main.then
       /\ main'.key = main.key /\ main'.new = main.new /\ main'.stash = main.stash
       /\ main'.release = main.release
  BY <1>1, <1>2, <1>4 DEF Places
<1>13. Kept(cache, main') = K
  BY <1>2, <1>12 DEF Kept, K
<1>14. Course(cache, main')
  BY <1>1, <1>12, ReleaseCourse DEF MainInv
<1>15. Errand(cache, main', tier')
  <2>1. Errand(cache, main, tier)
    BY DEF MainInv
  <2>2. Head(main'.release) = b
    BY <1>12 DEF b
  <2>. QED BY <1>1, <1>2, <1>4, <1>9, <1>10, <1>12, <2>1, <2>2 DEF Errand
<1>16. Shelf(cache, tier')
  BY <1>3, <1>10 DEF Shelf
<1>. QED BY <1>1, <1>3, <1>11, <1>12, <1>13, <1>14, <1>15, <1>16, BusySound

\* The release goes on: the main thread offers the stash, or has offered it under one key.
LEMMA OfferedStep ==
  ASSUME MainInv, UNCHANGED <<cache, tier, file, writer>>,
         main.at \in {"offer", "offerQueued"}, NEW k \in main.offers,
         NEW at \in {"offer", "offerQueued"}, NEW S \in SUBSET main.offers,
         main' = [main EXCEPT !.at = at, !.offers = S],
         call' = NoCall \/ call' = Call(k, Head(main.release))
  PROVE  MainInv' /\ Asked(call', tier', Kept(cache', main'))
<1> DEFINE b == Head(main.release)
           K == Kept(cache, main)
<1>1. main \in Places /\ main.at # "idle"
  BY AtRest DEF MainInv, Typed
<1>2. /\ main.release # <<>> /\ b \notin Range(tier.candidates)
      /\ \A x \in main.offers : tier.bytes[b] = Final(x)
      /\ main.offers \subseteq Content
  BY <1>1, PlaceFacts DEF MainInv, Errand
<1>3. b \in Buffers /\ b \in K
  BY <1>2, ReleaseFacts
<1>4. /\ Sound(tier, writer, file, K, {})
      /\ file' \in [Keys -> Keys \cup {None}] /\ (writer' = NoOp \/ writer' \in Hands)
      /\ cache \in Seq(Entries) /\ Len(cache) <= Capacity /\ Shelf(cache, tier)
      /\ Stashes(cache) \subseteq K
  BY DEF MainInv, Typed, Kept
<1>5. call' = NoCall \/ call' = Call(k, b)
  OBVIOUS
<1> HIDE DEF b, K
<1>6. /\ main' \in Places /\ main'.at = at /\ main'.offers = S /\ main'.then = main.then
      /\ main'.key = main.key /\ main'.new = main.new /\ main'.stash = main.stash
      /\ main'.release = main.release
  BY <1>1, <1>2 DEF Places
<1>7. Kept(cache, main') = K
  BY <1>1, <1>6 DEF Kept, K
<1>8. Course(cache, main')
  BY <1>6, ReleaseCourse DEF MainInv
<1>9. Errand(cache, main', tier)
  <2>1. Errand(cache, main, tier)
    BY DEF MainInv
  <2>2. /\ Head(main'.release) \notin Range(tier.candidates)
        /\ \A x \in main'.offers : tier.bytes[Head(main'.release)] = Final(x)
    BY <1>2, <1>6 DEF b
  <2>. QED BY <1>1, <1>2, <1>6, <2>1, <2>2 DEF Errand
<1>10. MainInv'
  BY <1>4, <1>6, <1>7, <1>8, <1>9, BusySound
<1>11. Asked(call', tier', K)
  BY <1>2, <1>3, <1>5 DEF Asked
<1>. QED BY <1>7, <1>10, <1>11

LEMMA OfferIfOnDiskStep ==
  ASSUME MainInv, NEW k \in Keys, OfferIfOnDisk(k)
  PROVE  MainInv' /\ Asked(call', tier', Kept(cache', main'))
<1>1. main.at = "offer" /\ k \in main.offers /\ UNCHANGED <<cache, tier, file, writer>>
  BY DEF OfferIfOnDisk, At
<1>2. main \in Places
  BY <1>1, AtRest DEF MainInv, Typed
<1> DEFINE S == main.offers \ {k}
<1>3. CASE k \in tier.pages
  <2>1. call' = Call(k, Head(main.release)) /\ main' = [main EXCEPT !.offers = S]
    BY <1>3 DEF OfferIfOnDisk, At
  <2>2. main' = [main EXCEPT !.at = "offer", !.offers = S]
    BY <1>1, <1>2, <2>1 DEF Places
  <2>3. S \in SUBSET main.offers
    OBVIOUS
  <2> HIDE DEF S
  <2>. QED BY <1>1, <2>1, <2>2, <2>3, OfferedStep
<1>4. CASE k \notin tier.pages
  <2>1. call' = NoCall /\ main' = [main EXCEPT !.at = "offerQueued"]
    BY <1>4 DEF OfferIfOnDisk, At
  <2>2. main' = [main EXCEPT !.at = "offerQueued", !.offers = main.offers]
    BY <1>2, <2>1 DEF Places
  <2>3. main.offers \in SUBSET main.offers
    OBVIOUS
  <2>. QED BY <1>1, <2>1, <2>2, <2>3, OfferedStep
<1>. QED BY <1>3, <1>4

LEMMA OfferIfQueuedStep ==
  ASSUME MainInv, NEW k \in Keys, OfferIfQueued(k)
  PROVE  MainInv' /\ Asked(call', tier', Kept(cache', main'))
<1> DEFINE S == main.offers \ {k}
<1>1. /\ main.at = "offerQueued" /\ k \in main.offers /\ UNCHANGED <<cache, tier, file, writer>>
      /\ main' = [main EXCEPT !.at = "offer", !.offers = S]
      /\ call' = NoCall \/ call' = Call(k, Head(main.release))
  BY DEF OfferIfQueued, At
<1>2. S \in SUBSET main.offers
  OBVIOUS
<1> HIDE DEF S
<1>. QED BY <1>1, <1>2, OfferedStep

LEMMA SettleStep ==
  ASSUME MainInv, SettleRelease
  PROVE  MainInv'
<1> DEFINE b == Head(main.release)
           r == Tail(main.release)
           K == Kept(cache, main)
           L == Kept(cache, main')
<1>1. /\ main.at = "offer" /\ tier' = Settle(tier, b) /\ UNCHANGED <<cache, file, writer>>
      /\ main' = [main EXCEPT !.at = "release", !.release = r]
  BY DEF SettleRelease, At
<1>2. main \in Places /\ main.release # <<>> /\ b \notin Range(tier.candidates)
  <2>1. main \in Places
    BY <1>1, AtRest DEF MainInv, Typed
  <2>. QED BY <1>1, <2>1 DEF MainInv, Errand
<1>3. /\ b \in Buffers /\ b \in K /\ r \in Seq(Buffers) /\ Distinct(r)
      /\ \A i \in 1..Len(r) : \E j \in 1..Len(main.release) : r[i] = main.release[j]
  BY <1>1, <1>2, ReleaseFacts
<1>4. /\ main' \in Places /\ main'.at = "release" /\ main'.then = main.then /\ main'.key = main.key
      /\ main'.new = main.new /\ main'.stash = main.stash /\ main'.release = r
  BY <1>1, <1>2, <1>3 DEF Places
<1>5. L \subseteq K /\ b \notin L /\ \A x \in K : x = b \/ x \in L
  BY <1>1, <1>2, <1>4, ReleaseFacts
<1>6. /\ Sound(tier, writer, file, K, {})
      /\ file' \in [Keys -> Keys \cup {None}] /\ (writer' = NoOp \/ writer' \in Hands)
      /\ cache \in Seq(Entries) /\ Len(cache) <= Capacity /\ Shelf(cache, tier)
      /\ Stashes(cache) \subseteq L
  BY <1>1 DEF MainInv, Typed, Kept
<1> HIDE DEF b, r, K, L
<1>7. Range(tier.candidates) \subseteq L
  BY <1>2, <1>5, <1>6 DEF Sound, Pooled
<1>8. Sound(tier', writer, file, L, {}) /\ Unhurt(tier, tier', L)
  BY <1>1, <1>3, <1>5, <1>6, <1>7, SettleSound
<1>9. Course(cache, main')
  BY <1>1, <1>4, ReleaseCourse DEF MainInv
<1>10. Errand(cache, main', tier')
  <2>1. Errand(cache, main, tier)
    BY DEF MainInv
  <2>2. \A i \in 1..Len(main.release) : main.release[i] # main.stash /\ main.release[i] \notin Stashes(cache)
    BY <1>2, <2>1 DEF Errand
  <2>3. \A i \in 1..Len(r) : r[i] # main.stash /\ r[i] \notin Stashes(cache)
    BY <1>3, <2>2
  <2>4. main.stash # None => main.stash \in L /\ main.stash \in Buffers
    BY <1>4, PlaceFacts DEF L
  <2>5. main.stash # None => tier'.bytes[main.stash] = Final(main.key)
    BY <1>2, <1>8, <2>1, <2>4 DEF Errand, Unhurt
  <2>6. main.then = "room" => main.stash \notin Stashes(cache)
    BY <1>2, <2>1 DEF Errand
  <2>. QED BY <1>3, <1>4, <2>3, <2>5, <2>6 DEF Errand
<1>11. Shelf(cache, tier')
  BY <1>6, <1>8, ShelfKept
<1>. QED BY <1>1, <1>4, <1>6, <1>8, <1>9, <1>10, <1>11, BusySound DEF L

LEMMA ReleasedStep ==
  ASSUME MainInv, Released
  PROVE  MainInv'
<1>1. /\ main.at = "release" /\ main.release = <<>> /\ UNCHANGED <<cache, file, writer>>
      /\ main' = IF main.then = "room" THEN [main EXCEPT !.at = "room"] ELSE Idle
      /\ tier' = IF main.then = "trim" THEN [tier EXCEPT !.pool = <<>>] ELSE tier
  BY DEF Released, At
<1>2. main \in Places /\ main.at # "idle"
  BY <1>1, AtRest DEF MainInv, Typed
<1>3. \/ /\ main.then = "room" /\ main.key \in Keys /\ (main.new <=> main.stash = None)
         /\ \A i \in 1..Len(cache) : cache[i].key # main.key
      \/ main.then = "trim" /\ main.stash = None
  BY <1>1, <1>2, CourseFacts DEF MainInv
<1>4. Kept(cache, main) = Stashes(cache) \cup ({main.stash} \ {None})
  BY <1>1, <1>2, NothingToRelease
<1>5. /\ Sound(tier, writer, file, Kept(cache, main), {}) /\ Errand(cache, main, tier)
      /\ file' \in [Keys -> Keys \cup {None}] /\ (writer' = NoOp \/ writer' \in Hands)
      /\ cache \in Seq(Entries) /\ Len(cache) <= Capacity /\ Shelf(cache, tier)
  BY <1>1 DEF MainInv, Typed
<1>6. CASE main.then = "room"
  <2>1. /\ tier' = tier /\ main' \in Places /\ main'.at = "room" /\ main'.then = "room"
        /\ main'.key = main.key /\ main'.new = main.new /\ main'.stash = main.stash
        /\ main'.release = <<>>
    BY <1>1, <1>2, <1>6 DEF Places
  <2>2. Kept(cache, main') = Kept(cache, main)
    BY <1>4, <2>1, NothingToRelease
  <2>3. Course(cache, main')
    BY <1>3, <1>6, <2>1 DEF Course
  <2>4. Errand(cache, main', tier')
    <3>1. /\ main.stash # None => tier.bytes[main.stash] = Final(main.key)
          /\ main.stash \notin Stashes(cache)
      BY <1>2, <1>5, <1>6 DEF Errand
    <3>. QED BY <2>1, <3>1, LightErrand
  <2>. QED BY <1>1, <1>5, <2>1, <2>2, <2>3, <2>4, BusySound
<1>7. CASE main.then = "trim"
  <2>1. tier' = [tier EXCEPT !.pool = <<>>] /\ main' = Idle /\ Kept(cache, main) = Stashes(cache)
    BY <1>1, <1>3, <1>4, <1>7
  <2>2. tier \in Tiers
    BY <1>5 DEF Sound
  <2>3. /\ tier' \in Tiers /\ tier'.pool = <<>>
        /\ tier'.bytes = tier.bytes /\ tier'.states = tier.states /\ tier'.pending = tier.pending
        /\ tier'.deferred = tier.deferred /\ tier'.queue = tier.queue
        /\ tier'.candidates = tier.candidates
    BY <2>1, <2>2, NothingToRelease DEF Tiers
  <2>4. Distinct(tier'.pool) /\ \A i \in 1..Len(tier'.pool) : FALSE
    BY <2>3, NothingToRelease
  <2>5. Writes(tier', writer, {}) /\ Images(tier', file, writer)
    BY <1>5, <2>3 DEF Sound, Writes, Images
  <2>6. Pooled(tier', Stashes(cache))
    BY <1>5, <2>1, <2>3, <2>4 DEF Sound, Pooled
  <2>7. Shelf(cache, tier')
    BY <1>5, <2>3 DEF Shelf
  <2>. QED BY <1>1, <1>5, <2>1, <2>3, <2>5, <2>6, <2>7, IdleSound DEF Sound
<1>. QED BY <1>3, <1>6, <1>7

-----------------------------------------------------------------------------
(* Flushing, pruning and aborting.                                          *)

LEMMA FlushStatesStep ==
  ASSUME MainInv, FlushStates
  PROVE  MainInv'
<1> DEFINE S == Cached \cap Content
           m == Begin("flush", None, None, FALSE, <<>>, "flush")
<1>1. Resting /\ main' = [m EXCEPT !.offers = S] /\ UNCHANGED <<cache, tier, file, writer>>
  BY DEF FlushStates
<1>2. /\ m \in Places /\ m.at = "flush" /\ m.stash = None /\ m.release = <<>> /\ m.then = "flush"
  <2>1. m \in Places
    BY BeginFacts, NothingToRelease
  <2>. QED BY <2>1 DEF Begin
<1>3. S \in SUBSET Content
  OBVIOUS
<1> HIDE DEF S, m
<1>4. /\ main' \in Places /\ main'.at = "flush" /\ main'.stash = None /\ main'.release = <<>>
      /\ main'.then = "flush"
  BY <1>1, <1>2, <1>3 DEF Places
<1>5. Kept(cache', main') = Stashes(cache)
  <2>1. Kept(cache, main') = Stashes(cache) \cup ({main'.stash} \ {None})
    BY <1>4, NothingToRelease
  <2>. QED BY <1>1, <1>4, <2>1
<1>6. Sound(tier', writer', file', Kept(cache', main'), {})
  BY <1>1, <1>5, AtRestFacts
<1>7. Course(cache', main')
  BY <1>4 DEF Course
<1>8. Errand(cache', main', tier')
  BY <1>4, LightErrand
<1>. QED BY <1>1, <1>4, <1>6, <1>7, <1>8, BusySound DEF MainInv, Typed

LEMMA FlushFacts ==
  ASSUME MainInv, main.at \in {"flush", "flushQueued"}
  PROVE  /\ main \in Places /\ main.then = "flush" /\ main.release = <<>> /\ main.stash = None
         /\ Kept(cache, main) = Stashes(cache)
<1>1. main \in Places
  BY AtRest DEF MainInv, Typed
<1>2. main.then = "flush" /\ main.release = <<>> /\ main.stash = None
  BY <1>1, AtRest DEF MainInv, Course
<1>. QED BY ZenonT(30), <1>1, <1>2, NothingToRelease

\* One of the checkpoints that are flushed has been looked at.
LEMMA FlushedStep ==
  ASSUME MainInv, UNCHANGED <<cache, tier, file, writer>>, main.at \in {"flush", "flushQueued"},
         NEW at \in {"flush", "flushQueued"}, NEW S \in SUBSET main.offers,
         main' = [main EXCEPT !.at = at, !.offers = S],
         NEW i \in DOMAIN cache, cache[i].key \in main.offers,
         call' = NoCall \/ call' = Call(cache[i].key, cache[i].stash)
  PROVE  MainInv' /\ Asked(call', tier', Kept(cache', main'))
<1> DEFINE k == cache[i].key
           b == cache[i].stash
           K == Stashes(cache)
<1>1. /\ main \in Places /\ main.then = "flush" /\ main.release = <<>> /\ main.stash = None
      /\ Kept(cache, main) = K
  BY FlushFacts
<1>2. main.offers \in SUBSET Content
  BY <1>1 DEF Places
<1>3. /\ cache \in Seq(Entries) /\ Len(cache) <= Capacity /\ Shelf(cache, tier)
      /\ Sound(tier, writer, file, K, {})
      /\ file' \in [Keys -> Keys \cup {None}] /\ (writer' = NoOp \/ writer' \in Hands)
  BY <1>1 DEF MainInv, Typed
<1>4. i \in 1..Len(cache) /\ k \in Content /\ b \in Buffers /\ b \in K /\ tier.bytes[b] = Final(k)
  BY <1>2, <1>3, StashFacts DEF Shelf
<1>5. call' = NoCall \/ call' = Call(k, b)
  OBVIOUS
<1> HIDE DEF k, b, K
<1>6. /\ main' \in Places /\ main'.at = at /\ main'.stash = None /\ main'.release = <<>>
      /\ main'.then = "flush"
  BY <1>1, <1>2 DEF Places
<1>7. Kept(cache, main') = K
  BY ZenonT(30), <1>6, NothingToRelease DEF K
<1>8. Course(cache, main') /\ Errand(cache, main', tier)
  <2>1. Course(cache, main')
    BY <1>6 DEF Course
  <2>. QED BY <1>6, <2>1, LightErrand
<1>9. MainInv'
  BY <1>3, <1>6, <1>7, <1>8, BusySound
<1>10. Asked(call', tier', K)
  BY <1>4, <1>5 DEF Asked
<1>. QED BY <1>7, <1>9, <1>10

LEMMA FlushIfOnDiskStep ==
  ASSUME MainInv, FlushIfOnDisk
  PROVE  MainInv' /\ Asked(call', tier', Kept(cache', main'))
<1>1. main.at = "flush" /\ call = NoCall /\ UNCHANGED <<cache, tier, file, writer>>
  BY DEF FlushIfOnDisk, At
<1>2. PICK i \in DOMAIN cache :
        /\ cache[i].key \in main.offers
        /\ \/ /\ call' = Call(cache[i].key, cache[i].stash)
              /\ main' = [main EXCEPT !.offers = main.offers \ {cache[i].key}]
           \/ main' = [main EXCEPT !.at = "flushQueued"] /\ call' = NoCall
  BY <1>1 DEF FlushIfOnDisk, Foremost
<1>3. main \in Places
  BY <1>1, FlushFacts
<1>4. PICK S \in SUBSET main.offers, at \in {"flush", "flushQueued"} :
        main' = [main EXCEPT !.at = at, !.offers = S]
  <2>1. CASE main' = [main EXCEPT !.offers = main.offers \ {cache[i].key}]
    <3>1. main' = [main EXCEPT !.at = "flush", !.offers = main.offers \ {cache[i].key}]
      BY <1>1, <1>3, <2>1 DEF Places
    <3>. QED BY <3>1
  <2>2. CASE main' = [main EXCEPT !.at = "flushQueued"]
    <3>1. main' = [main EXCEPT !.at = "flushQueued", !.offers = main.offers]
      BY <1>3, <2>2 DEF Places
    <3>. QED BY <3>1
  <2>. QED BY <1>2, <2>1, <2>2
<1>. QED BY <1>1, <1>2, <1>4, FlushedStep

LEMMA FlushIfQueuedStep ==
  ASSUME MainInv, FlushIfQueued
  PROVE  MainInv' /\ Asked(call', tier', Kept(cache', main'))
<1>1. main.at = "flushQueued" /\ UNCHANGED <<cache, tier, file, writer>>
  BY DEF FlushIfQueued, At
<1>2. PICK i \in DOMAIN cache :
        /\ cache[i].key \in main.offers
        /\ call' = NoCall \/ call' = Call(cache[i].key, cache[i].stash)
        /\ main' = [main EXCEPT !.at = "flush", !.offers = main.offers \ {cache[i].key}]
  BY DEF FlushIfQueued, Foremost
<1>3. PICK S \in SUBSET main.offers : main' = [main EXCEPT !.at = "flush", !.offers = S]
  BY <1>2
<1>. QED BY <1>1, <1>2, <1>3, FlushedStep

LEMMA PruneStatesStep ==
  ASSUME MainInv, PruneStates
  PROVE  MainInv'
<1>1. main.at = "flush" /\ main' = Idle /\ UNCHANGED <<cache, file, writer>>
  BY DEF PruneStates, At
<1>2. PICK gone \in SUBSET (tier.states \ DOMAIN tier.pending) : tier' = DropStates(tier, gone)
  BY DEF PruneStates, At
<1>3. gone \in SUBSET tier.states
  BY <1>2
<1>4. /\ cache \in Seq(Entries) /\ Len(cache) <= Capacity /\ Shelf(cache, tier)
      /\ Sound(tier, writer, file, Stashes(cache), {})
      /\ file' \in [Keys -> Keys \cup {None}] /\ (writer' = NoOp \/ writer' \in Hands)
  BY <1>1, FlushFacts DEF MainInv, Typed
<1>5. Sound(tier', writer, file, Stashes(cache), {}) /\ tier'.bytes = tier.bytes
  BY <1>2, <1>3, <1>4, DropStatesSound DEF Alike
<1>6. Shelf(cache, tier')
  BY <1>4, <1>5 DEF Shelf
<1>. QED BY <1>1, <1>4, <1>5, <1>6, IdleSound

LEMMA AbortStep ==
  ASSUME MainInv, Abort
  PROVE  MainInv'
<1> DEFINE u == [tier EXCEPT !.writes = "off", !.candidates = <<>>]
           K == Kept(cache, main)
<1>1. tier' = DropQueuedWrites(u) /\ UNCHANGED <<cache, file, writer, main>>
  BY DEF Abort
<1>2. tier \in Tiers /\ Sound(tier, writer, file, K, {})
  BY DEF MainInv, Typed
<1>3. <<>> \in Maps /\ DOMAIN <<>> = {} /\ Range(<<>>) = {}
  BY NothingBound
<1>4. /\ u \in Tiers /\ u.candidates = <<>> /\ u.pool = tier.pool /\ u.bytes = tier.bytes
      /\ u.pending = tier.pending /\ u.deferred = tier.deferred
      /\ u.queue = tier.queue
  BY <1>2, <1>3 DEF Tiers
<1> HIDE DEF u, K
<1>5. \A k \in DOMAIN u.candidates : FALSE
  BY <1>3, <1>4
<1>6. Sound(u, writer, file, K, {})
  BY <1>2, <1>4, <1>5, CandidatesSound
<1>7. /\ Sound(tier', writer, file, K, {}) /\ tier'.candidates = <<>>
      /\ \A c \in Buffers : c \in K => tier'.bytes[c] = tier.bytes[c]
  BY <1>1, <1>4, <1>6, DropWritesSound
<1>8. Unhurt(tier, tier', K)
  BY <1>3, <1>7 DEF Unhurt
<1>9. file' \in [Keys -> Keys \cup {None}] /\ (writer' = NoOp \/ writer' \in Hands)
  BY <1>1 DEF MainInv, Typed
<1>. QED BY <1>1, <1>7, <1>8, <1>9, BehindSound DEF K

-----------------------------------------------------------------------------
(* write_state().                                                           *)

\* A step of the call, of the writer or of the disk, which the rest of the main thread does
\* not notice.
LEMMA UnnoticedStep ==
  ASSUME CheckInv, UNCHANGED <<cache, main>>, file' \in [Keys -> Keys \cup {None}],
         writer' = NoOp \/ writer' \in Hands,
         Sound(tier', writer', file', Kept(cache, main), Reserving(call')),
         Unhurt(tier, tier', Kept(cache, main)), Calling(call', tier', Kept(cache, main))
  PROVE  CheckInv'
<1>1. Typed'
  BY DEF CheckInv, Typed, Sound
<1>2. Stashes(cache) \subseteq Kept(cache, main)
  BY DEF Kept
<1>3. Shelf(cache, tier')
  BY <1>2, ShelfKept DEF CheckInv, Typed
<1>4. Errand(cache, main, tier')
  BY ErrandKept DEF CheckInv
<1>. QED BY <1>1, <1>3, <1>4 DEF CheckInv

LEMMA CallFacts ==
  ASSUME CheckInv, call.at \in {"states", "pending", "room", "queue", "failed"}
  PROVE  /\ call \in Calls /\ call.key \in Content /\ call.stash \in Buffers
         /\ call.stash \in Kept(cache, main) /\ tier.bytes[call.stash] = Final(call.key)
         /\ file \in [Keys -> Keys \cup {None}] /\ (writer = NoOp \/ writer \in Hands)
         /\ Sound(tier, writer, file, Kept(cache, main), Reserving(call))
<1>1. call # NoCall
  BY DEF NoCall
<1>2. /\ call \in Calls /\ call.stash \in Kept(cache, main)
      /\ tier.bytes[call.stash] = Final(call.key)
  BY <1>1 DEF CheckInv, Calling
<1>. QED BY <1>2 DEF CheckInv, Typed, Calls

\* The call goes on to its next step, or returns; the tables stay.
LEMMA CalledStep ==
  ASSUME CheckInv, UNCHANGED <<cache, tier, file, writer, main>>,
         call.at \in {"states", "pending", "room"},
         \/ call' = NoCall
         \/ call' = [call EXCEPT !.at = "pending"]
         \/ call' = [call EXCEPT !.at = "room"] /\ call.key \notin DOMAIN tier.pending
  PROVE  CheckInv'
<1> DEFINE K == Kept(cache, main)
<1>1. /\ call \in Calls /\ call.stash \in K /\ tier.bytes[call.stash] = Final(call.key)
      /\ file \in [Keys -> Keys \cup {None}] /\ (writer = NoOp \/ writer \in Hands)
      /\ Sound(tier, writer, file, K, Reserving(call))
  BY CallFacts
<1> HIDE DEF K
<1>2. Reserving(call) = {}
  BY DEF Reserving
<1>3. Unhurt(tier, tier, K)
  BY DEF Unhurt
<1>4. CASE call' = NoCall
  <2>1. Reserving(call') = {}
    BY <1>4, AtRest
  <2>2. Calling(call', tier, K)
    BY <1>4 DEF Calling
  <2>. QED BY <1>1, <1>2, <1>3, <2>1, <2>2, UnnoticedStep DEF K
<1>5. ASSUME NEW at \in {"pending", "room"}, call' = [call EXCEPT !.at = at],
             at = "room" => call.key \notin DOMAIN tier.pending
      PROVE  CheckInv'
  <2>1. call' \in Calls /\ call'.at = at /\ call'.key = call.key /\ call'.stash = call.stash
    BY <1>1, <1>5 DEF Calls
  <2>2. Reserving(call') = {}
    BY <2>1 DEF Reserving
  <2>3. Calling(call', tier, K)
    BY <1>1, <1>5, <2>1 DEF Calling
  <2>. QED BY <1>1, <1>2, <1>3, <2>2, <2>3, UnnoticedStep DEF K
<1>. QED BY <1>4, <1>5

LEMMA CheckListedStep ==
  ASSUME CheckInv, CheckListed
  PROVE  CheckInv'
<1>1. call.at = "states" /\ (call' = NoCall \/ call' = [call EXCEPT !.at = "pending"])
  BY DEF CheckListed
<1>2. UNCHANGED <<cache, tier, file, writer, main>>
  BY DEF CheckListed
<1>. QED BY <1>1, <1>2, CalledStep

LEMMA CheckPendingStep ==
  ASSUME CheckInv, CheckPending
  PROVE  CheckInv'
<1>1. /\ call.at = "pending"
      /\ \/ call' = NoCall
         \/ call' = [call EXCEPT !.at = "room"] /\ call.key \notin DOMAIN tier.pending
  BY DEF CheckPending
<1>2. UNCHANGED <<cache, tier, file, writer, main>>
  BY DEF CheckPending
<1>. QED BY <1>1, <1>2, CalledStep

LEMMA ReserveWriteStep ==
  ASSUME CheckInv, ReserveWrite
  PROVE  CheckInv'
<1> DEFINE K == Kept(cache, main)
           k == call.key
           b == call.stash
<1>1. call.at = "room" /\ UNCHANGED <<cache, file, writer, main>>
  BY DEF ReserveWrite
<1>2. CASE call' = NoCall /\ tier' = tier
  BY <1>1, <1>2, CalledStep
<1>3. ASSUME call' = [call EXCEPT !.at = "queue"],
             NEW t \in MakeRoom(tier), tier' = Reserved(t, k, b)
      PROVE  CheckInv'
  <2>1. /\ call \in Calls /\ k \in Content /\ b \in Buffers /\ b \in K
        /\ tier.bytes[b] = Final(k)
        /\ file \in [Keys -> Keys \cup {None}] /\ (writer = NoOp \/ writer \in Hands)
        /\ Sound(tier, writer, file, K, Reserving(call))
    BY <1>1, CallFacts
  <2>2. Reserving(call) = {}
    BY <1>1 DEF Reserving
  <2>3. k \notin DOMAIN tier.pending
    <3>1. call # NoCall
      BY <2>1, AtRest
    <3>. QED BY <1>1, <3>1 DEF CheckInv, Calling
  <2>4. call' \in Calls /\ call'.at = "queue" /\ call'.key = k /\ call'.stash = b
    BY <1>3, <2>1 DEF Calls
  <2> HIDE DEF K, k, b
  <2>5. Sound(t, writer, file, K, {}) /\ Alike(tier, t)
    BY <1>3, <2>1, <2>2, MakeRoomSound
  <2>6. k \notin DOMAIN t.pending /\ t.bytes[b] = Final(k)
    BY <2>1, <2>3, <2>5 DEF Alike
  <2>7. /\ Sound(tier', writer, file, K, Only(k)) /\ k \in DOMAIN tier'.pending
        /\ tier'.pending[k] = b /\ tier'.bytes = t.bytes /\ tier'.candidates = t.candidates
    BY <1>3, <2>1, <2>5, <2>6, ReservedSound
  <2>8. Unhurt(tier, tier', K)
    BY <2>5, <2>7 DEF Unhurt, Alike
  <2>9. Reserving(call') = Only(k)
    BY <2>4 DEF Reserving
  <2>10. Calling(call', tier', K)
    BY <2>1, <2>4, <2>6, <2>7 DEF Calling
  <2>. QED BY <1>1, <2>1, <2>7, <2>8, <2>9, <2>10, UnnoticedStep DEF K
<1>. QED BY <1>2, <1>3 DEF ReserveWrite

\* What the last steps of the call start from.
LEMMA QueueingFacts ==
  ASSUME CheckInv, call.at = "queue"
  PROVE  /\ Sound(tier, writer, file, Kept(cache, main), Only(call.key))
         /\ call.key \in DOMAIN tier.pending /\ tier.pending[call.key] = call.stash
<1>1. Sound(tier, writer, file, Kept(cache, main), Reserving(call)) /\ call \in Calls
  BY CallFacts
<1>2. call # NoCall
  BY <1>1, AtRest
<1>3. call.key \in DOMAIN tier.pending /\ tier.pending[call.key] = call.stash
  BY <1>2 DEF CheckInv, Calling
<1>. QED BY <1>1, <1>3 DEF Reserving

LEMMA QueueWriteStep ==
  ASSUME CheckInv, QueueWrite
  PROVE  CheckInv'
<1> DEFINE K == Kept(cache, main)
           k == call.key
           b == call.stash
<1>1. /\ call.at = "queue" /\ tier' = Queued(tier, k, b) /\ call' = NoCall
      /\ UNCHANGED <<cache, file, writer, main>>
  BY DEF QueueWrite
<1>2. /\ k \in Content /\ b \in Buffers
      /\ file \in [Keys -> Keys \cup {None}] /\ (writer = NoOp \/ writer \in Hands)
  BY <1>1, CallFacts
<1>3. Sound(tier, writer, file, K, Only(k)) /\ k \in DOMAIN tier.pending /\ tier.pending[k] = b
  BY <1>1, QueueingFacts
<1> HIDE DEF K, k, b
<1>4. /\ Sound(tier', writer, file, K, {}) /\ tier'.bytes = tier.bytes
      /\ tier'.candidates = tier.candidates
  BY <1>1, <1>2, <1>3, QueuedSound
<1>5. Unhurt(tier, tier', K)
  BY <1>4 DEF Unhurt
<1>6. Reserving(call') = {} /\ Calling(call', tier', K)
  BY <1>1, AtRest DEF Calling
<1>. QED BY <1>1, <1>2, <1>4, <1>5, <1>6, UnnoticedStep DEF K

LEMMA LayoutFailsStep ==
  ASSUME CheckInv, LayoutFails
  PROVE  CheckInv'
<1> DEFINE K == Kept(cache, main)
           k == call.key
<1>1. /\ call.at = "queue" /\ tier' = StateWritten(tier, k)
      /\ call' = [call EXCEPT !.at = "failed"] /\ UNCHANGED <<cache, file, writer, main>>
  BY DEF LayoutFails
<1>2. /\ call \in Calls /\ call.stash \in Buffers /\ call.stash \in K
      /\ tier.bytes[call.stash] = Final(k)
      /\ file \in [Keys -> Keys \cup {None}] /\ (writer = NoOp \/ writer \in Hands)
  BY <1>1, CallFacts
<1>3. Sound(tier, writer, file, K, Only(k))
  BY <1>1, QueueingFacts
<1>4. /\ call' \in Calls /\ call'.at = "failed" /\ call'.key = k
      /\ call'.stash = call.stash
  BY <1>1, <1>2 DEF Calls
<1> HIDE DEF K, k
<1>5. {} \cup Only(k) = Only(k) /\ k \notin {}
  OBVIOUS
<1>6. tier \in Tiers /\ Writes(tier, writer, {} \cup Only(k)) /\ Pooled(tier, K) /\ Images(tier, file, writer)
  BY <1>3, <1>5 DEF Sound
<1>7. Sound(tier', writer, file, K, {}) /\ Unhurt(tier, tier', K)
  BY <1>1, <1>5, <1>6, StateWrittenSound
<1>8. Reserving(call') = {}
  BY <1>4 DEF Reserving
<1>9. Calling(call', tier', K)
  BY <1>2, <1>4, <1>7 DEF Calling, Unhurt
<1>. QED BY <1>1, <1>2, <1>7, <1>8, <1>9, UnnoticedStep DEF K

LEMMA LayoutFailedStep ==
  ASSUME CheckInv, LayoutFailed
  PROVE  CheckInv'
<1> DEFINE K == Kept(cache, main)
<1>1. /\ call.at = "failed" /\ tier' \in WriteFailed(tier) /\ call' = NoCall
      /\ UNCHANGED <<cache, file, writer, main>>
  BY DEF LayoutFailed
<1>2. /\ file \in [Keys -> Keys \cup {None}] /\ (writer = NoOp \/ writer \in Hands)
      /\ Sound(tier, writer, file, K, Reserving(call))
  BY <1>1, CallFacts
<1> HIDE DEF K
<1>3. Reserving(call) = {}
  BY <1>1 DEF Reserving
<1>4. Sound(tier', writer, file, K, {}) /\ Unhurt(tier, tier', K)
  BY <1>1, <1>2, <1>3, WriteFailedSound
<1>5. Reserving(call') = {} /\ Calling(call', tier', K)
  BY <1>1, AtRest DEF Calling
<1>. QED BY <1>1, <1>2, <1>4, <1>5, UnnoticedStep DEF K

-----------------------------------------------------------------------------
(* The writer thread, and the disk.                                         *)

\* They may run at any step of the main thread, the call of write_state() included.
LEMMA BackgroundSound ==
  ASSUME CheckInv, UNCHANGED <<cache, main, call>>, file' \in [Keys -> Keys \cup {None}],
         writer' = NoOp \/ writer' \in Hands,
         Sound(tier', writer', file', Kept(cache, main), Reserving(call)),
         Unhurt(tier, tier', Kept(cache, main)), Retained(tier, tier', Reserving(call))
  PROVE  CheckInv'
<1> DEFINE K == Kept(cache, main)
<1>1. ASSUME call # NoCall
      PROVE  /\ call \in Calls /\ call.stash \in K /\ tier'.bytes[call.stash] = Final(call.key)
             /\ call.at = "room" => call.key \notin DOMAIN tier'.pending
             /\ call.at = "queue" =>
                  call.key \in DOMAIN tier'.pending /\ tier'.pending[call.key] = call.stash
  <2>1. /\ call \in Calls /\ call.stash \in K /\ tier.bytes[call.stash] = Final(call.key)
        /\ call.at = "room" => call.key \notin DOMAIN tier.pending
        /\ call.at = "queue" =>
             call.key \in DOMAIN tier.pending /\ tier.pending[call.key] = call.stash
    BY <1>1 DEF CheckInv, Calling
  <2>2. call.stash \in Buffers
    BY <2>1 DEF Calls
  <2>3. tier'.bytes[call.stash] = Final(call.key)
    BY <2>1, <2>2 DEF Unhurt
  <2>4. call.at = "room" => call.key \notin DOMAIN tier'.pending
    BY <2>1 DEF Retained
  <2>5. call.at = "queue" => call.key \in Reserving(call)
    BY DEF Reserving, Only
  <2>. QED BY <2>1, <2>3, <2>4, <2>5 DEF Retained
<1>2. Calling(call, tier', K)
  BY <1>1 DEF Calling
<1>. QED BY <1>2, UnnoticedStep

LEMMA SpaceReturnsStep ==
  ASSUME CheckInv, SpaceReturns
  PROVE  CheckInv'
<1> DEFINE K == Kept(cache, main)
           X == Reserving(call)
<1>1. tier' = [tier EXCEPT !.writes = "on"] /\ UNCHANGED <<cache, file, writer, main, call>>
  BY DEF SpaceReturns
<1>2. tier \in Tiers /\ Sound(tier, writer, file, K, X)
  BY DEF CheckInv, Typed
<1>3. /\ tier' \in Tiers /\ tier'.candidates = tier.candidates /\ tier'.pool = tier.pool
      /\ tier'.bytes = tier.bytes /\ tier'.pending = tier.pending
      /\ tier'.deferred = tier.deferred /\ tier'.queue = tier.queue
  BY <1>1, <1>2 DEF Tiers
<1> HIDE DEF K, X
<1>4. Sound(tier', writer, file, K, X)
  BY <1>2, <1>3, UnlistedSound
<1>5. Unhurt(tier, tier', K) /\ Retained(tier, tier', X)
  BY <1>3 DEF Unhurt, Retained
<1>6. file' \in [Keys -> Keys \cup {None}] /\ (writer' = NoOp \/ writer' \in Hands)
  BY <1>1 DEF CheckInv, Typed
<1>. QED BY <1>1, <1>4, <1>5, <1>6, BackgroundSound DEF K, X

LEMMA HeadTail ==
  ASSUME NEW E, NEW q \in Seq(E), q # <<>>
  PROVE  /\ Len(q) \in Nat /\ 1 \in 1..Len(q) /\ Head(q) = q[1] /\ Head(q) \in E /\ Tail(q) \in Seq(E)
         /\ \A i \in 1..Len(Tail(q)) : i + 1 \in 1..Len(q) /\ Tail(q)[i] = q[i + 1]
         /\ \A i \in 1..Len(q) : i = 1 \/ (i - 1 \in 1..Len(Tail(q)) /\ Tail(q)[i - 1] = q[i])
<1>1. Len(q) \in Nat /\ Head(q) \in E /\ Tail(q) \in Seq(E) /\ Len(Tail(q)) = Len(q) - 1
  BY HeadTailProperties, LenProperties
<1>2. Len(q) # 0
  BY EmptySeq
<1>3. \A i \in 1..Len(Tail(q)) : Tail(q)[i] = q[i + 1]
  BY HeadTailProperties
<1>4. Head(q) = q[1]
  BY HeadTailProperties
<1>5. \A i \in 1..Len(Tail(q)) : i + 1 \in 1..Len(q) /\ Tail(q)[i] = q[i + 1]
  BY <1>1, <1>3
<1>6. ASSUME NEW i \in 1..Len(q), i # 1
      PROVE  i - 1 \in 1..Len(Tail(q)) /\ Tail(q)[i - 1] = q[i]
  <2>1. i - 1 \in 1..Len(Tail(q)) /\ (i - 1) + 1 = i
    BY <1>1, <1>6
  <2>2. Tail(q)[i - 1] = q[(i - 1) + 1]
    BY <1>3, <2>1
  <2>. QED BY <2>1, <2>2
<1>7. 1 \in 1..Len(q)
  BY <1>1, <1>2
<1>. QED BY <1>1, <1>4, <1>5, <1>6, <1>7

LEMMA TakeOpStep ==
  ASSUME CheckInv, TakeOp
  PROVE  CheckInv'
<1> DEFINE q == tier.queue
           r == Tail(tier.queue)
           o == Head(tier.queue)
           Q == 1..Len(q)
           R == 1..Len(r)
           K == Kept(cache, main)
           X == Reserving(call)
           pend == DOMAIN tier.pending \ X
           w == [phase |-> "write", op |-> o, image |-> None]
<1>1. /\ writer = NoOp /\ q # <<>> /\ writer' = w
      /\ tier' = [tier EXCEPT !.queue = r] /\ UNCHANGED <<cache, file, main, call>>
  BY DEF TakeOp
<1>2. tier \in Tiers /\ Sound(tier, writer, file, K, X) /\ q \in Seq(Ops)
  BY DEF CheckInv, Typed, Tiers
<1>3. Writes(tier, NoOp, X) /\ Pooled(tier, K) /\ Images(tier, file, NoOp)
  BY <1>1, <1>2 DEF Sound
<1>4. /\ Len(q) \in Nat /\ 1 \in Q /\ o = q[1] /\ o \in Ops /\ r \in Seq(Ops)
      /\ \A i \in R : i + 1 \in Q /\ r[i] = q[i + 1]
      /\ \A i \in Q : i = 1 \/ (i - 1 \in R /\ r[i - 1] = q[i])
  BY <1>1, <1>2, HeadTail
<1>5. /\ tier' \in Tiers /\ tier'.queue = r /\ tier'.candidates = tier.candidates
      /\ tier'.pool = tier.pool /\ tier'.bytes = tier.bytes
      /\ tier'.pending = tier.pending /\ tier'.deferred = tier.deferred
  BY <1>1, <1>2, <1>4 DEF Tiers
<1>6. w \in Hands /\ w.op = o /\ w.phase = "write" /\ w.image = None
  BY <1>4 DEF Hands
<1>7. R \subseteq Int /\ Q \subseteq Int
  OBVIOUS
<1>8. \A kind, k : ~ InHand(NoOp, kind, k)
  BY AtRest DEF InHand
<1>9. \A kind, k : InHand(w, kind, k) <=> q[1].kind = kind /\ q[1].key = k
  BY <1>4, <1>6 DEF InHand
<1>10. \A i \in Q : q[i].key \in Content
  BY <1>2, QueueFacts
<1> HIDE DEF w, o, r, K, X
<1>11. Writes(tier', w, X)
  <2>1. ASSUME NEW k \in pend
        PROVE  (\E i \in R : r[i].kind = "state" /\ r[i].key = k) \/ InHand(w, "state", k)
    <3>1. PICK i \in Q : q[i].kind = "state" /\ q[i].key = k
      BY <1>3, <1>8 DEF Writes
    <3>2. CASE i = 1
      BY <1>9, <3>1, <3>2
    <3>3. CASE i # 1
      BY ZenonT(30), <1>4, <3>1, <3>3
    <3>. QED BY <3>2, <3>3
  <2>2. ASSUME NEW i \in R, r[i].kind = "state"
        PROVE  /\ r[i].key \in pend /\ r[i].stash = tier.pending[r[i].key]
               /\ ~ InHand(w, "state", r[i].key)
    <3>1. i + 1 \in Q /\ q[i + 1].kind = "state" /\ r[i] = q[i + 1]
      BY <1>4, <2>2
    <3>2. q[i + 1].key \in pend /\ q[i + 1].stash = tier.pending[q[i + 1].key]
      BY <1>3, <3>1 DEF Writes
    <3>3. i + 1 # 1
      OBVIOUS
    <3>4. q[1].kind = "state" => q[1].key # q[i + 1].key
      BY <1>3, <1>4, <3>1, <3>3 DEF Writes
    <3>. QED BY <1>9, <3>1, <3>2, <3>4
  <2>3. \A k \in Content : InHand(w, "state", k) => k \in pend /\ w.op.stash = tier.pending[k]
    BY <1>3, <1>4, <1>6, <1>9 DEF Writes
  <2>4. ASSUME NEW i \in R, NEW j \in R, r[i].kind = "state", r[j].kind = "state", r[i].key = r[j].key
        PROVE  i = j
    <3>1. /\ i + 1 \in Q /\ q[i + 1].kind = "state" /\ q[i + 1] = r[i]
          /\ j + 1 \in Q /\ q[j + 1].kind = "state" /\ q[j + 1] = r[j]
      BY <1>4, <2>4
    <3>2. i + 1 = j + 1
      BY <1>3, <2>4, <3>1 DEF Writes
    <3>. QED BY <1>7, <3>2
  <2>. QED BY <1>5, <2>1, <2>2, <2>3, <2>4 DEF Writes
<1>12. Pooled(tier', K)
  BY <1>3, <1>5 DEF Pooled
<1>13. Images(tier', file, w)
  BY <1>3, <1>5, <1>6 DEF Images
<1>14. Sound(tier', w, file, K, X)
  BY <1>5, <1>11, <1>12, <1>13 DEF Sound
<1>15. Unhurt(tier, tier', K) /\ Retained(tier, tier', X)
  BY <1>5 DEF Unhurt, Retained
<1>16. file' \in [Keys -> Keys \cup {None}] /\ (writer' = NoOp \/ writer' \in Hands)
  BY <1>1, <1>6 DEF CheckInv, Typed
<1>. QED BY <1>1, <1>14, <1>15, <1>16, BackgroundSound DEF K, X

\* Who has an operation in hand, and which one.
LEMMA HandFacts ==
  ASSUME CheckInv, writer.phase \in {"write", "publish"}
  PROVE  /\ writer \in Hands /\ writer.op \in Ops /\ writer.op.key \in Content
         /\ writer.op.kind = "state" =>
              /\ writer.op.key \in DOMAIN tier.pending
              /\ writer.op.stash = tier.pending[writer.op.key]
              /\ tier.bytes[writer.op.stash] = Final(writer.op.key)
<1>1. writer \in Hands
  BY AtRest DEF CheckInv, Typed
<1>2. writer.op \in Ops /\ writer.op.key \in Content
  BY <1>1 DEF Hands, Ops
<1>3. ASSUME writer.op.kind = "state"
      PROVE  /\ writer.op.key \in DOMAIN tier.pending
             /\ writer.op.stash = tier.pending[writer.op.key]
             /\ tier.bytes[writer.op.stash] = Final(writer.op.key)
  <2>1. InHand(writer, "state", writer.op.key)
    BY <1>1, <1>3 DEF InHand
  <2>2. /\ writer.op.key \in DOMAIN tier.pending
        /\ writer.op.stash = tier.pending[writer.op.key]
    BY <1>2, <2>1 DEF CheckInv, Sound, Writes
  <2>3. tier.bytes[tier.pending[writer.op.key]] = Final(writer.op.key)
    BY <2>2 DEF CheckInv, Sound, Images
  <2>. QED BY <2>2, <2>3
<1>. QED BY <1>1, <1>2, <1>3

\* An operation leaves the writer's hand: the tables are those of a resting writer, but
\* for the pending entry of a checkpoint's write.
LEMMA PutDown ==
  ASSUME NEW t, NEW w \in Hands, NEW f, NEW K, NEW X, Sound(t, w, f, K, X), w.op.key \in Content
  PROVE  /\ t \in Tiers /\ Pooled(t, K) /\ Images(t, f, NoOp)
         /\ w.op.kind # "state" => Writes(t, NoOp, X)
         /\ w.op.kind = "state" => w.op.key \notin X /\ Writes(t, NoOp, X \cup Only(w.op.key))
<1> DEFINE Q == 1..Len(t.queue)
           k == w.op.key
<1>1. t \in Tiers /\ Pooled(t, K) /\ Writes(t, w, X) /\ Images(t, f, w)
  BY DEF Sound
<1>2. \A kind, x : ~ InHand(NoOp, kind, x)
  BY AtRest DEF InHand
<1>3. Images(t, f, NoOp)
  BY <1>1, AtRest DEF Images
<1>4. ASSUME w.op.kind # "state"
      PROVE  Writes(t, NoOp, X)
  <2>1. \A x : ~ InHand(w, "state", x)
    BY <1>4 DEF InHand
  <2>. QED BY <1>1, <1>2, <2>1 DEF Writes
<1>5. ASSUME w.op.kind = "state"
      PROVE  k \notin X /\ Writes(t, NoOp, X \cup Only(k))
  <2> DEFINE D == DOMAIN t.pending \ (X \cup Only(k))
             E == DOMAIN t.pending \ X
  <2>1. \A x : x \in D <=> x \in E /\ x # k
    BY DEF Only
  <2>2. \A x : InHand(w, "state", x) <=> x = k
    BY <1>5 DEF InHand
  <2>3. k \notin X
    BY <1>1, <2>2 DEF Writes
  <2>4. ASSUME NEW x \in D
        PROVE  \E i \in Q : t.queue[i].kind = "state" /\ t.queue[i].key = x
    BY <1>1, <2>1, <2>2, <2>4 DEF Writes
  <2>5. ASSUME NEW i \in Q, t.queue[i].kind = "state"
        PROVE  t.queue[i].key \in D /\ t.queue[i].stash = t.pending[t.queue[i].key]
    BY <1>1, <2>1, <2>2, <2>5 DEF Writes
  <2>6. ASSUME NEW i \in Q, NEW j \in Q, t.queue[i].kind = "state", t.queue[j].kind = "state",
               t.queue[i].key = t.queue[j].key
        PROVE  i = j
    BY <1>1, <2>6 DEF Writes
  <2>. QED BY <1>2, <2>3, <2>4, <2>5, <2>6 DEF Writes
<1>. QED BY <1>1, <1>3, <1>4, <1>5

LEMMA WriteTmpStep ==
  ASSUME CheckInv, WriteTmp
  PROVE  CheckInv'
<1> DEFINE K == Kept(cache, main)
           X == Reserving(call)
           image == tier.bytes[writer.op.stash]
<1>1. /\ writer.phase = "write" /\ writer.op.kind = "state"
      /\ writer' = [writer EXCEPT !.phase = "publish", !.image = image]
      /\ UNCHANGED <<cache, tier, file, main, call>>
  BY DEF WriteTmp
<1>2. /\ writer \in Hands /\ writer.op \in Ops /\ writer.op.key \in Content
      /\ image = Final(writer.op.key)
  BY <1>1, HandFacts
<1>3. Sound(tier, writer, file, K, X) /\ tier.bytes \in [Buffers -> Keys \cup {None}]
  BY DEF CheckInv, Typed, Tiers
<1>4. image \in Keys \cup {None}
  BY <1>1, <1>2, <1>3 DEF Ops
<1> HIDE DEF image, K, X
<1>5. /\ writer' \in Hands /\ writer'.op = writer.op /\ writer'.phase = "publish"
      /\ writer'.image = image
  BY <1>1, <1>2, <1>4 DEF Hands
<1>6. \A kind, k : InHand(writer', kind, k) <=> InHand(writer, kind, k)
  BY <1>2, <1>5 DEF InHand
<1>7. Writes(tier, writer', X)
  BY <1>3, <1>5, <1>6 DEF Sound, Writes
<1>8. Images(tier, file, writer')
  BY <1>1, <1>2, <1>3, <1>5 DEF Sound, Images
<1>9. Sound(tier', writer', file', K, X)
  BY <1>1, <1>3, <1>7, <1>8 DEF Sound
<1>10. Unhurt(tier, tier', K) /\ Retained(tier, tier', X)
  BY <1>1 DEF Unhurt, Retained
<1>11. file' \in [Keys -> Keys \cup {None}]
  BY <1>1 DEF CheckInv, Typed
<1>. QED BY <1>1, <1>5, <1>9, <1>10, <1>11, BackgroundSound DEF K, X

LEMMA PublishPageStep ==
  ASSUME CheckInv, PublishPage
  PROVE  CheckInv'
<1> DEFINE K == Kept(cache, main)
           X == Reserving(call)
           k == writer.op.key
           ready == IF k \in DOMAIN tier.candidates THEN Append(tier.ready, k) ELSE tier.ready
           waiting == tier.pendingPages \ {k}
           there == tier.pages \cup {k}
<1>1. /\ writer.phase = "write" /\ writer.op.kind = "page" /\ writer' = NoOp
      /\ tier' = [tier EXCEPT !.pendingPages = waiting, !.pages = there, !.ready = ready]
      /\ UNCHANGED <<cache, file, main, call>>
  BY DEF PublishPage
<1>2. writer \in Hands /\ k \in Content
  BY <1>1, HandFacts
<1>3. Sound(tier, writer, file, K, X)
  BY DEF CheckInv
<1>4. Sound(tier, NoOp, file, K, X) /\ tier \in Tiers
  BY <1>1, <1>2, <1>3, PutDown DEF Sound
<1>5. waiting \in SUBSET Content /\ there \in SUBSET Content /\ ready \in Seq(Content)
  <2>1. tier.ready \in Seq(Content) /\ tier.pages \subseteq Content /\ tier.pendingPages \subseteq Content
    BY <1>4 DEF Tiers
  <2>2. Append(tier.ready, k) \in Seq(Content)
    BY <1>2, <2>1, AppendProperties
  <2>. QED BY <1>2, <2>1, <2>2
<1> HIDE DEF waiting, there, ready, K, X
<1>6. /\ tier' \in Tiers /\ tier'.candidates = tier.candidates /\ tier'.pool = tier.pool
      /\ tier'.bytes = tier.bytes /\ tier'.pending = tier.pending
      /\ tier'.deferred = tier.deferred /\ tier'.queue = tier.queue
  BY <1>1, <1>4, <1>5 DEF Tiers
<1>7. Sound(tier', NoOp, file, K, X)
  BY <1>4, <1>6, UnlistedSound
<1>8. Unhurt(tier, tier', K) /\ Retained(tier, tier', X)
  BY <1>6 DEF Unhurt, Retained
<1>9. file' \in [Keys -> Keys \cup {None}]
  BY <1>1 DEF CheckInv, Typed
<1>. QED BY <1>1, <1>7, <1>8, <1>9, BackgroundSound DEF K, X

LEMMA PublishStateStep ==
  ASSUME CheckInv, PublishState
  PROVE  CheckInv'
<1> DEFINE K == Kept(cache, main)
           X == Reserving(call)
           k == writer.op.key
           states == tier.states \cup {k}
           t == [tier EXCEPT !.states = states]
<1>1. /\ writer.phase = "publish" /\ writer.op.kind = "state" /\ writer' = NoOp
      /\ file' = [file EXCEPT ![k] = writer.image] /\ tier' = StateWritten(t, k)
      /\ UNCHANGED <<cache, main, call>>
  BY DEF PublishState
<1>2. writer \in Hands /\ k \in Content
  BY <1>1, HandFacts
<1>3. /\ Sound(tier, writer, file, K, X) /\ tier \in Tiers /\ file \in [Keys -> Keys \cup {None}]
  BY DEF CheckInv, Typed
<1>4. /\ Pooled(tier, K) /\ Images(tier, file, NoOp)
      /\ k \notin X /\ Writes(tier, NoOp, X \cup Only(k))
  BY <1>1, <1>2, <1>3, PutDown
<1>5. states \in SUBSET Content
  BY <1>2, <1>3 DEF Tiers
<1> HIDE DEF states
<1>6. /\ t \in Tiers /\ t.candidates = tier.candidates /\ t.pool = tier.pool
      /\ t.bytes = tier.bytes /\ t.pending = tier.pending /\ t.deferred = tier.deferred
      /\ t.queue = tier.queue
  BY <1>3, <1>5 DEF Tiers
<1>7. k \in Keys /\ Final(k) \in Keys /\ writer.image = Final(k)
  <2>1. k \in Keys /\ Final(k) \in Keys
    BY <1>2, KeysAssumption, RenameAssumption DEF Final
  <2>2. writer.image = Final(k)
    BY <1>1, <1>2, <1>3 DEF Sound, Images
  <2>. QED BY <2>1, <2>2
<1>8. /\ file' \in [Keys -> Keys \cup {None}] /\ file'[k] = Final(k)
      /\ \A x \in Keys : x # k => file'[x] = file[x]
  BY <1>1, <1>3, <1>7
<1> HIDE DEF t, K, X
<1>9. Writes(t, NoOp, X \cup Only(k))
  BY <1>4, <1>6 DEF Writes
<1>10. Pooled(t, K)
  BY <1>4, <1>6 DEF Pooled
<1>11. Images(t, file', NoOp)
  <2>1. \A x \in Keys : file'[x] \in {None, Final(x)}
    BY <1>4, <1>8 DEF Images
  <2>. QED BY <1>4, <1>6, <2>1, AtRest DEF Images
<1>12. Sound(tier', NoOp, file', K, X) /\ Unhurt(t, tier', K) /\ Retained(t, tier', X)
  BY <1>1, <1>4, <1>6, <1>9, <1>10, <1>11, StateWrittenSound
<1>13. Unhurt(tier, tier', K) /\ Retained(tier, tier', X)
  BY <1>6, <1>12 DEF Unhurt, Retained
<1>. QED BY <1>1, <1>8, <1>12, <1>13, BackgroundSound DEF K, X

LEMMA DeleteStateStep ==
  ASSUME CheckInv, DeleteState
  PROVE  CheckInv'
<1> DEFINE K == Kept(cache, main)
           X == Reserving(call)
           k == writer.op.key
<1>1. /\ writer.phase = "write" /\ writer.op.kind = "delete" /\ writer' = NoOp
      /\ file' = [file EXCEPT ![k] = None] /\ UNCHANGED <<cache, tier, main, call>>
  BY DEF DeleteState
<1>2. writer \in Hands /\ k \in Content
  BY <1>1, HandFacts
<1>3. Sound(tier, writer, file, K, X) /\ tier \in Tiers /\ file \in [Keys -> Keys \cup {None}]
  BY DEF CheckInv, Typed
<1>4. Pooled(tier, K) /\ Images(tier, file, NoOp) /\ Writes(tier, NoOp, X)
  BY <1>1, <1>2, <1>3, PutDown
<1>5. /\ file' \in [Keys -> Keys \cup {None}] /\ file'[k] = None
      /\ \A x \in Keys : x # k => file'[x] = file[x]
  BY <1>1, <1>2, <1>3, KeysAssumption
<1> HIDE DEF K, X
<1>6. Images(tier, file', NoOp)
  <2>1. \A x \in Keys : file'[x] \in {None, Final(x)}
    BY <1>4, <1>5 DEF Images
  <2>. QED BY <1>4, <2>1, AtRest DEF Images
<1>7. Sound(tier, NoOp, file', K, X)
  BY <1>3, <1>4, <1>6 DEF Sound
<1>8. Unhurt(tier, tier', K) /\ Retained(tier, tier', X)
  BY <1>1 DEF Unhurt, Retained
<1>. QED BY <1>1, <1>5, <1>7, <1>8, BackgroundSound DEF K, X

LEMMA FailWriteStep ==
  ASSUME CheckInv, FailWrite
  PROVE  CheckInv'
<1> DEFINE K == Kept(cache, main)
           X == Reserving(call)
           k == writer.op.key
           waiting == tier.pendingPages \ {k}
           p == [tier EXCEPT !.pendingPages = waiting]
           u == IF writer.op.kind = "page" THEN p ELSE StateWritten(tier, k)
<1>1. /\ writer.phase \in {"write", "publish"} /\ writer.op.kind # "delete" /\ writer' = NoOp
      /\ tier' \in WriteFailed(u) /\ UNCHANGED <<cache, file, main, call>>
  BY DEF FailWrite
<1>2. writer \in Hands /\ k \in Content /\ writer.op \in Ops
  BY <1>1, HandFacts
<1>3. Sound(tier, writer, file, K, X) /\ tier \in Tiers
  BY DEF CheckInv, Typed
<1>4. /\ Pooled(tier, K) /\ Images(tier, file, NoOp)
      /\ writer.op.kind # "state" => Writes(tier, NoOp, X)
      /\ writer.op.kind = "state" => k \notin X /\ Writes(tier, NoOp, X \cup Only(k))
  BY <1>2, <1>3, PutDown
<1>5. waiting \in SUBSET Content
  BY <1>3 DEF Tiers
<1> HIDE DEF waiting, K, X
<1>6. Sound(u, NoOp, file, K, X) /\ Unhurt(tier, u, K) /\ Retained(tier, u, X)
  <2>1. CASE writer.op.kind = "page"
    <3>1. /\ p \in Tiers /\ p.candidates = tier.candidates /\ p.pool = tier.pool
          /\ p.bytes = tier.bytes /\ p.pending = tier.pending
          /\ p.deferred = tier.deferred /\ p.queue = tier.queue
      BY <1>3, <1>5 DEF Tiers
    <3> HIDE DEF p
    <3>2. Sound(tier, NoOp, file, K, X)
      BY <1>3, <1>4, <2>1 DEF Sound
    <3>3. Sound(p, NoOp, file, K, X)
      BY <3>1, <3>2, UnlistedSound
    <3>4. Unhurt(tier, p, K) /\ Retained(tier, p, X)
      BY <3>1 DEF Unhurt, Retained
    <3>. QED BY <2>1, <3>3, <3>4
  <2>2. CASE writer.op.kind # "page"
    <3>1. writer.op.kind = "state"
      BY <1>1, <1>2, <2>2 DEF Ops
    <3>2. /\ Sound(StateWritten(tier, k), NoOp, file, K, X)
          /\ Unhurt(tier, StateWritten(tier, k), K) /\ Retained(tier, StateWritten(tier, k), X)
      BY <1>3, <1>4, <3>1, StateWrittenSound
    <3>. QED BY <2>2, <3>2
  <2>. QED BY <2>1, <2>2
<1> HIDE DEF u
<1>7. Sound(tier', NoOp, file, K, X) /\ Unhurt(u, tier', K) /\ Retained(u, tier', X)
  BY <1>1, <1>6, WriteFailedSound
<1>8. Unhurt(tier, tier', K) /\ Retained(tier, tier', X)
  BY <1>6, <1>7 DEF Unhurt, Retained
<1>9. file' \in [Keys -> Keys \cup {None}]
  BY <1>1 DEF CheckInv, Typed
<1>. QED BY <1>1, <1>7, <1>8, <1>9, BackgroundSound DEF K, X

-----------------------------------------------------------------------------
(* The theorems.                                                            *)

LEMMA CheckInit ==
  ASSUME Init
  PROVE  CheckInv
<1>1. /\ cache = <<>> /\ file = [k \in Keys |-> None] /\ writer = NoOp /\ main = Idle /\ call = NoCall
      /\ tier.pool = <<>> /\ tier.queue = <<>> /\ tier.states = {} /\ tier.pending = <<>>
      /\ tier.candidates = <<>> /\ tier.deferred = {}
  BY DEF Init
<1>2. <<>> \in Maps /\ DOMAIN <<>> = {} /\ Range(<<>>) = {}
  BY NothingBound
<1>3. /\ <<>> \in Seq(Entries) /\ <<>> \in Seq(Buffers) /\ <<>> \in Seq(Ops) /\ <<>> \in Seq(Content)
      /\ Len(<<>>) = 0 /\ 1..Len(<<>>) = {} /\ Distinct(<<>>)
  BY NothingToRelease
<1>4. tier \in Tiers
  BY <1>2, <1>3 DEF Init, Tiers
<1>5. Typed
  BY <1>1, <1>3, <1>4, CapacityAssumption DEF Typed
<1>6. \A kind, k : ~ InHand(NoOp, kind, k)
  BY AtRest DEF InHand
<1>7. Writes(tier, NoOp, {})
  BY <1>1, <1>2, <1>3, <1>6 DEF Writes
<1>8. Pooled(tier, Kept(cache, main))
  BY <1>1, <1>2, <1>3 DEF Pooled
<1>9. Images(tier, file, NoOp)
  BY <1>1, <1>2, AtRest DEF Images
<1>10. Shelf(cache, tier) /\ Course(cache, main) /\ Errand(cache, main, tier)
  BY <1>1, <1>3, AtRest DEF Shelf, Course, Errand
<1>11. Reserving(call) = {} /\ Calling(call, tier, Kept(cache, main))
  BY <1>1, AtRest DEF Calling
<1>. QED BY <1>1, <1>4, <1>5, <1>7, <1>8, <1>9, <1>10, <1>11 DEF CheckInv, Sound

\* The main thread takes its steps outside write_state(), and may end in a call of it.
LEMMA Returned ==
  ASSUME CheckInv, call = NoCall
  PROVE  MainInv
BY AtRest DEF CheckInv, MainInv

LEMMA CallsOn ==
  ASSUME MainInv', Asked(call', tier', Kept(cache', main'))
  PROVE  CheckInv'
<1> DEFINE K == Kept(cache', main')
<1>1. Reserving(call') = {} /\ Calling(call', tier', K)
  <2>1. CASE call' = NoCall
    BY <2>1, AtRest DEF Calling
  <2>2. ASSUME NEW k \in Content, NEW b \in Buffers, call' = Call(k, b), b \in K, tier'.bytes[b] = Final(k)
        PROVE  Reserving(call') = {} /\ Calling(call', tier', K)
    <3>1. call' \in Calls /\ call'.at = "states" /\ call'.key = k /\ call'.stash = b
      BY <2>2 DEF Call, Calls
    <3>. QED BY <2>2, <3>1 DEF Reserving, Calling
  <2>. QED BY <2>1, <2>2 DEF Asked
<1>. QED BY <1>1 DEF MainInv, CheckInv

LEMMA CheckStep ==
  ASSUME RereadPending = FALSE, CheckInv, [Next]_vars
  PROVE  CheckInv'
<1>1. ASSUME call = NoCall, MainInv', call' = call
      PROVE  CheckInv'
  BY <1>1, CallsOn DEF Asked
<1>2. ASSUME NEW k \in Keys, Put(k) \/ GetStashed(k) \/ StorePage(k)
      PROVE  CheckInv'
  <2>1. call = NoCall /\ call' = call
    BY <1>2 DEF Put, GetStashed, StorePage, Resting, At
  <2>2. MainInv'
    BY <1>2, <2>1, Returned, PutStep, GetStashedStep, StorePageStep
  <2>. QED BY <1>1, <2>1, <2>2
<1>3. ASSUME NEW k \in Keys, Rekey(k) \/ OfferIfOnDisk(k) \/ OfferIfQueued(k)
      PROVE  CheckInv'
  <2>1. call = NoCall
    BY <1>3 DEF Rekey, OfferIfOnDisk, OfferIfQueued, Resting, At
  <2>2. MainInv' /\ Asked(call', tier', Kept(cache', main'))
    BY <1>3, <2>1, Returned, RekeyStep, OfferIfOnDiskStep, OfferIfQueuedStep
  <2>. QED BY <2>2, CallsOn
<1>4. CASE EvictForRoom \/ Insert \/ Drained
  <2>1. call = NoCall /\ call' = call
    BY <1>4 DEF EvictForRoom, Insert, Drained, At
  <2>2. MainInv'
    BY <1>4, <2>1, Returned, EvictStep, InsertStep, DrainedStep
  <2>. QED BY <1>1, <2>1, <2>2
<1>5. CASE DrainOne \/ NoteIfOnDisk \/ NoteIfQueued
  <2>1. call = NoCall
    BY <1>5 DEF DrainOne, NoteIfOnDisk, NoteIfQueued, At
  <2>2. MainInv' /\ Asked(call', tier', Kept(cache', main'))
    BY <1>5, <2>1, Returned, DrainStep, NoteIfOnDiskStep, NoteIfQueuedStep
  <2>. QED BY <2>2, CallsOn
<1>6. CASE NoteIfUnlisted \/ PageIfUnlisted \/ PageIfUnqueued \/ QueuePage
  <2>1. call = NoCall /\ call' = call
    BY <1>6 DEF NoteIfUnlisted, PageIfUnlisted, PageIfUnqueued, QueuePage, At
  <2>2. MainInv'
    BY <1>6, <2>1, Returned, NoteIfUnlistedStep, PageIfUnlistedStep, PageIfUnqueuedStep, QueuePageStep
  <2>. QED BY <1>1, <2>1, <2>2
<1>7. CASE PruneStranded \/ ReleaseNext \/ SettleRelease \/ Released
  <2>1. call = NoCall /\ call' = call
    BY <1>7 DEF PruneStranded, ReleaseNext, SettleRelease, Released, Resting, At
  <2>2. MainInv'
    BY <1>7, <2>1, Returned, PruneStrandedStep, ReleaseNextStep, SettleStep, ReleasedStep
  <2>. QED BY <1>1, <2>1, <2>2
<1>8. CASE FlushStates \/ PruneStates \/ Abort
  <2>1. call = NoCall /\ call' = call
    BY <1>8 DEF FlushStates, PruneStates, Abort, Resting, At
  <2>2. MainInv'
    BY <1>8, <2>1, Returned, FlushStatesStep, PruneStatesStep, AbortStep
  <2>. QED BY <1>1, <2>1, <2>2
<1>9. CASE FlushIfOnDisk \/ FlushIfQueued
  <2>1. call = NoCall
    BY <1>9 DEF FlushIfOnDisk, FlushIfQueued, At
  <2>2. MainInv' /\ Asked(call', tier', Kept(cache', main'))
    BY <1>9, <2>1, Returned, FlushIfOnDiskStep, FlushIfQueuedStep
  <2>. QED BY <2>2, CallsOn
<1>10. CASE CheckListed \/ CheckPending \/ ReserveWrite \/ QueueWrite \/ LayoutFails \/ LayoutFailed
  BY <1>10, CheckListedStep, CheckPendingStep, ReserveWriteStep, QueueWriteStep, LayoutFailsStep,
     LayoutFailedStep
<1>11. CASE WriterStep
  BY <1>11, TakeOpStep, WriteTmpStep, PublishPageStep, PublishStateStep, DeleteStateStep DEF WriterStep
<1>12. CASE SpaceReturns \/ FailWrite
  BY <1>12, SpaceReturnsStep, FailWriteStep
<1>13. CASE UNCHANGED vars
  <2>1. UNCHANGED <<cache, main, call>> /\ tier' = tier /\ writer' = writer /\ file' = file
    BY <1>13 DEF vars
  <2>2. /\ Sound(tier', writer', file', Kept(cache, main), Reserving(call))
        /\ file' \in [Keys -> Keys \cup {None}] /\ (writer' = NoOp \/ writer' \in Hands)
    BY <2>1 DEF CheckInv, Typed
  <2>3. Unhurt(tier, tier', Kept(cache, main)) /\ Retained(tier, tier', Reserving(call))
    BY <2>1 DEF Unhurt, Retained
  <2>. QED BY <2>1, <2>2, <2>3, BackgroundSound
<1>. QED BY <1>2, <1>3, <1>4, <1>5, <1>6, <1>7, <1>8, <1>9, <1>10, <1>11, <1>12, <1>13 DEF Next

\* What every table holds, and that what the tier says is pending is queued, in the writer's
\* hand or about to be queued.
LEMMA TypeHolds ==
  ASSUME CheckInv
  PROVE  TypeOK
<1>1. /\ cache \in Seq(Entries) /\ Len(cache) <= Capacity /\ tier \in Tiers
      /\ file \in [Keys -> Keys \cup {None}] /\ (writer = NoOp \/ writer \in Hands)
      /\ Writes(tier, writer, Reserving(call)) /\ Pooled(tier, Kept(cache, main))
  BY DEF CheckInv, Typed, Sound
<1> DEFINE queued == {op.key : op \in {o \in ToSet(tier.queue) : o.kind = "state"}}
           hand == IF writer # NoOp /\ writer.op.kind = "state" THEN {writer.op.key} ELSE {}
           called == IF call.at = "queue" THEN {call.key} ELSE {}
           p == tier.pending
<1>2. /\ tier.queue \in Seq(Ops) /\ tier.bytes \in [Buffers -> Keys \cup {None}]
      /\ tier.pool \in Seq(Buffers) /\ tier.ready \in Seq(Content)
      /\ tier.states \subseteq Content /\ tier.candidates \in Maps /\ p \in Maps
  BY <1>1 DEF Tiers
<1>3. \A o : o \in ToSet(tier.queue) <=> \E i \in 1..Len(tier.queue) : tier.queue[i] = o
  BY <1>2, InSequence
<1>4. \A k : k \in queued <=> \E i \in 1..Len(tier.queue) : tier.queue[i].kind = "state" /\ tier.queue[i].key = k
  <2>1. \A k : k \in queued <=> \E o : o \in ToSet(tier.queue) /\ o.kind = "state" /\ o.key = k
    OBVIOUS
  <2>. QED BY <1>3, <2>1
<1>5. \A k : k \in hand <=> InHand(writer, "state", k)
  BY <1>1, AtRest DEF InHand
<1>6. \A k \in hand : k \in Content
  BY <1>1, <1>5 DEF InHand, Hands, Ops
<1>7. \A k : k \in called => k \in DOMAIN p
  BY QueueingFacts
<1>8. \A k : k \in called <=> k \in Reserving(call)
  BY DEF Reserving, Only
<1>9. DOMAIN p = queued \cup hand \cup called
  <2> HIDE DEF queued, hand, called
  <2>1. \A k \in DOMAIN p : k \in queued \/ k \in hand \/ k \in called
    BY <1>1, <1>4, <1>5, <1>8 DEF Writes
  <2>2. \A k : k \in queued \/ k \in hand => k \in DOMAIN p
    BY <1>1, <1>4, <1>5, <1>6 DEF Writes
  <2>. QED BY <1>7, <2>1, <2>2
<1>10. ToSet(tier.ready) \subseteq Content
  <2>1. \A k : k \in ToSet(tier.ready) <=> \E i \in 1..Len(tier.ready) : tier.ready[i] = k
    BY <1>2, InSequence
  <2>2. \A i \in 1..Len(tier.ready) : tier.ready[i] \in Content
    BY <1>2, ElementOfSeq
  <2>. QED BY <2>1, <2>2
<1>11. DOMAIN tier.candidates \subseteq Content
  BY <1>2, MapFacts
<1>12. tier.deferred \subseteq Range(p)
  BY <1>1 DEF Pooled
<1>. QED BY <1>1, <1>2, <1>9, <1>10, <1>11, <1>12 DEF TypeOK, Entries

\* A sequence without repetition is as long as its set is large.
LEMMA DistinctCounted ==
  ASSUME NEW E, NEW s \in Seq(E), Distinct(s)
  PROVE  Cardinality(ToSet(s)) = Len(s)
<1> DEFINE P == 1..Len(s)
           T == ToSet(s)
<1>1. Len(s) \in Nat /\ DOMAIN s = P /\ T = {s[i] : i \in P}
  BY InSequence
<1>2. s \in [P -> E]
  BY LenProperties
<1>3. /\ s \in [P -> T] /\ \A i, j \in P : s[i] = s[j] => i = j
      /\ \A b \in T : \E i \in P : s[i] = b
  <2>1. \A i, j \in P : s[i] = s[j] => i = j
    BY DEF Distinct
  <2>. QED BY <1>1, <1>2, <2>1
<1>4. IsFiniteSet(P) /\ Cardinality(P) = Len(s)
  BY SMTT(30), <1>1, FS_Interval
<1>5. ExistsBijection(P, T)
  <2> HIDE DEF P, T
  <2>1. s \in Bijection(P, T)
    BY <1>3, Fun_IsBij
  <2>. QED BY <2>1 DEF ExistsBijection
<1>6. Cardinality(T) = Cardinality(P)
  BY <1>4, <1>5, FS_Bijection
<1>. QED BY <1>4, <1>6

LEMMA PoolHolds ==
  ASSUME CheckInv
  PROVE  PoolDisjoint
<1>1. /\ Typed /\ tier.pool \in Seq(Buffers) /\ Pooled(tier, Kept(cache, main))
      /\ call # NoCall => call.stash \in Kept(cache, main)
  BY DEF CheckInv, Typed, Tiers, Sound, Calling
<1>2. \A b : b \in ToSet(tier.pool) <=> \E i \in 1..Len(tier.pool) : tier.pool[i] = b
  BY <1>1, InSequence
<1>3. ToSet(tier.pool) \cap Held = {}
  <2>1. Held \subseteq Kept(cache, main) \cup Range(tier.pending) \cup Range(tier.candidates)
    BY <1>1, HeldFacts
  <2>. QED BY <1>1, <1>2, <2>1 DEF Pooled
<1>4. Cardinality(ToSet(tier.pool)) = Len(tier.pool)
  BY <1>1, DistinctCounted DEF Pooled
<1>. QED BY <1>3, <1>4 DEF PoolDisjoint

LEMMA ChecksHold ==
  ASSUME CheckInv
  PROVE  CheckpointsSound
<1>1. cache \in Seq(Entries) /\ Shelf(cache, tier) /\ Images(tier, file, writer) /\ tier \in Tiers
  BY DEF CheckInv, Typed, Sound
<1>2. \A e : e \in ToSet(cache) <=> \E i \in 1..Len(cache) : cache[i] = e
  BY <1>1, InSequence
<1>3. \A e \in ToSet(cache) : tier.bytes[e.stash] = Final(e.key)
  BY <1>1, <1>2 DEF Shelf
<1>4. \A e, f \in ToSet(cache) : e.stash = f.stash => e = f
  BY <1>1, <1>2 DEF Shelf
<1>. QED BY <1>1, <1>3, <1>4 DEF CheckpointsSound, Images

\* The inductive invariant, when no checkpoint is asked for while its write is pending
\* (MCResurrected: what happens otherwise).
THEOREM CheckInvariant ==
  ASSUME RereadPending = FALSE
  PROVE  Spec => []CheckInv
<1>1. Init => CheckInv
  BY CheckInit
<1>2. CheckInv /\ [Next]_vars => CheckInv'
  BY CheckStep
<1>. QED BY <1>1, <1>2, PTL DEF Spec

\* RecurrentCache, HostPool and the checkpoints' half of DiskTier keep their types, and
\* pending_states names exactly the writes that are queued, in the writer's hand, or about
\* to be queued by the main thread.
THEOREM CheckpointsTyped ==
  ASSUME RereadPending = FALSE
  PROVE  Spec => []TypeOK
<1>1. CheckInv => TypeOK
  BY TypeHolds
<1>. QED BY <1>1, CheckInvariant, PTL

\* HostPool.give() gets no buffer that a cached checkpoint, a candidate or a pending write
\* still needs, whatever the writer and the main thread do between two locks, and none
\* twice.
THEOREM BuffersApart ==
  ASSUME RereadPending = FALSE
  PROVE  Spec => []PoolDisjoint
<1>1. CheckInv => PoolDisjoint
  BY PoolHolds
<1>. QED BY <1>1, CheckInvariant, PTL

\* rekey(), rekey_state() and the writer keep a checkpoint with its page: what RAM and the
\* files hold under a hash is the checkpoint of the page with that hash, and no two
\* checkpoints in RAM share a buffer.
THEOREM RightCheckpoints ==
  ASSUME RereadPending = FALSE
  PROVE  Spec => []CheckpointsSound
<1>1. CheckInv => CheckpointsSound
  BY ChecksHold
<1>. QED BY <1>1, CheckInvariant, PTL
=============================================================================
