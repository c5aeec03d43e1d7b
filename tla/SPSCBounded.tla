----------------------------- MODULE SPSCBounded -----------------------------
(***************************************************************************)
(* lockfree_spsc_bounded<T, Capacity>: a ring of Capacity + 1 slots shared *)
(* by one producer thread and one consumer thread.  Each thread owns one   *)
(* index (tail, head) and keeps a cached copy of the other one; it reloads *)
(* the copy only when the queue looks full (empty) through it.             *)
(*                                                                         *)
(* A step is one atomic load or store of the code together with the        *)
(* accesses to thread-local data around it, or one access to a slot.  An   *)
(* acquire load of the other thread's index may return any value of that   *)
(* index since the one last seen (C++ read coherence allows no older one), *)
(* not only the newest: see Visible.                                       *)
(***************************************************************************)
EXTENDS Integers, Sequences

CONSTANTS
  Capacity,   \* the template parameter
  Value,      \* the elements a client pushes
  NoValue     \* a default-constructed or moved-from slot

ASSUME CapacityAssumption == Capacity \in Nat \ {0}
ASSUME NoValueAssumption == NoValue \notin Value

VARIABLES
  head,        \* index of the next slot to pop; stored by the consumer only
  tail,        \* index of the next slot to fill; stored by the producer only
  head_cache,  \* the producer's copy of head
  tail_cache,  \* the consumer's copy of tail
  arr,         \* the slots
  ppc,         \* where the producer is
  cur_tail,    \* its local copy of tail
  pvalue,      \* the element it is pushing
  cpc,         \* where the consumer is
  cur_head,    \* its local copy of head
  cvalue,      \* the element it has moved out of its slot
  out,         \* history: the element returned by the latest pop
  peeked,      \* history: the result of a peek since the latest pop
  room,        \* history: pushes the producer's latest size() left room for
  avail        \* history: pops the consumer's latest size() promised

producer == <<head_cache, ppc, cur_tail, pvalue, room>>
consumer == <<tail_cache, cpc, cur_head, cvalue, out, peeked, avail>>
vars == <<head, tail, arr, producer, consumer>>

-----------------------------------------------------------------------------
capacity == Capacity + 1

Slots == 0 .. Capacity

\* A faulty Succ: the index is not taken modulo the capacity.
SuccUnwrapped(i) == i + 1

Succ(i) == (i + 1) % capacity

\* How far index t is ahead of index h; the value computed by size().
Dist(h, t) == (t - h + capacity) % capacity

\* The values an acquire load may return when the thread has already seen
\* the index at `seen` and the newest store is `newest`.
Visible(seen, newest) == {i \in Slots : Dist(seen, i) <= Dist(seen, newest)}

Decr(n) == IF n = 0 THEN 0 ELSE n - 1

Init ==
  /\ head = 0 /\ tail = 0
  /\ head_cache = 0 /\ tail_cache = 0
  /\ arr = [i \in Slots |-> NoValue]
  /\ ppc = "idle" /\ cur_tail = 0 /\ pvalue = NoValue
  /\ cpc = "idle" /\ cur_head = 0 /\ cvalue = NoValue
  /\ out = NoValue /\ peeked = NoValue
  /\ room = 0 /\ avail = 0

-----------------------------------------------------------------------------
(* Faulty variants of operations, each of which breaks a property.         *)

\* A push that does not check whether the ring is full.
BeginPushUnchecked(v, full) ==
  /\ ppc = "idle"
  /\ cur_tail' = tail
  /\ pvalue' = v
  /\ ppc' = "write"
  /\ UNCHANGED <<head, tail, arr, head_cache, room, consumer>>

\* wait_and_push spins on its own copy of head.
WaitReloadHeadNever ==
  /\ ppc = "wait_reload"
  /\ ppc' = IF (cur_tail + 1) % capacity = head_cache THEN "wait_reload" ELSE "write"
  /\ UNCHANGED <<head, tail, arr, head_cache, cur_tail, pvalue, room, consumer>>

\* size() for the producer counts the slot that is always kept free.
ProducerSizeOfSlots ==
  /\ ppc = "idle"
  /\ \E h \in Visible(head_cache, head) : room' = capacity - Dist(h, tail)
  /\ UNCHANGED <<head, tail, arr, head_cache, ppc, cur_tail, pvalue, consumer>>

\* A pop or peek that does not check whether the ring is empty.
BeginReadUnchecked(found, empty) ==
  /\ cpc = "idle"
  /\ cur_head' = head
  /\ cpc' = found
  /\ UNCHANGED <<head, tail, arr, tail_cache, cvalue, out, peeked, avail, producer>>

\* A reload of tail that is not compared with head again.
ReloadTailUnchecked(at, found, empty) ==
  /\ cpc = at
  /\ tail_cache' \in Visible(tail_cache, tail)
  /\ cpc' = found
  /\ UNCHANGED <<head, tail, arr, cur_head, cvalue, out, peeked, avail, producer>>

\* wait_and_pop spins on its own copy of tail.
ReloadTailNever(at, found, empty) ==
  /\ cpc = at
  /\ cpc' = IF tail_cache = cur_head THEN empty ELSE found
  /\ UNCHANGED <<head, tail, arr, tail_cache, cur_head, cvalue, out, peeked, avail, producer>>

\* peek moves the element out of its slot.
PeekSlotMoves ==
  /\ cpc = "peek_read"
  /\ peeked' = arr[cur_head]
  /\ arr' = [arr EXCEPT ![cur_head] = NoValue]
  /\ cpc' = "idle"
  /\ UNCHANGED <<head, tail, tail_cache, cur_head, cvalue, out, avail, producer>>

-----------------------------------------------------------------------------
(* The producer: try_push / emplace_back and wait_and_push.                *)

\* The call of a push that handles a full ring in the way `full`.
BeginPush(v, full) ==
  /\ ppc = "idle"
  /\ cur_tail' = tail
  /\ pvalue' = v
  /\ ppc' = IF Succ(tail) = head_cache THEN full ELSE "write"
  /\ UNCHANGED <<head, tail, arr, head_cache, room, consumer>>

TryPush(v) == BeginPush(v, "try_reload")

WaitAndPush(v) == BeginPush(v, "wait_reload")

\* emplace_back looks at head once, and gives up if the ring is still full.
TryReloadHead ==
  /\ ppc = "try_reload"
  /\ \E h \in Visible(head_cache, head) :
       /\ head_cache' = h
       /\ ppc' = IF Succ(cur_tail) = h THEN "idle" ELSE "write"
       /\ pvalue' = IF Succ(cur_tail) = h THEN NoValue ELSE pvalue
  /\ UNCHANGED <<head, tail, arr, cur_tail, room, consumer>>

\* wait_and_push spins on head; one step is one turn of its loop.
WaitReloadHead ==
  /\ ppc = "wait_reload"
  /\ \E h \in Visible(head_cache, head) :
       /\ head_cache' = h
       /\ ppc' = IF Succ(cur_tail) = h THEN "wait_reload" ELSE "write"
  /\ UNCHANGED <<head, tail, arr, cur_tail, pvalue, room, consumer>>

WriteSlot ==
  /\ ppc = "write"
  /\ arr' = [arr EXCEPT ![cur_tail] = pvalue]
  /\ ppc' = "publish"
  /\ UNCHANGED <<head, tail, head_cache, cur_tail, pvalue, room, consumer>>

PublishTail ==
  /\ ppc = "publish"
  /\ tail' = Succ(cur_tail)
  /\ ppc' = "idle"
  /\ pvalue' = NoValue
  /\ room' = Decr(room)
  /\ UNCHANGED <<head, arr, head_cache, cur_tail, consumer>>

\* size() called by the producer: its own index is exact, head may be old.
ProducerSize ==
  /\ ppc = "idle"
  /\ \E h \in Visible(head_cache, head) : room' = Capacity - Dist(h, tail)
  /\ UNCHANGED <<head, tail, arr, head_cache, ppc, cur_tail, pvalue, consumer>>

-----------------------------------------------------------------------------
(* The consumer: try_pop, wait_and_pop and peek.                           *)

\* The call of a pop or peek that continues at `found` when the cached tail
\* shows an element, and at `empty` when it does not.
BeginRead(found, empty) ==
  /\ cpc = "idle"
  /\ cur_head' = head
  /\ cpc' = IF tail_cache = head THEN empty ELSE found
  /\ UNCHANGED <<head, tail, arr, tail_cache, cvalue, out, peeked, avail, producer>>

TryPop == BeginRead("take", "try_reload")

WaitAndPop == BeginRead("take", "wait_reload")

Peek == BeginRead("peek_read", "peek_reload")

\* Load tail; stay at or return to `empty` if the ring still looks empty.
ReloadTail(at, found, empty) ==
  /\ cpc = at
  /\ \E t \in Visible(tail_cache, tail) :
       /\ tail_cache' = t
       /\ cpc' = IF t = cur_head THEN empty ELSE found
  /\ UNCHANGED <<head, tail, arr, cur_head, cvalue, out, peeked, avail, producer>>

TryReloadTail == ReloadTail("try_reload", "take", "idle")

WaitReloadTail == ReloadTail("wait_reload", "take", "wait_reload")

PeekReloadTail == ReloadTail("peek_reload", "peek_read", "idle")

\* value = std::move(arr[cur_head]) leaves a moved-from object behind.
TakeSlot ==
  /\ cpc = "take"
  /\ cvalue' = arr[cur_head]
  /\ arr' = [arr EXCEPT ![cur_head] = NoValue]
  /\ cpc' = "release"
  /\ UNCHANGED <<head, tail, tail_cache, cur_head, out, peeked, avail, producer>>

ReleaseHead ==
  /\ cpc = "release"
  /\ head' = Succ(cur_head)
  /\ out' = cvalue
  /\ cpc' = "idle"
  /\ cvalue' = NoValue
  /\ peeked' = NoValue
  /\ avail' = Decr(avail)
  /\ UNCHANGED <<tail, arr, tail_cache, cur_head, producer>>

\* peek copies the slot and leaves it where it is.
PeekSlot ==
  /\ cpc = "peek_read"
  /\ peeked' = arr[cur_head]
  /\ cpc' = "idle"
  /\ UNCHANGED <<head, tail, arr, tail_cache, cur_head, cvalue, out, avail, producer>>

\* size() and empty() called by the consumer: head is exact, tail may be old.
ConsumerSize ==
  /\ cpc = "idle"
  /\ \E t \in Visible(tail_cache, tail) : avail' = Dist(head, t)
  /\ UNCHANGED <<head, tail, arr, tail_cache, cpc, cur_head, cvalue, out, peeked, producer>>

-----------------------------------------------------------------------------
ProducerStep == TryReloadHead \/ WaitReloadHead \/ WriteSlot \/ PublishTail

ConsumerStep ==
  \/ TryReloadTail \/ WaitReloadTail \/ PeekReloadTail
  \/ TakeSlot \/ ReleaseHead \/ PeekSlot

Next ==
  \/ \E v \in Value : TryPush(v) \/ WaitAndPush(v)
  \/ ProducerStep
  \/ ProducerSize
  \/ TryPop \/ WaitAndPop \/ Peek
  \/ ConsumerStep
  \/ ConsumerSize

Spec == Init /\ [][Next]_vars

\* Each thread is scheduled until its call returns, and a spinning load does
\* not return the same old value for ever.  The clients keep calling: the
\* producer wait_and_push, the consumer wait_and_pop, among other calls.
Fairness ==
  /\ WF_vars(ProducerStep)
  /\ WF_vars(ConsumerStep)
  /\ SF_vars(\E v \in Value : WaitAndPush(v))
  /\ SF_vars(WaitAndPop)

FairSpec == Spec /\ Fairness

-----------------------------------------------------------------------------
TypeOK ==
  /\ head \in Slots /\ tail \in Slots
  /\ head_cache \in Slots /\ tail_cache \in Slots
  /\ arr \in [Slots -> Value \cup {NoValue}]
  /\ ppc \in {"idle", "try_reload", "wait_reload", "write", "publish"}
  /\ cur_tail \in Slots
  /\ pvalue \in Value \cup {NoValue}
  /\ cpc \in {"idle", "try_reload", "wait_reload", "peek_reload",
              "take", "peek_read", "release"}
  /\ cur_head \in Slots
  /\ cvalue \in Value \cup {NoValue}
  /\ out \in Value \cup {NoValue}
  /\ peeked \in Value \cup {NoValue}
  /\ room \in 0 .. Capacity
  /\ avail \in 0 .. Capacity

\* The slots are not atomic: the producer must never be about to assign to
\* the slot the consumer is about to read, however old the cached indices
\* are by which the two decided to touch it.
NoSlotRace ==
  ~ (ppc = "write" /\ cpc \in {"take", "peek_read"} /\ cur_tail = cur_head)

\* A pop that reports success hands out an element some push stored, never a
\* default-constructed or moved-from slot.
PopsAnElement == cpc = "release" => cvalue \in Value

\* A peeked element is the one the next pop returns, whatever the producer
\* pushes and however often the ring wraps in between.
PeekedIsNext ==
  peeked # NoValue => peeked = IF cpc = "release" THEN cvalue ELSE arr[head]

\* size() is a promise to its caller: after the consumer reads n it can pop n
\* times, after the producer reads n it can push Capacity - n times, although
\* both relaxed loads may be old and the other thread keeps running.
SizeIsAPromise ==
  /\ avail <= Dist(head, tail)
  /\ room <= Capacity - Dist(head, tail)

\* The strengthening that makes the invariants above inductive.  Order: going
\* round the ring one meets head_cache, head, tail_cache and tail in this
\* order, so either cache errs on the side of a full (empty) ring.
Order ==
  /\ Dist(head_cache, head) <= Dist(head_cache, tail)
  /\ Dist(head, tail_cache) <= Dist(head, tail)

\* What the producer's locals say about the shared state.
ProducerInv ==
  /\ ppc # "idle" => cur_tail = tail /\ pvalue \in Value
  /\ ppc \in {"write", "publish"} => Succ(tail) # head_cache
  /\ ppc = "publish" => arr[tail] = pvalue

\* What the consumer's locals say about the shared state.
ConsumerInv ==
  /\ cpc # "idle" => cur_head = head
  /\ cpc \in {"take", "peek_read", "release"} => tail_cache # head
  /\ cpc \in {"try_reload", "wait_reload", "peek_reload"} => tail_cache = head
  /\ peeked # NoValue => tail_cache # head

\* The slots from head up to tail hold elements, except the head slot while
\* its element is in the consumer's hands.
Contents ==
  \A i \in Slots :
    Dist(head, i) < Dist(head, tail) /\ ~ (i = head /\ cpc = "release")
      => arr[i] \in Value

\* The inductive invariant: whichever thread moves next, the producer keeps
\* out of the occupied slots and the consumer out of the free ones.
IInv ==
  /\ TypeOK
  /\ Order
  /\ ProducerInv
  /\ ConsumerInv
  /\ Contents
  /\ PopsAnElement
  /\ PeekedIsNext
  /\ SizeIsAPromise

\* The elements in the ring.  The head slot is already moved from while the
\* consumer is between its read and its store of head.
Items ==
  [i \in 1 .. Dist(head, tail) |->
     IF i = 1 /\ cpc = "release" THEN cvalue ELSE arr[(head + i - 1) % capacity]]

Fifo == INSTANCE FifoQueue WITH items <- Items, Lengths <- 0 .. Capacity, Clears <- FALSE

\* The ring is a bounded FIFO queue: PublishTail is the push, ReleaseHead the
\* pop, and no other step changes what the queue contains.
ImplementsFifo == Fifo!Spec

\* A wait_and_push that found the ring full stores its element, and a
\* wait_and_pop that found it empty gets one, although the cached index each
\* spins on is out of date and it may keep reading old values of the other's.
WaitsReturn ==
  /\ ppc = "wait_reload" ~> ppc = "publish"
  /\ cpc = "wait_reload" ~> cpc = "release"
=============================================================================
