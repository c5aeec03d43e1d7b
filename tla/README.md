# Specifications of ThreadsafeQueueLib

ThreadsafeQueueLib is a header-only C++17 library of six thread-safe queues
(`src/include/`, entry point `tsfqueue.hpp`). This directory holds TLA+ modules
that model them at the granularity of their atomic operations, lock operations
and accesses to shared data; TLC configurations that check the modules on small
instances; and proofs, checked by TLAPS, of the safety properties of all queues, the
slot and the examples, for every value of the constants.

    tlc -workers 2 -config SPSCBounded.cfg SPSCBounded.tla
    tlapm SPSCBoundedProofs.tla

## 1. The system

| component | state it shares between threads | operations |
|---|---|---|
| `lockfree_spsc_bounded<T, Capacity>` | ring `arr` of `Capacity + 1` slots; atomic `head`, `tail`; `head_cache` of the producer, `tail_cache` of the consumer | producer: `try_push`, `emplace_back`, `wait_and_push`; consumer: `try_pop`, `wait_and_pop`, `peek`; either: `empty`, `size` |
| `blocking_mpmc_unbounded<T>` | chain of nodes `head` .. `tail` (stub), `size_q`; `head_mutex`, `tail_mutex`, `size_mutex`; condition variable `cond` | `push`, `emplace_back`, `wait_and_pop`, `wait_for_and_pop`, `try_pop`, `unsafe_peek`, `clear`, `empty`, `size` |
| `lockfree_mpmc_bounded<T, N>` | `N` cells (`sequence`, `data`); atomic `enqueue_pos`, `dequeue_pos` | `try_push`, `try_emplace_back`, `push`, `emplace_back`, `try_pop`, `wait_and_pop`, `empty`, `size` |
| `lockfree_mpsc_unbounded<T>` | chain of nodes behind a stub at `head`; atomic `tail`, `count` | producers: `push`, `emplace_back`; consumer: `try_pop`, `wait_and_pop`, `empty`; any: `size` |
| `lockfree_spsc_unbounded<T>` | chain of nodes `head` .. `tail` (stub), atomic `capacity` (the length) | producer: `push`, `emplace_back`; consumer: `try_pop`, `wait_and_pop`, `unsafe_peek`, `empty`; any: `size` |
| `fast_lockfree_spsc_unbounded<T>`: slot | `Slot_FAST`: atomic `counter` of tokens; `Semaphore_FAST` with its own mutex and condition variable | producer: `signal`; consumer: `try_get`, `wait_and_get`, `timed_get` |
| `fast_lockfree_spsc_unbounded<T>`: blocks | list of `Block_FAST`, each a ring with `enqueue_pos`, `dequeue_pos`, `next`; `head_block`, `tail_block` | producer: `push`, `try_push`, `emplace_back`, `try_emplace_back`; consumer: `try_pop`, `wait_and_pop`, `empty`, `size` |

The queues do not use each other. Within the fast queue the blocks hold the
elements and the slot counts them: every element published in a block is
signalled as one token, and a pop takes a token before it looks at the blocks.
The four programs of `src/examples/` are clients: a logger (fast SPSC queue), a
thread pool (bounded MPMC), an event aggregator (MPSC) and an audio buffer (bounded
SPSC), each with a flag by which the producing side tells the consumers that no
more will come. `src/tests/` and `src/benchmarks/` drive the queues and keep no state
of their own. `utils.hpp` has the node types and the cache line size.

What is hard, component by component, and what makes each correct:

- **SPSC bounded.** Each thread decides by a copy of the other thread's index that
  may be arbitrarily old, and the slots are plain memory. Correct: the two never
  touch one slot at the same time; the ring is a FIFO queue of at most `Capacity`
  elements; what `size()` tells a thread holds until that thread acts; the
  spinning calls reload.
- **Blocking MPMC.** Three mutexes, each guarding a part of what a consumer needs
  to know, and a condition variable. Correct: chain and counter always describe
  one queue; no consumer reaches the stub a producer fills; no cycle of lock
  waits; blocked consumers get elements. The last one does not hold (section 5).
- **MPMC bounded.** Threads act on a cell some time after they looked at it, and
  may sleep in it for laps. Correct: one owner per cell; positions in order and
  within `N`; a FIFO queue whose push and pop take effect at the
  compare-exchange; a lost race or an old position is noticed; `size()` is off by
  no more than its caller cannot know.
- **MPSC unbounded.** The chain is cut between `exchange` and the store of `next`,
  and the element is counted later still; the consumer deletes nodes meanwhile.
  Correct: FIFO in the order of the exchanges although the chain is cut; no access
  to a deleted node; producers never wait for each other.
- **SPSC unbounded.** The producer's `tail` dangles when the consumer pops and
  deletes the node it has just published. Correct: nobody follows a dangling
  pointer, nobody reads data that is being written, `size()` never wraps.
- **FAST slot.** A signal races with a consumer on its way to sleep and with a
  consumer that has just timed out. Correct: no token lost, made up or left
  behind; a sleeper does not sleep beside a token. The last one does not hold
  (section 5).
- **Examples.** A consumer decides whether to leave by a flag and a queue it cannot
  read together, and workers leave one by one. Correct: whatever was pushed has been
  handled once when the program ends, and it ends.
- **FAST blocks.** The producer leaves a block on an old view of `dequeue_pos`, the
  consumer deletes a block it finds empty. Correct: a token means an element in
  the head block or the next; no element is left in a deleted block; FIFO across
  blocks.

`PROJECT.json` lists every hazard with its line and the properties that look at it.

## 2. The modules

| module | models | abstract queue |
|---|---|---|
| `FifoQueue` | what all queues promise: `Push`, `Pop`, `Clear` on a sequence, with the allowed lengths, and whether it can be cleared, as parameters | - |
| `SPSCBounded` | `lockfree_spsc_bounded` | `FifoQueue`, lengths `0 .. Capacity` |
| `SPSCBoundedProofs` | theorems about `SPSCBounded` | |
| `BlockingMPMC` (`MCBlockingMPMC`) | `blocking_mpmc_unbounded` | `FifoQueue`, lengths `Nat` |
| `BlockingMPMCProofs` | theorems about `BlockingMPMC` | |
| `MPMCBounded` (`MCMPMCBounded`) | `lockfree_mpmc_bounded` | `FifoQueue`, lengths `0 .. N` |
| `MPMCBoundedProofs` | theorems about `MPMCBounded` | |
| `NodeChains` | linked chains of nodes: the walk from a node, what it meets, what the nodes hold together | |
| `NodeChainsProofs` | lemmas on chains that grow, shrink and are cut, and on what they hold | |
| `MPSCUnbounded` | `lockfree_mpsc_unbounded`, over `NodeChains` | `FifoQueue`, lengths `Nat` |
| `MPSCUnboundedProofs` | theorems about `MPSCUnbounded` | |
| `SPSCUnbounded` (`MCSPSCUnbounded`) | `lockfree_spsc_unbounded`, over `NodeChains` | `FifoQueue`, lengths `Nat` |
| `SPSCUnboundedProofs` | theorems about `SPSCUnbounded` | |
| `FastSlot` | `Slot_FAST` and `Semaphore_FAST` | |
| `FastSPSC` (`MCFastSPSC`) | blocks of `fast_lockfree_spsc_unbounded`, over `NodeChains`, extends `FastSlot` | `FifoQueue`, lengths `Nat` |
| `FastSPSCProofs` | theorems about `FastSPSC` and `FastSlot` | |
| `ExamplePrograms` | the programs of `src/examples/`, composed with the abstract queue | uses `FifoQueue` |
| `ExampleProgramsProofs` | theorems about `ExamplePrograms` | |

The `MC...` modules add the symmetry sets of the runs that check safety only:
threads run the same code, addresses and elements are only compared, and no
constant or property of those runs names one of them. Runs with a liveness
property use no symmetry.

Conventions in all modules. A thread's program counter is `pc` (`ppc` and `cpc` for
a producer and a consumer); a call starts at `"idle"` with any function and
argument and ends there. Variables keep the names of the source (`head_cache`,
`enqueue_pos`, `old_tail`); variables marked *history* exist only for properties.
An action is one atomic or lock operation or one access to shared plain data, with
the thread-local statements around it; `PROJECT.json`, "map", gives its lines.
Early in each module is a section of *faulty variants*: operations with a
plausible mistake. They are part of no specification; each is substituted for the
correct operation to see that a property notices.

How state and actions correspond to the code:

- **SPSCBounded.** `BeginPush` is the part of a push before its first load of the
  other index; it continues at `"write"` or reloads. `TryReloadHead` is the one
  reload of `emplace_back`, `WaitReloadHead` one turn of `wait_and_push`'s loop.
  `WriteSlot` and `PublishTail` are the assignment to `arr[cur_tail]` and the
  release store. The consumer's actions mirror them. `Visible(seen, newest)` is the
  set of values an acquire load may return: any value stored since the one last
  seen, which is all that C++ read coherence rules out. A moved-from slot is
  `NoValue`, so handing one out is visible. `ProducerSize` and `ConsumerSize` model
  `size()` as called by the two threads of the queue; `empty()` compares the same
  indices.
- **BlockingMPMC.** The chain of `unique_ptr` nodes is the sequence `chain` of the
  filled nodes, since all accesses to it happen under `head_mutex` or
  `tail_mutex`; `owner` says who holds each mutex. `size_mutex` is taken and given
  up within one step where the code closes its scope at once, and is kept to
  `Return` where the code returns under it (`emplace_back`, `try_get`, `clear`).
  `Check` (the call of `empty()`), `Block` (release of `head_mutex` and blocking)
  and `Notify` are separate, which is what loses a wakeup. A blocked thread leaves
  `"waiting"` by `Notify`, `SpuriousWakeup` or `Timeout` and goes back through
  `LockHead` to `Check`. `Destroy` is the destructor and the construction of the next
  queue; it runs when no thread is inside a call, as for the other queues.
- **MPMCBounded.** The loop of push and pop is `LoadPos`, `LoadSeq`, and then
  `CasPush` or `CasPop` or `CasFails` (lost race or spurious failure; `pos` is
  reloaded by the compare-exchange). The four outcomes of `LoadSeq` are the code's
  branches on `dif`. Then `WriteData`/`Publish` or `TakeData`/`Release`. `size()` is
  `LoadPos`, `SizeResult` and `SizeReturn`; the second load may return any `dequeue_pos`
  from `seen[t]`, the newest one thread `t` is sure to know, to the current one. A
  thread learns of pops (`Knows`) by winning a position, with a pop its own and with a
  push the one whose `sequence` it acquired, and by an earlier `size()`. `begun` is history.
- **MPSCUnbounded, SPSCUnbounded.** Nodes are explicit: `node[n]` is a record or
  `Null` when `n` is not allocated, addresses are reused in any order, and `Delete`
  frees one. `Chain` is what a walk along `successor` from `head` meets, and `Items`
  (`ItemsOf(Chain)`) the data of its nodes that count; for the cut chain of the MPSC
  queue `successor` is the link that a producer is about to store. The two loads of the MPSC
  queue's `try_pop` and of its `empty()` are the same actions, `LoadNext` and
  `LoadTail`; `call` tells them apart, and `wait_and_pop` comes back to them.
  `Destroy`, `DeleteNext` and `Construct` are the destructor's loop, node by node, and
  the construction of another queue from the same memory, so that a leaked node or
  one deleted twice is noticed.
- **FastSlot.** `Spin` is one turn of `hot_path`, `Claim` the `fetch_sub` that
  follows it without a check, `Restore` and `Retract` the two atomic operations of
  the loop after a timeout. The semaphore is a counter: its calls run under its
  mutex, and its waits re-check their predicate under it, so they are atomic.
- **FastSPSC.** `Signal` and `GetToken` are the actions of `FastSlot` on the shared
  variables; `"got"` is the point where a pop holds its token and turns to the
  blocks. Blocks are explicit like nodes: `Nodes` are their addresses, `Chain` the blocks
  from the head block on, `contents` what each holds between its positions, and `Items`
  these sequences one after another (`Joined`). The queue is destroyed block by block
  (`Destroy`, `DeleteBlock`; `Alive` is the range of cells whose elements a block's
  destructor destroys). `Size`, `CountBlock`, `WalkOn` are the walk of `size()`, `Empty`
  and `EmptyResult` the two looks of `empty()`, both called by the consumer. `seen` is the oldest `dequeue_pos` of
  the tail block the producer's acquire load may still return.
- **ExamplePrograms.** `program` says which of the four runs. A step is a call of the
  queue or an access to the flag. What the queue does in a call is what `FifoQueue`
  allows, weakened by what the detailed modules show of real calls: between `Push` and
  `PushReturns` the element is in the queue but `empty()` and `try_pop` may overlook it
  and what was pushed after it (`Hidden`); and in the main loops `try_pop` may refuse at
  any time, since the consumer has not synchronised with the producers. In the drain
  loop, after the flag was seen down, a refusal means an empty queue.

## 3. What the runs check

Every module has one type invariant (that of `MPMCBounded` is left to the proof); the other properties relate several pieces of
state of several threads. Each `ImplementsFifo` is refinement of `FifoQueue` by a
mapping `Items` computed from the implementation's state, so it covers lost,
duplicated, reordered and made-up elements at once.

| run | instance | shows |
|---|---|---|
| `spsc_bounded` | `Capacity = 2`, 2 elements, all operations for ever | `NoSlotRace`, `PeekedIsNext`, `SizeIsAPromise`, FIFO; `WaitsReturn`: `wait_and_push` and `wait_and_pop` return |
| `blocking_safety` | 3 threads, all operations, at most 2 elements | `HeadIsNotTheStub`, `SizeIsExact`, FIFO with `clear` |
| `blocking_liveness` | 3 threads, all operations but `unsafe_peek`, 1 element | `SectionsEnd`: no deadlock of the mutexes; `TimedWaitReturns`; `PushWakes`: a push that begins while one thread is blocked wakes it |
| `mpmc_bounded_safety` | 3 threads, `N = 2`, 3 pushes, 2 elements | `CellsAreOwnedByOne`, `GetsItsElement`, FIFO; `RefusalsAreExcused`: a try call gives up only at a full or empty queue or because of a call that is in its cell; `SizeIsBounded`: `size()` exceeds `N` only by pops its caller did not know of |
| `mpmc_bounded_liveness` | 3 threads of which one may stop anywhere, `N = 2`, 2 pushes | `PopsProceed`: a spinning pop gets a published element unless the stopped thread owns a cell; `TriesReturn` |
| `slot` | `SPIN_COUNT` 2, at most 3 tokens | `CounterIsExact`, `NoStalePost`; `PostReachesSleeper`: a posted token arrives despite timeouts |
| `fast_spsc` | 3 blocks of 2 cells, up to 4 tokens, 4 positions per block | `TokenMeansElement`, `MemorySafe` (deleted blocks, racing cells, leaks and elements destroyed once), `AnswersAreTimely` (`size()`, `empty()`), FIFO across blocks |
| `spsc_unbounded` | 5 nodes, 2 elements | `MemorySafe` (deleted nodes, racing data, leaks), `SizeIsNeverShort`, FIFO |
| `mpsc_unbounded` | 2 producers of which one may stop anywhere, 3 nodes, 2 elements | `MemorySafe` (deleted nodes, leaks), `SizeIsLate`, FIFO through cut chains; `EmptyIsExact`: neither `empty()` nor `try_pop` calls a queue empty whose elements are behind a cut; `TryPopReturns` unless the stopped producer has cut the chain |
| `examples` | each program with 2 threads on its many side, 4 elements per producer, bounded queues of 2 | `AllHandledOnce`, `ProgramFinishes` |
| `blocking_push_wakeup`, `slot_sleep` | 2 threads | the violations of section 5 |

Bounds, all named in the modules. The proofs use none of the limits on lengths and
positions (`MaxLen`, `MaxPos`, `MaxTokens`) and hold for every ring size and every finite
memory and, where there are several, for any number of threads; so only for the
liveness properties and the two violations does it matter that the instances are
large enough:

- `Capacity = 2` gives a ring of three slots, which wraps, is full, empty and
  between; indices live modulo the ring, so the runs are unbounded in length.
- `MaxLen` (BlockingMPMC) stops pushes at a length, not at a number: threads call
  for ever. Two elements suffice for order, three threads for a waiter, its waker
  and a thief.
- `MaxPos` (MPMCBounded) ends the pushes after one and a half laps of the ring in
  the safety run: an owner that sleeps in its cell for a lap is included. The
  liveness run ends them after one lap: both cells are filled and emptied, with
  each thread stopped or passed by the others at every step.
- `Nodes` is memory, of nodes or of blocks: addresses are reused, so the runs are unbounded
  in length. Five nodes let the SPSC consumer fall behind by several nodes while
  one is freed and used again; with three nodes both producers of the MPSC queue
  can cut the chain at once; three blocks are a head being left, a full tail and
  a new block.
- `MaxTokens` and `MaxPos` (FastSlot, FastSPSC) bound untaken tokens and positions
  within one block; `MaxPos = 2 * Capacity` lets a block's ring wrap.
- `SpinCount = 2` stands for 1024: the turns before the last do the same.
- `Count = 4` and `Bound = 2` (ExamplePrograms): the bounded queues fill, so a producer
  waits for a consumer, and drain again.
- `SizeMod` is the width of `size_t` in the MPSC counter; 8 makes the wrap below
  zero happen.

`CHECK_DEADLOCK FALSE` is set for the slot and the fast queue only: there a
consumer may sleep for ever (section 5) while the producer is at its bound.

Memory model. Where a load of another thread's variable by itself decides what a
thread does with plain memory (the ring's indices, a block's `dequeue_pos`), or is half
of a result (the `dequeue_pos` that `size()` of the MPMC ring subtracts), it may
return an old value. Elsewhere the models are sequentially consistent: in the loops of
the MPMC ring an old position only costs a retry and an old `sequence` only an additional
"full" or "empty". `RefusalsAreExcused`, `EmptyIsExact` and `AnswersAreTimely` look at
such answers: they speak of calls that read the newest values, which is what a thread reads that has
synchronised with the others, as the consumers of the examples have when they see the
flag down; `ExamplePrograms` allows refusals of the other kind before that. An old `next` or `counter` is the
same as the load having come earlier, and an old `enqueue_pos` in `size()` only makes the
result smaller; read-modify-writes always act on the newest
value; and the blocking queue runs under its mutexes.

`size()` of the MPMC ring is therefore not bounded by `N`. Both positions are advanced by
relaxed compare-exchanges (`lockfree_mpmc_bounded/impl.hpp:18` and `59`), so the acquire
load of `enqueue_pos` (line 87) synchronises with nothing and may be followed by an old
`dequeue_pos`: a thread that has only watched may read `N + 1` after one pop and more after
more. The instance of `mpmc_bounded_safety` reaches this: with `N = 2` a thread that has
not noticed the first pop reads 3. `SizeIsBounded` says what remains: the excess is at most
the pops that were won when `size()` began (`begun`) and that its caller did not know of
(`seen`), so the order of the two loads still matters, and a sole consumer reads at most
`N`. No text of the repository promises a bound.

## 4. Fairness

Nothing is assumed about clients unless stated; no thread has to make a call.

- **SPSCBounded.** A thread inside a call is scheduled (`WF`). A loop that reloads
  an index sees a newer one at some time: stores become visible in finite time.
  For `WaitsReturn` the clients call `wait_and_pop` and
  `wait_and_push` again and again (`SF`), as the tests do: without an active other
  side a spin has no reason to end.
- **BlockingMPMC.** `SF` for the steps of each thread: a mutex is not withheld for
  ever from a thread that asks for it again and again. `SF` for `Timeout`: the code
  waits until an absolute deadline, so interruptions do not put it off. Spurious
  wakeups are never assumed.
- **MPMCBounded.** `WF` for each thread that is not in `Stoppable`, and `SF` for its
  compare-exchange: it does not fail spuriously for ever. A thread in `Stoppable`
  may be suspended at any point for ever. The bound `MaxPos` ends
  the competition, so `TriesReturn` says that a thread returns once the others
  stop winning; the code promises no more.
- **MPSCUnbounded.** `WF` for each producer not in `Stoppable` and the consumer; a
  producer in `Stoppable` may be suspended at any point for ever.
- **ExamplePrograms.** `WF` for every thread and for what main does (`LowerFlag`,
  `Finish`): the loops call again and again, as the programs do. `SF` for a successful
  `try_pop`: a consumer that goes on polling beside an element does not read old
  values for ever.
- **FastSlot.** `WF` for both threads inside a call; a timed wait times out.

## 5. Where code and documentation disagree

Each is a run that violates one property, and an entry of "findings".

1. `blocking_push_wakeup`: `push` notifies without holding `head_mutex`
   (`blocking_mpmc_unbounded/impl.hpp:41`). A consumer that has found the queue
   empty and is not yet blocked misses it and sleeps beside the element until the
   next push. `PushWakes` states what remains true.
   `emplace_back` does not notify at all (line 169): with
   `Ops = {"emplace_back", "wait_and_pop"}` in the same configuration a consumer that is
   blocked when the element comes stays blocked, whatever the order.
2. `slot_sleep`: `get_with_sleep` lowers the counter without looking at what it was
   (`slots.hpp:104`). A signal after the last look and before this leaves the
   counter at zero; no signal, present or future, posts the semaphore, and
   `wait_and_pop` sleeps for ever while the queue grows. After the same race a
   `timed_get` (public in `Slot_FAST`, not called by the queue yet) would turn in
   its restore loop for ever.

The elements are not lost in any of these: the safety properties hold.

Two claims of the repository's README hold only in a weaker sense, which the liveness
properties state. It calls the bounded MPMC queue lock-free and wait-free, but a
thread suspended between winning a position and publishing or releasing its cell
holds up the pops that reach this cell: `PopsProceed` excepts exactly the time in
which a stopped thread owns a cell. It calls the MPSC queue lock-free, but a
producer suspended between its exchange and the store of `next` holds the consumer
inside `try_pop`: `TryPopReturns` excepts exactly that point. Without these
exceptions both properties fail.

## 6. What is proved

**`SPSCBoundedProofs`**, for every `Capacity >= 1` and every set of elements, from
`CapacityAssumption` and `NoValueAssumption`: `Spec => []IInv`, and from it the type
invariant, `NoSlotRace`, `PopsAnElement` with `PeekedIsNext`, `SizeIsAPromise`, and
`Spec => ImplementsFifo`, the refinement.

The argument. None of the properties is inductive: that a thread may touch a slot
follows from its cached index, so the invariant has to say how the four indices lie
around the ring. `IInv` has these parts: `Order`, going round one meets
`head_cache`, `head`, `tail_cache`, `tail` in this order, so each copy errs towards
"full" or "empty"; `ProducerInv` and `ConsumerInv`, what a thread's locals say about
the shared state at each point of its call; `Contents`, the slots from `head` up to
`tail` hold elements, except the head slot while its element is in the consumer's
hands; and `PopsAnElement`, `PeekedIsNext`, `SizeIsAPromise` themselves. A first
group of lemmas settles the arithmetic of distances modulo `Capacity + 1`; one lemma
per action shows that it preserves `IInv`; `RingIsFifo` shows that `PublishTail` maps
to `Push`, `ReleaseHead` to `Pop`, and every other step to a stutter. Old values of
the index loads are covered, since `Visible` is what the actions use.

**`ExampleProgramsProofs`**, for every non-empty set of workers, every `Count >= 1` and
every `Bound`, from `WorkersAssumption` and `CountAssumption`: `Spec => []IInv` and
`Spec => []AllHandledOnce`. `AllHandledOnce` speaks of the end only; the invariant says
where the elements are before it. `ThreadsInv`: a thread is past the flag only when the
flag is down, the flag is down only when every push has returned, and a consumer that
has left saw the queue empty, which it then stays. `ElementsInv`: a pushed element is in
the queue, with one consumer, or handled once, and in one of these only. One lemma
per moving action (`Push`, `TryPop`, `Handle`, `Finish`), one for the steps of producers
and one for those of consumers that move nothing; two lemmas say what occurs in a
sequence after `Append` and `Tail`.

**`BlockingMPMCProofs`**, for any set of threads and of elements and chains of any
length, from `FreeAssumption` and `NoValueAssumption`: `Spec => []IInv`, and from it the type
invariant, `HeadIsNotTheStub`, `SizeIsExact`, and `Spec => ImplementsFifo`.
`SizeIsExact` says that the counter equals the length of the queue although chain
and counter change under different mutexes; it is inductive only together with
`LocksInv`, which thread holds which mutex at which point of its call and nobody
elsewhere, and `ContentsInv`, what a thread still knows that it read under a mutex it
has given up: a consumer that read `size_q > 0` under `size_mutex` finds a filled
node later because it kept `head_mutex`, and only its holder shortens the chain. The
step lemmas show `IInv'` and the abstract step together: `Inc` is `Push`, `Dec` is
`Pop`, `Zero` and `Destroy` are `Clear`, all others stutter, among them those that
change the chain.

**`MPMCBoundedProofs`**, for every `N >= 2` (the code asserts it) and any set of threads
and of elements, from `NAssumption` and `NoValueAssumption`: `Spec => []IInv`, and from it
the type invariant, `CellsAreOwnedByOne`, `GetsItsElement`; the action properties
`RefusalsAreExcused` and `SizeIsBounded`; and `Spec => ImplementsFifo`. The state of a cell is in its
sequence number, and threads hold positions of any age, so `IInv` says for the `N`
positions that are next to be won which of four states their cell is in and, when it
is between two of them, that some thread is there (`CellsInv`); what a thread may
assume of the position and cell it works on (`ThreadsInv`); that no position is won
twice (`OwnersInv`); and that the sequence of a cell has passed every older position
(`SequencesInv`), which is why a thread that slept for a lap cannot win. `SizeIsBounded`
needs another invariant on top of it, `ViewsInv`: no thread knows of a pop that is not
won, a push because the cell it wins is one that a pop has released, and between its loads
`size()` holds an `enqueue_pos` at most `N` ahead of the `dequeue_pos` of that time. The lemmas on
`%` and `\div` say that `N` consecutive positions have different cells. The queue's
contents depend on cells whose element is still in a producer's hands; `Locations`
says where each is, and with it `CasPush` is `Push`, `CasPop` is `Pop`.

**`NodeChainsProofs`**, for every finite set of nodes, from `NodesAssumption` and
`NullAssumption`. `Walk` is a recursive function, about which the provers know nothing:
`WalkSteps` shows, by the well-foundedness of the numbers, that it is well
defined, and `TheChain` that a sequence of different nodes linked from `h` to `Null`
is all that a walk from `h` meets. Hence the proofs about the queues name the chain once,
show that a step turns it into another chain (longer at the end, shorter at the
head), and never speak of the walk.

**`SPSCUnboundedProofs`**, for every finite set of nodes and any set of elements, from
these assumptions, `NoValueAssumption` and `DeletedAssumption` (a node is not `Null`):
`Spec => []IInv`, and from it the type invariant, `MemorySafe`, `SizeIsNeverShort`, and
`Spec => ImplementsFifo`. The producer's `tail` is freed under it between `Publish` and
`Advance`. `ProducerInv` says where on the chain `tail` is, or that it is gone and will
not be followed; `ConsumerInv` that `head` and the node being deleted are the first
two of the chain or before it; `CountInv` how far the counter may be ahead; `ChainInv` that
the nodes from `head` and the few that threads hold privately are all that is
allocated, which excludes leaks and double frees.

**`MPSCUnboundedProofs`**, for any finite sets of producers and nodes and every width
of the counter, from these and from `ProducersAssumption` and `SizeModAssumption`:
`Spec => []IInv`, and from it the type invariant, `MemorySafe`, `SizeIsLate`, the action
property `EmptyIsExact`, and `Spec => ImplementsFifo`. The chain in memory is cut wherever a
producer is between its exchange and its store; the chain of `IInv` follows
`successor`, and `ProducersInv` says that each producer there is about to link two
neighbours on it, each to its own, and that a node is not deleted before it is linked to
the next: this keeps a sleeping producer from storing into a freed node. `CountInv` equates the
counter, modulo the width, with the length of the queue and the calls between exchange or pop
and counting.

**`FastSPSCProofs`**, for every `Capacity >= 1`, every finite set of blocks and any set of
elements, from the assumptions on nodes and from `CapacityAssumption`,
`SpinCountAssumption`, `NoValueAssumption` and `DeletedAssumption`: `Spec => []IInv`, and
from it `TokenMeansElement`, `MemorySafe`, `AnswersAreTimely`, and `Spec =>
ImplementsFifo`. The consumer deletes a block because it is empty, and the producer leaves
one because it looks full; neither fact is stable, and only together do they keep
elements from being lost. The parts of `IInv`:

- `BlocksInv`: the live blocks are the chain and at most one block not linked yet, and
  none but the first is empty (the second for the moment in which its only element
  has been taken and the head is about to be deleted). So a token, which by `TokensInv`
  stands for an element, finds it in the first two blocks.
- `CellsInv`: the cells between a block's positions hold elements, all others nothing,
  except for the element just written and not published and the one moved out and not
  passed. This gives the absence of races on cells and what a destructor destroys.
- `ProducerInv`: `tail_block` is the last block, or the last but one after the new block
  is linked; what the producer has seen of `dequeue_pos` is not more than it is, so a
  block that looks as if it had room has it. `ConsumerInv`: once the consumer turns to the
  second block, the producer has left the first for good, which makes deleting it safe.
- `SlotInv`: the counter and the semaphore agree with the tokens, for the operations
  of the slot that the queue calls.
- `WalkInv`: what `size()` has counted lies between what the blocks it has passed
  hold now and what they must have held when it began, while all of them may have grown.

Every step is one of a few steps on the chain: `PublishEnq` and `LinkNext` are `Push`,
`AdvanceDeq` is `Pop`, `Destroy` is `Clear`, all others stutter. The contents of the
chain are a concatenation of sequences, defined by recursion in `NodeChains!Joined`;
`NodeChainsProofs` says once how they change when the last node grows, a node is
appended, an element is taken from the first node that has one, or an empty first
node is dropped (`JoinGrows`, `JoinAppended`, `JoinPops`, `JoinDrops`). One family of
lemmas follows a single block through the steps on its cells, one the chain.

At the end of the module are the theorems about the slot by itself, `SlotSpec`, with
all its operations, for every `SpinCount`: type correctness, `CounterIsExact`
and `NoStalePost`. `SlotIInv` adds to these that a token seen stays until the consumer
takes it, and that the restore loop only turns while there is a token: that is
what makes a signal that saw a sleeper the only one to post for it.

Only model-checked: every liveness property (`WaitsReturn`, `SectionsEnd`,
`TimedWaitReturns`, `PushWakes`, `PopsProceed`, `TriesReturn`, `PostReachesSleeper`,
`TryPopReturns`, `ProgramFinishes`), as the prover does not handle fairness and `ENABLED`.
Every safety property of a run is a theorem.

## 7. What is not modelled

- Use by more threads than a class is documented for (a third thread's `size()` on an
  SPSC queue, `empty()` of the MPSC and fast queues by a producer), and destruction
  while another thread is inside a call.
- The destructors of the two bounded queues, which are the compiler's and release
  arrays.
- Operations that throw (copy assignment in `wait_and_pop(T&)`, move assignment in
  `try_dequeue`, allocation).
- `unsafe_peek(T&)` apart from `unsafe_peek()`: its `std::copy` of one argument
  (`blocking_mpmc_unbounded/impl.hpp:193`) names no function of the standard library, so
  only the overload that returns a `shared_ptr` can be instantiated.
- Wraps at the width of `size_t` in `MPMCBounded` and of `int` in the slot's counter.
- Recursion depth of destructors, padding and alignment, element types.
- The mach variant of `Semaphore_FAST`, which has the same interface (its deleted
  constructors name a type `Semaphore` that is declared nowhere, `slots.hpp:13`).
- Tests and benchmarks.

## 8. Plan

Done, in this order: `FifoQueue`, `SPSCBounded` with its proofs, `BlockingMPMC`,
`MPMCBounded`, `FastSlot` with its proofs, `FastSPSC`, `SPSCUnbounded`,
`MPSCUnbounded`, destruction, `size()` and `empty()`, `ExamplePrograms` with its proofs,
the proofs about `BlockingMPMC`, `MPMCBounded`, `SPSCUnbounded`, `MPSCUnbounded` and
`FastSPSC`.

Next, in order of weight:

1. A module on the arithmetic of positions at width `w`: with `N` dividing `2^w` the
   signed difference decides as it does on naturals.
2. Throwing element operations in `BlockingMPMC` and `FastSPSC`.
