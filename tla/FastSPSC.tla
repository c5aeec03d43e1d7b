------------------------------- MODULE FastSPSC -------------------------------
(***************************************************************************)
(* fast_lockfree_spsc_unbounded<T>: a list of blocks, each a ring of       *)
(* Capacity elements, composed with the slot (FastSlot) that counts them.  *)
(* The nodes of the chain are the blocks.                                  *)
(* The producer fills the tail block, which it leaves for a new one when   *)
(* it looks full; the consumer, once it holds a token, takes from the head *)
(* block or, when that is empty, from the next one, and deletes the head.  *)
(*                                                                         *)
(* A step is one atomic operation or one access to a cell.  The producer's *)
(* acquire load of dequeue_pos may return any value since the last it saw. *)
(* What a pop loads is ordered by the token it took before.  size() and    *)
(* empty() are called by the consumer, as blocks it deletes are walked.    *)
(* When neither thread is inside a call, the queue may be destroyed and    *)
(* another be made in its place.                                           *)
(***************************************************************************)
EXTENDS NodeChains, FastSlot

CONSTANTS
  Capacity,   \* Block_FAST::capacity
  Value,      \* the elements pushed
  NoValue,    \* a cell whose element was never constructed or is destroyed
  MaxPos      \* bound: no push starts when the tail block has seen this many

ASSUME CapacityAssumption == Capacity \in Nat \ {0}
ASSUME MaxPosAssumption == MaxPos \in Nat
ASSUME NoValueAssumption == NoValue \notin Value

Cells == 0 .. Capacity - 1

\* The cell of a position: pos & mask, where capacity is a power of two.
CellOf(p) == p % Capacity

BlockType ==
  [data : [Cells -> Value \cup {NoValue}],
   enqueue_pos : Nat, dequeue_pos : Nat, next : Nodes \cup {Null}]

ASSUME DeletedAssumption == Null \notin BlockType

VARIABLES
  block,      \* the blocks: data, enqueue_pos, dequeue_pos, next
  head_block,
  tail_block,
  new_block,  \* the producer's pointer to a block it has not linked yet
  seen,       \* the newest dequeue_pos of the tail block the producer knows
  pvalue,     \* the element being pushed
  cvalue,     \* the element the consumer has moved out
  curr,       \* the block size() and the destructor have come to
  count,      \* what size() has counted so far
  before,     \* history: the number of elements when size() or empty() began
  out         \* history: the element of the latest pop

slotButPpc == <<counter, sema, tokens, cpc, call, spins>>
slotButCpc == <<counter, sema, tokens, ppc, call, spins>>
walk == <<curr, count, before>>
chain == <<block, head_block, tail_block, new_block, seen, pvalue, cvalue, walk, out>>
vars == <<slot, chain>>

EmptyBlock ==
  [data |-> [i \in Cells |-> NoValue],
   enqueue_pos |-> 0, dequeue_pos |-> 0, next |-> Null]

\* A new block into which v has been enqueued.
BlockOf(v) ==
  [data |-> [i \in Cells |-> IF i = 0 THEN v ELSE NoValue],
   enqueue_pos |-> 1, dequeue_pos |-> 0, next |-> Null]

Init ==
  /\ SlotInit
  /\ head_block \in Nodes /\ tail_block = head_block
  /\ block = [b \in Nodes |-> IF b = head_block THEN EmptyBlock ELSE Null]
  /\ new_block = Null
  /\ seen = 0
  /\ pvalue = NoValue /\ cvalue = NoValue /\ out = NoValue
  /\ curr = Null /\ count = 0 /\ before = 0

\* What size() counts in block b.
CountIn(b) ==
  LET head_idx == block[b].dequeue_pos
      tail_idx == block[b].enqueue_pos
  IN  IF tail_idx > head_idx THEN tail_idx - head_idx ELSE 0

-----------------------------------------------------------------------------
(* Faulty variants of operations below, each of which breaks a property.   *)

\* A block counts as full one element too late.
TryEnqueueLate ==
  /\ ppc = "enqueue"
  /\ seen' \in seen .. block[tail_block].dequeue_pos
  /\ ppc' = IF block[tail_block].enqueue_pos - seen' > Capacity
            THEN "new_block" ELSE "write"
  /\ UNCHANGED <<slotButPpc, block, head_block, tail_block, new_block, pvalue, cvalue, walk, out>>

\* The token is signalled before the element is published.
WriteDataSignals ==
  /\ ppc = "write"
  /\ LET b == tail_block
     IN  block' = [block EXCEPT ![b].data[CellOf(block[b].enqueue_pos)] = pvalue]
  /\ ppc' = "signal"
  /\ UNCHANGED <<slotButPpc, head_block, tail_block, new_block, seen, pvalue, cvalue, walk, out>>

\* The producer goes on with the old block.
MoveTailForgotten ==
  /\ ppc = "move_tail"
  /\ new_block' = Null
  /\ ppc' = "signal"
  /\ UNCHANGED <<slotButPpc, block, head_block, tail_block, seen, pvalue, cvalue, walk, out>>

\* Only the last block counts.
CountBlockAfresh ==
  /\ cpc = "count"
  /\ count' = CountIn(curr)
  /\ cpc' = "walk"
  /\ UNCHANGED <<slotButCpc, block, head_block, tail_block, new_block, seen, pvalue,
                 cvalue, curr, before, out>>

-----------------------------------------------------------------------------
(* The producer: push, try_push, emplace_back and try_emplace_back         *)

CallPush ==
  /\ ppc = "idle"
  /\ tokens < MaxTokens
  /\ block[tail_block].enqueue_pos < MaxPos
  /\ pvalue' \in Value
  /\ ppc' = "enqueue"
  /\ UNCHANGED <<slotButPpc, block, head_block, tail_block, new_block, seen, cvalue, walk, out>>

TryEnqueue ==
  /\ ppc = "enqueue"
  /\ seen' \in seen .. block[tail_block].dequeue_pos
  /\ ppc' = IF block[tail_block].enqueue_pos - seen' >= Capacity
            THEN "new_block" ELSE "write"
  /\ UNCHANGED <<slotButPpc, block, head_block, tail_block, new_block, pvalue, cvalue, walk, out>>

WriteData ==
  /\ ppc = "write"
  /\ LET b == tail_block
     IN  block' = [block EXCEPT ![b].data[CellOf(block[b].enqueue_pos)] = pvalue]
  /\ ppc' = "publish"
  /\ UNCHANGED <<slotButPpc, head_block, tail_block, new_block, seen, pvalue, cvalue, walk, out>>

PublishEnq ==
  /\ ppc = "publish"
  /\ block' = [block EXCEPT ![tail_block].enqueue_pos = @ + 1]
  /\ ppc' = "signal"
  /\ UNCHANGED <<slotButPpc, head_block, tail_block, new_block, seen, pvalue, cvalue, walk, out>>

NewBlock ==
  /\ ppc = "new_block"
  /\ \E b \in Nodes :
       /\ block[b] = Null
       /\ block' = [block EXCEPT ![b] = BlockOf(pvalue)]
       /\ new_block' = b
  /\ ppc' = "link"
  /\ UNCHANGED <<slotButPpc, head_block, tail_block, seen, pvalue, cvalue, walk, out>>

LinkNext ==
  /\ ppc = "link"
  /\ block' = [block EXCEPT ![tail_block].next = new_block]
  /\ ppc' = "move_tail"
  /\ UNCHANGED <<slotButPpc, head_block, tail_block, new_block, seen, pvalue, cvalue, walk, out>>

MoveTail ==
  /\ ppc = "move_tail"
  /\ tail_block' = new_block
  /\ new_block' = Null
  /\ seen' = 0
  /\ ppc' = "signal"
  /\ UNCHANGED <<slotButPpc, block, head_block, pvalue, cvalue, walk, out>>

Signal == (AddToken \/ Post) /\ UNCHANGED chain

-----------------------------------------------------------------------------
(* The consumer: try_pop and wait_and_pop                                  *)

GetToken ==
  /\ \/ TryGet \/ GetWithSleep("wait_and_get")
     \/ Spin \/ TakeToken \/ Claim \/ Wake
  /\ UNCHANGED chain

IsEmpty(b) == block[b].dequeue_pos = block[b].enqueue_pos

DequeueHead ==
  /\ cpc = "got"
  /\ cpc' = IF IsEmpty(head_block) THEN "load_next" ELSE "read"
  /\ UNCHANGED <<slotButCpc, chain>>

next_block == block[head_block].next

\* Without an element in the next block the pop returns with nothing.
DequeueNext ==
  /\ cpc = "load_next"
  /\ cpc' = IF next_block = Null \/ IsEmpty(next_block) THEN "idle" ELSE "read_next"
  /\ UNCHANGED <<slotButCpc, chain>>

\* The block the consumer takes from.
Source == IF cpc \in {"read_next", "advance_next"} THEN next_block ELSE head_block

\* Move the element out and destroy what is left.
ReadData ==
  /\ cpc \in {"read", "read_next"}
  /\ LET i == CellOf(block[Source].dequeue_pos)
     IN  /\ cvalue' = block[Source].data[i]
         /\ block' = [block EXCEPT ![Source].data[i] = NoValue]
  /\ cpc' = IF cpc = "read" THEN "advance" ELSE "advance_next"
  /\ UNCHANGED <<slotButCpc, head_block, tail_block, new_block, seen, pvalue, walk, out>>

AdvanceDeq ==
  /\ cpc \in {"advance", "advance_next"}
  /\ block' = [block EXCEPT ![Source].dequeue_pos = @ + 1]
  /\ out' = cvalue
  /\ cvalue' = NoValue
  /\ cpc' = IF cpc = "advance" THEN "idle" ELSE "delete"
  /\ UNCHANGED <<slotButCpc, head_block, tail_block, new_block, seen, pvalue, walk>>

DeleteHead ==
  /\ cpc = "delete"
  /\ head_block' = next_block
  /\ block' = [block EXCEPT ![head_block] = Null]
  /\ cpc' = "idle"
  /\ UNCHANGED <<slotButCpc, tail_block, new_block, seen, pvalue, cvalue, walk, out>>

-----------------------------------------------------------------------------
(* The consumer: size and empty                                            *)

\* The element the consumer has moved out of block b, until it has advanced.
Moved(b) ==
  IF cpc \in {"advance", "advance_next"} /\ b = Source THEN cvalue ELSE NoValue

\* The elements of a block r, moved included.
Elements(r, moved) ==
  [i \in 1 .. r.enqueue_pos - r.dequeue_pos |->
     IF i = 1 /\ moved # NoValue THEN moved ELSE r.data[CellOf(r.dequeue_pos + i - 1)]]

successor == [b \in Nodes |-> IF block[b] = Null THEN Null ELSE block[b].next]

\* The blocks from the first one that is not deleted.
Chain == ChainFrom(IF cpc = "destroy" THEN curr ELSE head_block, successor)

contents == [b \in Nodes |-> IF block[b] = Null THEN << >> ELSE Elements(block[b], Moved(b))]

\* The elements of the first k blocks of c, for every k.
Prefixes(c) == Joined(c, contents)

ItemsOf(c) == IF cpc = "destroy" THEN << >> ELSE Prefixes(c)[Len(c)]

Items == ItemsOf(Chain)

Size ==
  /\ cpc = "idle"
  /\ curr' = head_block /\ count' = 0 /\ before' = Len(Items)
  /\ cpc' = "count"
  /\ UNCHANGED <<slotButCpc, block, head_block, tail_block, new_block, seen, pvalue, cvalue, out>>

\* Add the elements of curr; only the producer may move its position meanwhile.
CountBlock ==
  /\ cpc = "count"
  /\ count' = count + CountIn(curr)
  /\ cpc' = "walk"
  /\ UNCHANGED <<slotButCpc, block, head_block, tail_block, new_block, seen, pvalue,
                 cvalue, curr, before, out>>

\* Go on to the next block; after the last one size() returns count.
WalkOn ==
  /\ cpc = "walk"
  /\ curr' = block[curr].next
  /\ IF curr' = Null
     THEN cpc' = "idle" /\ count' = 0 /\ before' = 0
     ELSE cpc' = "count" /\ UNCHANGED <<count, before>>
  /\ UNCHANGED <<slotButCpc, block, head_block, tail_block, new_block, seen, pvalue, cvalue, out>>

\* empty() looks at the next block only when the head block is empty; else it
\* returns at once.
Empty ==
  /\ cpc = "idle"
  /\ IsEmpty(head_block)
  /\ before' = Len(Items)
  /\ cpc' = "empty"
  /\ UNCHANGED <<slotButCpc, block, head_block, tail_block, new_block, seen, pvalue,
                 cvalue, curr, count, out>>

\* It returns whether there is none.
EmptyResult ==
  /\ cpc = "empty"
  /\ before' = 0
  /\ cpc' = "idle"
  /\ UNCHANGED <<slotButCpc, block, head_block, tail_block, new_block, seen, pvalue,
                 cvalue, curr, count, out>>

-----------------------------------------------------------------------------
(* The destructor, which runs when both threads are through                *)

Destroy ==
  /\ ppc = "idle" /\ cpc = "idle"
  /\ ppc' = "joined" /\ cpc' = "destroy"
  /\ curr' = head_block
  /\ UNCHANGED <<counter, sema, tokens, call, spins, block, head_block, tail_block,
                 new_block, seen, pvalue, cvalue, count, before, out>>

\* One turn of its loop; the block destroys the elements between its positions.
DeleteBlock ==
  /\ cpc = "destroy" /\ curr # Null
  /\ curr' = block[curr].next
  /\ block' = [block EXCEPT ![curr] = Null]
  /\ UNCHANGED <<slot, head_block, tail_block, new_block, seen, pvalue, cvalue,
                 count, before, out>>

\* Another queue is made.
Construct ==
  /\ cpc = "destroy" /\ curr = Null
  /\ \E b \in Nodes :
       /\ block[b] = Null
       /\ block' = [block EXCEPT ![b] = EmptyBlock]
       /\ head_block' = b /\ tail_block' = b
  /\ counter' = 0 /\ sema' = 0 /\ tokens' = 0 /\ seen' = 0
  /\ ppc' = "idle" /\ cpc' = "idle"
  /\ UNCHANGED <<call, spins, new_block, pvalue, cvalue, walk, out>>

-----------------------------------------------------------------------------
Next ==
  \/ CallPush \/ TryEnqueue \/ WriteData \/ PublishEnq
  \/ NewBlock \/ LinkNext \/ MoveTail \/ Signal
  \/ GetToken
  \/ DequeueHead \/ DequeueNext \/ ReadData \/ AdvanceDeq \/ DeleteHead
  \/ Size \/ CountBlock \/ WalkOn \/ Empty \/ EmptyResult
  \/ Destroy \/ DeleteBlock \/ Construct

Spec == Init /\ [][Next]_vars

-----------------------------------------------------------------------------
\* The elements whose token is not signalled yet, or is in the consumer's hand.
Unsignalled == IF ppc \in {"move_tail", "signal"} THEN 1 ELSE 0
Held ==
  IF cpc \in {"got", "load_next", "read", "read_next", "advance", "advance_next"}
  THEN 1 ELSE 0

\* "Should never reach here": a consumer with a token finds its element in the
\* head block or in the one after it, never further on, and never not at all,
\* although the producer changes blocks on an old view of dequeue_pos.  Slot and
\* blocks agree: there is a token for every element, but for the one about to
\* be signalled and the one whose token the consumer holds.
TokenMeansElement ==
  /\ cpc = "got" /\ IsEmpty(head_block)
       => next_block # Null /\ ~ IsEmpty(next_block)
  /\ cpc = "load_next" => next_block # Null /\ ~ IsEmpty(next_block)
  /\ cpc # "destroy" =>
       Len(Items) = tokens + Unsignalled + Held

\* The cells of a block r that hold an element its destructor destroys.
Alive(r) == {CellOf(p) : p \in r.dequeue_pos .. r.enqueue_pos - 1}

\* The consumer deletes no block the producer still uses, and keeps its own.
\* The cells are not atomic: none is constructed and read at once.  The
\* destructor meets no deleted block, leaves none behind, and destroys exactly
\* the elements that were constructed and not popped.
MemorySafe ==
  /\ cpc # "destroy" =>
       /\ block[head_block] # Null
       /\ block[tail_block] # Null
       /\ new_block # Null => block[new_block] # Null
  /\ ppc = "write" /\ cpc \in {"read", "read_next"} /\ Source = tail_block
       => CellOf(block[tail_block].enqueue_pos) # CellOf(block[tail_block].dequeue_pos)
  /\ curr # Null => block[curr] # Null
  /\ cpc = "destroy" =>
       \A b \in Nodes : block[b] # Null =>
         /\ curr # Null
         /\ \A i \in Cells : block[b].data[i] # NoValue <=> i \in Alive(block[b])

\* size() walks blocks that grow and get successors meanwhile, and empty() looks
\* at two of them one after the other; yet size() returns a number of elements
\* the queue had at some time during the call, empty() says yes only if there
\* was none when it was called, and no only if there is one.
AnswersAreTimely ==
  /\ cpc = "walk" => count <= Len(Items)
  /\ cpc = "walk" /\ block[curr].next = Null => before <= count
  /\ cpc = "empty" =>
       IF next_block = Null THEN before = 0 ELSE Items # << >>

Fifo == INSTANCE FifoQueue WITH items <- Items, Lengths <- Nat, Clears <- TRUE

\* The blocks together are one FIFO queue: an element enters when its position
\* or its block is published, and leaves when dequeue_pos passes it or the
\* queue is destroyed.
ImplementsFifo == Fifo!Spec
-----------------------------------------------------------------------------
(* What holds in every state, and is inductive.                            *)

TypeOK ==
  /\ block \in [Nodes -> BlockType \cup {Null}]
  /\ head_block \in Nodes /\ tail_block \in Nodes
  /\ new_block \in Nodes \cup {Null} /\ curr \in Nodes \cup {Null}
  /\ seen \in Nat /\ count \in Nat /\ before \in Nat
  /\ {pvalue, cvalue, out} \subseteq Value \cup {NoValue}
  /\ counter \in Int /\ sema \in Nat /\ tokens \in Nat /\ spins \in Nat
  /\ call \in {"try_get", "wait_and_get"}
  /\ ppc \in {"idle", "enqueue", "write", "publish", "new_block", "link", "move_tail",
              "signal", "post", "joined"}
  /\ cpc \in {"idle", "spin", "take", "claim", "sleep", "got", "load_next", "read",
              "read_next", "advance", "advance_next", "delete", "count", "walk",
              "empty", "destroy"}

\* The slot, as the queue uses it: a look that showed a token stays true.
SlotInv ==
  /\ CounterIsExact /\ NoStalePost
  /\ cpc = "take" => tokens > 0
  /\ cpc = "spin" => spins > 0
  /\ cpc \in {"spin", "claim", "sleep"} => call = "wait_and_get"

\* The consumer has left the head block for the next one.
Leaving == cpc \in {"load_next", "read_next", "advance_next", "delete"}

\* The blocks of the chain c are alive and no others but a new one; but for the
\* first none is empty, unless its only element has just been taken.
BlocksInv(c) ==
  /\ \A b \in On(c) : block[b] # Null
  /\ \A b \in Nodes : block[b] # Null => b \in On(c) \/ (ppc = "link" /\ b = new_block)
  /\ cpc # "destroy" => c # << >>
  /\ cpc # "destroy" =>
       \A i \in 2 .. Len(c) : IsEmpty(c[i]) => i = 2 /\ cpc = "delete"

\* The element the producer has written to block b, until it has published it.
Written(b) == IF ppc = "publish" /\ b = tail_block THEN pvalue ELSE NoValue

\* The positions of a block r, and what its cells hold: the elements that are
\* published and not taken, the one written, and nothing else.
CellsInv(r, moved, written) ==
  LET enq == r.enqueue_pos
      deq == r.dequeue_pos
  IN  /\ deq <= enq /\ enq - deq <= Capacity
      /\ moved # NoValue => deq < enq
      /\ written # NoValue => enq - deq < Capacity
      /\ \A p \in deq .. enq - 1 :
           IF moved # NoValue /\ p = deq THEN r.data[CellOf(p)] = NoValue
           ELSE r.data[CellOf(p)] \in Value
      /\ \A i \in Cells \ Alive(r) :
           r.data[i] = IF i = CellOf(enq) THEN written ELSE NoValue

\* What the producer knows of the end of the chain.
ProducerInv(c) ==
  /\ ppc = "joined" <=> cpc = "destroy"
  /\ ppc \in {"enqueue", "write", "publish", "new_block", "link", "move_tail"}
       => pvalue \in Value
  /\ cpc # "destroy" /\ ppc # "move_tail" => tail_block = c[Len(c)]
  /\ ppc = "move_tail" =>
       /\ Len(c) > 1 /\ tail_block = c[Len(c) - 1] /\ new_block = c[Len(c)]
  /\ cpc # "destroy" => seen <= block[tail_block].dequeue_pos
  /\ ppc \in {"write", "publish"} => block[tail_block].enqueue_pos - seen < Capacity
  /\ ppc = "link" => new_block \in Nodes \ On(c)
  /\ ppc \in {"link", "move_tail"} => block[new_block] = BlockOf(pvalue)
  /\ ppc \notin {"link", "move_tail"} => new_block = Null

\* What the consumer knows of the beginning: once it has left the head block,
\* the producer has, too.
ConsumerInv(c) ==
  /\ cpc = "read" => ~ IsEmpty(head_block)
  /\ cpc \in {"advance", "advance_next"} <=> cvalue \in Value
  /\ Leaving => IsEmpty(head_block) /\ Len(c) > (IF ppc = "move_tail" THEN 2 ELSE 1)

\* Slot and blocks agree.
TokensInv(c) ==
  cpc # "destroy" => Len(ItemsOf(c)) = tokens + Unsignalled + Held

\* What size() has counted is between what there was and what there is in the
\* k blocks it has walked; and if the head block is still the only one, it was
\* found empty by empty().
WalkInv(c) ==
  /\ cpc \notin {"count", "walk", "destroy"} => curr = Null
  /\ cpc \in {"count", "walk"} =>
       \E k \in 0 .. Len(c) :
         /\ IF cpc = "walk" THEN k > 0 /\ curr = c[k] ELSE k < Len(c) /\ curr = c[k + 1]
         /\ count <= Len(Prefixes(c)[k])
         /\ before <= count + Len(ItemsOf(c)) - Len(Prefixes(c)[k])
  /\ cpc = "empty" /\ next_block = Null => before = 0

ChainInv(c) ==
  /\ c \in Seq(Nodes)
  /\ IsChain(c, IF cpc = "destroy" THEN curr ELSE head_block, successor)
  /\ BlocksInv(c)
  /\ \A b \in On(c) : CellsInv(block[b], Moved(b), Written(b))
  /\ ProducerInv(c) /\ ConsumerInv(c) /\ TokensInv(c) /\ WalkInv(c)

IInv == TypeOK /\ SlotInv /\ ChainInv(Chain)
=============================================================================
