---------------------------- MODULE MPSCUnbounded ----------------------------
(***************************************************************************)
(* lockfree_mpsc_unbounded<T>: a chain of nodes behind a stub at head.  A  *)
(* producer exchanges tail for its node and only then links the node to    *)
(* its predecessor: in between the chain is cut.  The one consumer takes   *)
(* the element of head's successor and deletes head; when it finds no      *)
(* successor but tail elsewhere it waits for the producer that cut it.     *)
(*                                                                         *)
(* A step is one atomic operation or one access to the data of a node with *)
(* the thread-local assignments around it.  When no thread is inside a     *)
(* call, the queue may be destroyed and another be made in its place.      *)
(***************************************************************************)
EXTENDS NodeChains

CONSTANTS
  Producers,  \* the threads that push
  Stoppable,  \* the producers that may be preempted for good inside a push
  Value,      \* the elements pushed
  NoValue,    \* a default-constructed or moved-from element
  SizeMod     \* 2^w for the width w of size_t

NodeType == [data : Value \cup {NoValue}, next : Nodes \cup {Null}]

ASSUME ProducersAssumption == IsFiniteSet(Producers)
ASSUME NoValueAssumption == NoValue \notin Value
ASSUME DeletedAssumption == Null \notin NodeType
ASSUME StoppableAssumption == Stoppable \subseteq Producers
ASSUME SizeModAssumption == SizeMod \in Nat \ {0}

VARIABLES
  node,       \* the nodes: data and next
  head, tail, count,   \* head is also the destructor's current
  ppc,        \* where each producer is; "joined": there is no queue
  new_node,   \* the node it pushes
  old_tail,   \* the node it found at tail
  cpc,        \* where the consumer is
  call,       \* the function it executes
  head_ptr,   \* the head it started from
  next_ptr,   \* the successor it has loaded
  answer,     \* history: "empty" or "filled", what the latest call said of the
              \* queue without popping; "none" once there is another call
  out         \* history: the element of the latest pop

producers == <<tail, ppc, new_node, old_tail>>
consumer == <<head, cpc, call, head_ptr, next_ptr, answer, out>>
vars == <<node, count, producers, consumer>>

EmptyNode == [data |-> NoValue, next |-> Null]

Init ==
  /\ head \in Nodes /\ tail = head
  /\ node = [n \in Nodes |-> IF n = head THEN EmptyNode ELSE Null]
  /\ count = 0
  /\ ppc = [p \in Producers |-> "idle"]
  /\ new_node = [p \in Producers |-> Null]
  /\ old_tail = [p \in Producers |-> Null]
  /\ cpc = "idle" /\ call = "try_pop"
  /\ head_ptr = Null /\ next_ptr = Null
  /\ answer = "none" /\ out = NoValue

-----------------------------------------------------------------------------
(* Faulty variants of operations below, each of which breaks a property.   *)

\* tail is loaded and stored in two steps, not exchanged.
ExchangeTorn(p) ==
  /\ ppc[p] = "exchange"
  /\ IF old_tail[p] = Null
     THEN /\ old_tail' = [old_tail EXCEPT ![p] = tail]
          /\ UNCHANGED <<tail, ppc>>
     ELSE /\ tail' = new_node[p]
          /\ ppc' = [ppc EXCEPT ![p] = "link"]
          /\ UNCHANGED old_tail
  /\ UNCHANGED <<node, count, new_node, consumer>>

\* The consumer does not look whether head is the last node.
LoadTailSkipsAhead ==
  /\ cpc = "load_tail"
  /\ cpc' = "spin"
  /\ UNCHANGED <<node, count, head, call, head_ptr, next_ptr, answer, out, producers>>

\* The queue counts as empty as soon as head has no successor.
LoadTailNever ==
  /\ cpc = "load_tail"
  /\ cpc' = IF call = "wait_and_pop" THEN "load_next" ELSE "idle"
  /\ answer' = IF call = "wait_and_pop" THEN "none" ELSE "empty"
  /\ head_ptr' = Null
  /\ UNCHANGED <<node, count, head, call, next_ptr, out, producers>>

\* A pop does not lower the counter.
UncountForgotten ==
  /\ cpc = "uncount"
  /\ head_ptr' = Null /\ next_ptr' = Null
  /\ cpc' = "idle"
  /\ UNCHANGED <<node, count, head, call, answer, out, producers>>

\* The counter is a signed integer.
UncountSigned ==
  /\ cpc = "uncount"
  /\ count' = count - 1
  /\ head_ptr' = Null /\ next_ptr' = Null
  /\ cpc' = "idle"
  /\ UNCHANGED <<node, head, call, answer, out, producers>>

-----------------------------------------------------------------------------
(* The producers: push and emplace_back                                    *)

Push(p) ==
  /\ ppc[p] = "idle"
  /\ \E n \in Nodes, v \in Value :
       /\ node[n] = Null
       /\ node' = [node EXCEPT ![n] = [EmptyNode EXCEPT !.data = v]]
       /\ new_node' = [new_node EXCEPT ![p] = n]
  /\ ppc' = [ppc EXCEPT ![p] = "exchange"]
  /\ UNCHANGED <<count, tail, old_tail, consumer>>

Exchange(p) ==
  /\ ppc[p] = "exchange"
  /\ old_tail' = [old_tail EXCEPT ![p] = tail]
  /\ tail' = new_node[p]
  /\ ppc' = [ppc EXCEPT ![p] = "link"]
  /\ UNCHANGED <<node, count, new_node, consumer>>

Link(p) ==
  /\ ppc[p] = "link"
  /\ node' = [node EXCEPT ![old_tail[p]].next = new_node[p]]
  /\ ppc' = [ppc EXCEPT ![p] = "count"]
  /\ UNCHANGED <<count, tail, new_node, old_tail, consumer>>

Count(p) ==
  /\ ppc[p] = "count"
  /\ count' = (count + 1) % SizeMod
  /\ new_node' = [new_node EXCEPT ![p] = Null]
  /\ old_tail' = [old_tail EXCEPT ![p] = Null]
  /\ ppc' = [ppc EXCEPT ![p] = "idle"]
  /\ UNCHANGED <<node, tail, consumer>>

-----------------------------------------------------------------------------
(* The consumer: try_pop, wait_and_pop, which repeats it, and empty        *)

Call(function) ==
  /\ cpc = "idle"
  /\ call' = function
  /\ cpc' = "load_next"
  /\ answer' = "none"
  /\ UNCHANGED <<node, count, head, head_ptr, next_ptr, out, producers>>

TryPop == Call("try_pop")

WaitAndPop == Call("wait_and_pop")

Empty == Call("empty")

\* Load head->next: a pop goes on with an element, empty() knows its answer, or
\* either looks at tail.
LoadNext ==
  /\ cpc = "load_next"
  /\ \/ /\ node[head].next = Null
        /\ cpc' = "load_tail" /\ head_ptr' = head
        /\ UNCHANGED <<next_ptr, answer>>
     \/ /\ node[head].next # Null /\ call = "empty"
        /\ cpc' = "idle" /\ answer' = "filled"
        /\ UNCHANGED <<head_ptr, next_ptr>>
     \/ /\ node[head].next # Null /\ call # "empty"
        /\ cpc' = "take" /\ head_ptr' = head /\ next_ptr' = node[head].next
        /\ UNCHANGED answer
  /\ UNCHANGED <<node, count, head, call, out, producers>>

\* No element if head is the last node; else someone is about to link one, for
\* which try_pop waits.
LoadTail ==
  /\ cpc = "load_tail"
  /\ cpc' = IF head_ptr # tail /\ call # "empty" THEN "spin"
            ELSE IF call = "wait_and_pop" THEN "load_next" ELSE "idle"
  /\ answer' = IF cpc' # "idle" THEN "none"
               ELSE IF head_ptr = tail THEN "empty" ELSE "filled"
  /\ head_ptr' = IF cpc' = "spin" THEN head_ptr ELSE Null
  /\ UNCHANGED <<node, count, head, call, next_ptr, out, producers>>

\* The turn of the inner loop that ends it.
Spin ==
  /\ cpc = "spin"
  /\ node[head_ptr].next # Null
  /\ next_ptr' = node[head_ptr].next
  /\ cpc' = "take"
  /\ UNCHANGED <<node, count, head, call, head_ptr, answer, out, producers>>

\* Move the element out of head's successor, which becomes the stub.
TakeData ==
  /\ cpc = "take"
  /\ out' = node[next_ptr].data
  /\ node' = [node EXCEPT ![next_ptr].data = NoValue]
  /\ head' = next_ptr
  /\ cpc' = "delete"
  /\ UNCHANGED <<count, call, head_ptr, next_ptr, answer, producers>>

Delete ==
  /\ cpc = "delete"
  /\ node' = [node EXCEPT ![head_ptr] = Null]
  /\ cpc' = "uncount"
  /\ UNCHANGED <<count, head, call, head_ptr, next_ptr, answer, out, producers>>

Uncount ==
  /\ cpc = "uncount"
  /\ count' = (count - 1) % SizeMod
  /\ head_ptr' = Null /\ next_ptr' = Null
  /\ cpc' = "idle"
  /\ UNCHANGED <<node, head, call, answer, out, producers>>

-----------------------------------------------------------------------------
(* The destructor, which runs when all threads are through                 *)

Destroy ==
  /\ cpc = "idle" /\ \A p \in Producers : ppc[p] = "idle"
  /\ cpc' = "destroy"
  /\ ppc' = [p \in Producers |-> "joined"]
  /\ UNCHANGED <<node, count, head, tail, new_node, old_tail, call, head_ptr,
                 next_ptr, answer, out>>

\* One turn of its loop.
DeleteNext ==
  /\ cpc = "destroy" /\ head # Null
  /\ head' = node[head].next
  /\ node' = [node EXCEPT ![head] = Null]
  /\ UNCHANGED <<count, cpc, call, head_ptr, next_ptr, answer, out, producers>>

\* Another queue is made.
Construct ==
  /\ cpc = "destroy" /\ head = Null
  /\ \E n \in Nodes :
       /\ node[n] = Null
       /\ node' = [node EXCEPT ![n] = EmptyNode]
       /\ head' = n /\ tail' = n
  /\ count' = 0
  /\ cpc' = "idle"
  /\ ppc' = [p \in Producers |-> "idle"]
  /\ UNCHANGED <<new_node, old_tail, call, head_ptr, next_ptr, answer, out>>

-----------------------------------------------------------------------------
PushStep(p) == Exchange(p) \/ Link(p) \/ Count(p)

PopStep == LoadNext \/ LoadTail \/ Spin \/ TakeData \/ Delete \/ Uncount

Next ==
  \/ \E p \in Producers : Push(p) \/ PushStep(p)
  \/ TryPop \/ WaitAndPop \/ Empty \/ PopStep
  \/ Destroy \/ DeleteNext \/ Construct

Spec == Init /\ [][Next]_vars

\* Threads inside a call are scheduled, but for the Stoppable producers.  No
\* thread has to make another call.
Fairness ==
  /\ \A p \in Producers \ Stoppable : WF_vars(PushStep(p))
  /\ WF_vars(PopStep)

FairSpec == Spec /\ Fairness

-----------------------------------------------------------------------------
TypeOK ==
  /\ node \in [Nodes -> NodeType \cup {Null}]
  /\ head \in Nodes \cup {Null} /\ tail \in Nodes
  /\ count \in 0 .. SizeMod - 1
  /\ ppc \in [Producers -> {"idle", "exchange", "link", "count", "joined"}]
  /\ new_node \in [Producers -> Nodes \cup {Null}]
  /\ old_tail \in [Producers -> Nodes \cup {Null}]
  /\ cpc \in {"idle", "load_next", "load_tail", "spin", "take", "delete", "uncount",
             "destroy"}
  /\ call \in {"try_pop", "wait_and_pop", "empty"}
  /\ answer \in {"none", "empty", "filled"}
  /\ head_ptr \in Nodes \cup {Null} /\ next_ptr \in Nodes \cup {Null}
  /\ out \in Value \cup {NoValue}

\* A producer stores to its predecessor long after it has let go of tail; the
\* consumer, which deletes nodes meanwhile, never deletes that one.  The
\* destructor follows no dangling pointer and leaves no node behind.
MemorySafe ==
  /\ head = Null => cpc = "destroy" /\ \A n \in Nodes : node[n] = Null
  /\ head # Null => node[head] # Null
  /\ cpc # "destroy" => node[tail] # Null
  /\ \A p \in Producers : ppc[p] = "link" => node[old_tail[p]] # Null

\* The producers that have cut the chain after n.
Linkers(n) == {p \in Producers : ppc[p] = "link" /\ old_tail[p] = n}

\* The successor of every node, although its producer may not have stored it yet.
successor ==
  [n \in Nodes |->
     IF node[n] # Null /\ node[n].next # Null THEN node[n].next
     ELSE IF Linkers(n) = {} THEN Null
     ELSE new_node[CHOOSE p \in Linkers(n) : TRUE]]

\* The nodes from head to tail.
Chain == ChainFrom(head, successor)

\* The elements of the nodes after the first.
ItemsOf(c) ==
  IF cpc = "destroy" THEN << >> ELSE [i \in 1 .. Len(c) - 1 |-> node[c[i + 1]].data]

Items == ItemsOf(Chain)

Fifo == INSTANCE FifoQueue WITH items <- Items, Lengths <- Nat, Clears <- TRUE

\* The chain, cut or not, is one FIFO queue: a push takes effect when it
\* exchanges tail and a pop when it moves head; destruction clears the queue.
ImplementsFifo == Fifo!Spec

\* empty(), and a try_pop that gives no element, tell the truth about the
\* moment of their last load, although tail and the links are stored at
\* different times by different producers and the chain may be cut anywhere.
EmptyIsExact ==
  [][answer = "none" /\ answer' # "none"
       => (answer' = "empty" <=> Items = << >>)]_vars

\* The producers that have not counted their element yet.
Uncounted == {p \in Producers : ppc[p] \in {"link", "count"}}

\* size() is the number of elements less those not counted yet, plus the one
\* that is popped and still counted: too small by the number of producers
\* inside push at most, modulo the width of size_t.
SizeIsLate ==
  cpc # "destroy" =>
    count = (Len(Items) - Cardinality(Uncounted)
               + IF cpc \in {"delete", "uncount"} THEN 1 ELSE 0) % SizeMod

\* A try_pop returns, unless a producer that may stop has cut the chain: it
\* waits for no one else.
TryPopReturns ==
  cpc = "load_next" /\ call = "try_pop"
    ~> cpc = "idle" \/ \E s \in Stoppable : ppc[s] = "link"

-----------------------------------------------------------------------------
(* What holds in every state, and is inductive.                            *)

\* A node that is allocated and not in the chain yet.
Unlinked(n) == \E p \in Producers : ppc[p] = "exchange" /\ new_node[p] = n

\* The nodes of c are live, and no others but those in someone's hand.
LiveNodes(c) ==
  /\ \A n \in On(c) : node[n] # Null
  /\ \A n \in Nodes :
       node[n] # Null => n \in On(c) \/ Unlinked(n) \/ (cpc = "delete" /\ n = head_ptr)

\* No two producers push one node, or link to one; who is about to link, links
\* to a node that is in the chain and has no successor stored.
ProducersInv(c) ==
  /\ \A p \in Producers : ppc[p] = "joined" <=> cpc = "destroy"
  /\ cpc # "destroy" => c # << >> /\ c[Len(c)] = tail
  /\ \A p \in Producers : ppc[p] = "exchange" =>
       /\ new_node[p] \in Nodes \ On(c)
       /\ node[new_node[p]] # Null
       /\ node[new_node[p]].next = Null /\ node[new_node[p]].data \in Value
  /\ \A p \in Producers : ppc[p] = "link" =>
       /\ new_node[p] \in Nodes
       /\ old_tail[p] \in On(c)
       /\ node[old_tail[p]].next = Null
  /\ \A p, q \in Producers : p # q /\ ppc[p] = ppc[q] =>
       /\ ppc[p] = "exchange" => new_node[p] # new_node[q]
       /\ ppc[p] = "link" => old_tail[p] # old_tail[q]

\* The node whose successor the consumer takes has that successor stored: no
\* producer will link to it any more when it is deleted.
ConsumerInv(c) ==
  /\ cpc \in {"load_tail", "spin", "take"} => head_ptr = head
  /\ cpc = "take" => next_ptr # Null /\ node[head].next = next_ptr
  /\ cpc = "delete" =>
       /\ head_ptr \in Nodes \ On(c)
       /\ node[head_ptr] # Null
       /\ ~ Unlinked(head_ptr)

CountInv(c) ==
  cpc # "destroy" =>
    count = (Len(c) - 1 - Cardinality(Uncounted)
               + IF cpc \in {"delete", "uncount"} THEN 1 ELSE 0) % SizeMod

ChainInv(c) ==
  /\ c \in Seq(Nodes)
  /\ IsChain(c, head, successor)
  /\ LiveNodes(c)
  /\ ProducersInv(c) /\ ConsumerInv(c) /\ CountInv(c)

IInv == TypeOK /\ ChainInv(Chain)
=============================================================================
