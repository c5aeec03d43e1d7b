---------------------------- MODULE SPSCUnbounded ----------------------------
(***************************************************************************)
(* lockfree_spsc_unbounded<T>: a chain of nodes that ends in an empty stub *)
(* node.  The producer fills the stub and links a new one, which publishes *)
(* the filled node; the consumer takes the head node once it has a         *)
(* successor, and deletes it.  Neither synchronises with the other but     *)
(* through next and the counter.                                           *)
(*                                                                         *)
(* A step is one atomic operation or one access to the data of a node with *)
(* the thread-local assignments around it.  When neither thread is inside  *)
(* a call, the queue may be destroyed; a new one then takes its place, so  *)
(* that addresses, and what the old queue left behind, meet again.         *)
(***************************************************************************)
EXTENDS NodeChains

CONSTANTS
  Value,      \* the elements pushed
  NoValue     \* a default-constructed or moved-from element

NodeType == [data : Value \cup {NoValue}, next : Nodes \cup {Null}]

ASSUME NoValueAssumption == NoValue \notin Value
ASSUME DeletedAssumption == Null \notin NodeType

VARIABLES
  node,       \* the nodes: data and next
  head,       \* the consumer's pointer, and the destructor's
  tail,       \* the producer's pointer
  capacity,   \* the counter that size() returns
  ppc,        \* where the producer is; "joined": there is no queue
  stub,       \* the node it has allocated
  pvalue,     \* the element it is pushing
  cpc,        \* where the consumer is
  new_head,   \* the successor it has loaded
  old_head,   \* the node it is about to delete
  out         \* history: the element of the latest pop

producer == <<tail, ppc, stub, pvalue>>
consumer == <<head, cpc, new_head, old_head, out>>
vars == <<node, capacity, producer, consumer>>

EmptyNode == [data |-> NoValue, next |-> Null]

Init ==
  /\ head \in Nodes /\ tail = head
  /\ node = [n \in Nodes |-> IF n = head THEN EmptyNode ELSE Null]
  /\ capacity = 0
  /\ ppc = "idle" /\ stub = Null /\ pvalue = NoValue
  /\ cpc = "idle" /\ new_head = Null /\ old_head = Null /\ out = NoValue

-----------------------------------------------------------------------------
(* Faulty variants of operations below, each of which breaks a property.   *)

\* The node is linked before its element is counted.
WriteDataPublishes ==
  /\ ppc = "write"
  /\ node' = [node EXCEPT ![tail] = [data |-> pvalue, next |-> stub]]
  /\ ppc' = "count"
  /\ UNCHANGED <<capacity, tail, stub, pvalue, consumer>>

\* The producer does not count its element.
CountForgotten ==
  /\ ppc = "count"
  /\ ppc' = "publish"
  /\ UNCHANGED <<node, capacity, tail, stub, pvalue, consumer>>

\* The node is linked before it is filled.
PushLinks(v) ==
  /\ ppc = "idle"
  /\ \E n \in Nodes :
       /\ node[n] = Null
       /\ node' = [node EXCEPT ![n] = EmptyNode, ![tail].next = n]
       /\ stub' = n
  /\ pvalue' = v
  /\ ppc' = "write"
  /\ UNCHANGED <<capacity, tail, consumer>>

-----------------------------------------------------------------------------
(* The producer: push and emplace_back                                     *)

Push(v) ==
  /\ ppc = "idle"
  /\ \E n \in Nodes :
       /\ node[n] = Null
       /\ node' = [node EXCEPT ![n] = EmptyNode]
       /\ stub' = n
  /\ pvalue' = v
  /\ ppc' = "write"
  /\ UNCHANGED <<capacity, tail, consumer>>

WriteData ==
  /\ ppc = "write"
  /\ node' = [node EXCEPT ![tail].data = pvalue]
  /\ ppc' = "count"
  /\ UNCHANGED <<capacity, tail, stub, pvalue, consumer>>

Count ==
  /\ ppc = "count"
  /\ capacity' = capacity + 1
  /\ ppc' = "publish"
  /\ UNCHANGED <<node, tail, stub, pvalue, consumer>>

Publish ==
  /\ ppc = "publish"
  /\ node' = [node EXCEPT ![tail].next = stub]
  /\ ppc' = "advance"
  /\ UNCHANGED <<capacity, tail, stub, pvalue, consumer>>

Advance ==
  /\ ppc = "advance"
  /\ tail' = stub
  /\ stub' = Null
  /\ pvalue' = NoValue
  /\ ppc' = "idle"
  /\ UNCHANGED <<node, capacity, consumer>>

-----------------------------------------------------------------------------
(* The consumer: try_pop, wait_and_pop, unsafe_peek and empty              *)

\* A call loads head->next; the functions differ in where they go on when
\* there is a successor (found) and when there is none (empty).
Call(found, empty) ==
  /\ cpc = "idle"
  /\ new_head' = node[head].next
  /\ cpc' = IF node[head].next = Null THEN empty ELSE found
  /\ UNCHANGED <<node, capacity, head, old_head, out, producer>>

TryPop == Call("take", "idle")

WaitAndPop == Call("take", "spin")

UnsafePeek == Call("peek", "idle")

\* The turn of wait_and_pop's loop that ends it.
Spin ==
  /\ cpc = "spin"
  /\ node[head].next # Null
  /\ new_head' = node[head].next
  /\ cpc' = "take"
  /\ UNCHANGED <<node, capacity, head, old_head, out, producer>>

TakeData ==
  /\ cpc = "take"
  /\ out' = node[head].data
  /\ node' = [node EXCEPT ![head].data = NoValue]
  /\ old_head' = head
  /\ head' = new_head
  /\ cpc' = "delete"
  /\ UNCHANGED <<capacity, new_head, producer>>

Delete ==
  /\ cpc = "delete"
  /\ node' = [node EXCEPT ![old_head] = Null]
  /\ old_head' = Null
  /\ cpc' = "uncount"
  /\ UNCHANGED <<capacity, head, new_head, out, producer>>

Uncount ==
  /\ cpc = "uncount"
  /\ capacity' = capacity - 1
  /\ new_head' = Null
  /\ cpc' = "idle"
  /\ UNCHANGED <<node, head, old_head, out, producer>>

PeekData ==
  /\ cpc = "peek"
  /\ new_head' = Null
  /\ cpc' = "idle"
  /\ UNCHANGED <<node, capacity, head, old_head, out, producer>>

-----------------------------------------------------------------------------
(* The destructor, which runs when both threads are through                *)

Destroy ==
  /\ ppc = "idle" /\ cpc = "idle"
  /\ ppc' = "joined" /\ cpc' = "destroy"
  /\ UNCHANGED <<node, capacity, head, tail, stub, pvalue, new_head, old_head, out>>

\* One turn of its loop.
DeleteNext ==
  /\ cpc = "destroy" /\ head # Null
  /\ head' = node[head].next
  /\ node' = [node EXCEPT ![head] = Null]
  /\ UNCHANGED <<capacity, cpc, new_head, old_head, out, producer>>

\* Another queue is made.
Construct ==
  /\ cpc = "destroy" /\ head = Null
  /\ \E n \in Nodes :
       /\ node[n] = Null
       /\ node' = [node EXCEPT ![n] = EmptyNode]
       /\ head' = n /\ tail' = n
  /\ capacity' = 0
  /\ ppc' = "idle" /\ cpc' = "idle"
  /\ UNCHANGED <<stub, pvalue, new_head, old_head, out>>

-----------------------------------------------------------------------------
Next ==
  \/ \E v \in Value : Push(v)
  \/ WriteData \/ Count \/ Publish \/ Advance
  \/ TryPop \/ WaitAndPop \/ UnsafePeek
  \/ Spin \/ TakeData \/ Delete \/ Uncount \/ PeekData
  \/ Destroy \/ DeleteNext \/ Construct

Spec == Init /\ [][Next]_vars

-----------------------------------------------------------------------------
TypeOK ==
  /\ node \in [Nodes -> NodeType \cup {Null}]
  /\ head \in Nodes \cup {Null} /\ tail \in Nodes
  /\ capacity \in Nat
  /\ ppc \in {"idle", "write", "count", "publish", "advance", "joined"}
  /\ stub \in Nodes \cup {Null}
  /\ pvalue \in Value \cup {NoValue}
  /\ cpc \in {"idle", "spin", "take", "peek", "delete", "uncount", "destroy"}
  /\ new_head \in Nodes \cup {Null} /\ old_head \in Nodes \cup {Null}
  /\ out \in Value \cup {NoValue}

\* The consumer deletes nodes while the producer runs, and the producer's tail
\* dangles when the consumer is faster than its last statement; but neither
\* ever follows a pointer to a deleted node.  The data of a node is not atomic:
\* the node the consumer takes or copies is not the one being filled.  The
\* destructor follows no dangling pointer either, and leaves no node behind.
MemorySafe ==
  /\ head = Null => cpc = "destroy" /\ \A n \in Nodes : node[n] = Null
  /\ head # Null => node[head] # Null
  /\ ppc \notin {"advance", "joined"} => node[tail] # Null
  /\ ~ (ppc = "write" /\ cpc \in {"take", "peek"} /\ head = tail)

successor == [n \in Nodes |-> IF node[n] = Null THEN Null ELSE node[n].next]

\* The nodes from head to the empty one at the end.
Chain == ChainFrom(head, successor)

\* The elements of the nodes that have a successor.
ItemsOf(c) ==
  IF cpc = "destroy" THEN << >> ELSE [i \in 1 .. Len(c) - 1 |-> node[c[i]].data]

Items == ItemsOf(Chain)

\* size() may count an element that is not there yet or not there any more,
\* but never misses one, and so never wraps below zero.
SizeIsNeverShort ==
  cpc # "destroy" =>
    capacity = Len(Items)
      + (IF ppc = "publish" THEN 1 ELSE 0)
      + (IF cpc \in {"delete", "uncount"} THEN 1 ELSE 0)

Fifo == INSTANCE FifoQueue WITH items <- Items, Lengths <- Nat, Clears <- TRUE

\* The chain is a FIFO queue: an element enters when its node gets a
\* successor, and leaves when head moves past the node or the queue ends.
ImplementsFifo == Fifo!Spec

-----------------------------------------------------------------------------
(* What holds in every state, and is inductive.                            *)

\* The nodes of c are live, and no others but what either thread has in hand.
LiveNodes(c) ==
  /\ \A n \in On(c) : node[n] # Null
  /\ \A n \in Nodes : node[n] # Null => n \in On(c) \/ n = stub \/ n = old_head

\* The producer's node hangs free until it is published, and the last node is
\* its to fill: tail, or the one it has just linked.
ProducerInv(c) ==
  /\ ppc = "joined" <=> cpc = "destroy"
  /\ ppc # "joined" => c # << >>
  /\ ppc \in {"idle", "write", "count", "publish"} => c[Len(c)] = tail
  /\ ppc \in {"write", "count", "publish"} =>
       /\ stub \in Nodes \ On(c)
       /\ node[stub] = EmptyNode
       /\ pvalue \in Value
  /\ ppc \in {"count", "publish"} => node[tail].data = pvalue
  /\ ppc = "advance" => c[Len(c)] = stub
  /\ ppc \in {"idle", "joined"} => stub = Null

\* The node the consumer deletes is off the chain and not the producer's.
ConsumerInv(c) ==
  /\ cpc \in {"take", "peek"} => Len(c) > 1 /\ new_head = c[2]
  /\ cpc = "delete" =>
       /\ old_head \in Nodes \ On(c)
       /\ node[old_head] # Null
       /\ ppc \in {"write", "count", "publish"} => old_head # stub
  /\ cpc # "delete" => old_head = Null

CountInv(c) ==
  cpc # "destroy" =>
    capacity = Len(c) - 1
      + (IF ppc = "publish" THEN 1 ELSE 0)
      + (IF cpc \in {"delete", "uncount"} THEN 1 ELSE 0)

ChainInv(c) ==
  /\ c \in Seq(Nodes)
  /\ IsChain(c, head, successor)
  /\ LiveNodes(c)
  /\ ProducerInv(c) /\ ConsumerInv(c) /\ CountInv(c)

IInv == TypeOK /\ ChainInv(Chain)
=============================================================================
