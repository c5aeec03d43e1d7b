--------------------------- MODULE ExamplePrograms ---------------------------
(***************************************************************************)
(* The four example programs, as clients of a queue that keeps the promise *)
(* of FifoQueue.  All have producers that push a fixed number of elements, *)
(* a flag that is lowered when the producers are done, and consumers that  *)
(* poll with try_pop until they see the flag down and have drained the     *)
(* queue:                                                                  *)
(*   logger      FastSPSCUnbounded, main pushes, one thread prints         *)
(*   pool        MPMCBounded, main pushes tasks, several workers run them  *)
(*   aggregator  MPSCUnbounded, several workers push, one thread counts    *)
(*   audio       SPSCBounded, a renderer pushes, one thread plays          *)
(*                                                                         *)
(* A step is one call of the queue, or one load or store of the flag.  An  *)
(* element that is in the queue may be overlooked by try_pop and empty()   *)
(* for a while: as long as its push, or one before it, has not returned,   *)
(* and as long as the consumer has not synchronised with the producers,    *)
(* which it does when it sees the flag down.                               *)
(***************************************************************************)
EXTENDS Naturals, Sequences, FiniteSets

CONSTANTS
  Workers,    \* the threads of the side that has several
  Solo,       \* the one thread of a side that has one
  Count,      \* how many elements a producer pushes
  Bound       \* the capacity of the bounded queues

ASSUME WorkersAssumption == Workers # {} /\ Solo \notin Workers
ASSUME CountAssumption == Count \in Nat \ {0}
ASSUME BoundAssumption == Bound \in Nat \ {0}

VARIABLES
  program,    \* which of the programs runs
  items,      \* the queue
  out,        \* the element popped last
  pushed,     \* how many elements each producer has pushed
  ppc,        \* where each producer is; "pushing": its element is in the queue
  running,    \* the flag: running, stream_active, or not stop_flag
  cpc,        \* where each consumer is
  task,       \* the element it has popped
  handled,    \* how often each element was printed, run, counted or played
  finished    \* main has joined all threads, and returned

queue == <<items, out>>
producers == <<pushed, ppc>>
consumers == <<cpc, task, handled>>
vars == <<program, queue, producers, running, consumers, finished>>

Elements == (Workers \cup {Solo}) \X (1 .. Count)
None == <<Solo, 0>>     \* no element

Queue == INSTANCE FifoQueue
           WITH Value <- Elements, NoValue <- None, Lengths <- Nat, Clears <- TRUE

Producers == IF program = "aggregator" THEN Workers ELSE {Solo}
Consumers == IF program = "pool" THEN Workers ELSE {Solo}
HasRoom == program \in {"pool", "audio"} => Len(items) < Bound

Init ==
  /\ program \in {"logger", "pool", "aggregator", "audio"}
  /\ Queue!Init
  /\ pushed = [p \in Producers |-> 0]
  /\ ppc = [p \in Producers |-> "loop"]
  /\ running = TRUE
  /\ cpc = [c \in Consumers |-> "loop"]
  /\ task = [c \in Consumers |-> None]
  /\ handled = [e \in Elements |-> 0]
  /\ finished = FALSE

-----------------------------------------------------------------------------
(* Faulty variants of operations below, each of which breaks a property.   *)

\* The flag is lowered before the producers are joined.
LowerFlagUnjoined ==
  /\ running
  /\ running' = FALSE
  /\ UNCHANGED <<program, queue, producers, consumers, finished>>

\* A worker whose drain loop finds nothing starts over.
TryPopRefusesAgain(c) ==
  /\ cpc[c] = "pop" \/ (cpc[c] = "drain" /\ items = << >>)
  /\ cpc' = [cpc EXCEPT ![c] = "loop"]
  /\ UNCHANGED <<program, queue, producers, running, task, handled, finished>>

-----------------------------------------------------------------------------
(* The producers                                                           *)

\* push takes effect; a try_push that finds the queue full is tried again.
Push(p) ==
  /\ ppc[p] = "loop"
  /\ HasRoom
  /\ Queue!Push(<<p, pushed[p] + 1>>)
  /\ pushed' = [pushed EXCEPT ![p] = @ + 1]
  /\ ppc' = [ppc EXCEPT ![p] = "pushing"]
  /\ UNCHANGED <<program, running, consumers, finished>>

PushReturns(p) ==
  /\ ppc[p] = "pushing"
  /\ ppc' = [ppc EXCEPT ![p] = IF pushed[p] < Count THEN "loop" ELSE "done"]
  /\ UNCHANGED <<program, queue, pushed, running, consumers, finished>>

\* The only producer lowers the flag after its loop; the aggregator's main
\* after it has joined the producers.
LowerFlag ==
  /\ running
  /\ \A p \in Producers : ppc[p] = "done"
  /\ running' = FALSE
  /\ UNCHANGED <<program, queue, producers, consumers, finished>>

-----------------------------------------------------------------------------
(* The consumers                                                           *)

\* The flag is loaded; only when it is down is the rest of the condition
\* evaluated, or, by a worker of the pool, the loop left for the drain loop.
LoopTest(c) ==
  /\ cpc[c] = "loop"
  /\ cpc' = [cpc EXCEPT ![c] = IF running THEN "pop"
                               ELSE IF program = "pool" THEN "drain" ELSE "empty"]
  /\ UNCHANGED <<program, queue, producers, running, task, handled, finished>>

\* A push that has not returned may hide its element and later ones.
Hidden == \E p \in Producers : ppc[p] = "pushing"

TestEmpty(c) ==
  /\ cpc[c] = "empty"
  /\ \/ items # << >> /\ cpc' = [cpc EXCEPT ![c] = "pop"]
     \/ (items = << >> \/ Hidden) /\ cpc' = [cpc EXCEPT ![c] = "left"]
  /\ UNCHANGED <<program, queue, producers, running, task, handled, finished>>

TryPop(c) ==
  /\ cpc[c] \in {"pop", "drain"}
  /\ Queue!Pop
  /\ task' = [task EXCEPT ![c] = Head(items)]
  /\ cpc' = [cpc EXCEPT ![c] = IF cpc[c] = "pop" THEN "handle" ELSE "handle_last"]
  /\ UNCHANGED <<program, producers, running, handled, finished>>

\* try_pop returns false: in the loop it may look at an old state of the queue,
\* in the drain loop the worker has synchronised with the producer.
TryPopRefuses(c) ==
  /\ \/ cpc[c] = "pop" /\ cpc' = [cpc EXCEPT ![c] = "loop"]
     \/ /\ cpc[c] = "drain" /\ (items = << >> \/ Hidden)
        /\ cpc' = [cpc EXCEPT ![c] = "left"]
  /\ UNCHANGED <<program, queue, producers, running, task, handled, finished>>

Handle(c) ==
  /\ cpc[c] \in {"handle", "handle_last"}
  /\ handled' = [handled EXCEPT ![task[c]] = @ + 1]
  /\ task' = [task EXCEPT ![c] = None]
  /\ cpc' = [cpc EXCEPT ![c] = IF cpc[c] = "handle" THEN "loop" ELSE "drain"]
  /\ UNCHANGED <<program, queue, producers, running, finished>>

-----------------------------------------------------------------------------
\* main, which has lowered the flag or joined the thread that does, joins the
\* consumers and returns; the queue is destroyed.
Finish ==
  /\ ~ running
  /\ \A c \in Consumers : cpc[c] = "left"
  /\ ~ finished
  /\ finished' = TRUE
  /\ Queue!Clear
  /\ UNCHANGED <<program, producers, running, consumers>>

\* The end of the program is not a deadlock.
Ended == finished /\ UNCHANGED vars

ProducerStep(p) == p \in Producers /\ (Push(p) \/ PushReturns(p))

Takes(c) == c \in Consumers /\ TryPop(c)

ConsumerStep(c) ==
  \/ Takes(c)
  \/ /\ c \in Consumers
     /\ LoopTest(c) \/ TestEmpty(c) \/ TryPopRefuses(c) \/ Handle(c)

Threads == Workers \cup {Solo}

Next ==
  \/ \E t \in Threads : ProducerStep(t) \/ ConsumerStep(t)
  \/ LowerFlag
  \/ Finish \/ Ended

Spec == Init /\ [][Next]_vars

\* Every thread is scheduled, and a try_pop that is called again and again
\* beside an element does not overlook it for ever: stores become visible.
Fairness ==
  /\ \A t \in Threads :
       WF_vars(ProducerStep(t)) /\ WF_vars(ConsumerStep(t)) /\ SF_vars(Takes(t))
  /\ WF_vars(LowerFlag) /\ WF_vars(Finish)

FairSpec == Spec /\ Fairness

-----------------------------------------------------------------------------
TypeOK ==
  /\ program \in {"logger", "pool", "aggregator", "audio"}
  /\ items \in Seq(Elements)
  /\ out \in Elements \cup {None}
  /\ pushed \in [Producers -> 0 .. Count]
  /\ ppc \in [Producers -> {"loop", "pushing", "done"}]
  /\ running \in BOOLEAN
  /\ cpc \in [Consumers -> {"loop", "empty", "pop", "drain", "handle",
                            "handle_last", "left"}]
  /\ task \in [Consumers -> Elements \cup {None}]
  /\ handled \in [Elements -> Nat]
  /\ finished \in BOOLEAN

\* The inductive invariant, in parts.  Threads: where each thread is, given the
\* flag; a consumer is past the flag only when it is down, and leaves an empty
\* queue behind.
ThreadsInv ==
  /\ \A p \in Producers :
       /\ ppc[p] = "loop" => pushed[p] < Count
       /\ ppc[p] = "done" => pushed[p] = Count
       /\ ~ running => ppc[p] = "done"
  /\ \A c \in Consumers :
       /\ cpc[c] \in {"empty", "drain", "handle_last", "left"} => ~ running
       /\ cpc[c] \in {"handle", "handle_last"} <=> task[c] # None
       /\ cpc[c] = "left" => items = << >>
  /\ finished => ~ running /\ \A c \in Consumers : cpc[c] = "left"

Pushed(e) == e[1] \in Producers /\ e[2] <= pushed[e[1]]
InQueue(e) == \E i \in 1 .. Len(items) : items[i] = e
Held(e) == \E c \in Consumers : task[c] = e

\* Elements: one that was pushed is in one place, and in that place once: in the
\* queue, with a consumer, or handled.
ElementsInv ==
  /\ \A i, j \in 1 .. Len(items) : items[i] = items[j] => i = j
  /\ \A c, d \in Consumers : task[c] = task[d] /\ task[c] # None => c = d
  /\ \A e \in Elements :
       /\ InQueue(e) => Pushed(e) /\ ~ Held(e) /\ handled[e] = 0
       /\ Held(e) => Pushed(e) /\ handled[e] = 0
       /\ handled[e] # 0 => Pushed(e) /\ handled[e] = 1
       /\ Pushed(e) => InQueue(e) \/ Held(e) \/ handled[e] # 0

IInv == TypeOK /\ ThreadsInv /\ ElementsInv

\* "Thread pool finished executing all tasks.": when a program ends, every
\* element was handled, and once, although the consumers decide by a flag and
\* a queue that are not read together, and leave one by one.
AllHandledOnce ==
  finished => \A p \in Producers, i \in 1 .. Count : handled[<<p, i>>] = 1

\* Every program comes to its end, with bounded queues too: the producers are
\* not held up, every consumer leaves its loops, and main joins them all.
ProgramFinishes == <>finished
=============================================================================
