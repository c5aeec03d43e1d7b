----------------------------- MODULE BlockingMPMC -----------------------------
(***************************************************************************)
(* blocking_mpmc_unbounded<T>: a chain of nodes that ends in an empty stub *)
(* node.  Consumers work at the head under head_mutex, producers at the    *)
(* stub under tail_mutex, and size_q, guarded by size_mutex, tells a       *)
(* consumer whether the head node is filled.                               *)
(*                                                                         *)
(* A step is one access to shared data with the lock operation it needs.   *)
(* A scope that locks size_mutex for one access of size_q and closes is    *)
(* one step; where the code keeps size_mutex until it returns, so does the *)
(* model.  Return releases the guards that are still held.                 *)
(***************************************************************************)
EXTENDS Naturals, Sequences, SequencesExt

CONSTANTS
  Threads,    \* the threads that call the queue
  Free,       \* the owner of a mutex nobody holds
  Ops,        \* the member functions they call
  Value,      \* the elements they push
  NoValue,    \* no element
  MaxLen      \* bound: no push starts when the chain is this long

ASSUME FreeAssumption == Free \notin Threads
ASSUME NoValueAssumption == NoValue \notin Value
ASSUME MaxLenAssumption == MaxLen \in Nat
ASSUME OpsAssumption ==
  Ops \subseteq {"push", "emplace_back", "wait_and_pop", "wait_for_and_pop",
                 "try_pop", "unsafe_peek", "clear"}

VARIABLES
  chain,      \* the elements of the nodes from *head up to the stub *tail
  size_q,
  owner,      \* who holds head_mutex, tail_mutex and size_mutex
  pc,         \* where each thread is; "waiting": blocked in cond
  op,         \* the function it executes, "none" between calls
  val,        \* the element it pushes or has taken
  late,       \* the threads whose wait_for has timed out
  dropped,    \* history: what a clear() has cut off while size_q is not yet 0
  out         \* history: the element of the latest pop

vars == <<chain, size_q, owner, pc, op, val, late, dropped, out>>

Mutexes == {"head", "tail", "size"}

Init ==
  /\ chain = << >> /\ size_q = 0
  /\ owner = [m \in Mutexes |-> Free]
  /\ pc = [t \in Threads |-> "idle"]
  /\ op = [t \in Threads |-> "none"]
  /\ val = [t \in Threads |-> NoValue]
  /\ late = {}
  /\ dropped = << >> /\ out = NoValue

Goto(t, label) == pc' = [pc EXCEPT ![t] = label]

Lock(t, m) == owner[m] = Free /\ owner' = [owner EXCEPT ![m] = t]

-----------------------------------------------------------------------------
(* Faulty variants of operations below, each of which breaks a property.   *)

\* The counter is lowered in the helper and again in its caller.
DecTwice(t) ==
  /\ pc[t] = "dec"
  /\ owner["size"] = Free
  /\ size_q' = size_q - 2
  /\ out' = val[t]
  /\ IF op[t] = "try_pop" THEN Lock(t, "size") ELSE UNCHANGED owner
  /\ Goto(t, "return")
  /\ UNCHANGED <<chain, op, val, late, dropped>>

\* head_mutex is given up between the check and the removal of the node.
CheckThenAct(t) ==
  /\ pc[t] = "check"
  /\ owner["size"] = Free
  /\ Goto(t, IF size_q = 0 THEN "return"
             ELSE IF op[t] = "unsafe_peek" THEN "peek" ELSE "take")
  /\ owner' = [owner EXCEPT !["head"] = Free]
  /\ UNCHANGED <<chain, size_q, op, val, late, dropped, out>>

\* clear() forgets the counter.
ZeroForgotten(t) ==
  /\ pc[t] = "zero"
  /\ Lock(t, "size")
  /\ dropped' = << >>
  /\ Goto(t, "return")
  /\ UNCHANGED <<chain, size_q, op, val, late, out>>

\* unsafe_peek moves the node out.
PeekMoves(t) ==
  /\ pc[t] = "peek"
  /\ chain # << >>
  /\ val' = [val EXCEPT ![t] = Head(chain)]
  /\ chain' = Tail(chain)
  /\ Goto(t, "return")
  /\ UNCHANGED <<size_q, owner, op, late, dropped, out>>

\* A wait polls with head_mutex held.
BlockPolls(t) ==
  /\ pc[t] = "block"
  /\ Goto(t, "check")
  /\ UNCHANGED <<chain, size_q, owner, op, val, late, dropped, out>>

\* push, like emplace_back, notifies nobody.
NotifyNobody(t) ==
  /\ pc[t] = "notify"
  /\ Goto(t, "return")
  /\ UNCHANGED <<chain, size_q, owner, op, val, late, dropped, out>>

\* A wait_for that timed out waits again.
WhenEmptyAgain(t) ==
  IF op[t] \in {"wait_and_pop", "wait_for_and_pop"} THEN "block" ELSE "return"

-----------------------------------------------------------------------------
\* The part of a call before its first lock.
Call(t, o, v, first) ==
  /\ pc[t] = "idle"
  /\ o \in Ops
  /\ op' = [op EXCEPT ![t] = o]
  /\ val' = [val EXCEPT ![t] = v]
  /\ Goto(t, first)
  /\ UNCHANGED <<chain, size_q, owner, late, dropped, out>>

CallPush(t) ==
  /\ Len(chain) + Len(dropped) < MaxLen
  /\ \E v \in Value : Call(t, "push", v, "lock_tail")

CallEmplaceBack(t) ==
  /\ Len(chain) + Len(dropped) < MaxLen
  /\ \E v \in Value : Call(t, "emplace_back", v, "lock_tail")

\* The two overloads of a pop wrap the same helper; they hand the element over,
\* or say that there is none, after the helper has given up its mutexes.
CallWaitAndPop(t) == Call(t, "wait_and_pop", NoValue, "lock_head")

CallTryPop(t) == Call(t, "try_pop", NoValue, "lock_head")

CallWaitForAndPop(t) == Call(t, "wait_for_and_pop", NoValue, "lock_head")

CallUnsafePeek(t) == Call(t, "unsafe_peek", NoValue, "lock_head")

CallClear(t) == Call(t, "clear", NoValue, "lock_head")

\* A thread that leaves cond.wait takes head_mutex again like a new caller.
LockHead(t) ==
  /\ pc[t] = "lock_head"
  /\ Lock(t, "head")
  /\ Goto(t, IF op[t] = "clear" THEN "lock_tail" ELSE "check")
  /\ UNCHANGED <<chain, size_q, op, val, late, dropped, out>>

LockTail(t) ==
  /\ pc[t] = "lock_tail"
  /\ Lock(t, "tail")
  /\ Goto(t, IF op[t] = "clear" THEN "drop" ELSE "link")
  /\ UNCHANGED <<chain, size_q, op, val, late, dropped, out>>

Return(t) ==
  /\ pc[t] = "return"
  /\ owner' = [m \in Mutexes |-> IF owner[m] = t THEN Free ELSE owner[m]]
  /\ op' = [op EXCEPT ![t] = "none"]
  /\ val' = [val EXCEPT ![t] = NoValue]
  /\ late' = late \ {t}
  /\ Goto(t, "idle")
  /\ UNCHANGED <<chain, size_q, dropped, out>>

-----------------------------------------------------------------------------
(* push and emplace_back                                                   *)

\* Fill the stub and append a new one.
Link(t) ==
  /\ pc[t] = "link"
  /\ chain' = Append(chain, val[t])
  /\ Goto(t, "inc")
  /\ UNCHANGED <<size_q, owner, op, val, late, dropped, out>>

\* push closes the scope of its size_mutex guard and goes on to notify;
\* emplace_back keeps the guard until it returns, and notifies nobody.
Inc(t) ==
  /\ pc[t] = "inc"
  /\ owner["size"] = Free
  /\ size_q' = size_q + 1
  /\ \/ op[t] = "push" /\ Goto(t, "notify") /\ UNCHANGED owner
     \/ op[t] = "emplace_back" /\ Goto(t, "return") /\ Lock(t, "size")
  /\ UNCHANGED <<chain, op, val, late, dropped, out>>

Waiting == {t \in Threads : pc[t] = "waiting"}

\* cond.notify_one, called with tail_mutex held and without head_mutex.
Notify(t) ==
  /\ pc[t] = "notify"
  /\ \/ Waiting = {} /\ Goto(t, "return")
     \/ \E w \in Waiting :
          pc' = [pc EXCEPT ![t] = "return", ![w] = "lock_head"]
  /\ UNCHANGED <<chain, size_q, owner, op, val, late, dropped, out>>

-----------------------------------------------------------------------------
(* The pops and unsafe_peek                                                *)

\* What a consumer does when empty() (or size()) tells it there is nothing.
WhenEmpty(t) ==
  IF op[t] = "wait_and_pop" \/ (op[t] = "wait_for_and_pop" /\ t \notin late)
  THEN "block" ELSE "return"

Check(t) ==
  /\ pc[t] = "check"
  /\ owner["size"] = Free
  /\ Goto(t, IF size_q = 0 THEN WhenEmpty(t)
             ELSE IF op[t] = "unsafe_peek" THEN "peek" ELSE "take")
  /\ UNCHANGED <<chain, size_q, owner, op, val, late, dropped, out>>

\* cond.wait: release head_mutex and block, atomically; but some time after
\* the predicate was evaluated.
Block(t) ==
  /\ pc[t] = "block"
  /\ owner' = [owner EXCEPT !["head"] = Free]
  /\ Goto(t, "waiting")
  /\ UNCHANGED <<chain, size_q, op, val, late, dropped, out>>

\* A wait may end without a notification.
SpuriousWakeup(t) ==
  /\ pc[t] = "waiting"
  /\ Goto(t, "lock_head")
  /\ UNCHANGED <<chain, size_q, owner, op, val, late, dropped, out>>

\* A timed wait ends; the predicate is then evaluated once more.
Timeout(t) ==
  /\ pc[t] = "waiting" /\ op[t] = "wait_for_and_pop"
  /\ late' = late \cup {t}
  /\ Goto(t, "lock_head")
  /\ UNCHANGED <<chain, size_q, owner, op, val, dropped, out>>

\* Move the head node out of the chain.
Take(t) ==
  /\ pc[t] = "take"
  /\ chain # << >>
  /\ val' = [val EXCEPT ![t] = Head(chain)]
  /\ chain' = Tail(chain)
  /\ Goto(t, "dec")
  /\ UNCHANGED <<size_q, owner, op, late, dropped, out>>

\* try_get keeps size_mutex until it returns, the waiting pops do not.
Dec(t) ==
  /\ pc[t] = "dec"
  /\ owner["size"] = Free
  /\ size_q' = size_q - 1
  /\ out' = val[t]
  /\ IF op[t] = "try_pop" THEN Lock(t, "size") ELSE UNCHANGED owner
  /\ Goto(t, "return")
  /\ UNCHANGED <<chain, op, val, late, dropped>>

\* Copy the shared_ptr of the head node.
PeekHead(t) ==
  /\ pc[t] = "peek"
  /\ chain # << >>
  /\ val' = [val EXCEPT ![t] = Head(chain)]
  /\ Goto(t, "return")
  /\ UNCHANGED <<chain, size_q, owner, op, late, dropped, out>>

-----------------------------------------------------------------------------
(* clear                                                                   *)

\* Replace the chain by a new stub.
Drop(t) ==
  /\ pc[t] = "drop"
  /\ chain' = << >>
  /\ dropped' = chain
  /\ Goto(t, "zero")
  /\ UNCHANGED <<size_q, owner, op, val, late, out>>

Zero(t) ==
  /\ pc[t] = "zero"
  /\ Lock(t, "size")
  /\ size_q' = 0
  /\ dropped' = << >>
  /\ Goto(t, "return")
  /\ UNCHANGED <<chain, op, val, late, out>>

\* The destructor runs when no thread is inside a call, and releases the chain
\* node by node; then another queue is made.
Destroy ==
  /\ \A t \in Threads : pc[t] = "idle"
  /\ chain' = << >> /\ size_q' = 0
  /\ UNCHANGED <<owner, pc, op, val, late, dropped, out>>

-----------------------------------------------------------------------------
\* What a thread inside a call does next, cond permitting.
Step(t) ==
  \/ LockHead(t) \/ LockTail(t) \/ Return(t)
  \/ Link(t) \/ Inc(t) \/ Notify(t)
  \/ Check(t) \/ Block(t) \/ Take(t) \/ Dec(t) \/ PeekHead(t)
  \/ Drop(t) \/ Zero(t)

Next ==
  \/ \E t \in Threads :
       \/ CallPush(t) \/ CallEmplaceBack(t)
       \/ CallWaitAndPop(t) \/ CallTryPop(t) \/ CallWaitForAndPop(t)
       \/ CallUnsafePeek(t) \/ CallClear(t)
       \/ Step(t)
       \/ SpuriousWakeup(t) \/ Timeout(t)
  \/ Destroy

Spec == Init /\ [][Next]_vars

\* Every thread inside a call is scheduled, a mutex is not withheld for ever
\* from a thread that asks for it, and the deadline of a wait_for_and_pop,
\* which is absolute, passes however often the wait is interrupted.  No thread
\* has to make another call, and no wait has to end spuriously.
Fairness ==
  \A t \in Threads : SF_vars(Step(t)) /\ SF_vars(Timeout(t))

FairSpec == Spec /\ Fairness

-----------------------------------------------------------------------------
Labels ==
  {"idle", "lock_head", "lock_tail", "return", "link", "inc", "notify", "check",
   "block", "waiting", "take", "dec", "peek", "drop", "zero"}

TypeOK ==
  /\ chain \in Seq(Value)
  /\ size_q \in Nat
  /\ owner \in [Mutexes -> Threads \cup {Free}]
  /\ pc \in [Threads -> Labels]
  /\ op \in [Threads -> Ops \cup {"none"}]
  /\ val \in [Threads -> Value \cup {NoValue}]
  /\ late \subseteq Threads
  /\ dropped \in Seq(Value)
  /\ out \in Value \cup {NoValue}

\* A consumer that was told the queue is not empty finds a filled node at the
\* head, so it never touches the stub a producer is writing, although it gave
\* up size_mutex since and other consumers and clear() run.
HeadIsNotTheStub ==
  \A t \in Threads : pc[t] \in {"take", "peek"} => chain # << >>

\* What a consumer has moved out of the chain and not yet subtracted, and the
\* nodes without the one a producer has linked and not yet counted.
InHand ==
  LET popper == owner["head"]
  IN  IF popper # Free /\ pc[popper] = "dec" THEN <<val[popper]>> ELSE << >>

Counted ==
  LET pusher == owner["tail"]
  IN  IF pusher # Free /\ pc[pusher] = "inc" THEN Front(chain) ELSE chain

\* The queue as its clients see it: an element enters when size_q is raised
\* and leaves when it is lowered.
Items == dropped \o InHand \o Counted

\* size() and empty() are exact at every moment, although node chain and
\* counter change at different times under different mutexes.
SizeIsExact == size_q = Len(Items)

\* The inductive invariant, in parts.  Locks: which mutex a thread holds where,
\* and that none is held outside these places.
HoldsHead(t) ==
  \/ pc[t] \in {"check", "block", "take", "dec", "peek", "drop", "zero"}
  \/ pc[t] = "lock_tail" /\ op[t] = "clear"

HoldsTail(t) == pc[t] \in {"link", "inc", "notify", "drop", "zero"}

LocksInv ==
  \A t \in Threads :
    /\ HoldsHead(t) => owner["head"] = t
    /\ HoldsTail(t) => owner["tail"] = t
    /\ owner["head"] = t => HoldsHead(t) \/ pc[t] = "return"
    /\ owner["tail"] = t => HoldsTail(t) \/ pc[t] = "return"
    /\ owner["size"] = t => pc[t] = "return"

\* Contents: what a thread knows of chain and counter from the mutexes it holds
\* now, or held a moment ago.
ContentsInv ==
  /\ \A t \in Threads :
       /\ pc[t] \in {"link", "dec"} \/ (pc[t] = "lock_tail" /\ op[t] # "clear")
            => val[t] \in Value
       /\ pc[t] = "inc" => chain # << >>
       /\ pc[t] \in {"take", "peek"} => size_q > 0
       /\ pc[t] = "zero" => chain = << >>
  /\ dropped # << >> => \E t \in Threads : pc[t] = "zero"

IInv == TypeOK /\ LocksInv /\ ContentsInv /\ SizeIsExact

Fifo == INSTANCE FifoQueue WITH items <- Items, Lengths <- Nat, Clears <- TRUE

\* Any number of producers and consumers see one FIFO queue: Inc pushes, Dec
\* pops, Zero clears, and no other step changes the queue.
ImplementsFifo == Fifo!Spec

\* Every mutex is given up again: the locks are taken in an order that admits
\* no cycle, and no thread blocks in cond with one it keeps.
SectionsEnd == \A m \in Mutexes : []<>(owner[m] = Free)

\* A wait_for_and_pop returns, with or without an element.
TimedWaitReturns ==
  \A t \in Threads :
    pc[t] = "waiting" /\ op[t] = "wait_for_and_pop" ~> pc[t] = "idle"

\* A push that begins its work while a thread is blocked wakes it, unless
\* others have joined the wait by then: only notifications sent before a
\* thread has blocked are lost, and the next push makes up for them.
PushWakes ==
  \A c \in Threads :
    (\E p \in Threads : pc[p] = "link" /\ op[p] = "push") /\ Waiting = {c}
      ~> Waiting # {c}

\* What impl.hpp promises of notify_one and defs.hpp of wait_and_pop: a thread
\* does not stay blocked while there are elements to pop.
WaiterGetsElement ==
  \A t \in Threads :
    pc[t] = "waiting" /\ size_q > 0 ~> pc[t] # "waiting" \/ size_q = 0
=============================================================================
