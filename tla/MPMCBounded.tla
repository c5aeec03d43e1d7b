------------------------------ MODULE MPMCBounded ------------------------------
(***************************************************************************)
(* lockfree_mpmc_bounded<T, N>: a ring of N cells, each with a sequence    *)
(* number that says whose turn the cell is: p for the producer of position *)
(* p, p + 1 for its consumer, p + N for the producer one lap later.        *)
(* Threads compete for positions by compare-exchange on enqueue_pos and    *)
(* dequeue_pos, and own the cell of a position they won until they store   *)
(* its sequence.                                                           *)
(*                                                                         *)
(* A step is one atomic operation or one access to the data of a cell.     *)
(* Positions are natural numbers here; the code's wrap at the width of     *)
(* size_t, which N divides.  The positions are advanced by relaxed         *)
(* operations, so size() may load a dequeue_pos as old as the newest one   *)
(* its thread is sure to know: see seen.                                   *)
(***************************************************************************)
EXTENDS Integers, Sequences

CONSTANTS
  Threads,    \* the threads that call the queue
  N,          \* the template parameter
  Value,      \* the elements they push
  NoValue,    \* no element, or a moved-from one
  Ops,        \* the member functions the threads call
  Stoppable,  \* the threads that may be preempted for good inside a call
  MaxPos      \* bound: no push starts when enqueue_pos is this large

ASSUME NAssumption == N \in Nat \ {0, 1}
ASSUME NoValueAssumption == NoValue \notin Value
ASSUME MaxPosAssumption == MaxPos \in Nat
ASSUME OpsAssumption ==
  Ops \subseteq {"try_push", "push", "try_pop", "wait_and_pop", "size"}

VARIABLES
  sequence,   \* the sequence number of each cell
  data,       \* the element of each cell
  enqueue_pos,
  dequeue_pos,
  pc,         \* where each thread is
  op,         \* the function it executes, "none" between calls
  pos,        \* its local pos (in size() push_idx, then the result)
  val,        \* the element it pushes or has popped
  seen,       \* a dequeue_pos each thread is sure to know: it loads no older one
  due,        \* history: what the cell held when a pop won its position
  out,        \* history: the due element of the latest pop
  begun       \* history: dequeue_pos at the first load of a thread's size()

local == <<pc, op, pos, val>>
history == <<due, out, begun>>
vars == <<sequence, data, enqueue_pos, dequeue_pos, local, seen, history>>

Cells == 0 .. N - 1

Pushes == {"try_push", "push"}       \* also try_emplace_back, emplace_back
Pops == {"try_pop", "wait_and_pop"}
Spinning == {"push", "wait_and_pop"}

Init ==
  /\ sequence = [i \in Cells |-> i]
  /\ data = [i \in Cells |-> NoValue]
  /\ enqueue_pos = 0 /\ dequeue_pos = 0
  /\ pc = [t \in Threads |-> "idle"]
  /\ op = [t \in Threads |-> "none"]
  /\ pos = [t \in Threads |-> 0]
  /\ val = [t \in Threads |-> NoValue]
  /\ seen = [t \in Threads |-> 0]
  /\ due = [t \in Threads |-> NoValue]
  /\ out = NoValue
  /\ begun = [t \in Threads |-> 0]

Goto(t, label) == pc' = [pc EXCEPT ![t] = label]

\* The end of a call.
Return(t) ==
  /\ Goto(t, "idle")
  /\ op' = [op EXCEPT ![t] = "none"]
  /\ val' = [val EXCEPT ![t] = NoValue]
  /\ pos' = [pos EXCEPT ![t] = 0]

CellOf(p) == p % N

cell(t) == CellOf(pos[t])

\* Thread t knows of the first i pops (size() alone depends on it).
Knows(t, i) ==
  seen' = IF "size" \in Ops /\ seen[t] < i THEN [seen EXCEPT ![t] = i] ELSE seen

-----------------------------------------------------------------------------
(* Faulty variants of operations below, each of which breaks a property.   *)

\* size() that loads dequeue_pos first and enqueue_pos last.
SizeResultSwapped(t) ==
  /\ pc[t] = "load_pop_idx"
  /\ \E pop_idx \in seen[t] .. begun[t] :
       /\ pos' = [pos EXCEPT ![t] = IF enqueue_pos > pop_idx THEN enqueue_pos - pop_idx ELSE 0]
       /\ Knows(t, pop_idx)
  /\ Goto(t, "sized")
  /\ UNCHANGED <<sequence, data, enqueue_pos, dequeue_pos, op, val, history>>

\* The position is stored without comparing.
CasPushBlind(t) ==
  /\ pc[t] = "cas" /\ op[t] \in Pushes
  /\ enqueue_pos' = pos[t] + 1
  /\ Goto(t, "write")
  /\ UNCHANGED <<sequence, data, dequeue_pos, op, pos, val, seen, history>>

CasPopBlind(t) ==
  /\ pc[t] = "cas" /\ op[t] \in Pops
  /\ dequeue_pos' = pos[t] + 1
  /\ due' = [due EXCEPT ![t] = data[cell(t)]]
  /\ out' = data[cell(t)]
  /\ Goto(t, "take")
  /\ UNCHANGED <<sequence, data, enqueue_pos, op, pos, val, seen, begun>>

\* The sequence is stored before the data is written.
CasPushPublishes(t) ==
  /\ pc[t] = "cas" /\ op[t] \in Pushes
  /\ enqueue_pos = pos[t]
  /\ enqueue_pos' = pos[t] + 1
  /\ sequence' = [sequence EXCEPT ![cell(t)] = pos[t] + 1]
  /\ Goto(t, "write")
  /\ UNCHANGED <<data, dequeue_pos, op, pos, val, seen, history>>

\* The cell is released for the producer of the same lap.
ReleaseShort(t) ==
  /\ pc[t] = "release"
  /\ sequence' = [sequence EXCEPT ![cell(t)] = pos[t] + N - 1]
  /\ due' = [due EXCEPT ![t] = NoValue]
  /\ Return(t)
  /\ UNCHANGED <<data, enqueue_pos, dequeue_pos, out, seen, begun>>

\* A position that is gone is not loaded again.
LoadSeqKeepsPos(t) ==
  /\ pc[t] = "load_seq"
  /\ LET dif == sequence[cell(t)] - (IF op[t] \in Pops THEN pos[t] + 1 ELSE pos[t])
     IN  \/ dif = 0 /\ Goto(t, "cas") /\ UNCHANGED <<op, pos, val>>
         \/ dif > 0 /\ UNCHANGED <<pc, op, pos, val>>
         \/ dif < 0 /\ op[t] \in Spinning /\ Goto(t, "load") /\ UNCHANGED <<op, pos, val>>
         \/ dif < 0 /\ op[t] \notin Spinning /\ Return(t)
  /\ UNCHANGED <<sequence, data, enqueue_pos, dequeue_pos, seen, history>>

\* A failed compare-exchange is tried again with the same expected value.
CasFailsKeepsPos(t) ==
  /\ pc[t] = "cas"
  /\ UNCHANGED vars

-----------------------------------------------------------------------------
Call(t, o, v) ==
  /\ pc[t] = "idle"
  /\ o \in Ops
  /\ op' = [op EXCEPT ![t] = o]
  /\ val' = [val EXCEPT ![t] = v]
  /\ Goto(t, "load")
  /\ UNCHANGED <<sequence, data, enqueue_pos, dequeue_pos, pos, seen, history>>

CallPush(t) ==
  /\ enqueue_pos < MaxPos
  /\ \E o \in Pushes, v \in Value : Call(t, o, v)

CallPop(t) == \E o \in Pops : Call(t, o, NoValue)

CallSize(t) == Call(t, "size", NoValue)

\* The position counter the thread competes for; size() starts with it too.
counter(t) == IF op[t] \in Pops THEN dequeue_pos ELSE enqueue_pos

LoadPos(t) ==
  /\ pc[t] = "load"
  /\ pos' = [pos EXCEPT ![t] = counter(t)]
  /\ IF op[t] = "size"
     THEN Goto(t, "load_pop_idx") /\ begun' = [begun EXCEPT ![t] = dequeue_pos]
     ELSE Goto(t, "load_seq") /\ UNCHANGED begun
  /\ UNCHANGED <<sequence, data, enqueue_pos, dequeue_pos, op, val, seen, due, out>>

\* The sequence number that makes it the thread's turn.
turn(t) == IF op[t] \in Pops THEN pos[t] + 1 ELSE pos[t]

\* Load the cell's sequence and compare: at the thread's turn try to win the
\* position; past it reload the position; before it the queue counts as full
\* (empty): a try function returns, a spinning one yields and starts over.
LoadSeq(t) ==
  /\ pc[t] = "load_seq"
  /\ LET dif == sequence[cell(t)] - turn(t)
     IN  \/ dif = 0 /\ Goto(t, "cas") /\ UNCHANGED <<op, pos, val>>
         \/ /\ dif > 0 \/ (dif < 0 /\ op[t] \in Spinning)
            /\ Goto(t, "load")
            /\ UNCHANGED <<op, pos, val>>
         \/ dif < 0 /\ op[t] \notin Spinning /\ Return(t)
  /\ UNCHANGED <<sequence, data, enqueue_pos, dequeue_pos, seen, history>>

\* The sequence number that the push has loaded (acquire) was stored (release)
\* by the pop of the position one lap earlier: from now on the thread knows of it.
CasPush(t) ==
  /\ pc[t] = "cas" /\ op[t] \in Pushes
  /\ enqueue_pos = pos[t]
  /\ enqueue_pos' = pos[t] + 1
  /\ Goto(t, "write")
  /\ Knows(t, pos[t] - N + 1)
  /\ UNCHANGED <<sequence, data, dequeue_pos, op, pos, val, history>>

CasPop(t) ==
  /\ pc[t] = "cas" /\ op[t] \in Pops
  /\ dequeue_pos = pos[t]
  /\ dequeue_pos' = pos[t] + 1
  /\ due' = [due EXCEPT ![t] = data[cell(t)]]
  /\ out' = data[cell(t)]
  /\ Goto(t, "take")
  /\ Knows(t, pos[t] + 1)
  /\ UNCHANGED <<sequence, data, enqueue_pos, op, pos, val, begun>>

\* compare_exchange_weak fails when the position has moved on, and may fail
\* when it has not; either way it loads the position into pos.
CasFails(t) ==
  /\ pc[t] = "cas"
  /\ pos' = [pos EXCEPT ![t] = counter(t)]
  /\ Goto(t, "load_seq")
  /\ UNCHANGED <<sequence, data, enqueue_pos, dequeue_pos, op, val, seen, history>>

WriteData(t) ==
  /\ pc[t] = "write"
  /\ data' = [data EXCEPT ![cell(t)] = val[t]]
  /\ Goto(t, "publish")
  /\ UNCHANGED <<sequence, enqueue_pos, dequeue_pos, op, pos, val, seen, history>>

Publish(t) ==
  /\ pc[t] = "publish"
  /\ sequence' = [sequence EXCEPT ![cell(t)] = pos[t] + 1]
  /\ Return(t)
  /\ UNCHANGED <<data, enqueue_pos, dequeue_pos, seen, history>>

\* value = std::move(cell->data)
TakeData(t) ==
  /\ pc[t] = "take"
  /\ val' = [val EXCEPT ![t] = data[cell(t)]]
  /\ data' = [data EXCEPT ![cell(t)] = NoValue]
  /\ Goto(t, "release")
  /\ UNCHANGED <<sequence, enqueue_pos, dequeue_pos, op, pos, seen, history>>

Release(t) ==
  /\ pc[t] = "release"
  /\ sequence' = [sequence EXCEPT ![cell(t)] = pos[t] + N]
  /\ due' = [due EXCEPT ![t] = NoValue]
  /\ Return(t)
  /\ UNCHANGED <<data, enqueue_pos, dequeue_pos, out, seen, begun>>

\* The second load of size() reads any dequeue_pos from the one its thread is
\* sure to know up to the newest; empty() compares the result with 0.
SizeResult(t) ==
  /\ pc[t] = "load_pop_idx"
  /\ \E pop_idx \in seen[t] .. dequeue_pos :
       /\ pos' = [pos EXCEPT ![t] = IF pos[t] > pop_idx THEN pos[t] - pop_idx ELSE 0]
       /\ Knows(t, pop_idx)
  /\ Goto(t, "sized")
  /\ UNCHANGED <<sequence, data, enqueue_pos, dequeue_pos, op, val, history>>

SizeReturn(t) ==
  /\ pc[t] = "sized"
  /\ begun' = [begun EXCEPT ![t] = 0]
  /\ Return(t)
  /\ UNCHANGED <<sequence, data, enqueue_pos, dequeue_pos, seen, due, out>>

-----------------------------------------------------------------------------
CasWins(t) == CasPush(t) \/ CasPop(t)

Step(t) ==
  \/ LoadPos(t) \/ LoadSeq(t)
  \/ CasWins(t) \/ CasFails(t)
  \/ WriteData(t) \/ Publish(t)
  \/ TakeData(t) \/ Release(t)
  \/ SizeResult(t) \/ SizeReturn(t)

Next ==
  \E t \in Threads : CallPush(t) \/ CallPop(t) \/ CallSize(t) \/ Step(t)

Spec == Init /\ [][Next]_vars

\* Threads inside a call are scheduled, but for the Stoppable ones, and a
\* compare-exchange whose position is current again and again does not fail
\* spuriously for ever.  No thread has to make another call.
Fairness ==
  \A t \in Threads \ Stoppable : WF_vars(Step(t)) /\ SF_vars(CasWins(t))

FairSpec == Spec /\ Fairness

-----------------------------------------------------------------------------
Labels ==
  {"idle", "load", "load_seq", "cas", "write", "publish", "take", "release",
   "load_pop_idx", "sized"}

\* The positions, the sequence numbers and what size() computes from two loads
\* at different times are natural numbers.
TypeOK ==
  /\ sequence \in [Cells -> Nat]
  /\ data \in [Cells -> Value \cup {NoValue}]
  /\ enqueue_pos \in Nat /\ dequeue_pos \in Nat
  /\ pc \in [Threads -> Labels]
  /\ op \in [Threads -> Pushes \cup Pops \cup {"size", "none"}]
  /\ pos \in [Threads -> Nat]
  /\ val \in [Threads -> Value \cup {NoValue}]
  /\ due \in [Threads -> Value \cup {NoValue}]
  /\ out \in Value \cup {NoValue}
  /\ seen \in [Threads -> Nat]
  /\ begun \in [Threads -> Nat]

\* The threads that own a cell: they won its position and have not stored its
\* sequence yet.
Owns(t) == pc[t] \in {"write", "publish", "take", "release"}

\* The data of a cell is not atomic: no two threads own a cell at once, even
\* when one of them has slept in the cell for whole laps of the others.
CellsAreOwnedByOne ==
  \A t, u \in Threads : t # u /\ Owns(t) /\ Owns(u) => cell(t) # cell(u)

\* A pop hands out the element its cell held when it won the position,
\* although it reads the cell some time later.
GetsItsElement == \A t \in Threads : pc[t] = "release" => val[t] = due[t]

\* The inductive invariant, in parts.  Window: the ring holds at most N positions.
Window == dequeue_pos <= enqueue_pos /\ enqueue_pos <= dequeue_pos + N

Producing(t) == pc[t] \in {"write", "publish"}
Consuming(t) == pc[t] \in {"take", "release"}

\* Cells: the cell that position q will use next is free for it, or still
\* belongs to position p one lap earlier: filled, being emptied or being filled.
CellsInv ==
  \A q \in enqueue_pos .. enqueue_pos + N - 1 :
    LET p == q - N
    IN  \/ sequence[CellOf(q)] = q /\ p < dequeue_pos
        \/ sequence[CellOf(q)] = p + 1 /\ p >= dequeue_pos /\ data[CellOf(q)] \in Value
        \/ /\ sequence[CellOf(q)] = p + 1 /\ p < dequeue_pos
           /\ \E t \in Threads : Consuming(t) /\ pos[t] = p
        \/ /\ sequence[CellOf(q)] = p /\ p >= dequeue_pos
           /\ \E t \in Threads : Producing(t) /\ pos[t] = p

\* Sequences: what a thread with an old pos may still read.
SequencesInv ==
  /\ \A p \in 0 .. enqueue_pos - 1 : sequence[CellOf(p)] >= p
  /\ \A p \in 0 .. dequeue_pos - 1 : sequence[CellOf(p)] > p

\* Threads: what a thread knows of the position and the cell it works on.
ThreadInv(t) ==
  /\ pc[t] = "load" => op[t] \in Pushes \cup Pops \cup {"size"}
  /\ pc[t] \in {"load_seq", "cas"} => op[t] \in Pushes \cup Pops /\ pos[t] <= counter(t)
  /\ pc[t] = "cas" /\ pos[t] = counter(t) => sequence[cell(t)] = turn(t)
  /\ op[t] \in Pushes => val[t] \in Value
  /\ Producing(t) => /\ op[t] \in Pushes /\ sequence[cell(t)] = pos[t]
                     /\ dequeue_pos <= pos[t] /\ pos[t] < enqueue_pos
  /\ Consuming(t) => /\ op[t] \in Pops /\ sequence[cell(t)] = pos[t] + 1
                     /\ enqueue_pos <= pos[t] + N /\ pos[t] < dequeue_pos
  /\ pc[t] = "publish" => data[cell(t)] = val[t]
  /\ pc[t] = "take" => data[cell(t)] = due[t]

ThreadsInv == \A t \in Threads : ThreadInv(t)

\* Owners: no position is won twice.
OwnersInv ==
  \A t, u \in Threads :
    pos[t] = pos[u] /\ t # u =>
      ~ (Producing(t) /\ Producing(u)) /\ ~ (Consuming(t) /\ Consuming(u))

IInv ==
  /\ TypeOK /\ Window /\ CellsInv /\ SequencesInv /\ ThreadsInv /\ OwnersInv
  /\ GetsItsElement

\* Views: no thread knows of a pop that is not won, and between its loads size()
\* holds an enqueue_pos that was in the window of the dequeue_pos of that time.
ViewsInv ==
  \A t \in Threads :
    /\ seen[t] <= dequeue_pos
    /\ pc[t] = "load_pop_idx" =>
         seen[t] <= begun[t] /\ begun[t] <= dequeue_pos /\ pos[t] <= begun[t] + N

\* The element of a position that is won by a push and by no pop: it is in
\* the cell, or still in the hands of the producer that won the position.
ElementAt(p) ==
  IF sequence[CellOf(p)] = p + 1 THEN data[CellOf(p)]
  ELSE LET owners == {t \in Threads : pc[t] \in {"write", "publish"} /\ pos[t] = p}
       IN  IF owners = {} THEN NoValue ELSE val[CHOOSE t \in owners : TRUE]

Items ==
  [i \in 1 .. enqueue_pos - dequeue_pos |-> ElementAt(dequeue_pos + i - 1)]

Fifo == INSTANCE FifoQueue WITH items <- Items, Lengths <- 0 .. N, Clears <- FALSE

\* The queue is a FIFO queue of at most N elements in which a push takes
\* effect when it wins enqueue_pos and a pop when it wins dequeue_pos.
ImplementsFifo == Fifo!Spec

\* size() has its result with this step.
Sizes(t) == pc[t] = "load_pop_idx" /\ pc'[t] = "sized"

\* size() may report more than the N elements the ring can hold, for its caller
\* need not know of every pop.  The excess is at most the pops that were won when
\* it began and that its caller did not know of, whatever is pushed and popped
\* between its two loads: a sole consumer never reads more than N.
SizeIsBounded ==
  [][\A t \in Threads : Sizes(t) => pos'[t] \in 0 .. N + begun[t] - seen[t]]_vars

\* A try function gives up in this step.
Refuses(t) == pc[t] = "load_seq" /\ pc'[t] = "idle"

\* The queue is empty (full), or a call at work on the position it waits for.
Excused(t) ==
  IF op[t] = "try_pop"
  THEN \/ enqueue_pos = dequeue_pos
       \/ \E u \in Threads : pc[u] \in {"write", "publish"} /\ pos[u] = dequeue_pos
  ELSE \/ enqueue_pos - dequeue_pos = N
       \/ \E u \in Threads : pc[u] \in {"take", "release"} /\ pos[u] = enqueue_pos - N

\* A try_pop returns false only if the queue is empty or the push of the oldest
\* element has not returned, and a try_push only if the queue is full or the
\* pop that makes room has not: however long a thread slept between the loads
\* of its position and of the sequence, no other refusal comes of it.
RefusalsAreExcused ==
  [][\A t \in Threads : Refuses(t) => Excused(t)]_vars

\* The positions whose push has returned and that no pop has won.
Published ==
  {p \in dequeue_pos .. enqueue_pos - 1 : sequence[CellOf(p)] = p + 1}

\* While elements whose push has returned are in the queue, a consumer that
\* spins for one gets it, unless a thread that may stop owns a cell: nowhere
\* else can a stopped thread hold up the others.
PopsProceed ==
  \A t \in Threads \ Stoppable :
    op[t] = "wait_and_pop" /\ Published # {}
      ~> op[t] = "none" \/ Published = {} \/ \E s \in Stoppable : Owns(s)

\* A try_push or try_pop returns wherever the Stoppable threads stop, unless
\* other threads win positions for ever (MaxPos ends that): a lost race or a
\* stale pos is noticed and made good.
TriesReturn ==
  \A t \in Threads \ Stoppable :
    op[t] \in {"try_push", "try_pop"} ~> op[t] = "none"
=============================================================================
