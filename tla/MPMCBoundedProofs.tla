-------------------------- MODULE MPMCBoundedProofs --------------------------
(***************************************************************************)
(* Proofs about MPMCBounded for every N, every number of threads and every *)
(* set of elements: its inductive invariant, the safety invariants that    *)
(* follow from it, that a refusal has an excuse, and that the ring         *)
(* implements a bounded FIFO queue.                                        *)
(***************************************************************************)
EXTENDS MPMCBounded, SequenceTheorems, TLAPS

(***************************************************************************)
(* Positions and cells: N consecutive positions have different cells, and  *)
(* a position has the cell of the one a lap before it.                     *)
(***************************************************************************)
LEMMA DivMod ==
  ASSUME NEW p \in Nat
  PROVE  /\ p % N = p - N * (p \div N)
         /\ p \div N \in Nat /\ p % N \in Cells /\ N * (p \div N) \in Int
  <1>1. p % N = p - N * (p \div N)
    BY NAssumption, SMT
  <1>2. p \div N \in Nat /\ p % N \in 0 .. N - 1
    BY NAssumption, SMT
  <1>3. N * (p \div N) \in Int
    BY <1>2, NAssumption
  <1> QED
    BY <1>1, <1>2, <1>3 DEF Cells

LEMMA CellType ==
  ASSUME NEW p \in Nat
  PROVE  CellOf(p) \in Cells
  BY DivMod DEF CellOf

LEMMA Multiples ==
  ASSUME NEW x \in Int, NEW y \in Int, x < y
  PROVE  N * y - N * x >= N
  <1>1. N * y - N * x = N * (y - x)
    BY NAssumption, SMT
  <1>2. \A d \in Int : d >= 1 => N * d >= N
    BY NAssumption, SMT
  <1>3. y - x \in Int /\ y - x >= 1
    OBVIOUS
  <1> QED
    BY <1>1, <1>2, <1>3

LEMMA SameCell ==
  ASSUME NEW p \in Nat, NEW q \in Nat, CellOf(p) = CellOf(q), p < q + N, q < p + N
  PROVE  p = q
  <1> DEFINE x == p \div N
             y == q \div N
             r == p % N
  <1>1. /\ r = p - N * x /\ r = q - N * y /\ x \in Nat /\ y \in Nat /\ r \in Nat
        /\ N * x \in Int /\ N * y \in Int
    BY DivMod DEF Cells, CellOf
  <1> HIDE DEF x, y, r
  <1>2. ~ (x < y)
    BY <1>1, Multiples, NAssumption
  <1>3. ~ (y < x)
    BY <1>1, Multiples, NAssumption
  <1>4. x = y
    BY <1>1, <1>2, <1>3
  <1> QED
    BY <1>1, <1>4

LEMMA NextLap ==
  ASSUME NEW p \in Nat
  PROVE  CellOf(p + N) = CellOf(p)
  <1>1. PICK q \in Nat : q = p + N
    BY NAssumption
  <1> DEFINE d == p \div N
             y == q \div N
             r == p % N
             s == q % N
  <1>2. /\ r = p - N * d /\ s = q - N * y /\ r \in 0 .. N - 1 /\ s \in 0 .. N - 1
        /\ d \in Nat /\ y \in Nat /\ N * d \in Int /\ N * y \in Int
    BY DivMod DEF Cells
  <1> HIDE DEF d, y, r, s
  <1>3. PICK x \in Nat : x = d + 1
    BY <1>2
  <1>4. N * x = N * d + N
    BY <1>2, <1>3, NAssumption, SMT
  <1>5. r = q - N * x /\ N * x \in Int
    BY <1>1, <1>2, <1>4, NAssumption
  <1>6. ~ (x < y)
    BY <1>2, <1>5, Multiples, NAssumption
  <1>7. ~ (y < x)
    BY <1>2, <1>5, Multiples, NAssumption
  <1>8. x = y
    BY <1>2, <1>3, <1>6, <1>7
  <1> QED
    BY <1>1, <1>2, <1>5, <1>8 DEF s, r, CellOf

\* Neighbouring positions have different cells.
LEMMA NextCell ==
  ASSUME NEW p \in Nat
  PROVE  CellOf(p + 1) # CellOf(p)
  BY SameCell, NAssumption

-----------------------------------------------------------------------------
(***************************************************************************)
(* Consequences of the invariant: a cell has one owner, the cell of a      *)
(* position is the one a thread can win it for.                            *)
(***************************************************************************)
LEMMA OneOwner ==
  ASSUME IInv, NEW t \in Threads, NEW u \in Threads, t # u, Owns(t), Owns(u)
  PROVE  cell(t) # cell(u)
  <1> USE DEF IInv
  <1>1. /\ pos[t] \in Nat /\ pos[u] \in Nat /\ N \in Nat \ {0, 1}
        /\ enqueue_pos \in Nat /\ dequeue_pos \in Nat
        /\ dequeue_pos <= enqueue_pos /\ enqueue_pos <= dequeue_pos + N
    BY NAssumption DEF TypeOK, Window
  <1>2. /\ Producing(t) \/ Consuming(t)
        /\ Producing(u) \/ Consuming(u)
        /\ pos[t] = pos[u] =>
             ~ (Producing(t) /\ Producing(u)) /\ ~ (Consuming(t) /\ Consuming(u))
    BY DEF Owns, Producing, Consuming, OwnersInv
  <1>3. \A v \in {t, u} :
          /\ Producing(v) => dequeue_pos <= pos[v] /\ pos[v] < enqueue_pos
          /\ Consuming(v) => enqueue_pos <= pos[v] + N /\ pos[v] < dequeue_pos
    BY DEF ThreadsInv, ThreadInv
  <1>4. pos[t] < pos[u] + N /\ pos[u] < pos[t] + N
    BY <1>1, <1>2, <1>3
  <1>5. pos[t] # pos[u]
    BY <1>1, <1>2, <1>3
  <1> QED
    BY <1>1, <1>4, <1>5, SameCell DEF cell

\* A position in the ring and the one that shares its cell a lap later.
LEMMA LapLater ==
  ASSUME NEW e \in Nat, NEW q \in e .. e + N - 1, NEW p \in Nat,
         e <= p + N, p < e, CellOf(q) = CellOf(p)
  PROVE  q = p + N
  <1>1. p + N \in Nat /\ q \in Nat /\ CellOf(p + N) = CellOf(q)
    BY NextLap, NAssumption
  <1>2. p + N < q + N /\ q < p + N + N
    BY NAssumption
  <1> QED
    BY <1>1, <1>2, SameCell

\* The positions an owner works on.
LEMMA OwnerFacts ==
  ASSUME IInv, NEW t \in Threads, Owns(t)
  PROVE  /\ pos[t] \in Nat /\ cell(t) \in Cells
         /\ Producing(t) \/ Consuming(t)
         /\ Producing(t) => /\ sequence[cell(t)] = pos[t] /\ val[t] \in Value
                            /\ dequeue_pos <= pos[t] /\ pos[t] < enqueue_pos
         /\ Consuming(t) => /\ sequence[cell(t)] = pos[t] + 1
                            /\ enqueue_pos <= pos[t] + N /\ pos[t] < dequeue_pos
         /\ \A q \in enqueue_pos .. enqueue_pos + N - 1 :
              CellOf(q) = cell(t) => q = pos[t] + N
  <1> USE DEF IInv
  <1>1. pos[t] \in Nat /\ cell(t) \in Cells
    BY CellType DEF TypeOK, cell
  <1>2. /\ Producing(t) \/ Consuming(t)
        /\ Producing(t) => /\ sequence[cell(t)] = pos[t] /\ val[t] \in Value
                           /\ dequeue_pos <= pos[t] /\ pos[t] < enqueue_pos
        /\ Consuming(t) => /\ sequence[cell(t)] = pos[t] + 1
                           /\ enqueue_pos <= pos[t] + N /\ pos[t] < dequeue_pos
    BY DEF Owns, Producing, Consuming, ThreadsInv, ThreadInv
  <1>3. enqueue_pos \in Nat /\ enqueue_pos <= pos[t] + N /\ pos[t] < enqueue_pos
    BY <1>1, <1>2, NAssumption DEF TypeOK, Window
  <1> QED
    BY <1>1, <1>2, <1>3, LapLater DEF cell

\* A compare-exchange that finds its position current wins a cell whose turn it is.
LEMMA Winnable ==
  ASSUME IInv
  PROVE  /\ sequence[CellOf(enqueue_pos)] = enqueue_pos => enqueue_pos < dequeue_pos + N
         /\ sequence[CellOf(dequeue_pos)] = dequeue_pos + 1 => dequeue_pos < enqueue_pos
  <1> DEFINE e == enqueue_pos
             s == sequence[CellOf(enqueue_pos)]
  <1>1. /\ e \in Nat /\ dequeue_pos \in Nat /\ N \in Nat \ {0, 1}
        /\ dequeue_pos <= e /\ e <= dequeue_pos + N
    BY NAssumption DEF IInv, TypeOK, Window
  <1>2. \/ s = e /\ e - N < dequeue_pos
        \/ s = e - N + 1 \/ s = e - N
    <2>1. e \in e .. e + N - 1
      BY <1>1
    <2> QED
      BY <2>1 DEF IInv, CellsInv
  <1> HIDE DEF e, s
  <1>3. s = e => e < dequeue_pos + N
    BY <1>1, <1>2
  <1>4. s = dequeue_pos + 1 => dequeue_pos # e
    BY <1>1, <1>2
  <1> QED
    BY <1>1, <1>3, <1>4 DEF e, s

-----------------------------------------------------------------------------
(***************************************************************************)
(* The inductive step, one lemma per kind of action.                       *)
(***************************************************************************)
LEMMA InitInv == Init => IInv
  <1> SUFFICES ASSUME Init PROVE IInv
    OBVIOUS
  <1> USE NAssumption
  <1>1. sequence \in [Cells -> Nat] /\ data \in [Cells -> Value \cup {NoValue}]
    BY DEF Init, Cells
  <1>2. TypeOK
    BY <1>1 DEF Init, TypeOK, Labels
  <1>3. Window
    BY DEF Init, Window
  <1>4. CellsInv
    <2> SUFFICES ASSUME NEW q \in 0 .. N - 1
                 PROVE  sequence[CellOf(q)] = q /\ q - N < 0
      BY DEF Init, CellsInv
    <2>1. q \in Nat /\ CellOf(q) \in Cells /\ CellOf(q) \in Nat /\ CellOf(q) < N
      BY CellType DEF Cells
    <2>2. CellOf(q) = q
      BY <2>1, SMT DEF CellOf
    <2> QED
      BY <2>1, <2>2 DEF Init
  <1>5. SequencesInv /\ OwnersInv /\ ThreadsInv /\ GetsItsElement
    BY DEF Init, SequencesInv, OwnersInv, ThreadsInv, ThreadInv, GetsItsElement, Producing,
           Consuming, Pushes
  <1> QED
    BY <1>2, <1>3, <1>4, <1>5 DEF IInv

\* A step that changes only the locals of a thread that owns no cell.
LocalTo(t) ==
  /\ UNCHANGED <<sequence, data, enqueue_pos, dequeue_pos, due, out>>
  /\ ~ Owns(t) /\ ~ Owns(t)'
  /\ \A u \in Threads \ {t} :
       pc'[u] = pc[u] /\ op'[u] = op[u] /\ pos'[u] = pos[u] /\ val'[u] = val[u]

LEMMA LocalStep ==
  ASSUME IInv, NEW t \in Threads, LocalTo(t), TypeOK', ThreadInv(t)'
  PROVE  IInv'
  <1> USE DEF IInv
  <1>1. /\ UNCHANGED <<sequence, data, enqueue_pos, dequeue_pos, due, out>>
        /\ \A u \in Threads \ {t} :
             pc'[u] = pc[u] /\ op'[u] = op[u] /\ pos'[u] = pos[u] /\ val'[u] = val[u]
        /\ ~ Producing(t) /\ ~ Consuming(t) /\ ~ Producing(t)' /\ ~ Consuming(t)'
    BY DEF LocalTo, Owns, Producing, Consuming
  <1>2. Window' /\ SequencesInv'
    BY <1>1 DEF Window, SequencesInv
  <1>3. \A u \in Threads :
          /\ Producing(u)' <=> Producing(u)
          /\ Consuming(u)' <=> Consuming(u)
          /\ Producing(u) \/ Consuming(u) => pos'[u] = pos[u]
    BY <1>1 DEF Producing, Consuming
  <1>4. CellsInv'
    BY <1>1, <1>3 DEF CellsInv
  <1>5. ThreadsInv'
    BY <1>1 DEF ThreadsInv, ThreadInv, Producing, Consuming, counter, turn, cell
  <1>6. OwnersInv'
    BY <1>3 DEF OwnersInv
  <1>7. GetsItsElement'
    BY <1>1 DEF GetsItsElement, Consuming
  <1> QED
    BY <1>2, <1>4, <1>5, <1>6, <1>7

LEMMA KnowsType ==
  ASSUME seen \in [Threads -> Nat], NEW t \in Threads, NEW i \in Int, Knows(t, i)
  PROVE  seen' \in [Threads -> Nat]
  BY DEF Knows

\* A push wins its position: the cell that was free for it is being filled.
LEMMA CasPushStep ==
  ASSUME IInv, NEW t \in Threads, CasPush(t)
  PROVE  IInv'
  <1> USE NAssumption DEF IInv
  <1> DEFINE e == enqueue_pos
  <1>1. /\ pc[t] = "cas" /\ op[t] \in Pushes /\ pos[t] = e /\ enqueue_pos' = e + 1
        /\ pc' = [pc EXCEPT ![t] = "write"]
        /\ UNCHANGED <<sequence, data, dequeue_pos, op, pos, val, due, out, begun>>
    BY DEF CasPush, Goto, history
  <1>2. /\ e \in Nat /\ dequeue_pos \in Nat /\ dequeue_pos <= e /\ sequence[CellOf(e)] = e
        /\ val[t] \in Value /\ pc[t] \notin {"write", "publish", "take", "release"}
    BY <1>1 DEF TypeOK, Window, ThreadsInv, ThreadInv, counter, turn, cell, Pushes, Pops
  <1>3. e < dequeue_pos + N
    BY <1>2, Winnable
  <1>4. CellOf(e + N) = CellOf(e)
    BY <1>2, NextLap
  <1>5. pc'[t] = "write" /\ \A u \in Threads \ {t} : pc'[u] = pc[u]
    BY <1>1 DEF TypeOK
  <1>6. /\ Producing(t)' /\ ~ Consuming(t)' /\ ~ Producing(t) /\ ~ Consuming(t)
        /\ \A u \in Threads \ {t} : /\ Producing(u)' <=> Producing(u)
                                    /\ Consuming(u)' <=> Consuming(u)
    BY <1>2, <1>5 DEF Producing, Consuming
  <1>7. TypeOK'
    <2>1. Knows(t, e - N + 1) /\ e - N + 1 \in Int /\ seen \in [Threads -> Nat]
      BY <1>1, <1>2 DEF CasPush, TypeOK
    <2>2. seen' \in [Threads -> Nat]
      BY <2>1, KnowsType
    <2>3. pc' \in [Threads -> Labels] /\ enqueue_pos' \in Nat
      BY <1>1, <1>2 DEF TypeOK, Labels
    <2>4. UNCHANGED <<sequence, data, dequeue_pos, op, pos, val, due, out, begun>>
      BY <1>1
    <2> QED
      BY <2>2, <2>3, <2>4 DEF TypeOK
  <1>8. Window'
    BY <1>1, <1>2, <1>3 DEF Window
  <1>9. CellsInv'
    <2> SUFFICES ASSUME NEW q \in e + 1 .. e + N
                 PROVE  \/ sequence[CellOf(q)] = q /\ q - N < dequeue_pos
                        \/ /\ sequence[CellOf(q)] = q - N + 1 /\ q - N >= dequeue_pos
                           /\ data[CellOf(q)] \in Value
                        \/ /\ sequence[CellOf(q)] = q - N + 1 /\ q - N < dequeue_pos
                           /\ \E u \in Threads : Consuming(u)' /\ pos[u] = q - N
                        \/ /\ sequence[CellOf(q)] = q - N /\ q - N >= dequeue_pos
                           /\ \E u \in Threads : Producing(u)' /\ pos[u] = q - N
      BY <1>1, <1>2 DEF CellsInv
    <2>1. CASE q = e + N
      BY <1>1, <1>2, <1>4, <1>6, <2>1
    <2>2. CASE q # e + N
      <3>1. q \in e .. e + N - 1
        BY <1>2, <2>2
      <3> QED
        BY <1>6, <3>1 DEF CellsInv
    <2> QED
      BY <2>1, <2>2
  <1>10. SequencesInv'
    BY <1>1, <1>2 DEF SequencesInv
  <1>11. ASSUME NEW u \in Threads, Consuming(u) PROVE e + 1 <= pos[u] + N
    <2>1. /\ pos[u] \in Nat /\ sequence[cell(u)] = pos[u] + 1 /\ e <= pos[u] + N
      BY <1>11, OwnerFacts DEF Owns, Consuming
    <2>2. pos[u] + N = e => CellOf(e) = cell(u)
      BY <2>1, NextLap DEF cell
    <2> QED
      BY <1>2, <2>1, <2>2
  <1>12. ThreadsInv'
    <2>1. ThreadInv(t)'
      BY <1>1, <1>2, <1>5, <1>6 DEF ThreadInv, cell
    <2>2. ASSUME NEW u \in Threads \ {t} PROVE ThreadInv(u)'
      <3>1. ThreadInv(u) /\ pos[u] \in Nat
        BY DEF ThreadsInv, TypeOK
      <3> QED
        BY <1>1, <1>2, <1>5, <1>6, <1>11, <3>1 DEF ThreadInv, cell, counter, turn
    <2> QED
      BY <2>1, <2>2 DEF ThreadsInv
  <1>13. OwnersInv'
    <2>1. \A u \in Threads : Producing(u) => pos[u] \in Nat /\ pos[u] < e
      BY OwnerFacts DEF Owns, Producing
    <2> QED
      BY <1>1, <1>2, <1>6, <2>1 DEF OwnersInv
  <1>14. GetsItsElement'
    BY <1>1, <1>5 DEF GetsItsElement
  <1> QED
    BY <1>7, <1>8, <1>9, <1>10, <1>12, <1>13, <1>14

\* A pop wins its position: the filled cell is being emptied.
LEMMA CasPopStep ==
  ASSUME IInv, NEW t \in Threads, CasPop(t)
  PROVE  IInv'
  <1> USE NAssumption DEF IInv
  <1> DEFINE d == dequeue_pos
  <1>1. /\ pc[t] = "cas" /\ op[t] \in Pops /\ pos[t] = d /\ dequeue_pos' = d + 1
        /\ pc' = [pc EXCEPT ![t] = "take"]
        /\ due' = [due EXCEPT ![t] = data[cell(t)]] /\ out' = data[cell(t)]
        /\ UNCHANGED <<sequence, data, enqueue_pos, op, pos, val, begun>>
    BY DEF CasPop, Goto
  <1>2. /\ d \in Nat /\ enqueue_pos \in Nat /\ d <= enqueue_pos /\ enqueue_pos <= d + N
        /\ sequence[CellOf(d)] = d + 1 /\ cell(t) = CellOf(d)
        /\ pc[t] \notin {"write", "publish", "take", "release"} /\ op[t] \notin Pushes
    BY <1>1 DEF TypeOK, Window, ThreadsInv, ThreadInv, counter, turn, cell, Pops, Pushes
  <1>3. d < enqueue_pos
    BY <1>2, Winnable
  <1>4. /\ pc'[t] = "take" /\ due'[t] = data[cell(t)]
        /\ \A u \in Threads \ {t} : pc'[u] = pc[u] /\ due'[u] = due[u]
    BY <1>1 DEF TypeOK
  <1>5. /\ Consuming(t)' /\ ~ Producing(t)' /\ ~ Producing(t) /\ ~ Consuming(t)
        /\ \A u \in Threads \ {t} : /\ Producing(u)' <=> Producing(u)
                                    /\ Consuming(u)' <=> Consuming(u)
    BY <1>2, <1>4 DEF Producing, Consuming
  <1>6. data[cell(t)] \in Value \cup {NoValue}
    BY <1>2, CellType DEF TypeOK
  <1>7. TypeOK'
    <2>1. Knows(t, d + 1) /\ d + 1 \in Int /\ seen \in [Threads -> Nat]
      BY <1>1, <1>2 DEF CasPop, TypeOK
    <2>2. seen' \in [Threads -> Nat]
      BY <2>1, KnowsType
    <2>3. pc' \in [Threads -> Labels] /\ dequeue_pos' \in Nat
      BY <1>1, <1>2 DEF TypeOK, Labels
    <2>4. due' \in [Threads -> Value \cup {NoValue}] /\ out' \in Value \cup {NoValue}
      BY <1>1, <1>6 DEF TypeOK
    <2>5. UNCHANGED <<sequence, data, enqueue_pos, op, pos, val, begun>>
      BY <1>1
    <2> QED
      BY <2>2, <2>3, <2>4, <2>5 DEF TypeOK
  <1>8. Window'
    BY <1>1, <1>2, <1>3 DEF Window
  <1>9. CellsInv'
    <2> SUFFICES ASSUME NEW q \in enqueue_pos .. enqueue_pos + N - 1
                 PROVE  \/ sequence[CellOf(q)] = q /\ q - N < d + 1
                        \/ /\ sequence[CellOf(q)] = q - N + 1 /\ q - N >= d + 1
                           /\ data[CellOf(q)] \in Value
                        \/ /\ sequence[CellOf(q)] = q - N + 1 /\ q - N < d + 1
                           /\ \E u \in Threads : Consuming(u)' /\ pos[u] = q - N
                        \/ /\ sequence[CellOf(q)] = q - N /\ q - N >= d + 1
                           /\ \E u \in Threads : Producing(u)' /\ pos[u] = q - N
      BY <1>1, <1>2 DEF CellsInv
    <2>1. q \in Nat /\ (q - N = d => CellOf(q) = CellOf(d))
      <3>1. q \in Nat /\ (q - N = d => q = d + N)
        BY <1>2
      <3>2. CellOf(d + N) = CellOf(d)
        BY <1>2, NextLap
      <3> QED
        BY <3>1, <3>2
    <2>2. CASE q - N = d
      BY <1>1, <1>2, <1>5, <2>1, <2>2
    <2>3. CASE q - N # d
      BY <1>2, <1>5, <2>1, <2>3 DEF CellsInv
    <2> QED
      BY <2>2, <2>3
  <1>10. SequencesInv'
    BY <1>1, <1>2 DEF SequencesInv
  <1>11. ASSUME NEW u \in Threads, Producing(u) PROVE d + 1 <= pos[u]
    <2>1. pos[u] \in Nat /\ sequence[cell(u)] = pos[u] /\ d <= pos[u]
      BY <1>11, OwnerFacts DEF Owns, Producing
    <2> QED
      BY <1>2, <2>1 DEF cell
  <1>12. ThreadsInv'
    <2>1. ThreadInv(t)'
      BY <1>1, <1>2, <1>4, <1>5 DEF ThreadInv, cell
    <2>2. ASSUME NEW u \in Threads \ {t} PROVE ThreadInv(u)'
      <3>1. ThreadInv(u) /\ pos[u] \in Nat
        BY DEF ThreadsInv, TypeOK
      <3> QED
        BY <1>1, <1>2, <1>4, <1>5, <1>11, <3>1 DEF ThreadInv, cell, counter, turn
    <2> QED
      BY <2>1, <2>2 DEF ThreadsInv
  <1>13. OwnersInv'
    <2>1. \A u \in Threads : Consuming(u) => pos[u] \in Nat /\ pos[u] < d
      BY OwnerFacts DEF Owns, Consuming
    <2> QED
      BY <1>1, <1>2, <1>5, <2>1 DEF OwnersInv
  <1>14. GetsItsElement'
    BY <1>1, <1>4 DEF GetsItsElement
  <1> QED
    BY <1>7, <1>8, <1>9, <1>10, <1>12, <1>13, <1>14

\* The owner of a cell writes its data.
LEMMA WriteDataStep ==
  ASSUME IInv, NEW t \in Threads, WriteData(t)
  PROVE  IInv'
  <1> USE NAssumption DEF IInv
  <1> DEFINE c == cell(t)
  <1>1. /\ pc[t] = "write" /\ pc' = [pc EXCEPT ![t] = "publish"]
        /\ data' = [data EXCEPT ![c] = val[t]]
        /\ UNCHANGED <<sequence, enqueue_pos, dequeue_pos, op, pos, val, seen, due, out, begun>>
    BY DEF WriteData, Goto, history
  <1>2. Owns(t) /\ Producing(t) /\ ~ Consuming(t) /\ c \in Cells /\ val[t] \in Value
    BY <1>1, OwnerFacts DEF Owns, Producing, Consuming
  <1>3. \A u \in Threads \ {t} : Owns(u) => cell(u) # c
    BY <1>2, OneOwner
  <1> HIDE DEF c
  <1>4. /\ pc'[t] = "publish" /\ \A u \in Threads \ {t} : pc'[u] = pc[u]
        /\ data'[c] = val[t] /\ \A i \in Cells \ {c} : data'[i] = data[i]
    BY <1>1, <1>2 DEF TypeOK
  <1>5. \A u \in Threads : (Producing(u)' <=> Producing(u)) /\ (Consuming(u)' <=> Consuming(u))
    BY <1>1, <1>4 DEF Producing, Consuming
  <1>6. TypeOK'
    BY <1>1, <1>2 DEF TypeOK, Labels
  <1>7. Window' /\ SequencesInv'
    BY <1>1 DEF Window, SequencesInv
  <1>8. CellsInv'
    <2>1. \A q \in enqueue_pos .. enqueue_pos + N - 1 :
            data[CellOf(q)] \in Value => data'[CellOf(q)] \in Value
      BY <1>2, <1>4, CellType DEF TypeOK
    <2> QED
      BY <1>1, <1>5, <2>1 DEF CellsInv
  <1>9. ThreadsInv'
    <2>1. ThreadInv(t)'
      BY <1>1, <1>2, <1>4, <1>5 DEF ThreadInv, ThreadsInv, cell, c
    <2>2. ASSUME NEW u \in Threads \ {t} PROVE ThreadInv(u)'
      <3>1. ThreadInv(u) /\ cell(u) \in Cells
        BY CellType DEF ThreadsInv, TypeOK, cell
      <3>2. pc[u] \in {"publish", "take"} => data'[cell(u)] = data[cell(u)]
        BY <1>3, <1>4, <3>1 DEF Owns
      <3> QED
        BY <1>1, <1>4, <1>5, <3>1, <3>2 DEF ThreadInv, cell, counter, turn
    <2> QED
      BY <2>1, <2>2 DEF ThreadsInv
  <1>10. OwnersInv'
    BY <1>1, <1>5 DEF OwnersInv
  <1>11. GetsItsElement'
    BY <1>1, <1>4 DEF GetsItsElement
  <1> QED
    BY <1>6, <1>7, <1>8, <1>9, <1>10, <1>11

\* The owner of a cell moves its data out.
LEMMA TakeDataStep ==
  ASSUME IInv, NEW t \in Threads, TakeData(t)
  PROVE  IInv'
  <1> USE NAssumption DEF IInv
  <1> DEFINE c == cell(t)
  <1>1. /\ pc[t] = "take" /\ pc' = [pc EXCEPT ![t] = "release"]
        /\ val' = [val EXCEPT ![t] = data[c]]
        /\ data' = [data EXCEPT ![c] = NoValue]
        /\ UNCHANGED <<sequence, enqueue_pos, dequeue_pos, op, pos, seen, due, out, begun>>
    BY DEF TakeData, Goto, history
  <1>2. /\ Owns(t) /\ Consuming(t) /\ ~ Producing(t) /\ c \in Cells
        /\ pos[t] \in Nat /\ pos[t] < dequeue_pos /\ op[t] \in Pops
        /\ \A q \in enqueue_pos .. enqueue_pos + N - 1 : CellOf(q) = c => q = pos[t] + N
    BY <1>1, OwnerFacts DEF Owns, Producing, Consuming, ThreadsInv, ThreadInv
  <1>3. \A u \in Threads \ {t} : Owns(u) => cell(u) # c
    BY <1>2, OneOwner
  <1>4. data[c] = due[t] /\ data[c] \in Value \cup {NoValue}
    BY <1>1, <1>2 DEF ThreadsInv, ThreadInv, TypeOK
  <1> HIDE DEF c
  <1>5. /\ pc'[t] = "release" /\ val'[t] = data[c]
        /\ \A u \in Threads \ {t} : pc'[u] = pc[u] /\ val'[u] = val[u]
        /\ \A i \in Cells \ {c} : data'[i] = data[i]
    BY <1>1, <1>2 DEF TypeOK
  <1>6. \A u \in Threads : (Producing(u)' <=> Producing(u)) /\ (Consuming(u)' <=> Consuming(u))
    BY <1>1, <1>5 DEF Producing, Consuming
  <1>7. TypeOK'
    BY <1>1, <1>2, <1>4 DEF TypeOK, Labels
  <1>8. Window' /\ SequencesInv'
    BY <1>1 DEF Window, SequencesInv
  <1>9. CellsInv'
    <2>1. \A q \in enqueue_pos .. enqueue_pos + N - 1 :
            q - N >= dequeue_pos => data'[CellOf(q)] = data[CellOf(q)]
      <3> SUFFICES ASSUME NEW q \in enqueue_pos .. enqueue_pos + N - 1, q - N >= dequeue_pos
                   PROVE  data'[CellOf(q)] = data[CellOf(q)]
        OBVIOUS
      <3>1. q \in Nat /\ dequeue_pos \in Nat
        BY DEF TypeOK
      <3>2. CellOf(q) \in Cells /\ CellOf(q) # c
        BY <1>2, <3>1, CellType
      <3> QED
        BY <1>5, <3>2
    <2> QED
      BY <1>1, <1>6, <2>1 DEF CellsInv
  <1>10. ThreadsInv'
    <2>1. ThreadInv(t)'
      BY <1>1, <1>2, <1>5, <1>6 DEF ThreadInv, ThreadsInv, cell, c, Pushes, Pops
    <2>2. ASSUME NEW u \in Threads \ {t} PROVE ThreadInv(u)'
      <3>1. ThreadInv(u) /\ cell(u) \in Cells
        BY CellType DEF ThreadsInv, TypeOK, cell
      <3>2. pc[u] \in {"publish", "take"} => data'[cell(u)] = data[cell(u)]
        BY <1>3, <1>5, <3>1 DEF Owns
      <3> QED
        BY <1>1, <1>5, <1>6, <3>1, <3>2 DEF ThreadInv, cell, counter, turn
    <2> QED
      BY <2>1, <2>2 DEF ThreadsInv
  <1>11. OwnersInv'
    BY <1>1, <1>6 DEF OwnersInv
  <1>12. GetsItsElement'
    BY <1>1, <1>4, <1>5 DEF GetsItsElement
  <1> QED
    BY <1>7, <1>8, <1>9, <1>10, <1>11, <1>12

\* What the two stores of a sequence have in common: the owner gives up its
\* cell, and a thread at its compare-exchange does not compete for that cell.
LEMMA StoreFacts ==
  ASSUME IInv, NEW t \in Threads, Owns(t), NEW u \in Threads \ {t}, NEW n,
         sequence' = [sequence EXCEPT ![cell(t)] = n]
  PROVE  /\ Owns(u) => sequence'[cell(u)] = sequence[cell(u)]
         /\ pc[u] = "cas" /\ pos[u] = counter(u) => sequence'[cell(u)] = sequence[cell(u)]
  <1> USE NAssumption DEF IInv
  <1>1. /\ pos[t] \in Nat /\ cell(t) \in Cells /\ (Producing(t) \/ Consuming(t))
        /\ Producing(t) => /\ sequence[cell(t)] = pos[t]
                           /\ dequeue_pos <= pos[t] /\ pos[t] < enqueue_pos
        /\ Consuming(t) => /\ sequence[cell(t)] = pos[t] + 1
                           /\ enqueue_pos <= pos[t] + N /\ pos[t] < dequeue_pos
    BY OwnerFacts
  <1>2. \A i \in Cells \ {cell(t)} : sequence'[i] = sequence[i]
    BY DEF TypeOK
  <1>3. cell(u) \in Cells /\ pos[u] \in Nat /\ enqueue_pos \in Nat /\ dequeue_pos \in Nat
    BY CellType DEF TypeOK, cell
  <1>4. Owns(u) => cell(u) # cell(t)
    BY OneOwner
  <1>5. ASSUME pc[u] = "cas", pos[u] = counter(u) PROVE cell(u) # cell(t)
    <2> SUFFICES ASSUME cell(u) = cell(t) PROVE FALSE
      OBVIOUS
    <2>1. /\ sequence[cell(t)] = turn(u)
          /\ \/ pos[u] = enqueue_pos /\ turn(u) = pos[u]
             \/ pos[u] = dequeue_pos /\ turn(u) = pos[u] + 1
      BY <1>5 DEF ThreadsInv, ThreadInv, counter, turn
    <2>2. CASE pos[u] = enqueue_pos /\ turn(u) = pos[u]
      <3>1. pos[u] = pos[t] + 1
        BY <1>1, <1>3, <2>1, <2>2
      <3> QED
        BY <1>1, <3>1, NextCell DEF cell
    <2>3. CASE pos[u] = dequeue_pos /\ turn(u) = pos[u] + 1
      <3>1. pos[t] = pos[u] + 1
        BY <1>1, <1>3, <2>1, <2>3
      <3> QED
        BY <1>3, <3>1, NextCell DEF cell
    <2> QED
      BY <2>1, <2>2, <2>3
  <1> QED
    BY <1>2, <1>3, <1>4, <1>5

\* The producer's store of the sequence: the cell is filled.
LEMMA PublishStep ==
  ASSUME IInv, NEW t \in Threads, Publish(t)
  PROVE  IInv'
  <1> USE NAssumption DEF IInv
  <1> DEFINE c == cell(t)
             p == pos[t]
  <1>1. /\ pc[t] = "publish" /\ pc' = [pc EXCEPT ![t] = "idle"]
        /\ sequence' = [sequence EXCEPT ![c] = p + 1]
        /\ op' = [op EXCEPT ![t] = "none"] /\ val' = [val EXCEPT ![t] = NoValue]
        /\ pos' = [pos EXCEPT ![t] = 0]
        /\ UNCHANGED <<data, enqueue_pos, dequeue_pos, seen, due, out, begun>>
    BY DEF Publish, Return, Goto, history
  <1>2. /\ Owns(t) /\ c \in Cells /\ p \in Nat /\ sequence[c] = p
        /\ dequeue_pos <= p /\ p < enqueue_pos /\ val[t] \in Value
        /\ \A q \in enqueue_pos .. enqueue_pos + N - 1 : CellOf(q) = c => q = p + N
    BY <1>1, OwnerFacts DEF Owns, Producing, Consuming
  <1>3. data[c] \in Value
    BY <1>1, <1>2 DEF ThreadsInv, ThreadInv
  <1>4. \A u \in Threads \ {t} :
          /\ Owns(u) => sequence'[cell(u)] = sequence[cell(u)]
          /\ pc[u] = "cas" /\ pos[u] = counter(u) => sequence'[cell(u)] = sequence[cell(u)]
    BY <1>1, <1>2, StoreFacts
  <1>5. CellOf(p + N) = c
    BY <1>2, NextLap DEF cell
  <1> HIDE DEF c, p
  <1>6. /\ pc'[t] = "idle" /\ op'[t] = "none"
        /\ \A u \in Threads \ {t} :
             pc'[u] = pc[u] /\ op'[u] = op[u] /\ val'[u] = val[u] /\ pos'[u] = pos[u]
        /\ sequence'[c] = p + 1 /\ \A i \in Cells \ {c} : sequence'[i] = sequence[i]
    BY <1>1, <1>2 DEF TypeOK
  <1>7. /\ ~ Producing(t)' /\ ~ Consuming(t)' /\ ~ Consuming(t)
        /\ \A u \in Threads \ {t} : /\ Producing(u)' <=> Producing(u)
                                    /\ Consuming(u)' <=> Consuming(u)
    BY <1>1, <1>6 DEF Producing, Consuming
  <1>8. TypeOK'
    BY <1>1, <1>2 DEF TypeOK, Labels
  <1>9. Window'
    BY <1>1 DEF Window
  <1>10. CellsInv'
    <2> SUFFICES ASSUME NEW q \in enqueue_pos .. enqueue_pos + N - 1
                 PROVE  \/ sequence'[CellOf(q)] = q /\ q - N < dequeue_pos
                        \/ /\ sequence'[CellOf(q)] = q - N + 1 /\ q - N >= dequeue_pos
                           /\ data[CellOf(q)] \in Value
                        \/ /\ sequence'[CellOf(q)] = q - N + 1 /\ q - N < dequeue_pos
                           /\ \E u \in Threads : Consuming(u)' /\ pos'[u] = q - N
                        \/ /\ sequence'[CellOf(q)] = q - N /\ q - N >= dequeue_pos
                           /\ \E u \in Threads : Producing(u)' /\ pos'[u] = q - N
      BY <1>1 DEF CellsInv
    <2>1. CASE CellOf(q) = c
      BY <1>2, <1>3, <1>6, <2>1
    <2>2. CASE CellOf(q) # c
      <3>1. CellOf(q) \in Cells
        BY CellType DEF TypeOK
      <3>2. p # q - N
        BY <1>2, <1>5, <2>2
      <3>3. sequence'[CellOf(q)] = sequence[CellOf(q)]
        BY <1>6, <2>2, <3>1
      <3>4. \A u \in Threads : pos[u] = q - N => u # t /\ pos'[u] = q - N
        BY <1>6, <3>2 DEF p
      <3> QED
        BY <1>7, <3>3, <3>4 DEF CellsInv
    <2> QED
      BY <2>1, <2>2
  <1>11. SequencesInv'
    <2>1. \A i \in Cells : sequence'[i] >= sequence[i]
      BY <1>2, <1>6 DEF TypeOK
    <2>2. \A i \in Cells : sequence'[i] \in Nat /\ sequence[i] \in Nat
      BY <1>8 DEF TypeOK
    <2> QED
      BY <1>1, <2>1, <2>2, CellType DEF SequencesInv, TypeOK
  <1>12. ThreadsInv'
    <2>1. ThreadInv(t)'
      BY <1>6, <1>7 DEF ThreadInv, Pushes
    <2>2. ASSUME NEW u \in Threads \ {t} PROVE ThreadInv(u)'
      <3>1. ThreadInv(u)
        BY DEF ThreadsInv
      <3> QED
        BY <1>1, <1>4, <1>6, <1>7, <3>1
           DEF ThreadInv, cell, counter, turn, Owns, Producing, Consuming
    <2> QED
      BY <2>1, <2>2 DEF ThreadsInv
  <1>13. OwnersInv'
    BY <1>6, <1>7 DEF OwnersInv
  <1>14. GetsItsElement'
    BY <1>1, <1>6 DEF GetsItsElement
  <1> QED
    BY <1>8, <1>9, <1>10, <1>11, <1>12, <1>13, <1>14

\* The consumer's store of the sequence: the cell is free for the next lap.
LEMMA ReleaseStep ==
  ASSUME IInv, NEW t \in Threads, Release(t)
  PROVE  IInv'
  <1> USE NAssumption DEF IInv
  <1> DEFINE c == cell(t)
             p == pos[t]
  <1>1. /\ pc[t] = "release" /\ pc' = [pc EXCEPT ![t] = "idle"]
        /\ sequence' = [sequence EXCEPT ![c] = p + N]
        /\ due' = [due EXCEPT ![t] = NoValue]
        /\ op' = [op EXCEPT ![t] = "none"] /\ val' = [val EXCEPT ![t] = NoValue]
        /\ pos' = [pos EXCEPT ![t] = 0]
        /\ UNCHANGED <<data, enqueue_pos, dequeue_pos, seen, out, begun>>
    BY DEF Release, Return, Goto
  <1>2. /\ Owns(t) /\ c \in Cells /\ p \in Nat /\ sequence[c] = p + 1
        /\ enqueue_pos <= p + N /\ p < dequeue_pos
        /\ \A q \in enqueue_pos .. enqueue_pos + N - 1 : CellOf(q) = c => q = p + N
    BY <1>1, OwnerFacts DEF Owns, Producing, Consuming
  <1>3. \A u \in Threads \ {t} :
          /\ Owns(u) => sequence'[cell(u)] = sequence[cell(u)]
          /\ pc[u] = "cas" /\ pos[u] = counter(u) => sequence'[cell(u)] = sequence[cell(u)]
    BY <1>1, <1>2, StoreFacts
  <1>4. CellOf(p + N) = c
    BY <1>2, NextLap DEF cell
  <1> HIDE DEF c, p
  <1>5. /\ pc'[t] = "idle" /\ op'[t] = "none"
        /\ \A u \in Threads \ {t} :
             /\ pc'[u] = pc[u] /\ op'[u] = op[u] /\ val'[u] = val[u] /\ pos'[u] = pos[u]
             /\ due'[u] = due[u]
        /\ sequence'[c] = p + N /\ \A i \in Cells \ {c} : sequence'[i] = sequence[i]
    BY <1>1, <1>2 DEF TypeOK
  <1>6. /\ ~ Producing(t)' /\ ~ Consuming(t)' /\ ~ Producing(t)
        /\ \A u \in Threads \ {t} : /\ Producing(u)' <=> Producing(u)
                                    /\ Consuming(u)' <=> Consuming(u)
    BY <1>1, <1>5 DEF Producing, Consuming
  <1>7. TypeOK'
    BY <1>1, <1>2 DEF TypeOK, Labels
  <1>8. Window'
    BY <1>1 DEF Window
  <1>9. CellsInv'
    <2> SUFFICES ASSUME NEW q \in enqueue_pos .. enqueue_pos + N - 1
                 PROVE  \/ sequence'[CellOf(q)] = q /\ q - N < dequeue_pos
                        \/ /\ sequence'[CellOf(q)] = q - N + 1 /\ q - N >= dequeue_pos
                           /\ data[CellOf(q)] \in Value
                        \/ /\ sequence'[CellOf(q)] = q - N + 1 /\ q - N < dequeue_pos
                           /\ \E u \in Threads : Consuming(u)' /\ pos'[u] = q - N
                        \/ /\ sequence'[CellOf(q)] = q - N /\ q - N >= dequeue_pos
                           /\ \E u \in Threads : Producing(u)' /\ pos'[u] = q - N
      BY <1>1 DEF CellsInv
    <2>1. CASE CellOf(q) = c
      BY <1>2, <1>5, <2>1
    <2>2. CASE CellOf(q) # c
      <3>1. CellOf(q) \in Cells
        BY CellType DEF TypeOK
      <3>2. p # q - N
        BY <1>2, <1>4, <2>2
      <3>3. sequence'[CellOf(q)] = sequence[CellOf(q)]
        BY <1>5, <2>2, <3>1
      <3>4. \A u \in Threads : pos[u] = q - N => u # t /\ pos'[u] = q - N
        BY <1>5, <3>2 DEF p
      <3> QED
        BY <1>6, <3>3, <3>4 DEF CellsInv
    <2> QED
      BY <2>1, <2>2
  <1>10. SequencesInv'
    <2>1. \A i \in Cells : sequence'[i] >= sequence[i]
      BY <1>2, <1>5 DEF TypeOK
    <2>2. \A i \in Cells : sequence'[i] \in Nat /\ sequence[i] \in Nat
      BY <1>7 DEF TypeOK
    <2> QED
      BY <1>1, <2>1, <2>2, CellType DEF SequencesInv, TypeOK
  <1>11. ThreadsInv'
    <2>1. ThreadInv(t)'
      BY <1>5, <1>6 DEF ThreadInv, Pushes
    <2>2. ASSUME NEW u \in Threads \ {t} PROVE ThreadInv(u)'
      <3>1. ThreadInv(u)
        BY DEF ThreadsInv
      <3> QED
        BY <1>1, <1>3, <1>5, <1>6, <3>1
           DEF ThreadInv, cell, counter, turn, Owns, Producing, Consuming
    <2> QED
      BY <2>1, <2>2 DEF ThreadsInv
  <1>12. OwnersInv'
    BY <1>5, <1>6 DEF OwnersInv
  <1>13. GetsItsElement'
    BY <1>5 DEF GetsItsElement
  <1> QED
    BY <1>7, <1>8, <1>9, <1>10, <1>11, <1>12, <1>13

LEMMA CallStep ==
  ASSUME IInv, NEW t \in Threads, CallPush(t) \/ CallPop(t) \/ CallSize(t)
  PROVE  IInv'
  <1> USE DEF IInv
  <1>1. PICK o \in Pushes \cup Pops \cup {"size"}, v \in Value \cup {NoValue} :
          (o \in Pushes => v \in Value) /\ Call(t, o, v)
    BY DEF CallPush, CallPop, CallSize, Pushes, Pops
  <1>2. /\ pc[t] = "idle" /\ pc' = [pc EXCEPT ![t] = "load"]
        /\ op' = [op EXCEPT ![t] = o] /\ val' = [val EXCEPT ![t] = v]
        /\ UNCHANGED <<sequence, data, enqueue_pos, dequeue_pos, pos, seen, due, out, begun>>
    BY <1>1 DEF Call, Goto, history
  <1>3. TypeOK'
    BY <1>1, <1>2 DEF TypeOK, Labels
  <1>4. /\ pc'[t] = "load" /\ op'[t] = o /\ val'[t] = v
        /\ \A u \in Threads \ {t} : pc'[u] = pc[u] /\ op'[u] = op[u] /\ val'[u] = val[u]
    BY <1>2 DEF TypeOK
  <1>5. LocalTo(t)
    BY <1>2, <1>4 DEF LocalTo, Owns
  <1>6. ThreadInv(t)'
    BY <1>1, <1>4 DEF ThreadInv, Producing, Consuming
  <1> QED
    BY <1>3, <1>5, <1>6, LocalStep

LEMMA LoadPosStep ==
  ASSUME IInv, NEW t \in Threads, LoadPos(t)
  PROVE  IInv'
  <1> USE DEF IInv
  <1> DEFINE next == IF op[t] = "size" THEN "load_pop_idx" ELSE "load_seq"
  <1>1. /\ pc[t] = "load" /\ pc' = [pc EXCEPT ![t] = next]
        /\ pos' = [pos EXCEPT ![t] = counter(t)]
        /\ UNCHANGED <<sequence, data, enqueue_pos, dequeue_pos, op, val, seen, due, out>>
        /\ begun' = begun \/ begun' = [begun EXCEPT ![t] = dequeue_pos]
    BY DEF LoadPos, Goto, history
  <1>2. counter(t) \in Nat
    BY DEF TypeOK, counter
  <1>3. TypeOK'
    BY <1>1, <1>2 DEF TypeOK, Labels
  <1>4. /\ pc'[t] = next /\ pos'[t] = counter(t)
        /\ \A u \in Threads \ {t} : pc'[u] = pc[u] /\ pos'[u] = pos[u]
    BY <1>1 DEF TypeOK
  <1>5. LocalTo(t)
    BY <1>1, <1>4 DEF LocalTo, Owns
  <1>6. ThreadInv(t)'
    <2>1. ThreadInv(t) /\ enqueue_pos \in Nat /\ dequeue_pos \in Nat
      BY DEF ThreadsInv, TypeOK
    <2> QED
      BY <1>1, <1>4, <2>1 DEF ThreadInv, Producing, Consuming, counter, Pops, Pushes
  <1> QED
    BY <1>3, <1>5, <1>6, LocalStep

LEMMA CasFailsStep ==
  ASSUME IInv, NEW t \in Threads, CasFails(t)
  PROVE  IInv'
  <1> USE DEF IInv
  <1>1. /\ pc[t] = "cas" /\ pc' = [pc EXCEPT ![t] = "load_seq"]
        /\ pos' = [pos EXCEPT ![t] = counter(t)]
        /\ UNCHANGED <<sequence, data, enqueue_pos, dequeue_pos, op, val, seen, due, out, begun>>
    BY DEF CasFails, Goto, history
  <1>2. counter(t) \in Nat
    BY DEF TypeOK, counter
  <1>3. TypeOK'
    BY <1>1, <1>2 DEF TypeOK, Labels
  <1>4. /\ pc'[t] = "load_seq" /\ pos'[t] = counter(t)
        /\ \A u \in Threads \ {t} : pc'[u] = pc[u] /\ pos'[u] = pos[u]
    BY <1>1 DEF TypeOK
  <1>5. LocalTo(t)
    BY <1>1, <1>4 DEF LocalTo, Owns
  <1>6. ThreadInv(t)'
    <2>1. ThreadInv(t) /\ enqueue_pos \in Nat /\ dequeue_pos \in Nat
      BY DEF ThreadsInv, TypeOK
    <2> QED
      BY <1>1, <1>4, <2>1 DEF ThreadInv, Producing, Consuming, counter
  <1> QED
    BY <1>3, <1>5, <1>6, LocalStep

LEMMA LoadSeqStep ==
  ASSUME IInv, NEW t \in Threads, LoadSeq(t)
  PROVE  IInv'
  <1> USE DEF IInv
  <1>1. /\ pc[t] = "load_seq" /\ sequence[cell(t)] \in Nat /\ turn(t) \in Nat
        /\ UNCHANGED <<sequence, data, enqueue_pos, dequeue_pos, seen, due, out, begun>>
    BY CellType DEF LoadSeq, history, TypeOK, cell, turn
  <1>2. ThreadInv(t)
    BY DEF ThreadsInv
  <1>3. CASE /\ UNCHANGED <<op, pos, val>>
             /\ \/ pc' = [pc EXCEPT ![t] = "load"]
                \/ sequence[cell(t)] = turn(t) /\ pc' = [pc EXCEPT ![t] = "cas"]
    <2>1. TypeOK'
      BY <1>1, <1>3 DEF TypeOK, Labels
    <2>2. /\ pc'[t] = "load" \/ (pc'[t] = "cas" /\ sequence[cell(t)] = turn(t))
          /\ \A u \in Threads \ {t} : pc'[u] = pc[u]
      BY <1>3 DEF TypeOK
    <2>3. LocalTo(t)
      BY <1>1, <1>3, <2>2 DEF LocalTo, Owns
    <2>4. ThreadInv(t)'
      BY <1>1, <1>2, <1>3, <2>2
         DEF ThreadInv, Producing, Consuming, cell, turn, counter
    <2> QED
      BY <2>1, <2>3, <2>4, LocalStep
  <1>4. CASE Return(t)
    <2>1. /\ pc' = [pc EXCEPT ![t] = "idle"] /\ op' = [op EXCEPT ![t] = "none"]
          /\ val' = [val EXCEPT ![t] = NoValue] /\ pos' = [pos EXCEPT ![t] = 0]
      BY <1>4 DEF Return, Goto
    <2>2. TypeOK'
      BY <1>1, <2>1 DEF TypeOK, Labels
    <2>3. /\ pc'[t] = "idle" /\ op'[t] = "none"
          /\ \A u \in Threads \ {t} :
               pc'[u] = pc[u] /\ op'[u] = op[u] /\ pos'[u] = pos[u] /\ val'[u] = val[u]
      BY <2>1 DEF TypeOK
    <2>4. LocalTo(t) /\ ThreadInv(t)'
      BY <1>1, <2>3 DEF LocalTo, Owns, ThreadInv, Producing, Consuming, Pushes
    <2> QED
      BY <2>2, <2>4, LocalStep
  <1>5. \/ Return(t)
        \/ /\ UNCHANGED <<op, pos, val>>
           /\ \/ pc' = [pc EXCEPT ![t] = "load"]
              \/ sequence[cell(t)] = turn(t) /\ pc' = [pc EXCEPT ![t] = "cas"]
    BY <1>1 DEF LoadSeq, Goto
  <1> QED
    BY <1>3, <1>4, <1>5

LEMMA SizeResultStep ==
  ASSUME IInv, NEW t \in Threads, SizeResult(t)
  PROVE  IInv'
  <1> USE DEF IInv
  <1>1. PICK pop_idx \in seen[t] .. dequeue_pos :
          /\ pos' = [pos EXCEPT ![t] = IF pos[t] > pop_idx THEN pos[t] - pop_idx ELSE 0]
          /\ Knows(t, pop_idx)
    BY DEF SizeResult
  <1>2. /\ pc[t] = "load_pop_idx" /\ pc' = [pc EXCEPT ![t] = "sized"]
        /\ UNCHANGED <<sequence, data, enqueue_pos, dequeue_pos, op, val, due, out, begun>>
    BY DEF SizeResult, Goto, history
  <1>3. pos[t] \in Nat /\ pop_idx \in Int
    BY DEF TypeOK
  <1>4. pos' \in [Threads -> Nat] /\ seen' \in [Threads -> Nat]
    BY <1>1, <1>3, KnowsType DEF TypeOK
  <1>5. TypeOK'
    BY <1>2, <1>4 DEF TypeOK, Labels
  <1>6. pc'[t] = "sized" /\ \A u \in Threads \ {t} : pc'[u] = pc[u] /\ pos'[u] = pos[u]
    BY <1>1, <1>2 DEF TypeOK
  <1>7. LocalTo(t)
    BY <1>2, <1>6 DEF LocalTo, Owns
  <1>8. ThreadInv(t)'
    BY <1>2, <1>6 DEF ThreadsInv, ThreadInv, Producing, Consuming
  <1> QED
    BY <1>5, <1>7, <1>8, LocalStep

LEMMA SizeReturnStep ==
  ASSUME IInv, NEW t \in Threads, SizeReturn(t)
  PROVE  IInv'
  <1> USE DEF IInv
  <1>1. /\ pc[t] = "sized" /\ pc' = [pc EXCEPT ![t] = "idle"]
        /\ op' = [op EXCEPT ![t] = "none"] /\ begun' = [begun EXCEPT ![t] = 0]
        /\ val' = [val EXCEPT ![t] = NoValue] /\ pos' = [pos EXCEPT ![t] = 0]
        /\ UNCHANGED <<sequence, data, enqueue_pos, dequeue_pos, seen, due, out>>
    BY DEF SizeReturn, Return, Goto
  <1>2. TypeOK'
    BY <1>1 DEF TypeOK, Labels
  <1>3. /\ pc'[t] = "idle" /\ op'[t] = "none"
        /\ \A u \in Threads \ {t} :
             pc'[u] = pc[u] /\ op'[u] = op[u] /\ pos'[u] = pos[u] /\ val'[u] = val[u]
    BY <1>1 DEF TypeOK
  <1>4. LocalTo(t) /\ ThreadInv(t)'
    BY <1>1, <1>3 DEF LocalTo, Owns, ThreadInv, Producing, Consuming, Pushes
  <1> QED
    BY <1>2, <1>4, LocalStep

LEMMA StutterStep ==
  ASSUME IInv, UNCHANGED vars
  PROVE  IInv'
  BY DEF vars, local, history, IInv, TypeOK, Window, CellsInv, SequencesInv, ThreadsInv,
         ThreadInv, OwnersInv, GetsItsElement, Producing, Consuming, cell, counter, turn

LEMMA StepInv == IInv /\ [Next]_vars => IInv'
  <1> SUFFICES ASSUME IInv, [Next]_vars PROVE IInv'
    OBVIOUS
  <1>1. ASSUME NEW t \in Threads, CallPush(t) \/ CallPop(t) \/ CallSize(t) PROVE IInv'
    BY <1>1, CallStep
  <1>2. ASSUME NEW t \in Threads, Step(t) PROVE IInv'
    BY <1>2, LoadPosStep, LoadSeqStep, CasPushStep, CasPopStep, CasFailsStep, WriteDataStep,
       PublishStep, TakeDataStep, ReleaseStep, SizeResultStep,
       SizeReturnStep DEF Step, CasWins
  <1> QED
    BY <1>1, <1>2, StutterStep DEF Next

-----------------------------------------------------------------------------
\* The ring's invariant holds in every reachable state, for every N.
THEOREM Invariance == Spec => []IInv
  BY InitInv, StepInv, PTL DEF Spec

\* Cells, positions and locals keep their types: of two positions loaded at
\* different times size() never makes a negative number.
THEOREM TypeCorrect == Spec => []TypeOK
  <1>1. IInv => TypeOK
    BY DEF IInv
  <1> QED
    BY <1>1, Invariance, PTL

\* No two threads own a cell at once, whatever happens while one sleeps in it.
THEOREM CellsAreSafe == Spec => []CellsAreOwnedByOne
  <1>1. IInv => CellsAreOwnedByOne
    BY OneOwner DEF CellsAreOwnedByOne
  <1> QED
    BY <1>1, Invariance, PTL

\* A pop hands out what its cell held when it won the position.
THEOREM PopsTheirElement == Spec => []GetsItsElement
  <1>1. IInv => GetsItsElement
    BY DEF IInv
  <1> QED
    BY <1>1, Invariance, PTL

-----------------------------------------------------------------------------
(***************************************************************************)
(* How far size() may be off: what the threads know of the pops.           *)
(***************************************************************************)
\* What thread t knows after a step is what it knew, or i.
LEMMA KnowsBound ==
  ASSUME seen \in [Threads -> Nat], NEW t \in Threads, NEW i \in Int, Knows(t, i)
  PROVE  /\ seen'[t] = seen[t] \/ seen'[t] = i
         /\ \A u \in Threads \ {t} : seen'[u] = seen[u]
  BY DEF Knows

\* The views are kept by a step of t after which t has a view of its own.
LEMMA ViewsKept ==
  ASSUME TypeOK, ViewsInv, NEW t \in Threads,
         dequeue_pos' \in Nat, dequeue_pos <= dequeue_pos',
         \A u \in Threads \ {t} :
           pc'[u] = pc[u] /\ pos'[u] = pos[u] /\ seen'[u] = seen[u] /\ begun'[u] = begun[u],
         seen'[t] \in Int, seen'[t] <= dequeue_pos',
         pc'[t] = "load_pop_idx" =>
           /\ seen'[t] <= begun'[t] /\ begun'[t] <= dequeue_pos'
           /\ pos'[t] <= begun'[t] + N
  PROVE  ViewsInv'
  <1>1. ASSUME NEW u \in Threads \ {t}
        PROVE  /\ seen'[u] <= dequeue_pos'
               /\ pc'[u] = "load_pop_idx" =>
                    /\ seen'[u] <= begun'[u] /\ begun'[u] <= dequeue_pos'
                    /\ pos'[u] <= begun'[u] + N
    <2>1. seen[u] \in Nat /\ begun[u] \in Nat /\ dequeue_pos \in Nat
      BY DEF TypeOK
    <2> QED
      BY <2>1 DEF ViewsInv
  <1> QED
    BY <1>1 DEF ViewsInv

LEMMA ViewsStep == IInv /\ ViewsInv /\ [Next]_vars => ViewsInv'
  <1> SUFFICES ASSUME IInv, ViewsInv, [Next]_vars PROVE ViewsInv'
    OBVIOUS
  <1>1. /\ TypeOK /\ enqueue_pos \in Nat /\ dequeue_pos \in Nat /\ N \in Nat \ {0, 1}
        /\ enqueue_pos <= dequeue_pos + N /\ seen \in [Threads -> Nat]
    BY NAssumption DEF IInv, TypeOK, Window
  <1>2. CASE UNCHANGED vars
    BY <1>2 DEF vars, local, history, ViewsInv
  <1>3. ASSUME NEW t \in Threads, CasPush(t) PROVE ViewsInv'
    <2>1. /\ pos[t] = enqueue_pos /\ dequeue_pos' = dequeue_pos /\ pos' = pos
          /\ begun' = begun /\ Knows(t, enqueue_pos - N + 1)
          /\ pc[t] = "cas" /\ op[t] \in Pushes
      BY <1>3 DEF CasPush, history
    <2>2. pc'[t] = "write" /\ \A u \in Threads \ {t} : pc'[u] = pc[u]
      BY <1>3 DEF CasPush, Goto, IInv, TypeOK
    <2>3. sequence[CellOf(enqueue_pos)] = enqueue_pos
      BY <2>1 DEF IInv, ThreadsInv, ThreadInv, counter, turn, cell, Pushes, Pops
    <2>4. enqueue_pos - N + 1 <= dequeue_pos /\ enqueue_pos - N + 1 \in Int
      BY <1>1, <2>3, Winnable
    <2>5. /\ seen'[t] = seen[t] \/ seen'[t] = enqueue_pos - N + 1
          /\ \A u \in Threads \ {t} : seen'[u] = seen[u]
      BY <1>1, <2>1, <2>4, KnowsBound
    <2>6. seen[t] \in Nat /\ seen[t] <= dequeue_pos
      BY <1>1 DEF ViewsInv
    <2> QED
      BY <1>1, <2>1, <2>2, <2>4, <2>5, <2>6, ViewsKept
  <1>4. ASSUME NEW t \in Threads, CasPop(t) PROVE ViewsInv'
    <2>1. /\ dequeue_pos' = dequeue_pos + 1 /\ pos' = pos
          /\ begun' = begun /\ Knows(t, dequeue_pos + 1)
      BY <1>4 DEF CasPop
    <2>2. pc'[t] = "take" /\ \A u \in Threads \ {t} : pc'[u] = pc[u]
      BY <1>4 DEF CasPop, Goto, IInv, TypeOK
    <2>3. /\ seen'[t] = seen[t] \/ seen'[t] = dequeue_pos + 1
          /\ \A u \in Threads \ {t} : seen'[u] = seen[u]
      BY <1>1, <2>1, KnowsBound
    <2>4. seen[t] \in Nat /\ seen[t] <= dequeue_pos
      BY <1>1 DEF ViewsInv
    <2> QED
      BY <1>1, <2>1, <2>2, <2>3, <2>4, ViewsKept
  <1>5. ASSUME NEW t \in Threads, LoadPos(t) PROVE ViewsInv'
    <2>1. /\ dequeue_pos' = dequeue_pos /\ seen' = seen
          /\ pos' = [pos EXCEPT ![t] = counter(t)]
      BY <1>5 DEF LoadPos
    <2>2. \A u \in Threads \ {t} : pc'[u] = pc[u] /\ pos'[u] = pos[u] /\ begun'[u] = begun[u]
      BY <1>5 DEF LoadPos, Goto, IInv, TypeOK
    <2>3. seen[t] \in Nat /\ seen[t] <= dequeue_pos
      BY <1>1 DEF ViewsInv
    <2>4. pc'[t] = "load_pop_idx" => begun'[t] = dequeue_pos /\ pos'[t] = enqueue_pos
      BY <1>5 DEF LoadPos, Goto, counter, Pops, IInv, TypeOK
    <2> QED
      BY <1>1, <2>1, <2>2, <2>3, <2>4, ViewsKept
  <1>6. ASSUME NEW t \in Threads, SizeResult(t) PROVE ViewsInv'
    <2>1. PICK pop_idx \in seen[t] .. dequeue_pos : Knows(t, pop_idx)
      BY <1>6 DEF SizeResult
    <2>2. /\ pc'[t] = "sized" /\ dequeue_pos' = dequeue_pos /\ begun' = begun
          /\ \A u \in Threads \ {t} : pc'[u] = pc[u] /\ pos'[u] = pos[u]
      BY <1>6 DEF SizeResult, Goto, history, IInv, TypeOK
    <2>3. seen[t] \in Nat /\ seen[t] <= dequeue_pos /\ pop_idx \in Int /\ pop_idx <= dequeue_pos
      BY <1>1, <2>1 DEF ViewsInv
    <2>4. /\ seen'[t] = seen[t] \/ seen'[t] = pop_idx
          /\ \A u \in Threads \ {t} : seen'[u] = seen[u]
      BY <1>1, <2>1, <2>3, KnowsBound
    <2> QED
      BY <1>1, <2>2, <2>3, <2>4, ViewsKept
  <1>7. ASSUME NEW t \in Threads,
               \/ CallPush(t) \/ CallPop(t) \/ CallSize(t) \/ LoadSeq(t) \/ CasFails(t)
               \/ WriteData(t) \/ Publish(t) \/ TakeData(t) \/ Release(t) \/ SizeReturn(t)
        PROVE  ViewsInv'
    <2>1. /\ dequeue_pos' = dequeue_pos /\ seen' = seen
          /\ begun' = begun \/ begun' = [begun EXCEPT ![t] = 0]
      BY <1>7 DEF CallPush, CallPop, CallSize, Call, LoadSeq, CasFails, WriteData, Publish,
         TakeData, Release, SizeReturn, history
    <2>2. /\ pc'[t] # "load_pop_idx"
          /\ \A u \in Threads \ {t} : pc'[u] = pc[u] /\ pos'[u] = pos[u]
      BY <1>7 DEF CallPush, CallPop, CallSize, Call, LoadSeq, CasFails, WriteData, Publish,
         TakeData, Release, SizeReturn, Return, Goto, IInv, TypeOK
    <2>3. \A u \in Threads \ {t} : begun'[u] = begun[u]
      BY <2>1 DEF IInv, TypeOK
    <2>4. seen[t] \in Nat /\ seen[t] <= dequeue_pos
      BY <1>1 DEF ViewsInv
    <2> QED
      BY <1>1, <2>1, <2>2, <2>3, <2>4, ViewsKept
  <1> QED
    BY <1>2, <1>3, <1>4, <1>5, <1>6, <1>7 DEF Next, Step, CasWins

LEMMA Views == Spec => []ViewsInv
  <1>1. Init => ViewsInv
    <2> SUFFICES ASSUME Init, NEW t \in Threads
                 PROVE  seen[t] <= dequeue_pos /\ pc[t] # "load_pop_idx"
      BY DEF ViewsInv
    <2>1. seen[t] = 0 /\ dequeue_pos = 0 /\ pc[t] = "idle"
      BY DEF Init
    <2> QED
      BY <2>1
  <1> QED
    BY <1>1, ViewsStep, Invariance, PTL DEF Spec

LEMMA SizeStep ==
  ASSUME IInv, ViewsInv, Next, NEW t \in Threads, Sizes(t)
  PROVE  pos'[t] \in 0 .. N + begun[t] - seen[t]
  <1>1. PICK u \in Threads : CallPush(u) \/ CallPop(u) \/ CallSize(u) \/ Step(u)
    BY DEF Next
  <1>2. \E label : pc' = [pc EXCEPT ![u] = label]
    BY <1>1 DEF CallPush, CallPop, CallSize, Call, Step, LoadPos, LoadSeq, CasWins, CasPush,
       CasPop, CasFails, WriteData, Publish, TakeData, Release, SizeResult, SizeReturn, Return,
       Goto
  <1>3. u = t
    BY <1>2 DEF IInv, TypeOK, Sizes
  <1>4. SizeResult(t)
    BY <1>1, <1>3 DEF Sizes, CallPush, CallPop, CallSize, Call, Step, LoadPos, LoadSeq, CasWins,
       CasPush, CasPop, CasFails, WriteData, Publish, TakeData, Release, SizeReturn
  <1>5. PICK pop_idx \in seen[t] .. dequeue_pos :
          pos'[t] = IF pos[t] > pop_idx THEN pos[t] - pop_idx ELSE 0
    BY <1>4 DEF SizeResult, IInv, TypeOK
  <1>6. /\ pos[t] \in Nat /\ begun[t] \in Nat /\ seen[t] \in Nat /\ dequeue_pos \in Nat
        /\ seen[t] <= begun[t] /\ pos[t] <= begun[t] + N
    BY DEF IInv, TypeOK, ViewsInv, Sizes
  <1> QED
    BY <1>5, <1>6, NAssumption

\* For every N, what size() returns exceeds N at most by the pops won when it
\* began that its caller did not know of, and it is never negative.
THEOREM SizeBounded == Spec => SizeIsBounded
  <1>1. /\ IInv /\ ViewsInv /\ [Next]_vars
        => [\A t \in Threads : Sizes(t) => pos'[t] \in 0 .. N + begun[t] - seen[t]]_vars
    BY SizeStep
  <1> QED
    BY <1>1, Invariance, Views, PTL DEF Spec, SizeIsBounded

-----------------------------------------------------------------------------
(***************************************************************************)
(* A refusal has an excuse.                                                *)
(***************************************************************************)
\* A thread moves by its own steps only.
LEMMA OwnStep ==
  ASSUME TypeOK, Next, NEW t \in Threads, Refuses(t)
  PROVE  LoadSeq(t)
  <1>1. PICK u \in Threads : CallPush(u) \/ CallPop(u) \/ CallSize(u) \/ Step(u)
    BY DEF Next
  <1>2. \E label : pc' = [pc EXCEPT ![u] = label]
    BY <1>1 DEF CallPush, CallPop, CallSize, Call, Step, LoadPos, LoadSeq, CasWins, CasPush,
       CasPop, CasFails, WriteData, Publish, TakeData, Release, SizeResult, SizeReturn, Return, Goto
  <1>3. u = t
    BY <1>2 DEF TypeOK, Refuses
  <1> QED
    BY <1>1, <1>3 DEF Refuses, CallPush, CallPop, CallSize, Call, Step, LoadPos, CasWins, CasPush,
       CasPop, CasFails, WriteData, Publish, TakeData, Release, SizeResult, SizeReturn

LEMMA RefusalStep ==
  ASSUME IInv, Next, NEW t \in Threads, Refuses(t)
  PROVE  Excused(t)
  <1> USE NAssumption DEF IInv
  <1> DEFINE s == sequence[cell(t)]
             e == enqueue_pos
             d == dequeue_pos
  <1>1. LoadSeq(t) /\ pc[t] = "load_seq" /\ pc'[t] = "idle"
    BY OwnStep DEF Refuses
  <1>2. /\ pos[t] \in Nat /\ s \in Nat /\ e \in Nat /\ d \in Nat /\ d <= e /\ e <= d + N
        /\ turn(t) \in Nat
    BY CellType DEF TypeOK, Window, cell, turn
  <1>3. s < turn(t) /\ op[t] \notin Spinning
    BY <1>1, <1>2 DEF LoadSeq, Goto, TypeOK
  <1>4. op[t] \in Pushes \cup Pops /\ pos[t] <= counter(t)
    BY <1>1 DEF ThreadsInv, ThreadInv
  <1>5. /\ \A p \in 0 .. e - 1 : sequence[CellOf(p)] >= p
        /\ \A p \in 0 .. d - 1 : sequence[CellOf(p)] > p
    BY DEF SequencesInv
  <1>6. CASE op[t] = "try_pop"
    <2>1. s < pos[t] + 1 /\ pos[t] <= d
      BY <1>3, <1>4, <1>6 DEF turn, counter, Pops
    <2>2. pos[t] = d
      BY <1>2, <1>5, <2>1 DEF cell
    <2>3. CASE d < e
      <3>1. PICK q \in e .. e + N - 1 : q = d + N
        BY <1>2, <2>3
      <3>2. CellOf(q) = cell(t) /\ q - N = d
        BY <1>2, <2>2, <3>1, NextLap DEF cell
      <3>3. \/ s = q \/ s = d + 1
            \/ s = d /\ \E u \in Threads : Producing(u) /\ pos[u] = d
        BY <3>1, <3>2 DEF CellsInv
      <3> QED
        BY <1>2, <1>6, <2>1, <2>2, <3>1, <3>3 DEF Excused, Producing
    <2> QED
      BY <1>2, <1>6, <2>3 DEF Excused
  <1>7. CASE op[t] = "try_push"
    <2>1. s < pos[t] /\ pos[t] <= e
      BY <1>3, <1>4, <1>7 DEF turn, counter, Pops
    <2>2. pos[t] = e
      BY <1>2, <1>5, <2>1 DEF cell
    <2>3. e \in e .. e + N - 1 /\ CellOf(e) = cell(t)
      BY <1>2, <2>2 DEF cell
    <2>4. \/ s = e \/ e - N >= d
          \/ \E u \in Threads : Consuming(u) /\ pos[u] = e - N
      BY <2>3 DEF CellsInv
    <2> QED
      BY <1>2, <1>7, <2>1, <2>2, <2>4 DEF Excused, Consuming
  <1> QED
    BY <1>3, <1>4, <1>6, <1>7 DEF Pushes, Pops, Spinning

\* A try_push or try_pop gives up only when the queue is full or empty, or
\* another call has not finished with the position it waits for.
THEOREM RefusalsExcused == Spec => RefusalsAreExcused
  <1>1. IInv /\ [Next]_vars => [\A t \in Threads : Refuses(t) => Excused(t)]_vars
    BY RefusalStep
  <1> QED
    BY <1>1, Invariance, PTL DEF Spec, RefusalsAreExcused

-----------------------------------------------------------------------------
(***************************************************************************)
(* The ring implements FifoQueue.                                          *)
(***************************************************************************)
\* Where the element of a position is: in the cell once its push has published
\* it, with the producer before.
Located(p) ==
  /\ sequence[CellOf(p)] = p + 1 =>
       ElementAt(p) = data[CellOf(p)] /\ data[CellOf(p)] \in Value
  /\ sequence[CellOf(p)] # p + 1 => \E t \in Threads : Producing(t) /\ pos[t] = p
  /\ \A t \in Threads : Producing(t) /\ pos[t] = p =>
       /\ ElementAt(p) = val[t] /\ val[t] \in Value
       /\ sequence[CellOf(p)] = p

Locations == \A p \in dequeue_pos .. enqueue_pos - 1 : Located(p)

LEMMA ElementsLocated == IInv => Locations
  <1> SUFFICES ASSUME IInv, NEW p \in dequeue_pos .. enqueue_pos - 1 PROVE Located(p)
    BY DEF Locations
  <1> USE NAssumption DEF IInv
  <1> DEFINE s == sequence[CellOf(p)]
             owners == {t \in Threads : pc[t] \in {"write", "publish"} /\ pos[t] = p}
  <1>1. /\ p \in Nat /\ enqueue_pos \in Nat /\ dequeue_pos \in Nat /\ N \in Nat \ {0, 1}
        /\ dequeue_pos <= enqueue_pos /\ enqueue_pos <= dequeue_pos + N
    BY DEF TypeOK, Window
  <1>2. \/ s = p + 1 /\ data[CellOf(p)] \in Value
        \/ s = p /\ \E t \in Threads : Producing(t) /\ pos[t] = p
    <2>1. PICK q \in enqueue_pos .. enqueue_pos + N - 1 : q = p + N
      BY <1>1
    <2>2. CellOf(q) = CellOf(p) /\ q - N = p
      BY <1>1, <2>1, NextLap
    <2> QED
      BY <1>1, <2>1, <2>2 DEF CellsInv
  <1>3. ASSUME NEW t \in Threads, Producing(t), pos[t] = p
        PROVE  ElementAt(p) = val[t] /\ val[t] \in Value /\ s = p
    <2>1. s = p /\ val[t] \in Value
      BY <1>3, OwnerFacts DEF Owns, Producing, cell
    <2>2. \A u \in owners : u = t
      BY <1>3 DEF OwnersInv, Producing
    <2>3. t \in owners
      BY <1>3 DEF Producing
    <2> HIDE DEF owners
    <2>4. owners # {} /\ (CHOOSE u \in owners : TRUE) = t
      BY <2>2, <2>3
    <2>5. ElementAt(p) = val[CHOOSE u \in owners : TRUE]
      BY <1>1, <2>1, <2>4 DEF ElementAt, owners
    <2> QED
      BY <2>1, <2>4, <2>5
  <1>4. s = p + 1 => ElementAt(p) = data[CellOf(p)]
    BY DEF ElementAt
  <1> QED
    BY <1>1, <1>2, <1>3, <1>4 DEF Located

LEMMA ElementsLocatedPrimed == IInv' => Locations'
  BY ElementsLocated, PTL

ItemsMade ==
  /\ Items \in Seq(Value) /\ Len(Items) = enqueue_pos - dequeue_pos
  /\ enqueue_pos - dequeue_pos \in 0 .. N
  /\ \A p \in dequeue_pos .. enqueue_pos - 1 : Items[p - dequeue_pos + 1] = ElementAt(p)

LEMMA ItemsProperties == IInv => ItemsMade
  <1> SUFFICES ASSUME IInv PROVE ItemsMade
    OBVIOUS
  <1> DEFINE n == enqueue_pos - dequeue_pos
  <1>1. n \in 0 .. N /\ dequeue_pos \in Nat /\ enqueue_pos \in Nat
    BY NAssumption DEF IInv, TypeOK, Window
  <1>2. ASSUME NEW i \in 1 .. n PROVE ElementAt(dequeue_pos + i - 1) \in Value
    <2>1. PICK p \in dequeue_pos .. enqueue_pos - 1 : p = dequeue_pos + i - 1
      BY <1>1
    <2>2. Located(p)
      BY ElementsLocated DEF Locations
    <2>3. ElementAt(p) \in Value
      BY <2>2 DEF Located
    <2> QED
      BY <2>1, <2>3
  <1>3. Items = [i \in 1 .. n |-> ElementAt(dequeue_pos + i - 1)]
    BY DEF Items
  <1> HIDE DEF n
  <1>4. Items \in Seq(Value) /\ Len(Items) = n
    BY <1>1, <1>2, <1>3
  <1>5. ASSUME NEW p \in dequeue_pos .. enqueue_pos - 1
        PROVE  Items[p - dequeue_pos + 1] = ElementAt(p)
    <2>1. p - dequeue_pos + 1 \in 1 .. n /\ dequeue_pos + (p - dequeue_pos + 1) - 1 = p
      BY <1>1 DEF n
    <2> QED
      BY <1>3, <2>1
  <1> QED
    BY <1>1, <1>4, <1>5 DEF n, ItemsMade

LEMMA ItemsPropertiesPrimed == IInv' => ItemsMade'
  BY ItemsProperties, PTL

\* An owner of the cell of a position in the queue is the producer of that position.
LEMMA OwnerOf ==
  ASSUME IInv, NEW p \in dequeue_pos .. enqueue_pos - 1, NEW t \in Threads, Owns(t),
         CellOf(p) = cell(t)
  PROVE  Producing(t) /\ pos[t] = p
  <1>1. /\ p \in Nat /\ enqueue_pos \in Nat /\ dequeue_pos \in Nat /\ N \in Nat \ {0, 1}
        /\ dequeue_pos <= enqueue_pos /\ enqueue_pos <= dequeue_pos + N
    BY NAssumption DEF IInv, TypeOK, Window
  <1>2. PICK q \in enqueue_pos .. enqueue_pos + N - 1 : q = p + N
    BY <1>1
  <1>3. CellOf(q) = cell(t)
    BY <1>1, <1>2, NextLap
  <1>4. pos[t] \in Nat /\ q = pos[t] + N /\ (Consuming(t) => pos[t] < dequeue_pos)
    BY <1>3, OwnerFacts
  <1>5. pos[t] = p
    BY <1>1, <1>2, <1>4
  <1> QED
    BY <1>1, <1>4, <1>5, OwnerFacts

\* The element of a position stays what it is, in its cell or in the hands of its
\* producer, or goes from these to that.
Stays(p) ==
  /\ sequence[CellOf(p)] = p + 1 =>
       sequence'[CellOf(p)] = p + 1 /\ data'[CellOf(p)] = data[CellOf(p)]
  /\ \A t \in Threads : Producing(t) /\ pos[t] = p =>
       \/ Producing(t)' /\ pos'[t] = p /\ val'[t] = val[t]
       \/ sequence'[CellOf(p)] = p + 1 /\ data'[CellOf(p)] = val[t]

LEMMA ElementStays ==
  ASSUME IInv, IInv', NEW p \in dequeue_pos .. enqueue_pos - 1,
         p \in dequeue_pos' .. enqueue_pos' - 1, Stays(p)
  PROVE  ElementAt(p)' = ElementAt(p)
  <1>1. Located(p) /\ Located(p)'
    BY ElementsLocated, ElementsLocatedPrimed DEF Locations
  <1> QED
    BY <1>1 DEF Located, Stays

LEMMA StepKeepsElements ==
  ASSUME IInv, Next, NEW p \in dequeue_pos .. enqueue_pos - 1
  PROVE  Stays(p)
  <1> USE DEF IInv
  <1>1. PICK t \in Threads : CallPush(t) \/ CallPop(t) \/ CallSize(t) \/ Step(t)
    BY DEF Next
  <1>2. p \in Nat /\ CellOf(p) \in Cells
    BY CellType DEF TypeOK
  <1>3. CASE \/ CallPush(t) \/ CallPop(t) \/ CallSize(t) \/ LoadPos(t) \/ LoadSeq(t)
             \/ CasPush(t) \/ CasPop(t) \/ CasFails(t) \/ SizeResult(t)
             \/ SizeReturn(t)
    <2>1. UNCHANGED <<sequence, data>> /\ ~ Producing(t)
      BY <1>3 DEF CallPush, CallPop, CallSize, Call, LoadPos, LoadSeq, CasPush, CasPop,
         CasFails, SizeResult, SizeReturn, history, Producing
    <2>2. \A u \in Threads \ {t} : pc'[u] = pc[u] /\ pos'[u] = pos[u] /\ val'[u] = val[u]
      BY <1>3 DEF CallPush, CallPop, CallSize, Call, LoadPos, LoadSeq, CasPush, CasPop,
         CasFails, SizeResult, SizeReturn, Return, Goto, TypeOK
    <2> QED
      BY <2>1, <2>2 DEF Stays, Producing
  <1>4. CASE WriteData(t) \/ Publish(t) \/ TakeData(t) \/ Release(t)
    <2>1. Owns(t) /\ cell(t) \in Cells
      BY <1>4, CellType DEF WriteData, Publish, TakeData, Release, Owns, cell, TypeOK
    <2>2. \A u \in Threads \ {t} : pc'[u] = pc[u] /\ pos'[u] = pos[u] /\ val'[u] = val[u]
      BY <1>4 DEF WriteData, Publish, TakeData, Release, Return, Goto, TypeOK
    <2>3. \A i \in Cells \ {cell(t)} : sequence'[i] = sequence[i] /\ data'[i] = data[i]
      BY <1>4, <2>1 DEF WriteData, Publish, TakeData, Release, TypeOK
    <2>4. CASE CellOf(p) # cell(t)
      <3>1. Producing(t) => pos[t] # p
        BY <2>4 DEF cell
      <3> QED
        BY <1>2, <2>2, <2>3, <2>4, <3>1 DEF Stays, Producing
    <2>5. CASE CellOf(p) = cell(t)
      <3>1. Producing(t) /\ pos[t] = p /\ sequence[cell(t)] = p /\ ~ Consuming(t)
        BY <2>1, <2>5, OwnerOf, OwnerFacts DEF Producing, Consuming
      <3>2. \A u \in Threads : Producing(u) /\ pos[u] = p => u = t
        BY <3>1 DEF OwnersInv
      <3>3. CASE WriteData(t)
        BY <1>2, <2>5, <3>1, <3>2, <3>3
           DEF WriteData, Stays, Goto, Producing, TypeOK
      <3>4. CASE Publish(t)
        <4>1. sequence'[cell(t)] = p + 1 /\ data'[cell(t)] = val[t]
          BY <2>1, <3>1, <3>4 DEF Publish, ThreadsInv, ThreadInv, TypeOK
        <4> QED
          BY <1>2, <2>5, <3>1, <3>2, <4>1 DEF Stays
      <3> QED
        BY <1>4, <3>1, <3>3, <3>4 DEF TakeData, Release, Consuming
    <2> QED
      BY <2>4, <2>5
  <1> QED
    BY <1>1, <1>3, <1>4 DEF Step, CasWins

\* A push takes effect when it wins its position.
LEMMA CasPushIsPush ==
  ASSUME IInv, IInv', Next, NEW t \in Threads, CasPush(t)
  PROVE  \E v \in Value : Fifo!Push(v)
  <1> DEFINE n == enqueue_pos - dequeue_pos
             v == val[t]
  <1>1. /\ pc[t] = "cas" /\ op[t] \in Pushes /\ pos[t] = enqueue_pos
        /\ enqueue_pos' = enqueue_pos + 1 /\ dequeue_pos' = dequeue_pos
        /\ pc'[t] = "write" /\ pos' = pos /\ val' = val /\ out' = out
    BY DEF CasPush, Goto, IInv, TypeOK, history
  <1>2. v \in Value /\ enqueue_pos \in Nat /\ dequeue_pos \in Nat
    BY <1>1 DEF IInv, TypeOK, ThreadsInv, ThreadInv
  <1>3. /\ Items \in Seq(Value) /\ Len(Items) = n /\ n \in 0 .. N
        /\ \A p \in dequeue_pos .. enqueue_pos - 1 : Items[p - dequeue_pos + 1] = ElementAt(p)
    BY ItemsProperties DEF ItemsMade
  <1>4. /\ Items' \in Seq(Value) /\ Len(Items') = n + 1 /\ n + 1 \in 0 .. N
        /\ \A p \in dequeue_pos .. enqueue_pos : Items'[p - dequeue_pos + 1] = ElementAt(p)'
    <2>1. /\ Items' \in Seq(Value) /\ Len(Items') = enqueue_pos' - dequeue_pos'
          /\ enqueue_pos' - dequeue_pos' \in 0 .. N
          /\ \A p \in dequeue_pos' .. enqueue_pos' - 1 :
               Items'[p - dequeue_pos' + 1] = ElementAt(p)'
      BY ItemsPropertiesPrimed DEF ItemsMade
    <2>2. enqueue_pos' - dequeue_pos' = n + 1 /\ enqueue_pos' - 1 = enqueue_pos
      BY <1>1, <1>2
    <2> HIDE DEF n
    <2> QED
      BY <1>1, <2>1, <2>2
  <1>5. ASSUME NEW i \in 1 .. n PROVE Items'[i] = Items[i]
    <2>1. PICK p \in dequeue_pos .. enqueue_pos - 1 : i = p - dequeue_pos + 1
      <3>1. dequeue_pos + i - 1 \in dequeue_pos .. enqueue_pos - 1
        BY <1>2
      <3>2. i = (dequeue_pos + i - 1) - dequeue_pos + 1
        BY <1>2
      <3> QED
        BY <3>1, <3>2
    <2>2. ElementAt(p)' = ElementAt(p)
      BY <1>1, <1>2, ElementStays, StepKeepsElements
    <2> QED
      BY <1>2, <1>3, <1>4, <2>1, <2>2
  <1>6. Items'[n + 1] = v
    <2>1. PICK p \in dequeue_pos' .. enqueue_pos' - 1 : p = enqueue_pos
      BY <1>1, <1>2, <1>3
    <2>2. Located(p)' /\ Producing(t)' /\ pos'[t] = p
      BY <1>1, <2>1, ElementsLocatedPrimed DEF Locations, Producing
    <2>3. ElementAt(p)' = v
      BY <1>1, <2>2 DEF Located
    <2>4. Items'[p - dequeue_pos + 1] = ElementAt(p)' /\ p - dequeue_pos + 1 = n + 1
      BY <1>1, <1>2, <1>4, <2>1
    <2> QED
      BY <2>3, <2>4
  <1> HIDE DEF n, v
  <1>7. Items' = Append(Items, v)
    BY <1>2, <1>3, <1>4, <1>5, <1>6, AppendProperties, SeqEqual
  <1> QED
    BY <1>1, <1>2, <1>3, <1>4, <1>7 DEF Fifo!Push

\* A pop takes effect when it wins its position.
LEMMA CasPopIsPop ==
  ASSUME IInv, IInv', Next, NEW t \in Threads, CasPop(t)
  PROVE  Fifo!Pop
  <1> DEFINE n == enqueue_pos - dequeue_pos
             d == dequeue_pos
  <1>1. /\ pc[t] = "cas" /\ op[t] \in Pops /\ pos[t] = d
        /\ dequeue_pos' = d + 1 /\ enqueue_pos' = enqueue_pos
        /\ out' = data[cell(t)]
    BY DEF CasPop, Goto
  <1>2. /\ enqueue_pos \in Nat /\ d \in Nat /\ cell(t) = CellOf(d)
        /\ sequence[CellOf(d)] = d + 1 /\ d < enqueue_pos
    <2>1. sequence[cell(t)] = d + 1 /\ cell(t) = CellOf(d)
      BY <1>1 DEF IInv, ThreadsInv, ThreadInv, counter, turn, cell
    <2> QED
      BY <2>1, Winnable DEF IInv, TypeOK
  <1>3. /\ Items \in Seq(Value) /\ Len(Items) = n /\ n \in 1 .. N
        /\ \A p \in d .. enqueue_pos - 1 : Items[p - d + 1] = ElementAt(p)
    BY <1>2, ItemsProperties DEF ItemsMade
  <1>4. /\ Items' \in Seq(Value) /\ Len(Items') = n - 1
        /\ \A p \in d + 1 .. enqueue_pos - 1 : Items'[p - (d + 1) + 1] = ElementAt(p)'
    <2>1. /\ Items' \in Seq(Value) /\ Len(Items') = enqueue_pos' - dequeue_pos'
          /\ \A p \in dequeue_pos' .. enqueue_pos' - 1 :
               Items'[p - dequeue_pos' + 1] = ElementAt(p)'
      BY ItemsPropertiesPrimed DEF ItemsMade
    <2>2. enqueue_pos' - dequeue_pos' = n - 1
      BY <1>1, <1>2
    <2> HIDE DEF n, d
    <2> QED
      BY <1>1, <2>1, <2>2
  <1>5. Head(Items) = out' /\ Items # << >>
    <2>1. d \in d .. enqueue_pos - 1 /\ d - d + 1 = 1
      BY <1>2
    <2>2. ElementAt(d) = data[CellOf(d)]
      BY <1>2, <2>1, ElementsLocated DEF Locations, Located
    <2>3. Items[1] = ElementAt(d)
      BY <1>3, <2>1
    <2>4. Items # << >>
      BY <1>3, EmptySeq
    <2> QED
      BY <1>1, <1>2, <2>2, <2>3, <2>4
  <1>6. /\ Tail(Items) \in Seq(Value) /\ Len(Tail(Items)) = n - 1
        /\ \A i \in 1 .. n - 1 : Tail(Items)[i] = Items[i + 1]
    BY <1>3, <1>5, HeadTailProperties
  <1>7. ASSUME NEW i \in 1 .. n - 1 PROVE Items'[i] = Tail(Items)[i]
    <2>1. PICK p \in d + 1 .. enqueue_pos - 1 : i = p - d
      <3>1. d + i \in d + 1 .. enqueue_pos - 1 /\ i = (d + i) - d
        BY <1>2
      <3> QED
        BY <3>1
    <2>2. ElementAt(p)' = ElementAt(p)
      BY <1>1, <1>2, ElementStays, StepKeepsElements
    <2>3. /\ Items'[p - (d + 1) + 1] = ElementAt(p)' /\ Items[p - d + 1] = ElementAt(p)
          /\ p - (d + 1) + 1 = i /\ p - d + 1 = i + 1
      BY <1>2, <1>3, <1>4, <2>1
    <2> QED
      BY <1>6, <2>2, <2>3
  <1> HIDE DEF n, d
  <1>8. Items' = Tail(Items)
    BY <1>4, <1>6, <1>7, SeqEqual
  <1> QED
    BY <1>5, <1>8 DEF Fifo!Pop

\* No other step changes the queue.
LEMMA OtherStepsKeepItems ==
  ASSUME IInv, IInv', Next, UNCHANGED <<enqueue_pos, dequeue_pos>>
  PROVE  Items' = Items
  <1> DEFINE n == enqueue_pos - dequeue_pos
  <1>1. enqueue_pos \in Nat /\ dequeue_pos \in Nat
    BY DEF IInv, TypeOK
  <1>2. /\ Items \in Seq(Value) /\ Len(Items) = n /\ n \in 0 .. N
        /\ \A p \in dequeue_pos .. enqueue_pos - 1 : Items[p - dequeue_pos + 1] = ElementAt(p)
    BY ItemsProperties DEF ItemsMade
  <1>3. /\ Items' \in Seq(Value) /\ Len(Items') = n
        /\ \A p \in dequeue_pos .. enqueue_pos - 1 :
             Items'[p - dequeue_pos + 1] = ElementAt(p)'
    BY ItemsPropertiesPrimed DEF ItemsMade
  <1>4. ASSUME NEW i \in 1 .. n PROVE Items'[i] = Items[i]
    <2>1. PICK p \in dequeue_pos .. enqueue_pos - 1 : i = p - dequeue_pos + 1
      <3>1. /\ dequeue_pos + i - 1 \in dequeue_pos .. enqueue_pos - 1
            /\ i = (dequeue_pos + i - 1) - dequeue_pos + 1
        BY <1>1
      <3> QED
        BY <3>1
    <2>2. ElementAt(p)' = ElementAt(p)
      BY ElementStays, StepKeepsElements
    <2> QED
      BY <1>2, <1>3, <2>1, <2>2
  <1> HIDE DEF n
  <1> QED
    BY <1>2, <1>3, <1>4, SeqEqual

LEMMA StepIsFifo == IInv /\ IInv' /\ [Next]_vars => [Fifo!Next]_Fifo!vars
  <1> SUFFICES ASSUME IInv, IInv', [Next]_vars PROVE [Fifo!Next]_Fifo!vars
    OBVIOUS
  <1>1. CASE UNCHANGED vars
    BY <1>1 DEF vars, local, history, Fifo!vars, Items, ElementAt
  <1>2. ASSUME Next, NEW t \in Threads, CasPush(t) PROVE Fifo!Next
    BY <1>2, CasPushIsPush DEF Fifo!Next
  <1>3. ASSUME Next, NEW t \in Threads, CasPop(t) PROVE Fifo!Next
    BY <1>3, CasPopIsPop DEF Fifo!Next
  <1>4. ASSUME Next, NEW t \in Threads,
               \/ CallPush(t) \/ CallPop(t) \/ CallSize(t) \/ LoadPos(t) \/ LoadSeq(t)
               \/ CasFails(t) \/ SizeResult(t) \/ SizeReturn(t)
               \/ WriteData(t) \/ Publish(t) \/ TakeData(t) \/ Release(t)
        PROVE  UNCHANGED Fifo!vars
    <2>1. UNCHANGED <<enqueue_pos, dequeue_pos>> /\ out' = out
      BY <1>4 DEF CallPush, CallPop, CallSize, Call, LoadPos, LoadSeq, CasFails, SizeResult,
         SizeReturn, WriteData, Publish, TakeData, Release, history
    <2> QED
      BY <1>4, <2>1, OtherStepsKeepItems DEF Fifo!vars
  <1> QED
    BY <1>1, <1>2, <1>3, <1>4 DEF Next, Step, CasWins

\* For every N the ring is a FIFO queue of at most N elements.
THEOREM RingIsFifo == Spec => ImplementsFifo
  <1>1. Init => Fifo!Init
    <2> SUFFICES ASSUME Init PROVE Items = << >> /\ out = NoValue
      BY DEF Fifo!Init
    <2>1. ItemsMade /\ enqueue_pos = 0 /\ dequeue_pos = 0
      BY InitInv, ItemsProperties DEF Init
    <2>2. Items \in Seq(Value) /\ Len(Items) = 0
      BY <2>1 DEF ItemsMade
    <2>3. Items = << >>
      BY <2>2, EmptySeq
    <2> QED
      BY <2>3 DEF Init
  <1>2. IInv /\ IInv' /\ [Next]_vars => [Fifo!Next]_Fifo!vars
    BY StepIsFifo
  <1> QED
    BY <1>1, <1>2, Invariance, PTL DEF Spec, ImplementsFifo, Fifo!Spec
=============================================================================
