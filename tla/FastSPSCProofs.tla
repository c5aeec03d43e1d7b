---------------------------- MODULE FastSPSCProofs ----------------------------
(***************************************************************************)
(* Proofs about FastSPSC, for every number of blocks, Capacity and         *)
(* elements: the blocks from head_block form a chain, each with its        *)
(* elements in the cells between its positions, that the producer only     *)
(* extends at its end and the consumer only takes from at its beginning.   *)
(***************************************************************************)
EXTENDS FastSPSC, NodeChainsProofs

-----------------------------------------------------------------------------
(* Cells                                                                   *)

LEMMA DivMod ==
  ASSUME NEW p \in Nat
  PROVE  /\ p % Capacity = p - Capacity * (p \div Capacity)
         /\ p \div Capacity \in Nat /\ p % Capacity \in Cells
         /\ Capacity * (p \div Capacity) \in Int
  <1>1. p % Capacity = p - Capacity * (p \div Capacity)
    BY CapacityAssumption, SMT
  <1>2. p \div Capacity \in Nat /\ p % Capacity \in 0 .. Capacity - 1
    BY CapacityAssumption, SMT
  <1>3. Capacity * (p \div Capacity) \in Int
    BY <1>2, CapacityAssumption
  <1> QED
    BY <1>1, <1>2, <1>3 DEF Cells

LEMMA CellType ==
  ASSUME NEW p \in Nat
  PROVE  CellOf(p) \in Cells
  BY DivMod DEF CellOf

LEMMA Multiples ==
  ASSUME NEW x \in Int, NEW y \in Int, x < y
  PROVE  Capacity * y - Capacity * x >= Capacity
  <1>1. Capacity * y - Capacity * x = Capacity * (y - x)
    BY CapacityAssumption, SMT
  <1>2. \A d \in Int : d >= 1 => Capacity * d >= Capacity
    BY CapacityAssumption, SMT
  <1>3. y - x \in Int /\ y - x >= 1
    OBVIOUS
  <1> QED
    BY <1>1, <1>2, <1>3

\* Positions that share a cell are Capacity apart.
LEMMA SameCell ==
  ASSUME NEW p \in Nat, NEW q \in Nat, CellOf(p) = CellOf(q),
         p < q + Capacity, q < p + Capacity
  PROVE  p = q
  <1> DEFINE x == p \div Capacity
             y == q \div Capacity
             r == p % Capacity
  <1>1. /\ r = p - Capacity * x /\ r = q - Capacity * y /\ x \in Nat /\ y \in Nat /\ r \in Nat
        /\ Capacity * x \in Int /\ Capacity * y \in Int
    BY DivMod DEF Cells, CellOf
  <1> HIDE DEF x, y, r
  <1>2. ~ (x < y)
    BY <1>1, Multiples, CapacityAssumption
  <1>3. ~ (y < x)
    BY <1>1, Multiples, CapacityAssumption
  <1>4. x = y
    BY <1>1, <1>2, <1>3
  <1> QED
    BY <1>1, <1>4

-----------------------------------------------------------------------------
(* One block, and what a step on it does to its cells and elements         *)

\* Blocks are records of four fields.
LEMMA BlockFields ==
  ASSUME NEW r \in BlockType, NEW x, NEW i
  PROVE  /\ r.enqueue_pos \in Nat /\ r.dequeue_pos \in Nat /\ r.next \in Nodes \cup {Null}
         /\ r.data \in [Cells -> Value \cup {NoValue}] /\ r # Null
         /\ [r EXCEPT !.data[i] = x]
              = [data |-> [r.data EXCEPT ![i] = x], enqueue_pos |-> r.enqueue_pos,
                 dequeue_pos |-> r.dequeue_pos, next |-> r.next]
         /\ [r EXCEPT !.enqueue_pos = @ + 1]
              = [data |-> r.data, enqueue_pos |-> r.enqueue_pos + 1,
                 dequeue_pos |-> r.dequeue_pos, next |-> r.next]
         /\ [r EXCEPT !.dequeue_pos = @ + 1]
              = [data |-> r.data, enqueue_pos |-> r.enqueue_pos,
                 dequeue_pos |-> r.dequeue_pos + 1, next |-> r.next]
         /\ [r EXCEPT !.next = x]
              = [data |-> r.data, enqueue_pos |-> r.enqueue_pos,
                 dequeue_pos |-> r.dequeue_pos, next |-> x]
  <1>1. r = [data |-> r.data, enqueue_pos |-> r.enqueue_pos,
             dequeue_pos |-> r.dequeue_pos, next |-> r.next]
    BY DEF BlockType
  <1>2. /\ r.enqueue_pos \in Nat /\ r.dequeue_pos \in Nat /\ r.next \in Nodes \cup {Null}
        /\ r.data \in [Cells -> Value \cup {NoValue}] /\ r # Null
    BY DeletedAssumption DEF BlockType
  <1> QED
    BY <1>1, <1>2

\* The cells in use hold the elements of a block, in the order of positions.
LEMMA ElementsAre ==
  ASSUME NEW r \in BlockType, NEW m \in Value \cup {NoValue}, NEW w, CellsInv(r, m, w)
  PROVE  /\ r.enqueue_pos - r.dequeue_pos \in Nat
         /\ Elements(r, m) \in Seq(Value)
         /\ Len(Elements(r, m)) = r.enqueue_pos - r.dequeue_pos
         /\ \A i \in 1 .. r.enqueue_pos - r.dequeue_pos :
              Elements(r, m)[i] = IF i = 1 /\ m # NoValue THEN m
                                  ELSE r.data[CellOf(r.dequeue_pos + i - 1)]
  <1>0. r.enqueue_pos \in Nat /\ r.dequeue_pos \in Nat
    BY DEF BlockType
  <1>1. PICK n \in Nat : n = r.enqueue_pos - r.dequeue_pos
    BY <1>0 DEF CellsInv
  <1> DEFINE At(i) == IF i = 1 /\ m # NoValue THEN m
                      ELSE r.data[CellOf(r.dequeue_pos + i - 1)]
  <1>2. Elements(r, m) = [i \in 1 .. n |-> At(i)]
    BY <1>1 DEF Elements
  <1>3. ASSUME NEW i \in 1 .. n PROVE At(i) \in Value
    <2>1. CASE i = 1 /\ m # NoValue
      BY <2>1
    <2>2. CASE ~ (i = 1 /\ m # NoValue)
      <3>1. /\ r.dequeue_pos + i - 1 \in r.dequeue_pos .. r.enqueue_pos - 1
            /\ ~ (m # NoValue /\ r.dequeue_pos + i - 1 = r.dequeue_pos)
        BY <1>0, <1>1, <2>2
      <3>2. r.data[CellOf(r.dequeue_pos + i - 1)] \in Value
        BY <3>1 DEF CellsInv
      <3> QED BY <3>2, <2>2
    <2> QED BY <2>1, <2>2
  <1> HIDE DEF At
  <1>4. Elements(r, m) \in Seq(Value) /\ Len(Elements(r, m)) = n
    BY <1>2, <1>3
  <1> QED
    BY <1>1, <1>2, <1>4 DEF At

LEMMA NewBlocks ==
  /\ EmptyBlock \in BlockType /\ CellsInv(EmptyBlock, NoValue, NoValue)
  /\ Elements(EmptyBlock, NoValue) = << >> /\ EmptyBlock.next = Null
  /\ EmptyBlock.enqueue_pos = 0 /\ EmptyBlock.dequeue_pos = 0
  /\ \A v \in Value :
       /\ BlockOf(v) \in BlockType /\ CellsInv(BlockOf(v), NoValue, NoValue)
       /\ Elements(BlockOf(v), NoValue) = << v >> /\ BlockOf(v).next = Null
       /\ BlockOf(v).enqueue_pos = 1 /\ BlockOf(v).dequeue_pos = 0
  <1>0. 0 \in Cells /\ CellOf(0) = 0
    <2>1. PICK q \in Nat : 0 % Capacity = 0 - Capacity * q /\ 0 % Capacity \in Cells
      BY DivMod
    <2>2. Capacity * 0 = 0 /\ Capacity * q \in Int
      BY CapacityAssumption
    <2>3. ~ (0 < q)
      BY <2>1, <2>2, Multiples, CapacityAssumption DEF Cells
    <2>4. q = 0
      BY <2>3
    <2>5. 0 % Capacity = 0
      BY <2>1, <2>2, <2>4
    <2>6. 0 \in Cells
      BY CapacityAssumption DEF Cells
    <2> QED BY <2>5, <2>6 DEF CellOf
  <1>1. EmptyBlock \in BlockType
    BY DEF EmptyBlock, BlockType
  <1>2. CellsInv(EmptyBlock, NoValue, NoValue)
    BY CapacityAssumption DEF CellsInv, EmptyBlock, Alive
  <1>3. Elements(EmptyBlock, NoValue) = << >>
    BY DEF Elements, EmptyBlock
  <1>4. ASSUME NEW v \in Value
        PROVE  /\ BlockOf(v) \in BlockType /\ CellsInv(BlockOf(v), NoValue, NoValue)
               /\ Elements(BlockOf(v), NoValue) = << v >> /\ BlockOf(v).next = Null
               /\ BlockOf(v).enqueue_pos = 1 /\ BlockOf(v).dequeue_pos = 0
    <2>1. BlockOf(v) = [data |-> [i \in Cells |-> IF i = 0 THEN v ELSE NoValue],
                        enqueue_pos |-> 1, dequeue_pos |-> 0, next |-> Null]
      BY DEF BlockOf
    <2>2. BlockOf(v) \in BlockType
      BY <2>1 DEF BlockType
    <2>3. CellsInv(BlockOf(v), NoValue, NoValue)
      <3>1. Alive(BlockOf(v)) = {0}
        BY <1>0, <2>1 DEF Alive
      <3> QED BY <1>0, <2>1, <3>1, CapacityAssumption DEF CellsInv
    <2>4. Elements(BlockOf(v), NoValue) = << v >>
      BY <1>0, <2>1 DEF Elements
    <2> QED BY <2>1, <2>2, <2>3, <2>4
  <1> QED
    BY <1>1, <1>2, <1>3, <1>4 DEF EmptyBlock

\* An element is written into the cell after those in use.
LEMMA WriteCell ==
  ASSUME NEW r \in BlockType, NEW m \in Value \cup {NoValue}, CellsInv(r, m, NoValue),
         r.enqueue_pos - r.dequeue_pos < Capacity, NEW v \in Value, NEW s,
         s = [r EXCEPT !.data[CellOf(r.enqueue_pos)] = v]
  PROVE  /\ s \in BlockType /\ CellsInv(s, m, v) /\ Elements(s, m) = Elements(r, m)
         /\ s.next = r.next /\ s.enqueue_pos = r.enqueue_pos /\ s.dequeue_pos = r.dequeue_pos
  <1> DEFINE enq == r.enqueue_pos
             deq == r.dequeue_pos
             e == CellOf(enq)
  <1>1. /\ enq \in Nat /\ deq \in Nat /\ r.next \in Nodes \cup {Null}
        /\ r.data \in [Cells -> Value \cup {NoValue}]
        /\ s = [data |-> [r.data EXCEPT ![e] = v], enqueue_pos |-> enq,
                dequeue_pos |-> deq, next |-> r.next]
    BY BlockFields
  <1>2. e \in Cells
    BY <1>1, CellType
  <1>3. \A p \in deq .. enq - 1 : CellOf(p) \in Cells /\ CellOf(p) # e
    BY <1>1, SameCell, CellType, CapacityAssumption
  <1>4. deq <= enq /\ enq - deq <= Capacity
    BY DEF CellsInv
  <1> HIDE DEF e
  <1>5. \A i \in Cells : s.data[i] = IF i = e THEN v ELSE r.data[i]
    BY <1>1, <1>2
  <1>6. s.enqueue_pos = enq /\ s.dequeue_pos = deq /\ s.next = r.next
    BY <1>1
  <1>7. Alive(s) = Alive(r) /\ e \notin Alive(r)
    BY <1>3, <1>6 DEF Alive
  <1>8. s \in BlockType
    BY <1>1, <1>2 DEF BlockType
  <1>9. \A p \in deq .. enq - 1 : s.data[CellOf(p)] = r.data[CellOf(p)]
    BY <1>3, <1>5
  <1>10. CellsInv(s, m, v)
    <2>1. m # NoValue => deq < enq
      BY DEF CellsInv
    <2>2. \A p \in deq .. enq - 1 :
            IF m # NoValue /\ p = deq THEN s.data[CellOf(p)] = NoValue
            ELSE s.data[CellOf(p)] \in Value
      BY <1>9 DEF CellsInv
    <2>3. \A i \in Cells \ Alive(r) : s.data[i] = IF i = e THEN v ELSE NoValue
      BY <1>5 DEF CellsInv
    <2> QED BY <2>1, <2>2, <2>3, <1>4, <1>6, <1>7 DEF CellsInv, e
  <1>11. Elements(s, m) = Elements(r, m)
    <2>1. \A i \in 1 .. enq - deq : s.data[CellOf(deq + i - 1)] = r.data[CellOf(deq + i - 1)]
      BY <1>1, <1>9
    <2> QED BY <2>1, <1>6 DEF Elements
  <1> QED
    BY <1>6, <1>8, <1>10, <1>11

\* The element written becomes the last one.
LEMMA PublishCell ==
  ASSUME NEW r \in BlockType, NEW m \in Value \cup {NoValue}, NEW v \in Value,
         CellsInv(r, m, v), NEW s, s = [r EXCEPT !.enqueue_pos = @ + 1]
  PROVE  /\ s \in BlockType /\ CellsInv(s, m, NoValue)
         /\ Elements(s, m) = Append(Elements(r, m), v)
         /\ s.next = r.next /\ s.enqueue_pos = r.enqueue_pos + 1
         /\ s.dequeue_pos = r.dequeue_pos
  <1> DEFINE enq == r.enqueue_pos
             deq == r.dequeue_pos
             e == CellOf(enq)
  <1>1. /\ enq \in Nat /\ deq \in Nat /\ r.next \in Nodes \cup {Null}
        /\ r.data \in [Cells -> Value \cup {NoValue}]
        /\ s = [data |-> r.data, enqueue_pos |-> enq + 1,
                dequeue_pos |-> deq, next |-> r.next]
    BY BlockFields
  <1>2. v # NoValue
    BY NoValueAssumption
  <1>3. deq <= enq /\ enq - deq < Capacity
    BY <1>2 DEF CellsInv
  <1>4. \A p \in deq .. enq - 1 : CellOf(p) \in Cells /\ CellOf(p) # e
    BY <1>1, <1>3, SameCell, CellType, CapacityAssumption
  <1>5. s.data = r.data /\ s.enqueue_pos = enq + 1 /\ s.dequeue_pos = deq /\ s.next = r.next
    BY <1>1
  <1>6. s \in BlockType
    BY <1>1 DEF BlockType
  <1>7. e \in Cells /\ e \notin Alive(r)
    BY <1>1, <1>4, CellType DEF Alive
  <1>8. r.data[e] = v
    BY <1>7 DEF CellsInv
  <1>9. deq .. enq + 1 - 1 = (deq .. enq - 1) \cup {enq}
    BY <1>1, <1>3
  <1>10. Alive(s) = Alive(r) \cup {e}
    BY <1>5, <1>9 DEF Alive
  <1>11. CellsInv(s, m, NoValue)
    <2>1. m # NoValue => deq < enq
      BY DEF CellsInv
    <2>2. \A p \in deq .. enq + 1 - 1 :
            IF m # NoValue /\ p = deq THEN s.data[CellOf(p)] = NoValue
            ELSE s.data[CellOf(p)] \in Value
      <3> TAKE p \in deq .. enq + 1 - 1
      <3>1. CASE p = enq
        BY <3>1, <2>1, <1>1, <1>5, <1>8
      <3>2. CASE p \in deq .. enq - 1
        BY <3>2, <1>5 DEF CellsInv
      <3> QED BY <3>1, <3>2, <1>9
    <2>3. \A i \in Cells \ Alive(s) : s.data[i] = NoValue
      BY <1>5, <1>10 DEF CellsInv
    <2>4. deq <= enq + 1 /\ enq + 1 - deq <= Capacity
      BY <1>1, <1>3, CapacityAssumption
    <2>5. m # NoValue => deq < enq + 1
      BY <2>1, <1>1
    <2>6. \A i \in Cells \ Alive(s) :
            s.data[i] = IF i = CellOf(s.enqueue_pos) THEN NoValue ELSE NoValue
      BY <2>3
    <2> HIDE DEF e, enq, deq
    <2>7. \A p \in s.dequeue_pos .. s.enqueue_pos - 1 :
            IF m # NoValue /\ p = s.dequeue_pos THEN s.data[CellOf(p)] = NoValue
            ELSE s.data[CellOf(p)] \in Value
      BY <2>2, <1>5, <1>1
    <2>8. /\ s.dequeue_pos <= s.enqueue_pos /\ s.enqueue_pos - s.dequeue_pos <= Capacity
          /\ m # NoValue => s.dequeue_pos < s.enqueue_pos
      BY <2>4, <2>5, <1>5, <1>1
    <2>9. NoValue # NoValue => s.enqueue_pos - s.dequeue_pos < Capacity
      OBVIOUS
    <2> QED BY <2>6, <2>7, <2>8, <2>9, Zenon DEF CellsInv
  <1>12. Elements(s, m) = Append(Elements(r, m), v)
    <2>1. PICK n \in Nat : n = enq - deq
      BY <1>1, <1>3
    <2>2. /\ Elements(r, m) \in Seq(Value) /\ Len(Elements(r, m)) = n
          /\ \A i \in 1 .. n : Elements(r, m)[i] = IF i = 1 /\ m # NoValue THEN m
                                                   ELSE r.data[CellOf(deq + i - 1)]
      BY <2>1, ElementsAre
    <2>3. Append(Elements(r, m), v)
            = [i \in 1 .. n + 1 |-> IF i <= n THEN Elements(r, m)[i] ELSE v]
      BY <2>2, AppendIs
    <2>4. Elements(s, m) = [i \in 1 .. n + 1 |->
                              IF i = 1 /\ m # NoValue THEN m ELSE r.data[CellOf(deq + i - 1)]]
      <3>1. s.enqueue_pos - s.dequeue_pos = n + 1
        BY <1>1, <1>5, <2>1
      <3> QED BY <3>1, <1>5 DEF Elements
    <2>5. \A i \in 1 .. n + 1 :
            (IF i = 1 /\ m # NoValue THEN m ELSE r.data[CellOf(deq + i - 1)])
              = IF i <= n THEN Elements(r, m)[i] ELSE v
      <3> TAKE i \in 1 .. n + 1
      <3>1. CASE i <= n
        BY <3>1, <2>2
      <3>2. CASE i = n + 1
        <4>1. deq + i - 1 = enq
          BY <3>2, <2>1, <1>1
        <4>2. m # NoValue => n # 0
          BY <2>1, <1>1 DEF CellsInv
        <4> QED BY <4>1, <4>2, <3>2, <1>8
      <3> QED BY <3>1, <3>2
    <2> QED BY <2>3, <2>4, <2>5, ZenonT(40)
  <1> QED
    BY <1>5, <1>6, <1>11, <1>12

\* The first element is moved out; it still counts as the block's.
LEMMA TakeCell ==
  ASSUME NEW r \in BlockType, NEW w, CellsInv(r, NoValue, w), r.dequeue_pos < r.enqueue_pos,
         NEW m, m = r.data[CellOf(r.dequeue_pos)],
         NEW s, s = [r EXCEPT !.data[CellOf(r.dequeue_pos)] = NoValue]
  PROVE  /\ m \in Value
         /\ s \in BlockType /\ CellsInv(s, m, w) /\ Elements(s, m) = Elements(r, NoValue)
         /\ s.next = r.next /\ s.enqueue_pos = r.enqueue_pos /\ s.dequeue_pos = r.dequeue_pos
  <1> DEFINE enq == r.enqueue_pos
             deq == r.dequeue_pos
             d == CellOf(deq)
  <1>1. /\ enq \in Nat /\ deq \in Nat /\ r.next \in Nodes \cup {Null}
        /\ r.data \in [Cells -> Value \cup {NoValue}]
        /\ s = [data |-> [r.data EXCEPT ![d] = NoValue], enqueue_pos |-> enq,
                dequeue_pos |-> deq, next |-> r.next]
    BY BlockFields
  <1>2. deq < enq /\ enq - deq <= Capacity /\ deq \in deq .. enq - 1
    BY <1>1 DEF CellsInv
  <1>3. d \in Cells /\ d \in Alive(r)
    BY <1>1, <1>2, CellType DEF Alive
  <1>4. \A p \in deq .. enq - 1 : CellOf(p) \in Cells /\ (p # deq => CellOf(p) # d)
    BY <1>1, <1>2, SameCell, CellType, CapacityAssumption
  <1> HIDE DEF d
  <1>5. \A i \in Cells : s.data[i] = IF i = d THEN NoValue ELSE r.data[i]
    BY <1>1, <1>3
  <1>6. s.enqueue_pos = enq /\ s.dequeue_pos = deq /\ s.next = r.next
    BY <1>1
  <1>7. Alive(s) = Alive(r)
    BY <1>6 DEF Alive
  <1>8. s \in BlockType
    BY <1>1, <1>3 DEF BlockType
  <1>9. m \in Value
    BY <1>2 DEF CellsInv
  <1>10. \A p \in deq .. enq - 1 : p # deq => s.data[CellOf(p)] = r.data[CellOf(p)]
    BY <1>4, <1>5
  <1>11. s.data[d] = NoValue /\ r.data[d] = m
    BY <1>3, <1>5 DEF d
  <1>12. CellsInv(s, m, w)
    <2>1. \A p \in deq .. enq - 1 :
            IF m # NoValue /\ p = deq THEN s.data[CellOf(p)] = NoValue
            ELSE s.data[CellOf(p)] \in Value
      <3> TAKE p \in deq .. enq - 1
      <3>1. CASE p = deq
        BY <3>1, <1>9, <1>11, NoValueAssumption DEF d
      <3>2. CASE p # deq
        <4>1. r.data[CellOf(p)] \in Value
          BY DEF CellsInv
        <4> QED BY <3>2, <4>1, <1>10
      <3> QED BY <3>1, <3>2
    <2>2. \A i \in Cells \ Alive(r) : s.data[i] = IF i = CellOf(enq) THEN w ELSE NoValue
      BY <1>3, <1>5 DEF CellsInv
    <2>3. w # NoValue => enq - deq < Capacity
      BY DEF CellsInv
    <2> QED BY <2>1, <2>2, <2>3, <1>1, <1>2, <1>6, <1>7 DEF CellsInv
  <1>13. Elements(s, m) = Elements(r, NoValue)
    <2>1. \A i \in 1 .. enq - deq :
            (IF i = 1 /\ m # NoValue THEN m ELSE s.data[CellOf(deq + i - 1)])
              = r.data[CellOf(deq + i - 1)]
      <3> TAKE i \in 1 .. enq - deq
      <3>1. CASE i = 1
        <4>1. deq + i - 1 = deq
          BY <3>1, <1>1
        <4>2. m # NoValue
          BY <1>9, NoValueAssumption
        <4> QED BY <3>1, <4>1, <4>2, <1>11 DEF d
      <3>2. CASE i # 1
        <4>1. deq + i - 1 \in deq .. enq - 1 /\ deq + i - 1 # deq
          BY <3>2, <1>1
        <4> QED BY <3>2, <4>1, <1>10
      <3> QED BY <3>1, <3>2
    <2>2. Elements(r, NoValue) = [i \in 1 .. enq - deq |-> r.data[CellOf(deq + i - 1)]]
      BY DEF Elements
    <2>3. Elements(s, m) = [i \in 1 .. enq - deq |->
                              IF i = 1 /\ m # NoValue THEN m ELSE s.data[CellOf(deq + i - 1)]]
      BY <1>6 DEF Elements
    <2> QED BY <2>1, <2>2, <2>3, ZenonT(40)
  <1> QED
    BY <1>6, <1>8, <1>9, <1>12, <1>13

\* The element moved out is no longer the block's.
LEMMA AdvanceCell ==
  ASSUME NEW r \in BlockType, NEW m \in Value, NEW w \in Value \cup {NoValue},
         CellsInv(r, m, w), NEW s, s = [r EXCEPT !.dequeue_pos = @ + 1]
  PROVE  /\ s \in BlockType /\ CellsInv(s, NoValue, w)
         /\ Elements(r, m) # << >> /\ Head(Elements(r, m)) = m
         /\ Elements(s, NoValue) = Tail(Elements(r, m))
         /\ s.next = r.next /\ s.enqueue_pos = r.enqueue_pos
         /\ s.dequeue_pos = r.dequeue_pos + 1 /\ r.dequeue_pos < r.enqueue_pos
  <1> DEFINE enq == r.enqueue_pos
             deq == r.dequeue_pos
             d == CellOf(deq)
  <1>1. /\ enq \in Nat /\ deq \in Nat /\ r.next \in Nodes \cup {Null}
        /\ r.data \in [Cells -> Value \cup {NoValue}]
        /\ s = [data |-> r.data, enqueue_pos |-> enq,
                dequeue_pos |-> deq + 1, next |-> r.next]
    BY BlockFields
  <1>2. m # NoValue
    BY NoValueAssumption
  <1>3. /\ deq < enq /\ enq - deq <= Capacity /\ deq \in deq .. enq - 1
        /\ w # NoValue => enq - deq < Capacity
    BY <1>1, <1>2 DEF CellsInv
  <1>4. s.data = r.data /\ s.enqueue_pos = enq /\ s.dequeue_pos = deq + 1 /\ s.next = r.next
    BY <1>1
  <1>5. s \in BlockType
    BY <1>1 DEF BlockType
  <1>6. r.data[d] = NoValue /\ d \in Cells
    BY <1>1, <1>2, <1>3, CellType DEF CellsInv
  <1>7. d = CellOf(enq) => w = NoValue
    BY <1>1, <1>3, SameCell, CapacityAssumption
  <1>8. Alive(r) = Alive(s) \cup {d}
    <2>1. deq .. enq - 1 = (deq + 1 .. enq - 1) \cup {deq}
      BY <1>1, <1>3
    <2> QED BY <2>1, <1>4 DEF Alive
  <1>9. CellsInv(s, NoValue, w)
    <2>1. \A p \in deq + 1 .. enq - 1 : s.data[CellOf(p)] \in Value
      <3> TAKE p \in deq + 1 .. enq - 1
      <3>1. p \in deq .. enq - 1 /\ p # deq
        BY <1>1
      <3> QED BY <3>1, <1>4 DEF CellsInv
    <2>2. \A i \in Cells \ Alive(s) : s.data[i] = IF i = CellOf(enq) THEN w ELSE NoValue
      <3> TAKE i \in Cells \ Alive(s)
      <3>1. CASE i = d
        BY <3>1, <1>4, <1>6, <1>7
      <3>2. CASE i # d
        BY <3>2, <1>4, <1>8 DEF CellsInv
      <3> QED BY <3>1, <3>2
    <2>3. deq + 1 <= enq /\ enq - (deq + 1) <= Capacity
          /\ (w # NoValue => enq - (deq + 1) < Capacity)
      BY <1>1, <1>3, CapacityAssumption
    <2> HIDE DEF d, enq, deq
    <2>4. \A p \in s.dequeue_pos .. s.enqueue_pos - 1 : s.data[CellOf(p)] \in Value
      BY <2>1, <1>1, <1>4
    <2>5. /\ s.dequeue_pos <= s.enqueue_pos /\ s.enqueue_pos - s.dequeue_pos <= Capacity
          /\ w # NoValue => s.enqueue_pos - s.dequeue_pos < Capacity
      BY <2>3, <1>1, <1>4
    <2>6. \A i \in Cells \ Alive(s) : s.data[i] = IF i = CellOf(s.enqueue_pos) THEN w ELSE NoValue
      BY <2>2, <1>4
    <2> QED BY <2>4, <2>5, <2>6, Zenon DEF CellsInv
  <1>10. PICK n \in Nat : n + 1 = enq - deq
    <2>1. enq - deq - 1 \in Nat /\ (enq - deq - 1) + 1 = enq - deq
      BY <1>1, <1>3
    <2> QED BY <2>1
  <1> DEFINE E == Elements(r, m)
  <1>11. /\ E \in Seq(Value) /\ Len(E) = n + 1
         /\ \A i \in 1 .. n + 1 : E[i] = IF i = 1 THEN m ELSE r.data[CellOf(deq + i - 1)]
    BY <1>2, <1>10, ElementsAre
  <1> HIDE DEF E
  <1>12. E # << >> /\ Head(E) = m
    <2>1. 1 \in 1 .. n + 1 /\ Len(E) # 0
      BY <1>11
    <2>2. E # << >>
      BY <1>11, <2>1, EmptySeq
    <2> QED BY <1>11, <2>1, <2>2, HeadTailProperties
  <1>13. /\ Tail(E) \in Seq(Value) /\ Len(Tail(E)) = n
         /\ \A i \in 1 .. n : Tail(E)[i] = E[i + 1]
    BY <1>11, <1>12, HeadTailProperties
  <1>14. Elements(s, NoValue) = Tail(E)
    <2>1. Elements(s, NoValue) = [i \in 1 .. n |-> r.data[CellOf(deq + 1 + i - 1)]]
      <3>1. s.enqueue_pos - s.dequeue_pos = n
        BY <1>1, <1>4, <1>10
      <3> QED BY <3>1, <1>4 DEF Elements
    <2>2. \A i \in 1 .. n : Tail(E)[i] = r.data[CellOf(deq + 1 + i - 1)]
      <3> TAKE i \in 1 .. n
      <3>1. i + 1 \in 1 .. n + 1 /\ i + 1 # 1 /\ deq + (i + 1) - 1 = deq + 1 + i - 1
        BY <1>1
      <3> QED BY <3>1, <1>11, <1>13
    <2>3. Tail(E) = [i \in 1 .. n |-> Tail(E)[i]]
      BY <1>13, LenProperties
    <2> QED BY <2>1, <2>2, <2>3, Zenon
  <1> QED
    BY <1>3, <1>4, <1>5, <1>9, <1>12, <1>14 DEF E

\* The block gets a successor.
LEMMA LinkCell ==
  ASSUME NEW r \in BlockType, NEW m, NEW w, CellsInv(r, m, w), NEW n \in Nodes,
         NEW s, s = [r EXCEPT !.next = n]
  PROVE  /\ s \in BlockType /\ CellsInv(s, m, w) /\ Elements(s, m) = Elements(r, m)
         /\ s.next = n /\ s.enqueue_pos = r.enqueue_pos /\ s.dequeue_pos = r.dequeue_pos
  <1>1. /\ r.enqueue_pos \in Nat /\ r.dequeue_pos \in Nat
        /\ r.data \in [Cells -> Value \cup {NoValue}]
        /\ s = [data |-> r.data, enqueue_pos |-> r.enqueue_pos,
                dequeue_pos |-> r.dequeue_pos, next |-> n]
    BY BlockFields
  <1>2. /\ s.data = r.data /\ s.enqueue_pos = r.enqueue_pos
        /\ s.dequeue_pos = r.dequeue_pos /\ s.next = n
    BY <1>1
  <1>3. s \in BlockType
    BY <1>1 DEF BlockType
  <1>4. Alive(s) = Alive(r) /\ Elements(s, m) = Elements(r, m)
    BY <1>2 DEF Alive, Elements
  <1>5. CellsInv(s, m, w)
    BY <1>2, <1>4 DEF CellsInv
  <1> QED
    BY <1>2, <1>3, <1>4, <1>5

-----------------------------------------------------------------------------
(* The slot                                                                *)

SlotType ==
  /\ counter \in Int /\ sema \in Nat /\ tokens \in Nat /\ spins \in Nat
  /\ call \in {"try_get", "wait_and_get"}

\* No step of the queue takes a token that is not there, or leaves a post behind.
LEMMA SlotHolds ==
  ASSUME TypeOK, SlotInv, [Next]_vars
  PROVE  SlotInv' /\ SlotType'
  <1> USE DEF SlotInv, SlotType, CounterIsExact, NoStalePost, Claimed, Posted
  <1>0. SlotType /\ cpc # "timed" /\ cpc # "restore" /\ cpc # "retract" /\ cpc # "try_sema"
    BY DEF TypeOK
  <1>1. CASE UNCHANGED vars
    BY <1>0, <1>1 DEF vars, slot
  <1>2. CASE CallPush
    BY <1>0, <1>2 DEF CallPush, slotButPpc
  <1>3. CASE TryEnqueue
    BY <1>0, <1>3 DEF TryEnqueue, slotButPpc
  <1>4. CASE WriteData
    BY <1>0, <1>4 DEF WriteData, slotButPpc
  <1>5. CASE PublishEnq
    BY <1>0, <1>5 DEF PublishEnq, slotButPpc
  <1>6. CASE NewBlock
    BY <1>0, <1>6 DEF NewBlock, slotButPpc
  <1>7. CASE LinkNext
    BY <1>0, <1>7 DEF LinkNext, slotButPpc
  <1>8. CASE MoveTail
    BY <1>0, <1>8 DEF MoveTail, slotButPpc
  <1>9. CASE AddToken
    BY <1>0, <1>9 DEF AddToken
  <1>10. CASE Post
    BY <1>0, <1>10 DEF Post
  <1>11. CASE TryGet
    BY <1>0, <1>11 DEF TryGet, shared
  <1>12. CASE GetWithSleep("wait_and_get")
    BY <1>0, <1>12, SpinCountAssumption DEF GetWithSleep, shared
  <1>13. CASE Spin
    BY <1>0, <1>13 DEF Spin, shared
  <1>14. CASE TakeToken
    BY <1>0, <1>14 DEF TakeToken
  <1>15. CASE Claim
    BY <1>0, <1>15 DEF Claim
  <1>16. CASE Wake
    BY <1>0, <1>16 DEF Wake
  <1>17. CASE DequeueHead
    BY <1>0, <1>17 DEF DequeueHead, slotButCpc
  <1>18. CASE DequeueNext
    BY <1>0, <1>18 DEF DequeueNext, slotButCpc
  <1>19. CASE ReadData
    BY <1>0, <1>19 DEF ReadData, slotButCpc
  <1>20. CASE AdvanceDeq
    BY <1>0, <1>20 DEF AdvanceDeq, slotButCpc
  <1>21. CASE DeleteHead
    BY <1>0, <1>21 DEF DeleteHead, slotButCpc
  <1>22. CASE Size
    BY <1>0, <1>22 DEF Size, slotButCpc
  <1>23. CASE CountBlock
    BY <1>0, <1>23 DEF CountBlock, slotButCpc
  <1>24. CASE WalkOn
    BY <1>0, <1>24 DEF WalkOn, slotButCpc
  <1>25. CASE Empty
    BY <1>0, <1>25 DEF Empty, slotButCpc
  <1>26. CASE EmptyResult
    BY <1>0, <1>26 DEF EmptyResult, slotButCpc
  <1>27. CASE Destroy
    BY <1>0, <1>27 DEF Destroy
  <1>28. CASE DeleteBlock
    BY <1>0, <1>28 DEF DeleteBlock, slot
  <1>29. CASE Construct
    BY <1>0, <1>29 DEF Construct
  <1> QED
    BY <1>1, <1>2, <1>3, <1>4, <1>5, <1>6, <1>7, <1>8, <1>9, <1>10, <1>11, <1>12, <1>13,
       <1>14, <1>15, <1>16, <1>17, <1>18, <1>19, <1>20, <1>21, <1>22, <1>23, <1>24, <1>25,
       <1>26, <1>27, <1>28, <1>29
       DEF Next, Signal, GetToken

-----------------------------------------------------------------------------
(* The chain                                                               *)

\* What every step does: it keeps the invariant, and is a step of the FIFO queue.
StepHolds == IInv' /\ [Fifo!Next]_(Fifo!vars)

First == IF cpc = "destroy" THEN curr ELSE head_block

\* The invariant names the chain itself.
LEMMA ChainOf ==
  ASSUME NEW c, ChainInv(c)
  PROVE  Chain = c /\ Items = ItemsOf(c)
  <1>1. Chain = c
    BY TheChain DEF ChainInv, Chain
  <1> QED
    BY <1>1 DEF Items

LEMMA ChainOfNext ==
  ASSUME NEW c, TypeOK', SlotInv', ChainInv(c)'
  PROVE  IInv' /\ Items' = ItemsOf(c)'
  <1>1. Chain' = c
    BY TheChain DEF ChainInv, Chain
  <1> QED
    BY <1>1 DEF IInv, Items

\* What the invariant says of the blocks of the chain.
LEMMA ChainFacts ==
  ASSUME NEW c, TypeOK, ChainInv(c)
  PROVE  /\ c \in Seq(Nodes) /\ Len(c) \in Nat /\ IsChain(c, First, successor)
         /\ \A i \in 1 .. Len(c) : c[i] \in On(c)
         /\ \A i, j \in 1 .. Len(c) : c[i] = c[j] => i = j
         /\ \A b \in On(c) : /\ b \in Nodes /\ block[b] \in BlockType /\ block[b] # Null
                             /\ successor[b] = block[b].next
                             /\ CellsInv(block[b], Moved(b), Written(b))
         /\ \A b : Moved(b) \in Value \cup {NoValue} /\ Written(b) \in Value \cup {NoValue}
  <1>1. c \in Seq(Nodes) /\ IsChain(c, First, successor) /\ \A b \in On(c) : block[b] # Null
    BY DEF ChainInv, BlocksInv, First
  <1>2. Len(c) \in Nat /\ \A i \in 1 .. Len(c) : c[i] \in Nodes
    BY <1>1, LenProperties, ElementOfSeq
  <1>3. \A i \in 1 .. Len(c) : c[i] \in On(c)
    BY DEF On
  <1>4. \A b \in On(c) : b \in Nodes
    BY <1>2 DEF On
  <1>5. \A b \in On(c) : block[b] \in BlockType /\ successor[b] = block[b].next
    BY <1>1, <1>4 DEF TypeOK, successor
  <1>6. \A b \in On(c) : CellsInv(block[b], Moved(b), Written(b))
    BY DEF ChainInv
  <1>7. \A b : Moved(b) \in Value \cup {NoValue} /\ Written(b) \in Value \cup {NoValue}
    BY DEF Moved, Written, TypeOK
  <1>8. \A i, j \in 1 .. Len(c) : c[i] = c[j] => i = j
    BY <1>1 DEF IsChain
  <1> QED
    BY <1>1, <1>2, <1>3, <1>4, <1>5, <1>6, <1>7, <1>8

\* Its ends, while the queue is in use.
LEMMA EndFacts ==
  ASSUME NEW c, TypeOK, ChainInv(c), cpc # "destroy"
  PROVE  /\ c # << >> /\ Len(c) \in Nat \ {0} /\ 1 \in 1 .. Len(c) /\ Len(c) \in 1 .. Len(c)
         /\ IsChain(c, head_block, successor)
         /\ head_block = c[1] /\ head_block \in On(c) /\ head_block \in Nodes
         /\ next_block = IF Len(c) = 1 THEN Null ELSE c[2]
         /\ Len(c) # 1 => 2 \in 1 .. Len(c) /\ c[2] \in On(c) /\ c[2] # head_block
                          /\ next_block = c[2] /\ next_block # Null
         /\ c[Len(c)] \in On(c) /\ successor[c[Len(c)]] = Null
         /\ tail_block \in On(c) /\ tail_block \in Nodes
         /\ Source \in On(c)
         /\ IF cpc \in {"read_next", "advance_next"} THEN Source = next_block ELSE Source = head_block
         /\ Leaving => /\ Len(c) # 1 /\ tail_block # head_block /\ IsEmpty(head_block)
         /\ ppc # "move_tail" => tail_block = c[Len(c)]
         /\ ppc = "move_tail" => /\ Len(c) # 1 /\ tail_block = c[Len(c) - 1] /\ new_block = c[Len(c)]
                                 /\ Len(c) - 1 \in 1 .. Len(c)
  <1>1. c # << >> /\ Len(c) \in Nat
    BY ChainFacts DEF ChainInv, BlocksInv
  <1>2. Len(c) \in Nat \ {0} /\ 1 \in 1 .. Len(c) /\ Len(c) \in 1 .. Len(c)
    BY <1>1, ChainFacts, EmptySeq
  <1>3. IsChain(c, head_block, successor)
    BY ChainFacts DEF First
  <1>4. head_block = c[1] /\ successor[c[Len(c)]] = Null
    BY <1>1, <1>2, <1>3 DEF IsChain
  <1>5. head_block \in On(c) /\ head_block \in Nodes /\ c[Len(c)] \in On(c)
    BY <1>2, <1>4, ChainFacts
  <1>6. next_block = IF Len(c) = 1 THEN Null ELSE c[2]
    <2>1. next_block = successor[c[1]]
      BY <1>4, <1>5, ChainFacts DEF next_block
    <2>2. successor[c[1]] = IF 1 = Len(c) THEN Null ELSE c[1 + 1]
      BY <1>2, <1>3 DEF IsChain
    <2> QED BY <2>1, <2>2
  <1>7. Len(c) # 1 => 2 \in 1 .. Len(c) /\ c[2] \in On(c) /\ c[2] # head_block
                      /\ next_block = c[2] /\ next_block # Null
    <2>1. Len(c) # 1 => 2 \in 1 .. Len(c)
      <3>1. \A n \in Nat \ {0} : n # 1 => 2 \in 1 .. n
        OBVIOUS
      <3> QED BY <3>1, <1>2, Zenon
    <2>2. 2 \in 1 .. Len(c) => c[2] \in On(c) /\ c[2] \in Nodes /\ c[2] # c[1]
      BY <1>2, ChainFacts
    <2> QED BY <2>1, <2>2, <1>4, <1>6, NullAssumption
  <1>8. /\ ppc # "move_tail" => tail_block = c[Len(c)]
        /\ ppc = "move_tail" => Len(c) > 1 /\ tail_block = c[Len(c) - 1] /\ new_block = c[Len(c)]
    BY DEF ChainInv, ProducerInv
  <1>9. ppc = "move_tail" => Len(c) # 1 /\ Len(c) - 1 \in 1 .. Len(c)
    BY <1>2, <1>8
  <1>10. tail_block \in On(c) /\ tail_block \in Nodes
    BY <1>2, <1>8, <1>9, ChainFacts
  <1>11. Leaving => Len(c) # 1 /\ tail_block # head_block /\ IsEmpty(head_block)
    <2> SUFFICES ASSUME Leaving PROVE Len(c) # 1 /\ tail_block # head_block /\ IsEmpty(head_block)
      OBVIOUS
    <2>1. IsEmpty(head_block) /\ Len(c) > (IF ppc = "move_tail" THEN 2 ELSE 1)
      BY DEF ChainInv, ConsumerInv
    <2>2. PICK k \in 1 .. Len(c) : tail_block = c[k] /\ k # 1
      <3>1. CASE ppc = "move_tail"
        BY <3>1, <2>1, <1>2, <1>8, <1>9
      <3>2. CASE ppc # "move_tail"
        BY <3>2, <2>1, <1>2, <1>8
      <3> QED BY <3>1, <3>2
    <2>3. c[k] # c[1]
      BY <2>2, <1>2, ChainFacts
    <2> QED BY <2>1, <2>2, <2>3, <1>2, <1>4
  <1>12. IF cpc \in {"read_next", "advance_next"} THEN Source = next_block ELSE Source = head_block
    BY DEF Source
  <1>13. Source \in On(c)
    BY <1>5, <1>7, <1>11, <1>12 DEF Leaving
  <1> QED
    BY <1>1, <1>2, <1>3, <1>4, <1>5, <1>6, <1>7, <1>8, <1>9, <1>10, <1>11, <1>12, <1>13

\* What the blocks hold.
LEMMA ContentsFacts ==
  ASSUME NEW c, TypeOK, ChainInv(c)
  PROVE  /\ contents \in [Nodes -> Seq(Value)]
         /\ \A b \in On(c) : /\ contents[b] = Elements(block[b], Moved(b))
                             /\ Len(contents[b]) = block[b].enqueue_pos - block[b].dequeue_pos
                             /\ Len(contents[b]) \in Nat
                             /\ contents[b] = << >> <=> IsEmpty(b)
  <1>1. ASSUME NEW b \in On(c)
        PROVE  /\ contents[b] = Elements(block[b], Moved(b)) /\ contents[b] \in Seq(Value)
               /\ Len(contents[b]) = block[b].enqueue_pos - block[b].dequeue_pos
               /\ Len(contents[b]) \in Nat
               /\ contents[b] = << >> <=> IsEmpty(b)
    <2>1. contents[b] = Elements(block[b], Moved(b))
      BY ChainFacts DEF contents
    <2>2. /\ contents[b] \in Seq(Value)
          /\ Len(contents[b]) = block[b].enqueue_pos - block[b].dequeue_pos
      BY <2>1, ChainFacts, ElementsAre
    <2>3. Len(contents[b]) \in Nat /\ (contents[b] = << >> <=> Len(contents[b]) = 0)
      BY <2>2, LenProperties, EmptySeq
    <2>4. block[b].enqueue_pos \in Nat /\ block[b].dequeue_pos \in Nat
      BY ChainFacts DEF BlockType
    <2>5. contents[b] = << >> <=> IsEmpty(b)
      BY <2>2, <2>3, <2>4 DEF IsEmpty
    <2> QED BY <2>1, <2>2, <2>3, <2>5
  <1>2. ASSUME NEW b \in Nodes PROVE contents[b] \in Seq(Value)
    <2>1. CASE block[b] = Null
      <3>1. contents[b] = << >>
        BY <2>1 DEF contents
      <3> QED BY <3>1, EmptySeq
    <2>2. CASE block[b] # Null /\ b \in On(c)
      BY <2>2, <1>1
    <2>3. CASE block[b] # Null /\ b \notin On(c)
      <3>1. block[b] = BlockOf(pvalue) /\ pvalue \in Value /\ cpc # "destroy"
        BY <2>3 DEF ChainInv, BlocksInv, ProducerInv
      <3>2. Moved(b) = NoValue
        BY <2>3, <3>1, EndFacts DEF Moved
      <3>3. contents[b] = << pvalue >>
        BY <2>3, <3>1, <3>2, NewBlocks DEF contents
      <3> QED BY <3>1, <3>3
    <2> QED BY <2>1, <2>2, <2>3
  <1>3. contents = [b \in Nodes |-> contents[b]]
    BY DEF contents
  <1>4. contents \in [Nodes -> Seq(Value)]
    BY <1>2, <1>3, Zenon
  <1> QED
    BY <1>1, <1>4

-----------------------------------------------------------------------------
(* Steps that leave the blocks alone                                       *)

Quiet ==
  /\ UNCHANGED <<block, head_block, cvalue, out>>
  /\ cpc # "destroy" /\ cpc' # "destroy"
  /\ cpc' = cpc \/ (cpc \notin {"advance", "advance_next"} /\ cpc' \notin {"advance", "advance_next"})
  /\ UNCHANGED <<ppc, pvalue, tail_block>> \/ (ppc # "publish" /\ ppc' # "publish")

LEMMA QuietFacts ==
  ASSUME Quiet
  PROVE  /\ successor' = successor /\ contents' = contents /\ next_block' = next_block
         /\ \A b : /\ Moved(b)' = Moved(b) /\ Written(b)' = Written(b)
                   /\ IsEmpty(b)' = IsEmpty(b)
         /\ \A c : Prefixes(c)' = Prefixes(c) /\ ItemsOf(c)' = ItemsOf(c)
  <1>1. block' = block /\ head_block' = head_block /\ cvalue' = cvalue
    BY DEF Quiet
  <1>2. successor' = successor /\ next_block' = next_block
    BY <1>1 DEF successor, next_block
  <1>3. cpc' = cpc => Source' = Source
    BY <1>1, <1>2 DEF Source
  <1>4. \A b : Moved(b)' = Moved(b)
    BY <1>1, <1>3 DEF Moved, Quiet
  <1>5. \A b : Written(b)' = Written(b)
    BY DEF Written, Quiet
  <1>6. contents' = contents
    BY <1>1, <1>4 DEF contents
  <1>7. \A c : Prefixes(c)' = Prefixes(c)
    BY <1>6 DEF Prefixes
  <1>8. \A c : ItemsOf(c)' = ItemsOf(c)
    BY <1>7 DEF ItemsOf, Quiet
  <1>9. \A b : IsEmpty(b)' = IsEmpty(b)
    BY <1>1 DEF IsEmpty
  <1> QED
    BY <1>2, <1>4, <1>5, <1>6, <1>7, <1>8, <1>9

LEMMA QuietHolds ==
  ASSUME Quiet, NEW c, TypeOK, ChainInv(c), TypeOK', SlotInv', BlocksInv(c)',
         ProducerInv(c)', ConsumerInv(c)', TokensInv(c)', WalkInv(c)'
  PROVE  StepHolds
  <1>1. c \in Seq(Nodes) /\ IsChain(c, First, successor)'
    <2>1. First' = First
      BY DEF Quiet, First
    <2> QED BY <2>1, ChainFacts, QuietFacts
  <1>2. \A b \in On(c) : CellsInv(block'[b], Moved(b)', Written(b)')
    BY ChainFacts, QuietFacts DEF Quiet
  <1>3. ChainInv(c)'
    BY <1>1, <1>2 DEF ChainInv, First
  <1>4. IInv' /\ Items' = Items
    <2>1. IInv' /\ Items' = ItemsOf(c)'
      BY <1>3, ChainOfNext
    <2> QED BY <2>1, ChainOf, QuietFacts
  <1> QED
    BY <1>4 DEF StepHolds, Quiet, Fifo!vars

\* The producer's, of which size() and empty() see nothing.
LEMMA ProducerQuietHolds ==
  ASSUME Quiet, NEW c, TypeOK, ChainInv(c), TypeOK', SlotInv', ProducerInv(c)', TokensInv(c)',
         UNCHANGED <<cpc, walk>>, ppc # "link", ppc' # "link",
         ppc' = "move_tail" => ppc = "move_tail"
  PROVE  StepHolds
  <1>1. BlocksInv(c)'
    BY QuietFacts DEF ChainInv, BlocksInv, Quiet
  <1>2. ConsumerInv(c)'
    <2>1. Len(c) \in Nat
      BY ChainFacts
    <2>2. Leaving => Len(c) > (IF ppc' = "move_tail" THEN 2 ELSE 1)
      BY <2>1 DEF ChainInv, ConsumerInv
    <2> QED BY <2>2, QuietFacts DEF ChainInv, ConsumerInv, Leaving, Quiet
  <1>3. WalkInv(c)'
    BY QuietFacts DEF ChainInv, WalkInv, walk
  <1> QED
    BY <1>1, <1>2, <1>3, QuietHolds

LEMMA CallPushHolds ==
  ASSUME IInv, SlotInv', SlotType', CallPush
  PROVE  StepHolds
  <1>1. PICK c : c = Chain
    OBVIOUS
  <1>2. TypeOK /\ ChainInv(c)
    BY <1>1 DEF IInv
  <1>3. /\ ppc = "idle" /\ ppc' = "enqueue" /\ pvalue' \in Value
        /\ UNCHANGED <<counter, sema, tokens, cpc, call, spins, block, head_block, tail_block,
                       new_block, seen, cvalue, walk, out>>
    BY DEF CallPush, slotButPpc
  <1>4. cpc # "destroy"
    BY <1>2, <1>3 DEF ChainInv, ProducerInv
  <1>5. Quiet
    BY <1>3, <1>4 DEF Quiet
  <1>6. TypeOK'
    BY <1>2, <1>3 DEF TypeOK, SlotType, walk
  <1>7. ProducerInv(c)'
    BY <1>2, <1>3 DEF ChainInv, ProducerInv
  <1>8. TokensInv(c)'
    BY <1>2, <1>3, <1>5, QuietFacts DEF ChainInv, TokensInv, Unsignalled, Held
  <1> QED
    BY <1>2, <1>3, <1>5, <1>6, <1>7, <1>8, ProducerQuietHolds

LEMMA TryEnqueueHolds ==
  ASSUME IInv, SlotInv', SlotType', TryEnqueue
  PROVE  StepHolds
  <1>1. PICK c : c = Chain
    OBVIOUS
  <1>2. TypeOK /\ ChainInv(c)
    BY <1>1 DEF IInv
  <1>3. /\ ppc = "enqueue" /\ seen' \in seen .. block[tail_block].dequeue_pos
        /\ ppc' = IF block[tail_block].enqueue_pos - seen' >= Capacity
                  THEN "new_block" ELSE "write"
        /\ UNCHANGED <<counter, sema, tokens, cpc, call, spins, block, head_block, tail_block,
                       new_block, pvalue, cvalue, walk, out>>
    BY DEF TryEnqueue, slotButPpc
  <1>4. cpc # "destroy"
    BY <1>2, <1>3 DEF ChainInv, ProducerInv
  <1>5. Quiet
    BY <1>3, <1>4 DEF Quiet
  <1>6. /\ block[tail_block].enqueue_pos \in Nat /\ block[tail_block].dequeue_pos \in Nat
        /\ seen \in Nat
    <2>1. block[tail_block] \in BlockType
      BY <1>2, <1>4, EndFacts, ChainFacts
    <2> QED BY <2>1, <1>2 DEF BlockType, TypeOK
  <1>7. seen' \in Nat /\ seen' <= block[tail_block].dequeue_pos
    BY <1>3, <1>6
  <1>8. TypeOK'
    BY <1>2, <1>3, <1>7 DEF TypeOK, SlotType, walk
  <1>9. ProducerInv(c)'
    <2>1. ppc' = "write" => block[tail_block].enqueue_pos - seen' < Capacity
      BY <1>3, <1>6, <1>7, CapacityAssumption
    <2> QED BY <2>1, <1>2, <1>3, <1>7 DEF ChainInv, ProducerInv
  <1>10. TokensInv(c)'
    BY <1>2, <1>3, <1>5, QuietFacts DEF ChainInv, TokensInv, Unsignalled, Held
  <1> QED
    BY <1>2, <1>3, <1>5, <1>8, <1>9, <1>10, ProducerQuietHolds

LEMMA MoveTailHolds ==
  ASSUME IInv, SlotInv', SlotType', MoveTail
  PROVE  StepHolds
  <1>1. PICK c : c = Chain
    OBVIOUS
  <1>2. TypeOK /\ ChainInv(c)
    BY <1>1 DEF IInv
  <1>3. /\ ppc = "move_tail" /\ ppc' = "signal" /\ tail_block' = new_block /\ new_block' = Null
        /\ seen' = 0
        /\ UNCHANGED <<counter, sema, tokens, cpc, call, spins, block, head_block,
                       pvalue, cvalue, walk, out>>
    BY DEF MoveTail, slotButPpc
  <1>4. cpc # "destroy"
    BY <1>2, <1>3 DEF ChainInv, ProducerInv
  <1>5. Quiet
    BY <1>3, <1>4 DEF Quiet
  <1>6. new_block = c[Len(c)] /\ new_block \in Nodes /\ block[new_block].dequeue_pos \in Nat
    <2>1. new_block = c[Len(c)] /\ new_block \in On(c)
      BY <1>2, <1>3, <1>4, EndFacts
    <2> QED BY <2>1, <1>2, ChainFacts DEF BlockType
  <1>7. TypeOK'
    BY <1>2, <1>3, <1>6 DEF TypeOK, SlotType, walk
  <1>8. ProducerInv(c)'
    BY <1>2, <1>3, <1>4, <1>6 DEF ChainInv, ProducerInv
  <1>9. TokensInv(c)'
    BY <1>2, <1>3, <1>5, QuietFacts DEF ChainInv, TokensInv, Unsignalled, Held
  <1> QED
    BY <1>2, <1>3, <1>5, <1>7, <1>8, <1>9, ProducerQuietHolds

LEMMA SignalHolds ==
  ASSUME IInv, SlotInv', SlotType', Signal
  PROVE  StepHolds
  <1>1. PICK c : c = Chain
    OBVIOUS
  <1>2. TypeOK /\ ChainInv(c)
    BY <1>1 DEF IInv
  <1>3. UNCHANGED <<cpc, call, spins, block, head_block, tail_block, new_block, seen,
                    pvalue, cvalue, walk, out>>
    BY DEF Signal, AddToken, Post, chain
  <1>4. \/ ppc = "signal" /\ ppc' \in {"post", "idle"} /\ tokens' = tokens + 1
        \/ ppc = "post" /\ ppc' = "idle" /\ tokens' = tokens
    BY DEF Signal, AddToken, Post
  <1>5. cpc # "destroy"
    BY <1>2, <1>4 DEF ChainInv, ProducerInv
  <1>6. Quiet
    BY <1>3, <1>4, <1>5 DEF Quiet
  <1>7. TypeOK'
    BY <1>2, <1>3, <1>4 DEF TypeOK, SlotType, walk
  <1>8. ProducerInv(c)'
    BY <1>2, <1>3, <1>4 DEF ChainInv, ProducerInv
  <1>9. TokensInv(c)'
    <2>1. tokens \in Nat /\ tokens' \in Nat
      BY <1>2 DEF TypeOK, SlotType
    <2>2. ItemsOf(c)' = ItemsOf(c)
      BY <1>6, QuietFacts
    <2>3. Held \in Nat /\ Held' = Held
      BY <1>3 DEF Held
    <2>4. Len(ItemsOf(c)) = tokens + Unsignalled + Held
      BY <1>2, <1>5 DEF ChainInv, TokensInv
    <2>5. Unsignalled \in Nat /\ Unsignalled' \in Nat /\ tokens + Unsignalled = tokens' + Unsignalled'
      <3>1. \/ Unsignalled = 1 /\ Unsignalled' = 0 /\ tokens' = tokens + 1
            \/ Unsignalled = 0 /\ Unsignalled' = 0 /\ tokens' = tokens
        BY <1>4 DEF Unsignalled
      <3> QED BY <3>1, <2>1
    <2>6. Len(ItemsOf(c)) = tokens' + Unsignalled' + Held
      BY <2>1, <2>3, <2>4, <2>5
    <2> QED BY <2>2, <2>3, <2>6 DEF TokensInv
  <1> QED
    BY <1>2, <1>3, <1>4, <1>6, <1>7, <1>8, <1>9, ProducerQuietHolds

\* The consumer's.
LEMMA ConsumerQuietHolds ==
  ASSUME Quiet, NEW c, TypeOK, ChainInv(c), TypeOK', SlotInv', ConsumerInv(c)', TokensInv(c)',
         WalkInv(c)', UNCHANGED <<ppc, tail_block, new_block, seen, pvalue>>, cpc # "delete"
  PROVE  StepHolds
  <1>1. BlocksInv(c)'
    BY QuietFacts DEF ChainInv, BlocksInv, Quiet
  <1>2. ProducerInv(c)'
    BY DEF ChainInv, ProducerInv, Quiet
  <1> QED
    BY <1>1, <1>2, QuietHolds

LEMMA GetTokenHolds ==
  ASSUME IInv, SlotInv', SlotType', GetToken
  PROVE  StepHolds
  <1>1. PICK c : c = Chain
    OBVIOUS
  <1>2. TypeOK /\ ChainInv(c)
    BY <1>1 DEF IInv
  <1>3. UNCHANGED <<ppc, block, head_block, tail_block, new_block, seen, pvalue, cvalue,
                    curr, count, before, out>>
    BY DEF GetToken, TryGet, GetWithSleep, Spin, TakeToken, Claim,
           Wake, shared, chain, walk
  <1>4. /\ cpc \in {"idle", "spin", "take", "claim", "sleep"}
        /\ \/ cpc' \in {"idle", "spin", "take", "claim", "sleep"} /\ tokens' = tokens
           \/ cpc' = "got" /\ tokens' = tokens - 1
    <2>1. SlotInv /\ cpc \notin {"timed", "try_sema"}
      BY <1>2 DEF IInv, TypeOK
    <2>2. CASE TryGet
      BY <2>2 DEF TryGet, shared
    <2>3. CASE GetWithSleep("wait_and_get")
      BY <2>3 DEF GetWithSleep, shared
    <2>4. CASE Spin
      BY <2>4 DEF Spin, shared
    <2>5. CASE TakeToken
      BY <2>5 DEF TakeToken
    <2>6. CASE Claim
      BY <2>1, <2>6 DEF Claim, SlotInv
    <2>7. CASE Wake
      BY <2>1, <2>7 DEF Wake
    <2> QED BY <2>2, <2>3, <2>4, <2>5, <2>6, <2>7 DEF GetToken
  <1>5. Quiet
    BY <1>3, <1>4 DEF Quiet
  <1>6. TypeOK'
    BY <1>2, <1>3, <1>4 DEF TypeOK, SlotType
  <1>7. ConsumerInv(c)'
    BY <1>2, <1>3, <1>4 DEF ChainInv, ConsumerInv, Leaving
  <1>8. TokensInv(c)'
    <2>1. tokens \in Nat /\ tokens' \in Nat /\ Unsignalled \in Nat /\ Unsignalled' = Unsignalled
      BY <1>2, <1>3 DEF TypeOK, SlotType, Unsignalled
    <2>2. Len(ItemsOf(c)) = tokens + Unsignalled + Held /\ ItemsOf(c)' = ItemsOf(c)
      BY <1>2, <1>4, <1>5, QuietFacts DEF ChainInv, TokensInv
    <2>3. \/ Held = 0 /\ Held' = 0 /\ tokens' = tokens
          \/ Held = 0 /\ Held' = 1 /\ tokens' = tokens - 1
      BY <1>4 DEF Held
    <2>4. Len(ItemsOf(c)) = tokens' + Unsignalled + Held'
      BY <2>1, <2>2, <2>3
    <2> QED BY <2>1, <2>2, <2>4 DEF TokensInv
  <1>9. WalkInv(c)'
    BY <1>2, <1>3, <1>4 DEF ChainInv, WalkInv
  <1> QED
    BY <1>2, <1>3, <1>4, <1>5, <1>6, <1>7, <1>8, <1>9, ConsumerQuietHolds

\* Items, block by block.
LEMMA ItemsFacts ==
  ASSUME NEW c, TypeOK, ChainInv(c), cpc # "destroy"
  PROVE  /\ ItemsOf(c) = Prefixes(c)[Len(c)] /\ Len(ItemsOf(c)) \in Nat
         /\ Prefixes(c)[0] = << >>
         /\ \A k \in 0 .. Len(c) : /\ Prefixes(c)[k] \in Seq(Value)
                                   /\ Len(Prefixes(c)[k]) \in Nat
                                   /\ Len(Prefixes(c)[k]) <= Len(ItemsOf(c))
         /\ Len(Prefixes(c)[1]) = Len(contents[c[1]])
         /\ Len(c) # 1 => Len(Prefixes(c)[2]) = Len(contents[c[1]]) + Len(contents[c[2]])
  <1>1. /\ c \in Seq(Nodes) /\ Len(c) \in Nat \ {0} /\ 1 \in 1 .. Len(c)
        /\ contents \in [Nodes -> Seq(Value)]
    BY ChainFacts, EndFacts, ContentsFacts
  <1>2. ItemsOf(c) = Prefixes(c)[Len(c)]
    BY DEF ItemsOf
  <1>3. \A k \in 0 .. Len(c) : Prefixes(c)[k] \in Seq(Value)
    BY <1>1, JoinType DEF Prefixes
  <1>4. \A k \in 0 .. Len(c) : Len(Prefixes(c)[k]) \in Nat
    BY <1>3, LenProperties
  <1>5. ASSUME NEW k \in 0 .. Len(c) PROVE Len(Prefixes(c)[k]) <= Len(ItemsOf(c))
    <2>1. \A m \in k .. Len(c) : Len(Joined(c, contents)[k]) <= Len(Joined(c, contents)[m])
      BY <1>1, JoinLonger
    <2>2. Len(c) \in k .. Len(c)
      BY <1>1
    <2> QED BY <2>1, <2>2, <1>2 DEF Prefixes
  <1>6. Prefixes(c)[0] = << >>
    BY <1>1, JoinSteps DEF Prefixes
  <1>7. Len(Prefixes(c)[1]) = Len(contents[c[1]])
    <2>1. /\ Len(Joined(c, contents)[1]) = Len(Joined(c, contents)[1 - 1]) + Len(contents[c[1]])
          /\ Len(contents[c[1]]) \in Nat
      BY <1>1, JoinLength
    <2>2. Len(Joined(c, contents)[1 - 1]) = 0
      <3>1. Joined(c, contents)[0] = << >>
        BY <1>6 DEF Prefixes
      <3> QED BY <3>1
    <2> QED BY <2>1, <2>2 DEF Prefixes
  <1>8. Len(c) # 1 => Len(Prefixes(c)[2]) = Len(contents[c[1]]) + Len(contents[c[2]])
    <2> SUFFICES ASSUME Len(c) # 1
                 PROVE  Len(Prefixes(c)[2]) = Len(contents[c[1]]) + Len(contents[c[2]])
      OBVIOUS
    <2>1. 2 \in 1 .. Len(c)
      BY EndFacts
    <2>2. Len(Joined(c, contents)[2]) = Len(Joined(c, contents)[2 - 1]) + Len(contents[c[2]])
      BY <2>1, <1>1, JoinLength
    <2>3. 2 - 1 = 1
      OBVIOUS
    <2>4. Len(Joined(c, contents)[2]) = Len(Joined(c, contents)[1]) + Len(contents[c[2]])
      BY <2>2, <2>3, Zenon
    <2> QED BY <2>4, <1>7 DEF Prefixes
  <1>9. Len(ItemsOf(c)) \in Nat
    <2>1. Len(c) \in 0 .. Len(c)
      BY <1>1
    <2> QED BY <2>1, <1>2, <1>4
  <1> QED
    BY <1>2, <1>3, <1>4, <1>5, <1>6, <1>7, <1>8, <1>9

\* With a token in its hand and nothing in the head block, the consumer can
\* leave it: there is another block, and the producer is past the head block.
LEMMA TokenMeansNext ==
  ASSUME NEW c, TypeOK, ChainInv(c), cpc = "got", IsEmpty(head_block)
  PROVE  Len(c) > (IF ppc = "move_tail" THEN 2 ELSE 1)
  <1>1. Len(c) \in Nat \ {0} /\ head_block = c[1] /\ head_block \in On(c)
    BY EndFacts
  <1>2. Len(contents[c[1]]) = 0
    <2>1. contents[c[1]] = << >>
      BY <1>1, ContentsFacts
    <2> QED BY <2>1
  <1>3. /\ Len(ItemsOf(c)) = tokens + Unsignalled + Held
        /\ tokens \in Nat /\ Held = 1 /\ Unsignalled \in Nat
        /\ ppc = "move_tail" => Unsignalled = 1
    BY DEF ChainInv, TokensInv, TypeOK, Held, Unsignalled
  <1>4. Len(c) # 1
    <2> SUFFICES ASSUME Len(c) = 1 PROVE FALSE
      OBVIOUS
    <2>1. Len(ItemsOf(c)) = 0
      BY <1>2, ItemsFacts
    <2> QED BY <2>1, <1>3
  <1>5. ASSUME ppc = "move_tail" PROVE Len(c) # 2
    <2> SUFFICES ASSUME Len(c) = 2 PROVE FALSE
      OBVIOUS
    <2>1. Len(ItemsOf(c)) = Len(contents[c[1]]) + Len(contents[c[2]])
      BY <1>4, ItemsFacts
    <2>2. Len(contents[c[2]]) = 1
      <3>1. c[2] \in On(c) /\ c[2] = new_block
        BY <1>4, <1>5, EndFacts
      <3>2. block[c[2]] = BlockOf(pvalue) /\ pvalue \in Value
        BY <3>1, <1>5 DEF ChainInv, ProducerInv
      <3>3. block[c[2]].enqueue_pos = 1 /\ block[c[2]].dequeue_pos = 0
        BY <3>2, NewBlocks
      <3>4. Len(contents[c[2]]) = block[c[2]].enqueue_pos - block[c[2]].dequeue_pos
        BY <3>1, ContentsFacts
      <3> QED BY <3>3, <3>4
    <2> QED BY <2>1, <2>2, <1>2, <1>3, <1>5
  <1>6. \A n \in Nat \ {0} : n # 1 => n > 1 /\ (n # 2 => n > 2)
    OBVIOUS
  <1> QED
    BY <1>1, <1>4, <1>5, <1>6, Zenon

LEMMA DequeueHolds ==
  ASSUME IInv, SlotInv', SlotType', DequeueHead \/ DequeueNext
  PROVE  StepHolds
  <1>1. PICK c : c = Chain
    OBVIOUS
  <1>2. TypeOK /\ ChainInv(c)
    BY <1>1 DEF IInv
  <1>3. /\ UNCHANGED <<counter, sema, tokens, ppc, call, spins, block, head_block, tail_block,
                       new_block, seen, pvalue, cvalue, curr, count, before, out>>
        /\ cpc \in {"got", "load_next"}
    BY DEF DequeueHead, DequeueNext, slotButCpc, chain, walk
  <1>4. \/ cpc = "got" /\ cpc' = IF IsEmpty(head_block) THEN "load_next" ELSE "read"
        \/ cpc = "load_next" /\ cpc' = "read_next"
    <2>1. ASSUME DequeueNext PROVE cpc = "load_next" /\ cpc' = "read_next"
      <3>1. cpc = "load_next" /\ cpc' = IF next_block = Null \/ IsEmpty(next_block) THEN "idle" ELSE "read_next"
        BY <2>1 DEF DequeueNext
      <3>2. 2 \in 1 .. Len(c) /\ next_block = c[2] /\ next_block # Null /\ 2 \in 2 .. Len(c)
        BY <3>1, <1>2, EndFacts DEF Leaving
      <3>3. ~ IsEmpty(c[2])
        BY <3>1, <3>2, <1>2 DEF ChainInv, BlocksInv
      <3> QED BY <3>1, <3>2, <3>3
    <2> QED BY <2>1 DEF DequeueHead
  <1>5. Quiet
    BY <1>3, <1>4 DEF Quiet
  <1>6. TypeOK'
    BY <1>2, <1>3, <1>4 DEF TypeOK
  <1>7. ConsumerInv(c)'
    <2>1. cpc' = "read" => ~ IsEmpty(head_block)'
      BY <1>3, <1>4 DEF IsEmpty
    <2>2. Leaving' => IsEmpty(head_block) /\ Len(c) > (IF ppc = "move_tail" THEN 2 ELSE 1)
      BY <1>2, <1>4, TokenMeansNext DEF Leaving, ChainInv, ConsumerInv
    <2>3. IsEmpty(head_block)' = IsEmpty(head_block)
      BY <1>3 DEF IsEmpty
    <2>4. cpc' \in {"advance", "advance_next"} <=> cvalue' \in Value
      BY <1>2, <1>3, <1>4 DEF ChainInv, ConsumerInv
    <2> QED BY <2>1, <2>2, <2>3, <2>4, <1>3 DEF ConsumerInv
  <1>8. TokensInv(c)'
    <2>1. Held' = Held /\ Unsignalled' = Unsignalled
      BY <1>3, <1>4 DEF Held, Unsignalled
    <2> QED BY <2>1, <1>2, <1>3, <1>5, QuietFacts DEF ChainInv, TokensInv, Quiet
  <1>9. WalkInv(c)'
    BY <1>2, <1>3, <1>4 DEF ChainInv, WalkInv
  <1> QED
    BY <1>2, <1>3, <1>4, <1>5, <1>6, <1>7, <1>8, <1>9, ConsumerQuietHolds

-----------------------------------------------------------------------------
(* size and empty                                                          *)

\* k blocks are walked; next, or still, the consumer is at curr.
WalkedTo(k, c) ==
  /\ k \in 0 .. Len(c)
  /\ IF cpc = "walk" THEN k > 0 /\ curr = c[k] ELSE k < Len(c) /\ curr = c[k + 1]
  /\ count <= Len(Prefixes(c)[k])
  /\ before <= count + Len(ItemsOf(c)) - Len(Prefixes(c)[k])

\* Their steps change only the consumer's own variables.
LEMMA ReadOnlyHolds ==
  ASSUME NEW c, TypeOK, ChainInv(c), SlotInv', SlotType',
         UNCHANGED <<counter, sema, tokens, call, spins, ppc, block, head_block, tail_block,
                     new_block, seen, pvalue, cvalue, out>>,
         cpc \in {"idle", "count", "walk", "empty"}, cpc' \in {"idle", "count", "walk", "empty"},
         curr' \in Nodes \cup {Null}, count' \in Nat, before' \in Nat,
         cpc' \in {"idle", "empty"} => curr' = Null,
         cpc' \in {"count", "walk"} => \E k : WalkedTo(k, c)',
         cpc' = "empty" /\ next_block = Null => before' = 0
  PROVE  StepHolds
  <1>1. Quiet
    BY DEF Quiet
  <1>2. TypeOK'
    BY DEF TypeOK
  <1>3. ConsumerInv(c)'
    BY DEF ChainInv, ConsumerInv, Leaving
  <1>4. TokensInv(c)'
    <2>1. Held' = Held /\ Unsignalled' = Unsignalled
      BY DEF Held, Unsignalled
    <2> QED BY <2>1, <1>1, QuietFacts DEF ChainInv, TokensInv, Quiet
  <1>5. WalkInv(c)'
    <2>1. next_block' = next_block
      BY <1>1, QuietFacts
    <2> QED BY <2>1 DEF WalkInv, WalkedTo
  <1> QED
    BY <1>1, <1>2, <1>3, <1>4, <1>5, ConsumerQuietHolds

LEMMA SizeHolds ==
  ASSUME IInv, SlotInv', SlotType', Size
  PROVE  StepHolds
  <1>1. PICK c : c = Chain
    OBVIOUS
  <1>2. TypeOK /\ ChainInv(c) /\ Items = ItemsOf(c)
    BY <1>1, ChainOf DEF IInv
  <1>3. /\ cpc = "idle" /\ cpc' = "count" /\ curr' = head_block /\ count' = 0
        /\ before' = Len(ItemsOf(c))
        /\ UNCHANGED <<counter, sema, tokens, call, spins, ppc, block, head_block, tail_block,
                       new_block, seen, pvalue, cvalue, out>>
    BY <1>2 DEF Size, slotButCpc
  <1>4. Quiet
    BY <1>3 DEF Quiet
  <1>5. Len(ItemsOf(c)) \in Nat /\ Prefixes(c)[0] = << >> /\ Len(c) \in Nat \ {0} /\ head_block = c[1]
    BY <1>2, <1>3, ItemsFacts, EndFacts
  <1>6. WalkedTo(0, c)'
    <2>1. Len(Prefixes(c)[0]) = 0
      BY <1>5
    <2>2. ItemsOf(c)' = ItemsOf(c) /\ Prefixes(c)' = Prefixes(c)
      BY <1>4, QuietFacts
    <2>3. 0 \in 0 .. Len(c) /\ 0 < Len(c) /\ curr' = c[0 + 1]
      BY <1>3, <1>5
    <2>4. before' <= count' + Len(ItemsOf(c)) - 0 /\ count' <= 0
      BY <1>3, <1>5
    <2> QED BY <2>1, <2>2, <2>3, <2>4, <1>3 DEF WalkedTo
  <1>7. head_block \in Nodes
    BY <1>2 DEF TypeOK
  <1> QED
    BY <1>2, <1>3, <1>5, <1>6, <1>7, ReadOnlyHolds

LEMMA CountBlockHolds ==
  ASSUME IInv, SlotInv', SlotType', CountBlock
  PROVE  StepHolds
  <1>1. PICK c : c = Chain
    OBVIOUS
  <1>2. TypeOK /\ ChainInv(c)
    BY <1>1 DEF IInv
  <1>3. /\ cpc = "count" /\ cpc' = "walk" /\ curr' = curr /\ before' = before
        /\ count' = count + CountIn(curr)
        /\ UNCHANGED <<counter, sema, tokens, call, spins, ppc, block, head_block, tail_block,
                       new_block, seen, pvalue, cvalue, out>>
    BY DEF CountBlock, slotButCpc
  <1>4. Quiet
    BY <1>3 DEF Quiet
  <1>5. PICK k \in 0 .. Len(c) :
          /\ k < Len(c) /\ curr = c[k + 1]
          /\ count <= Len(Prefixes(c)[k])
          /\ before <= count + Len(ItemsOf(c)) - Len(Prefixes(c)[k])
    BY <1>2, <1>3 DEF ChainInv, WalkInv
  <1>6. k + 1 \in 1 .. Len(c) /\ k + 1 \in 0 .. Len(c) /\ k + 1 > 0 /\ k + 1 - 1 = k /\ k \in Nat
    <2>1. Len(c) \in Nat
      BY <1>2, ChainFacts
    <2> QED BY <2>1, <1>5
  <1>7. PICK x \in Nat, y \in Nat, l \in Nat :
          /\ x = Len(Prefixes(c)[k]) /\ y = Len(contents[c[k + 1]]) /\ l = Len(ItemsOf(c))
          /\ Len(Prefixes(c)[k + 1]) = x + y
    <2>1. PICK j \in 1 .. Len(c) : j = k + 1 /\ j - 1 = k
      BY <1>6
    <2>2. /\ Len(Prefixes(c)[k + 1]) = Len(Prefixes(c)[k]) + Len(contents[c[k + 1]])
          /\ Len(contents[c[k + 1]]) \in Nat
      <3>1. c \in Seq(Nodes) /\ contents \in [Nodes -> Seq(Value)]
        BY <1>2, ChainFacts, ContentsFacts
      <3>2. /\ Len(Joined(c, contents)[j]) = Len(Joined(c, contents)[j - 1]) + Len(contents[c[j]])
            /\ Len(contents[c[j]]) \in Nat
        BY <3>1, JoinLength
      <3>3. /\ Len(Joined(c, contents)[j]) = Len(Joined(c, contents)[k]) + Len(contents[c[j]])
            /\ Len(contents[c[j]]) \in Nat
        BY <3>2, <2>1, Zenon
      <3> QED BY <3>3, <2>1, Zenon DEF Prefixes
    <2>3. Len(Prefixes(c)[k]) \in Nat /\ Len(ItemsOf(c)) \in Nat
      BY <1>2, <1>3, ItemsFacts
    <2> QED BY <2>2, <2>3, Zenon
  <1>8. count' = count + y
    <2>1. curr \in On(c)
      BY <1>2, <1>5, <1>6, ChainFacts
    <2>2. /\ y = block[curr].enqueue_pos - block[curr].dequeue_pos
          /\ block[curr].enqueue_pos \in Nat /\ block[curr].dequeue_pos \in Nat
      BY <2>1, <1>2, <1>5, <1>7, ContentsFacts, ChainFacts DEF BlockType
    <2>3. y \in Nat /\ CountIn(curr) = y
      BY <2>2, <1>7 DEF CountIn
    <2> QED BY <2>3, <1>3
  <1>9. count \in Nat /\ before \in Nat /\ curr \in Nodes \cup {Null}
    BY <1>2 DEF TypeOK
  <1>10. WalkedTo(k + 1, c)'
    <2>0. count <= x /\ before <= count + l - x
      BY <1>5, <1>7, Zenon
    <2>1. count + y <= x + y /\ before <= (count + y) + l - (x + y)
      BY <2>0, <1>9
    <2>2. ItemsOf(c)' = ItemsOf(c) /\ Prefixes(c)' = Prefixes(c)
      BY <1>4, QuietFacts
    <2> QED BY <2>1, <2>2, <1>3, <1>5, <1>6, <1>7, <1>8 DEF WalkedTo
  <1> QED
    BY <1>2, <1>3, <1>8, <1>9, <1>10, ReadOnlyHolds

LEMMA WalkOnHolds ==
  ASSUME IInv, SlotInv', SlotType', WalkOn
  PROVE  StepHolds
  <1>1. PICK c : c = Chain
    OBVIOUS
  <1>2. TypeOK /\ ChainInv(c)
    BY <1>1 DEF IInv
  <1>3. /\ cpc = "walk" /\ curr' = block[curr].next
        /\ IF curr' = Null
           THEN cpc' = "idle" /\ count' = 0 /\ before' = 0
           ELSE cpc' = "count" /\ count' = count /\ before' = before
        /\ UNCHANGED <<counter, sema, tokens, call, spins, ppc, block, head_block, tail_block,
                       new_block, seen, pvalue, cvalue, out>>
    BY DEF WalkOn, slotButCpc
  <1>4. Quiet
    BY <1>3 DEF Quiet
  <1>5. PICK k \in 0 .. Len(c) :
          /\ k > 0 /\ curr = c[k]
          /\ count <= Len(Prefixes(c)[k])
          /\ before <= count + Len(ItemsOf(c)) - Len(Prefixes(c)[k])
    BY <1>2, <1>3 DEF ChainInv, WalkInv
  <1>6. Len(c) \in Nat /\ k \in 1 .. Len(c)
    <2>1. Len(c) \in Nat
      BY <1>2, ChainFacts
    <2> QED BY <2>1, <1>5
  <1>7. curr' = IF k = Len(c) THEN Null ELSE c[k + 1]
    <2>1. curr' = successor[c[k]]
      BY <1>2, <1>3, <1>5, <1>6, ChainFacts
    <2> QED BY <2>1, <1>2, <1>6, ChainFacts DEF IsChain
  <1>8. k # Len(c) => k < Len(c) /\ c[k + 1] \in Nodes
    <2>1. k # Len(c) => k < Len(c) /\ k + 1 \in 1 .. Len(c)
      BY <1>6
    <2> QED BY <2>1, <1>2, ChainFacts
  <1>9. cpc' = "count" => WalkedTo(k, c)'
    <2>1. ItemsOf(c)' = ItemsOf(c) /\ Prefixes(c)' = Prefixes(c)
      BY <1>4, QuietFacts
    <2> QED BY <2>1, <1>3, <1>5, <1>7, <1>8 DEF WalkedTo
  <1>10. curr' \in Nodes \cup {Null} /\ count' \in Nat /\ before' \in Nat
    BY <1>2, <1>3, <1>7, <1>8 DEF TypeOK
  <1> QED
    BY <1>2, <1>3, <1>9, <1>10, ReadOnlyHolds

LEMMA EmptyHolds ==
  ASSUME IInv, SlotInv', SlotType', Empty \/ EmptyResult
  PROVE  StepHolds
  <1>1. PICK c : c = Chain
    OBVIOUS
  <1>2. TypeOK /\ ChainInv(c) /\ Items = ItemsOf(c)
    BY <1>1, ChainOf DEF IInv
  <1>3. /\ UNCHANGED <<counter, sema, tokens, call, spins, ppc, block, head_block, tail_block,
                       new_block, seen, pvalue, cvalue, curr, count, out>>
        /\ \/ /\ cpc = "idle" /\ cpc' = "empty"
              /\ IsEmpty(head_block) /\ before' = Len(ItemsOf(c))
           \/ cpc = "empty" /\ cpc' = "idle" /\ before' = 0
    BY <1>2 DEF Empty, EmptyResult, slotButCpc
  <1>4. curr = Null /\ Len(ItemsOf(c)) \in Nat
    BY <1>2, <1>3, ItemsFacts DEF ChainInv, WalkInv
  <1>5. cpc' = "empty" /\ next_block = Null => before' = 0
    <2> SUFFICES ASSUME cpc' = "empty", next_block = Null PROVE before' = 0
      OBVIOUS
    <2>1. cpc # "destroy" /\ IsEmpty(head_block) /\ before' = Len(ItemsOf(c))
      BY <1>3
    <2>2. Len(c) = 1 /\ c[1] = head_block /\ head_block \in On(c)
      BY <2>1, <1>2, EndFacts
    <2>3. Len(ItemsOf(c)) = Len(contents[c[1]]) /\ contents[c[1]] = << >>
      BY <2>1, <2>2, <1>2, ItemsFacts, ContentsFacts
    <2> QED BY <2>1, <2>3
  <1>6. before' \in Nat /\ count \in Nat
    BY <1>2, <1>3, <1>4 DEF TypeOK
  <1> QED
    BY <1>2, <1>3, <1>4, <1>5, <1>6, ReadOnlyHolds

-----------------------------------------------------------------------------
(* Steps on one block                                                      *)

\* Of all blocks only b changes, and it stays linked where it is.
OnlyBlock(b) ==
  /\ head_block' = head_block /\ cpc # "destroy" /\ cpc' # "destroy"
  /\ \A n \in Nodes \ {b} : block'[n] = block[n]
  /\ block'[b] # Null /\ block'[b].next = block[b].next

LEMMA LinksKept ==
  ASSUME NEW c, TypeOK, ChainInv(c), NEW b \in On(c), OnlyBlock(b)
  PROVE  /\ c \in Seq(Nodes) /\ IsChain(c, First, successor)'
         /\ \A n \in On(c) : block'[n] # Null
         /\ \A n \in Nodes : block'[n] = Null <=> block[n] = Null
         /\ next_block' = next_block
         /\ \A n \in Nodes \ {b} : IsEmpty(n)' = IsEmpty(n)
  <1>1. b \in Nodes /\ block[b] # Null /\ c \in Seq(Nodes) /\ IsChain(c, First, successor)
    BY ChainFacts
  <1>2. \A n \in Nodes : /\ block'[n] = Null <=> block[n] = Null
                         /\ block[n] # Null => block'[n].next = block[n].next
    BY <1>1 DEF OnlyBlock
  <1>3. successor' = successor
    BY <1>2 DEF successor
  <1>4. IsChain(c, First, successor)'
    <2>1. First' = First
      BY DEF First, OnlyBlock
    <2> QED BY <2>1, <1>1, <1>3
  <1>5. \A n \in On(c) : block'[n] # Null
    BY <1>2, ChainFacts
  <1>6. next_block' = next_block
    <2>1. head_block \in Nodes /\ block[head_block] # Null
      BY EndFacts, ChainFacts DEF OnlyBlock
    <2> QED BY <2>1, <1>2 DEF next_block, OnlyBlock
  <1>7. \A n \in Nodes \ {b} : IsEmpty(n)' = IsEmpty(n)
    BY DEF IsEmpty, OnlyBlock
  <1> QED
    BY <1>1, <1>2, <1>4, <1>5, <1>6, <1>7

\* The consumer does not get to a block the producer has not moved to.
LEMMA SourceIsOld ==
  ASSUME NEW c, TypeOK, ChainInv(c), cpc # "destroy", ppc \in {"link", "move_tail"}
  PROVE  new_block \in Nodes /\ new_block # Source
  <1>1. CASE ppc = "link"
    BY <1>1, EndFacts DEF ChainInv, ProducerInv
  <1>2. CASE ppc = "move_tail"
    <2>1. /\ new_block = c[Len(c)] /\ new_block \in On(c) /\ Len(c) \in Nat \ {0} /\ Len(c) # 1
          /\ Len(c) \in 1 .. Len(c)
      BY <1>2, EndFacts
    <2>2. PICK k \in 1 .. Len(c) : Source = c[k] /\ k # Len(c)
      <3>1. CASE cpc \in {"read_next", "advance_next"}
        <4>1. Len(c) > 2
          BY <1>2, <3>1 DEF ChainInv, ConsumerInv, Leaving
        <4>2. Source = c[2] /\ 2 \in 1 .. Len(c)
          BY <2>1, <3>1, EndFacts
        <4> QED BY <2>1, <4>1, <4>2
      <3>2. CASE cpc \notin {"read_next", "advance_next"}
        <4>1. Source = c[1] /\ 1 \in 1 .. Len(c)
          BY <3>2, EndFacts
        <4> QED BY <2>1, <4>1
      <3> QED BY <3>1, <3>2
    <2>3. c[k] # c[Len(c)]
      BY <2>1, <2>2, ChainFacts
    <2>4. new_block \in Nodes
      BY <2>1, ChainFacts
    <2> QED BY <2>1, <2>2, <2>3, <2>4
  <1> QED
    BY <1>1, <1>2

\* A step on a cell: the positions stay, and the block holds what it held.
LEMMA DataHolds ==
  ASSUME NEW c, TypeOK, ChainInv(c), TypeOK', SlotInv', NEW b \in On(c), OnlyBlock(b),
         UNCHANGED <<tokens, tail_block, new_block, seen, pvalue, curr, count, before, out>>,
         block'[b].enqueue_pos = block[b].enqueue_pos,
         block'[b].dequeue_pos = block[b].dequeue_pos,
         CellsInv(block'[b], Moved(b)', Written(b)'),
         Elements(block'[b], Moved(b)') = Elements(block[b], Moved(b)),
         \A n \in Nodes \ {b} : Moved(n)' = Moved(n) /\ Written(n)' = Written(n),
         cpc' \in {"advance", "advance_next"} <=> cvalue' \in Value,
         ppc \in {"link", "move_tail"} => new_block # b,
         \/ ppc = "write" /\ ppc' = "publish" /\ cpc' = cpc
         \/ ppc' = ppc /\ cpc = "read" /\ cpc' = "advance"
         \/ ppc' = ppc /\ cpc = "read_next" /\ cpc' = "advance_next"
  PROVE  StepHolds
  <1>1. /\ c \in Seq(Nodes) /\ IsChain(c, First, successor)'
        /\ \A n \in On(c) : block'[n] # Null
        /\ \A n \in Nodes : block'[n] = Null <=> block[n] = Null
        /\ next_block' = next_block
        /\ \A n \in Nodes \ {b} : IsEmpty(n)' = IsEmpty(n)
    BY LinksKept
  <1>2. b \in Nodes /\ \A n \in On(c) : n \in Nodes
    BY ChainFacts
  <1>3. \A n \in Nodes : /\ IsEmpty(n)' = IsEmpty(n)
                         /\ block[n] # Null =>
                              /\ block'[n].enqueue_pos = block[n].enqueue_pos
                              /\ block'[n].dequeue_pos = block[n].dequeue_pos
    BY <1>1, <1>2 DEF IsEmpty, OnlyBlock
  <1>4. contents' = contents
    <2>1. ASSUME NEW n \in Nodes
          PROVE  (IF block'[n] = Null THEN << >> ELSE Elements(block'[n], Moved(n)'))
                   = IF block[n] = Null THEN << >> ELSE Elements(block[n], Moved(n))
      <3>1. CASE n = b
        BY <3>1, <1>1
      <3>2. CASE n # b
        BY <3>2 DEF OnlyBlock
      <3> QED BY <3>1, <3>2
    <2> QED BY <2>1, Zenon DEF contents
  <1>5. Prefixes(c)' = Prefixes(c) /\ ItemsOf(c)' = ItemsOf(c)
    BY <1>4 DEF Prefixes, ItemsOf, OnlyBlock
  <1>6. (cpc # "delete" /\ cpc' # "delete") \/ cpc' = cpc
    OBVIOUS
  <1>7. ChainInv(c)'
    <2>1. BlocksInv(c)'
      <3>1. \A i \in 1 .. Len(c) : IsEmpty(c[i])' = IsEmpty(c[i])
        BY <1>2, <1>3, ChainFacts
      <3>2. 2 .. Len(c) \subseteq 1 .. Len(c)
        BY ChainFacts
      <3>3. \A i \in 2 .. Len(c) : IsEmpty(c[i])' => i = 2 /\ cpc' = "delete"
        BY <3>1, <3>2, <1>6 DEF ChainInv, BlocksInv, OnlyBlock
      <3>4. \A n \in Nodes : block'[n] # Null => n \in On(c) \/ (ppc' = "link" /\ n = new_block')
        BY <1>1 DEF ChainInv, BlocksInv
      <3>5. c # << >>
        BY EndFacts DEF OnlyBlock
      <3> QED BY <3>3, <3>4, <3>5, <1>1 DEF BlocksInv
    <2>2. \A n \in On(c) : CellsInv(block'[n], Moved(n)', Written(n)')
      <3>1. \A n \in On(c) : CellsInv(block[n], Moved(n), Written(n))
        BY ChainFacts
      <3> QED BY <3>1, <1>2 DEF OnlyBlock
    <2>3. ProducerInv(c)'
      <3>1. tail_block \in Nodes /\ block[tail_block] # Null
        BY EndFacts, ChainFacts DEF OnlyBlock
      <3>2. ppc \in {"link", "move_tail"} => block'[new_block] = block[new_block]
        <4> SUFFICES ASSUME ppc \in {"link", "move_tail"} PROVE block'[new_block] = block[new_block]
          OBVIOUS
        <4>1. new_block \in Nodes
          BY <1>2, EndFacts DEF ChainInv, ProducerInv, OnlyBlock
        <4> QED BY <4>1 DEF OnlyBlock
      <3> QED BY <3>1, <3>2, <1>3 DEF ChainInv, ProducerInv, OnlyBlock
    <2>4. ConsumerInv(c)'
      <3>1. head_block \in Nodes
        BY EndFacts DEF OnlyBlock
      <3>2. Leaving' => Leaving
        BY DEF Leaving
      <3> QED BY <3>1, <3>2, <1>3 DEF ChainInv, ConsumerInv, OnlyBlock
    <2>5. TokensInv(c)'
      <3>1. Held' = Held /\ Unsignalled' = Unsignalled
        BY DEF Held, Unsignalled
      <3> QED BY <3>1, <1>5 DEF ChainInv, TokensInv, OnlyBlock
    <2>6. WalkInv(c)'
      BY <1>1, <1>5 DEF ChainInv, WalkInv, OnlyBlock
    <2> QED BY <2>1, <2>2, <2>3, <2>4, <2>5, <2>6, <1>1 DEF ChainInv, First
  <1>8. Items' = Items
    BY <1>5, <1>7, ChainOf, ChainOfNext
  <1>9. IInv'
    BY <1>7, ChainOfNext
  <1> QED
    BY <1>8, <1>9 DEF StepHolds, Fifo!vars

LEMMA WriteDataHolds ==
  ASSUME IInv, SlotInv', SlotType', WriteData
  PROVE  StepHolds
  <1>1. PICK c : c = Chain
    OBVIOUS
  <1>2. TypeOK /\ ChainInv(c)
    BY <1>1 DEF IInv
  <1>3. PICK b, r : b = tail_block /\ r = block[b]
    OBVIOUS
  <1>4. /\ ppc = "write" /\ ppc' = "publish"
        /\ block' = [block EXCEPT ![b].data[CellOf(r.enqueue_pos)] = pvalue]
        /\ UNCHANGED <<counter, sema, tokens, cpc, call, spins, head_block, tail_block,
                       new_block, seen, pvalue, cvalue, curr, count, before, out>>
    BY <1>3 DEF WriteData, slotButPpc, walk
  <1>5. cpc # "destroy" /\ pvalue \in Value /\ r.enqueue_pos - seen < Capacity
        /\ seen <= r.dequeue_pos
    BY <1>2, <1>3, <1>4 DEF ChainInv, ProducerInv
  <1>6. /\ b \in On(c) /\ b \in Nodes /\ r \in BlockType
        /\ CellsInv(r, Moved(b), NoValue) /\ Moved(b) \in Value \cup {NoValue}
    <2>1. Written(b) = NoValue
      BY <1>4 DEF Written
    <2> QED BY <2>1, <1>2, <1>3, <1>5, EndFacts, ChainFacts
  <1>7. r.enqueue_pos - r.dequeue_pos < Capacity
    BY <1>2, <1>5, <1>6, CapacityAssumption DEF BlockType, TypeOK
  <1>8. PICK s : s = [r EXCEPT !.data[CellOf(r.enqueue_pos)] = pvalue]
    OBVIOUS
  <1>9. block'[b] = s /\ \A n \in Nodes \ {b} : block'[n] = block[n]
    BY <1>2, <1>3, <1>4, <1>6, <1>8 DEF TypeOK
  <1>10. /\ s \in BlockType /\ CellsInv(s, Moved(b), pvalue)
         /\ Elements(s, Moved(b)) = Elements(r, Moved(b))
         /\ s.next = r.next /\ s.enqueue_pos = r.enqueue_pos /\ s.dequeue_pos = r.dequeue_pos
    BY <1>5, <1>6, <1>7, <1>8, WriteCell
  <1>11. OnlyBlock(b)
    BY <1>3, <1>4, <1>5, <1>9, <1>10, DeletedAssumption DEF OnlyBlock
  <1>12. TypeOK'
    <2>1. block' \in [Nodes -> BlockType \cup {Null}]
      BY <1>2, <1>4, <1>9, <1>10 DEF TypeOK
    <2> QED BY <2>1, <1>2, <1>4 DEF TypeOK
  <1>13. \A n : Moved(n)' = Moved(n)
    <2>1. Source' = Source
      BY <1>2, <1>4, <1>6, <1>11, LinksKept DEF Source
    <2> QED BY <2>1, <1>4 DEF Moved
  <1>14. Written(b)' = pvalue /\ \A n \in Nodes \ {b} : Written(n)' = Written(n)
    BY <1>3, <1>4 DEF Written
  <1>15. cpc' \in {"advance", "advance_next"} <=> cvalue' \in Value
    BY <1>2, <1>4 DEF ChainInv, ConsumerInv
  <1> QED
    BY <1>2, <1>3, <1>4, <1>6, <1>9, <1>10, <1>11, <1>12, <1>13, <1>14, <1>15, DataHolds

\* The consumer only reads from a block with an element.
LEMMA SourceHasElement ==
  ASSUME NEW c, TypeOK, ChainInv(c), cpc \in {"read", "read_next"}
  PROVE  block[Source].dequeue_pos < block[Source].enqueue_pos
  <1>1. Source \in On(c)
    BY EndFacts
  <1>2. ~ IsEmpty(Source)
    <2>1. CASE cpc = "read"
      BY <2>1, EndFacts DEF ChainInv, ConsumerInv
    <2>2. CASE cpc = "read_next"
      <3>1. 2 \in 2 .. Len(c) /\ Source = c[2]
        BY <2>2, EndFacts DEF Leaving
      <3> QED BY <3>1, <2>2 DEF ChainInv, BlocksInv
    <2> QED BY <2>1, <2>2
  <1> QED
    BY <1>1, <1>2, ChainFacts DEF IsEmpty, BlockType, CellsInv

LEMMA ReadDataHolds ==
  ASSUME IInv, SlotInv', SlotType', ReadData
  PROVE  StepHolds
  <1>1. PICK c : c = Chain
    OBVIOUS
  <1>2. TypeOK /\ ChainInv(c)
    BY <1>1 DEF IInv
  <1>3. PICK b, r : b = Source /\ r = block[b]
    OBVIOUS
  <1>4. /\ cpc \in {"read", "read_next"}
        /\ cpc' = IF cpc = "read" THEN "advance" ELSE "advance_next"
        /\ cvalue' = r.data[CellOf(r.dequeue_pos)]
        /\ block' = [block EXCEPT ![b].data[CellOf(r.dequeue_pos)] = NoValue]
        /\ UNCHANGED <<counter, sema, tokens, ppc, call, spins, head_block, tail_block,
                       new_block, seen, pvalue, curr, count, before, out>>
    BY <1>3 DEF ReadData, slotButCpc, walk
  <1>5. /\ b \in On(c) /\ b \in Nodes /\ r \in BlockType
        /\ CellsInv(r, NoValue, Written(b)) /\ Written(b) \in Value \cup {NoValue}
    <2>1. Moved(b) = NoValue
      BY <1>4 DEF Moved
    <2> QED BY <2>1, <1>2, <1>3, <1>4, EndFacts, ChainFacts
  <1>6. r.dequeue_pos < r.enqueue_pos
    BY <1>2, <1>3, <1>4, <1>5, SourceHasElement
  <1>7. PICK s : s = [r EXCEPT !.data[CellOf(r.dequeue_pos)] = NoValue]
    OBVIOUS
  <1>8. block'[b] = s /\ \A n \in Nodes \ {b} : block'[n] = block[n]
    BY <1>2, <1>3, <1>4, <1>5, <1>7 DEF TypeOK
  <1>9. /\ cvalue' \in Value
        /\ s \in BlockType /\ CellsInv(s, cvalue', Written(b))
        /\ Elements(s, cvalue') = Elements(r, NoValue)
        /\ s.next = r.next /\ s.enqueue_pos = r.enqueue_pos /\ s.dequeue_pos = r.dequeue_pos
    BY <1>4, <1>5, <1>6, <1>7, TakeCell
  <1>10. OnlyBlock(b)
    BY <1>3, <1>4, <1>8, <1>9, DeletedAssumption DEF OnlyBlock
  <1>11. TypeOK'
    <2>1. block' \in [Nodes -> BlockType \cup {Null}]
      BY <1>2, <1>4, <1>8, <1>9 DEF TypeOK
    <2> QED BY <2>1, <1>2, <1>4, <1>9 DEF TypeOK
  <1>12. /\ Moved(b)' = cvalue' /\ Moved(b) = NoValue
         /\ \A n \in Nodes \ {b} : Moved(n)' = Moved(n)
    <2>1. Source' = b
      <3>1. next_block' = next_block
        BY <1>2, <1>5, <1>10, LinksKept
      <3> QED BY <3>1, <1>3, <1>4 DEF Source
    <2> QED BY <2>1, <1>4 DEF Moved
  <1>13. \A n : Written(n)' = Written(n)
    BY <1>4 DEF Written
  <1>14. ppc \in {"link", "move_tail"} => new_block # b
    BY <1>2, <1>3, <1>4, SourceIsOld
  <1> QED
    BY <1>2, <1>3, <1>4, <1>5, <1>8, <1>9, <1>10, <1>11, <1>12, <1>13, <1>14, DataHolds

\* An element has entered at the end of the chain, which is now d.
Grown(c, d) ==
  /\ Len(c) \in Nat /\ Len(d) \in Nat /\ Len(c) <= Len(d)
  /\ \A i \in 1 .. Len(c) : d[i] = c[i]
  /\ \E l \in Nat : Len(ItemsOf(c)) = l /\ Len(ItemsOf(d)') = l + 1
  /\ \A k \in 0 .. Len(c) : \E p \in Nat :
       Len(Prefixes(c)[k]) = p /\ Len(Prefixes(d)'[k]) \in {p, p + 1}

\* What size() has counted stays between what there was and what there is.
LEMMA WalkGrows ==
  ASSUME NEW c, NEW d, TypeOK, WalkInv(c), Grown(c, d), UNCHANGED <<cpc, curr, count, before>>,
         cpc # "destroy", next_block' = Null => next_block = Null
  PROVE  WalkInv(d)'
  <1>1. /\ Len(c) \in Nat /\ Len(d) \in Nat /\ Len(c) <= Len(d)
        /\ \A i \in 1 .. Len(c) : d[i] = c[i]
    BY DEF Grown
  <1>2. ASSUME cpc \in {"count", "walk"} PROVE \E k : WalkedTo(k, d)'
    <2>1. PICK k \in 0 .. Len(c) :
            /\ IF cpc = "walk" THEN k > 0 /\ curr = c[k] ELSE k < Len(c) /\ curr = c[k + 1]
            /\ count <= Len(Prefixes(c)[k])
            /\ before <= count + Len(ItemsOf(c)) - Len(Prefixes(c)[k])
      BY <1>2 DEF WalkInv
    <2>2. PICK l \in Nat : Len(ItemsOf(c)) = l /\ Len(ItemsOf(d)') = l + 1
      BY DEF Grown
    <2>3. PICK p \in Nat : Len(Prefixes(c)[k]) = p /\ Len(Prefixes(d)'[k]) \in {p, p + 1}
      BY DEF Grown
    <2>4. PICK q : q = Len(Prefixes(d)'[k])
      OBVIOUS
    <2>5. q \in {p, p + 1} /\ count <= p /\ before <= count + l - p
      BY <2>1, <2>2, <2>3, <2>4, Zenon
    <2>6. count \in Nat /\ before \in Nat
      BY DEF TypeOK
    <2>7. count <= q /\ before <= count + (l + 1) - q
      BY <2>5, <2>6
    <2>8. k \in 0 .. Len(d)
      BY <1>1
    <2>9. IF cpc = "walk" THEN k > 0 /\ curr = d[k] ELSE k < Len(d) /\ curr = d[k + 1]
      <3>1. CASE cpc = "walk"
        <4>1. k \in 1 .. Len(c)
          BY <3>1, <2>1, <1>1
        <4> QED BY <4>1, <3>1, <2>1, <1>1
      <3>2. CASE cpc # "walk"
        <4>1. k + 1 \in 1 .. Len(c) /\ k < Len(d)
          BY <3>2, <2>1, <1>1
        <4> QED BY <4>1, <3>2, <2>1, <1>1
      <3> QED BY <3>1, <3>2
    <2>10. WalkedTo(k, d)'
      BY <2>2, <2>4, <2>7, <2>8, <2>9 DEF WalkedTo
    <2> QED BY <2>10
  <1> QED
    BY <1>2 DEF WalkInv, WalkedTo

LEMMA PublishEnqHolds ==
  ASSUME IInv, SlotInv', SlotType', PublishEnq
  PROVE  StepHolds
  <1>1. PICK c : c = Chain
    OBVIOUS
  <1>2. TypeOK /\ ChainInv(c)
    BY <1>1 DEF IInv
  <1>3. PICK b, r : b = tail_block /\ r = block[b]
    OBVIOUS
  <1>4. /\ ppc = "publish" /\ ppc' = "signal"
        /\ block' = [block EXCEPT ![b].enqueue_pos = @ + 1]
        /\ UNCHANGED <<counter, sema, tokens, cpc, call, spins, head_block, tail_block,
                       new_block, seen, pvalue, cvalue, curr, count, before, out>>
    BY <1>3 DEF PublishEnq, slotButPpc, walk
  <1>5. cpc # "destroy" /\ pvalue \in Value /\ new_block = Null
    BY <1>2, <1>4 DEF ChainInv, ProducerInv
  <1>6. /\ b \in On(c) /\ b \in Nodes /\ r \in BlockType /\ b = c[Len(c)]
        /\ Len(c) \in Nat \ {0} /\ Len(c) \in 1 .. Len(c) /\ c \in Seq(Nodes) /\ c # << >>
        /\ CellsInv(r, Moved(b), pvalue) /\ Moved(b) \in Value \cup {NoValue}
    <2>1. Written(b) = pvalue
      BY <1>3, <1>4 DEF Written
    <2> QED BY <2>1, <1>2, <1>3, <1>4, <1>5, EndFacts, ChainFacts
  <1>7. PICK s : s = [r EXCEPT !.enqueue_pos = @ + 1]
    OBVIOUS
  <1>8. block'[b] = s /\ \A n \in Nodes \ {b} : block'[n] = block[n]
    BY <1>2, <1>3, <1>4, <1>6, <1>7 DEF TypeOK
  <1>9. /\ s \in BlockType /\ CellsInv(s, Moved(b), NoValue)
        /\ Elements(s, Moved(b)) = Append(Elements(r, Moved(b)), pvalue)
        /\ s.next = r.next /\ s.enqueue_pos = r.enqueue_pos + 1 /\ s.dequeue_pos = r.dequeue_pos
    BY <1>5, <1>6, <1>7, PublishCell
  <1>10. OnlyBlock(b)
    BY <1>3, <1>4, <1>5, <1>8, <1>9, DeletedAssumption DEF OnlyBlock
  <1>11. TypeOK'
    <2>1. block' \in [Nodes -> BlockType \cup {Null}]
      BY <1>2, <1>4, <1>8, <1>9 DEF TypeOK
    <2> QED BY <2>1, <1>2, <1>4 DEF TypeOK
  <1>12. /\ IsChain(c, First, successor)'
         /\ \A n \in On(c) : block'[n] # Null
         /\ \A n \in Nodes : block'[n] = Null <=> block[n] = Null
         /\ next_block' = next_block
         /\ \A n \in Nodes \ {b} : IsEmpty(n)' = IsEmpty(n)
    BY <1>2, <1>6, <1>10, LinksKept
  <1>13. \A n : Moved(n)' = Moved(n)
    <2>1. Source' = Source
      BY <1>4, <1>12 DEF Source
    <2> QED BY <2>1, <1>4 DEF Moved
  <1>14. \A n \in Nodes : Written(n)' = NoValue /\ (n # b => Written(n) = NoValue)
    BY <1>3, <1>4 DEF Written
  <1>15. ~ IsEmpty(b)'
    BY <1>6, <1>8, <1>9 DEF IsEmpty, CellsInv, BlockType
  <1>16. contents \in [Nodes -> Seq(Value)] /\ Grows(c, contents, contents', pvalue)
    <2>1. contents \in [Nodes -> Seq(Value)] /\ contents[b] = Elements(r, Moved(b))
      BY <1>2, <1>3, <1>6, ContentsFacts
    <2>2. contents'[b] = Elements(s, Moved(b))
      BY <1>6, <1>8, <1>10, <1>13 DEF contents, OnlyBlock
    <2>3. \A n \in Nodes \ {b} : contents'[n] = contents[n]
      BY <1>8, <1>13 DEF contents
    <2>4. \A i \in 1 .. Len(c) : i # Len(c) => c[i] \in Nodes \ {b}
      BY <1>2, <1>6, ChainFacts
    <2> QED BY <2>1, <2>2, <2>3, <2>4, <1>6, <1>9 DEF Grows
  <1>17. /\ \A k \in 0 .. Len(c) - 1 : Prefixes(c)'[k] = Prefixes(c)[k]
         /\ Prefixes(c)'[Len(c)] = Append(Prefixes(c)[Len(c)], pvalue)
    BY <1>5, <1>6, <1>16, JoinGrows DEF Prefixes
  <1>18. /\ ItemsOf(c)' = Append(ItemsOf(c), pvalue)
         /\ ItemsOf(c) \in Seq(Value) /\ Len(ItemsOf(c)) \in Nat
         /\ Len(ItemsOf(c)') = Len(ItemsOf(c)) + 1
    <2>1. ItemsOf(c) = Prefixes(c)[Len(c)] /\ ItemsOf(c)' = Prefixes(c)'[Len(c)]
      BY <1>4, <1>5 DEF ItemsOf
    <2>2. ItemsOf(c) \in Seq(Value) /\ Len(ItemsOf(c)) \in Nat
      <3>1. Len(c) \in 0 .. Len(c)
        BY <1>6
      <3> QED BY <3>1, <2>1, <1>2, <1>5, ItemsFacts
    <2>3. ItemsOf(c)' = Append(ItemsOf(c), pvalue)
      BY <2>1, <1>17
    <2>4. Len(Append(ItemsOf(c), pvalue)) = Len(ItemsOf(c)) + 1
      BY <2>2, <1>5, AppendProperties
    <2> QED BY <2>2, <2>3, <2>4
  <1>19. ChainInv(c)'
    <2>1. BlocksInv(c)'
      <3>1. \A i \in 2 .. Len(c) : IsEmpty(c[i])' => i = 2 /\ cpc' = "delete"
        <4>1. \A i \in 2 .. Len(c) : c[i] \in Nodes
          BY <1>2, ChainFacts
        <4>2. \A n \in Nodes : IsEmpty(n)' => IsEmpty(n)
          BY <1>12, <1>15
        <4> QED BY <4>1, <4>2, <1>2, <1>4, <1>5 DEF ChainInv, BlocksInv
      <3>2. \A n \in Nodes : block'[n] # Null => n \in On(c) \/ (ppc' = "link" /\ n = new_block')
        BY <1>2, <1>4, <1>12 DEF ChainInv, BlocksInv
      <3> QED BY <3>1, <3>2, <1>6, <1>12 DEF BlocksInv
    <2>2. \A n \in On(c) : CellsInv(block'[n], Moved(n)', Written(n)')
      <3>1. \A n \in On(c) : n \in Nodes /\ CellsInv(block[n], Moved(n), Written(n))
        BY <1>2, ChainFacts
      <3>2. ASSUME NEW n \in On(c) PROVE CellsInv(block'[n], Moved(n)', Written(n)')
        <4>1. CASE n = b
          BY <4>1, <1>6, <1>8, <1>9, <1>13, <1>14
        <4>2. CASE n # b
          BY <4>2, <3>1, <1>8, <1>13, <1>14
        <4> QED BY <4>1, <4>2
      <3> QED BY <3>2
    <2>3. ProducerInv(c)'
      BY <1>2, <1>3, <1>4, <1>5, <1>6, <1>8, <1>9 DEF ChainInv, ProducerInv
    <2>4. ConsumerInv(c)'
      <3>1. head_block \in Nodes /\ (Leaving => head_block # b)
        BY <1>2, <1>3, <1>5, EndFacts
      <3>2. cpc = "read" => ~ IsEmpty(head_block)'
        BY <3>1, <1>2, <1>4, <1>12, <1>15 DEF ChainInv, ConsumerInv
      <3>3. Leaving => IsEmpty(head_block)'
        BY <3>1, <1>2, <1>12, <1>4 DEF ChainInv, ConsumerInv
      <3>4. Leaving => Len(c) > 1
        BY <1>2, <1>4 DEF ChainInv, ConsumerInv
      <3>5. Leaving' = Leaving
        BY <1>4 DEF Leaving
      <3> QED BY <3>2, <3>3, <3>4, <3>5, <1>2, <1>4 DEF ChainInv, ConsumerInv
    <2>5. TokensInv(c)'
      <3>1. /\ Held' = Held /\ Held \in Nat /\ Unsignalled = 0 /\ Unsignalled' = 1
            /\ tokens \in Nat /\ tokens' = tokens
        BY <1>2, <1>4 DEF Held, Unsignalled, TypeOK
      <3>2. Len(ItemsOf(c)) = tokens + Unsignalled + Held
        BY <1>2, <1>5 DEF ChainInv, TokensInv
      <3>3. Len(ItemsOf(c)') = tokens' + Unsignalled' + Held'
        BY <3>1, <3>2, <1>18
      <3> QED BY <3>3 DEF TokensInv
    <2>6. WalkInv(c)'
      <3>1. ASSUME NEW k \in 0 .. Len(c)
            PROVE  \E p \in Nat : Len(Prefixes(c)[k]) = p /\ Len(Prefixes(c)'[k]) \in {p, p + 1}
        <4>1. CASE k \in 0 .. Len(c) - 1
          BY <4>1, <1>2, <1>5, <1>17, ItemsFacts
        <4>2. CASE k = Len(c)
          <5>1. ItemsOf(c) = Prefixes(c)[Len(c)] /\ ItemsOf(c)' = Prefixes(c)'[Len(c)]
            BY <1>4, <1>5 DEF ItemsOf
          <5> QED BY <5>1, <4>2, <1>18
        <4> QED BY <4>1, <4>2, <1>6
      <3>2. Grown(c, c)
        BY <3>1, <1>6, <1>18 DEF Grown
      <3> QED BY <3>2, <1>2, <1>4, <1>5, <1>12, WalkGrows DEF ChainInv
    <2> QED BY <2>1, <2>2, <2>3, <2>4, <2>5, <2>6, <1>6, <1>12 DEF ChainInv, First
  <1>20. Items = ItemsOf(c) /\ Items' = ItemsOf(c)' /\ IInv'
    BY <1>2, <1>11, <1>19, ChainOf, ChainOfNext
  <1>21. Fifo!Push(pvalue)
    BY <1>4, <1>18, <1>20 DEF Fifo!Push
  <1> QED
    BY <1>5, <1>20, <1>21 DEF StepHolds, Fifo!Next

LEMMA AdvanceDeqHolds ==
  ASSUME IInv, SlotInv', SlotType', AdvanceDeq
  PROVE  StepHolds
  <1>1. PICK c : c = Chain
    OBVIOUS
  <1>2. TypeOK /\ ChainInv(c)
    BY <1>1 DEF IInv
  <1>3. PICK b, r : b = Source /\ r = block[b]
    OBVIOUS
  <1>4. /\ cpc \in {"advance", "advance_next"}
        /\ cpc' = IF cpc = "advance" THEN "idle" ELSE "delete"
        /\ out' = cvalue /\ cvalue' = NoValue
        /\ block' = [block EXCEPT ![b].dequeue_pos = @ + 1]
        /\ UNCHANGED <<counter, sema, tokens, ppc, call, spins, head_block, tail_block,
                       new_block, seen, pvalue, curr, count, before>>
    BY <1>3 DEF AdvanceDeq, slotButCpc, walk
  <1>5. /\ b \in On(c) /\ b \in Nodes /\ r \in BlockType /\ cvalue \in Value
        /\ CellsInv(r, cvalue, Written(b)) /\ Written(b) \in Value \cup {NoValue}
        /\ c \in Seq(Nodes) /\ Len(c) \in Nat \ {0} /\ c # << >> /\ Moved(b) = cvalue
        /\ Len(c) \in 1 .. Len(c)
    <2>1. Moved(b) = cvalue /\ cvalue \in Value
      BY <1>2, <1>3, <1>4 DEF Moved, ChainInv, ConsumerInv
    <2> QED BY <2>1, <1>2, <1>3, <1>4, EndFacts, ChainFacts
  <1>6. PICK s : s = [r EXCEPT !.dequeue_pos = @ + 1]
    OBVIOUS
  <1>7. block'[b] = s /\ \A n \in Nodes \ {b} : block'[n] = block[n]
    BY <1>2, <1>3, <1>4, <1>5, <1>6 DEF TypeOK
  <1>8. /\ s \in BlockType /\ CellsInv(s, NoValue, Written(b))
        /\ Elements(r, cvalue) # << >> /\ Head(Elements(r, cvalue)) = cvalue
        /\ Elements(s, NoValue) = Tail(Elements(r, cvalue))
        /\ s.next = r.next /\ s.enqueue_pos = r.enqueue_pos
        /\ s.dequeue_pos = r.dequeue_pos + 1
    BY <1>5, <1>6, AdvanceCell
  <1>9. OnlyBlock(b)
    BY <1>3, <1>4, <1>7, <1>8, DeletedAssumption DEF OnlyBlock
  <1>10. TypeOK'
    <2>1. block' \in [Nodes -> BlockType \cup {Null}]
      BY <1>2, <1>4, <1>7, <1>8 DEF TypeOK
    <2> QED BY <2>1, <1>2, <1>4, <1>5 DEF TypeOK
  <1>11. /\ IsChain(c, First, successor)'
         /\ \A n \in On(c) : block'[n] # Null
         /\ \A n \in Nodes : block'[n] = Null <=> block[n] = Null
         /\ next_block' = next_block
         /\ \A n \in Nodes \ {b} : IsEmpty(n)' = IsEmpty(n)
    BY <1>2, <1>5, <1>9, LinksKept
  <1>12. \A n \in Nodes : Moved(n)' = NoValue /\ (n # b => Moved(n) = NoValue)
    BY <1>3, <1>4 DEF Moved
  <1>13. \A n \in Nodes : Written(n)' = Written(n)
    BY <1>4 DEF Written
  <1>14. PICK m \in 1 .. Len(c) :
           /\ b = c[m] /\ m = (IF cpc = "advance" THEN 1 ELSE 2)
           /\ m = 2 => head_block = c[1] /\ IsEmpty(head_block) /\ head_block \in On(c)
                       /\ head_block # b
           /\ m = 1 => b = head_block
    <2>1. CASE cpc = "advance"
      BY <2>1, <1>2, <1>3, EndFacts
    <2>2. CASE cpc = "advance_next"
      BY <2>2, <1>2, <1>3, EndFacts DEF Leaving
    <2> QED BY <2>1, <2>2, <1>4
  <1>15. /\ contents \in [Nodes -> Seq(Value)]
         /\ Pops(c, contents, contents', m) /\ Head(contents[c[m]]) = cvalue
    <2>1. contents \in [Nodes -> Seq(Value)] /\ contents[b] = Elements(r, cvalue)
      BY <1>2, <1>3, <1>5, ContentsFacts
    <2>2. contents'[b] = Elements(s, NoValue)
      BY <1>5, <1>7, <1>9, <1>12 DEF contents, OnlyBlock
    <2>3. \A n \in Nodes \ {b} : contents'[n] = contents[n]
      BY <1>7, <1>12 DEF contents
    <2>4. \A i \in 1 .. Len(c) : i # m => c[i] \in Nodes \ {b}
      BY <1>2, <1>14, ChainFacts
    <2>5. \A i \in 1 .. m - 1 : contents[c[i]] = << >>
      <3> TAKE i \in 1 .. m - 1
      <3>1. m = 2 /\ i = 1
        BY <1>14
      <3>2. c[i] = head_block /\ head_block \in On(c) /\ IsEmpty(head_block)
        BY <3>1, <1>14
      <3> QED BY <3>2, <1>2, ContentsFacts
    <2> QED BY <2>1, <2>2, <2>3, <2>4, <2>5, <1>8, <1>14 DEF Pops
  <1>16. /\ ItemsOf(c) # << >> /\ ItemsOf(c)' = Tail(ItemsOf(c))
         /\ Head(ItemsOf(c)) = cvalue
    <2>1. \A k \in m .. Len(c) : /\ Joined(c, contents)[k] # << >>
                                 /\ Joined(c, contents')[k] = Tail(Joined(c, contents)[k])
                                 /\ Head(Joined(c, contents)[k]) = Head(contents[c[m]])
      <3>1. c \in Seq(Nodes) /\ contents \in [Nodes -> Seq(Value)] /\ Pops(c, contents, contents', m)
        BY <1>5, <1>15
      <3>2. HasPopped(c, contents, contents', m)
        BY <3>1, JoinPops
      <3> QED BY <3>2 DEF HasPopped
    <2>2. Len(c) \in m .. Len(c)
      BY <1>5
    <2>3. ItemsOf(c) = Joined(c, contents)[Len(c)] /\ ItemsOf(c)' = Joined(c, contents')[Len(c)]
      BY <1>4, <1>9 DEF ItemsOf, Prefixes, OnlyBlock
    <2> QED BY <2>1, <2>2, <2>3, <1>15
  <1>17. Len(ItemsOf(c)) \in Nat /\ Len(ItemsOf(c)') = Len(ItemsOf(c)) - 1
    <2>1. ItemsOf(c) \in Seq(Value) /\ Len(ItemsOf(c)) \in Nat
      <3>1. Len(c) \in 0 .. Len(c) /\ cpc # "destroy"
        BY <1>4, <1>5
      <3>2. ItemsOf(c) = Prefixes(c)[Len(c)] /\ Len(ItemsOf(c)) \in Nat
        BY <3>1, <1>2, ItemsFacts, Zenon
      <3>3. \A k \in 0 .. Len(c) : Prefixes(c)[k] \in Seq(Value)
        BY <3>1, <1>2, ItemsFacts, Zenon
      <3> QED BY <3>1, <3>2, <3>3, Zenon
    <2> QED BY <2>1, <1>16, HeadTailProperties
  <1>18. ChainInv(c)'
    <2>1. BlocksInv(c)'
      <3>1. \A i \in 2 .. Len(c) : ~ IsEmpty(c[i]) /\ i \in 1 .. Len(c)
        BY <1>2, <1>4, <1>5 DEF ChainInv, BlocksInv
      <3>2. \A i \in 2 .. Len(c) : IsEmpty(c[i])' => i = 2 /\ cpc' = "delete"
        <4> SUFFICES ASSUME NEW i \in 2 .. Len(c), IsEmpty(c[i])' PROVE i = 2 /\ cpc' = "delete"
          OBVIOUS
        <4>1. c[i] \in Nodes /\ i \in 1 .. Len(c) /\ ~ IsEmpty(c[i])
          BY <3>1, <1>2, ChainFacts
        <4>2. c[i] = b
          BY <4>1, <1>11
        <4>3. i = m
          BY <4>1, <4>2, <1>2, <1>14, ChainFacts
        <4>4. cpc = "advance_next"
          BY <4>3, <1>4, <1>14
        <4> QED BY <4>3, <4>4, <1>4, <1>14
      <3>3. \A n \in Nodes : block'[n] # Null => n \in On(c) \/ (ppc' = "link" /\ n = new_block')
        BY <1>2, <1>4, <1>11 DEF ChainInv, BlocksInv
      <3> QED BY <3>2, <3>3, <1>5, <1>11 DEF BlocksInv
    <2>2. \A n \in On(c) : CellsInv(block'[n], Moved(n)', Written(n)')
      <3>1. ASSUME NEW n \in On(c) PROVE CellsInv(block'[n], Moved(n)', Written(n)')
        <4>0. n \in Nodes /\ CellsInv(block[n], Moved(n), Written(n))
          BY <1>2, ChainFacts
        <4>1. CASE n = b
          BY <4>1, <1>5, <1>7, <1>8, <1>12, <1>13
        <4>2. CASE n # b
          BY <4>0, <4>2, <1>7, <1>12, <1>13
        <4> QED BY <4>1, <4>2
      <3> QED BY <3>1
    <2>3. ProducerInv(c)'
      <3>1. tail_block \in Nodes /\ block[tail_block] \in BlockType /\ cpc # "destroy"
        BY <1>2, <1>4, EndFacts, ChainFacts
      <3>2. /\ block'[tail_block].enqueue_pos = block[tail_block].enqueue_pos
            /\ seen <= block'[tail_block].dequeue_pos
        <4>1. seen <= block[tail_block].dequeue_pos /\ seen \in Nat
          BY <1>2, <3>1 DEF ChainInv, ProducerInv, TypeOK
        <4>2. CASE tail_block = b
          BY <4>1, <4>2, <1>3, <1>7, <1>8, <3>1 DEF BlockType
        <4>3. CASE tail_block # b
          BY <4>1, <4>3, <1>7, <3>1
        <4> QED BY <4>2, <4>3
      <3>3. ppc \in {"link", "move_tail"} => block'[new_block] = block[new_block]
        BY <1>2, <1>3, <1>7, <3>1, SourceIsOld
      <3> QED BY <3>1, <3>2, <3>3, <1>2, <1>4 DEF ChainInv, ProducerInv
    <2>4. ConsumerInv(c)'
      <3>1. cpc' = "delete" => IsEmpty(head_block)' /\ Len(c) > (IF ppc = "move_tail" THEN 2 ELSE 1)
        <4> SUFFICES ASSUME cpc' = "delete"
                     PROVE  IsEmpty(head_block)' /\ Len(c) > (IF ppc = "move_tail" THEN 2 ELSE 1)
          OBVIOUS
        <4>1. cpc = "advance_next" /\ m = 2
          BY <1>4, <1>14
        <4>2. IsEmpty(head_block)'
          <5>1. head_block \in Nodes \ {b} /\ IsEmpty(head_block) /\ head_block' = head_block
            BY <4>1, <1>2, <1>4, <1>14, ChainFacts
          <5> QED BY <5>1, <1>11
        <4>3. Len(c) > (IF ppc = "move_tail" THEN 2 ELSE 1)
          BY <4>1, <1>2 DEF ChainInv, ConsumerInv, Leaving
        <4> QED BY <4>2, <4>3
      <3> QED BY <3>1, <1>4, NoValueAssumption DEF ConsumerInv, Leaving
    <2>5. TokensInv(c)'
      <3>1. /\ Held' = 0 /\ Held = 1 /\ Unsignalled' = Unsignalled /\ Unsignalled \in Nat
            /\ tokens \in Nat /\ tokens' = tokens
        BY <1>2, <1>4 DEF Held, Unsignalled, TypeOK
      <3>2. Len(ItemsOf(c)) = tokens + Unsignalled + Held
        BY <1>2, <1>4 DEF ChainInv, TokensInv
      <3>3. Len(ItemsOf(c)') = tokens' + Unsignalled' + Held'
        BY <3>1, <3>2, <1>17
      <3> QED BY <3>3 DEF TokensInv
    <2>6. WalkInv(c)'
      BY <1>2, <1>4 DEF ChainInv, WalkInv
    <2> QED BY <2>1, <2>2, <2>3, <2>4, <2>5, <2>6, <1>5, <1>11 DEF ChainInv, First
  <1>19. Items = ItemsOf(c) /\ Items' = ItemsOf(c)' /\ IInv'
    BY <1>2, <1>10, <1>18, ChainOf, ChainOfNext
  <1>20. Fifo!Pop
    BY <1>4, <1>16, <1>19 DEF Fifo!Pop
  <1> QED
    BY <1>19, <1>20 DEF StepHolds, Fifo!Next

-----------------------------------------------------------------------------
(* Blocks come and go                                                      *)

\* A new block is not on the chain yet.
LEMMA NewBlockHolds ==
  ASSUME IInv, SlotInv', SlotType', NewBlock
  PROVE  StepHolds
  <1>1. PICK c : c = Chain
    OBVIOUS
  <1>2. TypeOK /\ ChainInv(c)
    BY <1>1 DEF IInv
  <1>3. PICK b \in Nodes :
          /\ block[b] = Null /\ block' = [block EXCEPT ![b] = BlockOf(pvalue)]
          /\ new_block' = b /\ ppc = "new_block" /\ ppc' = "link"
          /\ UNCHANGED <<counter, sema, tokens, cpc, call, spins, head_block, tail_block,
                         seen, pvalue, cvalue, curr, count, before, out>>
    BY DEF NewBlock, slotButPpc, walk
  <1>4. cpc # "destroy" /\ pvalue \in Value
    BY <1>2, <1>3 DEF ChainInv, ProducerInv
  <1>5. /\ block'[b] = BlockOf(pvalue) /\ BlockOf(pvalue) \in BlockType
        /\ \A n \in Nodes \ {b} : block'[n] = block[n]
    BY <1>2, <1>3, <1>4, NewBlocks DEF TypeOK
  <1>6. \A n \in On(c) : /\ n \in Nodes \ {b} /\ block'[n] = block[n] /\ block[n] # Null
                         /\ successor'[n] = successor[n]
    <2>1. \A n \in On(c) : n \in Nodes \ {b} /\ block[n] # Null
      BY <1>2, <1>3, ChainFacts
    <2> QED BY <2>1, <1>5 DEF successor
  <1>7. /\ c \in Seq(Nodes) /\ c # << >> /\ Len(c) \in Nat
        /\ tail_block \in On(c) /\ head_block \in On(c)
    BY <1>2, <1>4, EndFacts, ChainFacts
  <1>8. IsChain(c, First, successor)'
    <2>1. IsChain(c, First, successor) /\ First' = First
      BY <1>2, <1>3, ChainFacts DEF First
    <2> QED BY <2>1, <1>6, ChainKept
  <1>9. next_block' = next_block /\ Source' = Source
    <2>1. next_block' = next_block
      BY <1>3, <1>6, <1>7 DEF next_block
    <2> QED BY <2>1, <1>3 DEF Source
  <1>10. \A n : Moved(n)' = Moved(n) /\ Written(n)' = Written(n)
    BY <1>3, <1>9 DEF Moved, Written
  <1>11. \A n \in On(c) : IsEmpty(n)' = IsEmpty(n)
    BY <1>6 DEF IsEmpty
  <1>12. /\ \A k \in 0 .. Len(c) : Prefixes(c)'[k] = Prefixes(c)[k]
         /\ ItemsOf(c)' = ItemsOf(c)
    <2>1. \A n \in On(c) : contents[n] = contents'[n]
      BY <1>6, <1>10 DEF contents
    <2>2. \A k \in 0 .. Len(c) : Joined(c, contents)[k] = Joined(c, contents')[k]
      BY <2>1, <1>7, JoinSame
    <2>3. Len(c) \in 0 .. Len(c)
      BY <1>7
    <2> QED BY <2>2, <2>3, <1>3 DEF Prefixes, ItemsOf
  <1>13. TypeOK'
    <2>1. block' \in [Nodes -> BlockType \cup {Null}]
      BY <1>2, <1>3, <1>5 DEF TypeOK
    <2> QED BY <2>1, <1>2, <1>3 DEF TypeOK
  <1>14. ChainInv(c)'
    <2>1. BlocksInv(c)'
      <3>1. \A i \in 2 .. Len(c) : IsEmpty(c[i])' = IsEmpty(c[i])
        BY <1>2, <1>7, <1>11, ChainFacts
      <3>2. \A n \in Nodes : block'[n] # Null => n \in On(c) \/ (ppc' = "link" /\ n = new_block')
        BY <1>2, <1>3, <1>5 DEF ChainInv, BlocksInv
      <3> QED BY <3>1, <3>2, <1>2, <1>3, <1>6, <1>7 DEF ChainInv, BlocksInv
    <2>2. \A n \in On(c) : CellsInv(block'[n], Moved(n)', Written(n)')
      BY <1>2, <1>6, <1>10, ChainFacts
    <2>3. ProducerInv(c)'
      <3>1. block'[tail_block] = block[tail_block] /\ b \in Nodes \ On(c)
        BY <1>6, <1>7
      <3> QED BY <3>1, <1>2, <1>3, <1>4, <1>5 DEF ChainInv, ProducerInv
    <2>4. ConsumerInv(c)'
      BY <1>2, <1>3, <1>7, <1>11 DEF ChainInv, ConsumerInv, Leaving
    <2>5. TokensInv(c)'
      <3>1. Held' = Held /\ Unsignalled' = Unsignalled
        BY <1>3 DEF Held, Unsignalled
      <3> QED BY <3>1, <1>2, <1>3, <1>12 DEF ChainInv, TokensInv
    <2>6. WalkInv(c)'
      BY <1>2, <1>3, <1>9, <1>12 DEF ChainInv, WalkInv
    <2> QED BY <2>1, <2>2, <2>3, <2>4, <2>5, <2>6, <1>7, <1>8 DEF ChainInv, First
  <1>15. IInv' /\ Items' = Items
    BY <1>2, <1>12, <1>13, <1>14, ChainOf, ChainOfNext
  <1> QED
    BY <1>3, <1>15 DEF StepHolds, Fifo!vars

\* It is linked, and its element is in the queue.
LEMMA LinkNextHolds ==
  ASSUME IInv, SlotInv', SlotType', LinkNext
  PROVE  StepHolds
  <1>1. PICK c : c = Chain
    OBVIOUS
  <1>2. TypeOK /\ ChainInv(c)
    BY <1>1 DEF IInv
  <1>3. PICK b, r, s : b = tail_block /\ r = block[b] /\ s = new_block
    OBVIOUS
  <1>4. /\ ppc = "link" /\ ppc' = "move_tail"
        /\ block' = [block EXCEPT ![b].next = s]
        /\ UNCHANGED <<counter, sema, tokens, cpc, call, spins, head_block, tail_block,
                       new_block, seen, pvalue, cvalue, curr, count, before, out>>
    BY <1>3 DEF LinkNext, slotButPpc, walk
  <1>5. /\ cpc # "destroy" /\ pvalue \in Value
        /\ s \in Nodes /\ s \notin On(c) /\ block[s] = BlockOf(pvalue)
    BY <1>2, <1>3, <1>4 DEF ChainInv, ProducerInv
  <1>6. /\ b \in On(c) /\ b \in Nodes /\ r \in BlockType /\ b = c[Len(c)]
        /\ CellsInv(r, Moved(b), Written(b)) /\ successor[b] = Null
        /\ c \in Seq(Nodes) /\ Len(c) \in Nat \ {0} /\ c # << >>
        /\ Len(c) \in 1 .. Len(c)
    BY <1>2, <1>3, <1>4, <1>5, EndFacts, ChainFacts
  <1>7. PICK t : t = [r EXCEPT !.next = s]
    OBVIOUS
  <1>8. /\ block'[b] = t /\ \A n \in Nodes \ {b} : block'[n] = block[n]
        /\ s \in Nodes \ {b}
    BY <1>2, <1>3, <1>4, <1>5, <1>6, <1>7 DEF TypeOK
  <1>9. /\ t \in BlockType /\ CellsInv(t, Moved(b), Written(b))
        /\ Elements(t, Moved(b)) = Elements(r, Moved(b))
        /\ t.next = s /\ t.enqueue_pos = r.enqueue_pos /\ t.dequeue_pos = r.dequeue_pos
    BY <1>5, <1>6, <1>7, LinkCell
  <1>10. /\ BlockOf(pvalue) \in BlockType /\ CellsInv(BlockOf(pvalue), NoValue, NoValue)
         /\ Elements(BlockOf(pvalue), NoValue) = << pvalue >> /\ BlockOf(pvalue).next = Null
         /\ BlockOf(pvalue).enqueue_pos = 1 /\ BlockOf(pvalue).dequeue_pos = 0
         /\ BlockOf(pvalue) # Null /\ t # Null
    BY <1>5, <1>9, NewBlocks, DeletedAssumption
  <1>11. TypeOK'
    <2>1. block' \in [Nodes -> BlockType \cup {Null}]
      BY <1>2, <1>4, <1>8, <1>9 DEF TypeOK
    <2> QED BY <2>1, <1>2, <1>4 DEF TypeOK
  <1>12. \A n \in On(c) : n \in Nodes /\ block[n] # Null /\ n # s
    BY <1>2, <1>5, ChainFacts
  <1>13. /\ \A n \in On(c) \ {b} : successor'[n] = successor[n]
         /\ successor'[b] = s /\ successor'[s] = Null
    BY <1>5, <1>6, <1>8, <1>9, <1>10, <1>12 DEF successor
  <1>14. PICK d : d = Append(c, s)
    OBVIOUS
  <1>15. /\ d \in Seq(Nodes) /\ d # << >> /\ IsChain(d, First, successor)'
         /\ On(d) = On(c) \cup {s} /\ Len(d) = Len(c) + 1
         /\ \A i \in 1 .. Len(c) : d[i] = c[i]
         /\ d[Len(c) + 1] = s
    <2>1. IsChain(c, First, successor) /\ First' = First
      BY <1>2, <1>4, ChainFacts DEF First
    <2>2. s \in Nodes \ On(c)
      BY <1>5
    <2> QED BY <2>1, <2>2, <1>6, <1>13, <1>14, ChainAppended
  <1>16. /\ next_block' = Null => next_block = Null
         /\ cpc \in {"read_next", "advance_next"} => next_block' = next_block
    <2>1. head_block \in Nodes /\ (Leaving => head_block # b)
      BY <1>2, <1>3, <1>5, EndFacts
    <2>2. next_block' = block'[head_block].next
      BY <1>4 DEF next_block
    <2>3. CASE head_block = b
      BY <2>1, <2>2, <2>3, <1>5, <1>8, <1>9, NullAssumption DEF Leaving
    <2>4. CASE head_block # b
      BY <2>1, <2>2, <2>4, <1>8 DEF next_block
    <2> QED BY <2>3, <2>4
  <1>17. \A n : Moved(n)' = Moved(n) /\ Written(n)' = Written(n)
    BY <1>4, <1>16 DEF Moved, Written, Source
  <1>18. Moved(s) = NoValue /\ Written(s) = NoValue
    <2>1. Source # s
      BY <1>2, <1>3, <1>4, <1>5, SourceIsOld
    <2> QED BY <2>1, <1>4 DEF Moved, Written
  <1>19. \A n \in Nodes : IsEmpty(n)' = IsEmpty(n)
    <2>1. TAKE n \in Nodes
    <2>2. CASE n = b
      BY <2>2, <1>3, <1>8, <1>9 DEF IsEmpty
    <2>3. CASE n # b
      BY <2>3, <1>8 DEF IsEmpty
    <2> QED BY <2>2, <2>3
  <1>20. ~ IsEmpty(s)
    BY <1>5, <1>10 DEF IsEmpty
  <1>21. /\ \A k \in 0 .. Len(c) : Prefixes(d)'[k] = Prefixes(c)[k]
         /\ Prefixes(d)'[Len(c) + 1] = Prefixes(c)[Len(c)] \o << pvalue >>
    <2>1. \A n \in On(c) : contents[n] = contents'[n]
      <3>1. contents[b] = contents'[b]
        BY <1>3, <1>6, <1>8, <1>9, <1>10, <1>12, <1>17 DEF contents
      <3>2. \A n \in On(c) \ {b} : contents[n] = contents'[n]
        BY <1>8, <1>12, <1>17 DEF contents
      <3> QED BY <3>1, <3>2
    <2>2. contents'[s] = << pvalue >>
      BY <1>5, <1>8, <1>10, <1>17, <1>18 DEF contents
    <2>3. /\ \A k \in 0 .. Len(c) : Joined(d, contents')[k] = Joined(c, contents)[k]
          /\ Joined(d, contents')[Len(c) + 1] = Joined(c, contents)[Len(c)] \o contents'[s]
      <3>1. HasAppended(c, contents, contents', s)
        BY <2>1, <1>5, <1>6, JoinAppended
      <3> QED BY <3>1, <1>14 DEF HasAppended
    <2> QED BY <2>2, <2>3 DEF Prefixes
  <1>22. /\ ItemsOf(c) = Prefixes(c)[Len(c)] /\ ItemsOf(d)' = Prefixes(d)'[Len(c) + 1]
         /\ ItemsOf(c) \in Seq(Value) /\ Len(ItemsOf(c)) \in Nat
    <2>1. Len(c) \in 0 .. Len(c)
      BY <1>6
    <2>2. cpc # "destroy" /\ cpc' # "destroy"
      BY <1>4, <1>5
    <2>3. ItemsOf(c) = Prefixes(c)[Len(c)]
      BY <2>2 DEF ItemsOf
    <2>4. ItemsOf(d)' = Prefixes(d)'[Len(d)]
      BY <2>2 DEF ItemsOf
    <2>5. ItemsOf(c) \in Seq(Value) /\ Len(ItemsOf(c)) \in Nat
      BY <2>1, <2>2, <2>3, <1>2, ItemsFacts
    <2> QED BY <2>3, <2>4, <2>5, <1>15
  <1>23. ItemsOf(d)' = Append(ItemsOf(c), pvalue) /\ Len(ItemsOf(d)') = Len(ItemsOf(c)) + 1
    <2>1. ItemsOf(d)' = ItemsOf(c) \o << pvalue >>
      BY <1>21, <1>22
    <2>2. ItemsOf(d)' = Append(ItemsOf(c), pvalue)
      BY <2>1, <1>5, <1>22, AppendIsConcat
    <2>3. Len(Append(ItemsOf(c), pvalue)) = Len(ItemsOf(c)) + 1
      BY <1>5, <1>22, AppendProperties
    <2> QED BY <2>2, <2>3
  <1>24. ChainInv(d)'
    <2>1. BlocksInv(d)'
      <3>1. \A n \in On(d) : block'[n] # Null
        BY <1>5, <1>8, <1>10, <1>12, <1>15
      <3>2. \A n \in Nodes : block'[n] # Null => n \in On(d)
        BY <1>2, <1>3, <1>6, <1>8, <1>15 DEF ChainInv, BlocksInv
      <3>3. \A i \in 2 .. Len(d) : IsEmpty(d[i])' => i = 2 /\ cpc' = "delete"
        <4> SUFFICES ASSUME NEW i \in 2 .. Len(d), IsEmpty(d[i])' PROVE i = 2 /\ cpc' = "delete"
          OBVIOUS
        <4>1. i \in 2 .. Len(c) \/ i = Len(c) + 1
          BY <1>6, <1>15
        <4>2. i # Len(c) + 1
          BY <1>5, <1>15, <1>19, <1>20
        <4>3. i \in 2 .. Len(c) /\ i \in 1 .. Len(c) /\ d[i] = c[i] /\ c[i] \in Nodes
          BY <4>1, <4>2, <1>2, <1>6, <1>15, ChainFacts
        <4> QED BY <4>3, <1>2, <1>4, <1>5, <1>19 DEF ChainInv, BlocksInv
      <3> QED BY <3>1, <3>2, <3>3, <1>15 DEF BlocksInv
    <2>2. ASSUME NEW n \in On(d) PROVE CellsInv(block'[n], Moved(n)', Written(n)')
      <3>1. CASE n = b
        BY <3>1, <1>8, <1>9, <1>17
      <3>2. CASE n = s
        BY <3>2, <1>5, <1>8, <1>10, <1>17, <1>18
      <3>3. CASE n # b /\ n # s
        <4>1. n \in On(c) /\ n \in Nodes /\ CellsInv(block[n], Moved(n), Written(n))
          BY <3>3, <1>2, <1>15, ChainFacts
        <4> QED BY <4>1, <3>3, <1>8, <1>17
      <3> QED BY <3>1, <3>2, <3>3
    <2>3. ProducerInv(d)'
      <3>1. Len(d) > 1 /\ tail_block = d[Len(d) - 1] /\ new_block = d[Len(d)]
        <4>1. Len(d) > 1 /\ Len(d) - 1 = Len(c)
          BY <1>6, <1>15
        <4> QED BY <4>1, <1>3, <1>6, <1>15
      <3>2. seen <= block'[tail_block].dequeue_pos
        BY <1>2, <1>3, <1>5, <1>8, <1>9 DEF ChainInv, ProducerInv
      <3>3. block'[new_block] = BlockOf(pvalue)
        BY <1>3, <1>5, <1>8
      <3> QED BY <3>1, <3>2, <3>3, <1>4, <1>5 DEF ProducerInv
    <2>4. ConsumerInv(d)'
      <3>1. head_block \in Nodes
        BY <1>2, <1>5, EndFacts
      <3>2. Leaving => Len(d) > 2
        <4>1. Leaving => Len(c) > 1
          BY <1>2, <1>4 DEF ChainInv, ConsumerInv
        <4> QED BY <4>1, <1>6, <1>15
      <3> QED BY <3>1, <3>2, <1>2, <1>4, <1>19 DEF ChainInv, ConsumerInv, Leaving
    <2>5. TokensInv(d)'
      <3>1. /\ Held' = Held /\ Held \in Nat /\ Unsignalled = 0 /\ Unsignalled' = 1
            /\ tokens \in Nat /\ tokens' = tokens
        BY <1>2, <1>4 DEF Held, Unsignalled, TypeOK
      <3>2. Len(ItemsOf(c)) = tokens + Unsignalled + Held
        BY <1>2, <1>5 DEF ChainInv, TokensInv
      <3>3. Len(ItemsOf(d)') = tokens' + Unsignalled' + Held'
        BY <3>1, <3>2, <1>23
      <3> QED BY <3>3 DEF TokensInv
    <2>6. WalkInv(d)'
      <3>1. ASSUME NEW k \in 0 .. Len(c)
            PROVE  \E p \in Nat : Len(Prefixes(c)[k]) = p /\ Len(Prefixes(d)'[k]) \in {p, p + 1}
        BY <1>2, <1>5, <1>21, ItemsFacts
      <3>2. Grown(c, d)
        BY <3>1, <1>6, <1>15, <1>22, <1>23 DEF Grown
      <3> QED BY <3>2, <1>2, <1>4, <1>5, <1>16, WalkGrows DEF ChainInv
    <2> QED BY <2>1, <2>2, <2>3, <2>4, <2>5, <2>6, <1>15 DEF ChainInv, First
  <1>25. Items = ItemsOf(c) /\ Items' = ItemsOf(d)' /\ IInv'
    BY <1>2, <1>11, <1>24, ChainOf, ChainOfNext
  <1>26. Fifo!Push(pvalue)
    BY <1>4, <1>22, <1>23, <1>25 DEF Fifo!Push
  <1> QED
    BY <1>5, <1>25, <1>26 DEF StepHolds, Fifo!Next

\* The head block is empty, and behind both threads.
LEMMA DeleteHeadHolds ==
  ASSUME IInv, SlotInv', SlotType', DeleteHead
  PROVE  StepHolds
  <1>1. PICK c : c = Chain
    OBVIOUS
  <1>2. TypeOK /\ ChainInv(c)
    BY <1>1 DEF IInv
  <1>3. PICK h : h = head_block
    OBVIOUS
  <1>4. /\ cpc = "delete" /\ cpc' = "idle" /\ head_block' = next_block
        /\ block' = [block EXCEPT ![h] = Null]
        /\ UNCHANGED <<counter, sema, tokens, ppc, call, spins, tail_block,
                       new_block, seen, pvalue, cvalue, curr, count, before, out>>
    BY <1>3 DEF DeleteHead, slotButCpc, walk
  <1>5. Leaving /\ cpc # "destroy"
    BY <1>4 DEF Leaving
  <1>6. /\ h \in On(c) /\ h \in Nodes /\ h = c[1] /\ IsEmpty(h)
        /\ c \in Seq(Nodes) /\ c # << >> /\ Len(c) \in Nat /\ 1 \in 1 .. Len(c)
        /\ tail_block \in On(c) /\ tail_block # h
        /\ next_block = c[2] /\ next_block \in On(c) /\ next_block # h
    BY <1>2, <1>3, <1>5, EndFacts, ChainFacts
  <1>7. /\ Len(c) > (IF ppc = "move_tail" THEN 2 ELSE 1) /\ Len(c) > 1
    BY <1>2, <1>5, <1>6 DEF ChainInv, ConsumerInv
  <1>8. block'[h] = Null /\ \A n \in Nodes \ {h} : block'[n] = block[n]
    BY <1>2, <1>4, <1>6 DEF TypeOK
  <1>9. \A n \in On(c) : n \in Nodes /\ block[n] # Null
    BY <1>2, ChainFacts
  <1>10. TypeOK'
    <2>1. block' \in [Nodes -> BlockType \cup {Null}]
      BY <1>2, <1>4, <1>8 DEF TypeOK
    <2> QED BY <2>1, <1>2, <1>4, <1>6, <1>9 DEF TypeOK
  <1>11. PICK d : d = Tail(c)
    OBVIOUS
  <1>12. /\ d \in Seq(Nodes) /\ IsChain(d, First, successor)'
         /\ On(d) = On(c) \ {h} /\ Len(d) = Len(c) - 1
         /\ \A i \in 1 .. Len(c) - 1 : d[i] = c[i + 1]
    <2>1. IsChain(c, h, successor)
      BY <1>2, <1>3, <1>5, EndFacts
    <2>2. \A n \in On(c) \ {h} : successor'[n] = successor[n]
      BY <1>8, <1>9 DEF successor
    <2>3. /\ d \in Seq(Nodes) /\ IsChain(d, successor[h], successor')
          /\ On(d) = On(c) \ {h} /\ Len(d) = Len(c) - 1
          /\ \A i \in 1 .. Len(c) - 1 : d[i] = c[i + 1]
      BY <2>1, <2>2, <1>6, <1>11, ChainShortened
    <2>4. First' = successor[h]
      BY <1>3, <1>4, <1>6, <1>9 DEF First, successor, next_block
    <2> QED BY <2>3, <2>4
  <1>13. \A n : Moved(n)' = NoValue /\ Moved(n) = NoValue /\ Written(n)' = Written(n)
    BY <1>4 DEF Moved, Written
  <1>14. \A n \in Nodes \ {h} : IsEmpty(n)' = IsEmpty(n)
    BY <1>8 DEF IsEmpty
  <1>15. Drops(c, contents, contents')
    <2>1. contents[c[1]] = << >>
      BY <1>2, <1>6, ContentsFacts
    <2>2. \A n \in Nodes \ {h} : contents'[n] = contents[n]
      BY <1>8, <1>13 DEF contents
    <2>3. \A i \in 1 .. Len(c) : i # 1 => c[i] \in Nodes \ {h}
      BY <1>2, <1>6, ChainFacts
    <2> QED BY <2>1, <2>2, <2>3, <1>6 DEF Drops
  <1>16. ItemsOf(d)' = ItemsOf(c)
    <2>1. \A k \in 0 .. Len(c) - 1 : Joined(d, contents')[k] = Joined(c, contents)[k + 1]
      BY <1>6, <1>11, <1>15, JoinDrops
    <2>2. PICK k \in 0 .. Len(c) - 1 : k = Len(d) /\ k + 1 = Len(c)
      <3>1. Len(c) - 1 \in 0 .. Len(c) - 1 /\ (Len(c) - 1) + 1 = Len(c)
        BY <1>6, <1>7
      <3> QED BY <3>1, <1>12
    <2>3. ItemsOf(d)' = Joined(d, contents')[k]
      BY <2>2, <1>4 DEF ItemsOf, Prefixes
    <2>4. ItemsOf(c) = Joined(c, contents)[k + 1]
      BY <2>2, <1>5 DEF ItemsOf, Prefixes
    <2> QED BY <2>1, <2>3, <2>4
  <1>17. ChainInv(d)'
    <2>1. BlocksInv(d)'
      <3>1. \A n \in On(d) : block'[n] # Null
        BY <1>8, <1>9, <1>12
      <3>2. \A n \in Nodes : block'[n] # Null => n \in On(d) \/ (ppc' = "link" /\ n = new_block')
        BY <1>2, <1>4, <1>8, <1>12 DEF ChainInv, BlocksInv
      <3>3. d # << >>
        <4>1. Len(d) # 0
          BY <1>6, <1>7, <1>12
        <4> QED BY <4>1, <1>12, EmptySeq
      <3>4. ASSUME NEW i \in 2 .. Len(d) PROVE ~ IsEmpty(d[i])'
        <4>1. PICK j \in 2 .. Len(c) : j = i + 1 /\ j # 2 /\ j # 1 /\ i \in 1 .. Len(c) - 1
          <5>1. i + 1 \in 2 .. Len(c) /\ i + 1 # 2 /\ i + 1 # 1 /\ i \in 1 .. Len(c) - 1
            BY <1>6, <1>12
          <5> QED BY <5>1
        <4>2. d[i] = c[j] /\ ~ IsEmpty(c[j])
          BY <4>1, <1>2, <1>5, <1>12 DEF ChainInv, BlocksInv
        <4>3. c[j] \in Nodes \ {h}
          <5>1. j \in 1 .. Len(c)
            BY <1>6
          <5> QED BY <5>1, <4>1, <1>2, <1>6, ChainFacts
        <4> QED BY <4>2, <4>3, <1>14
      <3> QED BY <3>1, <3>2, <3>3, <3>4 DEF BlocksInv
    <2>2. ASSUME NEW n \in On(d) PROVE CellsInv(block'[n], Moved(n)', Written(n)')
      <3>1. n \in On(c) /\ n # h /\ n \in Nodes /\ CellsInv(block[n], Moved(n), Written(n))
        BY <1>2, <1>12, ChainFacts
      <3> QED BY <3>1, <1>8, <1>13
    <2>3. ProducerInv(d)'
      <3>1. ppc # "move_tail" => tail_block = d[Len(d)]
        <4> SUFFICES ASSUME ppc # "move_tail" PROVE tail_block = d[Len(d)]
          OBVIOUS
        <4>1. tail_block = c[Len(c)]
          BY <1>2, <1>5, EndFacts
        <4>2. Len(d) \in 1 .. Len(c) - 1 /\ Len(d) + 1 = Len(c)
          BY <1>6, <1>7, <1>12
        <4> QED BY <4>1, <4>2, <1>12
      <3>2. ppc = "move_tail" =>
              Len(d) > 1 /\ tail_block = d[Len(d) - 1] /\ new_block = d[Len(d)]
        <4> SUFFICES ASSUME ppc = "move_tail"
                     PROVE  Len(d) > 1 /\ tail_block = d[Len(d) - 1] /\ new_block = d[Len(d)]
          OBVIOUS
        <4>1. tail_block = c[Len(c) - 1] /\ new_block = c[Len(c)]
          BY <1>2, <1>5, EndFacts
        <4>2. /\ Len(d) > 1 /\ Len(d) \in 1 .. Len(c) - 1 /\ Len(d) + 1 = Len(c)
              /\ Len(d) - 1 \in 1 .. Len(c) - 1 /\ (Len(d) - 1) + 1 = Len(c) - 1
          BY <1>6, <1>7, <1>12
        <4> QED BY <4>1, <4>2, <1>12
      <3>3. block'[tail_block] = block[tail_block]
        BY <1>6, <1>8, <1>9
      <3>4. ppc \in {"link", "move_tail"} => block'[new_block] = block[new_block]
        <4>1. Source = h
          BY <1>3, <1>4 DEF Source
        <4> QED BY <4>1, <1>2, <1>5, <1>8, SourceIsOld
      <3>5. ppc = "link" => new_block \in Nodes \ On(d)
        BY <1>2, <1>12 DEF ChainInv, ProducerInv
      <3> QED BY <3>1, <3>2, <3>3, <3>4, <3>5, <1>2, <1>4, <1>5 DEF ChainInv, ProducerInv
    <2>4. ConsumerInv(d)'
      BY <1>2, <1>4 DEF ChainInv, ConsumerInv, Leaving
    <2>5. TokensInv(d)'
      <3>1. Held' = Held /\ Unsignalled' = Unsignalled
        BY <1>4 DEF Held, Unsignalled
      <3> QED BY <3>1, <1>2, <1>4, <1>5, <1>16 DEF ChainInv, TokensInv
    <2>6. WalkInv(d)'
      BY <1>2, <1>4 DEF ChainInv, WalkInv
    <2> QED BY <2>1, <2>2, <2>3, <2>4, <2>5, <2>6, <1>12 DEF ChainInv, First
  <1>18. IInv' /\ Items' = Items
    BY <1>2, <1>10, <1>16, <1>17, ChainOf, ChainOfNext
  <1> QED
    BY <1>4, <1>18 DEF StepHolds, Fifo!vars

-----------------------------------------------------------------------------
(* The queue is destroyed, and another one is made                         *)

LEMMA DestroyHolds ==
  ASSUME IInv, SlotInv', SlotType', Destroy
  PROVE  StepHolds
  <1>1. PICK c : c = Chain
    OBVIOUS
  <1>2. TypeOK /\ ChainInv(c)
    BY <1>1 DEF IInv
  <1>3. /\ ppc = "idle" /\ cpc = "idle" /\ ppc' = "joined" /\ cpc' = "destroy"
        /\ curr' = head_block
        /\ UNCHANGED <<block, head_block, tail_block, new_block, seen, pvalue, cvalue,
                       count, before, out>>
    BY DEF Destroy
  <1>4. successor' = successor /\ First' = First
    BY <1>3 DEF successor, First
  <1>5. \A n : Moved(n)' = Moved(n) /\ Written(n)' = Written(n)
    BY <1>3 DEF Moved, Written
  <1>6. TypeOK'
    BY <1>2, <1>3 DEF TypeOK, SlotType
  <1>7. ChainInv(c)'
    <2>1. BlocksInv(c)'
      BY <1>2, <1>3 DEF ChainInv, BlocksInv
    <2>2. \A n \in On(c) : CellsInv(block'[n], Moved(n)', Written(n)')
      BY <1>2, <1>3, <1>5, ChainFacts
    <2>3. ProducerInv(c)'
      BY <1>2, <1>3 DEF ChainInv, ProducerInv
    <2>4. ConsumerInv(c)'
      BY <1>2, <1>3 DEF ChainInv, ConsumerInv, Leaving
    <2>5. TokensInv(c)' /\ WalkInv(c)'
      BY <1>3 DEF TokensInv, WalkInv
    <2> QED BY <2>1, <2>2, <2>3, <2>4, <2>5, <1>2, <1>4, ChainFacts DEF ChainInv, First
  <1>8. IInv' /\ Items' = << >>
    BY <1>3, <1>6, <1>7, ChainOfNext DEF ItemsOf
  <1>9. Fifo!Clear
    BY <1>3, <1>8 DEF Fifo!Clear
  <1> QED
    BY <1>8, <1>9 DEF StepHolds, Fifo!Next

LEMMA DeleteBlockHolds ==
  ASSUME IInv, SlotInv', SlotType', DeleteBlock
  PROVE  StepHolds
  <1>1. PICK c : c = Chain
    OBVIOUS
  <1>2. TypeOK /\ ChainInv(c)
    BY <1>1 DEF IInv
  <1>3. PICK h : h = curr
    OBVIOUS
  <1>4. /\ cpc = "destroy" /\ cpc' = "destroy" /\ h # Null
        /\ curr' = block[h].next /\ block' = [block EXCEPT ![h] = Null]
        /\ UNCHANGED <<counter, sema, tokens, ppc, call, spins, head_block, tail_block,
                       new_block, seen, pvalue, cvalue, count, before, out>>
    BY <1>3 DEF DeleteBlock, slot
  <1>5. /\ c \in Seq(Nodes) /\ IsChain(c, h, successor) /\ c # << >>
        /\ h \in On(c) /\ h \in Nodes /\ successor[h] = block[h].next
        /\ \A n \in On(c) : n \in Nodes /\ block[n] # Null
    <2>1. c \in Seq(Nodes) /\ IsChain(c, h, successor) /\ Len(c) \in Nat
      BY <1>2, <1>3, <1>4, ChainFacts DEF First
    <2>2. c # << >> /\ h = c[1]
      BY <2>1, <1>4 DEF IsChain
    <2>3. 1 \in 1 .. Len(c)
      BY <2>1, <2>2, EmptySeq
    <2> QED BY <2>1, <2>2, <2>3, <1>2, ChainFacts
  <1>6. block'[h] = Null /\ \A n \in Nodes \ {h} : block'[n] = block[n]
    BY <1>2, <1>4, <1>5 DEF TypeOK
  <1>7. TypeOK'
    <2>1. block' \in [Nodes -> BlockType \cup {Null}]
      BY <1>2, <1>4, <1>6 DEF TypeOK
    <2>2. curr' \in Nodes \cup {Null}
      BY <1>2, <1>4, <1>5, ChainFacts DEF BlockType
    <2> QED BY <2>1, <2>2, <1>2, <1>4 DEF TypeOK
  <1>8. PICK d : d = Tail(c)
    OBVIOUS
  <1>9. d \in Seq(Nodes) /\ IsChain(d, First, successor)' /\ On(d) = On(c) \ {h}
    <2>1. \A n \in On(c) \ {h} : successor'[n] = successor[n]
      BY <1>5, <1>6 DEF successor
    <2>2. /\ d \in Seq(Nodes) /\ IsChain(d, successor[h], successor')
          /\ On(d) = On(c) \ {h}
      BY <2>1, <1>5, <1>8, ChainShortened
    <2>3. First' = successor[h]
      BY <1>4, <1>5 DEF First
    <2> QED BY <2>2, <2>3
  <1>10. \A n : Moved(n)' = Moved(n) /\ Written(n)' = Written(n)
    BY <1>4 DEF Moved, Written
  <1>11. ChainInv(d)'
    <2>1. BlocksInv(d)'
      <3>1. \A n \in On(d) : block'[n] # Null
        BY <1>5, <1>6, <1>9
      <3>2. \A n \in Nodes : block'[n] # Null => n \in On(d) \/ (ppc' = "link" /\ n = new_block')
        BY <1>2, <1>4, <1>6, <1>9 DEF ChainInv, BlocksInv
      <3> QED BY <3>1, <3>2, <1>4 DEF BlocksInv
    <2>2. ASSUME NEW n \in On(d) PROVE CellsInv(block'[n], Moved(n)', Written(n)')
      <3>1. n \in On(c) /\ n # h /\ n \in Nodes /\ CellsInv(block[n], Moved(n), Written(n))
        BY <1>2, <1>9, ChainFacts
      <3> QED BY <3>1, <1>6, <1>10
    <2>3. ProducerInv(d)'
      BY <1>2, <1>4 DEF ChainInv, ProducerInv
    <2>4. ConsumerInv(d)'
      BY <1>2, <1>4 DEF ChainInv, ConsumerInv, Leaving
    <2>5. TokensInv(d)' /\ WalkInv(d)'
      BY <1>4 DEF TokensInv, WalkInv
    <2> QED BY <2>1, <2>2, <2>3, <2>4, <2>5, <1>9 DEF ChainInv, First
  <1>12. IInv' /\ Items' = Items
    BY <1>2, <1>4, <1>7, <1>11, ChainOf, ChainOfNext DEF ItemsOf
  <1> QED
    BY <1>4, <1>12 DEF StepHolds, Fifo!vars

\* A queue just made has one block, without an element.
Fresh ==
  /\ TypeOK /\ SlotInv
  /\ block = [n \in Nodes |-> IF n = head_block THEN EmptyBlock ELSE Null]
  /\ tail_block = head_block /\ new_block = Null /\ curr = Null
  /\ seen = 0 /\ tokens = 0 /\ cvalue = NoValue
  /\ ppc = "idle" /\ cpc = "idle"

LEMMA FreshHolds == Fresh => IInv /\ Items = << >>
  <1> SUFFICES ASSUME Fresh PROVE IInv /\ Items = << >>
    OBVIOUS
  <1> USE DEF Fresh
  <1>1. PICK h \in Nodes : h = head_block
    BY DEF TypeOK
  <1>2. PICK c : c = << h >>
    OBVIOUS
  <1>3. /\ block[h] = EmptyBlock /\ EmptyBlock # Null /\ \A n \in Nodes \ {h} : block[n] = Null
        /\ EmptyBlock.next = Null /\ CellsInv(EmptyBlock, NoValue, NoValue)
        /\ Elements(EmptyBlock, NoValue) = << >>
        /\ EmptyBlock.enqueue_pos = 0 /\ EmptyBlock.dequeue_pos = 0
    BY <1>1, NewBlocks, DeletedAssumption
  <1>4. /\ c \in Seq(Nodes) /\ IsChain(c, h, successor) /\ On(c) = {h}
        /\ c # << >> /\ Len(c) = 1 /\ c[1] = h
    <2>1. successor[h] = Null
      BY <1>3 DEF successor
    <2> QED BY <2>1, <1>2, ChainStarted
  <1>5. \A n : Moved(n) = NoValue /\ Written(n) = NoValue
    BY DEF Moved, Written
  <1>6. ItemsOf(c) = << >>
    <2>1. contents[h] = << >>
      BY <1>3, <1>5 DEF contents
    <2>2. /\ Joined(c, contents)[0] = << >>
          /\ Joined(c, contents)[1] = Joined(c, contents)[1 - 1] \o contents[c[1]]
      <3>1. Len(c) \in Nat /\ 1 \in 1 .. Len(c)
        BY <1>4
      <3> QED BY <3>1, JoinSteps
    <2>3. Joined(c, contents)[1] = << >> \o << >>
      BY <2>1, <2>2, <1>4
    <2>4. << >> \o << >> = << >>
      BY EmptySeq, ConcatEmptySeq
    <2> QED BY <2>3, <2>4, <1>4 DEF ItemsOf, Prefixes
  <1>7. ChainInv(c)
    <2>1. BlocksInv(c)
      BY <1>3, <1>4 DEF BlocksInv
    <2>2. \A n \in On(c) : CellsInv(block[n], Moved(n), Written(n))
      BY <1>3, <1>4, <1>5
    <2>3. ProducerInv(c)
      BY <1>1, <1>3, <1>4 DEF ProducerInv
    <2>4. ConsumerInv(c)
      BY NoValueAssumption DEF ConsumerInv, Leaving
    <2>5. TokensInv(c)
      <3>1. Unsignalled = 0 /\ Held = 0 /\ Len(ItemsOf(c)) = 0
        BY <1>6 DEF Unsignalled, Held
      <3> QED BY <3>1 DEF TokensInv
    <2>6. WalkInv(c)
      BY DEF WalkInv
    <2> QED BY <2>1, <2>2, <2>3, <2>4, <2>5, <2>6, <1>1, <1>4 DEF ChainInv
  <1> QED
    BY <1>6, <1>7, ChainOf DEF IInv

LEMMA ConstructHolds ==
  ASSUME IInv, SlotInv', SlotType', Construct
  PROVE  StepHolds
  <1>1. PICK c : c = Chain
    OBVIOUS
  <1>2. TypeOK /\ ChainInv(c)
    BY <1>1 DEF IInv
  <1>3. PICK b \in Nodes :
          /\ block' = [block EXCEPT ![b] = EmptyBlock] /\ head_block' = b /\ tail_block' = b
    BY DEF Construct
  <1>4. /\ cpc = "destroy" /\ curr = Null /\ ppc' = "idle" /\ cpc' = "idle"
        /\ tokens' = 0 /\ seen' = 0
        /\ UNCHANGED <<new_block, pvalue, cvalue, curr, count, before, out>>
    BY DEF Construct, walk
  <1>5. \A n \in Nodes : block[n] = Null
    <2>1. IsChain(c, curr, successor) /\ c \in Seq(Nodes) /\ Len(c) \in Nat
      BY <1>2, <1>4, ChainFacts DEF First
    <2>2. c = << >>
      <3> SUFFICES ASSUME c # << >> PROVE FALSE
        OBVIOUS
      <3>1. curr = c[1] /\ 1 \in 1 .. Len(c)
        BY <2>1, EmptySeq DEF IsChain
      <3> QED BY <3>1, <2>1, <1>4, NullAssumption, ElementOfSeq
    <2>3. On(c) = {}
      BY <2>2 DEF On
    <2> QED BY <2>3, <1>2, <1>4 DEF ChainInv, BlocksInv, ProducerInv
  <1>6. block' = [n \in Nodes |-> IF n = head_block' THEN EmptyBlock ELSE Null]
    BY <1>2, <1>3, <1>5 DEF TypeOK
  <1>7. new_block = Null /\ cvalue = NoValue
    BY <1>2, <1>4 DEF ChainInv, ProducerInv, ConsumerInv, TypeOK
  <1>8. TypeOK'
    <2>1. block' \in [Nodes -> BlockType \cup {Null}]
      BY <1>6, NewBlocks
    <2> QED BY <2>1, <1>2, <1>3, <1>4 DEF TypeOK, SlotType
  <1>9. Fresh'
    BY <1>3, <1>4, <1>6, <1>7, <1>8 DEF Fresh
  <1>10. (IInv /\ Items = << >>)'
    BY <1>9, FreshHolds, PTL
  <1>11. Items = << >>
    BY <1>2, <1>4, ChainOf DEF ItemsOf
  <1> QED
    BY <1>4, <1>10, <1>11 DEF StepHolds, Fifo!vars

LEMMA InitHolds == Init => IInv /\ Fifo!Init
  <1> SUFFICES ASSUME Init PROVE IInv /\ Fifo!Init
    OBVIOUS
  <1>1. TypeOK
    <2>1. block \in [Nodes -> BlockType \cup {Null}]
      BY NewBlocks DEF Init
    <2>2. /\ head_block \in Nodes /\ tail_block \in Nodes /\ new_block = Null /\ curr = Null
          /\ seen = 0 /\ count = 0 /\ before = 0
          /\ pvalue = NoValue /\ cvalue = NoValue /\ out = NoValue
      BY DEF Init
    <2>3. /\ counter = 0 /\ sema = 0 /\ tokens = 0 /\ ppc = "idle" /\ cpc = "idle"
          /\ call = "try_get" /\ spins = 0
      BY DEF Init, SlotInit
    <2> QED BY <2>1, <2>2, <2>3 DEF TypeOK
  <1>2. SlotInv
    BY DEF Init, SlotInit, SlotInv, CounterIsExact, NoStalePost, Claimed,
           Posted
  <1>3. Fresh
    BY <1>1, <1>2 DEF Fresh, Init, SlotInit
  <1> QED
    BY <1>3, FreshHolds DEF Init, Fifo!Init

LEMMA StutterHolds ==
  ASSUME IInv, SlotInv', UNCHANGED vars
  PROVE  StepHolds
  <1>1. PICK c : c = Chain
    OBVIOUS
  <1>2. TypeOK /\ ChainInv(c)
    BY <1>1 DEF IInv
  <1>3. UNCHANGED <<counter, sema, tokens, ppc, cpc, call, spins, block, head_block, tail_block,
                    new_block, seen, pvalue, cvalue, curr, count, before, out>>
    BY DEF vars, slot, chain, walk
  <1>4. /\ successor' = successor /\ next_block' = next_block
        /\ Held' = Held /\ Unsignalled' = Unsignalled
        /\ \A n : IsEmpty(n)' = IsEmpty(n) /\ Written(n)' = Written(n)
    BY <1>3 DEF successor, next_block, Held, Unsignalled, IsEmpty, Written
  <1>5. \A n : Moved(n)' = Moved(n)
    BY <1>3, <1>4 DEF Moved, Source
  <1>6. contents' = contents
    BY <1>3, <1>5 DEF contents
  <1>7. Prefixes(c)' = Prefixes(c) /\ ItemsOf(c)' = ItemsOf(c)
    BY <1>3, <1>6 DEF Prefixes, ItemsOf
  <1>8. TypeOK'
    BY <1>2, <1>3 DEF TypeOK
  <1>9. ChainInv(c)'
    <2>1. BlocksInv(c)'
      BY <1>2, <1>3, <1>4 DEF ChainInv, BlocksInv
    <2>2. \A n \in On(c) : CellsInv(block'[n], Moved(n)', Written(n)')
      BY <1>2, <1>3, <1>4, <1>5, ChainFacts
    <2>3. ProducerInv(c)'
      BY <1>2, <1>3 DEF ChainInv, ProducerInv
    <2>4. ConsumerInv(c)'
      BY <1>2, <1>3, <1>4 DEF ChainInv, ConsumerInv, Leaving
    <2>5. TokensInv(c)' /\ WalkInv(c)'
      BY <1>2, <1>3, <1>4, <1>7 DEF ChainInv, TokensInv, WalkInv
    <2> QED BY <2>1, <2>2, <2>3, <2>4, <2>5, <1>2, <1>3, <1>4 DEF ChainInv
  <1>10. IInv' /\ Items' = Items
    BY <1>2, <1>7, <1>8, <1>9, ChainOf, ChainOfNext
  <1> QED
    BY <1>3, <1>10 DEF StepHolds, Fifo!vars

LEMMA NextHolds == IInv /\ [Next]_vars => StepHolds
  <1> SUFFICES ASSUME IInv, [Next]_vars PROVE StepHolds
    OBVIOUS
  <1>1. SlotInv' /\ SlotType'
    BY SlotHolds DEF IInv
  <1>2. CASE UNCHANGED vars
    BY <1>1, <1>2, StutterHolds
  <1>3. CASE Next
    BY <1>1, <1>3, CallPushHolds, TryEnqueueHolds, WriteDataHolds, PublishEnqHolds,
       NewBlockHolds, LinkNextHolds, MoveTailHolds, SignalHolds, GetTokenHolds, DequeueHolds,
       ReadDataHolds, AdvanceDeqHolds, DeleteHeadHolds, SizeHolds, CountBlockHolds,
       WalkOnHolds, EmptyHolds, DestroyHolds, DeleteBlockHolds, ConstructHolds DEF Next
  <1> QED
    BY <1>2, <1>3

-----------------------------------------------------------------------------
(* What follows                                                            *)

\* The blocks always form the chain described above, with the elements in the
\* cells between their positions, and the slot counts them.
THEOREM Invariance == Spec => []IInv
  <1>1. IInv /\ [Next]_vars => IInv'
    BY NextHolds DEF StepHolds
  <1>2. Init => IInv
    BY InitHolds
  <1> QED
    BY <1>1, <1>2, PTL DEF Spec

\* "Should never reach here": a consumer with a token finds its element in the
\* head block or the next one, although the producer changes blocks on an old
\* view of dequeue_pos; and slot and blocks agree on the number of elements.
THEOREM TokenFindsElement == Spec => []TokenMeansElement
  <1>1. ASSUME IInv PROVE TokenMeansElement
    <2>1. PICK c : c = Chain
      OBVIOUS
    <2>2. TypeOK /\ ChainInv(c) /\ Items = ItemsOf(c)
      BY <1>1, <2>1, ChainOf DEF IInv
    <2>3. ASSUME cpc \in {"got", "load_next"}, Len(c) # 1
          PROVE  next_block # Null /\ ~ IsEmpty(next_block)
      <3>1. next_block = c[2] /\ next_block # Null /\ 2 \in 2 .. Len(c)
        BY <2>2, <2>3, EndFacts
      <3>2. ~ IsEmpty(c[2])
        BY <2>2, <2>3, <3>1 DEF ChainInv, BlocksInv
      <3> QED BY <3>1, <3>2
    <2>4. cpc = "got" /\ IsEmpty(head_block) => next_block # Null /\ ~ IsEmpty(next_block)
      <3>1. cpc = "got" /\ IsEmpty(head_block) => Len(c) # 1
        BY <2>2, TokenMeansNext
      <3> QED BY <2>3, <3>1
    <2>5. cpc = "load_next" => next_block # Null /\ ~ IsEmpty(next_block)
      <3>1. cpc = "load_next" => Len(c) # 1
        BY <2>2, EndFacts DEF Leaving
      <3> QED BY <2>3, <3>1
    <2>6. cpc # "destroy" => Len(Items) = tokens + Unsignalled + Held
      BY <2>2 DEF ChainInv, TokensInv
    <2> QED BY <2>4, <2>5, <2>6 DEF TokenMeansElement
  <1> QED
    BY <1>1, Invariance, PTL

\* No step of either thread meets a deleted block, the producer never constructs
\* the cell the consumer reads, and the destructor destroys each element that is
\* left, once, and no other cell.
THEOREM MemoryIsSafe == Spec => []MemorySafe
  <1>1. ASSUME IInv PROVE MemorySafe
    <2>1. PICK c : c = Chain
      OBVIOUS
    <2>2. TypeOK /\ ChainInv(c)
      BY <1>1, <2>1 DEF IInv
    <2>3. ASSUME cpc # "destroy"
          PROVE  /\ block[head_block] # Null /\ block[tail_block] # Null
                 /\ new_block # Null => block[new_block] # Null
      <3>1. block[head_block] # Null /\ block[tail_block] # Null
        BY <2>2, <2>3, EndFacts, ChainFacts
      <3>2. ASSUME new_block # Null PROVE block[new_block] # Null
        <4>1. block[new_block] = BlockOf(pvalue) /\ pvalue \in Value
          BY <2>2, <3>2 DEF ChainInv, ProducerInv
        <4> QED BY <4>1, NewBlocks, DeletedAssumption
      <3> QED BY <3>1, <3>2
    <2>4. ASSUME ppc = "write", cpc \in {"read", "read_next"}, Source = tail_block
          PROVE  CellOf(block[tail_block].enqueue_pos) # CellOf(block[tail_block].dequeue_pos)
      <3>1. PICK enq \in Nat, deq \in Nat :
              enq = block[tail_block].enqueue_pos /\ deq = block[tail_block].dequeue_pos
        BY <2>2, <2>4, EndFacts, ChainFacts DEF BlockType
      <3>2. enq - seen < Capacity /\ seen <= deq /\ seen \in Nat
        BY <2>2, <2>4, <3>1 DEF ChainInv, ProducerInv, TypeOK
      <3>3. deq < enq
        BY <2>2, <2>4, <3>1, SourceHasElement
      <3>4. enq < deq + Capacity /\ deq < enq + Capacity /\ enq # deq
        BY <3>2, <3>3, CapacityAssumption
      <3> QED BY <3>1, <3>4, SameCell
    <2>5. ASSUME curr # Null PROVE block[curr] # Null
      <3>1. curr \in On(c)
        <4>1. CASE cpc \in {"count", "walk"}
          <5>1. PICK k \in 0 .. Len(c) :
                  IF cpc = "walk" THEN k > 0 /\ curr = c[k] ELSE k < Len(c) /\ curr = c[k + 1]
            BY <2>2, <4>1 DEF ChainInv, WalkInv
          <5>2. Len(c) \in Nat
            BY <2>2, ChainFacts
          <5>3. PICK j \in 1 .. Len(c) : curr = c[j]
            <6>1. CASE cpc = "walk"
              BY <5>1, <5>2, <6>1
            <6>2. CASE cpc # "walk"
              <7>1. k + 1 \in 1 .. Len(c)
                BY <5>1, <5>2, <6>2
              <7> QED BY <5>1, <6>2, <7>1
            <6> QED BY <6>1, <6>2
          <5> QED BY <5>3, <2>2, ChainFacts
        <4>2. CASE cpc = "destroy"
          <5>1. IsChain(c, curr, successor) /\ c \in Seq(Nodes) /\ Len(c) \in Nat
            BY <2>2, <4>2, ChainFacts DEF First
          <5>2. c # << >> /\ curr = c[1]
            BY <5>1, <2>5 DEF IsChain
          <5>3. 1 \in 1 .. Len(c)
            BY <5>1, <5>2, EmptySeq
          <5> QED BY <5>2, <5>3, <2>2, ChainFacts
        <4>3. CASE cpc \notin {"count", "walk", "destroy"}
          BY <4>3, <2>2, <2>5 DEF ChainInv, WalkInv
        <4> QED BY <4>1, <4>2, <4>3
      <3> QED BY <3>1, <2>2, ChainFacts
    <2>6. ASSUME cpc = "destroy", NEW b \in Nodes, block[b] # Null
          PROVE  /\ curr # Null
                 /\ \A i \in Cells : block[b].data[i] # NoValue <=> i \in Alive(block[b])
      <3>1. b \in On(c)
        BY <2>2, <2>6 DEF ChainInv, BlocksInv, ProducerInv
      <3>2. curr # Null
        <4>1. IsChain(c, curr, successor) /\ c \in Seq(Nodes) /\ Len(c) \in Nat
          BY <2>2, <2>6, ChainFacts DEF First
        <4>2. c # << >>
          BY <3>1, <4>1 DEF On
        <4>3. curr = c[1] /\ 1 \in 1 .. Len(c)
          BY <4>1, <4>2, EmptySeq DEF IsChain
        <4> QED BY <4>1, <4>3, NullAssumption, ElementOfSeq
      <3>3. CellsInv(block[b], NoValue, NoValue)
        <4>1. Moved(b) = NoValue /\ Written(b) = NoValue
          BY <2>2, <2>6 DEF Moved, Written, ChainInv, ProducerInv
        <4> QED BY <3>1, <4>1, <2>2, ChainFacts
      <3>4. \A i \in Alive(block[b]) : block[b].data[i] # NoValue
        BY <3>3, NoValueAssumption DEF CellsInv, Alive
      <3>5. \A i \in Cells \ Alive(block[b]) : block[b].data[i] = NoValue
        BY <3>3 DEF CellsInv
      <3> QED BY <3>2, <3>4, <3>5
    <2> QED BY <2>3, <2>4, <2>5, <2>6 DEF MemorySafe
  <1> QED
    BY <1>1, Invariance, PTL

\* size() never counts more than there is, nor less than there was, and empty()
\* is wrong in neither answer, whatever the producer does meanwhile.
THEOREM TimelyAnswers == Spec => []AnswersAreTimely
  <1>1. ASSUME IInv PROVE AnswersAreTimely
    <2>1. PICK c : c = Chain
      OBVIOUS
    <2>2. TypeOK /\ ChainInv(c) /\ Items = ItemsOf(c)
      BY <1>1, <2>1, ChainOf DEF IInv
    <2>3. ASSUME cpc = "walk"
          PROVE  count <= Len(Items) /\ (block[curr].next = Null => before <= count)
      <3>1. PICK k \in 0 .. Len(c) :
              /\ k > 0 /\ curr = c[k]
              /\ count <= Len(Prefixes(c)[k])
              /\ before <= count + Len(ItemsOf(c)) - Len(Prefixes(c)[k])
        BY <2>2, <2>3 DEF ChainInv, WalkInv
      <3>2. PICK l \in Nat, p \in Nat : l = Len(ItemsOf(c)) /\ p = Len(Prefixes(c)[k]) /\ p <= l
        BY <2>2, <2>3, ItemsFacts
      <3>3. count \in Nat /\ before \in Nat
        BY <2>2 DEF TypeOK
      <3>4. count <= p /\ before <= count + l - p
        BY <3>1, <3>2, Zenon
      <3>5. count <= l
        BY <3>2, <3>3, <3>4
      <3>6. ASSUME block[curr].next = Null PROVE before <= count
        <4>1. Len(c) \in Nat /\ k \in 1 .. Len(c)
          BY <2>2, <3>1, ChainFacts
        <4>2. successor[c[k]] = Null
          BY <2>2, <3>1, <3>6, <4>1, ChainFacts
        <4>3. k = Len(c)
          <5> SUFFICES ASSUME k # Len(c) PROVE FALSE
            OBVIOUS
          <5>1. successor[c[k]] = c[k + 1] /\ k + 1 \in 1 .. Len(c)
            BY <2>2, <4>1, ChainFacts DEF IsChain
          <5>2. c[k + 1] \in Nodes
            BY <2>2, <5>1, ChainFacts
          <5> QED BY <4>2, <5>1, <5>2, NullAssumption
        <4>4. p = l
          BY <2>2, <2>3, <3>2, <4>3, ItemsFacts
        <4> QED BY <3>3, <3>4, <4>4
      <3> QED BY <2>2, <3>2, <3>5, <3>6
    <2>4. ASSUME cpc = "empty"
          PROVE  IF next_block = Null THEN before = 0 ELSE Items # << >>
      <3>1. next_block = Null => before = 0
        BY <2>2, <2>4 DEF ChainInv, WalkInv
      <3>2. ASSUME next_block # Null PROVE Items # << >>
        <4>1. Len(c) # 1 /\ c[2] \in On(c) /\ 2 \in 2 .. Len(c) /\ 2 \in 0 .. Len(c)
              /\ c[1] \in On(c)
          BY <2>2, <2>4, <3>2, EndFacts
        <4>2. ~ IsEmpty(c[2])
          BY <2>2, <2>4, <4>1 DEF ChainInv, BlocksInv
        <4>3. Len(contents[c[1]]) \in Nat /\ Len(contents[c[2]]) \in Nat \ {0}
          BY <2>2, <4>1, <4>2, ContentsFacts, EmptySeq
        <4>4. /\ Len(Prefixes(c)[2]) = Len(contents[c[1]]) + Len(contents[c[2]])
              /\ Len(Prefixes(c)[2]) <= Len(ItemsOf(c)) /\ Len(ItemsOf(c)) \in Nat
          BY <2>2, <2>4, <4>1, ItemsFacts
        <4>5. Len(ItemsOf(c)) # 0
          <5>1. \A m \in Nat, n \in Nat \ {0}, l \in Nat : m + n <= l => l # 0
            OBVIOUS
          <5> QED BY <4>3, <4>4, <5>1, Zenon
        <4>6. Len(<< >>) = 0
          OBVIOUS
        <4> QED BY <2>2, <4>5, <4>6, Zenon
      <3> QED BY <3>1, <3>2
    <2> QED BY <2>3, <2>4 DEF AnswersAreTimely
  <1> QED
    BY <1>1, Invariance, PTL

\* The blocks together are one FIFO queue, for every number of blocks, Capacity
\* and elements: a push that goes to a new block takes effect when it links it.
THEOREM BlocksAreFifo == Spec => ImplementsFifo
  <1>1. Init => Fifo!Init
    BY InitHolds
  <1>2. IInv /\ [Next]_vars => [Fifo!Next]_(Fifo!vars)
    BY NextHolds DEF StepHolds
  <1> QED
    BY <1>1, <1>2, Invariance, PTL DEF Spec, ImplementsFifo, Fifo!Spec

-----------------------------------------------------------------------------
(* The slot by itself, with the calls the queue does not use.              *)

\* The slot is constructed with no token and no post.
LEMMA SlotInitHolds == SlotInit => SlotIInv
  BY DEF SlotInit, SlotIInv, SlotTypeOK, CounterIsExact, Claimed,
         NoStalePost, Posted

\* A signal that finds the counter below zero finds a claim, no token and no
\* earlier post; its own is the only one until the claim is closed.
LEMMA SlotSignalHolds ==
  ASSUME SlotIInv, CallSignal \/ SignalStep
  PROVE  SlotIInv'
  <1> USE DEF SlotIInv, SlotTypeOK, CounterIsExact, Claimed, NoStalePost,
              Posted
  <1>1. CASE CallSignal
    BY <1>1 DEF CallSignal, shared
  <1>2. CASE AddToken
    BY <1>2 DEF AddToken
  <1>3. CASE Post
    BY <1>3 DEF Post
  <1> QED BY <1>1, <1>2, <1>3 DEF SignalStep

\* The steps before the consumer lowers the counter leave the tokens alone.
LEMMA SlotLookHolds ==
  ASSUME SlotIInv,
         TryGet \/ Spin \/ Finish
           \/ \E c \in {"wait_and_get", "timed_get"} : GetWithSleep(c)
  PROVE  SlotIInv'
  <1> USE DEF SlotIInv, SlotTypeOK, CounterIsExact, Claimed, NoStalePost,
              Posted
  <1>1. CASE TryGet
    BY <1>1 DEF TryGet, shared
  <1>2. ASSUME NEW c \in {"wait_and_get", "timed_get"}, GetWithSleep(c)
        PROVE  SlotIInv'
    BY <1>2, SpinCountAssumption DEF GetWithSleep, shared
  <1>3. CASE Spin
    BY <1>3 DEF Spin, shared
  <1>4. CASE Finish
    BY <1>4 DEF Finish, shared
  <1> QED BY <1>1, <1>2, <1>3, <1>4

\* The steps that take a token, claim one, or give the claim up.
LEMMA SlotTakeHolds ==
  ASSUME SlotIInv,
         TakeToken \/ Claim \/ Wake \/ NoWake \/ Restore \/ Retract
  PROVE  SlotIInv'
  <1> USE DEF SlotIInv, SlotTypeOK, CounterIsExact, Claimed, NoStalePost,
              Posted
  <1>1. CASE TakeToken
    BY <1>1 DEF TakeToken
  <1>2. CASE Claim
    BY <1>2 DEF Claim
  <1>3. CASE Wake
    BY <1>3 DEF Wake
  <1>4. CASE NoWake
    BY <1>4 DEF NoWake, shared
  <1>5. CASE Restore
    BY <1>5 DEF Restore
  <1>6. CASE Retract
    BY <1>6 DEF Retract
  <1> QED BY <1>1, <1>2, <1>3, <1>4, <1>5, <1>6

\* The inductive invariant of the slot holds in every reachable state.
THEOREM SlotInvariance == SlotSpec => []SlotIInv
  <1>1. SlotIInv /\ [SlotNext]_slot => SlotIInv'
    <2> SUFFICES ASSUME SlotIInv, [SlotNext]_slot PROVE SlotIInv'
      OBVIOUS
    <2>1. CASE UNCHANGED slot
      BY <2>1 DEF slot, SlotIInv, SlotTypeOK, CounterIsExact,
                  Claimed, NoStalePost, Posted
    <2>2. CASE SlotNext
      BY <2>2, SlotSignalHolds, SlotLookHolds, SlotTakeHolds DEF SlotNext, GetStep
    <2> QED BY <2>1, <2>2
  <1> QED BY SlotInitHolds, <1>1, PTL DEF SlotSpec

\* No get ever takes a token that no signal added: tokens stays a natural
\* number, and the counter an integer.
THEOREM SlotTypeCorrect == SlotSpec => []SlotTypeOK
  <1>1. SlotIInv => SlotTypeOK
    BY DEF SlotIInv
  <1> QED BY <1>1, SlotInvariance, PTL

\* Through every race of signal with a sleep, a timeout and the restore loop,
\* the counter is the number of tokens less the consumer's open claim.
THEOREM SlotCounterExact == SlotSpec => []CounterIsExact
  <1>1. SlotIInv => CounterIsExact
    BY DEF SlotIInv
  <1> QED BY <1>1, SlotInvariance, PTL

\* The semaphore is never posted twice for one claim, and a post never stays
\* behind when its claim is closed.
THEOREM SlotPostsMatchClaims == SlotSpec => []NoStalePost
  <1>1. SlotIInv => NoStalePost
    BY DEF SlotIInv
  <1> QED BY <1>1, SlotInvariance, PTL
=============================================================================
