-------------------------- MODULE SPSCBoundedProofs --------------------------
(***************************************************************************)
(* Proofs about SPSCBounded for every Capacity and every set of elements:  *)
(* its inductive invariant, the safety invariants that follow from it, and *)
(* that the ring implements a bounded FIFO queue.                          *)
(***************************************************************************)
EXTENDS SPSCBounded, SequenceTheorems, TLAPS

(***************************************************************************)
(* Index arithmetic: on indices of the ring the remainders of the code are *)
(* a comparison and one subtraction.                                       *)
(***************************************************************************)
LEMMA SuccCases ==
  ASSUME NEW i \in Slots
  PROVE  /\ Succ(i) \in Slots
         /\ Succ(i) = IF i = Capacity THEN 0 ELSE i + 1
  BY CapacityAssumption, SMT DEF Slots, Succ, capacity

LEMMA DistCases ==
  ASSUME NEW h \in Slots, NEW t \in Slots
  PROVE  /\ Dist(h, t) \in 0 .. Capacity
         /\ Dist(h, t) = IF h <= t THEN t - h ELSE t - h + Capacity + 1
  BY CapacityAssumption, SMT DEF Slots, Dist, capacity

\* Two indices as far ahead of a are the same index, and only a is 0 ahead of a.
LEMMA DistInjective ==
  ASSUME NEW a \in Slots, NEW b \in Slots, NEW c \in Slots
  PROVE  /\ Dist(a, b) = Dist(a, c) <=> b = c
         /\ Dist(a, b) = 0 <=> a = b
  <1>1. Dist(a, b) = IF a <= b THEN b - a ELSE b - a + Capacity + 1
    BY DistCases
  <1>2. Dist(a, c) = IF a <= c THEN c - a ELSE c - a + Capacity + 1
    BY DistCases
  <1> QED
    BY <1>1, <1>2, CapacityAssumption DEF Slots

\* Distances subtract along a way round the ring, and add when the sum does
\* not exceed a full turn.
LEMMA DistAdd ==
  ASSUME NEW a \in Slots, NEW b \in Slots, NEW c \in Slots
  PROVE  /\ Dist(a, b) <= Dist(a, c) => Dist(b, c) = Dist(a, c) - Dist(a, b)
         /\ Dist(a, b) + Dist(b, c) <= Capacity => Dist(a, c) = Dist(a, b) + Dist(b, c)
  <1>1. Dist(a, b) = IF a <= b THEN b - a ELSE b - a + Capacity + 1
    BY DistCases
  <1>2. Dist(a, c) = IF a <= c THEN c - a ELSE c - a + Capacity + 1
    BY DistCases
  <1>3. Dist(b, c) = IF b <= c THEN c - b ELSE c - b + Capacity + 1
    BY DistCases
  <1> QED
    BY <1>1, <1>2, <1>3, CapacityAssumption DEF Slots

LEMMA DistSucc ==
  ASSUME NEW a \in Slots, NEW b \in Slots
  PROVE  /\ Succ(b) # a => Dist(a, Succ(b)) = Dist(a, b) + 1
         /\ a # b => Dist(Succ(a), b) = Dist(a, b) - 1
  <1>1. Dist(a, b) = IF a <= b THEN b - a ELSE b - a + Capacity + 1
    BY DistCases
  <1>2. /\ Succ(a) \in Slots /\ Succ(a) = IF a = Capacity THEN 0 ELSE a + 1
        /\ Succ(b) \in Slots /\ Succ(b) = IF b = Capacity THEN 0 ELSE b + 1
    BY SuccCases
  <1>3. Dist(a, Succ(b)) = IF a <= Succ(b) THEN Succ(b) - a ELSE Succ(b) - a + Capacity + 1
    BY <1>2, DistCases
  <1>4. Dist(Succ(a), b) = IF Succ(a) <= b THEN b - Succ(a) ELSE b - Succ(a) + Capacity + 1
    BY <1>2, DistCases
  <1> QED
    BY <1>1, <1>2, <1>3, <1>4, CapacityAssumption DEF Slots

\* An index that lies between two others is no further from the outer ones.
LEMMA DistBetween ==
  ASSUME NEW a \in Slots, NEW b \in Slots, NEW c \in Slots, NEW d \in Slots,
         Dist(a, b) <= Dist(a, c), Dist(a, c) <= Dist(a, d)
  PROVE  /\ Dist(b, c) <= Dist(b, d)
         /\ Dist(c, d) <= Dist(b, d)
  <1>1. /\ Dist(b, c) = Dist(a, c) - Dist(a, b)
        /\ Dist(b, d) = Dist(a, d) - Dist(a, b)
        /\ Dist(c, d) = Dist(a, d) - Dist(a, c)
    <2>1. Dist(a, b) \in Int /\ Dist(a, c) \in Int /\ Dist(a, d) \in Int
      BY DistCases
    <2>2. Dist(a, b) <= Dist(a, d)
      BY <2>1
    <2> QED
      BY <2>2, DistAdd
  <1>2. Dist(a, b) \in Int /\ Dist(a, c) \in Int /\ Dist(a, d) \in Int
    BY DistCases
  <1> QED
    BY <1>1, <1>2

\* The same seen from the far end: t comes after c on the way from c to d.
LEMMA DistExtend ==
  ASSUME NEW a \in Slots, NEW c \in Slots, NEW d \in Slots, NEW t \in Slots,
         Dist(a, c) <= Dist(a, d), Dist(c, t) <= Dist(c, d)
  PROVE  Dist(a, t) = Dist(a, c) + Dist(c, t) /\ Dist(a, t) <= Dist(a, d)
  <1>1. /\ Dist(a, c) \in 0 .. Capacity /\ Dist(a, d) \in 0 .. Capacity
        /\ Dist(c, t) \in 0 .. Capacity /\ Dist(c, d) \in 0 .. Capacity
    BY DistCases
  <1>2. Dist(c, d) = Dist(a, d) - Dist(a, c)
    BY DistAdd
  <1>3. Dist(a, c) + Dist(c, t) <= Capacity
    BY <1>1, <1>2, CapacityAssumption
  <1> QED
    BY <1>1, <1>2, <1>3, DistAdd, CapacityAssumption

-----------------------------------------------------------------------------
LEMMA InitInv == Init => IInv
  <1> SUFFICES ASSUME Init PROVE IInv
    OBVIOUS
  <1>1. 0 \in Slots /\ Dist(0, 0) = 0
    BY CapacityAssumption, DistCases DEF Slots
  <1>2. TypeOK
    BY <1>1, CapacityAssumption DEF Init, TypeOK
  <1>3. Order /\ ProducerInv /\ ConsumerInv
    BY <1>1 DEF Init, Order, ProducerInv, ConsumerInv
  <1>4. Contents
    BY <1>1, DistCases DEF Init, Contents
  <1>5. PopsAnElement /\ PeekedIsNext
    BY DEF Init, PopsAnElement, PeekedIsNext
  <1>6. SizeIsAPromise
    BY <1>1, CapacityAssumption DEF Init, SizeIsAPromise
  <1> QED
    BY <1>2, <1>3, <1>4, <1>5, <1>6 DEF IInv

LEMMA TypeStep == TypeOK /\ [Next]_vars => TypeOK'
  <1> SUFFICES ASSUME TypeOK, [Next]_vars PROVE TypeOK'
    OBVIOUS
  <1> USE CapacityAssumption, NoValueAssumption DEF TypeOK
  <1>1. ASSUME NEW v \in Value, TryPush(v) PROVE TypeOK'
    BY <1>1 DEF TryPush, BeginPush, consumer
  <1>2. ASSUME NEW v \in Value, WaitAndPush(v) PROVE TypeOK'
    BY <1>2 DEF WaitAndPush, BeginPush, consumer
  <1>3. CASE TryReloadHead
    BY <1>3 DEF TryReloadHead, Visible, consumer
  <1>4. CASE WaitReloadHead
    BY <1>4 DEF WaitReloadHead, Visible, consumer
  <1>5. CASE WriteSlot
    BY <1>5 DEF WriteSlot, consumer
  <1>6. CASE PublishTail
    BY <1>6, SuccCases DEF PublishTail, Decr, consumer
  <1>7. CASE ProducerSize
    <2>1. PICK h \in Slots : room' = Capacity - Dist(h, tail)
      BY <1>7 DEF ProducerSize, Visible
    <2>2. room' \in 0 .. Capacity
      BY <2>1, DistCases
    <2> QED
      BY <1>7, <2>2 DEF ProducerSize, consumer
  <1>8. CASE TryPop
    BY <1>8 DEF TryPop, BeginRead, producer
  <1>9. CASE WaitAndPop
    BY <1>9 DEF WaitAndPop, BeginRead, producer
  <1>10. CASE Peek
    BY <1>10 DEF Peek, BeginRead, producer
  <1>11. CASE TryReloadTail
    BY <1>11 DEF TryReloadTail, ReloadTail, Visible, producer
  <1>12. CASE WaitReloadTail
    BY <1>12 DEF WaitReloadTail, ReloadTail, Visible, producer
  <1>13. CASE PeekReloadTail
    BY <1>13 DEF PeekReloadTail, ReloadTail, Visible, producer
  <1>14. CASE TakeSlot
    BY <1>14 DEF TakeSlot, producer
  <1>15. CASE ReleaseHead
    BY <1>15, SuccCases DEF ReleaseHead, Decr, producer
  <1>16. CASE PeekSlot
    BY <1>16 DEF PeekSlot, producer
  <1>17. CASE ConsumerSize
    <2>1. PICK t \in Slots : avail' = Dist(head, t)
      BY <1>17 DEF ConsumerSize, Visible
    <2>2. avail' \in 0 .. Capacity
      BY <2>1, DistCases
    <2> QED
      BY <1>17, <2>2 DEF ConsumerSize, producer
  <1>18. CASE UNCHANGED vars
    BY <1>18 DEF vars, producer, consumer
  <1> QED
    BY <1>1, <1>2, <1>3, <1>4, <1>5, <1>6, <1>7, <1>8, <1>9, <1>10, <1>11,
       <1>12, <1>13, <1>14, <1>15, <1>16, <1>17, <1>18
       DEF Next, ProducerStep, ConsumerStep

-----------------------------------------------------------------------------
(***************************************************************************)
(* The inductive step, one lemma per kind of action.  TypeOK is preserved  *)
(* by TypeStep; the lemmas are about the other conjuncts.                  *)
(***************************************************************************)
Relations ==
  /\ Order /\ ProducerInv /\ ConsumerInv /\ Contents
  /\ PopsAnElement /\ PeekedIsNext /\ SizeIsAPromise

\* When the consumer sees an element there is one, and when the producer sees
\* a free slot there is one.
LEMMA TailAhead ==
  ASSUME TypeOK, Order, tail_cache # head
  PROVE  Dist(head, tail) > 0 /\ tail # head
  <1>1. Dist(head, tail_cache) \in 0 .. Capacity /\ Dist(head, tail) \in 0 .. Capacity
    BY DistCases DEF TypeOK
  <1>2. Dist(head, tail_cache) # 0
    BY DistInjective DEF TypeOK
  <1>3. Dist(head, tail) > 0
    BY <1>1, <1>2, CapacityAssumption DEF Order
  <1> QED
    BY <1>3, DistInjective DEF TypeOK

LEMMA HeadAhead ==
  ASSUME TypeOK, Order, Succ(tail) # head_cache
  PROVE  Succ(tail) # head
  <1> USE DEF TypeOK
  <1>1. Dist(head_cache, Succ(tail)) = Dist(head_cache, tail) + 1
    BY DistSucc
  <1> QED
    BY <1>1, DistCases DEF Order

LEMMA BeginPushStep ==
  ASSUME NEW v \in Value, NEW full \in {"try_reload", "wait_reload"},
         IInv, BeginPush(v, full)
  PROVE  Relations'
  BY DEF BeginPush, consumer, IInv, TypeOK, Relations, Order, ProducerInv,
         ConsumerInv, Contents, PopsAnElement, PeekedIsNext, SizeIsAPromise

LEMMA ReloadHeadStep ==
  ASSUME IInv, TryReloadHead \/ WaitReloadHead
  PROVE  Relations'
  <1> USE DEF IInv, TypeOK
  <1>1. PICK h \in Slots : /\ Dist(head_cache, h) <= Dist(head_cache, head)
                           /\ head_cache' = h
                           /\ ppc' \in {"idle", "wait_reload", "write"}
                           /\ ppc' = "write" => Succ(cur_tail) # h
                           /\ ppc' # "idle" => pvalue' = pvalue
    BY DEF TryReloadHead, WaitReloadHead, Visible
  <1>2. ppc # "idle" /\ UNCHANGED <<head, tail, arr, cur_tail, room, consumer>>
    BY DEF TryReloadHead, WaitReloadHead
  <1>3. Dist(h, head) <= Dist(h, tail)
    BY <1>1, DistBetween DEF Order
  <1>4. Order'
    BY <1>1, <1>2, <1>3 DEF Order, consumer
  <1>5. ProducerInv'
    BY <1>1, <1>2 DEF ProducerInv
  <1>6. (ConsumerInv /\ Contents /\ PopsAnElement /\ PeekedIsNext /\ SizeIsAPromise)'
    BY <1>2 DEF consumer, ConsumerInv, Contents, PopsAnElement, PeekedIsNext, SizeIsAPromise
  <1> QED
    BY <1>4, <1>5, <1>6 DEF Relations

LEMMA WriteSlotStep ==
  ASSUME IInv, WriteSlot
  PROVE  Relations'
  <1> USE DEF IInv, TypeOK, WriteSlot
  <1>1. Order' /\ SizeIsAPromise' /\ PopsAnElement'
    BY DEF Order, SizeIsAPromise, PopsAnElement, consumer
  <1>2. ProducerInv'
    BY DEF ProducerInv
  <1>3. ConsumerInv'
    BY DEF ConsumerInv, consumer
  <1>4. Contents'
    BY DEF Contents, ProducerInv, consumer
  <1>5. PeekedIsNext'
    <2>1. CASE peeked # NoValue /\ cpc # "release"
      <3>1. tail # head
        BY <2>1, TailAhead DEF ConsumerInv
      <3> QED
        BY <2>1, <3>1 DEF PeekedIsNext, ProducerInv, consumer
    <2> QED
      BY <2>1 DEF PeekedIsNext, consumer
  <1> QED
    BY <1>1, <1>2, <1>3, <1>4, <1>5 DEF Relations

LEMMA PublishTailStep ==
  ASSUME IInv, PublishTail
  PROVE  Relations'
  <1> USE CapacityAssumption DEF IInv, TypeOK, PublishTail
  <1>1. /\ tail' = Succ(tail)
        /\ tail' \in Slots
        /\ Succ(tail) # head_cache
        /\ arr[tail] \in Value
    BY SuccCases DEF ProducerInv
  <1>2. Dist(head, tail') = Dist(head, tail) + 1
    <2>1. Succ(tail) # head
      BY <1>1, HeadAhead DEF ProducerInv
    <2> QED
      BY <1>1, <2>1, DistSucc
  <1>3. Order'
    <2>1. Dist(head_cache, tail') = Dist(head_cache, tail) + 1
      BY <1>1, DistSucc
    <2>2. /\ Dist(head_cache, head) <= Dist(head_cache, tail')
          /\ Dist(head, tail_cache) <= Dist(head, tail')
      BY <1>2, <2>1, DistCases DEF Order
    <2> QED
      BY <2>2 DEF Order, consumer
  <1>4. ProducerInv' /\ ConsumerInv'
    BY DEF ProducerInv, ConsumerInv, consumer
  <1>5. Contents'
    <2> SUFFICES ASSUME NEW i \in Slots, Dist(head, i) < Dist(head, tail'),
                        ~ (i = head /\ cpc = "release")
                 PROVE  arr[i] \in Value
      BY DEF Contents, consumer
    <2>1. Dist(head, i) = Dist(head, tail) \/ Dist(head, i) < Dist(head, tail)
      BY <1>2, DistCases
    <2>2. i = tail \/ Dist(head, i) < Dist(head, tail)
      BY <2>1, DistInjective
    <2> QED
      BY <1>1, <2>2 DEF Contents
  <1>6. PopsAnElement' /\ PeekedIsNext'
    BY DEF PopsAnElement, PeekedIsNext, consumer
  <1>7. SizeIsAPromise'
    BY <1>1, <1>2, DistCases DEF SizeIsAPromise, Decr, consumer
  <1> QED
    BY <1>3, <1>4, <1>5, <1>6, <1>7 DEF Relations

LEMMA SizeStep ==
  ASSUME IInv, ProducerSize \/ ConsumerSize
  PROVE  Relations'
  <1> USE CapacityAssumption DEF IInv, TypeOK
  <1>1. SizeIsAPromise'
    <2>1. CASE ProducerSize
      <3>1. PICK h \in Slots : /\ Dist(head_cache, h) <= Dist(head_cache, head)
                               /\ room' = Capacity - Dist(h, tail)
        BY <2>1 DEF ProducerSize, Visible
      <3>2. Dist(head, tail) <= Dist(h, tail)
        BY <3>1, DistBetween DEF Order
      <3> QED
        BY <2>1, <3>1, <3>2, DistCases DEF ProducerSize, SizeIsAPromise, consumer
    <2>2. CASE ConsumerSize
      <3>1. PICK t \in Slots : /\ Dist(tail_cache, t) <= Dist(tail_cache, tail)
                               /\ avail' = Dist(head, t)
        BY <2>2 DEF ConsumerSize, Visible
      <3>2. Dist(head, t) <= Dist(head, tail)
        BY <3>1, DistExtend DEF Order
      <3> QED
        BY <2>2, <3>1, <3>2, DistCases DEF ConsumerSize, SizeIsAPromise, producer
    <2> QED
      BY <2>1, <2>2
  <1>2. UNCHANGED <<head, tail, arr, head_cache, tail_cache, ppc, cur_tail, pvalue,
                    cpc, cur_head, cvalue, peeked>>
    BY DEF ProducerSize, ConsumerSize, producer, consumer
  <1>3. (Order /\ ProducerInv /\ ConsumerInv /\ Contents /\ PopsAnElement /\ PeekedIsNext)'
    BY <1>2 DEF Order, ProducerInv, ConsumerInv, Contents, PopsAnElement, PeekedIsNext
  <1> QED
    BY <1>1, <1>3 DEF Relations

LEMMA BeginReadStep ==
  ASSUME IInv, TryPop \/ WaitAndPop \/ Peek
  PROVE  Relations'
  <1> USE DEF IInv, TypeOK
  <1>1. /\ cpc = "idle" /\ cur_head' = head
        /\ \/ tail_cache = head /\ cpc' \in {"try_reload", "wait_reload", "peek_reload"}
           \/ tail_cache # head /\ cpc' \in {"take", "peek_read"}
        /\ UNCHANGED <<head, tail, arr, tail_cache, cvalue, out, peeked, avail, producer>>
    BY DEF TryPop, WaitAndPop, Peek, BeginRead
  <1> QED
    BY <1>1 DEF producer, Relations, Order, ProducerInv, ConsumerInv, Contents,
                PopsAnElement, PeekedIsNext, SizeIsAPromise

LEMMA ReloadTailStep ==
  ASSUME IInv, TryReloadTail \/ WaitReloadTail \/ PeekReloadTail
  PROVE  Relations'
  <1> USE DEF IInv, TypeOK
  <1>1. PICK t \in Slots :
          /\ Dist(tail_cache, t) <= Dist(tail_cache, tail)
          /\ tail_cache' = t
          /\ \/ t = cur_head /\ cpc' \in {"idle", "wait_reload"}
             \/ t # cur_head /\ cpc' \in {"take", "peek_read"}
    BY DEF TryReloadTail, WaitReloadTail, PeekReloadTail, ReloadTail, Visible
  <1>2. /\ cpc \in {"try_reload", "wait_reload", "peek_reload"}
        /\ UNCHANGED <<head, tail, arr, cur_head, cvalue, out, peeked, avail, producer>>
    BY DEF TryReloadTail, WaitReloadTail, PeekReloadTail, ReloadTail
  <1>3. Dist(head, t) <= Dist(head, tail)
    BY <1>1, DistExtend DEF Order
  <1>4. Order'
    BY <1>1, <1>2, <1>3 DEF Order, producer
  <1>5. cur_head = head /\ tail_cache = head /\ peeked = NoValue
    BY <1>2 DEF ConsumerInv
  <1>6. ConsumerInv' /\ PopsAnElement' /\ PeekedIsNext'
    BY <1>1, <1>2, <1>5 DEF ConsumerInv, PopsAnElement, PeekedIsNext
  <1>7. (ProducerInv /\ Contents /\ SizeIsAPromise)'
    BY <1>1, <1>2 DEF producer, ProducerInv, Contents, SizeIsAPromise
  <1> QED
    BY <1>4, <1>6, <1>7 DEF Relations

LEMMA TakeSlotStep ==
  ASSUME IInv, TakeSlot
  PROVE  Relations'
  <1> USE DEF IInv, TypeOK, TakeSlot
  <1>1. cur_head = head /\ tail_cache # head /\ Dist(head, tail) > 0 /\ tail # head
    BY TailAhead DEF ConsumerInv
  <1>2. Dist(head, head) = 0
    BY DistInjective
  <1>3. arr[head] \in Value
    <2>1. Dist(head, head) < Dist(head, tail)
      BY <1>1, <1>2
    <2> QED
      BY <2>1 DEF Contents
  <1>4. Order' /\ SizeIsAPromise' /\ ConsumerInv'
    BY <1>1 DEF Order, SizeIsAPromise, ConsumerInv, producer
  <1>5. ProducerInv'
    BY <1>1 DEF ProducerInv, producer
  <1>6. Contents' /\ PopsAnElement' /\ PeekedIsNext'
    BY <1>1, <1>3 DEF Contents, PopsAnElement, PeekedIsNext, producer
  <1> QED
    BY <1>4, <1>5, <1>6 DEF Relations

LEMMA ReleaseHeadStep ==
  ASSUME IInv, ReleaseHead
  PROVE  Relations'
  <1> USE CapacityAssumption DEF IInv, TypeOK, ReleaseHead
  <1>1. /\ cur_head = head /\ tail_cache # head /\ head' = Succ(head)
        /\ tail # head /\ head' \in Slots /\ Dist(head, tail) > 0
    BY TailAhead, SuccCases DEF ConsumerInv
  <1>2. /\ Dist(head', tail) = Dist(head, tail) - 1
        /\ Dist(head', tail_cache) = Dist(head, tail_cache) - 1
    BY <1>1, DistSucc
  <1>3. Order'
    <2>1. Dist(head_cache, head') = Dist(head_cache, head) + 1
      <3>1. Succ(head) # head_cache
        <4>1. SUFFICES ASSUME Succ(head) = head_cache PROVE FALSE
          OBVIOUS
        <4>2. Dist(head_cache, tail) = Dist(head, tail) - 1
          BY <1>1, <1>2, <4>1
        <4>3. Dist(head, tail) = Dist(head_cache, tail) - Dist(head_cache, head)
          BY DistAdd DEF Order
        <4> QED
          BY <4>2, <4>3, DistCases
      <3> QED
        BY <1>1, <3>1, DistSucc
    <2>2. Dist(head_cache, head) < Dist(head_cache, tail)
      <3>1. Dist(head_cache, head) # Dist(head_cache, tail)
        BY <1>1, DistInjective
      <3> QED
        BY <3>1, DistCases DEF Order
    <2>3. Dist(head_cache, head') <= Dist(head_cache, tail)
      BY <2>1, <2>2, DistCases
    <2>4. Dist(head', tail_cache) <= Dist(head', tail)
      BY <1>2, DistCases DEF Order
    <2> QED
      BY <2>3, <2>4 DEF Order, producer
  <1>4. ProducerInv' /\ ConsumerInv' /\ PopsAnElement' /\ PeekedIsNext'
    BY DEF ProducerInv, ConsumerInv, PopsAnElement, PeekedIsNext, producer
  <1>5. Contents'
    <2> SUFFICES ASSUME NEW i \in Slots, Dist(head', i) < Dist(head', tail)
                 PROVE  arr[i] \in Value
      BY DEF Contents, producer
    <2>1. i # head
      <3> SUFFICES ASSUME i = head PROVE FALSE
        OBVIOUS
      <3>1. Dist(head', tail) - Dist(head', i) = Dist(head, tail)
        BY <1>1, DistAdd, DistCases
      <3>2. Dist(head, tail) \in 0 .. Capacity /\ Dist(head', i) \in 0 .. Capacity
        BY <1>1, DistCases
      <3> QED
        BY <1>2, <3>1, <3>2
    <2>2. Dist(head', i) = Dist(head, i) - 1
      BY <1>1, <2>1, DistSucc
    <2>3. Dist(head, i) < Dist(head, tail)
      BY <1>2, <2>2, DistCases
    <2> QED
      BY <2>1, <2>3 DEF Contents
  <1>6. SizeIsAPromise'
    BY <1>1, <1>2, DistCases DEF SizeIsAPromise, Decr, producer
  <1> QED
    BY <1>3, <1>4, <1>5, <1>6 DEF Relations

LEMMA PeekSlotStep ==
  ASSUME IInv, PeekSlot
  PROVE  Relations'
  BY DEF PeekSlot, producer, IInv, TypeOK, Relations, Order, ProducerInv,
         ConsumerInv, Contents, PopsAnElement, PeekedIsNext, SizeIsAPromise

LEMMA StepInv == IInv /\ [Next]_vars => IInv'
  <1> SUFFICES ASSUME IInv, [Next]_vars PROVE Relations'
    BY TypeStep DEF IInv, Relations
  <1>1. ASSUME NEW v \in Value, TryPush(v) \/ WaitAndPush(v) PROVE Relations'
    BY <1>1, BeginPushStep DEF TryPush, WaitAndPush
  <1>2. CASE ProducerStep
    BY <1>2, ReloadHeadStep, WriteSlotStep, PublishTailStep DEF ProducerStep
  <1>3. CASE TryPop \/ WaitAndPop \/ Peek
    BY <1>3, BeginReadStep
  <1>4. CASE ConsumerStep
    BY <1>4, ReloadTailStep, TakeSlotStep, ReleaseHeadStep, PeekSlotStep DEF ConsumerStep
  <1>5. CASE ProducerSize \/ ConsumerSize
    BY <1>5, SizeStep
  <1>6. CASE UNCHANGED vars
    BY <1>6 DEF vars, producer, consumer, IInv, TypeOK, Relations, Order, ProducerInv,
                ConsumerInv, Contents, PopsAnElement, PeekedIsNext, SizeIsAPromise
  <1> QED
    BY <1>1, <1>2, <1>3, <1>4, <1>5, <1>6 DEF Next

-----------------------------------------------------------------------------
\* The ring's invariant holds in every reachable state, for every Capacity.
THEOREM Invariance == Spec => []IInv
  BY InitInv, StepInv, PTL DEF Spec

\* The ring's variables keep their types: the indices never leave the array
\* and the size arithmetic stays within 0..Capacity.
THEOREM TypeCorrect == Spec => []TypeOK
  <1>1. IInv => TypeOK
    BY DEF IInv
  <1> QED
    BY <1>1, Invariance, PTL

\* The unsynchronised slot accesses of emplace_back and of the pops and peek
\* never meet in one slot.
THEOREM RaceFree == Spec => []NoSlotRace
  <1>1. IInv => NoSlotRace
    BY TailAhead DEF IInv, ProducerInv, ConsumerInv, NoSlotRace
  <1> QED
    BY <1>1, Invariance, PTL

\* Every successful pop hands out a pushed element, and a peeked element is
\* the one the next pop hands out.
THEOREM ReadsElements == Spec => [](PopsAnElement /\ PeekedIsNext)
  <1>1. IInv => PopsAnElement /\ PeekedIsNext
    BY DEF IInv
  <1> QED
    BY <1>1, Invariance, PTL

\* A size() read by either thread stays a promise to that thread.
THEOREM SizePromise == Spec => []SizeIsAPromise
  <1>1. IInv => SizeIsAPromise
    BY DEF IInv
  <1> QED
    BY <1>1, Invariance, PTL

-----------------------------------------------------------------------------
(***************************************************************************)
(* The ring implements FifoQueue.                                          *)
(***************************************************************************)
\* Positions round the ring: the slot of the i-th element of the queue.
LEMMA SlotOf ==
  ASSUME NEW h \in Slots, NEW i \in 1 .. Capacity
  PROVE  /\ (h + i - 1) % capacity \in Slots
         /\ Dist(h, (h + i - 1) % capacity) = i - 1
  <1> DEFINE s == (h + i - 1) % capacity
  <1>1. s \in Slots /\ s = IF h + i - 1 <= Capacity THEN h + i - 1 ELSE h + i - 1 - (Capacity + 1)
    BY CapacityAssumption, SMT DEF Slots, capacity
  <1> HIDE DEF s
  <1>2. Dist(h, s) = IF h <= s THEN s - h ELSE s - h + Capacity + 1
    BY <1>1, DistCases
  <1>3. Dist(h, s) = i - 1
    BY <1>1, <1>2, CapacityAssumption DEF Slots
  <1> QED
    BY <1>1, <1>3 DEF s

\* What Items is made of.
ItemsMade ==
  /\ Items \in Seq(Value)
  /\ Len(Items) = Dist(head, tail)
  /\ \A i \in 1 .. Dist(head, tail) :
       Items[i] = IF i = 1 /\ cpc = "release" THEN cvalue
                                            ELSE arr[(head + i - 1) % capacity]

LEMMA ItemsProperties == IInv => ItemsMade
  <1> SUFFICES ASSUME IInv PROVE ItemsMade
    OBVIOUS
  <1> DEFINE n == Dist(head, tail)
  <1>1. n \in 0 .. Capacity
    BY DistCases DEF IInv, TypeOK
  <1>2. ASSUME NEW i \in 1 .. n
        PROVE  (IF i = 1 /\ cpc = "release" THEN cvalue
                                            ELSE arr[(head + i - 1) % capacity]) \in Value
    <2>1. CASE i = 1 /\ cpc = "release"
      BY <2>1 DEF IInv, PopsAnElement
    <2>2. CASE ~ (i = 1 /\ cpc = "release")
      <3> DEFINE s == (head + i - 1) % capacity
      <3>1. s \in Slots /\ Dist(head, s) = i - 1
        BY <1>1, SlotOf, CapacityAssumption DEF IInv, TypeOK
      <3> HIDE DEF s
      <3>2. s = head => i = 1
        BY <1>1, <3>1, DistInjective DEF IInv, TypeOK
      <3>3. Dist(head, s) < Dist(head, tail)
        BY <1>1, <3>1
      <3>4. arr[s] \in Value
        BY <2>2, <3>1, <3>2, <3>3 DEF IInv, Contents
      <3> QED
        BY <2>2, <3>4 DEF s
    <2> QED
      BY <2>1, <2>2
  <1> HIDE DEF n
  <1>3. Items = [i \in 1 .. n |-> IF i = 1 /\ cpc = "release" THEN cvalue
                                   ELSE arr[(head + i - 1) % capacity]]
    BY DEF Items, n
  <1>4. Items \in Seq(Value) /\ Len(Items) = n
    BY <1>1, <1>2, <1>3
  <1> QED
    BY <1>3, <1>4 DEF n, ItemsMade

LEMMA ItemsPropertiesPrimed == IInv' => ItemsMade'
  BY ItemsProperties, PTL

\* The queue's contents do not change when the indices and the slots between
\* them do not: the producer's locals and caches and the free slots are not
\* part of them, and neither is where the consumer is except for its element.
LEMMA ItemsUnchanged ==
  ASSUME IInv, IInv', head' = head, tail' = tail,
         cpc = "release" <=> cpc' = "release", cvalue' = cvalue \/ cpc # "release",
         \A i \in Slots : Dist(head, i) < Dist(head, tail) => arr'[i] = arr[i]
  PROVE  Items' = Items
  <1> DEFINE n == Dist(head, tail)
  <1>1. /\ Items \in Seq(Value) /\ Len(Items) = n
        /\ \A i \in 1 .. n : Items[i] = IF i = 1 /\ cpc = "release" THEN cvalue
                                                      ELSE arr[(head + i - 1) % capacity]
    BY ItemsProperties DEF ItemsMade
  <1>2. /\ Items' \in Seq(Value) /\ Len(Items') = n
        /\ \A i \in 1 .. n : Items'[i] = IF i = 1 /\ cpc = "release" THEN cvalue
                                                       ELSE arr'[(head + i - 1) % capacity]
    BY ItemsPropertiesPrimed DEF ItemsMade
  <1>3. ASSUME NEW i \in 1 .. n PROVE Items'[i] = Items[i]
    <2> DEFINE s == (head + i - 1) % capacity
    <2>1. n \in 0 .. Capacity
      BY DistCases DEF IInv, TypeOK
    <2>2. s \in Slots /\ Dist(head, s) = i - 1
      BY <2>1, SlotOf, CapacityAssumption DEF IInv, TypeOK
    <2>3. Dist(head, s) < n
      BY <2>1, <2>2
    <2> QED
      BY <1>1, <1>2, <2>2, <2>3
  <1> HIDE DEF n
  <1> QED
    BY <1>1, <1>2, <1>3, SeqEqual

\* The move out of the slot hands the head element from the slot to cvalue.
LEMMA TakeKeepsItems ==
  ASSUME IInv, IInv', TakeSlot
  PROVE  Items' = Items
  <1> DEFINE n == Dist(head, tail)
  <1>1. /\ Items \in Seq(Value) /\ Len(Items) = n
        /\ \A i \in 1 .. n : Items[i] = arr[(head + i - 1) % capacity]
    BY ItemsProperties DEF ItemsMade, TakeSlot
  <1>2. /\ Items' \in Seq(Value) /\ Len(Items') = n
        /\ \A i \in 1 .. n : Items'[i] = IF i = 1 THEN arr[cur_head]
                                                   ELSE arr'[(head + i - 1) % capacity]
    BY ItemsPropertiesPrimed DEF ItemsMade, TakeSlot
  <1>3. ASSUME NEW i \in 1 .. n PROVE Items'[i] = Items[i]
    <2> DEFINE s == (head + i - 1) % capacity
    <2>1. n \in 0 .. Capacity /\ cur_head = head
      BY DistCases DEF IInv, TypeOK, TakeSlot, ConsumerInv
    <2>2. s \in Slots /\ Dist(head, s) = i - 1
      BY <2>1, SlotOf, CapacityAssumption DEF IInv, TypeOK
    <2> HIDE DEF s
    <2>3. s = head <=> i = 1
      BY <2>2, DistInjective DEF IInv, TypeOK
    <2>4. s # head => arr'[s] = arr[s]
      BY <2>1, <2>2 DEF TakeSlot, IInv, TypeOK
    <2> QED
      BY <1>1, <1>2, <2>1, <2>3, <2>4 DEF s
  <1> HIDE DEF n
  <1> QED
    BY <1>1, <1>2, <1>3, SeqEqual

\* The store of tail appends the element written before it.
LEMMA PublishIsPush ==
  ASSUME IInv, IInv', PublishTail
  PROVE  \E v \in Value : Fifo!Push(v)
  <1> DEFINE n == Dist(head, tail)
             at(i) == IF i = 1 /\ cpc = "release" THEN cvalue
                                                  ELSE arr[(head + i - 1) % capacity]
  <1>1. /\ n \in 0 .. Capacity - 1 /\ Dist(head, tail') = n + 1
        /\ arr[tail] \in Value /\ tail' = Succ(tail)
    <2>1. /\ Succ(tail) # head /\ tail' = Succ(tail)
          /\ tail' \in Slots /\ arr[tail] \in Value
      BY HeadAhead, SuccCases DEF IInv, TypeOK, ProducerInv, PublishTail
    <2>2. Dist(head, tail') = n + 1
      BY <2>1, DistSucc DEF IInv, TypeOK
    <2>3. n \in 0 .. Capacity /\ Dist(head, tail') \in 0 .. Capacity
      BY <2>1, DistCases DEF IInv, TypeOK
    <2> QED
      BY <2>1, <2>2, <2>3, CapacityAssumption
  <1>2. Items \in Seq(Value) /\ Len(Items) = n /\ \A i \in 1 .. n : Items[i] = at(i)
    BY ItemsProperties DEF ItemsMade
  <1>3. /\ Items' \in Seq(Value) /\ Len(Items') = n + 1
        /\ \A i \in 1 .. n + 1 : Items'[i] = at(i)
    BY <1>1, ItemsPropertiesPrimed DEF ItemsMade, PublishTail, consumer
  <1>4. at(n + 1) = arr[tail]
    <2> DEFINE s == (head + (n + 1) - 1) % capacity
    <2>1. s \in Slots /\ Dist(head, s) = n
      BY <1>1, SlotOf, CapacityAssumption DEF IInv, TypeOK
    <2>2. s = tail
      BY <2>1, DistInjective DEF IInv, TypeOK
    <2>3. n + 1 = 1 => cpc # "release"
      BY <1>1, TailAhead DEF IInv, ConsumerInv
    <2> HIDE DEF s, n
    <2> QED
      BY <2>2, <2>3 DEF s
  <1> HIDE DEF n, at
  <1>5. Items' = Append(Items, arr[tail])
    BY <1>1, <1>2, <1>3, <1>4, SeqEqual
  <1>6. Len(Items) + 1 \in 0 .. Capacity /\ out' = out
    BY <1>1, <1>2, CapacityAssumption DEF PublishTail, consumer
  <1> QED
    BY <1>1, <1>5, <1>6 DEF Fifo!Push

\* The store of head removes the element that the pop returns.
LEMMA ReleaseIsPop ==
  ASSUME IInv, IInv', ReleaseHead
  PROVE  Fifo!Pop
  <1> DEFINE n == Dist(head, tail)
  <1>1. /\ n \in 1 .. Capacity /\ Dist(head', tail) = n - 1
        /\ head' = Succ(head) /\ head' \in Slots
    <2>1. head' = Succ(head) /\ head' \in Slots /\ n > 0 /\ tail # head
      BY TailAhead, SuccCases DEF IInv, TypeOK, ConsumerInv, ReleaseHead
    <2>2. n \in 0 .. Capacity /\ Dist(head', tail) = n - 1
      BY <2>1, DistSucc, DistCases DEF IInv, TypeOK
    <2> QED
      BY <2>1, <2>2, CapacityAssumption
  <1>2. /\ Items \in Seq(Value) /\ Len(Items) = n /\ Items[1] = cvalue
        /\ \A i \in 2 .. n : Items[i] = arr[(head + i - 1) % capacity]
    BY <1>1, ItemsProperties DEF ItemsMade, ReleaseHead
  <1>3. /\ Items' \in Seq(Value) /\ Len(Items') = n - 1
        /\ \A i \in 1 .. n - 1 : Items'[i] = arr[(head' + i - 1) % capacity]
    BY <1>1, ItemsPropertiesPrimed DEF ItemsMade, ReleaseHead, producer
  <1>4. ASSUME NEW i \in 1 .. n - 1 PROVE Items'[i] = Items[i + 1]
    <2> DEFINE s == (head + (i + 1) - 1) % capacity
               t == (head' + i - 1) % capacity
    <2>1. s \in Slots /\ Dist(head, s) = i
      <3>1. i + 1 \in 1 .. Capacity /\ (i + 1) - 1 = i
        BY <1>1, CapacityAssumption
      <3> HIDE DEF n
      <3> QED
        BY <3>1, SlotOf DEF IInv, TypeOK
    <2>2. t \in Slots /\ Dist(head', t) = i - 1
      <3>1. i \in 1 .. Capacity
        BY <1>1, CapacityAssumption
      <3> HIDE DEF n
      <3> QED
        BY <1>1, <3>1, SlotOf
    <2> HIDE DEF s, t
    <2>3. Dist(head', s) = i - 1
      <3>1. s # head
        BY <2>1, DistInjective DEF IInv, TypeOK
      <3> QED
        BY <1>1, <2>1, <3>1, DistSucc DEF IInv, TypeOK
    <2>4. s = t
      BY <1>1, <2>1, <2>2, <2>3, DistInjective
    <2>5. Items[i + 1] = arr[s] /\ Items'[i] = arr[t]
      BY <1>1, <1>2, <1>3 DEF s, t
    <2> QED
      BY <2>4, <2>5
  <1> HIDE DEF n
  <1>5. Items' = Tail(Items)
    BY <1>1, <1>2, <1>3, <1>4, SeqEqual
  <1>6. Items # << >> /\ Head(Items) = cvalue
    BY <1>1, <1>2
  <1> QED
    BY <1>5, <1>6 DEF Fifo!Pop, ReleaseHead

\* The empty ring is the empty queue.
LEMMA InitRefines == Init => Fifo!Init
  <1> SUFFICES ASSUME Init PROVE Fifo!Init
    OBVIOUS
  <1>1. IInv /\ Dist(head, tail) = 0
    BY InitInv, DistInjective DEF Init, IInv, TypeOK
  <1>2. Items = << >>
    BY <1>1, ItemsProperties DEF ItemsMade
  <1> QED
    BY <1>2 DEF Init, Fifo!Init

\* PublishTail and ReleaseHead are steps of the queue, the others stutter.
LEMMA StepRefines == IInv /\ IInv' /\ [Next]_vars => [Fifo!Next]_Fifo!vars
  <1> SUFFICES ASSUME IInv, IInv', [Next]_vars
               PROVE  Fifo!Next \/ (Items' = Items /\ out' = out)
    BY DEF Fifo!vars
  <1>1. CASE PublishTail
    BY <1>1, PublishIsPush DEF Fifo!Next
  <1>2. CASE ReleaseHead
    BY <1>2, ReleaseIsPop DEF Fifo!Next
  <1>3. CASE TakeSlot
    BY <1>3, TakeKeepsItems DEF TakeSlot
  <1>4. CASE WriteSlot
    <2>1. \A i \in Slots : Dist(head, i) < Dist(head, tail) => arr'[i] = arr[i]
      <3> SUFFICES ASSUME NEW i \in Slots, Dist(head, i) < Dist(head, tail)
                   PROVE  i # tail
        BY <1>4 DEF WriteSlot, IInv, TypeOK, ProducerInv
      <3> QED
        BY DistCases DEF IInv, TypeOK
    <2>2. head' = head /\ tail' = tail /\ cpc' = cpc /\ cvalue' = cvalue /\ out' = out
      BY <1>4 DEF WriteSlot, consumer
    <2> QED
      BY <2>1, <2>2, ItemsUnchanged
  <1>5. ASSUME head' = head, tail' = tail, arr' = arr, out' = out,
               \/ cpc' = cpc /\ cvalue' = cvalue
               \/ cpc # "release" /\ cpc' # "release"
        PROVE  Items' = Items /\ out' = out
    BY <1>5, ItemsUnchanged
  <1>6. ASSUME NEW v \in Value, TryPush(v) \/ WaitAndPush(v) PROVE Items' = Items /\ out' = out
    <2>1. UNCHANGED <<head, tail, arr, out, cpc, cvalue>>
      BY <1>6 DEF TryPush, WaitAndPush, BeginPush, consumer
    <2> QED
      BY <1>5, <2>1
  <1>7. CASE TryReloadHead \/ WaitReloadHead \/ ProducerSize
    <2>1. UNCHANGED <<head, tail, arr, out, cpc, cvalue>>
      BY <1>7 DEF TryReloadHead, WaitReloadHead, ProducerSize, consumer
    <2> QED
      BY <1>5, <2>1
  <1>8. CASE TryPop \/ WaitAndPop \/ Peek
    BY <1>5, <1>8 DEF TryPop, WaitAndPop, Peek, BeginRead
  <1>9. CASE TryReloadTail \/ WaitReloadTail \/ PeekReloadTail
    BY <1>5, <1>9 DEF TryReloadTail, WaitReloadTail, PeekReloadTail, ReloadTail
  <1>10. CASE PeekSlot \/ ConsumerSize
    BY <1>5, <1>10 DEF PeekSlot, ConsumerSize
  <1>11. CASE UNCHANGED vars
    <2>1. UNCHANGED <<head, tail, arr, out, cpc, cvalue>>
      BY <1>11 DEF vars, consumer
    <2> QED
      BY <1>5, <2>1
  <1> QED
    BY <1>1, <1>2, <1>3, <1>4, <1>6, <1>7, <1>8, <1>9, <1>10, <1>11
       DEF Next, ProducerStep, ConsumerStep

\* Whatever the capacity, the stale index loads and the interleaving, the
\* ring is a FIFO queue of at most Capacity elements: PublishTail is its push
\* and ReleaseHead its pop.
THEOREM RingIsFifo == Spec => ImplementsFifo
  BY InitRefines, StepRefines, Invariance, PTL DEF Spec, ImplementsFifo, Fifo!Spec

=============================================================================
