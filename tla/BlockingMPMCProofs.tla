-------------------------- MODULE BlockingMPMCProofs --------------------------
(***************************************************************************)
(* Proofs about BlockingMPMC for every number of threads, every set of     *)
(* elements and every length of the chain: its inductive invariant, the    *)
(* safety invariants that follow from it, and that the two-lock queue      *)
(* implements a FIFO queue.                                                *)
(***************************************************************************)
EXTENDS BlockingMPMC, SequenceTheorems, TLAPS

(***************************************************************************)
(* Sequences without their first and their last element.                   *)
(***************************************************************************)
LEMMA FrontProperties ==
  ASSUME NEW S, NEW s \in Seq(S), s # << >>
  PROVE  /\ Front(s) \in Seq(S)
         /\ Len(Front(s)) = Len(s) - 1
         /\ \A i \in 1 .. Len(s) - 1 : Front(s)[i] = s[i]
  <1>1. Len(s) \in Nat \ {0} /\ \A i \in 1 .. Len(s) - 1 : s[i] \in S
    BY EmptySeq, ElementOfSeq
  <1>2. SubSeq(s, 1, Len(s) - 1) \in Seq(S)
    BY <1>1, SubSeqProperties
  <1>3. Len(SubSeq(s, 1, Len(s) - 1)) = Len(s) - 1
    <2> DEFINE n == Len(s) - 1
    <2>1. n \in Nat /\ \A i \in 1 .. n : s[i] \in S
      BY <1>1
    <2> HIDE DEF n
    <2>2. Len(SubSeq(s, 1, n)) = IF 1 <= n THEN n - 1 + 1 ELSE 0
      BY <2>1, SubSeqProperties
    <2>3. Len(SubSeq(s, 1, n)) = n
      BY <2>1, <2>2
    <2> QED
      BY <2>3 DEF n
  <1>4. ASSUME NEW i \in 1 .. Len(s) - 1 PROVE SubSeq(s, 1, Len(s) - 1)[i] = s[i]
    <2>1. i \in 1 .. Len(s) - 1 - 1 + 1 /\ 1 + i - 1 = i
      BY <1>1
    <2>2. SubSeq(s, 1, Len(s) - 1)[i] = s[1 + i - 1]
      BY <1>1, <2>1, SubSeqProperties
    <2> QED
      BY <2>1, <2>2
  <1> QED
    BY <1>2, <1>3, <1>4 DEF Front

LEMMA FrontOfAppend ==
  ASSUME NEW S, NEW s \in Seq(S), NEW e \in S
  PROVE  Front(Append(s, e)) = s
  <1>1. /\ Append(s, e) \in Seq(S) /\ Append(s, e) # << >>
        /\ Len(Append(s, e)) = Len(s) + 1
        /\ \A i \in 1 .. Len(s) : Append(s, e)[i] = s[i]
    BY AppendProperties
  <1>2. Len(s) \in Nat
    BY LenProperties
  <1> DEFINE a == Append(s, e)
  <1> HIDE DEF a
  <1>3. Front(a) \in Seq(S) /\ Len(Front(a)) = Len(a) - 1
        /\ \A i \in 1 .. Len(a) - 1 : Front(a)[i] = a[i]
    BY <1>1, FrontProperties DEF a
  <1>4. Len(a) - 1 = Len(s) /\ \A i \in 1 .. Len(s) : a[i] = s[i]
    BY <1>1, <1>2 DEF a
  <1>5. Front(a) = s
    BY <1>3, <1>4, SeqEqual
  <1> QED
    BY <1>5 DEF a

LEMMA FrontAndLast ==
  ASSUME NEW S, NEW s \in Seq(S), s # << >>
  PROVE  Last(s) \in S /\ s = Append(Front(s), Last(s))
  <1>1. Len(s) \in Nat \ {0}
    BY EmptySeq
  <1>2. Last(s) \in S
    BY <1>1, ElementOfSeq DEF Last
  <1>3. /\ Front(s) \in Seq(S) /\ Len(Front(s)) = Len(s) - 1
        /\ \A i \in 1 .. Len(s) - 1 : Front(s)[i] = s[i]
    BY FrontProperties
  <1> DEFINE f == Front(s)
             a == Append(f, Last(s))
  <1> HIDE DEF f
  <1>4. /\ a \in Seq(S) /\ Len(a) = Len(f) + 1
        /\ \A i \in 1 .. Len(f) : a[i] = f[i]
        /\ a[Len(f) + 1] = Last(s)
    BY <1>2, <1>3, AppendProperties DEF f
  <1> HIDE DEF a
  <1>5. Len(a) = Len(s)
    BY <1>1, <1>3, <1>4 DEF f
  <1>6. ASSUME NEW i \in 1 .. Len(s) PROVE s[i] = a[i]
    BY <1>1, <1>3, <1>4 DEF f, Last
  <1>7. s = a
    BY <1>4, <1>5, <1>6, SeqEqual
  <1> QED
    BY <1>2, <1>7 DEF a, f

\* An element before a sequence.
LEMMA ElementBefore ==
  ASSUME NEW S, NEW e \in S, NEW s \in Seq(S)
  PROVE  /\ <<e>> \o s \in Seq(S)
         /\ Len(<<e>> \o s) = Len(s) + 1
         /\ (<<e>> \o s)[1] = e
         /\ \A i \in 1 .. Len(s) : (<<e>> \o s)[i + 1] = s[i]
  <1> DEFINE h == <<e>>
  <1>1. h \in Seq(S) /\ Len(h) = 1 /\ h[1] = e /\ Len(s) \in Nat
    BY LenProperties
  <1> HIDE DEF h
  <1>2. /\ h \o s \in Seq(S) /\ Len(h \o s) = Len(h) + Len(s)
        /\ \A i \in 1 .. Len(h) + Len(s) :
             (h \o s)[i] = IF i <= Len(h) THEN h[i] ELSE s[i - Len(h)]
    BY <1>1, ConcatProperties
  <1>3. ASSUME NEW i \in 1 .. Len(s) PROVE (h \o s)[i + 1] = s[i]
    <2>1. i + 1 \in 1 .. Len(h) + Len(s) /\ ~ (i + 1 <= Len(h)) /\ i + 1 - Len(h) = i
      BY <1>1
    <2> QED
      BY <1>2, <2>1
  <1>4. (h \o s)[1] = e
    BY <1>1, <1>2
  <1> QED
    BY <1>1, <1>2, <1>3, <1>4 DEF h

LEMMA HeadAndTail ==
  ASSUME NEW S, NEW s \in Seq(S), s # << >>
  PROVE  s = <<Head(s)>> \o Tail(s)
  <1>1. /\ Head(s) \in S /\ Tail(s) \in Seq(S) /\ Len(Tail(s)) = Len(s) - 1
        /\ \A i \in 1 .. Len(Tail(s)) : Tail(s)[i] = s[i + 1]
    BY HeadTailProperties
  <1>2. Len(s) \in Nat \ {0} /\ Head(s) = s[1]
    BY EmptySeq
  <1> DEFINE c == <<Head(s)>> \o Tail(s)
  <1>3. /\ c \in Seq(S) /\ Len(c) = Len(Tail(s)) + 1 /\ c[1] = Head(s)
        /\ \A i \in 1 .. Len(Tail(s)) : c[i + 1] = Tail(s)[i]
    BY <1>1, ElementBefore
  <1> HIDE DEF c
  <1>4. ASSUME NEW i \in 1 .. Len(s) PROVE s[i] = c[i]
    <2>1. CASE i = 1
      BY <1>2, <1>3, <2>1
    <2>2. CASE i # 1
      <3>1. i - 1 \in 1 .. Len(Tail(s)) /\ i - 1 + 1 = i
        BY <1>1, <1>2, <2>2
      <3>2. c[i - 1 + 1] = Tail(s)[i - 1] /\ Tail(s)[i - 1] = s[i - 1 + 1]
        BY <1>1, <1>3, <3>1
      <3> QED
        BY <3>1, <3>2
    <2> QED
      BY <2>1, <2>2
  <1>5. Len(c) = Len(s)
    BY <1>1, <1>2, <1>3
  <1>6. s = c
    BY <1>3, <1>4, <1>5, SeqEqual
  <1> QED
    BY <1>6 DEF c

\* With two elements or more the head can be cut off before the last one or
\* after it.
LEMMA FrontByHead ==
  ASSUME NEW S, NEW s \in Seq(S), Len(s) > 1
  PROVE  Front(s) = <<Head(s)>> \o Front(Tail(s))
  <1>1. s # << >> /\ Len(s) \in Nat
    BY EmptySeq
  <1>2. /\ Head(s) = s[1] /\ Tail(s) \in Seq(S) /\ Len(Tail(s)) = Len(s) - 1
        /\ \A i \in 1 .. Len(Tail(s)) : Tail(s)[i] = s[i + 1]
    BY <1>1, HeadTailProperties
  <1> DEFINE f == Front(s)
             r == Tail(s)
             g == Front(r)
  <1>3. f \in Seq(S) /\ Len(f) = Len(s) - 1 /\ \A i \in 1 .. Len(s) - 1 : f[i] = s[i]
    BY <1>1, FrontProperties
  <1>4. r \in Seq(S) /\ r # << >>
    <2>1. Len(Tail(s)) # 0
      BY <1>1, <1>2
    <2> QED
      BY <1>2, <2>1, EmptySeq
  <1>5. g \in Seq(S) /\ Len(g) = Len(r) - 1 /\ \A i \in 1 .. Len(r) - 1 : g[i] = r[i]
    BY <1>4, FrontProperties
  <1> HIDE DEF f, g
  <1>6. f # << >> /\ Head(f) = s[1]
    BY <1>1, <1>3, EmptySeq
  <1>7. /\ Tail(f) \in Seq(S) /\ Len(Tail(f)) = Len(f) - 1
        /\ \A i \in 1 .. Len(Tail(f)) : Tail(f)[i] = f[i + 1]
    BY <1>3, <1>6, HeadTailProperties
  <1>8. Len(Tail(f)) = Len(g)
    BY <1>1, <1>2, <1>3, <1>5, <1>7
  <1>9. ASSUME NEW i \in 1 .. Len(g) PROVE Tail(f)[i] = g[i]
    <2>1. i \in 1 .. Len(r) - 1 /\ i + 1 \in 1 .. Len(s) - 1 /\ i \in 1 .. Len(Tail(s))
      BY <1>1, <1>2, <1>5
    <2>2. g[i] = s[i + 1] /\ Tail(f)[i] = f[i + 1] /\ f[i + 1] = s[i + 1]
      BY <1>2, <1>3, <1>5, <1>7, <1>8, <2>1
    <2> QED
      BY <2>2
  <1>10. Tail(f) = g
    BY <1>5, <1>7, <1>8, <1>9, SeqEqual
  <1>11. f = <<Head(f)>> \o Tail(f)
    BY <1>3, <1>6, HeadAndTail
  <1> QED
    BY <1>2, <1>6, <1>10, <1>11 DEF f, g

LEMMA ConcatAppend ==
  ASSUME NEW S, NEW s \in Seq(S), NEW r \in Seq(S), NEW e \in S
  PROVE  s \o Append(r, e) = Append(s \o r, e)
  <1>1. Append(r, e) = r \o <<e>> /\ s \o r \in Seq(S) /\ <<e>> \in Seq(S)
    BY AppendIsConcat, ConcatProperties
  <1>2. Append(s \o r, e) = (s \o r) \o <<e>>
    BY <1>1, AppendIsConcat
  <1>3. (s \o r) \o <<e>> = s \o (r \o <<e>>)
    BY <1>1, ConcatAssociative
  <1> QED
    BY <1>1, <1>2, <1>3

\* A pop of a queue whose first element is known.
LEMMA PopFirst ==
  ASSUME NEW S, NEW e \in S, NEW s \in Seq(S)
  PROVE  /\ <<e>> \o s # << >> /\ Head(<<e>> \o s) = e /\ Tail(<<e>> \o s) = s
  <1> DEFINE c == <<e>> \o s
  <1>1. /\ c \in Seq(S) /\ Len(c) = Len(s) + 1 /\ c[1] = e
        /\ \A i \in 1 .. Len(s) : c[i + 1] = s[i]
    BY ElementBefore
  <1>2. Len(s) \in Nat
    BY LenProperties
  <1> HIDE DEF c
  <1>3. c # << >> /\ Head(c) = e
    <2>1. Len(c) # 0
      BY <1>1, <1>2
    <2> QED
      BY <1>1, <2>1, EmptySeq
  <1>4. /\ Tail(c) \in Seq(S) /\ Len(Tail(c)) = Len(c) - 1
        /\ \A i \in 1 .. Len(Tail(c)) : Tail(c)[i] = c[i + 1]
    BY <1>1, <1>3, HeadTailProperties
  <1>5. Len(Tail(c)) = Len(s)
    BY <1>1, <1>2, <1>4
  <1>6. Tail(c) = s
    BY <1>1, <1>4, <1>5, SeqEqual
  <1> QED
    BY <1>3, <1>6 DEF c

-----------------------------------------------------------------------------
(***************************************************************************)
(* What Items is made of, from where the threads are.                      *)
(***************************************************************************)
Base == TypeOK /\ LocksInv /\ ContentsInv

LEMMA HeadExclusive ==
  ASSUME LocksInv, NEW t \in Threads, NEW u \in Threads, HoldsHead(t), HoldsHead(u)
  PROVE  t = u
  BY DEF LocksInv

LEMMA TailExclusive ==
  ASSUME LocksInv, NEW t \in Threads, NEW u \in Threads, HoldsTail(t), HoldsTail(u)
  PROVE  t = u
  BY DEF LocksInv

\* The element in hand, and the counted part of the chain.
ItemsMade ==
  /\ \A t \in Threads : pc[t] = "dec" => InHand = <<val[t]>> /\ val[t] \in Value
  /\ (\A t \in Threads : pc[t] # "dec") => InHand = << >>
  /\ \A t \in Threads : pc[t] = "inc" => Counted = Front(chain) /\ chain # << >>
  /\ (\A t \in Threads : pc[t] # "inc") => Counted = chain
  /\ InHand \in Seq(Value) /\ Counted \in Seq(Value)
  /\ chain \in Seq(Value) /\ dropped \in Seq(Value)
  /\ Items \in Seq(Value)

LEMMA ItemsProperties == Base => ItemsMade
  <1> SUFFICES ASSUME Base PROVE ItemsMade
    OBVIOUS
  <1>1. owner["head"] \in Threads \cup {Free} /\ owner["tail"] \in Threads \cup {Free}
    BY DEF Base, TypeOK, Mutexes
  <1>2. ASSUME NEW t \in Threads, pc[t] = "dec"
        PROVE  InHand = <<val[t]>> /\ val[t] \in Value
    <2>1. owner["head"] = t /\ t # Free
      BY <1>2, FreeAssumption DEF Base, LocksInv, HoldsHead
    <2>2. val[t] \in Value
      BY <1>2 DEF Base, ContentsInv
    <2> QED
      BY <1>2, <2>1, <2>2 DEF InHand
  <1>3. ASSUME \A t \in Threads : pc[t] # "dec" PROVE InHand = << >>
    BY <1>1, <1>3 DEF InHand
  <1>4. ASSUME NEW t \in Threads, pc[t] = "inc"
        PROVE  Counted = Front(chain) /\ chain # << >>
    <2>1. owner["tail"] = t /\ t # Free
      BY <1>4, FreeAssumption DEF Base, LocksInv, HoldsTail
    <2>2. chain # << >>
      BY <1>4 DEF Base, ContentsInv
    <2> QED
      BY <1>4, <2>1, <2>2 DEF Counted
  <1>5. ASSUME \A t \in Threads : pc[t] # "inc" PROVE Counted = chain
    BY <1>1, <1>5 DEF Counted
  <1>6. chain \in Seq(Value) /\ dropped \in Seq(Value)
    BY DEF Base, TypeOK
  <1>7. InHand \in Seq(Value)
    <2>1. CASE \A t \in Threads : pc[t] # "dec"
      BY <1>3, <2>1, EmptySeq
    <2>2. ASSUME NEW t \in Threads, pc[t] = "dec" PROVE InHand \in Seq(Value)
      BY <1>2, <2>2
    <2> QED
      BY <2>1, <2>2
  <1>8. Counted \in Seq(Value)
    BY <1>4, <1>5, <1>6, FrontProperties
  <1>9. Items \in Seq(Value)
    <2>1. dropped \o InHand \in Seq(Value)
      BY <1>6, <1>7, ConcatProperties
    <2> QED
      BY <1>8, <2>1, ConcatProperties DEF Items
  <1> QED
    BY <1>2, <1>3, <1>4, <1>5, <1>6, <1>7, <1>8, <1>9 DEF ItemsMade

LEMMA ItemsPropertiesPrimed == Base' => ItemsMade'
  BY ItemsProperties, PTL

\* Only a thread at "dec" has an element in hand, and only one at "inc" has
\* linked a node that does not count.
LEMMA InHandKept ==
  ASSUME Base, Base',
         \A t \in Threads : /\ pc'[t] = "dec" <=> pc[t] = "dec"
                            /\ pc[t] = "dec" => val'[t] = val[t]
  PROVE  InHand' = InHand
  <1> ItemsMade /\ ItemsMade'
    BY ItemsProperties, ItemsPropertiesPrimed
  <1>1. CASE \E t \in Threads : pc[t] = "dec"
    BY <1>1 DEF ItemsMade
  <1>2. CASE \A t \in Threads : pc[t] # "dec"
    BY <1>2 DEF ItemsMade
  <1> QED
    BY <1>1, <1>2

LEMMA CountedKept ==
  ASSUME Base, Base', chain' = chain,
         \A t \in Threads : pc'[t] = "inc" <=> pc[t] = "inc"
  PROVE  Counted' = Counted
  <1> ItemsMade /\ ItemsMade'
    BY ItemsProperties, ItemsPropertiesPrimed
  <1>1. CASE \E t \in Threads : pc[t] = "inc"
    BY <1>1 DEF ItemsMade
  <1>2. CASE \A t \in Threads : pc[t] # "inc"
    BY <1>2 DEF ItemsMade
  <1> QED
    BY <1>1, <1>2

LEMMA ItemsKept ==
  ASSUME Base, Base', chain' = chain, dropped' = dropped,
         \A t \in Threads : /\ pc'[t] = "dec" <=> pc[t] = "dec"
                            /\ pc[t] = "dec" => val'[t] = val[t]
                            /\ pc'[t] = "inc" <=> pc[t] = "inc"
  PROVE  Items' = Items
  BY InHandKept, CountedKept DEF Items

\* While a thread is inside a section of head_mutex other than "zero", no
\* other has an element in hand and no clear() is half done.
LEMMA HeadSection ==
  ASSUME Base, NEW t \in Threads, HoldsHead(t), pc[t] # "zero"
  PROVE  /\ dropped = << >>
         /\ \A u \in Threads : pc[u] = "dec" => u = t
         /\ pc[t] # "dec" => InHand = << >> /\ Items = Counted
  <1>1. \A u \in Threads : HoldsHead(u) => u = t
    BY HeadExclusive DEF Base
  <1>2. dropped = << >>
    BY <1>1 DEF Base, ContentsInv, HoldsHead
  <1>3. \A u \in Threads : pc[u] = "dec" => u = t
    BY <1>1 DEF HoldsHead
  <1>4. ItemsMade
    BY ItemsProperties
  <1>5. ASSUME pc[t] # "dec" PROVE InHand = << >> /\ Items = Counted
    <2>1. InHand = << >> /\ Counted \in Seq(Value)
      BY <1>3, <1>4, <1>5 DEF ItemsMade
    <2>2. << >> \o << >> = << >> /\ << >> \o Counted = Counted
      BY <2>1, EmptySeq, ConcatEmptySeq
    <2> QED
      BY <1>2, <2>1, <2>2 DEF Items
  <1> QED
    BY <1>2, <1>3, <1>5

-----------------------------------------------------------------------------
(***************************************************************************)
(* The inductive step, one lemma per kind of action: what it does to types *)
(* and locks, and to what a client sees.                                   *)
(***************************************************************************)
LEMMA InitInv == Init => IInv
  <1> SUFFICES ASSUME Init PROVE IInv
    OBVIOUS
  <1>1. TypeOK
    BY EmptySeq DEF Init, TypeOK, Labels
  <1>2. LocksInv
    BY FreeAssumption DEF Init, LocksInv, HoldsHead, HoldsTail, Mutexes
  <1>3. ContentsInv
    BY DEF Init, ContentsInv
  <1>4. Items = << >>
    <2>1. InHand = << >> /\ Counted = << >>
      BY DEF Init, InHand, Counted, Mutexes
    <2>2. << >> \o << >> = << >>
      BY EmptySeq, ConcatEmptySeq
    <2> QED
      BY <2>1, <2>2 DEF Init, Items
  <1>5. SizeIsExact
    BY <1>4, EmptySeq DEF Init, SizeIsExact
  <1> QED
    BY <1>1, <1>2, <1>3, <1>5 DEF IInv

\* What every step of a quiet kind leaves a client.
Quiet == Base' /\ Items' = Items /\ size_q' = size_q /\ out' = out

LEMMA CallStep ==
  ASSUME IInv, NEW t \in Threads, NEW o, NEW v \in Value \cup {NoValue},
         NEW first \in Labels, Call(t, o, v, first),
         \/ first = "lock_tail" /\ o \in {"push", "emplace_back"} /\ v \in Value
         \/ first = "lock_head"
  PROVE  Quiet
  <1> USE DEF IInv, Base
  <1>1. /\ pc[t] = "idle" /\ pc' = [pc EXCEPT ![t] = first]
        /\ o \in Ops /\ op' = [op EXCEPT ![t] = o] /\ val' = [val EXCEPT ![t] = v]
        /\ UNCHANGED <<chain, size_q, owner, late, dropped, out>>
    BY DEF Call, Goto
  <1>2. TypeOK'
    BY <1>1 DEF TypeOK
  <1>3. /\ pc'[t] = first /\ op'[t] = o /\ val'[t] = v
        /\ \A u \in Threads \ {t} : pc'[u] = pc[u] /\ op'[u] = op[u] /\ val'[u] = val[u]
    BY <1>1 DEF TypeOK
  <1>4. LocksInv'
    BY <1>1, <1>3 DEF LocksInv, HoldsHead, HoldsTail
  <1>5. ContentsInv'
    BY <1>1, <1>3 DEF ContentsInv
  <1>6. Items' = Items
    BY <1>1, <1>2, <1>3, <1>4, <1>5, ItemsKept
  <1> QED
    BY <1>1, <1>2, <1>4, <1>5, <1>6 DEF Quiet

LEMMA LockHeadStep ==
  ASSUME IInv, NEW t \in Threads, LockHead(t)
  PROVE  Quiet
  <1> USE DEF IInv, Base
  <1> DEFINE next == IF op[t] = "clear" THEN "lock_tail" ELSE "check"
  <1>1. /\ pc[t] = "lock_head" /\ pc' = [pc EXCEPT ![t] = next]
        /\ owner["head"] = Free /\ owner' = [owner EXCEPT !["head"] = t]
        /\ UNCHANGED <<chain, size_q, op, val, late, dropped, out>>
    BY DEF LockHead, Lock, Goto
  <1>2. TypeOK'
    BY <1>1 DEF TypeOK, Labels
  <1>3. /\ pc'[t] = next /\ \A u \in Threads \ {t} : pc'[u] = pc[u]
        /\ owner'["head"] = t /\ owner'["tail"] = owner["tail"]
        /\ owner'["size"] = owner["size"]
    BY <1>1 DEF TypeOK, Mutexes
  <1>4. LocksInv'
    BY <1>1, <1>3, FreeAssumption DEF LocksInv, HoldsHead, HoldsTail
  <1>5. ContentsInv'
    BY <1>1, <1>3 DEF ContentsInv
  <1>6. Items' = Items
    BY <1>1, <1>2, <1>3, <1>4, <1>5, ItemsKept
  <1> QED
    BY <1>1, <1>2, <1>4, <1>5, <1>6 DEF Quiet

LEMMA LockTailStep ==
  ASSUME IInv, NEW t \in Threads, LockTail(t)
  PROVE  Quiet
  <1> USE DEF IInv, Base
  <1> DEFINE next == IF op[t] = "clear" THEN "drop" ELSE "link"
  <1>1. /\ pc[t] = "lock_tail" /\ pc' = [pc EXCEPT ![t] = next]
        /\ owner["tail"] = Free /\ owner' = [owner EXCEPT !["tail"] = t]
        /\ UNCHANGED <<chain, size_q, op, val, late, dropped, out>>
    BY DEF LockTail, Lock, Goto
  <1>2. TypeOK'
    BY <1>1 DEF TypeOK, Labels
  <1>3. /\ pc'[t] = next /\ \A u \in Threads \ {t} : pc'[u] = pc[u]
        /\ owner'["tail"] = t /\ owner'["head"] = owner["head"]
        /\ owner'["size"] = owner["size"]
    BY <1>1 DEF TypeOK, Mutexes
  <1>4. LocksInv'
    BY <1>1, <1>3, FreeAssumption DEF LocksInv, HoldsHead, HoldsTail
  <1>5. ContentsInv'
    BY <1>1, <1>3 DEF ContentsInv
  <1>6. Items' = Items
    BY <1>1, <1>2, <1>3, <1>4, <1>5, ItemsKept
  <1> QED
    BY <1>1, <1>2, <1>4, <1>5, <1>6 DEF Quiet

LEMMA ReturnStep ==
  ASSUME IInv, NEW t \in Threads, Return(t)
  PROVE  Quiet
  <1> USE DEF IInv, Base
  <1>1. /\ pc[t] = "return" /\ pc' = [pc EXCEPT ![t] = "idle"]
        /\ owner' = [m \in Mutexes |-> IF owner[m] = t THEN Free ELSE owner[m]]
        /\ op' = [op EXCEPT ![t] = "none"] /\ val' = [val EXCEPT ![t] = NoValue]
        /\ late' = late \ {t}
        /\ UNCHANGED <<chain, size_q, dropped, out>>
    BY DEF Return, Goto
  <1>2. TypeOK'
    BY <1>1 DEF TypeOK, Labels
  <1>3. /\ pc'[t] = "idle"
        /\ \A u \in Threads \ {t} : pc'[u] = pc[u] /\ op'[u] = op[u] /\ val'[u] = val[u]
        /\ \A m \in Mutexes : owner'[m] = IF owner[m] = t THEN Free ELSE owner[m]
    BY <1>1 DEF TypeOK
  <1>4. LocksInv'
    BY <1>1, <1>3, FreeAssumption DEF LocksInv, HoldsHead, HoldsTail, Mutexes
  <1>5. ContentsInv'
    BY <1>1, <1>3 DEF ContentsInv
  <1>6. Items' = Items
    BY <1>1, <1>2, <1>3, <1>4, <1>5, ItemsKept
  <1> QED
    BY <1>1, <1>2, <1>4, <1>5, <1>6 DEF Quiet

\* A step that only moves a thread.
LEMMA MoveStep ==
  ASSUME IInv, NEW t \in Threads, NEW next \in Labels,
         pc' = [pc EXCEPT ![t] = next],
         UNCHANGED <<chain, size_q, op, val, dropped, out>>, late' \subseteq Threads,
         \/ /\ UNCHANGED owner
            /\ \/ pc[t] = "check" /\ next \in {"return", "block"}
               \/ pc[t] = "check" /\ next \in {"take", "peek"} /\ size_q # 0
               \/ pc[t] = "waiting" /\ next = "lock_head"
               \/ pc[t] = "notify" /\ next = "return"
         \/ /\ owner' = [owner EXCEPT !["head"] = Free]
            /\ pc[t] = "block" /\ next = "waiting"
  PROVE  Quiet
  <1> USE DEF IInv, Base
  <1>1. TypeOK'
    BY DEF TypeOK
  <1>2. /\ pc'[t] = next /\ \A u \in Threads \ {t} : pc'[u] = pc[u]
        /\ owner'["head"] = IF pc[t] = "block" THEN Free ELSE owner["head"]
        /\ owner'["tail"] = owner["tail"] /\ owner'["size"] = owner["size"]
    BY DEF TypeOK, Mutexes
  <1>3. LocksInv'
    BY <1>2, FreeAssumption DEF LocksInv, HoldsHead, HoldsTail
  <1>4. ContentsInv'
    BY <1>2 DEF ContentsInv, TypeOK
  <1>5. Items' = Items
    BY <1>1, <1>2, <1>3, <1>4, ItemsKept
  <1> QED
    BY <1>1, <1>3, <1>4, <1>5 DEF Quiet

LEMMA NotifyStep ==
  ASSUME IInv, NEW t \in Threads, Notify(t)
  PROVE  Quiet
  <1>1. CASE Waiting = {} /\ Goto(t, "return")
    BY <1>1, MoveStep DEF Notify, Goto, Labels, IInv, TypeOK
  <1>2. ASSUME NEW w \in Waiting, pc' = [pc EXCEPT ![t] = "return", ![w] = "lock_head"]
        PROVE  Quiet
    <2> USE DEF IInv, Base
    <2>1. /\ pc[t] = "notify" /\ pc[w] = "waiting" /\ w \in Threads /\ w # t
          /\ UNCHANGED <<chain, size_q, owner, op, val, late, dropped, out>>
      BY <1>2 DEF Notify, Waiting
    <2>2. /\ pc'[t] = "return" /\ pc'[w] = "lock_head"
          /\ \A u \in Threads \ {t, w} : pc'[u] = pc[u]
      BY <1>2, <2>1 DEF TypeOK
    <2>3. TypeOK'
      BY <1>2, <2>1 DEF TypeOK, Labels
    <2>4. LocksInv'
      BY <2>1, <2>2 DEF LocksInv, HoldsHead, HoldsTail
    <2>5. ContentsInv'
      BY <2>1, <2>2 DEF ContentsInv
    <2>6. Items' = Items
      BY <2>1, <2>2, <2>3, <2>4, <2>5, ItemsKept
    <2> QED
      BY <2>1, <2>3, <2>4, <2>5, <2>6 DEF Quiet
  <1> QED
    BY <1>1, <1>2 DEF Notify

LEMMA PeekHeadStep ==
  ASSUME IInv, NEW t \in Threads, PeekHead(t)
  PROVE  Quiet
  <1> USE DEF IInv, Base
  <1>1. /\ pc[t] = "peek" /\ pc' = [pc EXCEPT ![t] = "return"]
        /\ chain # << >> /\ val' = [val EXCEPT ![t] = Head(chain)]
        /\ UNCHANGED <<chain, size_q, owner, op, late, dropped, out>>
    BY DEF PeekHead, Goto
  <1>2. Head(chain) \in Value
    BY <1>1, HeadTailProperties DEF TypeOK
  <1> DEFINE v == Head(chain)
  <1> HIDE DEF v
  <1>3. /\ v \in Value /\ val' = [val EXCEPT ![t] = v]
        /\ pc'[t] = "return" /\ \A u \in Threads \ {t} : pc'[u] = pc[u] /\ val'[u] = val[u]
    BY <1>1, <1>2 DEF TypeOK, v
  <1>4. TypeOK'
    BY <1>1, <1>3 DEF TypeOK, Labels
  <1>5. LocksInv'
    BY <1>1, <1>3 DEF LocksInv, HoldsHead, HoldsTail
  <1>6. ContentsInv'
    BY <1>1, <1>3 DEF ContentsInv
  <1>7. Items' = Items
    BY <1>1, <1>3, <1>4, <1>5, <1>6, ItemsKept
  <1> QED
    BY <1>1, <1>4, <1>5, <1>6, <1>7 DEF Quiet

\* The node is linked before it counts.
LEMMA LinkStep ==
  ASSUME IInv, NEW t \in Threads, Link(t)
  PROVE  Quiet
  <1> USE DEF IInv, Base
  <1> DEFINE v == val[t]
  <1>1. /\ pc[t] = "link" /\ pc' = [pc EXCEPT ![t] = "inc"]
        /\ chain' = Append(chain, v)
        /\ UNCHANGED <<size_q, owner, op, val, late, dropped, out>>
    BY DEF Link, Goto
  <1>2. v \in Value /\ chain \in Seq(Value)
    BY <1>1 DEF ContentsInv, TypeOK
  <1> HIDE DEF v
  <1>3. chain' \in Seq(Value) /\ chain' # << >> /\ Front(chain') = chain
    BY <1>1, <1>2, AppendProperties, FrontOfAppend
  <1>4. pc'[t] = "inc" /\ \A u \in Threads \ {t} : pc'[u] = pc[u]
    BY <1>1 DEF TypeOK
  <1>5. TypeOK'
    BY <1>1, <1>3 DEF TypeOK, Labels
  <1>6. LocksInv'
    BY <1>1, <1>4 DEF LocksInv, HoldsHead, HoldsTail
  <1>7. \A u \in Threads \ {t} : pc[u] \notin {"inc", "zero"}
    BY <1>1, TailExclusive DEF HoldsTail
  <1>8. ContentsInv'
    BY <1>1, <1>3, <1>4, <1>7 DEF ContentsInv
  <1>9. Counted' = Counted
    BY <1>1, <1>3, <1>4, <1>5, <1>6, <1>7, <1>8, ItemsProperties, ItemsPropertiesPrimed
       DEF ItemsMade
  <1>10. InHand' = InHand
    BY <1>1, <1>4, <1>5, <1>6, <1>8, InHandKept
  <1>11. Items' = Items
    BY <1>1, <1>9, <1>10 DEF Items
  <1> QED
    BY <1>1, <1>5, <1>6, <1>8, <1>11 DEF Quiet

\* At "take" and "peek" the counter, and so the chain, is not empty.
LEMMA HeadIsFilled ==
  ASSUME IInv, NEW t \in Threads, pc[t] \in {"take", "peek"}
  PROVE  /\ chain # << >>
         /\ \A u \in Threads : pc[u] = "inc" => Len(chain) > 1
  <1> USE DEF IInv, Base
  <1>1. Items = Counted /\ size_q > 0 /\ size_q = Len(Items)
    BY HeadSection DEF HoldsHead, ContentsInv, SizeIsExact
  <1>2. ItemsMade
    BY ItemsProperties
  <1>3. ASSUME NEW u \in Threads, pc[u] = "inc" PROVE Len(chain) > 1
    <2>1. Counted = Front(chain) /\ chain # << >> /\ chain \in Seq(Value)
      BY <1>2, <1>3 DEF ItemsMade
    <2>2. Len(Front(chain)) = Len(chain) - 1 /\ Len(chain) \in Nat
      BY <2>1, FrontProperties, LenProperties
    <2> QED
      BY <1>1, <2>1, <2>2
  <1>4. chain # << >>
    <2>1. CASE \E u \in Threads : pc[u] = "inc"
      BY <1>2, <2>1 DEF ItemsMade
    <2>2. CASE \A u \in Threads : pc[u] # "inc"
      <3>1. Counted = chain
        BY <1>2, <2>2 DEF ItemsMade
      <3> QED
        BY <1>1, <3>1, EmptySeq
    <2> QED
      BY <2>1, <2>2
  <1> QED
    BY <1>3, <1>4

\* The head node leaves the chain and is in hand, still counted.
LEMMA TakeStep ==
  ASSUME IInv, NEW t \in Threads, Take(t)
  PROVE  Quiet
  <1> USE DEF IInv, Base
  <1> DEFINE v == Head(chain)
  <1>1. /\ pc[t] = "take" /\ pc' = [pc EXCEPT ![t] = "dec"]
        /\ chain # << >> /\ val' = [val EXCEPT ![t] = v] /\ chain' = Tail(chain)
        /\ UNCHANGED <<size_q, owner, op, late, dropped, out>>
    BY DEF Take, Goto
  <1>2. /\ v \in Value /\ chain \in Seq(Value) /\ Tail(chain) \in Seq(Value)
        /\ Len(Tail(chain)) = Len(chain) - 1 /\ chain = <<v>> \o Tail(chain)
        /\ Len(chain) > 1 => Front(chain) = <<v>> \o Front(Tail(chain))
    BY <1>1, HeadTailProperties, HeadAndTail, FrontByHead DEF TypeOK
  <1> HIDE DEF v
  <1>3. /\ pc'[t] = "dec" /\ val'[t] = v
        /\ \A u \in Threads \ {t} : pc'[u] = pc[u] /\ val'[u] = val[u]
    BY <1>1 DEF TypeOK
  <1>4. TypeOK'
    BY <1>1, <1>2 DEF TypeOK, Labels
  <1>5. LocksInv'
    BY <1>1, <1>3 DEF LocksInv, HoldsHead, HoldsTail
  <1>6. /\ dropped = << >> /\ Items = Counted
        /\ \A u \in Threads : pc[u] \in {"inc"} => Len(chain) > 1
        /\ \A u \in Threads \ {t} : ~ HoldsHead(u)
    BY <1>1, HeadSection, HeadIsFilled, HeadExclusive DEF HoldsHead
  <1>7. \A u \in Threads : pc[u] = "inc" => Tail(chain) # << >>
    <2>1. Len(chain) > 1 => Len(Tail(chain)) # 0
      <3>1. Len(chain) \in Nat /\ Len(Tail(chain)) = Len(chain) - 1
        BY <1>1, <1>2, LenProperties, HeadTailProperties DEF TypeOK
      <3>2. PICK n \in Nat : n = Len(chain)
        BY <3>1
      <3>3. n > 1 => n - 1 # 0
        OBVIOUS
      <3> QED BY <3>1, <3>2, <3>3
    <2> QED
      BY <1>6, <2>1, EmptySeq
  <1>8. ContentsInv'
    <2>1. \A u \in Threads \ {t} : pc[u] \notin {"take", "peek", "zero"}
      BY <1>6 DEF HoldsHead
    <2> QED
      BY <1>1, <1>2, <1>3, <1>6, <1>7, <2>1 DEF ContentsInv
  <1>9. ItemsMade /\ ItemsMade'
    BY <1>4, <1>5, <1>8, ItemsProperties, ItemsPropertiesPrimed
  <1>10. Counted = <<v>> \o Counted'
    <2>1. CASE \E u \in Threads : pc[u] = "inc"
      <3>1. PICK u \in Threads : pc[u] = "inc" /\ pc'[u] = "inc"
        BY <1>1, <1>3, <2>1
      <3>2. Counted = Front(chain) /\ Counted' = Front(Tail(chain))
        BY <1>1, <1>9, <3>1 DEF ItemsMade
      <3> QED
        BY <1>2, <1>6, <3>1, <3>2
    <2>2. CASE \A u \in Threads : pc[u] # "inc"
      <3>1. \A u \in Threads : pc'[u] # "inc"
        BY <1>3, <2>2
      <3>2. Counted = chain /\ Counted' = Tail(chain)
        BY <1>1, <1>9, <2>2, <3>1 DEF ItemsMade
      <3> QED
        BY <1>2, <3>2
    <2> QED
      BY <2>1, <2>2
  <1>11. InHand' = <<v>>
    BY <1>3, <1>9 DEF ItemsMade
  <1>12. Items' = Items
    <2>1. InHand' \in Seq(Value) /\ Counted' \in Seq(Value)
      BY <1>9 DEF ItemsMade
    <2>2. << >> \o InHand' = InHand'
      BY <2>1, ConcatEmptySeq
    <2> QED
      BY <1>1, <1>6, <1>10, <1>11, <2>2 DEF Items
  <1> QED
    BY <1>1, <1>4, <1>5, <1>8, <1>12 DEF Quiet

\* clear() cuts the chain off; its elements count until the counter is reset.
LEMMA DropStep ==
  ASSUME IInv, NEW t \in Threads, Drop(t)
  PROVE  Quiet
  <1> USE DEF IInv, Base
  <1>1. /\ pc[t] = "drop" /\ pc' = [pc EXCEPT ![t] = "zero"]
        /\ chain' = << >> /\ dropped' = chain
        /\ UNCHANGED <<size_q, owner, op, val, late, out>>
    BY DEF Drop, Goto
  <1>2. pc'[t] = "zero" /\ \A u \in Threads \ {t} : pc'[u] = pc[u]
    BY <1>1 DEF TypeOK
  <1>3. \A u \in Threads \ {t} : ~ HoldsHead(u) /\ ~ HoldsTail(u)
    BY <1>1, HeadExclusive, TailExclusive DEF HoldsHead, HoldsTail
  <1>4. TypeOK'
    BY <1>1, EmptySeq DEF TypeOK, Labels
  <1>5. LocksInv'
    BY <1>1, <1>2 DEF LocksInv, HoldsHead, HoldsTail
  <1>6. ContentsInv'
    <2>1. \A u \in Threads \ {t} : pc[u] \notin {"inc", "take", "peek", "zero"}
      BY <1>3 DEF HoldsHead, HoldsTail
    <2> QED
      BY <1>1, <1>2, <2>1 DEF ContentsInv
  <1>7. \A u \in Threads : pc[u] \notin {"inc", "dec"} /\ pc'[u] \notin {"inc", "dec"}
    BY <1>1, <1>2, <1>3 DEF HoldsHead, HoldsTail
  <1>8. ItemsMade /\ ItemsMade'
    BY <1>4, <1>5, <1>6, ItemsProperties, ItemsPropertiesPrimed
  <1>9. Items = chain
    BY <1>1, <1>7, <1>8, HeadSection DEF HoldsHead, ItemsMade
  <1>10. InHand' = << >> /\ Counted' = << >>
    BY <1>1, <1>7, <1>8 DEF ItemsMade
  <1>11. chain \o << >> = chain
    BY ConcatEmptySeq DEF TypeOK
  <1>12. Items' = Items
    BY <1>1, <1>9, <1>10, <1>11 DEF Items
  <1> QED
    BY <1>1, <1>4, <1>5, <1>6, <1>12 DEF Quiet

\* The element enters the queue when the counter is raised.
LEMMA IncStep ==
  ASSUME IInv, NEW t \in Threads, Inc(t)
  PROVE  Base' /\ size_q' = size_q + 1 /\ \E v \in Value : Fifo!Push(v)
  <1> USE DEF IInv, Base
  <1>1. PICK next \in {"notify", "return"} :
          /\ pc[t] = "inc" /\ pc' = [pc EXCEPT ![t] = next]
          /\ size_q' = size_q + 1
          /\ \/ next = "notify" /\ UNCHANGED owner
             \/ /\ next = "return" /\ owner["size"] = Free
                /\ owner' = [owner EXCEPT !["size"] = t]
          /\ UNCHANGED <<chain, op, val, late, dropped, out>>
    BY DEF Inc, Goto, Lock
  <1>2. /\ pc'[t] = next /\ \A u \in Threads \ {t} : pc'[u] = pc[u]
        /\ owner'["head"] = owner["head"] /\ owner'["tail"] = owner["tail"]
        /\ owner'["size"] = IF next = "return" THEN t ELSE owner["size"]
    BY <1>1 DEF TypeOK, Mutexes
  <1>3. TypeOK'
    BY <1>1 DEF TypeOK, Labels
  <1>4. LocksInv'
    BY <1>1, <1>2, FreeAssumption DEF LocksInv, HoldsHead, HoldsTail
  <1>5. ContentsInv'
    BY <1>1, <1>2 DEF ContentsInv, TypeOK
  <1>6. ItemsMade /\ ItemsMade'
    BY <1>3, <1>4, <1>5, ItemsProperties, ItemsPropertiesPrimed
  <1>7. \A u \in Threads : pc'[u] # "inc"
    BY <1>1, <1>2, TailExclusive DEF HoldsTail
  <1> DEFINE v == Last(chain)
  <1>8. v \in Value /\ chain = Append(Counted, v) /\ Counted' = chain
    BY <1>1, <1>6, <1>7, FrontAndLast DEF ItemsMade
  <1> HIDE DEF v
  <1>9. InHand' = InHand
    BY <1>1, <1>2, <1>3, <1>4, <1>5, InHandKept
  <1>10. Items' = Append(Items, v)
    <2>1. /\ dropped \o InHand \in Seq(Value)
          /\ Counted \in Seq(Value)
      BY <1>6, ConcatProperties DEF ItemsMade
    <2>2. (dropped \o InHand) \o Append(Counted, v)
            = Append((dropped \o InHand) \o Counted, v)
      BY <1>8, <2>1, ConcatAppend
    <2> QED
      BY <1>1, <1>8, <1>9, <2>2 DEF Items
  <1>11. Len(Items) + 1 \in Nat
    BY <1>6, LenProperties DEF ItemsMade
  <1> QED
    BY <1>1, <1>3, <1>4, <1>5, <1>8, <1>10, <1>11 DEF Fifo!Push

\* The element leaves the queue when the counter is lowered.
LEMMA DecStep ==
  ASSUME IInv, NEW t \in Threads, Dec(t)
  PROVE  Base' /\ size_q' = size_q - 1 /\ Fifo!Pop
  <1> USE DEF IInv, Base
  <1>1. /\ pc[t] = "dec" /\ pc' = [pc EXCEPT ![t] = "return"]
        /\ owner["size"] = Free /\ size_q' = size_q - 1 /\ out' = val[t]
        /\ owner' = owner \/ owner' = [owner EXCEPT !["size"] = t]
        /\ UNCHANGED <<chain, op, val, late, dropped>>
    BY DEF Dec, Goto, Lock
  <1>2. /\ pc'[t] = "return" /\ \A u \in Threads \ {t} : pc'[u] = pc[u]
        /\ owner'["head"] = owner["head"] /\ owner'["tail"] = owner["tail"]
        /\ owner'["size"] \in {owner["size"], t}
    BY <1>1 DEF TypeOK, Mutexes
  <1>3. \A u \in Threads \ {t} : ~ HoldsHead(u)
    BY <1>1, HeadExclusive DEF HoldsHead
  <1>4. ItemsMade /\ dropped = << >>
    BY <1>1, ItemsProperties, HeadSection DEF HoldsHead
  <1> DEFINE v == val[t]
  <1>5. v \in Value /\ InHand = <<v>> /\ Counted \in Seq(Value)
    BY <1>1, <1>4 DEF ItemsMade
  <1> HIDE DEF v
  <1>6. Items = <<v>> \o Counted
    <2>1. <<v>> \in Seq(Value)
      BY <1>5
    <2>2. << >> \o <<v>> = <<v>>
      BY <2>1, ConcatEmptySeq
    <2> QED
      BY <1>4, <1>5, <2>2 DEF Items
  <1>7. Items # << >> /\ Head(Items) = v /\ Tail(Items) = Counted
    BY <1>5, <1>6, PopFirst
  <1>8. size_q - 1 \in Nat
    BY <1>4, <1>7, EmptySeq DEF SizeIsExact, ItemsMade
  <1>9. TypeOK'
    BY <1>1, <1>5, <1>8 DEF TypeOK, Labels, v
  <1>10. LocksInv'
    BY <1>1, <1>2, FreeAssumption DEF LocksInv, HoldsHead, HoldsTail
  <1>11. ContentsInv'
    <2>1. \A u \in Threads \ {t} : pc[u] \notin {"take", "peek", "zero"}
      BY <1>3 DEF HoldsHead
    <2> QED
      BY <1>1, <1>2, <1>4, <2>1 DEF ContentsInv
  <1>12. ItemsMade'
    BY <1>9, <1>10, <1>11, ItemsPropertiesPrimed
  <1>13. \A u \in Threads : pc'[u] # "dec" /\ (pc'[u] = "inc" <=> pc[u] = "inc")
    BY <1>1, <1>2, <1>3 DEF HoldsHead
  <1>14. InHand' = << >> /\ Counted' = Counted
    BY <1>1, <1>9, <1>10, <1>11, <1>12, <1>13, CountedKept DEF ItemsMade
  <1>15. Items' = Counted
    <2>1. << >> \o << >> = << >> /\ << >> \o Counted = Counted
      BY <1>5, EmptySeq, ConcatEmptySeq
    <2> QED
      BY <1>1, <1>4, <1>14, <2>1 DEF Items
  <1> QED
    BY <1>1, <1>7, <1>9, <1>10, <1>11, <1>15 DEF Fifo!Pop, v

\* clear() empties the queue when it resets the counter.
LEMMA ZeroStep ==
  ASSUME IInv, NEW t \in Threads, Zero(t)
  PROVE  Base' /\ size_q' = 0 /\ Items' = << >> /\ out' = out
  <1> USE DEF IInv, Base
  <1>1. /\ pc[t] = "zero" /\ pc' = [pc EXCEPT ![t] = "return"]
        /\ owner["size"] = Free /\ owner' = [owner EXCEPT !["size"] = t]
        /\ size_q' = 0 /\ dropped' = << >>
        /\ UNCHANGED <<chain, op, val, late, out>>
    BY DEF Zero, Goto, Lock
  <1>2. /\ pc'[t] = "return" /\ \A u \in Threads \ {t} : pc'[u] = pc[u]
        /\ owner'["head"] = owner["head"] /\ owner'["tail"] = owner["tail"]
        /\ owner'["size"] = t
    BY <1>1 DEF TypeOK, Mutexes
  <1>3. \A u \in Threads \ {t} : ~ HoldsHead(u) /\ ~ HoldsTail(u)
    BY <1>1, HeadExclusive, TailExclusive DEF HoldsHead, HoldsTail
  <1>4. TypeOK'
    BY <1>1, EmptySeq DEF TypeOK, Labels
  <1>5. LocksInv'
    BY <1>1, <1>2, FreeAssumption DEF LocksInv, HoldsHead, HoldsTail
  <1>6. ContentsInv'
    <2>1. \A u \in Threads \ {t} : pc[u] \notin {"take", "peek", "zero"}
      BY <1>3 DEF HoldsHead
    <2> QED
      BY <1>1, <1>2, <2>1 DEF ContentsInv
  <1>7. \A u \in Threads : pc'[u] \notin {"inc", "dec"}
    BY <1>2, <1>3 DEF HoldsHead, HoldsTail
  <1>8. ItemsMade' /\ chain' = << >>
    BY <1>1, <1>4, <1>5, <1>6, ItemsPropertiesPrimed DEF ContentsInv
  <1>9. InHand' = << >> /\ Counted' = << >>
    BY <1>7, <1>8 DEF ItemsMade
  <1>10. Items' = << >>
    <2>1. << >> \o << >> = << >>
      BY EmptySeq, ConcatEmptySeq
    <2> QED
      BY <1>1, <1>9, <2>1 DEF Items
  <1> QED
    BY <1>1, <1>4, <1>5, <1>6, <1>10

LEMMA DestroyStep ==
  ASSUME IInv, Destroy
  PROVE  Base' /\ size_q' = 0 /\ Items' = << >> /\ out' = out
  <1> USE DEF IInv, Base
  <1>1. /\ \A t \in Threads : pc[t] = "idle"
        /\ chain' = << >> /\ size_q' = 0
        /\ UNCHANGED <<owner, pc, op, val, late, dropped, out>>
    BY DEF Destroy
  <1>2. TypeOK'
    BY <1>1, EmptySeq DEF TypeOK
  <1>3. LocksInv'
    BY <1>1 DEF LocksInv, HoldsHead, HoldsTail
  <1>4. ContentsInv' /\ dropped = << >>
    BY <1>1 DEF ContentsInv
  <1>5. ItemsMade'
    BY <1>2, <1>3, <1>4, ItemsPropertiesPrimed
  <1>6. InHand' = << >> /\ Counted' = << >>
    BY <1>1, <1>5 DEF ItemsMade
  <1>7. Items' = << >>
    <2>1. << >> \o << >> = << >>
      BY EmptySeq, ConcatEmptySeq
    <2> QED
      BY <1>1, <1>4, <1>6, <2>1 DEF Items
  <1> QED
    BY <1>1, <1>2, <1>3, <1>4, <1>7

LEMMA StutterStep ==
  ASSUME IInv, UNCHANGED vars
  PROVE  Quiet
  <1>1. Base' /\ Items' = Items /\ size_q' = size_q /\ out' = out
    BY DEF vars, IInv, Base, TypeOK, LocksInv, HoldsHead, HoldsTail, ContentsInv, Items,
           InHand, Counted
  <1> QED
    BY <1>1 DEF Quiet

\* Every step is quiet, pushes, pops or clears, and the counter follows.
LEMMA StepKinds ==
  ASSUME IInv, [Next]_vars
  PROVE  \/ Quiet
         \/ Base' /\ size_q' = size_q + 1 /\ \E v \in Value : Fifo!Push(v)
         \/ Base' /\ size_q' = size_q - 1 /\ Fifo!Pop
         \/ Base' /\ size_q' = 0 /\ Fifo!Clear
  <1>1. ASSUME NEW t \in Threads, CallPush(t) \/ CallEmplaceBack(t) PROVE Quiet
    BY <1>1, CallStep DEF CallPush, CallEmplaceBack, Labels
  <1>2. ASSUME NEW t \in Threads,
               \/ CallWaitAndPop(t) \/ CallTryPop(t) \/ CallWaitForAndPop(t)
               \/ CallUnsafePeek(t) \/ CallClear(t)
        PROVE  Quiet
    <2>1. PICK o : Call(t, o, NoValue, "lock_head")
      BY <1>2 DEF CallWaitAndPop, CallTryPop, CallWaitForAndPop, CallUnsafePeek, CallClear
    <2> QED
      BY <2>1, CallStep DEF Labels
  <1>3. ASSUME NEW t \in Threads, Check(t) PROVE Quiet
    <2> DEFINE next == IF size_q = 0 THEN WhenEmpty(t)
                       ELSE IF op[t] = "unsafe_peek" THEN "peek" ELSE "take"
    <2>1. next \in Labels
      BY DEF WhenEmpty, Labels
    <2>2. \/ next \in {"return", "block"}
          \/ next \in {"take", "peek"} /\ size_q # 0
      BY DEF WhenEmpty
    <2>3. pc' = [pc EXCEPT ![t] = next]
      BY <1>3 DEF Check, Goto
    <2> HIDE DEF next
    <2> QED
      BY <1>3, <2>1, <2>2, <2>3, MoveStep DEF Check, IInv, TypeOK
  <1>4. ASSUME NEW t \in Threads, Block(t) PROVE Quiet
    BY <1>4, MoveStep DEF Block, Goto, Labels, IInv, TypeOK
  <1>5. ASSUME NEW t \in Threads, SpuriousWakeup(t) \/ Timeout(t) PROVE Quiet
    BY <1>5, MoveStep DEF SpuriousWakeup, Timeout, Goto, Labels, IInv, TypeOK
  <1>6. ASSUME NEW t \in Threads, Step(t), ~ Check(t), ~ Block(t),
               ~ Inc(t), ~ Dec(t), ~ Zero(t)
        PROVE  Quiet
    BY <1>6, LockHeadStep, LockTailStep, ReturnStep, LinkStep, NotifyStep, TakeStep,
       PeekHeadStep, DropStep DEF Step
  <1>7. ASSUME NEW t \in Threads, Zero(t) PROVE Base' /\ size_q' = 0 /\ Fifo!Clear
    BY <1>7, ZeroStep DEF Fifo!Clear
  <1>8. ASSUME Destroy PROVE Base' /\ size_q' = 0 /\ Fifo!Clear
    BY <1>8, DestroyStep DEF Fifo!Clear
  <1>9. CASE UNCHANGED vars
    BY <1>9, StutterStep
  <1>10. CASE Destroy
    BY <1>8, <1>10
  <1> QED
    BY <1>1, <1>2, <1>3, <1>4, <1>5, <1>6, <1>7, <1>9, <1>10, IncStep, DecStep DEF Next

LEMMA StepInv == IInv /\ [Next]_vars => IInv' /\ [Fifo!Next]_Fifo!vars
  <1> SUFFICES ASSUME IInv, [Next]_vars PROVE IInv' /\ [Fifo!Next]_Fifo!vars
    OBVIOUS
  <1>1. size_q = Len(Items) /\ size_q \in Nat
    BY DEF IInv, SizeIsExact, TypeOK
  <1>2. Items \in Seq(Value)
    BY ItemsProperties DEF IInv, Base, ItemsMade
  <1>3. CASE Quiet
    BY <1>1, <1>3 DEF Quiet, IInv, Base, SizeIsExact, Fifo!vars
  <1>4. CASE Base' /\ size_q' = size_q + 1 /\ \E v \in Value : Fifo!Push(v)
    <2>1. PICK v \in Value : Fifo!Push(v)
      BY <1>4
    <2>2. Len(Items') = Len(Items) + 1
      BY <1>2, <2>1, AppendProperties DEF Fifo!Push
    <2> QED
      BY <1>1, <1>4, <2>1, <2>2 DEF IInv, Base, SizeIsExact, Fifo!Next
  <1>5. CASE Base' /\ size_q' = size_q - 1 /\ Fifo!Pop
    <2>1. Len(Items') = Len(Items) - 1
      BY <1>2, <1>5, HeadTailProperties DEF Fifo!Pop
    <2> QED
      BY <1>1, <1>5, <2>1 DEF IInv, Base, SizeIsExact, Fifo!Next
  <1>6. CASE Base' /\ size_q' = 0 /\ Fifo!Clear
    <2>1. Len(Items') = 0
      BY <1>6, EmptySeq DEF Fifo!Clear
    <2> QED
      BY <1>6, <2>1 DEF IInv, Base, SizeIsExact, Fifo!Next
  <1> QED
    BY <1>3, <1>4, <1>5, <1>6, StepKinds

-----------------------------------------------------------------------------
\* The two-lock queue's invariant holds in every reachable state, for any
\* number of threads and elements.
THEOREM Invariance == Spec => []IInv
  BY InitInv, StepInv, PTL DEF Spec

\* Chain, counter and mutexes keep their types: size_q never goes below 0.
THEOREM TypeCorrect == Spec => []TypeOK
  <1>1. IInv => TypeOK
    BY DEF IInv
  <1> QED
    BY <1>1, Invariance, PTL

\* A consumer that was told the queue is not empty never touches the stub node
\* that producers write.
THEOREM StubUntouched == Spec => []HeadIsNotTheStub
  <1>1. IInv => HeadIsNotTheStub
    BY HeadIsFilled DEF HeadIsNotTheStub
  <1> QED
    BY <1>1, Invariance, PTL

\* size() and empty() are exact at every moment.
THEOREM SizeExact == Spec => []SizeIsExact
  <1>1. IInv => SizeIsExact
    BY DEF IInv
  <1> QED
    BY <1>1, Invariance, PTL

\* Whatever its producers, consumers and clear() do to each other, the
\* two-lock queue is a FIFO queue.
THEOREM QueueIsFifo == Spec => ImplementsFifo
  <1>1. Init => Fifo!Init
    <2> SUFFICES ASSUME Init PROVE Items = << >> /\ out = NoValue
      BY DEF Fifo!Init
    <2>1. InHand = << >> /\ Counted = << >>
      BY DEF Init, InHand, Counted, Mutexes
    <2>2. << >> \o << >> = << >>
      BY EmptySeq, ConcatEmptySeq
    <2> QED
      BY <2>1, <2>2 DEF Init, Items
  <1>2. IInv /\ [Next]_vars => [Fifo!Next]_Fifo!vars
    BY StepInv
  <1> QED
    BY <1>1, <1>2, Invariance, PTL DEF Spec, ImplementsFifo, Fifo!Spec
=============================================================================
