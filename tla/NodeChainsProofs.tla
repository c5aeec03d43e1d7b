--------------------------- MODULE NodeChainsProofs ---------------------------
(***************************************************************************)
(* Proofs about NodeChains: a walk along a chain meets the nodes of that   *)
(* chain, so there is only one chain from a node.                          *)
(***************************************************************************)
EXTENDS NodeChains, FiniteSetTheorems, SequenceTheorems, WellFoundedInduction, TLAPS

\* Induction on natural numbers, for membership of a set.
LEMMA Induction ==
  ASSUME NEW S, 0 \in S, \A n \in Nat : n \in S => n + 1 \in S
  PROVE  Nat \subseteq S
  <1> DEFINE T == {n \in Nat : n \notin S}
             Less == {ss \in Nat \X Nat : ss[1] < ss[2]}
  <1> SUFFICES ASSUME T # {} PROVE FALSE
    OBVIOUS
  <1>1. IsWellFoundedOn(Less, Nat)
    BY NatLessThanWellFounded DEF OpToRel
  <1>2. T \subseteq Nat
    OBVIOUS
  <1>3. PICK x \in T : \A y \in T : <<y, x>> \notin Less
    <2> HIDE DEF T, Less
    <2> QED BY <1>1, <1>2, WFMin
  <1>4. x \in Nat /\ x # 0 /\ x - 1 \in Nat /\ x = (x - 1) + 1
    BY <1>3
  <1>5. x - 1 \in T
    BY <1>3, <1>4
  <1>6. <<x - 1, x>> \in Less
    BY <1>4
  <1> QED
    BY <1>3, <1>5, <1>6

\* Append as a function.
LEMMA AppendIs ==
  ASSUME NEW S, NEW s \in Seq(S), NEW v
  PROVE  Append(s, v) = [i \in 1 .. Len(s) + 1 |-> IF i <= Len(s) THEN s[i] ELSE v]
  <1> DEFINE T == S \cup {v}
  <1>1. s \in Seq(T) /\ v \in T /\ Len(s) \in Nat
    BY SeqDef, LenProperties
  <1>2. /\ Append(s, v) \in Seq(T) /\ Len(Append(s, v)) = Len(s) + 1
        /\ \A i \in 1 .. Len(s) : Append(s, v)[i] = s[i]
        /\ Append(s, v)[Len(s) + 1] = v
    BY <1>1, AppendProperties
  <1>3. Append(s, v) = [i \in 1 .. Len(s) + 1 |-> Append(s, v)[i]]
    BY <1>2, LenProperties
  <1>4. \A i \in 1 .. Len(s) + 1 : Append(s, v)[i] = IF i <= Len(s) THEN s[i] ELSE v
    BY <1>1, <1>2
  <1> QED
    BY <1>3, <1>4, Zenon

\* Every step of a walk goes to the successor of the node before, if any.
LEMMA WalkSteps ==
  ASSUME NEW h, NEW next
  PROVE  Walk(h, next) =
           [k \in 0 .. Cardinality(Nodes) |->
              IF k = 0 THEN h
              ELSE IF Walk(h, next)[k - 1] = Null THEN Null
              ELSE next[Walk(h, next)[k - 1]]]
  <1> DEFINE IsWalk(w, n) ==
               w = [k \in 0 .. n |->
                      IF k = 0 THEN h ELSE IF w[k - 1] = Null THEN Null ELSE next[w[k - 1]]]
             S == {n \in Nat : \E w : IsWalk(w, n)}
  <1>1. 0 \in S
    <2>1. IsWalk([k \in 0 .. 0 |-> h], 0)
      OBVIOUS
    <2> QED BY <2>1
  <1>2. ASSUME NEW n \in Nat, n \in S
        PROVE  n + 1 \in S
    <2>1. PICK w : IsWalk(w, n)
      BY <1>2
    <2> DEFINE last == IF w[n] = Null THEN Null ELSE next[w[n]]
               v == [k \in 0 .. n + 1 |-> IF k = n + 1 THEN last ELSE w[k]]
    <2>2. \A k \in 0 .. n : w[k] = IF k = 0 THEN h ELSE IF w[k - 1] = Null THEN Null ELSE next[w[k - 1]]
      BY <2>1, Zenon
    <2>3. \A k \in 0 .. n : v[k] = w[k]
      OBVIOUS
    <2>4. v[n + 1] = last
      OBVIOUS
    <2>5. \A k \in 0 .. n + 1 :
            v[k] = IF k = 0 THEN h ELSE IF v[k - 1] = Null THEN Null ELSE next[v[k - 1]]
      <3> TAKE k \in 0 .. n + 1
      <3>1. CASE k = n + 1
        <4>1. v[n] = w[n] /\ k # 0 /\ k - 1 = n
          BY <3>1, <2>3
        <4> QED BY <4>1, <3>1, <2>4
      <3>2. CASE k \in 1 .. n
        <4>1. v[k] = w[k] /\ v[k - 1] = w[k - 1]
          BY <3>2, <2>3
        <4> HIDE DEF v
        <4> QED BY <4>1, <3>2, <2>2
      <3>3. CASE k = 0
        <4>1. v[0] = w[0] /\ w[0] = h
          BY <2>3, <2>2
        <4> QED BY <4>1, <3>3
      <3> QED BY <3>1, <3>2, <3>3
    <2>6. v = [k \in 0 .. n + 1 |-> v[k]]
      BY Zenon
    <2>7. IsWalk(v, n + 1)
      <3> HIDE DEF v
      <3> QED BY <2>5, <2>6
    <2>8. n + 1 \in Nat
      OBVIOUS
    <2> HIDE DEF v, IsWalk
    <2> QED BY <2>7, <2>8
  <1>3. Nat \subseteq S
    <2> HIDE DEF S
    <2> QED BY <1>1, <1>2, Induction
  <1>4. Cardinality(Nodes) \in Nat
    BY NodesAssumption, FS_CardinalityType
  <1>5. PICK w : IsWalk(w, Cardinality(Nodes))
    BY <1>3, <1>4
  <1>6. Walk(h, next) = CHOOSE v : IsWalk(v, Cardinality(Nodes))
    BY Zenon DEF Walk
  <1>7. IsWalk(Walk(h, next), Cardinality(Nodes))
    <2> HIDE DEF IsWalk
    <2> QED BY <1>5, <1>6, Zenon
  <1> QED
    BY <1>7

\* A chain is no longer than there are nodes.
LEMMA ChainFits ==
  ASSUME NEW c \in Seq(Nodes), \A i, j \in 1 .. Len(c) : c[i] = c[j] => i = j
  PROVE  Len(c) <= Cardinality(Nodes)
  <1>1. Len(c) \in Nat /\ c \in [1 .. Len(c) -> Nodes]
    BY LenProperties
  <1>2. IsFiniteSet(1 .. Len(c)) /\ Cardinality(1 .. Len(c)) = Len(c)
    BY <1>1, FS_Interval
  <1>3. Cardinality(Nodes) \in Nat
    BY NodesAssumption, FS_CardinalityType
  <1> SUFFICES ASSUME Cardinality(Nodes) < Len(c) PROVE FALSE
    BY <1>1, <1>3
  <1> QED
    BY <1>1, <1>2, NodesAssumption, FS_PigeonHole

\* A walk along a chain meets its nodes in turn, and then Null.
LEMMA WalkMeetsChain ==
  ASSUME NEW h, NEW next, NEW c \in Seq(Nodes), IsChain(c, h, next)
  PROVE  \A k \in 0 .. Cardinality(Nodes) :
           Walk(h, next)[k] = IF k < Len(c) THEN c[k + 1] ELSE Null
  <1> DEFINE N == Cardinality(Nodes)
             w == Walk(h, next)
             Met(k) == w[k] = IF k < Len(c) THEN c[k + 1] ELSE Null
             S == {k \in Nat : k \in 0 .. N => Met(k)}
  <1>1. N \in Nat
    BY NodesAssumption, FS_CardinalityType
  <1>2. Len(c) \in Nat /\ \A i \in 1 .. Len(c) : c[i] \in Nodes /\ c[i] # Null
    BY NullAssumption, LenProperties, ElementOfSeq
  <1>3. \A k \in 0 .. N :
          w[k] = IF k = 0 THEN h ELSE IF w[k - 1] = Null THEN Null ELSE next[w[k - 1]]
    <2>1. w = [k \in 0 .. N |-> IF k = 0 THEN h ELSE IF w[k - 1] = Null THEN Null
                                ELSE next[w[k - 1]]]
      BY WalkSteps
    <2> HIDE DEF w
    <2> QED BY <2>1, Zenon
  <1> HIDE DEF w, N
  <1>4. 0 \in S
    <2>1. w[0] = h
      BY <1>1, <1>3
    <2>2. c = << >> <=> Len(c) = 0
      BY EmptySeq, LenProperties
    <2> QED BY <2>1, <2>2, <1>2 DEF IsChain
  <1>5. ASSUME NEW k \in Nat, k \in S
        PROVE  k + 1 \in S
    <2> SUFFICES ASSUME k + 1 \in 0 .. N PROVE Met(k + 1)
      OBVIOUS
    <2>1. Met(k)
      BY <1>1, <1>5
    <2>2. w[k + 1] = IF w[k] = Null THEN Null ELSE next[w[k]]
      BY <1>3
    <2>3. CASE k < Len(c)
      <3>1. k + 1 \in 1 .. Len(c)
        BY <2>3, <1>2
      <3>2. w[k + 1] = next[c[k + 1]]
        BY <2>1, <2>2, <2>3, <3>1, <1>2
      <3>3. next[c[k + 1]] = IF k + 1 = Len(c) THEN Null ELSE c[k + 1 + 1]
        BY <3>1 DEF IsChain
      <3> QED BY <3>1, <3>2, <3>3, <1>2
    <2>4. CASE ~ k < Len(c)
      BY <2>1, <2>2, <2>4, <1>2
    <2> QED BY <2>3, <2>4
  <1>6. Nat \subseteq S
    <2> HIDE DEF S
    <2> QED BY <1>4, <1>5, Induction
  <1> QED
    BY <1>1, <1>6 DEF w, N

\* There is one chain from a node, and a walk finds it.
LEMMA TheChain ==
  ASSUME NEW h, NEW next, NEW c \in Seq(Nodes), IsChain(c, h, next)
  PROVE  ChainFrom(h, next) = c
  <1> DEFINE N == Cardinality(Nodes)
             w == Walk(h, next)
             steps == {k \in 0 .. N : w[k] # Null}
  <1>1. N \in Nat
    BY NodesAssumption, FS_CardinalityType
  <1>2. /\ Len(c) \in Nat /\ c = [i \in 1 .. Len(c) |-> c[i]]
        /\ \A i \in 1 .. Len(c) : c[i] \in Nodes /\ c[i] # Null
    BY NullAssumption, LenProperties, ElementOfSeq
  <1>3. Len(c) <= N
    BY ChainFits DEF IsChain
  <1>4. \A k \in 0 .. N : w[k] = IF k < Len(c) THEN c[k + 1] ELSE Null
    BY WalkMeetsChain
  <1> HIDE DEF w, N
  <1>5. steps = 0 .. Len(c) - 1
    <2>1. \A k \in 0 .. N : w[k] # Null <=> k < Len(c)
      <3> TAKE k \in 0 .. N
      <3>1. k < Len(c) => k + 1 \in 1 .. Len(c)
        BY <1>1, <1>2
      <3> QED BY <3>1, <1>2, <1>4
    <2>2. 0 .. Len(c) - 1 = {k \in 0 .. N : k < Len(c)}
      BY <1>1, <1>2, <1>3
    <2>3. steps = {k \in 0 .. N : k < Len(c)}
      BY <2>1, Zenon
    <2> HIDE DEF steps
    <2> QED BY <2>2, <2>3
  <1>6. Cardinality(steps) = Len(c)
    <2>1. PICK m \in Int : m = Len(c) - 1
      BY <1>2
    <2>2. Cardinality(0 .. m) = IF 0 > m THEN 0 ELSE m - 0 + 1
      BY FS_Interval
    <2>3. Cardinality(0 .. m) = Len(c)
      BY <2>1, <2>2, <1>2
    <2> QED BY <2>1, <2>3, <1>5
  <1>7. \A i \in 1 .. Len(c) : w[i - 1] = c[i]
    BY <1>1, <1>2, <1>3, <1>4
  <1>8. ChainFrom(h, next) = [i \in 1 .. Len(c) |-> w[i - 1]]
    BY <1>6 DEF ChainFrom, w, N
  <1> QED
    BY <1>2, <1>7, <1>8

(***************************************************************************)
(* How a chain changes: it is relinked where it was not, a node is linked  *)
(* to its end, its first node is left behind, or it starts afresh.         *)
(***************************************************************************)
LEMMA ChainKept ==
  ASSUME NEW h, NEW next, NEW new, NEW c, IsChain(c, h, next),
         \A n \in On(c) : new[n] = next[n]
  PROVE  IsChain(c, h, new)
  BY DEF IsChain, On

LEMMA ChainAppended ==
  ASSUME NEW h, NEW next, NEW new, NEW c \in Seq(Nodes), IsChain(c, h, next),
         c # << >>, NEW s \in Nodes \ On(c),
         \A n \in On(c) \ {c[Len(c)]} : new[n] = next[n],
         new[c[Len(c)]] = s, new[s] = Null
  PROVE  /\ Append(c, s) \in Seq(Nodes) /\ Append(c, s) # << >>
         /\ IsChain(Append(c, s), h, new)
         /\ On(Append(c, s)) = On(c) \cup {s}
         /\ Len(Append(c, s)) = Len(c) + 1
         /\ \A i \in 1 .. Len(c) : Append(c, s)[i] = c[i]
         /\ Append(c, s)[Len(c) + 1] = s
  <1> DEFINE d == Append(c, s)
  <1>1. /\ d \in Seq(Nodes) /\ Len(d) = Len(c) + 1
        /\ \A i \in 1 .. Len(c) : d[i] = c[i]
        /\ d[Len(c) + 1] = s
    BY AppendProperties
  <1>2. Len(c) \in Nat \ {0}
    BY LenProperties, EmptySeq
  <1> HIDE DEF d
  <1>3. 1 .. Len(d) = (1 .. Len(c)) \cup {Len(c) + 1}
    BY <1>1, <1>2
  <1>4. \A i \in 1 .. Len(c) : d[i] # s
    BY <1>1 DEF On
  <1>5. \A i, j \in 1 .. Len(d) : d[i] = d[j] => i = j
    BY <1>1, <1>3, <1>4 DEF IsChain
  <1>6. \A i \in 1 .. Len(d) : new[d[i]] = IF i = Len(d) THEN Null ELSE d[i + 1]
    <2> TAKE i \in 1 .. Len(d)
    <2>1. CASE i = Len(c) + 1
      BY <2>1, <1>1
    <2>2. CASE i = Len(c)
      BY <2>2, <1>1, <1>2
    <2>3. CASE i \in 1 .. Len(c) - 1
      <3>1. i \in 1 .. Len(c) /\ Len(c) \in 1 .. Len(c) /\ i + 1 \in 1 .. Len(c) /\ i # Len(c)
        BY <2>3, <1>2
      <3>2. c[i] # c[Len(c)] /\ c[i] \in On(c)
        BY <3>1 DEF IsChain, On
      <3>3. new[c[i]] = c[i + 1]
        BY <3>1, <3>2 DEF IsChain
      <3>4. d[i] = c[i] /\ d[i + 1] = c[i + 1] /\ i # Len(d)
        BY <3>1, <1>1, <1>2
      <3> QED BY <3>3, <3>4
    <2> QED BY <2>1, <2>2, <2>3, <1>2, <1>3
  <1>7. d # << >> /\ d[1] = c[1]
    BY <1>1, <1>2, EmptySeq
  <1>8. IsChain(d, h, new)
    BY <1>5, <1>6, <1>7 DEF IsChain
  <1>9. On(d) = On(c) \cup {s}
    BY <1>1, <1>3 DEF On
  <1> QED
    BY <1>1, <1>7, <1>8, <1>9 DEF d

LEMMA ChainShortened ==
  ASSUME NEW h, NEW next, NEW new, NEW c \in Seq(Nodes), IsChain(c, h, next),
         c # << >>,
         \A n \in On(c) \ {h} : new[n] = next[n]
  PROVE  /\ Tail(c) \in Seq(Nodes)
         /\ IsChain(Tail(c), next[h], new)
         /\ On(Tail(c)) = On(c) \ {h}
         /\ Len(Tail(c)) = Len(c) - 1
         /\ \A i \in 1 .. Len(c) - 1 : Tail(c)[i] = c[i + 1]
  <1> DEFINE d == Tail(c)
  <1>1. /\ d \in Seq(Nodes) /\ Len(d) = Len(c) - 1
        /\ \A i \in 1 .. Len(c) - 1 : d[i] = c[i + 1]
    BY HeadTailProperties
  <1>2. Len(c) \in Nat \ {0} /\ 1 \in 1 .. Len(c)
    BY LenProperties, EmptySeq
  <1> HIDE DEF d
  <1>3. h = c[1] /\ \A i \in 1 .. Len(d) : i + 1 \in 1 .. Len(c) /\ c[i + 1] # h
    BY <1>1, <1>2 DEF IsChain
  <1>4. \A i, j \in 1 .. Len(d) : d[i] = d[j] => i = j
    BY <1>1, <1>2, <1>3 DEF IsChain
  <1>5. \A i \in 1 .. Len(d) : new[d[i]] = IF i = Len(d) THEN Null ELSE d[i + 1]
    <2> TAKE i \in 1 .. Len(d)
    <2>1. d[i] = c[i + 1] /\ c[i + 1] \in On(c) \ {h}
      BY <1>1, <1>3 DEF On
    <2>2. new[d[i]] = IF i + 1 = Len(c) THEN Null ELSE c[i + 1 + 1]
      BY <2>1, <1>3 DEF IsChain
    <2> QED BY <2>2, <1>1, <1>2
  <1>6. next[h] = IF d = << >> THEN Null ELSE d[1]
    <2>1. next[c[1]] = IF 1 = Len(c) THEN Null ELSE c[1 + 1]
      BY <1>2 DEF IsChain
    <2>2. d = << >> <=> Len(c) = 1
      BY <1>1, <1>2, EmptySeq
    <2>3. Len(c) # 1 => d[1] = c[1 + 1]
      BY <1>1, <1>2
    <2> QED BY <2>1, <2>2, <2>3, <1>3
  <1>7. On(d) = On(c) \ {h}
    <2>1. ASSUME NEW n \in On(d) PROVE n \in On(c) \ {h}
      BY <2>1, <1>1, <1>3 DEF On
    <2>2. ASSUME NEW n \in On(c), n # h PROVE n \in On(d)
      <3>1. PICK i \in 1 .. Len(c) : n = c[i]
        BY <2>2 DEF On
      <3>2. i - 1 \in 1 .. Len(d) /\ d[i - 1] = c[i]
        BY <3>1, <2>2, <1>1, <1>2, <1>3
      <3> QED BY <3>1, <3>2 DEF On
    <2> QED BY <2>1, <2>2
  <1> QED
    BY <1>1, <1>4, <1>5, <1>6, <1>7 DEF IsChain, d

LEMMA ChainStarted ==
  ASSUME NEW next, NEW n \in Nodes, next[n] = Null
  PROVE  << n >> \in Seq(Nodes) /\ IsChain(<< n >>, n, next) /\ On(<< n >>) = {n}
  BY DEF IsChain, On
(***************************************************************************)
(* What the nodes of a chain hold together, and how it changes with what   *)
(* one of them holds, or with the chain.                                   *)
(***************************************************************************)
\* Induction up to a bound.
LEMMA InductionTo ==
  ASSUME NEW n \in Nat, NEW S, 0 \in S, \A k \in 1 .. n : k - 1 \in S => k \in S
  PROVE  0 .. n \subseteq S
  <1> DEFINE T == S \cup {k \in Nat : k > n}
  <1>1. 0 \in T
    OBVIOUS
  <1>2. \A k \in Nat : k \in T => k + 1 \in T
    <2> SUFFICES ASSUME NEW k \in Nat, k \in T PROVE k + 1 \in T
      OBVIOUS
    <2>1. CASE k >= n
      BY <2>1
    <2>2. CASE k < n
      <3>1. k \in S /\ k + 1 \in 1 .. n /\ (k + 1) - 1 = k
        BY <2>2
      <3> QED BY <3>1
    <2> QED BY <2>1, <2>2
  <1>3. Nat \subseteq T
    <2> HIDE DEF T
    <2> QED BY <1>1, <1>2, Induction
  <1> QED
    BY <1>3

\* Joined contents satisfy their recursive definition.
LEMMA JoinSteps ==
  ASSUME NEW c, NEW f, Len(c) \in Nat
  PROVE  /\ Joined(c, f)[0] = << >>
         /\ \A k \in 1 .. Len(c) : Joined(c, f)[k] = Joined(c, f)[k - 1] \o f[c[k]]
  <1> DEFINE IsJoin(j, n) ==
               j = [k \in 0 .. n |-> IF k = 0 THEN << >> ELSE j[k - 1] \o f[c[k]]]
             S == {n \in Nat : \E j : IsJoin(j, n)}
  <1>1. 0 \in S
    <2>1. IsJoin([k \in 0 .. 0 |-> << >>], 0)
      OBVIOUS
    <2> QED BY <2>1
  <1>2. ASSUME NEW n \in Nat, n \in S
        PROVE  n + 1 \in S
    <2>1. PICK j : IsJoin(j, n)
      BY <1>2
    <2> DEFINE last == j[n] \o f[c[n + 1]]
               i == [k \in 0 .. n + 1 |-> IF k = n + 1 THEN last ELSE j[k]]
    <2>2. \A k \in 0 .. n : j[k] = IF k = 0 THEN << >> ELSE j[k - 1] \o f[c[k]]
      BY <2>1, Zenon
    <2>3. \A k \in 0 .. n : i[k] = j[k]
      OBVIOUS
    <2>4. i[n + 1] = last
      OBVIOUS
    <2>5. \A k \in 0 .. n + 1 : i[k] = IF k = 0 THEN << >> ELSE i[k - 1] \o f[c[k]]
      <3> TAKE k \in 0 .. n + 1
      <3>1. CASE k = n + 1
        <4>1. i[n] = j[n] /\ k # 0 /\ k - 1 = n
          BY <3>1, <2>3
        <4> QED BY <4>1, <3>1, <2>4
      <3>2. CASE k \in 1 .. n
        <4>1. i[k] = j[k] /\ i[k - 1] = j[k - 1] /\ k # 0 /\ k \in 0 .. n
          BY <3>2, <2>3
        <4> HIDE DEF i
        <4> QED BY <4>1, <2>2
      <3>3. CASE k = 0
        <4>1. i[0] = j[0] /\ j[0] = << >>
          BY <2>3, <2>2
        <4> QED BY <4>1, <3>3
      <3> QED BY <3>1, <3>2, <3>3
    <2>6. i = [k \in 0 .. n + 1 |-> i[k]]
      BY Zenon
    <2>7. IsJoin(i, n + 1)
      <3> HIDE DEF i
      <3> QED BY <2>5, <2>6
    <2>8. n + 1 \in Nat
      OBVIOUS
    <2> HIDE DEF i, IsJoin
    <2> QED BY <2>7, <2>8
  <1>3. Nat \subseteq S
    <2> HIDE DEF S
    <2> QED BY <1>1, <1>2, Induction
  <1>4. PICK j : IsJoin(j, Len(c))
    BY <1>3
  <1>5. IsJoin(Joined(c, f), Len(c))
    BY <1>4 DEF Joined
  <1>6. \A k \in 0 .. Len(c) :
          Joined(c, f)[k] = IF k = 0 THEN << >> ELSE Joined(c, f)[k - 1] \o f[c[k]]
    BY <1>5, Zenon
  <1>7. 0 \in 0 .. Len(c) /\ \A k \in 1 .. Len(c) : k \in 0 .. Len(c) /\ k # 0
    OBVIOUS
  <1> QED
    BY <1>6, <1>7, Zenon

\* k follows j, and node k adds what it holds.
After(j, k, c) == j \in Nat /\ k = j + 1 /\ k \in 1 .. Len(c) /\ Len(c) \in Nat

Adds(c, f, j, k) == Joined(c, f)[k] = Joined(c, f)[j] \o f[c[k]]

LEMMA JoinStep ==
  ASSUME NEW c, NEW f, NEW j, NEW k, After(j, k, c)
  PROVE  Adds(c, f, j, k)
  <1>1. j = k - 1
    BY DEF After
  <1>2. Joined(c, f)[k] = Joined(c, f)[k - 1] \o f[c[k]]
    BY JoinSteps DEF After
  <1> QED
    BY <1>1, <1>2 DEF Adds

\* They are sequences.
LEMMA JoinType ==
  ASSUME NEW V, NEW c \in Seq(Nodes), NEW f \in [Nodes -> Seq(V)]
  PROVE  \A k \in 0 .. Len(c) : Joined(c, f)[k] \in Seq(V)
  <1> DEFINE S == {k \in 0 .. Len(c) : Joined(c, f)[k] \in Seq(V)}
  <1>1. Len(c) \in Nat
    BY LenProperties
  <1>2. 0 \in S
    <2>1. Joined(c, f)[0] = << >>
      BY <1>1, JoinSteps
    <2>2. << >> \in Seq(V) /\ 0 \in 0 .. Len(c)
      BY <1>1, EmptySeq
    <2> QED BY <2>1, <2>2
  <1>3. ASSUME NEW k \in 1 .. Len(c), k - 1 \in S
        PROVE  k \in S
    <2>1. Joined(c, f)[k] = Joined(c, f)[k - 1] \o f[c[k]] /\ c[k] \in Nodes
      BY <1>1, JoinSteps, ElementOfSeq
    <2>2. Joined(c, f)[k - 1] \in Seq(V) /\ f[c[k]] \in Seq(V)
      BY <1>3, <2>1
    <2>3. Joined(c, f)[k] \in Seq(V)
      BY <2>1, <2>2, ConcatProperties
    <2> QED BY <2>3, <1>1
  <1>4. 0 .. Len(c) \subseteq S
    <2> HIDE DEF S
    <2> QED BY <1>1, <1>2, <1>3, InductionTo
  <1> QED
    BY <1>4

\* What a node adds to the length.
LEMMA JoinLength ==
  ASSUME NEW V, NEW c \in Seq(Nodes), NEW f \in [Nodes -> Seq(V)], NEW k \in 1 .. Len(c)
  PROVE  /\ Len(Joined(c, f)[k]) = Len(Joined(c, f)[k - 1]) + Len(f[c[k]])
         /\ Len(Joined(c, f)[k]) \in Nat /\ Len(Joined(c, f)[k - 1]) \in Nat
         /\ Len(f[c[k]]) \in Nat
  <1>1. Len(c) \in Nat
    BY LenProperties
  <1>2. Joined(c, f)[k] = Joined(c, f)[k - 1] \o f[c[k]] /\ c[k] \in Nodes
    BY <1>1, JoinSteps, ElementOfSeq
  <1>3. k - 1 \in 0 .. Len(c) /\ k \in 0 .. Len(c)
    BY <1>1
  <1>4. /\ Joined(c, f)[k] \in Seq(V) /\ Joined(c, f)[k - 1] \in Seq(V)
        /\ f[c[k]] \in Seq(V)
    BY <1>2, <1>3, JoinType
  <1> QED
    BY <1>2, <1>4, ConcatProperties, LenProperties

\* More nodes hold no less.
LEMMA JoinLonger ==
  ASSUME NEW V, NEW c \in Seq(Nodes), NEW f \in [Nodes -> Seq(V)], NEW m \in 0 .. Len(c)
  PROVE  \A k \in m .. Len(c) : Len(Joined(c, f)[m]) <= Len(Joined(c, f)[k])
  <1> DEFINE S == {k \in 0 .. Len(c) :
                     k >= m => Len(Joined(c, f)[m]) <= Len(Joined(c, f)[k])}
  <1>1. Len(c) \in Nat /\ m \in Nat
    BY LenProperties
  <1>2. \A k \in 0 .. Len(c) : Len(Joined(c, f)[k]) \in Nat
    BY JoinType, LenProperties
  <1>3. 0 \in S
    BY <1>1, <1>2
  <1>4. ASSUME NEW k \in 1 .. Len(c), k - 1 \in S
        PROVE  k \in S
    <2>0. /\ Len(Joined(c, f)[k]) = Len(Joined(c, f)[k - 1]) + Len(f[c[k]])
          /\ Len(Joined(c, f)[k - 1]) \in Nat /\ Len(f[c[k]]) \in Nat
      BY JoinLength
    <2>1. PICK x \in Nat, y \in Nat, z \in Nat :
            /\ x = Len(Joined(c, f)[m]) /\ y = Len(Joined(c, f)[k - 1])
            /\ z = Len(f[c[k]]) /\ Len(Joined(c, f)[k]) = y + z
      BY <2>0, <1>2, Zenon
    <2>2. CASE k = m
      BY <2>2, <1>1, <1>2
    <2>3. CASE k > m
      <3>1. x <= y
        BY <2>1, <2>3, <1>4, <1>1
      <3>2. x <= y + z
        BY <3>1
      <3>3. Len(Joined(c, f)[m]) <= Len(Joined(c, f)[k])
        BY <2>1, <3>2, Zenon
      <3> QED BY <3>3, <1>1
    <2>4. CASE k < m
      BY <2>4, <1>1
    <2> QED BY <2>2, <2>3, <2>4, <1>1
  <1>5. 0 .. Len(c) \subseteq S
    <2> HIDE DEF S
    <2> QED BY <1>1, <1>3, <1>4, InductionTo
  <1> SUFFICES ASSUME NEW k \in m .. Len(c)
               PROVE  Len(Joined(c, f)[m]) <= Len(Joined(c, f)[k])
    OBVIOUS
  <1>6. k \in 0 .. Len(c) /\ k >= m
    BY <1>1
  <1>7. k \in S
    BY <1>5, <1>6
  <1> QED
    BY <1>6, <1>7

\* They depend on the nodes so far and their contents only.
LEMMA JoinAgree ==
  ASSUME NEW c, NEW d, NEW f, NEW g, NEW m \in Nat, Len(c) \in Nat, Len(d) \in Nat,
         m <= Len(c), m <= Len(d),
         \A i \in 1 .. m : f[c[i]] = g[d[i]]
  PROVE  \A k \in 0 .. m : Joined(c, f)[k] = Joined(d, g)[k]
  <1> DEFINE S == {k \in 0 .. m : Joined(c, f)[k] = Joined(d, g)[k]}
  <1>1. 0 \in S
    <2>1. Joined(c, f)[0] = << >> /\ Joined(d, g)[0] = << >>
      BY JoinSteps
    <2> QED BY <2>1
  <1>2. ASSUME NEW k \in 1 .. m, k - 1 \in S
        PROVE  k \in S
    <2>1. k \in 1 .. Len(c) /\ k \in 1 .. Len(d)
      OBVIOUS
    <2>2. /\ Joined(c, f)[k] = Joined(c, f)[k - 1] \o f[c[k]]
          /\ Joined(d, g)[k] = Joined(d, g)[k - 1] \o g[d[k]]
      BY <2>1, JoinSteps
    <2>3. Joined(c, f)[k] = Joined(d, g)[k]
      BY <2>2, <1>2
    <2> QED BY <2>3
  <1>3. 0 .. m \subseteq S
    <2> HIDE DEF S
    <2> QED BY <1>1, <1>2, InductionTo
  <1> QED
    BY <1>3

SameTo(c, f, g, m) ==
  m \in Nat /\ Len(c) \in Nat /\ m <= Len(c) /\ \A i \in 1 .. m : g[c[i]] = f[c[i]]

LEMMA JoinSameTo ==
  ASSUME NEW c, NEW f, NEW g, NEW m, SameTo(c, f, g, m)
  PROVE  \A k \in 0 .. m : Joined(c, g)[k] = Joined(c, f)[k]
  BY JoinAgree DEF SameTo

LEMMA JoinSame ==
  ASSUME NEW c \in Seq(Nodes), NEW f, NEW g, \A n \in On(c) : f[n] = g[n]
  PROVE  \A k \in 0 .. Len(c) : Joined(c, f)[k] = Joined(c, g)[k]
  <1>1. Len(c) \in Nat /\ \A i \in 1 .. Len(c) : f[c[i]] = g[c[i]]
    BY LenProperties DEF On
  <1> QED
    BY <1>1, JoinAgree

\* A node is appended.
HasAppended(c, f, g, n) ==
  /\ \A k \in 0 .. Len(c) : Joined(Append(c, n), g)[k] = Joined(c, f)[k]
  /\ Joined(Append(c, n), g)[Len(c) + 1] = Joined(c, f)[Len(c)] \o g[n]

LEMMA JoinAppended ==
  ASSUME NEW c \in Seq(Nodes), NEW f, NEW g, NEW n \in Nodes,
         \A m \in On(c) : f[m] = g[m]
  PROVE  HasAppended(c, f, g, n)
  <1> DEFINE d == Append(c, n)
  <1>1. /\ Len(c) \in Nat /\ Len(d) = Len(c) + 1
        /\ \A i \in 1 .. Len(c) : d[i] = c[i] /\ f[c[i]] = g[c[i]]
        /\ d[Len(c) + 1] = n
    BY LenProperties, AppendProperties DEF On
  <1> HIDE DEF d
  <1>2. \A k \in 0 .. Len(c) : Joined(c, f)[k] = Joined(d, g)[k]
    <2>1. /\ Len(d) \in Nat /\ Len(c) <= Len(c) /\ Len(c) <= Len(d)
          /\ \A i \in 1 .. Len(c) : f[c[i]] = g[d[i]]
      BY <1>1
    <2> QED BY <1>1, <2>1, JoinAgree
  <1>3. Joined(d, g)[Len(c) + 1] = Joined(d, g)[Len(c)] \o g[n]
    <2>1. After(Len(c), Len(c) + 1, d)
      BY <1>1 DEF After
    <2>2. Adds(d, g, Len(c), Len(c) + 1)
      BY <2>1, JoinStep, Zenon
    <2> QED BY <2>2, <1>1, Zenon DEF Adds
  <1>4. Len(c) \in 0 .. Len(c)
    BY <1>1
  <1>5. Joined(d, g)[Len(c) + 1] = Joined(c, f)[Len(c)] \o g[n]
    BY <1>2, <1>3, <1>4, Zenon
  <1> QED
    BY <1>2, <1>5 DEF d, HasAppended

\* The last node gets one more element.
Grows(c, f, g, v) ==
  /\ c # << >>
  /\ \A i \in 1 .. Len(c) : i # Len(c) => g[c[i]] = f[c[i]]
  /\ g[c[Len(c)]] = Append(f[c[Len(c)]], v)

LEMMA JoinGrows ==
  ASSUME NEW V, NEW c \in Seq(Nodes), NEW f \in [Nodes -> Seq(V)], NEW g, NEW v \in V,
         Grows(c, f, g, v)
  PROVE  /\ \A k \in 0 .. Len(c) - 1 : Joined(c, g)[k] = Joined(c, f)[k]
         /\ Joined(c, g)[Len(c)] = Append(Joined(c, f)[Len(c)], v)
  <1>1. Len(c) \in Nat \ {0}
    BY EmptySeq DEF Grows
  <1>2. \A k \in 0 .. Len(c) - 1 : Joined(c, g)[k] = Joined(c, f)[k]
    <2>1. SameTo(c, f, g, Len(c) - 1)
      BY <1>1 DEF SameTo, Grows
    <2>2. \A m : SameTo(c, f, g, m) => \A k \in 0 .. m : Joined(c, g)[k] = Joined(c, f)[k]
      BY JoinSameTo
    <2> QED BY <2>1, <2>2
  <1> DEFINE x == Joined(c, f)[Len(c) - 1]
             y == f[c[Len(c)]]
  <1>3. Joined(c, f)[Len(c)] = x \o y /\ Joined(c, g)[Len(c)] = x \o Append(y, v)
    <2>1. Len(c) \in 1 .. Len(c) /\ Len(c) - 1 \in 0 .. Len(c) - 1
      BY <1>1
    <2>2. /\ Joined(c, f)[Len(c)] = Joined(c, f)[Len(c) - 1] \o f[c[Len(c)]]
          /\ Joined(c, g)[Len(c)] = Joined(c, g)[Len(c) - 1] \o g[c[Len(c)]]
      BY <2>1, <1>1, JoinSteps
    <2> QED BY <2>1, <2>2, <1>2 DEF Grows
  <1>4. x \in Seq(V) /\ y \in Seq(V)
    <2>1. Len(c) - 1 \in 0 .. Len(c) /\ Len(c) \in 1 .. Len(c)
      BY <1>1
    <2>2. c[Len(c)] \in Nodes
      BY <2>1, ElementOfSeq
    <2>3. x \in Seq(V)
      BY <2>1, JoinType
    <2> QED BY <2>2, <2>3
  <1> HIDE DEF x, y
  <1>5. x \o Append(y, v) = Append(x \o y, v)
    <2>1. Append(y, v) = y \o <<v>> /\ x \o y \in Seq(V) /\ <<v>> \in Seq(V)
      BY <1>4, AppendIsConcat, ConcatProperties
    <2>2. Append(x \o y, v) = (x \o y) \o <<v>>
      BY <2>1, AppendIsConcat
    <2>3. (x \o y) \o <<v>> = x \o (y \o <<v>>)
      BY <2>1, <1>4, ConcatAssociative
    <2> QED BY <2>1, <2>2, <2>3
  <1> QED
    BY <1>2, <1>3, <1>5

LEMMA TailOfConcat ==
  ASSUME NEW V, NEW x \in Seq(V), NEW y \in Seq(V), x # << >>
  PROVE  /\ x \o y # << >> /\ Head(x \o y) = Head(x)
         /\ Tail(x \o y) = Tail(x) \o y
  <1> DEFINE z == x \o y
             a == Tail(z)
             b == Tail(x) \o y
  <1>1. PICK m \in Nat, n \in Nat : m = Len(x) /\ n = Len(y) /\ m > 0
    BY EmptySeq, LenProperties
  <1>2. /\ z \in Seq(V) /\ Len(z) = m + n
        /\ \A i \in 1 .. m + n : z[i] = IF i <= m THEN x[i] ELSE y[i - m]
    BY <1>1, ConcatProperties
  <1>3. /\ Tail(x) \in Seq(V) /\ Len(Tail(x)) = m - 1
        /\ \A i \in 1 .. m - 1 : Tail(x)[i] = x[i + 1]
    BY <1>1, HeadTailProperties
  <1>4. /\ b \in Seq(V) /\ Len(b) = m - 1 + n
        /\ \A i \in 1 .. m - 1 + n :
             b[i] = IF i <= m - 1 THEN Tail(x)[i] ELSE y[i - (m - 1)]
    BY <1>1, <1>3, ConcatProperties
  <1> HIDE DEF z, b
  <1>5. z # << >> /\ Head(z) = x[1] /\ Head(x) = x[1]
    <2>1. Len(z) # 0 /\ 1 \in 1 .. m + n /\ 1 <= m
      BY <1>1, <1>2
    <2> QED BY <2>1, <1>2, EmptySeq
  <1>6. /\ a \in Seq(V) /\ Len(a) = m + n - 1
        /\ \A i \in 1 .. m + n - 1 : a[i] = z[i + 1]
    BY <1>2, <1>5, HeadTailProperties
  <1> HIDE DEF a
  <1>7. ASSUME NEW i \in 1 .. m + n - 1 PROVE a[i] = b[i]
    <2>1. i + 1 \in 1 .. m + n /\ i \in 1 .. m - 1 + n /\ i + 1 - m = i - (m - 1)
      BY <1>1
    <2>2. a[i] = IF i + 1 <= m THEN x[i + 1] ELSE y[i + 1 - m]
      BY <2>1, <1>2, <1>6
    <2>3. b[i] = IF i <= m - 1 THEN x[i + 1] ELSE y[i - (m - 1)]
      <3>1. CASE i <= m - 1
        BY <3>1, <2>1, <1>3, <1>4
      <3>2. CASE ~ (i <= m - 1)
        BY <3>2, <2>1, <1>4
      <3> QED BY <3>1, <3>2
    <2> QED BY <2>1, <2>2, <2>3
  <1>8. Len(a) = Len(b) /\ \A i \in 1 .. Len(a) : a[i] = b[i]
    BY <1>1, <1>4, <1>6, <1>7
  <1>9. a = b
    BY <1>4, <1>6, <1>8, SeqEqual
  <1> QED
    BY <1>5, <1>9 DEF a, b, z

\* One element is taken from the first node that is not empty.
Pops(c, f, g, m) ==
  /\ m \in 1 .. Len(c)
  /\ \A i \in 1 .. m - 1 : f[c[i]] = << >>
  /\ f[c[m]] # << >>
  /\ g[c[m]] = Tail(f[c[m]])
  /\ \A i \in 1 .. Len(c) : i # m => g[c[i]] = f[c[i]]

HasPopped(c, f, g, m) ==
  \A k \in m .. Len(c) : /\ Joined(c, f)[k] # << >>
                         /\ Joined(c, g)[k] = Tail(Joined(c, f)[k])
                         /\ Head(Joined(c, f)[k]) = Head(f[c[m]])

LEMMA JoinPops ==
  ASSUME NEW V, NEW c \in Seq(Nodes), NEW f \in [Nodes -> Seq(V)], NEW g, NEW m,
         Pops(c, f, g, m)
  PROVE  HasPopped(c, f, g, m)
  <1> SUFFICES ASSUME m \in 1 .. Len(c),
                  \A i \in 1 .. m - 1 : f[c[i]] = << >>,
                  f[c[m]] # << >>,
                  g[c[m]] = Tail(f[c[m]]),
                  \A i \in 1 .. Len(c) : i # m => g[c[i]] = f[c[i]]
           PROVE  \A k \in m .. Len(c) : /\ Joined(c, f)[k] # << >>
                                         /\ Joined(c, g)[k] = Tail(Joined(c, f)[k])
                                         /\ Head(Joined(c, f)[k]) = Head(f[c[m]])
    BY DEF Pops, HasPopped
  <1> DEFINE J(k) == Joined(c, f)[k]
             Popped(k) == /\ J(k) # << >>
                          /\ Joined(c, g)[k] = Tail(J(k))
                          /\ Head(J(k)) = Head(f[c[m]])
             E == {k \in 0 .. m - 1 : J(k) = << >> /\ Joined(c, g)[k] = << >>}
             S == {k \in 0 .. Len(c) : k >= m => Popped(k)}
  <1>1. Len(c) \in Nat /\ m \in Nat /\ m - 1 \in Nat
    BY LenProperties
  <1>2. \A k \in 1 .. Len(c) :
          /\ J(k) = J(k - 1) \o f[c[k]]
          /\ Joined(c, g)[k] = Joined(c, g)[k - 1] \o g[c[k]]
          /\ f[c[k]] \in Seq(V) /\ J(k - 1) \in Seq(V)
    <2> SUFFICES ASSUME NEW k \in 1 .. Len(c)
                 PROVE  /\ J(k) = J(k - 1) \o f[c[k]]
                        /\ Joined(c, g)[k] = Joined(c, g)[k - 1] \o g[c[k]]
                        /\ f[c[k]] \in Seq(V) /\ J(k - 1) \in Seq(V)
      OBVIOUS
    <2>1. c[k] \in Nodes /\ k - 1 \in 0 .. Len(c)
      BY <1>1, ElementOfSeq
    <2>2. f[c[k]] \in Seq(V) /\ J(k - 1) \in Seq(V)
      BY <2>1, JoinType
    <2>3. J(k) = J(k - 1) \o f[c[k]]
      BY <1>1, JoinSteps, ZenonT(30)
    <2>4. Joined(c, g)[k] = Joined(c, g)[k - 1] \o g[c[k]]
      BY <1>1, JoinSteps, ZenonT(30)
    <2> QED BY <2>2, <2>3, <2>4
  <1>3. J(0) = << >> /\ Joined(c, g)[0] = << >>
    BY <1>1, JoinSteps
  <1>4. 0 .. m - 1 \subseteq E
    <2>1. 0 \in E
      BY <1>1, <1>3
    <2>2. ASSUME NEW k \in 1 .. m - 1, k - 1 \in E
          PROVE  k \in E
      <3>1. k \in 1 .. Len(c) /\ k # m
        BY <1>1
      <3>2. J(k - 1) = << >> /\ Joined(c, g)[k - 1] = << >> /\ f[c[k]] = << >> /\ g[c[k]] = << >>
        BY <2>2, <3>1
      <3>3. J(k) = << >> \o << >> /\ Joined(c, g)[k] = << >> \o << >>
        BY <1>2, <3>1, <3>2, Zenon
      <3>4. << >> \o << >> = << >>
        BY EmptySeq, ConcatEmptySeq
      <3> QED BY <3>3, <3>4
    <2> HIDE DEF E
    <2> QED BY <1>1, <2>1, <2>2, InductionTo
  <1>5. J(m - 1) = << >> /\ Joined(c, g)[m - 1] = << >>
    BY <1>1, <1>4
  <1>6. Popped(m)
    <2>1. /\ J(m) = << >> \o f[c[m]] /\ f[c[m]] \in Seq(V)
          /\ Joined(c, g)[m] = << >> \o Tail(f[c[m]])
      BY <1>2, <1>5, Zenon
    <2>2. Tail(f[c[m]]) \in Seq(V)
      BY <2>1, HeadTailProperties
    <2>3. J(m) = f[c[m]] /\ Joined(c, g)[m] = Tail(f[c[m]])
      BY <2>1, <2>2, ConcatEmptySeq
    <2> QED BY <2>3
  <1>7. 0 \in S
    BY <1>1
  <1>8. ASSUME NEW k \in 1 .. Len(c), k - 1 \in S
        PROVE  k \in S
    <2>1. CASE k = m
      BY <2>1, <1>6, <1>1
    <2>2. CASE k < m
      BY <2>2, <1>1
    <2>3. CASE k > m
      <3>1. Popped(k - 1)
        BY <2>3, <1>8, <1>1
      <3> DEFINE x == J(k - 1)
                 y == f[c[k]]
      <3>2. x \in Seq(V) /\ y \in Seq(V) /\ J(k) = x \o y /\ Joined(c, g)[k] = Tail(x) \o y
        <4>1. g[c[k]] = f[c[k]]
          BY <2>3, <1>1
        <4>2. Joined(c, g)[k - 1] = Tail(x)
          BY <3>1
        <4> QED BY <4>1, <4>2, <1>2, Zenon
      <3>3. x # << >> /\ Head(x) = Head(f[c[m]])
        BY <3>1
      <3> HIDE DEF x, y
      <3>4. x \o y # << >> /\ Tail(x \o y) = Tail(x) \o y /\ Head(x \o y) = Head(x)
        BY <3>2, <3>3, TailOfConcat
      <3>5. Popped(k)
        BY <3>2, <3>3, <3>4, Zenon
      <3> QED BY <3>5, <1>1
    <2> QED BY <2>1, <2>2, <2>3, <1>1
  <1>9. 0 .. Len(c) \subseteq S
    <2> HIDE DEF S
    <2> QED BY <1>1, <1>7, <1>8, InductionTo
  <1> SUFFICES ASSUME NEW k \in m .. Len(c) PROVE Popped(k)
    OBVIOUS
  <1>10. k \in 0 .. Len(c) /\ k >= m
    BY <1>1
  <1>11. k \in S
    BY <1>9, <1>10
  <1> QED
    BY <1>10, <1>11

\* The first node is empty and dropped.
Drops(c, f, g) ==
  /\ c # << >> /\ f[c[1]] = << >>
  /\ \A i \in 1 .. Len(c) : i # 1 => g[c[i]] = f[c[i]]

LEMMA JoinDrops ==
  ASSUME NEW c \in Seq(Nodes), NEW f, NEW g, Drops(c, f, g)
  PROVE  \A k \in 0 .. Len(c) - 1 : Joined(Tail(c), g)[k] = Joined(c, f)[k + 1]
  <1> DEFINE d == Tail(c)
             S == {k \in 0 .. Len(c) - 1 : Joined(d, g)[k] = Joined(c, f)[k + 1]}
  <1>1. /\ Len(c) \in Nat \ {0} /\ Len(d) = Len(c) - 1
        /\ \A i \in 1 .. Len(c) - 1 : d[i] = c[i + 1]
    BY EmptySeq, HeadTailProperties DEF Drops
  <1> HIDE DEF d
  <1>2. 0 \in S
    <2>0. Len(d) \in Nat /\ Len(c) \in Nat
      BY <1>1
    <2>1. Joined(d, g)[0] = << >> /\ Joined(c, f)[0] = << >>
      BY <2>0, JoinSteps, Zenon
    <2>2. Joined(c, f)[1] = Joined(c, f)[1 - 1] \o f[c[1]]
      <3>1. 1 \in 1 .. Len(c) /\ Len(c) \in Nat
        BY <1>1
      <3> QED BY <3>1, JoinSteps
    <2>3. Joined(c, f)[1] = << >> \o << >>
      <3>1. f[c[1]] = << >>
        BY DEF Drops
      <3> QED BY <3>1, <2>1, <2>2
    <2>4. << >> \o << >> = << >>
      BY EmptySeq, ConcatEmptySeq
    <2> QED BY <1>1, <2>1, <2>3, <2>4
  <1>3. ASSUME NEW k \in 1 .. Len(c) - 1, k - 1 \in S
        PROVE  k \in S
    <2>1. /\ k \in 1 .. Len(d) /\ k + 1 \in 1 .. Len(c) /\ k + 1 - 1 = k /\ k - 1 + 1 = k
          /\ Len(d) \in Nat /\ Len(c) \in Nat /\ k + 1 \in 2 .. Len(c)
      BY <1>1
    <2>2. Joined(d, g)[k] = Joined(d, g)[k - 1] \o g[d[k]]
      BY <2>1, JoinSteps, Zenon
    <2>3. Joined(c, f)[k + 1] = Joined(c, f)[k] \o f[c[k + 1]]
      <3>1. After(k, k + 1, c)
        BY <2>1 DEF After
      <3>2. Adds(c, f, k, k + 1)
        BY <3>1, JoinStep, Zenon
      <3> QED BY <3>2 DEF Adds
    <2>4. g[d[k]] = f[c[k + 1]]
      BY <1>1, <2>1 DEF Drops
    <2>5. Joined(d, g)[k - 1] = Joined(c, f)[k - 1 + 1]
      BY <1>3
    <2>6. Joined(d, g)[k] = Joined(c, f)[k + 1]
      BY <2>1, <2>2, <2>3, <2>4, <2>5, Zenon
    <2> QED BY <2>6, <1>1
  <1>4. 0 .. Len(c) - 1 \subseteq S
    <2>1. Len(c) - 1 \in Nat
      BY <1>1
    <2> HIDE DEF S
    <2> QED BY <2>1, <1>2, <1>3, InductionTo
  <1> QED
    BY <1>4 DEF d
=============================================================================
