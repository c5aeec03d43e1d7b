------------------------- MODULE MPSCUnboundedProofs -------------------------
(***************************************************************************)
(* Proofs about MPSCUnbounded, for every number of producers and of nodes: *)
(* the nodes from head form one chain although the producers link it in    *)
(* any order, no producer links to a node that is deleted, and the chain   *)
(* is a FIFO queue of which empty() and try_pop tell the truth.            *)
(***************************************************************************)
EXTENDS MPSCUnbounded, NodeChainsProofs

\* What every step does: it keeps the invariant, and is a step of the FIFO queue.
StepHolds == IInv' /\ [Fifo!Next]_(Fifo!vars)

(***************************************************************************)
(* Numbers modulo the width of size_t.                                     *)
(***************************************************************************)
LEMMA DivMod ==
  ASSUME NEW x \in Int
  PROVE  /\ x % SizeMod = x - SizeMod * (x \div SizeMod)
         /\ x \div SizeMod \in Int /\ x % SizeMod \in 0 .. SizeMod - 1
         /\ SizeMod * (x \div SizeMod) \in Int
  <1>1. x % SizeMod = x - SizeMod * (x \div SizeMod)
    BY SizeModAssumption, SMT
  <1>2. x \div SizeMod \in Int /\ x % SizeMod \in 0 .. SizeMod - 1
    BY SizeModAssumption, SMT
  <1>3. SizeMod * (x \div SizeMod) \in Int
    BY <1>2, SizeModAssumption
  <1> QED
    BY <1>1, <1>2, <1>3

\* Numbers that differ by a multiple of SizeMod are the same modulo SizeMod.
LEMMA SameResidue ==
  ASSUME NEW x \in Int, NEW y \in Int, NEW k \in Int, y = x + SizeMod * k
  PROVE  x % SizeMod = y % SizeMod
  <1> DEFINE a == x \div SizeMod
             b == y \div SizeMod
             r == x % SizeMod
             s == y % SizeMod
  <1>1. /\ r = x - SizeMod * a /\ s = y - SizeMod * b
        /\ r \in 0 .. SizeMod - 1 /\ s \in 0 .. SizeMod - 1
        /\ a \in Int /\ b \in Int /\ SizeMod * a \in Int /\ SizeMod * b \in Int
    BY DivMod
  <1> HIDE DEF a, b, r, s
  <1>2. PICK m \in Int : m = k - b + a
    BY <1>1
  <1>3. SizeMod * m = SizeMod * k - SizeMod * b + SizeMod * a
    BY <1>1, <1>2, SizeModAssumption, SMT
  <1>4. SizeMod * k \in Int /\ SizeMod * m \in Int
    BY SizeModAssumption
  <1>5. s - r = SizeMod * m
    BY <1>1, <1>3, <1>4
  <1>6. \A d \in Int : (d >= 1 => SizeMod * d >= SizeMod) /\ (d <= -1 => SizeMod * d <= - SizeMod)
    BY SizeModAssumption, SMT
  <1>7. s - r < SizeMod /\ s - r > - SizeMod /\ s - r \in Int
    BY <1>1, SizeModAssumption
  <1>8. ~ (m >= 1) /\ ~ (m <= -1)
    BY <1>5, <1>6, <1>7, SizeModAssumption
  <1>9. m = 0
    BY <1>8
  <1>10. s - r = 0
    BY <1>5, <1>9, SizeModAssumption
  <1> QED
    BY <1>1, <1>10 DEF r, s

\* Counting up or down commutes with taking the residue.
LEMMA CountResidue ==
  ASSUME NEW x \in Int, NEW d \in Int
  PROVE  ((x % SizeMod) + d) % SizeMod = (x + d) % SizeMod
  <1>1. PICK q \in Int : x % SizeMod = x - SizeMod * q /\ x % SizeMod \in Int /\ SizeMod * q \in Int
    BY DivMod
  <1>2. x + d \in Int /\ (x % SizeMod) + d \in Int /\ x + d = ((x % SizeMod) + d) + SizeMod * q
    BY <1>1
  <1> QED
    BY <1>2, SameResidue

(***************************************************************************)
(* The chain that the invariant speaks of, and the nodes on it.            *)
(***************************************************************************)
LEMMA ChainOf ==
  ASSUME NEW c, ChainInv(c)
  PROVE  Chain = c
  BY TheChain DEF ChainInv, Chain

LEMMA ChainOfNext ==
  ASSUME NEW c, TypeOK', ChainInv(c)'
  PROVE  IInv' /\ Items' = ItemsOf(c)'
  <1>1. Chain' = c
    BY TheChain DEF ChainInv, Chain
  <1> QED
    BY <1>1 DEF IInv, Items

\* A step that leaves the nodes of the chain and their data alone.
LEMMA Unseen ==
  ASSUME NEW c, TypeOK', ChainInv(c), ChainInv(c)',
         cpc # "destroy", cpc' # "destroy", out' = out,
         \A i \in 1 .. Len(c) - 1 : node'[c[i + 1]].data = node[c[i + 1]].data
  PROVE  StepHolds
  <1>1. Items = ItemsOf(c)
    BY ChainOf DEF Items
  <1>2. IInv' /\ Items' = ItemsOf(c)'
    BY ChainOfNext
  <1>3. ItemsOf(c)' = ItemsOf(c)
    BY DEF ItemsOf
  <1> QED
    BY <1>1, <1>2, <1>3 DEF StepHolds, Fifo!vars

\* A node's successor is what it stores, or what a producer is about to store.
SuccessorIs(n) ==
  /\ node[n] # Null /\ node[n].next # Null => successor[n] = node[n].next
  /\ node[n] # Null /\ node[n].next = Null =>
       /\ Linkers(n) = {} => successor[n] = Null
       /\ \A p : Linkers(n) = {p} => successor[n] = new_node[p]

LEMMA SuccessorOf == \A n \in Nodes : SuccessorIs(n)
  <1> SUFFICES ASSUME NEW n \in Nodes PROVE SuccessorIs(n)
    OBVIOUS
  <1>1. successor[n] = IF node[n] # Null /\ node[n].next # Null THEN node[n].next
                       ELSE IF Linkers(n) = {} THEN Null
                       ELSE new_node[CHOOSE p \in Linkers(n) : TRUE]
    BY DEF successor
  <1>2. PICK L : L = Linkers(n)
    OBVIOUS
  <1>3. \A p : L = {p} => (CHOOSE q \in L : TRUE) = p
    OBVIOUS
  <1>4. \A p : Linkers(n) = {p} => L # {} /\ (CHOOSE q \in Linkers(n) : TRUE) = p
    BY <1>2, <1>3
  <1> QED
    BY <1>1, <1>2, <1>4 DEF SuccessorIs

LEMMA SuccessorOfNext == \A n \in Nodes : SuccessorIs(n)'
  <1>1. (\A n \in Nodes : SuccessorIs(n))'
    BY SuccessorOf, PTL
  <1> QED
    BY <1>1

\* A node whose link and linkers stay keeps its successor.
LEMMA SameSuccessor ==
  ASSUME NEW n \in Nodes, node[n] # Null, node'[n] # Null, node'[n].next = node[n].next,
         Linkers(n)' = Linkers(n),
         \A p \in Linkers(n) : new_node'[p] = new_node[p]
  PROVE  successor'[n] = successor[n]
  <1>1. PICK L : L = Linkers(n)
    OBVIOUS
  <1>2. successor[n] = IF node[n].next # Null THEN node[n].next
                       ELSE IF L = {} THEN Null ELSE new_node[CHOOSE p \in L : TRUE]
    BY <1>1 DEF successor
  <1>3. successor'[n] = IF node'[n].next # Null THEN node'[n].next
                        ELSE IF L = {} THEN Null ELSE new_node'[CHOOSE p \in L : TRUE]
    BY <1>1 DEF successor
  <1>4. L # {} => (CHOOSE p \in L : TRUE) \in L
    OBVIOUS
  <1> QED
    BY <1>1, <1>2, <1>3, <1>4

\* What the invariant says of the nodes of the chain.
LEMMA ChainFacts ==
  ASSUME NEW c, TypeOK, ChainInv(c)
  PROVE  /\ c \in Seq(Nodes) /\ Len(c) \in Nat /\ IsChain(c, head, successor)
         /\ \A i \in 1 .. Len(c) : c[i] \in On(c)
         /\ \A n \in On(c) : n \in Nodes /\ node[n] \in NodeType /\ node[n] # Null
         /\ c # << >> => /\ Len(c) \in Nat \ {0} /\ 1 \in 1 .. Len(c) /\ Len(c) \in 1 .. Len(c)
                         /\ head = c[1] /\ head \in On(c)
                         /\ c[Len(c)] \in On(c) /\ successor[c[Len(c)]] = Null
         /\ c = << >> => head = Null
         /\ cpc # "destroy" => c # << >> /\ c[Len(c)] = tail
  <1>1. c \in Seq(Nodes) /\ IsChain(c, head, successor) /\ \A n \in On(c) : node[n] # Null
    BY DEF ChainInv, LiveNodes
  <1>2. Len(c) \in Nat /\ \A i \in 1 .. Len(c) : c[i] \in Nodes
    BY <1>1, LenProperties, ElementOfSeq
  <1>3. \A i \in 1 .. Len(c) : c[i] \in On(c)
    BY DEF On
  <1>4. \A n \in On(c) : n \in Nodes
    BY <1>2 DEF On
  <1>5. \A n \in On(c) : node[n] \in NodeType
    BY <1>1, <1>4 DEF TypeOK
  <1>6. c # << >> => /\ Len(c) \in Nat \ {0} /\ 1 \in 1 .. Len(c) /\ Len(c) \in 1 .. Len(c)
    BY <1>1, <1>2, EmptySeq
  <1>7. c # << >> => head = c[1] /\ successor[c[Len(c)]] = Null
    BY <1>1, <1>6 DEF IsChain
  <1>8. c = << >> => head = Null
    BY <1>1 DEF IsChain
  <1>9. cpc # "destroy" => c # << >> /\ c[Len(c)] = tail
    BY DEF ChainInv, ProducersInv
  <1> QED
    BY <1>1, <1>2, <1>3, <1>4, <1>5, <1>6, <1>7, <1>8, <1>9

\* The second node of the chain, if there is one, is what head's successor is.
LEMMA HeadNext ==
  ASSUME NEW c, TypeOK, ChainInv(c), c # << >>
  PROVE  /\ head \in Nodes /\ head \in On(c) /\ node[head] # Null /\ node[head] \in NodeType
         /\ successor[head] = IF Len(c) = 1 THEN Null ELSE c[2]
         /\ Len(c) # 1 => Len(c) > 1 /\ c[2] \in On(c) /\ c[2] # Null /\ c[2] # head
  <1>1. /\ head \in Nodes /\ head \in On(c) /\ node[head] # Null /\ node[head] \in NodeType
        /\ head = c[1] /\ 1 \in 1 .. Len(c) /\ Len(c) \in Nat \ {0}
    BY ChainFacts
  <1>2. successor[c[1]] = IF 1 = Len(c) THEN Null ELSE c[1 + 1]
    BY <1>1 DEF ChainInv, IsChain
  <1>3. Len(c) # 1 => 2 \in 1 .. Len(c) /\ Len(c) > 1
    <2>1. \A n \in Nat \ {0} : n # 1 => 2 \in 1 .. n /\ n > 1
      OBVIOUS
    <2> QED BY <2>1, <1>1
  <1>4. Len(c) # 1 => c[2] \in On(c) /\ c[2] # Null
    BY <1>3, ChainFacts, NullAssumption
  <1>5. successor[c[1]] = IF Len(c) = 1 THEN Null ELSE c[2]
    BY <1>2
  <1>6. Len(c) # 1 => c[2] # c[1]
    <2>1. \A i, j \in 1 .. Len(c) : c[i] = c[j] => i = j
      BY DEF ChainInv, IsChain
    <2> QED BY <2>1, <1>1, <1>3
  <1> QED
    BY <1>1, <1>3, <1>4, <1>5, <1>6

\* The last node has no successor stored, and nobody is about to store one.
LEMMA TailFacts ==
  ASSUME NEW c, TypeOK, ChainInv(c), cpc # "destroy"
  PROVE  node[tail].next = Null /\ Linkers(tail) = {}
  <1>1. tail \in On(c) /\ tail \in Nodes /\ node[tail] # Null /\ successor[tail] = Null
    BY ChainFacts
  <1>2. SuccessorIs(tail)
    BY <1>1, SuccessorOf
  <1>3. node[tail].next = Null
    BY <1>1, <1>2 DEF SuccessorIs
  <1>4. ASSUME NEW p \in Linkers(tail) PROVE FALSE
    <2>1. p \in Producers /\ new_node[p] \in Nodes /\ Linkers(tail) = {p}
      BY <1>4 DEF Linkers, ChainInv, ProducersInv
    <2> QED BY <2>1, <1>1, <1>2, <1>3, NullAssumption DEF SuccessorIs
  <1> QED
    BY <1>3, <1>4

\* Nodes are records of two fields.
LEMMA WithFields ==
  ASSUME NEW r \in NodeType, NEW x
  PROVE  /\ [r EXCEPT !.data = x] = [data |-> x, next |-> r.next]
         /\ [r EXCEPT !.next = x] = [data |-> r.data, next |-> x]
  BY DEF NodeType

-----------------------------------------------------------------------------
(* The producers                                                           *)

LEMMA PushHolds ==
  ASSUME IInv, NEW p \in Producers, Push(p)
  PROVE  StepHolds
  <1>1. PICK c : c = Chain
    OBVIOUS
  <1>2. TypeOK /\ ChainInv(c)
    BY <1>1 DEF IInv
  <1>3. PICK n \in Nodes, v \in Value :
          /\ node[n] = Null
          /\ node' = [node EXCEPT ![n] = [EmptyNode EXCEPT !.data = v]]
          /\ new_node' = [new_node EXCEPT ![p] = n]
    BY DEF Push
  <1>4. /\ ppc[p] = "idle" /\ ppc' = [ppc EXCEPT ![p] = "exchange"]
        /\ UNCHANGED <<count, tail, old_tail, head, cpc, call, head_ptr, next_ptr, answer, out>>
    BY DEF Push, consumer
  <1>5. PICK r : r = [data |-> v, next |-> Null]
    OBVIOUS
  <1>6. r \in NodeType /\ r # Null /\ r.next = Null /\ r.data = v
    BY <1>5, DeletedAssumption DEF NodeType
  <1>7. node'[n] = r /\ \A m \in Nodes \ {n} : node'[m] = node[m]
    BY <1>2, <1>3, <1>5 DEF TypeOK, EmptyNode
  <1>8. /\ ppc'[p] = "exchange" /\ new_node'[p] = n
        /\ \A q \in Producers \ {p} : ppc'[q] = ppc[q] /\ new_node'[q] = new_node[q]
    BY <1>2, <1>3, <1>4 DEF TypeOK
  <1>9. TypeOK'
    <2>1. node' \in [Nodes -> NodeType \cup {Null}]
      BY <1>2, <1>3, <1>6, <1>7 DEF TypeOK
    <2>2. /\ ppc' \in [Producers -> {"idle", "exchange", "link", "count", "joined"}]
          /\ new_node' \in [Producers -> Nodes \cup {Null}]
      BY <1>2, <1>3, <1>4 DEF TypeOK
    <2> QED BY <2>1, <2>2, <1>2, <1>4 DEF TypeOK
  <1>10. /\ cpc # "destroy" /\ n \notin On(c)
         /\ \A q \in Producers : ppc[q] = "exchange" => new_node[q] # n
         /\ cpc = "delete" => head_ptr # n
    BY <1>2, <1>3, <1>4 DEF ChainInv, LiveNodes, ProducersInv, ConsumerInv
  <1>11. \A m \in On(c) : /\ m \in Nodes /\ m # n /\ node[m] # Null /\ node'[m] = node[m]
                          /\ successor'[m] = successor[m]
    <2> SUFFICES ASSUME NEW m \in On(c)
                 PROVE  /\ m \in Nodes /\ m # n /\ node[m] # Null /\ node'[m] = node[m]
                        /\ successor'[m] = successor[m]
      OBVIOUS
    <2>1. m \in Nodes /\ m # n /\ node[m] # Null /\ node'[m] = node[m]
      BY <1>2, <1>7, <1>10, ChainFacts
    <2>2. Linkers(m)' = Linkers(m) /\ \A q \in Linkers(m) : new_node'[q] = new_node[q]
      BY <1>4, <1>8 DEF Linkers
    <2> QED BY <2>1, <2>2, SameSuccessor
  <1>12. \A m : Unlinked(m)' <=> Unlinked(m) \/ m = n
    BY <1>4, <1>8 DEF Unlinked
  <1>13. ChainInv(c)'
    <2>1. c \in Seq(Nodes) /\ IsChain(c, head, successor)'
      BY <1>2, <1>4, <1>11, ChainKept DEF ChainInv
    <2>2. LiveNodes(c)'
      BY <1>2, <1>4, <1>7, <1>11, <1>12 DEF ChainInv, LiveNodes
    <2>3. ProducersInv(c)'
      <3>1. \A q \in Producers : ppc[q] = "exchange" =>
              new_node[q] \in Nodes /\ new_node[q] # n /\ node'[new_node[q]] = node[new_node[q]]
        BY <1>2, <1>7, <1>10 DEF ChainInv, ProducersInv
      <3>2. /\ \A q \in Producers : ppc'[q] = "joined" <=> cpc' = "destroy"
            /\ cpc' # "destroy" => c # << >> /\ c[Len(c)] = tail'
        BY <1>2, <1>4, <1>8 DEF ChainInv, ProducersInv
      <3>3. \A q \in Producers : ppc'[q] = "exchange" =>
              /\ new_node'[q] \in Nodes \ On(c)
              /\ node'[new_node'[q]] # Null
              /\ node'[new_node'[q]].next = Null /\ node'[new_node'[q]].data \in Value
        BY <3>1, <1>2, <1>6, <1>7, <1>8, <1>10 DEF ChainInv, ProducersInv
      <3>4. \A q \in Producers : ppc'[q] = "link" =>
              /\ new_node'[q] \in Nodes
              /\ old_tail'[q] \in On(c)
              /\ node'[old_tail'[q]].next = Null
        BY <1>2, <1>4, <1>8, <1>11 DEF ChainInv, ProducersInv
      <3>5. \A q, s \in Producers : q # s /\ ppc'[q] = ppc'[s] =>
              /\ ppc'[q] = "exchange" => new_node'[q] # new_node'[s]
              /\ ppc'[q] = "link" => old_tail'[q] # old_tail'[s]
        BY <1>2, <1>4, <1>8, <1>10 DEF ChainInv, ProducersInv
      <3> QED BY <3>2, <3>3, <3>4, <3>5 DEF ProducersInv
    <2>4. ConsumerInv(c)'
      <3>1. cpc # "destroy" => node'[head] = node[head]
        BY <1>2, <1>11, ChainFacts
      <3>2. cpc = "delete" => head_ptr \in Nodes \ {n}
        BY <1>2, <1>10 DEF ChainInv, ConsumerInv
      <3> QED BY <3>1, <3>2, <1>2, <1>4, <1>7, <1>10, <1>12 DEF ChainInv, ConsumerInv
    <2>5. CountInv(c)'
      <3>1. Uncounted' = Uncounted
        BY <1>4, <1>8 DEF Uncounted
      <3> QED BY <3>1, <1>2, <1>4 DEF ChainInv, CountInv
    <2> QED BY <2>1, <2>2, <2>3, <2>4, <2>5 DEF ChainInv
  <1>14. \A i \in 1 .. Len(c) - 1 : node'[c[i + 1]].data = node[c[i + 1]].data
    <2>1. \A i \in 1 .. Len(c) - 1 : i + 1 \in 1 .. Len(c)
      BY <1>2, ChainFacts
    <2> QED BY <2>1, <1>2, <1>11, ChainFacts
  <1> QED
    BY <1>2, <1>4, <1>9, <1>10, <1>13, <1>14, Unseen

\* The exchange decides the order of the pushes: the node is the last of the
\* chain from then on, although nothing points to it yet.
LEMMA ExchangeHolds ==
  ASSUME IInv, NEW p \in Producers, Exchange(p)
  PROVE  StepHolds
  <1>1. PICK c : c = Chain
    OBVIOUS
  <1>2. TypeOK /\ ChainInv(c)
    BY <1>1 DEF IInv
  <1>3. /\ ppc[p] = "exchange" /\ ppc' = [ppc EXCEPT ![p] = "link"]
        /\ old_tail' = [old_tail EXCEPT ![p] = tail] /\ tail' = new_node[p]
        /\ UNCHANGED <<node, count, new_node, head, cpc, call, head_ptr, next_ptr, answer, out>>
    BY DEF Exchange, consumer
  <1>4. PICK n : n = new_node[p]
    OBVIOUS
  <1>5. /\ n \in Nodes \ On(c) /\ node[n] # Null /\ node[n].next = Null /\ node[n].data \in Value
        /\ cpc # "destroy"
    BY <1>2, <1>3, <1>4 DEF ChainInv, ProducersInv
  <1>6. /\ ppc'[p] = "link" /\ old_tail'[p] = tail
        /\ \A q \in Producers \ {p} : ppc'[q] = ppc[q] /\ old_tail'[q] = old_tail[q]
    BY <1>2, <1>3 DEF TypeOK
  <1>7. TypeOK'
    <2>1. /\ ppc' \in [Producers -> {"idle", "exchange", "link", "count", "joined"}]
          /\ old_tail' \in [Producers -> Nodes \cup {Null}]
      BY <1>2, <1>3 DEF TypeOK
    <2> QED BY <2>1, <1>2, <1>3, <1>4, <1>5 DEF TypeOK
  <1>8. /\ c # << >> /\ c[Len(c)] = tail /\ tail \in On(c) /\ tail \in Nodes /\ tail # n
        /\ node[tail] # Null /\ node[tail].next = Null /\ Linkers(tail) = {}
    BY <1>2, <1>5, ChainFacts, TailFacts
  <1>9. /\ \A m \in On(c) \ {c[Len(c)]} : successor'[m] = successor[m]
        /\ successor'[c[Len(c)]] = n /\ successor'[n] = Null
    <2>1. ASSUME NEW m \in On(c) \ {tail} PROVE successor'[m] = successor[m]
      <3>1. m \in Nodes /\ node[m] # Null
        BY <1>2, ChainFacts
      <3>2. Linkers(m)' = Linkers(m)
        BY <1>3, <1>6 DEF Linkers
      <3> QED BY <3>1, <3>2, <1>3, SameSuccessor
    <2>2. PICK t \in Nodes : t = tail
      BY <1>8
    <2>3. successor'[t] = n
      <3>1. Linkers(t)' = {p}
        BY <2>2, <1>6, <1>8 DEF Linkers
      <3> QED BY <3>1, <2>2, <1>3, <1>4, <1>8, SuccessorOfNext DEF SuccessorIs
    <2>4. Linkers(n)' = {}
      BY <1>2, <1>5, <1>6, <1>8 DEF Linkers, ChainInv, ProducersInv
    <2>5. successor'[n] = Null
      BY <2>4, <1>3, <1>5, SuccessorOfNext DEF SuccessorIs
    <2> QED BY <2>1, <2>2, <2>3, <2>5, <1>8
  <1>10. PICK d : d = Append(c, n)
    OBVIOUS
  <1>11. /\ d \in Seq(Nodes) /\ IsChain(d, head, successor)' /\ On(d) = On(c) \cup {n}
         /\ Len(d) = Len(c) + 1
         /\ \A i \in 1 .. Len(c) : d[i] = c[i]
         /\ d[Len(c) + 1] = n
         /\ d # << >>
    <2>1. c \in Seq(Nodes) /\ IsChain(c, head, successor)
      BY <1>2 DEF ChainInv
    <2>2. head' = head /\ c # << >> /\ n \in Nodes \ On(c)
      BY <1>3, <1>5, <1>8
    <2>3. PICK new : new = successor'
      OBVIOUS
    <2>4. /\ \A m \in On(c) \ {c[Len(c)]} : new[m] = successor[m]
          /\ new[c[Len(c)]] = n /\ new[n] = Null
      BY <2>3, <1>9
    <2>5. /\ Append(c, n) \in Seq(Nodes) /\ Append(c, n) # << >>
          /\ IsChain(Append(c, n), head, new)
          /\ On(Append(c, n)) = On(c) \cup {n}
          /\ Len(Append(c, n)) = Len(c) + 1
          /\ \A i \in 1 .. Len(c) : Append(c, n)[i] = c[i]
          /\ Append(c, n)[Len(c) + 1] = n
      BY <2>1, <2>2, <2>4, ChainAppended
    <2> QED BY <2>2, <2>3, <2>5, <1>10
  <1>12. \A m : Unlinked(m)' <=> Unlinked(m) /\ m # n
    BY <1>2, <1>3, <1>4, <1>6 DEF Unlinked, ChainInv, ProducersInv
  <1>13. ChainInv(d)'
    <2>1. LiveNodes(d)'
      BY <1>2, <1>3, <1>5, <1>11, <1>12 DEF ChainInv, LiveNodes
    <2>2. ProducersInv(d)'
      <3>1. /\ \A q \in Producers : ppc'[q] = "joined" <=> cpc' = "destroy"
            /\ d[Len(d)] = tail'
        BY <1>2, <1>3, <1>4, <1>6, <1>11 DEF ChainInv, ProducersInv
      <3>2. \A q \in Producers : ppc'[q] = "exchange" =>
              /\ new_node[q] \in Nodes \ On(d)
              /\ node[new_node[q]] # Null
              /\ node[new_node[q]].next = Null /\ node[new_node[q]].data \in Value
        BY <1>2, <1>3, <1>4, <1>6, <1>11 DEF ChainInv, ProducersInv
      <3>3. \A q \in Producers : ppc'[q] = "link" =>
              /\ new_node[q] \in Nodes
              /\ old_tail'[q] \in On(d)
              /\ node[old_tail'[q]].next = Null
        BY <1>2, <1>4, <1>5, <1>6, <1>8, <1>11 DEF ChainInv, ProducersInv
      <3>4. \A q \in Producers : ppc[q] = "link" => old_tail[q] # tail
        BY <1>8 DEF Linkers
      <3>5. \A q, s \in Producers : q # s /\ ppc'[q] = ppc'[s] =>
              /\ ppc'[q] = "exchange" => new_node[q] # new_node[s]
              /\ ppc'[q] = "link" => old_tail'[q] # old_tail'[s]
        BY <3>4, <1>2, <1>6 DEF ChainInv, ProducersInv
      <3> QED BY <3>1, <3>2, <3>3, <3>5, <1>3, <1>11 DEF ProducersInv
    <2>3. ConsumerInv(d)'
      <3>1. PICK x : x = head_ptr
        OBVIOUS
      <3>2. cpc = "delete" => ~ Unlinked(x)' /\ x # n
        <4>1. Unlinked(n)
          BY <1>3, <1>4 DEF Unlinked
        <4> QED BY <3>1, <4>1, <1>2, <1>12 DEF ChainInv, ConsumerInv
      <3> QED BY <3>1, <3>2, <1>2, <1>3, <1>11 DEF ChainInv, ConsumerInv, Unlinked
    <2>4. CountInv(d)'
      <3>1. Uncounted' = Uncounted \cup {p} /\ p \notin Uncounted
        BY <1>3, <1>6 DEF Uncounted
      <3>2. IsFiniteSet(Uncounted)
        BY ProducersAssumption, FS_Subset DEF Uncounted
      <3>3. Cardinality(Uncounted') = Cardinality(Uncounted) + 1 /\ Cardinality(Uncounted) \in Nat
        BY <3>1, <3>2, FS_AddElement, FS_CardinalityType
      <3>4. Len(d) - 1 - Cardinality(Uncounted') = Len(c) - 1 - Cardinality(Uncounted)
        BY <3>3, <1>2, <1>11, ChainFacts
      <3> QED BY <3>4, <1>2, <1>3 DEF ChainInv, CountInv
    <2> QED BY <1>11, <2>1, <2>2, <2>3, <2>4 DEF ChainInv
  <1>14. Items' = Append(Items, node[n].data) /\ Len(Items) \in Nat
    <2>1. Items' = [i \in 1 .. Len(c) |-> node[d[i + 1]].data]
      <3>1. Items' = [i \in 1 .. Len(d) - 1 |-> node[d[i + 1]].data]
        BY <1>3, <1>5, <1>7, <1>13, ChainOfNext DEF ItemsOf
      <3>2. Len(d) - 1 = Len(c)
        BY <1>2, <1>11, ChainFacts
      <3> QED BY <3>1, <3>2
    <2>2. Items = [i \in 1 .. Len(c) - 1 |-> node[c[i + 1]].data]
      BY <1>2, <1>5, ChainOf DEF Items, ItemsOf
    <2>3. Len(c) \in Nat \ {0} /\ \A i \in 1 .. Len(c) - 1 : i + 1 \in 1 .. Len(c)
      BY <1>2, <1>8, ChainFacts
    <2>4. \A i \in 1 .. Len(c) - 1 : node[c[i + 1]].data \in Value \cup {NoValue}
      BY <2>3, <1>2, ChainFacts DEF NodeType
    <2>5. /\ Items \in Seq(Value \cup {NoValue}) /\ Len(Items) = Len(c) - 1
          /\ \A i \in 1 .. Len(c) - 1 : Items[i] = node[c[i + 1]].data
      BY <2>2, <2>3, <2>4
    <2> HIDE DEF Items
    <2>6. Append(Items, node[n].data)
            = [i \in 1 .. Len(c) |-> IF i <= Len(Items) THEN Items[i] ELSE node[n].data]
      <3>1. Len(Items) + 1 = Len(c)
        BY <2>3, <2>5
      <3>2. Append(Items, node[n].data)
              = [i \in 1 .. Len(Items) + 1 |-> IF i <= Len(Items) THEN Items[i] ELSE node[n].data]
        BY <2>5, AppendIs
      <3> QED BY <3>1, <3>2
    <2>7. \A i \in 1 .. Len(c) :
            node[d[i + 1]].data = IF i <= Len(Items) THEN Items[i] ELSE node[n].data
      BY <2>3, <2>5, <1>11
    <2>8. Items' = Append(Items, node[n].data)
      BY <2>1, <2>6, <2>7, Zenon
    <2> QED BY <2>3, <2>5, <2>8
  <1>15. Fifo!Push(node[n].data)
    BY <1>3, <1>14 DEF Fifo!Push
  <1> QED
    BY <1>5, <1>7, <1>13, <1>15, ChainOfNext DEF StepHolds, Fifo!Next

\* The store makes the successor what it was all along to the chain.
LEMMA LinkHolds ==
  ASSUME IInv, NEW p \in Producers, Link(p)
  PROVE  StepHolds
  <1>1. PICK c : c = Chain
    OBVIOUS
  <1>2. TypeOK /\ ChainInv(c)
    BY <1>1 DEF IInv
  <1>3. PICK o, x : o = old_tail[p] /\ x = new_node[p]
    OBVIOUS
  <1>4. /\ ppc[p] = "link" /\ ppc' = [ppc EXCEPT ![p] = "count"]
        /\ node' = [node EXCEPT ![o].next = x]
        /\ UNCHANGED <<count, tail, new_node, old_tail, head, cpc, call, head_ptr, next_ptr,
                        answer, out>>
    BY <1>3 DEF Link, consumer
  <1>5. /\ x \in Nodes /\ x # Null /\ o \in On(c) /\ node[o].next = Null
        /\ cpc # "destroy"
        /\ \A q \in Producers \ {p} : ppc[q] = "link" => old_tail[q] # o
    BY <1>2, <1>3, <1>4, NullAssumption DEF ChainInv, ProducersInv
  <1>6. o \in Nodes /\ node[o] \in NodeType /\ node[o] # Null
    BY <1>2, <1>5, ChainFacts
  <1>7. /\ node'[o] = [data |-> node[o].data, next |-> x]
        /\ \A m \in Nodes \ {o} : node'[m] = node[m]
    <2>1. /\ node'[o] = [node[o] EXCEPT !.next = x]
          /\ \A m \in Nodes \ {o} : node'[m] = node[m]
      BY <1>2, <1>4, <1>6 DEF TypeOK
    <2> QED BY <2>1, <1>6, WithFields
  <1>8. /\ node'[o] \in NodeType /\ node'[o] # Null
        /\ node'[o].next = x /\ node'[o].data = node[o].data
    BY <1>5, <1>6, <1>7, DeletedAssumption DEF NodeType
  <1>9. /\ ppc'[p] = "count"
        /\ \A q \in Producers \ {p} : ppc'[q] = ppc[q]
    BY <1>2, <1>4 DEF TypeOK
  <1>10. TypeOK'
    <2>1. node' \in [Nodes -> NodeType \cup {Null}]
      BY <1>2, <1>4, <1>7, <1>8 DEF TypeOK
    <2>2. ppc' \in [Producers -> {"idle", "exchange", "link", "count", "joined"}]
      BY <1>2, <1>4 DEF TypeOK
    <2> QED BY <2>1, <2>2, <1>2, <1>4 DEF TypeOK
  <1>11. \A m \in On(c) : node'[m] # Null /\ successor'[m] = successor[m]
    <2> SUFFICES ASSUME NEW m \in On(c)
                 PROVE  node'[m] # Null /\ successor'[m] = successor[m]
      OBVIOUS
    <2>1. m \in Nodes /\ node[m] # Null /\ node'[m] # Null
      BY <1>2, <1>7, <1>8, ChainFacts
    <2>2. CASE m = o
      <3>1. Linkers(m) = {p}
        BY <2>2, <1>3, <1>4, <1>5 DEF Linkers
      <3>2. successor[m] = x
        BY <3>1, <2>1, <2>2, <1>3, <1>5, SuccessorOf DEF SuccessorIs
      <3>3. successor'[m] = x
        BY <2>1, <2>2, <1>5, <1>8, SuccessorOfNext DEF SuccessorIs
      <3> QED BY <3>2, <3>3, <2>1
    <2>3. CASE m # o
      <3>1. Linkers(m)' = Linkers(m)
        BY <2>3, <1>3, <1>4, <1>9 DEF Linkers
      <3> QED BY <3>1, <2>1, <2>3, <1>4, <1>7, SameSuccessor
    <2> QED BY <2>2, <2>3
  <1>12. \A m : Unlinked(m)' <=> Unlinked(m)
    BY <1>4, <1>9 DEF Unlinked
  <1>13. ChainInv(c)'
    <2>1. c \in Seq(Nodes) /\ IsChain(c, head, successor)'
      BY <1>2, <1>4, <1>11, ChainKept DEF ChainInv
    <2>2. LiveNodes(c)'
      <3>1. \A m \in Nodes : node'[m] # Null => node[m] # Null
        BY <1>6, <1>7
      <3> QED BY <3>1, <1>2, <1>4, <1>11, <1>12 DEF ChainInv, LiveNodes
    <2>3. ProducersInv(c)'
      <3>1. /\ \A q \in Producers : ppc'[q] = "joined" <=> cpc' = "destroy"
            /\ cpc' # "destroy" => c # << >> /\ c[Len(c)] = tail'
        BY <1>2, <1>4, <1>9 DEF ChainInv, ProducersInv
      <3>2. \A q \in Producers : ppc'[q] = "exchange" =>
              /\ new_node[q] \in Nodes \ On(c)
              /\ node'[new_node[q]] # Null
              /\ node'[new_node[q]].next = Null /\ node'[new_node[q]].data \in Value
        BY <1>2, <1>5, <1>7, <1>9 DEF ChainInv, ProducersInv
      <3>3. \A q \in Producers : ppc'[q] = "link" =>
              /\ new_node[q] \in Nodes
              /\ old_tail[q] \in On(c)
              /\ node'[old_tail[q]].next = Null
        <4> SUFFICES ASSUME NEW q \in Producers, ppc'[q] = "link"
                     PROVE  /\ new_node[q] \in Nodes
                            /\ old_tail[q] \in On(c)
                            /\ node'[old_tail[q]].next = Null
          OBVIOUS
        <4>1. ppc[q] = "link" /\ q # p
          BY <1>9
        <4>2. /\ new_node[q] \in Nodes /\ old_tail[q] \in On(c) /\ old_tail[q] # o
              /\ node[old_tail[q]].next = Null
          BY <4>1, <1>2, <1>5 DEF ChainInv, ProducersInv
        <4>3. old_tail[q] \in Nodes
          BY <4>2, <1>2, ChainFacts
        <4> QED BY <4>2, <4>3, <1>7
      <3>4. \A q, s \in Producers : q # s /\ ppc'[q] = ppc'[s] =>
              /\ ppc'[q] = "exchange" => new_node[q] # new_node[s]
              /\ ppc'[q] = "link" => old_tail[q] # old_tail[s]
        BY <1>2, <1>9 DEF ChainInv, ProducersInv
      <3> QED BY <3>1, <3>2, <3>3, <3>4, <1>4 DEF ProducersInv
    <2>4. ConsumerInv(c)'
      <3>1. head \in Nodes
        BY <1>2, <1>5, ChainFacts
      <3>2. cpc = "take" => node'[head] = node[head]
        BY <3>1, <1>2, <1>5, <1>7, NullAssumption DEF ChainInv, ConsumerInv
      <3>3. cpc = "delete" => head_ptr # o
        BY <1>2, <1>5 DEF ChainInv, ConsumerInv
      <3>4. PICK y : y = head_ptr
        OBVIOUS
      <3>5. cpc = "delete" => ~ Unlinked(y)'
        BY <3>4, <1>2, <1>12 DEF ChainInv, ConsumerInv
      <3> QED BY <3>2, <3>3, <3>4, <3>5, <1>2, <1>4, <1>7 DEF ChainInv, ConsumerInv, Unlinked
    <2>5. CountInv(c)'
      <3>1. Uncounted' = Uncounted
        BY <1>4, <1>9 DEF Uncounted
      <3> QED BY <3>1, <1>2, <1>4 DEF ChainInv, CountInv
    <2> QED BY <2>1, <2>2, <2>3, <2>4, <2>5 DEF ChainInv
  <1>14. \A i \in 1 .. Len(c) - 1 : node'[c[i + 1]].data = node[c[i + 1]].data
    <2>1. \A i \in 1 .. Len(c) - 1 : i + 1 \in 1 .. Len(c)
      BY <1>2, ChainFacts
    <2>2. \A m \in Nodes : node'[m].data = node[m].data
      BY <1>7, <1>8
    <2> QED BY <2>1, <2>2, <1>2, ChainFacts
  <1> QED
    BY <1>2, <1>4, <1>5, <1>10, <1>13, <1>14, Unseen

LEMMA CountHolds ==
  ASSUME IInv, NEW p \in Producers, Count(p)
  PROVE  StepHolds
  <1>1. PICK c : c = Chain
    OBVIOUS
  <1>2. TypeOK /\ ChainInv(c)
    BY <1>1 DEF IInv
  <1>3. /\ ppc[p] = "count" /\ ppc' = [ppc EXCEPT ![p] = "idle"]
        /\ count' = (count + 1) % SizeMod
        /\ new_node' = [new_node EXCEPT ![p] = Null]
        /\ old_tail' = [old_tail EXCEPT ![p] = Null]
        /\ UNCHANGED <<node, tail, head, cpc, call, head_ptr, next_ptr, answer, out>>
    BY DEF Count, consumer
  <1>4. /\ ppc'[p] = "idle"
        /\ \A q \in Producers \ {p} : /\ ppc'[q] = ppc[q] /\ new_node'[q] = new_node[q]
                                     /\ old_tail'[q] = old_tail[q]
    BY <1>2, <1>3 DEF TypeOK
  <1>5. cpc # "destroy"
    BY <1>2, <1>3 DEF ChainInv, ProducersInv
  <1>6. TypeOK'
    <2>1. /\ ppc' \in [Producers -> {"idle", "exchange", "link", "count", "joined"}]
          /\ new_node' \in [Producers -> Nodes \cup {Null}]
          /\ old_tail' \in [Producers -> Nodes \cup {Null}]
      BY <1>2, <1>3 DEF TypeOK
    <2>2. count' \in 0 .. SizeMod - 1
      BY <1>2, <1>3, DivMod DEF TypeOK
    <2> QED BY <2>1, <2>2, <1>2, <1>3 DEF TypeOK
  <1>7. \A m \in On(c) : successor'[m] = successor[m]
    <2> SUFFICES ASSUME NEW m \in On(c) PROVE successor'[m] = successor[m]
      OBVIOUS
    <2>1. m \in Nodes /\ node[m] # Null
      BY <1>2, ChainFacts
    <2>2. Linkers(m)' = Linkers(m) /\ \A q \in Linkers(m) : new_node'[q] = new_node[q]
      BY <1>3, <1>4 DEF Linkers
    <2> QED BY <2>1, <2>2, <1>3, SameSuccessor
  <1>8. \A m : Unlinked(m)' <=> Unlinked(m)
    BY <1>3, <1>4 DEF Unlinked
  <1>9. ChainInv(c)'
    <2>1. c \in Seq(Nodes) /\ IsChain(c, head, successor)'
      BY <1>2, <1>3, <1>7, ChainKept DEF ChainInv
    <2>2. LiveNodes(c)'
      BY <1>2, <1>3, <1>8 DEF ChainInv, LiveNodes
    <2>3. ProducersInv(c)'
      BY <1>2, <1>3, <1>4, <1>5 DEF ChainInv, ProducersInv
    <2>4. ConsumerInv(c)'
      <3>1. PICK y : y = head_ptr
        OBVIOUS
      <3>2. cpc = "delete" => ~ Unlinked(y)'
        BY <3>1, <1>2, <1>8 DEF ChainInv, ConsumerInv
      <3> QED BY <3>1, <3>2, <1>2, <1>3 DEF ChainInv, ConsumerInv, Unlinked
    <2>5. CountInv(c)'
      <3>1. Uncounted' = Uncounted \ {p} /\ p \in Uncounted
        BY <1>3, <1>4 DEF Uncounted
      <3>2. IsFiniteSet(Uncounted)
        BY ProducersAssumption, FS_Subset DEF Uncounted
      <3>3. Cardinality(Uncounted') = Cardinality(Uncounted) - 1 /\ Cardinality(Uncounted) \in Nat
        BY <3>1, <3>2, FS_RemoveElement, FS_CardinalityType
      <3>4. PICK y \in Int : y = Len(c) - 1 - Cardinality(Uncounted)
                                 + IF cpc \in {"delete", "uncount"} THEN 1 ELSE 0
        BY <3>3, <1>2, ChainFacts
      <3>5. Len(c) - 1 - Cardinality(Uncounted')
                                 + (IF cpc \in {"delete", "uncount"} THEN 1 ELSE 0) = y + 1
        BY <3>3, <3>4, <1>2, ChainFacts
      <3>6. count = y % SizeMod
        BY <3>4, <1>2, <1>5 DEF ChainInv, CountInv
      <3>7. count' = (y + 1) % SizeMod
        BY <3>6, <1>3, CountResidue
      <3> QED BY <3>5, <3>7, <1>3 DEF CountInv
    <2> QED BY <2>1, <2>2, <2>3, <2>4, <2>5 DEF ChainInv
  <1> QED
    BY <1>2, <1>3, <1>5, <1>6, <1>9, Unseen
-----------------------------------------------------------------------------
(* The consumer                                                            *)

\* A chain, what is live, and the producers, when none of them changes.
LEMMA SameChain ==
  ASSUME NEW c, ChainInv(c), UNCHANGED <<node, head, tail, ppc, new_node, old_tail>>,
         cpc # "delete", cpc # "destroy", cpc' # "destroy"
  PROVE  /\ c \in Seq(Nodes) /\ IsChain(c, head, successor)' /\ LiveNodes(c)'
         /\ ProducersInv(c)' /\ Uncounted' = Uncounted
  <1>1. c \in Seq(Nodes) /\ IsChain(c, head, successor)'
    <2>1. successor' = successor
      BY DEF successor, Linkers
    <2> QED BY <2>1 DEF ChainInv
  <1>2. LiveNodes(c)'
    BY DEF ChainInv, LiveNodes, Unlinked
  <1>3. ProducersInv(c)'
    BY DEF ChainInv, ProducersInv
  <1>4. Uncounted' = Uncounted
    BY DEF Uncounted
  <1> QED
    BY <1>1, <1>2, <1>3, <1>4

\* A step of a call that changes nothing but what the consumer knows, and goes
\* on to the element only with the successor that head has stored.
LEMMA LookHolds ==
  ASSUME IInv, UNCHANGED <<node, count, head, out, producers>>,
         cpc \in {"idle", "load_next", "load_tail", "spin"},
         cpc' \in {"idle", "load_next", "load_tail", "spin", "take"},
         call' \in {"try_pop", "wait_and_pop", "empty"},
         answer' \in {"none", "empty", "filled"},
         head_ptr' \in {Null, head_ptr, head}, next_ptr' \in {next_ptr, node[head].next},
         cpc' \in {"load_tail", "spin", "take"} => head_ptr' = head,
         cpc' = "take" => next_ptr' # Null /\ next_ptr' = node[head].next
  PROVE  StepHolds
  <1>1. PICK c : c = Chain
    OBVIOUS
  <1>2. TypeOK /\ ChainInv(c)
    BY <1>1 DEF IInv
  <1>3. UNCHANGED <<node, count, head, out, tail, ppc, new_node, old_tail>>
    BY DEF producers
  <1>4. c # << >> /\ head \in Nodes /\ node[head].next \in Nodes \cup {Null}
    BY <1>2, ChainFacts DEF NodeType
  <1>5. TypeOK'
    <2>1. head_ptr' \in Nodes \cup {Null} /\ next_ptr' \in Nodes \cup {Null}
      BY <1>2, <1>4 DEF TypeOK
    <2> QED BY <2>1, <1>2, <1>3 DEF TypeOK
  <1>6. ChainInv(c)'
    <2>1. /\ c \in Seq(Nodes) /\ IsChain(c, head, successor)' /\ LiveNodes(c)'
          /\ ProducersInv(c)' /\ Uncounted' = Uncounted
      BY <1>2, <1>3, SameChain
    <2>2. ConsumerInv(c)'
      BY <1>3 DEF ConsumerInv
    <2>3. CountInv(c)'
      BY <2>1, <1>2, <1>3 DEF ChainInv, CountInv
    <2> QED BY <2>1, <2>2, <2>3 DEF ChainInv
  <1> QED
    BY <1>2, <1>3, <1>5, <1>6, Unseen

LEMMA CallHolds ==
  ASSUME IInv, TryPop \/ WaitAndPop \/ Empty
  PROVE  StepHolds
  BY LookHolds DEF TryPop, WaitAndPop, Empty, Call

LEMMA LoadNextHolds ==
  ASSUME IInv, LoadNext
  PROVE  StepHolds
  <1>1. /\ cpc = "load_next"
        /\ UNCHANGED <<node, count, head, out, producers>> /\ call' = call
        /\ call \in {"try_pop", "wait_and_pop", "empty"} /\ answer \in {"none", "empty", "filled"}
    BY DEF LoadNext, IInv, TypeOK
  <1>2. CASE node[head].next = Null /\ cpc' = "load_tail" /\ head_ptr' = head
             /\ UNCHANGED <<next_ptr, answer>>
    BY <1>1, <1>2, LookHolds
  <1>3. CASE cpc' = "idle" /\ answer' = "filled" /\ UNCHANGED <<head_ptr, next_ptr>>
    BY <1>1, <1>3, LookHolds
  <1>4. CASE node[head].next # Null /\ cpc' = "take" /\ head_ptr' = head
             /\ next_ptr' = node[head].next /\ UNCHANGED answer
    BY <1>1, <1>4, LookHolds
  <1> QED
    BY <1>2, <1>3, <1>4 DEF LoadNext

LEMMA LoadTailHolds ==
  ASSUME IInv, LoadTail
  PROVE  StepHolds
  <1>1. /\ cpc = "load_tail"
        /\ UNCHANGED <<node, count, head, out, producers>> /\ call' = call /\ next_ptr' = next_ptr
        /\ call \in {"try_pop", "wait_and_pop", "empty"}
        /\ cpc' \in {"spin", "load_next", "idle"} /\ answer' \in {"none", "empty", "filled"}
        /\ head_ptr' = IF cpc' = "spin" THEN head_ptr ELSE Null
    BY DEF LoadTail, IInv, TypeOK
  <1>2. head_ptr = head
    BY <1>1 DEF IInv, ChainInv, ConsumerInv
  <1> QED
    BY <1>1, <1>2, LookHolds

LEMMA SpinHolds ==
  ASSUME IInv, Spin
  PROVE  StepHolds
  <1>1. /\ cpc = "spin" /\ cpc' = "take" /\ node[head_ptr].next # Null
        /\ next_ptr' = node[head_ptr].next
        /\ UNCHANGED <<node, count, head, out, producers>>
        /\ call' = call /\ answer' = answer /\ head_ptr' = head_ptr
        /\ call \in {"try_pop", "wait_and_pop", "empty"} /\ answer \in {"none", "empty", "filled"}
    BY DEF Spin, IInv, TypeOK
  <1>2. head_ptr = head
    BY <1>1 DEF IInv, ChainInv, ConsumerInv
  <1> QED
    BY <1>1, <1>2, LookHolds

\* The counter comes down with the element that it still counted.
LEMMA UncountHolds ==
  ASSUME IInv, Uncount
  PROVE  StepHolds
  <1>1. PICK c : c = Chain
    OBVIOUS
  <1>2. TypeOK /\ ChainInv(c)
    BY <1>1 DEF IInv
  <1>3. /\ cpc = "uncount" /\ cpc' = "idle" /\ count' = (count - 1) % SizeMod
        /\ head_ptr' = Null /\ next_ptr' = Null
        /\ UNCHANGED <<node, head, call, answer, out, tail, ppc, new_node, old_tail>>
    BY DEF Uncount, producers
  <1>4. TypeOK'
    <2>1. count' \in 0 .. SizeMod - 1
      BY <1>2, <1>3, DivMod DEF TypeOK
    <2> QED BY <2>1, <1>2, <1>3 DEF TypeOK
  <1>5. ChainInv(c)'
    <2>1. /\ c \in Seq(Nodes) /\ IsChain(c, head, successor)' /\ LiveNodes(c)'
          /\ ProducersInv(c)' /\ Uncounted' = Uncounted
      BY <1>2, <1>3, SameChain
    <2>2. ConsumerInv(c)'
      BY <1>3 DEF ConsumerInv
    <2>3. CountInv(c)'
      <3>1. Cardinality(Uncounted) \in Nat /\ Len(c) \in Nat
        BY <1>2, ProducersAssumption, FS_Subset, FS_CardinalityType, ChainFacts DEF Uncounted
      <3>2. PICK y \in Int : y = Len(c) - 1 - Cardinality(Uncounted)
        BY <3>1
      <3>3. count = (y + 1) % SizeMod
        BY <3>2, <1>2, <1>3 DEF ChainInv, CountInv
      <3>4. count' = (y + 1 + (-1)) % SizeMod
        <4>1. PICK z \in Int : z = y + 1
          OBVIOUS
        <4>2. ((z % SizeMod) + (-1)) % SizeMod = (z + (-1)) % SizeMod
          BY CountResidue
        <4>3. count \in Int
          BY <1>2 DEF TypeOK
        <4>4. count + (-1) = count - 1
          BY <4>3
        <4> QED BY <4>1, <4>2, <4>4, <3>3, <1>3
      <3>5. y + 1 + (-1) = Len(c) - 1 - Cardinality(Uncounted') + 0
        BY <2>1, <3>1, <3>2
      <3> QED BY <3>4, <3>5, <1>3 DEF CountInv
    <2> QED BY <2>1, <2>2, <2>3 DEF ChainInv
  <1> QED
    BY <1>2, <1>3, <1>4, <1>5, Unseen
\* head moves to its successor, whose element is taken; the element was the
\* oldest.  The node that head leaves has its successor stored, so nobody is
\* about to link to it.
LEMMA TakeDataHolds ==
  ASSUME IInv, TakeData
  PROVE  StepHolds
  <1>1. PICK c : c = Chain
    OBVIOUS
  <1>2. TypeOK /\ ChainInv(c)
    BY <1>1 DEF IInv
  <1>3. /\ cpc = "take" /\ cpc' = "delete"
        /\ out' = node[next_ptr].data
        /\ node' = [node EXCEPT ![next_ptr].data = NoValue]
        /\ head' = next_ptr
        /\ UNCHANGED <<count, call, head_ptr, next_ptr, answer, tail, ppc, new_node, old_tail>>
    BY DEF TakeData, producers
  <1>4. /\ c # << >> /\ c[Len(c)] = tail /\ head_ptr = head
        /\ next_ptr # Null /\ node[head].next = next_ptr
    BY <1>2, <1>3, ChainFacts DEF ChainInv, ConsumerInv
  <1>5. /\ head \in Nodes /\ head \in On(c) /\ node[head] # Null
        /\ successor[head] = next_ptr /\ next_ptr = c[2] /\ Len(c) > 1
        /\ next_ptr \in On(c) /\ next_ptr \in Nodes /\ next_ptr # head
        /\ node[next_ptr] \in NodeType /\ node[next_ptr] # Null
    <2>1. /\ head \in Nodes /\ head \in On(c) /\ node[head] # Null
          /\ successor[head] = IF Len(c) = 1 THEN Null ELSE c[2]
          /\ Len(c) # 1 => Len(c) > 1 /\ c[2] \in On(c) /\ c[2] # Null /\ c[2] # head
      BY <1>2, <1>4, HeadNext
    <2>2. successor[head] = next_ptr
      BY <2>1, <1>4, SuccessorOf DEF SuccessorIs
    <2>3. Len(c) # 1
      BY <2>1, <2>2, <1>4
    <2> QED BY <2>1, <2>2, <2>3, <1>2, ChainFacts
  <1>6. PICK t \in Nodes : t = next_ptr
    BY <1>5
  <1>7. /\ node'[t] = [data |-> NoValue, next |-> node[t].next]
        /\ \A m \in Nodes \ {t} : node'[m] = node[m]
    <2>1. /\ node'[t] = [node[t] EXCEPT !.data = NoValue]
          /\ \A m \in Nodes \ {t} : node'[m] = node[m]
      BY <1>2, <1>3, <1>6 DEF TypeOK
    <2> QED BY <2>1, <1>5, <1>6, WithFields
  <1>8. /\ node'[t] \in NodeType /\ node'[t] # Null /\ node'[t].next = node[t].next
    BY <1>5, <1>6, <1>7, DeletedAssumption DEF NodeType
  <1>9. TypeOK'
    <2>1. node' \in [Nodes -> NodeType \cup {Null}]
      BY <1>2, <1>3, <1>6, <1>7, <1>8 DEF TypeOK
    <2>2. out' \in Value \cup {NoValue}
      BY <1>3, <1>5 DEF NodeType
    <2> QED BY <2>1, <2>2, <1>2, <1>3, <1>5 DEF TypeOK
  <1>10. PICK d : d = Tail(c)
    OBVIOUS
  <1>11. \A m \in On(c) : node'[m] # Null /\ node'[m].next = node[m].next /\ successor'[m] = successor[m]
    <2> SUFFICES ASSUME NEW m \in On(c)
                 PROVE  node'[m] # Null /\ node'[m].next = node[m].next /\ successor'[m] = successor[m]
      OBVIOUS
    <2>1. m \in Nodes /\ node[m] # Null
      BY <1>2, ChainFacts
    <2>2. node'[m] # Null /\ node'[m].next = node[m].next
      BY <2>1, <1>7, <1>8
    <2>3. Linkers(m)' = Linkers(m) /\ \A q \in Linkers(m) : new_node'[q] = new_node[q]
      BY <1>3 DEF Linkers
    <2> QED BY <2>1, <2>2, <2>3, SameSuccessor
  <1>12. /\ d \in Seq(Nodes) /\ IsChain(d, head, successor)' /\ On(d) = On(c) \ {head}
         /\ Len(d) = Len(c) - 1
         /\ \A i \in 1 .. Len(c) - 1 : d[i] = c[i + 1]
    <2>1. c \in Seq(Nodes) /\ IsChain(c, head, successor)
      BY <1>2 DEF ChainInv
    <2>2. PICK new : new = successor'
      OBVIOUS
    <2>3. \A m \in On(c) \ {head} : new[m] = successor[m]
      BY <2>2, <1>11
    <2>4. /\ Tail(c) \in Seq(Nodes) /\ IsChain(Tail(c), successor[head], new)
          /\ On(Tail(c)) = On(c) \ {head} /\ Len(Tail(c)) = Len(c) - 1
          /\ \A i \in 1 .. Len(c) - 1 : Tail(c)[i] = c[i + 1]
      BY <2>1, <2>3, <1>4, ChainShortened
    <2> QED BY <2>2, <2>4, <1>3, <1>5, <1>10
  <1>13. Len(c) \in Nat /\ d # << >> /\ d[Len(d)] = c[Len(c)]
    <2>1. Len(c) \in Nat
      BY <1>2, ChainFacts
    <2>2. Len(c) - 1 \in 1 .. Len(c) - 1 /\ Len(d) # 0
      BY <2>1, <1>5, <1>12
    <2> QED BY <2>1, <2>2, <1>12, EmptySeq
  <1>14. ~ Unlinked(head)
    BY <1>2, <1>5 DEF Unlinked, ChainInv, ProducersInv
  <1>15. \A q \in Producers : ppc[q] = "link" => old_tail[q] \in On(d)
    BY <1>2, <1>4, <1>12 DEF ChainInv, ProducersInv
  <1>16. ChainInv(d)'
    <2>1. LiveNodes(d)'
      <3>1. \A m \in Nodes : node'[m] # Null => m \in On(c) \/ Unlinked(m)
        BY <1>2, <1>3, <1>5, <1>6, <1>7 DEF ChainInv, LiveNodes
      <3>2. \A m : Unlinked(m)' <=> Unlinked(m)
        BY <1>3 DEF Unlinked
      <3> QED BY <3>1, <3>2, <1>3, <1>4, <1>11, <1>12 DEF LiveNodes
    <2>2. ProducersInv(d)'
      <3>1. /\ \A q \in Producers : ppc[q] = "joined" <=> cpc' = "destroy"
            /\ d[Len(d)] = tail
        BY <1>2, <1>3, <1>4, <1>13 DEF ChainInv, ProducersInv
      <3>2. \A q \in Producers : ppc[q] = "exchange" =>
              /\ new_node[q] \in Nodes \ On(d)
              /\ node'[new_node[q]] = node[new_node[q]]
        BY <1>2, <1>5, <1>6, <1>7, <1>12 DEF ChainInv, ProducersInv
      <3>3. \A q \in Producers : ppc[q] = "link" =>
              /\ old_tail[q] \in On(d)
              /\ node'[old_tail[q]].next = node[old_tail[q]].next
        BY <1>2, <1>11, <1>15 DEF ChainInv, ProducersInv
      <3>4. \A q \in Producers : ppc[q] = "exchange" =>
              /\ node'[new_node[q]] # Null
              /\ node'[new_node[q]].next = Null /\ node'[new_node[q]].data \in Value
        BY <3>2, <1>2 DEF ChainInv, ProducersInv
      <3>5. \A q \in Producers : ppc[q] = "link" =>
              new_node[q] \in Nodes /\ node'[old_tail[q]].next = Null
        BY <3>3, <1>2 DEF ChainInv, ProducersInv
      <3>6. \A q, s \in Producers : q # s /\ ppc[q] = ppc[s] =>
              /\ ppc[q] = "exchange" => new_node[q] # new_node[s]
              /\ ppc[q] = "link" => old_tail[q] # old_tail[s]
        BY <1>2 DEF ChainInv, ProducersInv
      <3> QED BY <3>1, <3>2, <3>3, <3>4, <3>5, <3>6, <1>3, <1>13 DEF ProducersInv
    <2>3. ConsumerInv(d)'
      <3>1. PICK h : h = head
        OBVIOUS
      <3>2. h \in Nodes \ On(d) /\ node'[h] # Null
        BY <3>1, <1>5, <1>6, <1>7, <1>12
      <3>3. ~ Unlinked(h)'
        BY <3>1, <1>3, <1>14 DEF Unlinked
      <3>4. head_ptr' = h
        BY <3>1, <1>3, <1>4
      <3> QED BY <3>2, <3>3, <3>4, <1>3 DEF ConsumerInv, Unlinked
    <2>4. CountInv(d)'
      <3>1. Uncounted' = Uncounted
        BY <1>3 DEF Uncounted
      <3>2. Cardinality(Uncounted) \in Nat
        BY ProducersAssumption, FS_Subset, FS_CardinalityType DEF Uncounted
      <3>3. Len(d) - 1 - Cardinality(Uncounted) + 1 = Len(c) - 1 - Cardinality(Uncounted) + 0
        BY <3>2, <1>12, <1>13
      <3>4. count = (Len(c) - 1 - Cardinality(Uncounted) + 0) % SizeMod
        BY <1>2, <1>3 DEF ChainInv, CountInv
      <3>5. count' = (Len(d) - 1 - Cardinality(Uncounted') + 1) % SizeMod
        BY <3>1, <3>3, <3>4, <1>3
      <3> QED BY <3>5, <1>3 DEF CountInv
    <2> QED BY <1>12, <2>1, <2>2, <2>3, <2>4 DEF ChainInv
  <1>17. /\ Items # << >> /\ out' = Head(Items) /\ Items' = Tail(Items)
    <2>1. Items' = [i \in 1 .. Len(d) - 1 |-> node'[d[i + 1]].data]
      BY <1>3, <1>9, <1>16, ChainOfNext DEF ItemsOf
    <2>2. Items = [i \in 1 .. Len(c) - 1 |-> node[c[i + 1]].data]
      BY <1>2, <1>3, ChainOf DEF Items, ItemsOf
    <2>3. \A i \in 1 .. Len(d) - 1 : node'[d[i + 1]].data = node[c[i + 2]].data
      <3> TAKE i \in 1 .. Len(d) - 1
      <3>1. i + 1 \in 1 .. Len(c) - 1 /\ (i + 1) + 1 = i + 2 /\ i + 2 \in 1 .. Len(c) /\ 2 \in 1 .. Len(c)
            /\ i + 2 # 2
        BY <1>12, <1>13
      <3>2. d[i + 1] = c[i + 2]
        BY <3>1, <1>12
      <3>3. c[i + 2] \in Nodes \ {t}
        <4>1. c[i + 2] # c[2]
          <5>1. \A k, j \in 1 .. Len(c) : c[k] = c[j] => k = j
            BY <1>2 DEF ChainInv, IsChain
          <5> QED BY <5>1, <3>1
        <4> QED BY <4>1, <3>1, <1>2, <1>5, <1>6, ChainFacts
      <3> QED BY <3>2, <3>3, <1>7
    <2>4. \A i \in 1 .. Len(c) - 1 : node[c[i + 1]].data \in Value \cup {NoValue}
      <3>1. \A i \in 1 .. Len(c) - 1 : i + 1 \in 1 .. Len(c)
        BY <1>13
      <3> QED BY <3>1, <1>2, ChainFacts DEF NodeType
    <2>5. /\ Items \in Seq(Value \cup {NoValue}) /\ Len(Items) = Len(c) - 1
          /\ \A i \in 1 .. Len(c) - 1 : Items[i] = node[c[i + 1]].data
      <3>1. Len(c) - 1 \in Nat
        BY <1>5, <1>13
      <3> QED BY <3>1, <2>2, <2>4
    <2> HIDE DEF Items
    <2>6. Items # << >> /\ Head(Items) = node[next_ptr].data
      <3>1. 1 \in 1 .. Len(c) - 1 /\ Len(Items) # 0 /\ 1 + 1 = 2
        BY <1>5, <1>13, <2>5
      <3>2. Items[1] = node[c[2]].data
        BY <3>1, <2>5
      <3> QED BY <3>1, <3>2, <1>5, <2>5, EmptySeq, HeadTailProperties
    <2>7. /\ Tail(Items) \in Seq(Value \cup {NoValue}) /\ Len(Tail(Items)) = Len(d) - 1
          /\ \A i \in 1 .. Len(d) - 1 : Tail(Items)[i] = Items[i + 1]
      BY <2>5, <2>6, <1>12, HeadTailProperties
    <2>8. \A i \in 1 .. Len(d) - 1 : Tail(Items)[i] = node'[d[i + 1]].data
      <3> TAKE i \in 1 .. Len(d) - 1
      <3>1. i + 1 \in 1 .. Len(c) - 1 /\ (i + 1) + 1 = i + 2
        BY <1>12, <1>13
      <3> QED BY <3>1, <2>3, <2>5, <2>7
    <2>9. Tail(Items) = [i \in 1 .. Len(d) - 1 |-> Tail(Items)[i]]
      BY <2>7, LenProperties
    <2>10. Items' = Tail(Items)
      BY <2>1, <2>8, <2>9, Zenon
    <2> QED BY <2>6, <2>10, <1>3
  <1> QED
    BY <1>9, <1>16, <1>17, ChainOfNext DEF StepHolds, Fifo!Next, Fifo!Pop

LEMMA DeleteHolds ==
  ASSUME IInv, Delete
  PROVE  StepHolds
  <1>1. PICK c : c = Chain
    OBVIOUS
  <1>2. TypeOK /\ ChainInv(c)
    BY <1>1 DEF IInv
  <1>3. PICK h : h = head_ptr
    OBVIOUS
  <1>4. /\ cpc = "delete" /\ cpc' = "uncount"
        /\ node' = [node EXCEPT ![h] = Null]
        /\ UNCHANGED <<count, head, call, head_ptr, next_ptr, answer, out, tail, ppc, new_node,
                        old_tail>>
    BY <1>3 DEF Delete, producers
  <1>5. h \in Nodes \ On(c) /\ ~ Unlinked(h)
    BY <1>2, <1>3, <1>4 DEF ChainInv, ConsumerInv
  <1>6. node'[h] = Null /\ \A m \in Nodes \ {h} : node'[m] = node[m]
    BY <1>2, <1>4, <1>5 DEF TypeOK
  <1>7. TypeOK'
    BY <1>2, <1>4 DEF TypeOK
  <1>8. \A m \in On(c) : m \in Nodes \ {h} /\ node'[m] = node[m] /\ successor'[m] = successor[m]
    <2> SUFFICES ASSUME NEW m \in On(c)
                 PROVE  m \in Nodes \ {h} /\ node'[m] = node[m] /\ successor'[m] = successor[m]
      OBVIOUS
    <2>1. m \in Nodes \ {h} /\ node[m] # Null /\ node'[m] = node[m]
      BY <1>2, <1>5, <1>6, ChainFacts
    <2>2. Linkers(m)' = Linkers(m) /\ \A q \in Linkers(m) : new_node'[q] = new_node[q]
      BY <1>4 DEF Linkers
    <2> QED BY <2>1, <2>2, SameSuccessor
  <1>9. ChainInv(c)'
    <2>1. c \in Seq(Nodes) /\ IsChain(c, head, successor)'
      BY <1>2, <1>4, <1>8, ChainKept DEF ChainInv
    <2>2. LiveNodes(c)'
      <3>1. \A m : Unlinked(m)' <=> Unlinked(m)
        BY <1>4 DEF Unlinked
      <3>2. \A m \in Nodes : node'[m] # Null => m # h /\ node[m] # Null
        BY <1>5, <1>6
      <3> QED BY <3>1, <3>2, <1>2, <1>3, <1>8 DEF ChainInv, LiveNodes
    <2>3. ProducersInv(c)'
      <3>1. \A q \in Producers : ppc[q] = "exchange" =>
              new_node[q] \in Nodes /\ node'[new_node[q]] = node[new_node[q]]
        BY <1>2, <1>5, <1>6 DEF ChainInv, ProducersInv, Unlinked
      <3>2. \A q \in Producers : ppc[q] = "link" => node'[old_tail[q]] = node[old_tail[q]]
        BY <1>2, <1>8 DEF ChainInv, ProducersInv
      <3>3. \A q \in Producers : ppc[q] = "joined" <=> cpc' = "destroy"
        BY <1>2, <1>4 DEF ChainInv, ProducersInv
      <3> QED BY <3>1, <3>2, <3>3, <1>2, <1>4 DEF ChainInv, ProducersInv
    <2>4. ConsumerInv(c)'
      BY <1>4 DEF ConsumerInv
    <2>5. CountInv(c)'
      <3>1. Uncounted' = Uncounted
        BY <1>4 DEF Uncounted
      <3> QED BY <3>1, <1>2, <1>4 DEF ChainInv, CountInv
    <2> QED BY <2>1, <2>2, <2>3, <2>4, <2>5 DEF ChainInv
  <1>10. \A i \in 1 .. Len(c) - 1 : node'[c[i + 1]].data = node[c[i + 1]].data
    <2>1. \A i \in 1 .. Len(c) - 1 : i + 1 \in 1 .. Len(c)
      BY <1>2, ChainFacts
    <2> QED BY <2>1, <1>2, <1>8, ChainFacts
  <1> QED
    BY <1>2, <1>4, <1>7, <1>9, <1>10, Unseen
-----------------------------------------------------------------------------
(* The destructor                                                          *)

\* With every producer through, no chain is cut.
LEMMA DestroyHolds ==
  ASSUME IInv, Destroy
  PROVE  StepHolds
  <1>1. PICK c : c = Chain
    OBVIOUS
  <1>2. TypeOK /\ ChainInv(c)
    BY <1>1 DEF IInv
  <1>3. /\ cpc = "idle" /\ cpc' = "destroy"
        /\ \A p \in Producers : ppc[p] = "idle" /\ ppc'[p] = "joined"
        /\ ppc' = [p \in Producers |-> "joined"]
        /\ UNCHANGED <<node, count, head, tail, new_node, old_tail, call, head_ptr, next_ptr,
                        answer, out>>
    BY DEF Destroy
  <1>4. TypeOK'
    BY <1>2, <1>3 DEF TypeOK
  <1>5. ChainInv(c)'
    <2>1. c \in Seq(Nodes) /\ IsChain(c, head, successor)'
      <3>1. successor' = successor
        <4>1. \A m : Linkers(m) = {} /\ Linkers(m)' = {}
          BY <1>3 DEF Linkers
        <4> QED BY <4>1, <1>3 DEF successor
      <3> QED BY <3>1, <1>2, <1>3 DEF ChainInv
    <2>2. LiveNodes(c)'
      BY <1>2, <1>3 DEF ChainInv, LiveNodes, Unlinked
    <2>3. ProducersInv(c)'
      BY <1>3 DEF ProducersInv
    <2>4. ConsumerInv(c)'
      BY <1>3 DEF ConsumerInv
    <2>5. CountInv(c)'
      BY <1>3 DEF CountInv
    <2> QED BY <2>1, <2>2, <2>3, <2>4, <2>5 DEF ChainInv
  <1>6. IInv' /\ Items' = << >>
    BY <1>3, <1>4, <1>5, ChainOfNext DEF ItemsOf
  <1> QED
    BY <1>3, <1>6 DEF StepHolds, Fifo!Next, Fifo!Clear

\* What there is in the queue that is being destroyed.
LEMMA Destroyed ==
  ASSUME NEW c, TypeOK, ChainInv(c), cpc = "destroy"
  PROVE  /\ \A p \in Producers : ppc[p] = "joined"
         /\ \A m : Linkers(m) = {} /\ ~ Unlinked(m)
         /\ \A m \in Nodes : node[m] # Null => m \in On(c)
         /\ \A m \in On(c) : successor[m] = node[m].next
  <1>1. \A p \in Producers : ppc[p] = "joined"
    BY DEF ChainInv, ProducersInv
  <1>2. \A m : Linkers(m) = {} /\ ~ Unlinked(m)
    BY <1>1 DEF Linkers, Unlinked
  <1>3. \A m \in Nodes : node[m] # Null => m \in On(c)
    BY <1>2 DEF ChainInv, LiveNodes
  <1>4. \A m \in On(c) : m \in Nodes /\ node[m] # Null
    BY ChainFacts
  <1>5. \A m \in On(c) : successor[m] = node[m].next
    BY <1>2, <1>4 DEF successor
  <1> QED
    BY <1>1, <1>2, <1>3, <1>5

LEMMA DeleteNextHolds ==
  ASSUME IInv, DeleteNext
  PROVE  StepHolds
  <1>1. PICK c : c = Chain
    OBVIOUS
  <1>2. TypeOK /\ ChainInv(c)
    BY <1>1 DEF IInv
  <1>3. PICK h : h = head
    OBVIOUS
  <1>4. /\ cpc = "destroy" /\ cpc' = "destroy" /\ h # Null
        /\ head' = node[h].next
        /\ node' = [node EXCEPT ![h] = Null]
        /\ UNCHANGED <<count, call, head_ptr, next_ptr, answer, out, tail, ppc, new_node,
                        old_tail>>
    BY <1>3 DEF DeleteNext, producers
  <1>5. /\ c # << >> /\ h \in Nodes /\ node[h] \in NodeType
        /\ head' = successor[h] /\ head' \in Nodes \cup {Null}
    <2>1. c # << >> /\ h \in On(c) /\ h \in Nodes /\ node[h] \in NodeType
      BY <1>2, <1>3, <1>4, ChainFacts
    <2>2. node[h].next \in Nodes \cup {Null}
      BY <2>1 DEF NodeType
    <2> QED BY <2>1, <2>2, <1>2, <1>4, Destroyed
  <1>6. node'[h] = Null /\ \A m \in Nodes \ {h} : node'[m] = node[m]
    BY <1>2, <1>4, <1>5 DEF TypeOK
  <1>7. TypeOK'
    BY <1>2, <1>4, <1>5 DEF TypeOK
  <1>8. PICK d : d = Tail(c)
    OBVIOUS
  <1>9. \A m \in On(c) \ {h} : m \in Nodes /\ node'[m] = node[m] /\ successor'[m] = successor[m]
    <2>1. \A m \in On(c) \ {h} : m \in Nodes /\ node'[m] = node[m] /\ node[m] # Null
      BY <1>2, <1>6, ChainFacts
    <2>2. \A m : Linkers(m) = {} /\ Linkers(m)' = {}
      BY <1>2, <1>4, Destroyed DEF Linkers
    <2> QED BY <2>1, <2>2 DEF successor
  <1>10. d \in Seq(Nodes) /\ IsChain(d, head, successor)' /\ On(d) = On(c) \ {h}
    <2>1. c \in Seq(Nodes) /\ IsChain(c, h, successor)
      BY <1>2, <1>3 DEF ChainInv
    <2>2. PICK new : new = successor'
      OBVIOUS
    <2>3. \A m \in On(c) \ {h} : new[m] = successor[m]
      BY <2>2, <1>9
    <2>4. /\ Tail(c) \in Seq(Nodes) /\ IsChain(Tail(c), successor[h], new)
          /\ On(Tail(c)) = On(c) \ {h}
      BY <2>1, <2>3, <1>5, ChainShortened
    <2> QED BY <2>2, <2>4, <1>5, <1>8
  <1>11. ChainInv(d)'
    <2>1. LiveNodes(d)'
      <3>1. \A m \in On(d) : node'[m] # Null
        BY <1>2, <1>9, <1>10, ChainFacts
      <3>2. \A m \in Nodes : node'[m] # Null => m \in On(d)
        BY <1>2, <1>4, <1>6, <1>10, Destroyed
      <3> QED BY <3>1, <3>2 DEF LiveNodes
    <2>2. ProducersInv(d)'
      BY <1>2, <1>4, Destroyed DEF ProducersInv
    <2>3. ConsumerInv(d)'
      BY <1>4 DEF ConsumerInv
    <2>4. CountInv(d)'
      BY <1>4 DEF CountInv
    <2> QED BY <1>10, <2>1, <2>2, <2>3, <2>4 DEF ChainInv
  <1>12. IInv' /\ Items' = << >> /\ Items = << >>
    BY <1>4, <1>7, <1>11, ChainOfNext DEF Items, ItemsOf
  <1> QED
    BY <1>4, <1>12 DEF StepHolds, Fifo!vars

\* A queue of one node is a chain, whether it is the first or made anew.
Fresh ==
  /\ head \in Nodes /\ tail = head
  /\ node = [m \in Nodes |-> IF m = head THEN EmptyNode ELSE Null]
  /\ count = 0
  /\ ppc = [p \in Producers |-> "idle"] /\ cpc = "idle"

OneNode == \E c : ChainInv(c) /\ ItemsOf(c) = << >>

LEMMA FreshChain == Fresh => OneNode
  <1> SUFFICES ASSUME Fresh PROVE OneNode
    OBVIOUS
  <1>1. PICK c : c = << head >>
    OBVIOUS
  <1>2. EmptyNode # Null /\ EmptyNode.next = Null
    BY DeletedAssumption DEF EmptyNode, NodeType
  <1>3. node[head] = EmptyNode /\ \A m \in Nodes \ {head} : node[m] = Null
    BY DEF Fresh
  <1>4. \A p \in Producers : ppc[p] = "idle"
    BY DEF Fresh
  <1>5. successor[head] = Null
    <2>1. Linkers(head) = {}
      BY <1>4 DEF Linkers
    <2> QED BY <2>1, <1>2, <1>3 DEF successor, Fresh
  <1>6. c \in Seq(Nodes) /\ IsChain(c, head, successor) /\ On(c) = {head}
    BY <1>1, <1>5, ChainStarted DEF Fresh
  <1>7. Len(c) = 1 /\ c[1] = head /\ c # << >>
    BY <1>1
  <1>8. LiveNodes(c)
    BY <1>2, <1>3, <1>6 DEF LiveNodes
  <1>9. ProducersInv(c)
    BY <1>4, <1>7 DEF ProducersInv, Fresh
  <1>10. ConsumerInv(c)
    BY DEF ConsumerInv, Fresh
  <1>11. CountInv(c)
    <2>1. Cardinality(Uncounted) = 0
      <3>1. Uncounted = {}
        BY <1>4 DEF Uncounted
      <3> QED BY <3>1, FS_EmptySet
    <2>2. 0 % SizeMod = 0
      BY DivMod, SizeModAssumption, SMT
    <2>3. Len(c) - 1 - Cardinality(Uncounted) + 0 = 0
      BY <2>1, <1>7
    <2> QED BY <2>2, <2>3 DEF CountInv, Fresh
  <1>12. ItemsOf(c) = << >>
    BY <1>7 DEF ItemsOf
  <1> QED
    BY <1>6, <1>8, <1>9, <1>10, <1>11, <1>12 DEF ChainInv, OneNode

LEMMA ConstructHolds ==
  ASSUME IInv, Construct
  PROVE  StepHolds
  <1>1. PICK c : c = Chain
    OBVIOUS
  <1>2. TypeOK /\ ChainInv(c)
    BY <1>1 DEF IInv
  <1>3. PICK n \in Nodes :
          /\ cpc = "destroy" /\ head = Null /\ cpc' = "idle"
          /\ node' = [node EXCEPT ![n] = EmptyNode]
          /\ head' = n /\ tail' = n /\ count' = 0
          /\ ppc' = [p \in Producers |-> "idle"]
          /\ UNCHANGED <<new_node, old_tail, call, head_ptr, next_ptr, answer, out>>
    BY DEF Construct
  <1>4. On(c) = {}
    <2>1. c = << >>
      BY <1>2, <1>3, ChainFacts, NullAssumption
    <2> QED BY <2>1 DEF On
  <1>5. \A m \in Nodes : node[m] = Null
    BY <1>2, <1>3, <1>4, Destroyed
  <1>6. node' = [m \in Nodes |-> IF m = n THEN EmptyNode ELSE Null]
    BY <1>2, <1>3, <1>5 DEF TypeOK
  <1>7. EmptyNode \in NodeType
    BY DEF EmptyNode, NodeType
  <1>8. TypeOK'
    BY <1>2, <1>3, <1>7, SizeModAssumption DEF TypeOK
  <1>9. PICK d : ChainInv(d)' /\ ItemsOf(d)' = << >>
    <2>1. Fresh'
      BY <1>3, <1>6 DEF Fresh
    <2>2. OneNode'
      BY <2>1, FreshChain, PTL
    <2> QED BY <2>2 DEF OneNode
  <1>10. IInv' /\ Items' = << >> /\ Items = << >>
    <2>1. Items = << >>
      BY <1>3 DEF Items, ItemsOf
    <2>2. IInv' /\ Items' = ItemsOf(d)'
      BY <1>8, <1>9, ChainOfNext, Zenon
    <2> QED BY <2>1, <2>2, <1>9, Zenon
  <1> QED
    BY <1>3, <1>10 DEF StepHolds, Fifo!vars
-----------------------------------------------------------------------------
(* The specification                                                       *)

LEMMA InitHolds ==
  ASSUME Init
  PROVE  IInv /\ Items = << >>
  <1>1. TypeOK
    <2>1. node \in [Nodes -> NodeType \cup {Null}]
      BY DEF Init, EmptyNode, NodeType
    <2>2. count \in 0 .. SizeMod - 1
      BY SizeModAssumption DEF Init
    <2> QED BY <2>1, <2>2 DEF Init, TypeOK
  <1>2. PICK c : ChainInv(c) /\ ItemsOf(c) = << >>
    BY FreshChain DEF Init, Fresh, OneNode
  <1> QED
    BY <1>1, <1>2, ChainOf DEF IInv, Items

LEMMA NextHolds ==
  ASSUME IInv, [Next]_vars
  PROVE  StepHolds
  <1>1. CASE UNCHANGED vars
    <2>1. /\ UNCHANGED <<node, count, head, tail, ppc, new_node, old_tail>>
          /\ UNCHANGED <<cpc, call, head_ptr, next_ptr, answer, out>>
      BY <1>1 DEF vars, producers, consumer
    <2>2. PICK c : c = Chain
      OBVIOUS
    <2>3. TypeOK /\ ChainInv(c)
      BY <2>2 DEF IInv
    <2>4. TypeOK'
      BY <2>1, <2>3 DEF TypeOK
    <2>5. ChainInv(c)'
      <3>1. c \in Seq(Nodes) /\ IsChain(c, head, successor)'
        <4>1. successor' = successor
          BY <2>1 DEF successor, Linkers
        <4> QED BY <4>1, <2>1, <2>3 DEF ChainInv
      <3>2. \A m : Unlinked(m)' <=> Unlinked(m)
        BY <2>1 DEF Unlinked
      <3>3. LiveNodes(c)'
        BY <3>2, <2>1, <2>3 DEF ChainInv, LiveNodes
      <3>4. ProducersInv(c)'
        BY <2>1, <2>3 DEF ChainInv, ProducersInv
      <3>5. ConsumerInv(c)'
        BY <2>1, <2>3 DEF ChainInv, ConsumerInv, Unlinked
      <3>6. CountInv(c)'
        <4>1. Uncounted' = Uncounted
          BY <2>1 DEF Uncounted
        <4> QED BY <4>1, <2>1, <2>3 DEF ChainInv, CountInv
      <3> QED BY <3>1, <3>3, <3>4, <3>5, <3>6 DEF ChainInv
    <2>6. Items = ItemsOf(c) /\ IInv' /\ Items' = ItemsOf(c)'
      BY <2>3, <2>4, <2>5, ChainOf, ChainOfNext DEF Items
    <2>7. ItemsOf(c)' = ItemsOf(c)
      BY <2>1 DEF ItemsOf
    <2> QED BY <2>1, <2>6, <2>7 DEF StepHolds, Fifo!vars
  <1>2. CASE Next
    BY <1>2, PushHolds, ExchangeHolds, LinkHolds, CountHolds, CallHolds, LoadNextHolds,
       LoadTailHolds, SpinHolds, TakeDataHolds, DeleteHolds, UncountHolds, DestroyHolds,
       DeleteNextHolds, ConstructHolds
       DEF Next, PushStep, PopStep
  <1> QED BY <1>1, <1>2

\* The queue is empty when its first node is its last.
LEMMA NoItems ==
  ASSUME NEW c, TypeOK, ChainInv(c), cpc # "destroy"
  PROVE  /\ Len(Items) = Len(c) - 1
         /\ Items = << >> <=> Len(c) = 1
         /\ Items = << >> <=> head = tail
         /\ Items = << >> => node[head].next = Null
  <1>1. /\ c # << >> /\ Len(c) \in Nat \ {0} /\ head = c[1] /\ tail = c[Len(c)]
        /\ 1 \in 1 .. Len(c) /\ Len(c) \in 1 .. Len(c)
    BY ChainFacts
  <1>2. Items = [i \in 1 .. Len(c) - 1 |-> node[c[i + 1]].data]
    BY ChainOf DEF Items, ItemsOf
  <1>3. Len(Items) = Len(c) - 1
    BY <1>1, <1>2
  <1>4. Items = << >> <=> Len(c) = 1
    <2>1. ASSUME Len(c) = 1 PROVE Items = << >>
      BY <2>1, <1>2
    <2>2. ASSUME Items = << >> PROVE Len(c) = 1
      <3>1. Len(Items) = 0
        BY <2>2
      <3> QED BY <3>1, <1>1, <1>3
    <2> QED BY <2>1, <2>2
  <1>5. head = tail <=> Len(c) = 1
    <2>1. \A i, j \in 1 .. Len(c) : c[i] = c[j] => i = j
      BY DEF ChainInv, IsChain
    <2> QED BY <2>1, <1>1
  <1>6. Len(c) = 1 => node[head].next = Null
    BY <1>5, TailFacts
  <1> QED
    BY <1>3, <1>4, <1>5, <1>6

\* head has a successor stored only if there is an element behind it, and the
\* head the consumer compares to tail is still the head.
LEMMA AnswerHolds ==
  ASSUME IInv, Next, answer = "none", answer' # "none"
  PROVE  answer' = "empty" <=> Items = << >>
  <1>1. PICK c : c = Chain
    OBVIOUS
  <1>2. TypeOK /\ ChainInv(c)
    BY <1>1 DEF IInv
  <1>3. LoadNext \/ LoadTail
    BY DEF Next, PushStep, PopStep, Push, Exchange, Link, Count, TryPop, WaitAndPop, Empty,
       Call, Spin, TakeData, Delete, Uncount, Destroy, DeleteNext, Construct, consumer
  <1>4. cpc # "destroy"
    BY <1>3 DEF LoadNext, LoadTail
  <1>5. CASE LoadNext
    <2>1. answer' = "filled" /\ node[head].next # Null
      BY <1>5 DEF LoadNext
    <2> QED BY <2>1, <1>2, <1>4, NoItems
  <1>6. CASE LoadTail
    <2>1. head_ptr = head
      BY <1>2, <1>6 DEF LoadTail, ChainInv, ConsumerInv
    <2>2. answer' = IF head_ptr = tail THEN "empty" ELSE "filled"
      BY <1>6 DEF LoadTail
    <2> QED BY <2>1, <2>2, <1>2, <1>4, NoItems
  <1> QED
    BY <1>3, <1>5, <1>6

\* In every reachable state the nodes from head to tail are one chain, although
\* some of its links may not be stored yet: each of those is in the hands of one
\* producer, and the rest of the live nodes are in somebody's hands as well.
THEOREM Invariance == Spec => []IInv
  <1>1. Init => IInv
    BY InitHolds
  <1>2. IInv /\ [Next]_vars => IInv'
    BY NextHolds DEF StepHolds
  <1> QED
    BY <1>1, <1>2, PTL DEF Spec

\* Pointers point to nodes or are null, and the counter keeps to its width.
THEOREM TypeCorrect == Spec => []TypeOK
  <1>1. IInv => TypeOK
    BY DEF IInv
  <1> QED
    BY <1>1, Invariance, PTL

\* A producer that stores to its predecessor long after it let go of tail stores
\* to a live node, whatever the consumer has deleted meanwhile, and a destroyed
\* queue leaves no node behind.
THEOREM MemoryIsSafe == Spec => []MemorySafe
  <1>1. ASSUME IInv PROVE MemorySafe
    <2>1. PICK c : c = Chain
      OBVIOUS
    <2>2. TypeOK /\ ChainInv(c)
      BY <1>1, <2>1 DEF IInv
    <2>3. ASSUME head = Null PROVE cpc = "destroy" /\ \A n \in Nodes : node[n] = Null
      <3>1. c = << >>
        BY <2>2, <2>3, ChainFacts, NullAssumption
      <3>2. cpc = "destroy" /\ On(c) = {}
        BY <2>2, <3>1, ChainFacts DEF On
      <3> QED BY <2>2, <3>2, Destroyed
    <2>4. head # Null => node[head] # Null
      BY <2>2, ChainFacts
    <2>5. cpc # "destroy" => node[tail] # Null
      BY <2>2, ChainFacts
    <2>6. \A p \in Producers : ppc[p] = "link" => node[old_tail[p]] # Null
      BY <2>2, ChainFacts DEF ChainInv, ProducersInv
    <2> QED BY <2>3, <2>4, <2>5, <2>6 DEF MemorySafe
  <1> QED
    BY <1>1, Invariance, PTL

\* size() is off by the producers inside push and the pop under way, and right
\* again as soon as they are through, modulo the width of size_t.
THEOREM SizeLate == Spec => []SizeIsLate
  <1>1. ASSUME IInv PROVE SizeIsLate
    <2>1. PICK c : c = Chain
      OBVIOUS
    <2>2. TypeOK /\ ChainInv(c)
      BY <1>1, <2>1 DEF IInv
    <2>3. cpc # "destroy" => Len(Items) = Len(c) - 1
      BY <2>2, NoItems
    <2> QED BY <2>2, <2>3 DEF SizeIsLate, ChainInv, CountInv
  <1> QED
    BY <1>1, Invariance, PTL

\* The chain is a FIFO queue, for every number of producers and of nodes: the
\* order is that of the exchanges, in whatever order the links are stored.
THEOREM ChainIsFifo == Spec => ImplementsFifo
  <1>1. Init => Fifo!Init
    BY InitHolds DEF Init, Fifo!Init
  <1>2. IInv /\ [Next]_vars => [Fifo!Next]_(Fifo!vars)
    BY NextHolds DEF StepHolds
  <1> QED
    BY <1>1, <1>2, Invariance, PTL DEF Spec, ImplementsFifo, Fifo!Spec

\* When empty() or try_pop says that there is no element, there is none at the
\* moment it says so, and when empty() says that there is one there is.
THEOREM EmptyExact == Spec => EmptyIsExact
  <1>1. IInv /\ [Next]_vars =>
          [answer = "none" /\ answer' # "none" => (answer' = "empty" <=> Items = << >>)]_vars
    BY AnswerHolds
  <1> QED
    BY <1>1, Invariance, PTL DEF Spec, EmptyIsExact
=============================================================================
