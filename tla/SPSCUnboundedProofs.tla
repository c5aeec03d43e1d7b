------------------------- MODULE SPSCUnboundedProofs -------------------------
(***************************************************************************)
(* Proofs about SPSCUnbounded, for every number of nodes: the nodes from   *)
(* head form a chain that the producer only lengthens at its end and the   *)
(* consumer only shortens at its head, and neither frees a node the other  *)
(* may still follow.                                                       *)
(***************************************************************************)
EXTENDS SPSCUnbounded, NodeChainsProofs

\* What every step does: it keeps the invariant, and is a step of the FIFO queue.
StepHolds == IInv' /\ [Fifo!Next]_(Fifo!vars)

\* The invariant names the chain itself.
LEMMA ChainOf ==
  ASSUME NEW c, ChainInv(c)
  PROVE  Chain = c
  BY TheChain DEF ChainInv, Chain

LEMMA ChainOfNext ==
  ASSUME NEW c, TypeOK', ChainInv(c)'
  PROVE  IInv' /\ Items' = ItemsOf(c)'
  <1>1. Chain' = c
    BY TheChain DEF ChainInv, Chain
  <1> QED
    BY <1>1 DEF IInv, Items

\* A step that leaves the nodes of the chain and their data alone.
LEMMA Unseen ==
  ASSUME NEW c, TypeOK', ChainInv(c), ChainInv(c)',
         cpc # "destroy", cpc' # "destroy", out' = out,
         \A i \in 1 .. Len(c) - 1 : node'[c[i]].data = node[c[i]].data
  PROVE  StepHolds
  <1>1. Items = ItemsOf(c)
    BY ChainOf DEF Items
  <1>2. IInv' /\ Items' = ItemsOf(c)'
    BY ChainOfNext
  <1>3. ItemsOf(c)' = ItemsOf(c)
    BY DEF ItemsOf
  <1> QED
    BY <1>1, <1>2, <1>3 DEF StepHolds, Fifo!vars

\* What the invariant says of the nodes of the chain.
LEMMA ChainFacts ==
  ASSUME NEW c, TypeOK, ChainInv(c)
  PROVE  /\ c \in Seq(Nodes) /\ Len(c) \in Nat /\ IsChain(c, head, successor)
         /\ \A i \in 1 .. Len(c) : c[i] \in On(c)
         /\ \A n \in On(c) : /\ n \in Nodes /\ node[n] \in NodeType /\ node[n] # Null
                             /\ successor[n] = node[n].next
         /\ c # << >> => /\ Len(c) \in Nat \ {0} /\ 1 \in 1 .. Len(c) /\ Len(c) \in 1 .. Len(c)
                         /\ head = c[1] /\ head \in On(c)
                         /\ c[Len(c)] \in On(c) /\ successor[c[Len(c)]] = Null
                         /\ \A i \in 1 .. Len(c) - 1 : /\ i \in 1 .. Len(c)
                                                       /\ c[i] # c[Len(c)]
         /\ c = << >> => head = Null
         /\ cpc # "destroy" => c # << >>
  <1>1. c \in Seq(Nodes) /\ IsChain(c, head, successor) /\ \A n \in On(c) : node[n] # Null
    BY DEF ChainInv, LiveNodes
  <1>2. Len(c) \in Nat /\ \A i \in 1 .. Len(c) : c[i] \in Nodes
    BY <1>1, LenProperties, ElementOfSeq
  <1>3. \A i \in 1 .. Len(c) : c[i] \in On(c)
    BY DEF On
  <1>4. \A n \in On(c) : n \in Nodes
    BY <1>2 DEF On
  <1>5. \A n \in On(c) : node[n] \in NodeType /\ successor[n] = node[n].next
    BY <1>1, <1>4 DEF TypeOK, successor
  <1>6. c # << >> => /\ Len(c) \in Nat \ {0} /\ 1 \in 1 .. Len(c) /\ Len(c) \in 1 .. Len(c)
    BY <1>1, <1>2, EmptySeq
  <1>7. c # << >> => head = c[1] /\ successor[c[Len(c)]] = Null
    BY <1>1, <1>6 DEF IsChain
  <1>8. c # << >> => \A i \in 1 .. Len(c) - 1 : i \in 1 .. Len(c) /\ c[i] # c[Len(c)]
    BY <1>1, <1>2, <1>6 DEF IsChain
  <1>9. c = << >> => head = Null
    BY <1>1 DEF IsChain
  <1>10. cpc # "destroy" => c # << >>
    BY DEF ChainInv, ProducerInv
  <1> QED
    BY <1>1, <1>2, <1>3, <1>4, <1>5, <1>6, <1>7, <1>8, <1>9, <1>10

\* Nodes are records of two fields.
LEMMA WithFields ==
  ASSUME NEW r \in NodeType, NEW x
  PROVE  /\ [r EXCEPT !.data = x] = [data |-> x, next |-> r.next]
         /\ [r EXCEPT !.next = x] = [data |-> r.data, next |-> x]
  BY DEF NodeType

\* A chain and what is live, when neither changes.
LEMMA SameChain ==
  ASSUME NEW c, ChainInv(c), UNCHANGED <<node, head, stub, old_head>>
  PROVE  c \in Seq(Nodes) /\ IsChain(c, head, successor)' /\ LiveNodes(c)'
  BY DEF ChainInv, LiveNodes, successor

-----------------------------------------------------------------------------
(* The producer                                                            *)

LEMMA PushHolds ==
  ASSUME IInv, NEW v \in Value, Push(v)
  PROVE  StepHolds
  <1>1. PICK c : c = Chain
    OBVIOUS
  <1>2. TypeOK /\ ChainInv(c)
    BY <1>1 DEF IInv
  <1>3. PICK n \in Nodes :
          /\ node[n] = Null
          /\ node' = [node EXCEPT ![n] = EmptyNode]
          /\ stub' = n
    BY DEF Push
  <1>4. /\ ppc = "idle" /\ ppc' = "write" /\ pvalue' = v
        /\ UNCHANGED <<capacity, tail, head, cpc, new_head, old_head, out>>
    BY DEF Push, consumer
  <1>5. node'[n] = EmptyNode /\ \A m \in Nodes \ {n} : node'[m] = node[m]
    BY <1>2, <1>3 DEF TypeOK
  <1>6. EmptyNode \in NodeType /\ EmptyNode # Null
    BY DeletedAssumption DEF EmptyNode, NodeType
  <1>7. TypeOK'
    BY <1>2, <1>3, <1>4, <1>6 DEF TypeOK
  <1>8. n \notin On(c) /\ cpc # "destroy" /\ stub = Null
    BY <1>2, <1>3, <1>4 DEF ChainInv, LiveNodes, ProducerInv
  <1>9. \A m \in On(c) : node'[m] = node[m] /\ successor'[m] = successor[m]
    BY <1>2, <1>5, <1>8, ChainFacts DEF successor
  <1>10. ChainInv(c)'
    <2>1. c \in Seq(Nodes) /\ IsChain(c, head, successor)'
      BY <1>2, <1>4, <1>9, ChainKept DEF ChainInv
    <2>2. LiveNodes(c)'
      BY <1>2, <1>3, <1>4, <1>5, <1>8, <1>9, NullAssumption DEF ChainInv, LiveNodes
    <2>3. ProducerInv(c)'
      BY <1>2, <1>3, <1>4, <1>5, <1>8 DEF ChainInv, ProducerInv
    <2>4. ConsumerInv(c)'
      BY <1>2, <1>3, <1>4, <1>5, <1>8 DEF ChainInv, ConsumerInv
    <2>5. CountInv(c)'
      BY <1>2, <1>4 DEF ChainInv, CountInv
    <2> QED BY <2>1, <2>2, <2>3, <2>4, <2>5 DEF ChainInv
  <1>11. \A i \in 1 .. Len(c) - 1 : node'[c[i]].data = node[c[i]].data
    BY <1>2, <1>8, <1>9, ChainFacts
  <1> QED
    BY <1>2, <1>4, <1>7, <1>8, <1>10, <1>11, Unseen

LEMMA WriteDataHolds ==
  ASSUME IInv, WriteData
  PROVE  StepHolds
  <1>1. PICK c : c = Chain
    OBVIOUS
  <1>2. TypeOK /\ ChainInv(c)
    BY <1>1 DEF IInv
  <1>3. /\ ppc = "write" /\ ppc' = "count"
        /\ node' = [node EXCEPT ![tail].data = pvalue]
        /\ UNCHANGED <<capacity, tail, stub, pvalue, head, cpc, new_head, old_head, out>>
    BY DEF WriteData, consumer
  <1>4. /\ cpc # "destroy" /\ c # << >> /\ tail = c[Len(c)]
        /\ stub \in Nodes \ On(c) /\ node[stub] = EmptyNode /\ pvalue \in Value
    BY <1>2, <1>3 DEF ChainInv, ProducerInv
  <1>5. tail \in On(c) /\ tail \in Nodes /\ node[tail] \in NodeType
    BY <1>2, <1>4, ChainFacts
  <1>6. /\ node'[tail] = [data |-> pvalue, next |-> node[tail].next]
        /\ \A m \in Nodes \ {tail} : node'[m] = node[m]
    <2>1. /\ node'[tail] = [node[tail] EXCEPT !.data = pvalue]
          /\ \A m \in Nodes \ {tail} : node'[m] = node[m]
      BY <1>2, <1>3, <1>5 DEF TypeOK
    <2> QED BY <2>1, <1>5, WithFields
  <1>7. node'[tail] \in NodeType /\ node'[tail] # Null
    BY <1>4, <1>5, <1>6, DeletedAssumption DEF NodeType
  <1>8. TypeOK'
    <2>1. node' \in [Nodes -> NodeType \cup {Null}]
      BY <1>2, <1>3, <1>6, <1>7 DEF TypeOK
    <2> QED BY <2>1, <1>2, <1>3 DEF TypeOK
  <1>9. \A m \in On(c) : node'[m] # Null /\ successor'[m] = successor[m]
    <2>1. node'[tail].next = node[tail].next
      BY <1>6
    <2>2. \A m \in On(c) : m \in Nodes /\ node[m] # Null /\ successor[m] = node[m].next
      BY <1>2, ChainFacts
    <2>3. \A m \in On(c) : node'[m] # Null /\ node'[m].next = node[m].next
      BY <2>1, <2>2, <1>6, <1>7
    <2>4. \A m \in Nodes : successor'[m] = IF node'[m] = Null THEN Null ELSE node'[m].next
      BY DEF successor
    <2> QED BY <2>2, <2>3, <2>4
  <1>10. ChainInv(c)'
    <2>1. c \in Seq(Nodes) /\ IsChain(c, head, successor)'
      BY <1>2, <1>3, <1>9, ChainKept DEF ChainInv
    <2>2. LiveNodes(c)'
      BY <1>2, <1>3, <1>5, <1>6, <1>9 DEF ChainInv, LiveNodes
    <2>3. ProducerInv(c)'
      BY <1>2, <1>3, <1>4, <1>5, <1>6 DEF ChainInv, ProducerInv
    <2>4. ConsumerInv(c)'
      BY <1>2, <1>3, <1>4, <1>5, <1>6 DEF ChainInv, ConsumerInv
    <2>5. CountInv(c)'
      BY <1>2, <1>3 DEF ChainInv, CountInv
    <2> QED BY <2>1, <2>2, <2>3, <2>4, <2>5 DEF ChainInv
  <1>11. \A i \in 1 .. Len(c) - 1 : node'[c[i]].data = node[c[i]].data
    BY <1>2, <1>4, <1>6, ChainFacts
  <1> QED
    BY <1>2, <1>3, <1>4, <1>8, <1>10, <1>11, Unseen

LEMMA CountHolds ==
  ASSUME IInv, Count
  PROVE  StepHolds
  <1>1. PICK c : c = Chain
    OBVIOUS
  <1>2. TypeOK /\ ChainInv(c)
    BY <1>1 DEF IInv
  <1>3. /\ ppc = "count" /\ ppc' = "publish" /\ capacity' = capacity + 1
        /\ UNCHANGED <<node, tail, stub, pvalue, head, cpc, new_head, old_head, out>>
    BY DEF Count, consumer
  <1>4. TypeOK'
    BY <1>2, <1>3 DEF TypeOK
  <1>5. cpc # "destroy"
    BY <1>2, <1>3 DEF ChainInv, ProducerInv
  <1>6. ChainInv(c)'
    <2>1. c \in Seq(Nodes) /\ IsChain(c, head, successor)' /\ LiveNodes(c)'
      BY <1>2, <1>3, SameChain
    <2>2. ProducerInv(c)'
      BY <1>2, <1>3 DEF ChainInv, ProducerInv
    <2>3. ConsumerInv(c)'
      BY <1>2, <1>3 DEF ChainInv, ConsumerInv
    <2>4. CountInv(c)'
      BY <1>2, <1>3, ChainFacts DEF ChainInv, CountInv, TypeOK
    <2> QED BY <2>1, <2>2, <2>3, <2>4 DEF ChainInv
  <1> QED
    BY <1>2, <1>3, <1>4, <1>5, <1>6, Unseen

\* The link makes the stub the end of the chain and the node before it, which
\* the producer has filled, one that holds an element.
LEMMA PublishHolds ==
  ASSUME IInv, Publish
  PROVE  StepHolds
  <1>1. PICK c : c = Chain
    OBVIOUS
  <1>2. TypeOK /\ ChainInv(c)
    BY <1>1 DEF IInv
  <1>3. /\ ppc = "publish" /\ ppc' = "advance"
        /\ node' = [node EXCEPT ![tail].next = stub]
        /\ UNCHANGED <<capacity, tail, stub, pvalue, head, cpc, new_head, old_head, out>>
    BY DEF Publish, consumer
  <1>4. /\ cpc # "destroy" /\ c # << >> /\ tail = c[Len(c)]
        /\ stub \in Nodes \ On(c) /\ node[stub] = EmptyNode /\ pvalue \in Value
        /\ node[tail].data = pvalue
    BY <1>2, <1>3 DEF ChainInv, ProducerInv
  <1>5. tail \in On(c) /\ tail \in Nodes /\ node[tail] \in NodeType /\ tail # stub
    BY <1>2, <1>4, ChainFacts
  <1>6. /\ node'[tail] = [data |-> node[tail].data, next |-> stub]
        /\ \A m \in Nodes \ {tail} : node'[m] = node[m]
    <2>1. /\ node'[tail] = [node[tail] EXCEPT !.next = stub]
          /\ \A m \in Nodes \ {tail} : node'[m] = node[m]
      BY <1>2, <1>3, <1>5 DEF TypeOK
    <2> QED BY <2>1, <1>5, WithFields
  <1>7. node'[tail] \in NodeType /\ node'[tail] # Null
    BY <1>4, <1>5, <1>6, DeletedAssumption DEF NodeType
  <1>8. TypeOK'
    <2>1. node' \in [Nodes -> NodeType \cup {Null}]
      BY <1>2, <1>3, <1>6, <1>7 DEF TypeOK
    <2> QED BY <2>1, <1>2, <1>3 DEF TypeOK
  <1>9. /\ \A m \in On(c) \ {c[Len(c)]} : successor'[m] = successor[m]
        /\ successor'[c[Len(c)]] = stub /\ successor'[stub] = Null
    <2>1. \A m \in Nodes : successor'[m] = IF node'[m] = Null THEN Null ELSE node'[m].next
      BY DEF successor
    <2>2. \A m \in On(c) : m \in Nodes /\ node[m] # Null /\ successor[m] = node[m].next
      BY <1>2, ChainFacts
    <2>3. node'[tail].next = stub
      BY <1>6
    <2>4. node'[stub].next = Null
      BY <1>4, <1>5, <1>6 DEF EmptyNode
    <2> QED BY <1>4, <1>5, <1>6, <1>7, <2>1, <2>2, <2>3, <2>4
  <1>10. PICK d : d = Append(c, stub)
    OBVIOUS
  <1>11. /\ d \in Seq(Nodes) /\ IsChain(d, head, successor)' /\ On(d) = On(c) \cup {stub}
         /\ Len(d) = Len(c) + 1
         /\ \A i \in 1 .. Len(c) : d[i] = c[i]
         /\ d[Len(c) + 1] = stub
         /\ d # << >>
    <2>1. c \in Seq(Nodes) /\ IsChain(c, head, successor)
      BY <1>2 DEF ChainInv
    <2> QED BY <2>1, <1>3, <1>4, <1>9, <1>10, ChainAppended
  <1>12. ChainInv(d)'
    <2>1. LiveNodes(d)'
      <3>1. \A n \in On(d) : node'[n] # Null
        <4>1. \A n \in On(c) : n \in Nodes /\ node[n] # Null
          BY <1>2, ChainFacts
        <4>2. EmptyNode # Null
          BY DeletedAssumption DEF EmptyNode, NodeType
        <4> QED BY <4>1, <4>2, <1>4, <1>5, <1>6, <1>7, <1>11
      <3>2. \A n \in Nodes : node'[n] # Null => n \in On(d) \/ n = old_head
        BY <1>2, <1>5, <1>6, <1>11 DEF ChainInv, LiveNodes
      <3> QED BY <3>1, <3>2, <1>3 DEF LiveNodes
    <2>2. ProducerInv(d)'
      BY <1>2, <1>3, <1>4, <1>11 DEF ChainInv, ProducerInv
    <2>3. ConsumerInv(d)'
      <3>1. cpc \in {"take", "peek"} => Len(d) > 1 /\ new_head = d[2]
        BY <1>2, <1>11, ChainFacts DEF ChainInv, ConsumerInv
      <3>2. cpc = "delete" => old_head \in Nodes \ On(d) /\ node'[old_head] # Null
        BY <1>2, <1>3, <1>5, <1>6, <1>11 DEF ChainInv, ConsumerInv
      <3>3. cpc # "delete" => old_head = Null
        BY <1>2 DEF ChainInv, ConsumerInv
      <3> QED BY <3>1, <3>2, <3>3, <1>3 DEF ConsumerInv
    <2>4. CountInv(d)'
      BY <1>2, <1>3, <1>11, ChainFacts DEF ChainInv, CountInv, TypeOK
    <2> QED BY <1>11, <2>1, <2>2, <2>3, <2>4 DEF ChainInv
  <1>13. Items' = Append(Items, pvalue)
    <2>1. Items' = [i \in 1 .. Len(c) |-> node'[d[i]].data]
      <3>1. Items' = [i \in 1 .. Len(d) - 1 |-> node'[d[i]].data]
        BY <1>3, <1>4, <1>8, <1>12, ChainOfNext DEF ItemsOf
      <3>2. Len(d) - 1 = Len(c)
        BY <1>2, <1>11, ChainFacts
      <3> QED BY <3>1, <3>2
    <2>2. Items = [i \in 1 .. Len(c) - 1 |-> node[c[i]].data]
      BY <1>2, <1>4, ChainOf DEF Items, ItemsOf
    <2>3. Len(c) \in Nat \ {0}
      BY <1>2, <1>4, ChainFacts
    <2>4. \A i \in 1 .. Len(c) - 1 : node'[d[i]].data = node[c[i]].data
      BY <1>2, <1>4, <1>6, <1>11, ChainFacts
    <2>5. node'[d[Len(c)]].data = pvalue
      BY <1>4, <1>6, <1>11, <2>3
    <2>6. \A i \in 1 .. Len(c) - 1 : node[c[i]].data \in Value \cup {NoValue}
      BY <1>2, <1>4, ChainFacts DEF NodeType
    <2>7. /\ Items \in Seq(Value \cup {NoValue}) /\ Len(Items) = Len(c) - 1
          /\ \A i \in 1 .. Len(c) - 1 : Items[i] = node[c[i]].data
      BY <2>2, <2>3, <2>6
    <2>8. Append(Items, pvalue)
            = [i \in 1 .. Len(c) |-> IF i <= Len(Items) THEN Items[i] ELSE pvalue]
      <3>1. Len(Items) + 1 = Len(c)
        BY <2>3, <2>7
      <3> HIDE DEF Items
      <3>2. Append(Items, pvalue)
              = [i \in 1 .. Len(Items) + 1 |-> IF i <= Len(Items) THEN Items[i] ELSE pvalue]
        BY <2>7, AppendIs
      <3> QED BY <3>1, <3>2
    <2>9. \A i \in 1 .. Len(c) :
            node'[d[i]].data = IF i <= Len(Items) THEN Items[i] ELSE pvalue
      <3> HIDE DEF Items
      <3> QED BY <2>3, <2>4, <2>5, <2>7
    <2> HIDE DEF Items
    <2> QED BY <2>1, <2>8, <2>9, Zenon
  <1>14. Len(Items) \in Nat
    BY <1>2, <1>4, ChainOf, ChainFacts DEF Items, ItemsOf
  <1>15. Fifo!Push(pvalue)
    BY <1>3, <1>13, <1>14 DEF Fifo!Push
  <1> QED
    BY <1>4, <1>8, <1>12, <1>15, ChainOfNext DEF StepHolds, Fifo!Next

LEMMA AdvanceHolds ==
  ASSUME IInv, Advance
  PROVE  StepHolds
  <1>1. PICK c : c = Chain
    OBVIOUS
  <1>2. TypeOK /\ ChainInv(c)
    BY <1>1 DEF IInv
  <1>3. /\ ppc = "advance" /\ ppc' = "idle" /\ tail' = stub /\ stub' = Null /\ pvalue' = NoValue
        /\ UNCHANGED <<node, capacity, head, cpc, new_head, old_head, out>>
    BY DEF Advance, consumer
  <1>4. cpc # "destroy" /\ c # << >> /\ c[Len(c)] = stub
    BY <1>2, <1>3 DEF ChainInv, ProducerInv
  <1>5. stub \in Nodes /\ stub \in On(c)
    BY <1>2, <1>4, ChainFacts
  <1>6. TypeOK'
    BY <1>2, <1>3, <1>5 DEF TypeOK
  <1>7. ChainInv(c)'
    <2>1. c \in Seq(Nodes) /\ IsChain(c, head, successor)'
      BY <1>2, <1>3 DEF ChainInv, successor
    <2>2. LiveNodes(c)'
      BY <1>2, <1>3, <1>5 DEF ChainInv, LiveNodes
    <2>3. ProducerInv(c)'
      BY <1>2, <1>3, <1>4 DEF ChainInv, ProducerInv
    <2>4. ConsumerInv(c)'
      BY <1>2, <1>3 DEF ChainInv, ConsumerInv
    <2>5. CountInv(c)'
      BY <1>2, <1>3 DEF ChainInv, CountInv
    <2> QED BY <2>1, <2>2, <2>3, <2>4, <2>5 DEF ChainInv
  <1> QED
    BY <1>2, <1>3, <1>4, <1>6, <1>7, Unseen

-----------------------------------------------------------------------------
(* The consumer                                                            *)

\* What the consumer loads is the second node of the chain, if there is one.
LEMMA HeadNext ==
  ASSUME NEW c, TypeOK, ChainInv(c), c # << >>
  PROVE  /\ head \in Nodes /\ node[head] # Null /\ node[head] \in NodeType
         /\ node[head].next = IF Len(c) = 1 THEN Null ELSE c[2]
         /\ Len(c) # 1 => Len(c) > 1 /\ c[2] \in Nodes /\ c[2] # Null
  <1>1. /\ head \in Nodes /\ node[head] # Null /\ node[head] \in NodeType
        /\ successor[head] = node[head].next
        /\ head = c[1] /\ 1 \in 1 .. Len(c) /\ Len(c) \in Nat \ {0}
    BY ChainFacts
  <1>2. successor[c[1]] = IF 1 = Len(c) THEN Null ELSE c[1 + 1]
    BY <1>1 DEF ChainInv, IsChain
  <1>3. Len(c) # 1 => 2 \in 1 .. Len(c) /\ Len(c) > 1
    <2>1. \A n \in Nat \ {0} : n # 1 => 2 \in 1 .. n /\ n > 1
      OBVIOUS
    <2> QED BY <2>1, <1>1
  <1>4. Len(c) # 1 => c[2] \in Nodes /\ c[2] # Null
    BY <1>3, ChainFacts, NullAssumption
  <1>5. successor[c[1]] = IF Len(c) = 1 THEN Null ELSE c[2]
    BY <1>2
  <1> QED
    BY <1>1, <1>3, <1>4, <1>5

\* A load of head->next that goes on to the element only if there is one.
LEMMA LoadHolds ==
  ASSUME IInv, cpc \in {"idle", "spin"},
         new_head' = node[head].next,
         cpc' \in {"idle", "spin", "take", "peek"},
         cpc' \in {"take", "peek"} => node[head].next # Null,
         UNCHANGED <<node, capacity, head, old_head, out, producer>>
  PROVE  StepHolds
  <1>1. PICK c : c = Chain
    OBVIOUS
  <1>2. TypeOK /\ ChainInv(c)
    BY <1>1 DEF IInv
  <1>3. UNCHANGED <<node, capacity, head, old_head, out, tail, ppc, stub, pvalue>>
    BY DEF producer
  <1>4. c # << >>
    BY <1>2, ChainFacts
  <1>5. /\ node[head].next = IF Len(c) = 1 THEN Null ELSE c[2]
        /\ Len(c) # 1 => Len(c) > 1 /\ c[2] \in Nodes
    BY <1>2, <1>4, HeadNext
  <1>6. TypeOK'
    BY <1>2, <1>3, <1>5 DEF TypeOK
  <1>7. ChainInv(c)'
    <2>1. c \in Seq(Nodes) /\ IsChain(c, head, successor)' /\ LiveNodes(c)'
      BY <1>2, <1>3, SameChain
    <2>2. ProducerInv(c)'
      BY <1>2, <1>3 DEF ChainInv, ProducerInv
    <2>3. ConsumerInv(c)'
      BY <1>2, <1>3, <1>5 DEF ChainInv, ConsumerInv
    <2>4. CountInv(c)'
      BY <1>2, <1>3 DEF ChainInv, CountInv
    <2> QED BY <2>1, <2>2, <2>3, <2>4 DEF ChainInv
  <1> QED
    BY <1>2, <1>3, <1>6, <1>7, Unseen

LEMMA CallHolds ==
  ASSUME IInv, TryPop \/ WaitAndPop \/ UnsafePeek \/ Spin
  PROVE  StepHolds
  BY LoadHolds DEF TryPop, WaitAndPop, UnsafePeek, Call, Spin

\* head moves past the node whose element is taken; the element was the oldest.
LEMMA TakeDataHolds ==
  ASSUME IInv, TakeData
  PROVE  StepHolds
  <1>1. PICK c : c = Chain
    OBVIOUS
  <1>2. TypeOK /\ ChainInv(c)
    BY <1>1 DEF IInv
  <1>3. /\ cpc = "take" /\ cpc' = "delete"
        /\ out' = node[head].data
        /\ node' = [node EXCEPT ![head].data = NoValue]
        /\ old_head' = head /\ head' = new_head
        /\ UNCHANGED <<capacity, new_head, tail, ppc, stub, pvalue>>
    BY DEF TakeData, producer
  <1>4. c # << >> /\ Len(c) > 1 /\ new_head = c[2] /\ old_head = Null /\ ppc # "joined"
    BY <1>2, <1>3, ChainFacts DEF ChainInv, ConsumerInv, ProducerInv
  <1>5. /\ head \in Nodes /\ head \in On(c) /\ node[head] # Null /\ node[head] \in NodeType
        /\ node[head].next = c[2] /\ successor[head] = c[2] /\ c[2] \in Nodes
        /\ Len(c) \in Nat /\ head = c[1] /\ head # c[Len(c)]
    <2>1. Len(c) # 1 /\ 1 \in 1 .. Len(c) - 1
      BY <1>2, <1>4, ChainFacts
    <2> QED BY <2>1, <1>2, <1>4, HeadNext, ChainFacts
  <1>6. /\ node'[head] = [data |-> NoValue, next |-> node[head].next]
        /\ \A m \in Nodes \ {head} : node'[m] = node[m]
    <2>1. /\ node'[head] = [node[head] EXCEPT !.data = NoValue]
          /\ \A m \in Nodes \ {head} : node'[m] = node[m]
      BY <1>2, <1>3, <1>5 DEF TypeOK
    <2> QED BY <2>1, <1>5, WithFields
  <1>7. node'[head] \in NodeType /\ node'[head] # Null
    BY <1>5, <1>6, DeletedAssumption DEF NodeType
  <1>8. TypeOK'
    <2>1. node' \in [Nodes -> NodeType \cup {Null}]
      BY <1>2, <1>3, <1>6, <1>7 DEF TypeOK
    <2>2. out' \in Value \cup {NoValue}
      BY <1>3, <1>5 DEF NodeType
    <2> QED BY <2>1, <2>2, <1>2, <1>3, <1>5 DEF TypeOK
  <1>9. PICK d : d = Tail(c)
    OBVIOUS
  <1>10. \A m \in On(c) \ {head} : successor'[m] = successor[m]
    <2>1. \A m \in On(c) : m \in Nodes
      BY <1>2, ChainFacts
    <2> QED BY <2>1, <1>6 DEF successor
  <1>11. /\ d \in Seq(Nodes) /\ IsChain(d, head, successor)' /\ On(d) = On(c) \ {head}
         /\ Len(d) = Len(c) - 1
         /\ \A i \in 1 .. Len(c) - 1 : d[i] = c[i + 1]
    <2>1. c \in Seq(Nodes) /\ IsChain(c, head, successor)
      BY <1>2 DEF ChainInv
    <2> QED BY <2>1, <1>3, <1>4, <1>5, <1>9, <1>10, ChainShortened
  <1>12. d # << >> /\ d[Len(d)] = c[Len(c)]
    <2>1. Len(c) - 1 \in 1 .. Len(c) - 1 /\ Len(d) # 0
      BY <1>4, <1>5, <1>11
    <2> QED BY <2>1, <1>5, <1>11, EmptySeq
  <1>13. ChainInv(d)'
    <2>1. LiveNodes(d)'
      <3>1. \A n \in On(d) : node'[n] # Null
        BY <1>2, <1>6, <1>11, ChainFacts
      <3>2. \A n \in Nodes : node'[n] # Null => n \in On(d) \/ n = stub \/ n = head
        BY <1>2, <1>4, <1>6, <1>11, NullAssumption DEF ChainInv, LiveNodes
      <3> QED BY <3>1, <3>2, <1>3 DEF LiveNodes
    <2>2. ProducerInv(d)'
      <3>1. ppc \in {"idle", "write", "count", "publish"} => tail # head
        BY <1>2, <1>5 DEF ChainInv, ProducerInv
      <3>2. /\ ppc \in {"write", "count", "publish"} => stub \in Nodes \ On(d) /\ node'[stub] = EmptyNode
            /\ ppc \in {"count", "publish"} => node'[tail].data = pvalue
        BY <3>1, <1>2, <1>3, <1>5, <1>6, <1>11 DEF ChainInv, ProducerInv, TypeOK
      <3> QED BY <3>2, <1>2, <1>3, <1>12 DEF ChainInv, ProducerInv
    <2>3. ConsumerInv(d)'
      <3>1. head \in Nodes \ On(d) /\ node'[head] # Null
        BY <1>5, <1>7, <1>11
      <3>2. ppc \in {"write", "count", "publish"} => head # stub
        BY <1>2, <1>5 DEF ChainInv, ProducerInv
      <3> QED BY <3>1, <3>2, <1>3 DEF ConsumerInv
    <2>4. CountInv(d)'
      BY <1>2, <1>3, <1>5, <1>11 DEF ChainInv, CountInv, TypeOK
    <2> QED BY <1>11, <2>1, <2>2, <2>3, <2>4 DEF ChainInv
  <1>14. /\ Items # << >> /\ out' = Head(Items) /\ Items' = Tail(Items)
    <2>1. Items' = [i \in 1 .. Len(d) - 1 |-> node'[d[i]].data]
      BY <1>3, <1>8, <1>13, ChainOfNext DEF ItemsOf
    <2>2. Items = [i \in 1 .. Len(c) - 1 |-> node[c[i]].data]
      BY <1>2, <1>3, ChainOf DEF Items, ItemsOf
    <2>3. \A i \in 1 .. Len(d) - 1 : node'[d[i]].data = node[c[i + 1]].data
      <3> TAKE i \in 1 .. Len(d) - 1
      <3>1. i \in 1 .. Len(c) - 1 /\ i \in 1 .. Len(d)
        BY <1>5, <1>11
      <3>2. d[i] \in On(d) /\ d[i] = c[i + 1]
        BY <3>1, <1>11 DEF On
      <3>3. d[i] \in Nodes \ {head}
        BY <3>2, <1>2, <1>11, ChainFacts
      <3> QED BY <3>2, <3>3, <1>6
    <2>4. \A i \in 1 .. Len(c) - 1 : node[c[i]].data \in Value \cup {NoValue}
      BY <1>2, <1>4, ChainFacts DEF NodeType
    <2>5. /\ Items \in Seq(Value \cup {NoValue}) /\ Len(Items) = Len(c) - 1
          /\ \A i \in 1 .. Len(c) - 1 : Items[i] = node[c[i]].data
      <3>1. Len(c) - 1 \in Nat
        BY <1>4, <1>5
      <3> QED BY <3>1, <2>2, <2>4
    <2> HIDE DEF Items
    <2>6. Items # << >> /\ Head(Items) = node[head].data
      <3>1. 1 \in 1 .. Len(c) - 1 /\ Len(Items) # 0
        BY <1>4, <1>5, <2>5
      <3> QED BY <3>1, <1>5, <2>5, EmptySeq, HeadTailProperties
    <2>7. /\ Tail(Items) \in Seq(Value \cup {NoValue}) /\ Len(Tail(Items)) = Len(d) - 1
          /\ \A i \in 1 .. Len(d) - 1 : Tail(Items)[i] = Items[i + 1]
      BY <2>5, <2>6, <1>11, HeadTailProperties
    <2>8. \A i \in 1 .. Len(d) - 1 : Tail(Items)[i] = node'[d[i]].data
      BY <2>3, <2>5, <2>7, <1>5, <1>11
    <2>9. Tail(Items) = [i \in 1 .. Len(d) - 1 |-> Tail(Items)[i]]
      BY <2>7, LenProperties
    <2> QED BY <2>1, <2>6, <2>8, <2>9, <1>3, Zenon
  <1> QED
    BY <1>8, <1>13, <1>14, ChainOfNext DEF StepHolds, Fifo!Next, Fifo!Pop

LEMMA DeleteHolds ==
  ASSUME IInv, Delete
  PROVE  StepHolds
  <1>1. PICK c : c = Chain
    OBVIOUS
  <1>2. TypeOK /\ ChainInv(c)
    BY <1>1 DEF IInv
  <1>3. /\ cpc = "delete" /\ cpc' = "uncount" /\ old_head' = Null
        /\ node' = [node EXCEPT ![old_head] = Null]
        /\ UNCHANGED <<capacity, head, new_head, out, tail, ppc, stub, pvalue>>
    BY DEF Delete, producer
  <1>4. /\ old_head \in Nodes \ On(c)
        /\ ppc \in {"write", "count", "publish"} => old_head # stub
    BY <1>2, <1>3 DEF ChainInv, ConsumerInv
  <1>5. node'[old_head] = Null /\ \A m \in Nodes \ {old_head} : node'[m] = node[m]
    BY <1>2, <1>3, <1>4 DEF TypeOK
  <1>6. TypeOK'
    BY <1>2, <1>3 DEF TypeOK
  <1>7. \A m \in On(c) : m \in Nodes \ {old_head} /\ node'[m] = node[m] /\ successor'[m] = successor[m]
    BY <1>2, <1>4, <1>5, ChainFacts DEF successor
  <1>8. ChainInv(c)'
    <2>1. c \in Seq(Nodes) /\ IsChain(c, head, successor)'
      BY <1>2, <1>3, <1>7, ChainKept DEF ChainInv
    <2>2. LiveNodes(c)'
      BY <1>2, <1>3, <1>5, <1>7 DEF ChainInv, LiveNodes
    <2>3. ProducerInv(c)'
      <3>1. ppc \in {"count", "publish"} => tail \in On(c)
        BY <1>2, ChainFacts DEF ChainInv, ProducerInv
      <3> QED BY <3>1, <1>2, <1>3, <1>4, <1>5, <1>7 DEF ChainInv, ProducerInv
    <2>4. ConsumerInv(c)'
      BY <1>2, <1>3 DEF ChainInv, ConsumerInv
    <2>5. CountInv(c)'
      BY <1>2, <1>3 DEF ChainInv, CountInv
    <2> QED BY <2>1, <2>2, <2>3, <2>4, <2>5 DEF ChainInv
  <1>9. \A i \in 1 .. Len(c) - 1 : node'[c[i]].data = node[c[i]].data
    BY <1>2, <1>3, <1>7, ChainFacts
  <1> QED
    BY <1>2, <1>3, <1>6, <1>8, <1>9, Unseen

LEMMA ReturnHolds ==
  ASSUME IInv, Uncount \/ PeekData
  PROVE  StepHolds
  <1>1. PICK c : c = Chain
    OBVIOUS
  <1>2. TypeOK /\ ChainInv(c)
    BY <1>1 DEF IInv
  <1>3. /\ cpc # "destroy" /\ cpc' = "idle" /\ new_head' = Null /\ cpc # "delete"
        /\ UNCHANGED <<node, head, old_head, out, tail, ppc, stub, pvalue>>
        /\ IF cpc = "uncount" THEN capacity' = capacity - 1 ELSE cpc = "peek" /\ capacity' = capacity
    BY DEF Uncount, PeekData, producer
  <1>4. CountInv(c)'
    <2>1. /\ Len(c) \in Nat /\ capacity \in Nat
          /\ capacity = Len(c) - 1 + (IF ppc = "publish" THEN 1 ELSE 0)
                         + (IF cpc = "uncount" THEN 1 ELSE 0)
      BY <1>2, <1>3, ChainFacts DEF ChainInv, CountInv, TypeOK
    <2>2. capacity' = Len(c) - 1 + (IF ppc = "publish" THEN 1 ELSE 0)
      BY <2>1, <1>3
    <2> QED BY <2>2, <1>3 DEF CountInv
  <1>5. TypeOK'
    <2>1. capacity' \in Nat
      <3>1. Len(c) \in Nat \ {0}
        BY <1>2, <1>3, ChainFacts
      <3> QED BY <3>1, <1>3, <1>4 DEF CountInv
    <2> QED BY <2>1, <1>2, <1>3 DEF TypeOK
  <1>6. ChainInv(c)'
    <2>1. c \in Seq(Nodes) /\ IsChain(c, head, successor)' /\ LiveNodes(c)'
      BY <1>2, <1>3, SameChain
    <2>2. ProducerInv(c)'
      BY <1>2, <1>3 DEF ChainInv, ProducerInv
    <2>3. ConsumerInv(c)'
      BY <1>2, <1>3 DEF ChainInv, ConsumerInv
    <2> QED BY <2>1, <2>2, <2>3, <1>4 DEF ChainInv
  <1> QED
    BY <1>2, <1>3, <1>5, <1>6, Unseen

-----------------------------------------------------------------------------
(* The destructor                                                          *)

LEMMA DestroyHolds ==
  ASSUME IInv, Destroy
  PROVE  StepHolds
  <1>1. PICK c : c = Chain
    OBVIOUS
  <1>2. TypeOK /\ ChainInv(c)
    BY <1>1 DEF IInv
  <1>3. /\ ppc = "idle" /\ cpc = "idle" /\ ppc' = "joined" /\ cpc' = "destroy"
        /\ UNCHANGED <<node, capacity, head, tail, stub, pvalue, new_head, old_head, out>>
    BY DEF Destroy
  <1>4. TypeOK'
    BY <1>2, <1>3 DEF TypeOK
  <1>5. ChainInv(c)'
    <2>1. c \in Seq(Nodes) /\ IsChain(c, head, successor)' /\ LiveNodes(c)'
      BY <1>2, <1>3, SameChain
    <2>2. ProducerInv(c)'
      BY <1>2, <1>3 DEF ChainInv, ProducerInv
    <2>3. ConsumerInv(c)'
      BY <1>2, <1>3 DEF ChainInv, ConsumerInv
    <2>4. CountInv(c)'
      BY <1>3 DEF CountInv
    <2> QED BY <2>1, <2>2, <2>3, <2>4 DEF ChainInv
  <1>6. IInv' /\ Items' = << >>
    BY <1>3, <1>4, <1>5, ChainOfNext DEF ItemsOf
  <1> QED
    BY <1>3, <1>6 DEF StepHolds, Fifo!Next, Fifo!Clear

\* Neither thread has a node in hand, so what is live is on the chain.
LEMMA DeleteNextHolds ==
  ASSUME IInv, DeleteNext
  PROVE  StepHolds
  <1>1. PICK c : c = Chain
    OBVIOUS
  <1>2. TypeOK /\ ChainInv(c)
    BY <1>1 DEF IInv
  <1>3. /\ cpc = "destroy" /\ cpc' = "destroy" /\ head # Null
        /\ head' = node[head].next
        /\ node' = [node EXCEPT ![head] = Null]
        /\ UNCHANGED <<capacity, new_head, old_head, out, tail, ppc, stub, pvalue>>
    BY DEF DeleteNext, producer
  <1>4. c # << >> /\ ppc = "joined" /\ stub = Null /\ old_head = Null
    BY <1>2, <1>3, ChainFacts DEF ChainInv, ProducerInv, ConsumerInv
  <1>5. /\ head \in Nodes /\ head' \in Nodes \cup {Null} /\ head' = successor[head]
    BY <1>2, <1>3, <1>4, HeadNext, ChainFacts
  <1>6. node'[head] = Null /\ \A m \in Nodes \ {head} : node'[m] = node[m]
    BY <1>2, <1>3, <1>5 DEF TypeOK
  <1>7. TypeOK'
    BY <1>2, <1>3, <1>5 DEF TypeOK
  <1>8. PICK d : d = Tail(c)
    OBVIOUS
  <1>9. \A m \in On(c) \ {head} : m \in Nodes /\ node'[m] = node[m] /\ successor'[m] = successor[m]
    BY <1>2, <1>6, ChainFacts DEF successor
  <1>10. d \in Seq(Nodes) /\ IsChain(d, head, successor)' /\ On(d) = On(c) \ {head}
    <2>1. c \in Seq(Nodes) /\ IsChain(c, head, successor)
      BY <1>2 DEF ChainInv
    <2> QED BY <2>1, <1>4, <1>5, <1>8, <1>9, ChainShortened
  <1>11. ChainInv(d)'
    <2>1. LiveNodes(d)'
      BY <1>2, <1>3, <1>4, <1>6, <1>9, <1>10 DEF ChainInv, LiveNodes
    <2>2. ProducerInv(d)'
      BY <1>3, <1>4 DEF ProducerInv
    <2>3. ConsumerInv(d)'
      BY <1>3, <1>4 DEF ConsumerInv
    <2>4. CountInv(d)'
      BY <1>3 DEF CountInv
    <2> QED BY <1>10, <2>1, <2>2, <2>3, <2>4 DEF ChainInv
  <1>12. IInv' /\ Items' = << >> /\ Items = << >>
    BY <1>2, <1>3, <1>7, <1>11, ChainOfNext DEF Items, ItemsOf
  <1> QED
    BY <1>3, <1>12 DEF StepHolds, Fifo!vars

\* A queue of one node is a chain, whether it is the first or made anew.
Fresh ==
  /\ head \in Nodes /\ tail = head
  /\ node = [m \in Nodes |-> IF m = head THEN EmptyNode ELSE Null]
  /\ capacity = 0
  /\ stub = Null /\ old_head = Null
  /\ ppc = "idle" /\ cpc = "idle"

OneNode == \E c : ChainInv(c) /\ ItemsOf(c) = << >>

LEMMA FreshChain == Fresh => OneNode
  <1> SUFFICES ASSUME Fresh PROVE OneNode
    OBVIOUS
  <1>1. PICK c : c = << head >>
    OBVIOUS
  <1>2. EmptyNode # Null /\ EmptyNode.next = Null
    BY DeletedAssumption DEF EmptyNode, NodeType
  <1>3. node[head] = EmptyNode /\ \A m \in Nodes \ {head} : node[m] = Null
    BY DEF Fresh
  <1>4. successor[head] = Null
    BY <1>2, <1>3 DEF successor, Fresh
  <1>5. c \in Seq(Nodes) /\ IsChain(c, head, successor) /\ On(c) = {head}
    BY <1>1, <1>4, ChainStarted DEF Fresh
  <1>6. Len(c) = 1 /\ c[1] = head /\ c # << >>
    BY <1>1
  <1>7. LiveNodes(c)
    BY <1>2, <1>3, <1>5 DEF LiveNodes
  <1>8. ProducerInv(c) /\ ConsumerInv(c) /\ CountInv(c)
    BY <1>6 DEF ProducerInv, ConsumerInv, CountInv, Fresh
  <1>9. ItemsOf(c) = << >>
    BY <1>6 DEF ItemsOf
  <1> QED
    BY <1>5, <1>7, <1>8, <1>9 DEF ChainInv, OneNode

LEMMA ConstructHolds ==
  ASSUME IInv, Construct
  PROVE  StepHolds
  <1>1. PICK c : c = Chain
    OBVIOUS
  <1>2. TypeOK /\ ChainInv(c)
    BY <1>1 DEF IInv
  <1>3. PICK n \in Nodes :
          /\ cpc = "destroy" /\ head = Null /\ cpc' = "idle" /\ ppc' = "idle"
          /\ node' = [node EXCEPT ![n] = EmptyNode]
          /\ head' = n /\ tail' = n /\ capacity' = 0
          /\ UNCHANGED <<stub, pvalue, new_head, old_head, out>>
    BY DEF Construct
  <1>4. c = << >>
    BY <1>2, <1>3, ChainFacts, NullAssumption
  <1>5. On(c) = {} /\ stub = Null /\ old_head = Null
    BY <1>2, <1>3, <1>4 DEF ChainInv, ProducerInv, ConsumerInv, On
  <1>6. \A m \in Nodes : node[m] = Null
    BY <1>2, <1>5, NullAssumption DEF ChainInv, LiveNodes
  <1>7. node' = [m \in Nodes |-> IF m = n THEN EmptyNode ELSE Null]
    BY <1>2, <1>3, <1>6 DEF TypeOK
  <1>8. EmptyNode \in NodeType
    BY DEF EmptyNode, NodeType
  <1>9. TypeOK'
    BY <1>2, <1>3, <1>8 DEF TypeOK
  <1>10. PICK d : ChainInv(d)' /\ ItemsOf(d)' = << >>
    <2>1. Fresh'
      BY <1>3, <1>5, <1>7 DEF Fresh
    <2>2. OneNode'
      BY <2>1, FreshChain, PTL
    <2> QED BY <2>2 DEF OneNode
  <1>11. IInv' /\ Items' = << >> /\ Items = << >>
    BY <1>3, <1>9, <1>10, ChainOfNext DEF Items, ItemsOf
  <1> QED
    BY <1>3, <1>11 DEF StepHolds, Fifo!vars

-----------------------------------------------------------------------------
(* The specification                                                       *)

LEMMA InitHolds ==
  ASSUME Init
  PROVE  IInv /\ Items = << >>
  <1>1. TypeOK
    BY DEF Init, TypeOK, EmptyNode, NodeType
  <1>2. PICK c : ChainInv(c) /\ ItemsOf(c) = << >>
    BY FreshChain DEF Init, Fresh, OneNode
  <1> QED
    BY <1>1, <1>2, ChainOf DEF IInv, Items

LEMMA NextHolds ==
  ASSUME IInv, [Next]_vars
  PROVE  StepHolds
  <1>1. CASE UNCHANGED vars
    <2>1. /\ UNCHANGED <<node, capacity, head, tail, ppc, stub, pvalue>>
          /\ UNCHANGED <<cpc, new_head, old_head, out>>
      BY <1>1 DEF vars, producer, consumer
    <2>2. PICK c : c = Chain
      OBVIOUS
    <2>3. TypeOK /\ ChainInv(c)
      BY <2>2 DEF IInv
    <2>4. TypeOK'
      BY <2>1, <2>3 DEF TypeOK
    <2>5. ChainInv(c)'
      <3>1. c \in Seq(Nodes) /\ IsChain(c, head, successor)' /\ LiveNodes(c)'
        BY <2>1, <2>3, SameChain
      <3>2. ProducerInv(c)' /\ ConsumerInv(c)' /\ CountInv(c)'
        BY <2>1, <2>3 DEF ChainInv, ProducerInv, ConsumerInv, CountInv
      <3> QED BY <3>1, <3>2 DEF ChainInv
    <2>6. Items = ItemsOf(c) /\ IInv' /\ Items' = ItemsOf(c)'
      BY <2>3, <2>4, <2>5, ChainOf, ChainOfNext DEF Items
    <2>7. ItemsOf(c)' = ItemsOf(c)
      BY <2>1 DEF ItemsOf
    <2> QED BY <2>1, <2>6, <2>7 DEF StepHolds, Fifo!vars
  <1>2. CASE Next
    BY <1>2, PushHolds, WriteDataHolds, CountHolds, PublishHolds, AdvanceHolds, CallHolds,
       TakeDataHolds, DeleteHolds, ReturnHolds, DestroyHolds, DeleteNextHolds, ConstructHolds
       DEF Next
  <1> QED BY <1>1, <1>2

\* In every reachable state the live nodes are one chain from head, and what
\* either thread has in hand.
THEOREM Invariance == Spec => []IInv
  <1>1. Init => IInv
    BY InitHolds
  <1>2. IInv /\ [Next]_vars => IInv'
    BY NextHolds DEF StepHolds
  <1> QED
    BY <1>1, <1>2, PTL DEF Spec

\* Pointers point to nodes or are null, and the counter never wraps below zero.
THEOREM TypeCorrect == Spec => []TypeOK
  <1>1. IInv => TypeOK
    BY DEF IInv
  <1> QED
    BY <1>1, Invariance, PTL

\* Neither thread, nor the destructor, follows a pointer to a deleted node, the
\* element that is taken is not one that is being filled, and no node is left
\* behind by a destroyed queue.
THEOREM MemoryIsSafe == Spec => []MemorySafe
  <1>1. ASSUME IInv PROVE MemorySafe
    <2>1. PICK c : c = Chain
      OBVIOUS
    <2>2. TypeOK /\ ChainInv(c)
      BY <1>1, <2>1 DEF IInv
    <2>3. ASSUME head = Null PROVE cpc = "destroy" /\ \A n \in Nodes : node[n] = Null
      <3>1. c = << >>
        BY <2>2, <2>3, ChainFacts, NullAssumption
      <3>2. cpc = "destroy" /\ On(c) = {}
        BY <2>2, <3>1, ChainFacts DEF On
      <3>3. stub = Null /\ old_head = Null
        BY <2>2, <3>2 DEF ChainInv, ProducerInv, ConsumerInv
      <3> QED BY <2>2, <3>2, <3>3, NullAssumption DEF ChainInv, LiveNodes
    <2>4. head # Null => node[head] # Null
      BY <2>2, ChainFacts
    <2>5. ppc \notin {"advance", "joined"} => node[tail] # Null
      BY <2>2, ChainFacts DEF ChainInv, ProducerInv, TypeOK
    <2>6. ~ (ppc = "write" /\ cpc \in {"take", "peek"} /\ head = tail)
      <3> SUFFICES ASSUME ppc = "write", cpc \in {"take", "peek"} PROVE head # tail
        OBVIOUS
      <3>1. c # << >> /\ Len(c) > 1 /\ c[Len(c)] = tail
        BY <2>2, ChainFacts DEF ChainInv, ProducerInv, ConsumerInv
      <3>2. Len(c) \in Nat /\ head = c[1] /\ \A i \in 1 .. Len(c) - 1 : c[i] # c[Len(c)]
        BY <2>2, <3>1, ChainFacts
      <3>3. 1 \in 1 .. Len(c) - 1
        BY <3>1, <3>2
      <3> QED BY <3>1, <3>2, <3>3
    <2> QED BY <2>3, <2>4, <2>5, <2>6 DEF MemorySafe
  <1> QED
    BY <1>1, Invariance, PTL

\* size() counts every element that is in the chain.
THEOREM SizeNeverShort == Spec => []SizeIsNeverShort
  <1>1. ASSUME IInv PROVE SizeIsNeverShort
    <2>1. PICK c : c = Chain
      OBVIOUS
    <2>2. TypeOK /\ ChainInv(c)
      BY <1>1, <2>1 DEF IInv
    <2>3. ASSUME cpc # "destroy" PROVE Len(Items) = Len(c) - 1
      <3>1. Items = [i \in 1 .. Len(c) - 1 |-> node[c[i]].data]
        BY <2>2, <2>3, ChainOf DEF Items, ItemsOf
      <3>2. Len(c) - 1 \in Nat
        BY <2>2, <2>3, ChainFacts
      <3> QED BY <3>1, <3>2
    <2> QED BY <2>2, <2>3 DEF SizeIsNeverShort, ChainInv, CountInv
  <1> QED
    BY <1>1, Invariance, PTL

\* The chain is a FIFO queue, for every number of nodes and of elements.
THEOREM ChainIsFifo == Spec => ImplementsFifo
  <1>1. Init => Fifo!Init
    BY InitHolds DEF Init, Fifo!Init
  <1>2. IInv /\ [Next]_vars => [Fifo!Next]_(Fifo!vars)
    BY NextHolds DEF StepHolds
  <1> QED
    BY <1>1, <1>2, Invariance, PTL DEF Spec, ImplementsFifo, Fifo!Spec
=============================================================================
