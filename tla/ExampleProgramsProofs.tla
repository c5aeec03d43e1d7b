------------------------ MODULE ExampleProgramsProofs ------------------------
(***************************************************************************)
(* Proofs about ExamplePrograms, for every number of threads, of elements  *)
(* and of places in the bounded queues: every element is in one place, and *)
(* when a program ends each has been handled once.                         *)
(***************************************************************************)
EXTENDS ExamplePrograms, SequenceTheorems, TLAPS

(***************************************************************************)
(* What occurs in a sequence after Append and Tail, and that both keep the *)
(* occurrences apart.                                                      *)
(***************************************************************************)
LEMMA AppendOccurs ==
  ASSUME NEW S, NEW s \in Seq(S), NEW v \in S,
         \A i, j \in 1 .. Len(s) : s[i] = s[j] => i = j,
         \A i \in 1 .. Len(s) : s[i] # v
  PROVE  /\ Append(s, v) \in Seq(S)
         /\ \A e : (\E i \in 1 .. Len(Append(s, v)) : Append(s, v)[i] = e)
                     <=> (\E i \in 1 .. Len(s) : s[i] = e) \/ e = v
         /\ \A i, j \in 1 .. Len(Append(s, v)) :
              Append(s, v)[i] = Append(s, v)[j] => i = j
  <1>1. /\ Append(s, v) \in Seq(S)
        /\ Len(Append(s, v)) = Len(s) + 1
        /\ \A i \in 1 .. Len(s) : Append(s, v)[i] = s[i]
        /\ Append(s, v)[Len(s) + 1] = v
    BY AppendProperties
  <1>2. Len(s) \in Nat
    BY LenProperties
  <1>3. 1 .. Len(s) + 1 = (1 .. Len(s)) \cup {Len(s) + 1}
    BY <1>2
  <1> QED
    BY <1>1, <1>3

LEMMA TailOccurs ==
  ASSUME NEW S, NEW s \in Seq(S), s # << >>,
         \A i, j \in 1 .. Len(s) : s[i] = s[j] => i = j
  PROVE  /\ Head(s) \in S
         /\ Tail(s) \in Seq(S)
         /\ \E i \in 1 .. Len(s) : s[i] = Head(s)
         /\ \A e : (\E i \in 1 .. Len(Tail(s)) : Tail(s)[i] = e)
                     <=> (\E i \in 1 .. Len(s) : s[i] = e) /\ e # Head(s)
         /\ \A i, j \in 1 .. Len(Tail(s)) : Tail(s)[i] = Tail(s)[j] => i = j
  <1>1. /\ Head(s) \in S
        /\ Tail(s) \in Seq(S)
        /\ Len(Tail(s)) = Len(s) - 1
        /\ \A i \in 1 .. Len(Tail(s)) : Tail(s)[i] = s[i + 1]
    BY HeadTailProperties
  <1>2. Len(s) \in Nat \ {0}
    BY EmptySeq
  <1>3. Head(s) = s[1] /\ 1 \in 1 .. Len(s)
    BY <1>2
  <1>4. \A i \in 1 .. Len(s) : i # 1 => i - 1 \in 1 .. Len(s) - 1 /\ (i - 1) + 1 = i
    BY <1>2
  <1>5. \A i \in 1 .. Len(s) - 1 : i + 1 \in 1 .. Len(s) /\ i + 1 # 1
    BY <1>2
  <1>6. ASSUME NEW e
        PROVE  (\E i \in 1 .. Len(Tail(s)) : Tail(s)[i] = e)
                 <=> (\E i \in 1 .. Len(s) : s[i] = e) /\ e # Head(s)
    <2>1. ASSUME NEW i \in 1 .. Len(Tail(s)), Tail(s)[i] = e
          PROVE  (\E k \in 1 .. Len(s) : s[k] = e) /\ e # Head(s)
      <3>1. i + 1 \in 1 .. Len(s) /\ i + 1 # 1 /\ s[i + 1] = e
        BY <1>1, <1>5, <2>1
      <3> QED
        BY <3>1, <1>3
    <2>2. ASSUME NEW i \in 1 .. Len(s), s[i] = e, e # Head(s)
          PROVE  \E k \in 1 .. Len(Tail(s)) : Tail(s)[k] = e
      <3>1. i # 1
        BY <1>3, <2>2
      <3>2. i - 1 \in 1 .. Len(Tail(s)) /\ s[(i - 1) + 1] = e
        BY <1>1, <1>4, <2>2, <3>1
      <3> QED
        BY <1>1, <3>2
    <2> QED
      BY <2>1, <2>2
  <1>7. ASSUME NEW i \in 1 .. Len(Tail(s)), NEW j \in 1 .. Len(Tail(s)),
               Tail(s)[i] = Tail(s)[j]
        PROVE  i = j
    <2>1. s[i + 1] = s[j + 1] /\ i + 1 \in 1 .. Len(s) /\ j + 1 \in 1 .. Len(s)
      BY <1>1, <1>5, <1>7
    <2>2. i + 1 = j + 1
      BY <2>1
    <2> QED
      BY <2>2
  <1> QED
    BY <1>1, <1>3, <1>6, <1>7

-----------------------------------------------------------------------------
LEMMA NoneIsNoElement == None \notin Elements
  BY DEF None, Elements

\* A program starts with an empty queue and idle threads.
LEMMA InitInv == Init => IInv
  <1> SUFFICES ASSUME Init PROVE IInv
    OBVIOUS
  <1>0. items \in Seq(Elements)
    BY EmptySeq DEF Init, Queue!Init
  <1>1. TypeOK
    <2>1. pushed \in [Producers -> 0 .. Count] /\ handled \in [Elements -> Nat]
      BY CountAssumption DEF Init
    <2>2. /\ ppc \in [Producers -> {"loop", "pushing", "done"}]
          /\ cpc \in [Consumers -> {"loop", "empty", "pop", "drain", "handle",
                                    "handle_last", "left"}]
          /\ task \in [Consumers -> Elements \cup {None}]
      BY DEF Init
    <2> QED
      BY <1>0, <2>1, <2>2 DEF Init, TypeOK, Queue!Init
  <1>2. ThreadsInv
    BY CountAssumption DEF Init, ThreadsInv, Queue!Init
  <1>3. ElementsInv
    BY CountAssumption
       DEF Init, ElementsInv, InQueue, Held, Pushed, Elements, Queue!Init, None
  <1> QED
    BY <1>1, <1>2, <1>3 DEF IInv

-----------------------------------------------------------------------------
\* An element is new to the queue when it is pushed.
LEMMA PushInv ==
  ASSUME IInv, NEW p \in Producers, Push(p)
  PROVE  IInv'
  <1> DEFINE new == <<p, pushed[p] + 1>>
  <1>1. /\ TypeOK /\ ThreadsInv /\ ElementsInv
        /\ ppc[p] = "loop"
        /\ items' = Append(items, new)
        /\ pushed' = [pushed EXCEPT ![p] = @ + 1]
        /\ ppc' = [ppc EXCEPT ![p] = "pushing"]
        /\ UNCHANGED <<program, out, running, cpc, task, handled, finished>>
    BY DEF IInv, Push, Queue!Push, consumers
  <1>2. pushed[p] \in 0 .. Count /\ pushed[p] < Count /\ running
    BY <1>1 DEF TypeOK, ThreadsInv
  <1>3. new \in Elements
    BY <1>2, CountAssumption DEF Elements, Producers
  <1>4. new[1] = p /\ new[2] = pushed[p] + 1
    OBVIOUS
  <1>5. ~ Pushed(new)
    BY <1>2, <1>4, CountAssumption DEF Pushed
  <1>6. ~ InQueue(new) /\ ~ Held(new) /\ handled[new] = 0
    BY <1>1, <1>3, <1>5 DEF ElementsInv
  <1>7. /\ items' \in Seq(Elements)
        /\ \A e : InQueue(e)' <=> InQueue(e) \/ e = new
        /\ \A i, j \in 1 .. Len(items') : items'[i] = items'[j] => i = j
    <2>1. \A i \in 1 .. Len(items) : items[i] # new
      BY <1>6 DEF InQueue
    <2>2. items \in Seq(Elements) /\ \A i, j \in 1 .. Len(items) : items[i] = items[j] => i = j
      BY <1>1 DEF TypeOK, ElementsInv
    <2> HIDE DEF new
    <2> QED
      BY <1>1, <1>3, <2>1, <2>2, AppendOccurs DEF InQueue
  <1>8. \A e \in Elements : Pushed(e)' <=> Pushed(e) \/ e = new
    <2> SUFFICES ASSUME NEW e \in Elements PROVE Pushed(e)' <=> Pushed(e) \/ e = new
      OBVIOUS
    <2>1. e = <<e[1], e[2]>> /\ e[2] \in 1 .. Count
      BY DEF Elements
    <2>2. Producers' = Producers
      BY <1>1 DEF Producers
    <2>3. CASE e[1] = p
      <3>1. pushed'[p] = pushed[p] + 1
        BY <1>1 DEF TypeOK
      <3>2. e = new <=> e[2] = pushed[p] + 1
        BY <2>1, <2>3
      <3> HIDE DEF new
      <3> QED
        BY <2>1, <2>2, <2>3, <1>2, <3>1, <3>2, CountAssumption DEF Pushed
    <2>4. CASE e[1] # p
      <3>1. e # new
        BY <1>4, <2>4
      <3>2. e[1] \in Producers => pushed'[e[1]] = pushed[e[1]]
        BY <1>1, <2>4 DEF TypeOK
      <3> QED
        BY <2>2, <3>1, <3>2 DEF Pushed
    <2> QED
      BY <2>3, <2>4
  <1> HIDE DEF new
  <1>9. TypeOK'
    BY <1>1, <1>2, <1>7, CountAssumption DEF TypeOK, Producers, Consumers
  <1>10. ThreadsInv'
    BY <1>1, <1>2 DEF TypeOK, ThreadsInv, Producers, Consumers
  <1>11. \A e : Held(e)' <=> Held(e)
    BY <1>1 DEF Held, Consumers
  <1>12. ElementsInv'
    BY <1>1, <1>6, <1>7, <1>8, <1>11 DEF ElementsInv, Consumers
  <1> QED
    BY <1>9, <1>10, <1>12 DEF IInv

\* A pop takes the oldest element from the queue to a consumer that has none.
LEMMA TryPopInv ==
  ASSUME IInv, NEW c \in Consumers, TryPop(c)
  PROVE  IInv'
  <1> DEFINE first == Head(items)
  <1>1. /\ TypeOK /\ ThreadsInv /\ ElementsInv
        /\ cpc[c] \in {"pop", "drain"}
        /\ items # << >> /\ items' = Tail(items) /\ out' = first
        /\ task' = [task EXCEPT ![c] = first]
        /\ cpc' = [cpc EXCEPT ![c] = IF cpc[c] = "pop" THEN "handle" ELSE "handle_last"]
        /\ UNCHANGED <<program, pushed, ppc, running, handled, finished>>
    BY DEF IInv, TryPop, Queue!Pop, producers
  <1>2. Producers' = Producers /\ Consumers' = Consumers
    BY <1>1 DEF Producers, Consumers
  <1>3. /\ first \in Elements
        /\ InQueue(first)
        /\ items' \in Seq(Elements)
        /\ \A e : InQueue(e)' <=> InQueue(e) /\ e # first
        /\ \A i, j \in 1 .. Len(items') : items'[i] = items'[j] => i = j
    <2>1. items \in Seq(Elements) /\ \A i, j \in 1 .. Len(items) : items[i] = items[j] => i = j
      BY <1>1 DEF TypeOK, ElementsInv
    <2> QED
      BY <1>1, <2>1, TailOccurs, SMTT(20) DEF InQueue
  <1> HIDE DEF first
  <1>4. first # None
    BY <1>3, NoneIsNoElement
  <1>5. task[c] = None
    BY <1>1 DEF ThreadsInv
  <1>6. /\ task'[c] = first
        /\ \A d \in Consumers : d # c => task'[d] = task[d]
        /\ cpc'[c] \in {"handle", "handle_last"}
        /\ \A d \in Consumers : d # c => cpc'[d] = cpc[d]
    BY <1>1 DEF TypeOK
  <1>7. \A e \in Elements : Held(e)' <=> Held(e) \/ e = first
    BY <1>2, <1>5, <1>6, NoneIsNoElement DEF Held
  <1>8. TypeOK'
    BY <1>1, <1>2, <1>3 DEF TypeOK
  <1>9. ThreadsInv'
    <2>1. \A d \in Consumers : cpc[d] # "left"
      BY <1>1 DEF ThreadsInv
    <2>2. cpc'[c] = "handle_last" => cpc[c] = "drain"
      BY <1>1 DEF TypeOK
    <2> QED
      BY <1>1, <1>2, <1>4, <1>6, <2>1, <2>2 DEF ThreadsInv
  <1>10. ElementsInv'
    <2>1. \A e \in Elements : Pushed(e)' <=> Pushed(e)
      BY <1>1, <1>2 DEF Pushed
    <2>2. \A d \in Consumers : task[d] # first
      BY <1>1, <1>3 DEF ElementsInv, Held
    <2>3. \A d1, d2 \in Consumers :
            task'[d1] = task'[d2] /\ task'[d1] # None => d1 = d2
      BY <1>1, <1>6, <2>2 DEF ElementsInv
    <2> QED
      BY <1>1, <1>2, <1>3, <1>7, <2>1, <2>3 DEF ElementsInv
  <1> QED
    BY <1>8, <1>9, <1>10 DEF IInv

\* The consumer that holds an element handles it, and nobody else does.
LEMMA HandleInv ==
  ASSUME IInv, NEW c \in Consumers, Handle(c)
  PROVE  IInv'
  <1> DEFINE held == task[c]
  <1>1. /\ TypeOK /\ ThreadsInv /\ ElementsInv
        /\ cpc[c] \in {"handle", "handle_last"}
        /\ handled' = [handled EXCEPT ![held] = @ + 1]
        /\ task' = [task EXCEPT ![c] = None]
        /\ cpc' = [cpc EXCEPT ![c] = IF cpc[c] = "handle" THEN "loop" ELSE "drain"]
        /\ UNCHANGED <<program, items, out, pushed, ppc, running, finished>>
    BY DEF IInv, Handle, producers, queue
  <1>2. Producers' = Producers /\ Consumers' = Consumers
    BY <1>1 DEF Producers, Consumers
  <1>3. held \in Elements /\ held # None
    BY <1>1 DEF TypeOK, ThreadsInv
  <1>4. Held(held) /\ \A d \in Consumers : d # c => task[d] # held
    BY <1>1, <1>3 DEF ElementsInv, Held
  <1>5. /\ task'[c] = None
        /\ \A d \in Consumers : d # c => task'[d] = task[d]
        /\ \A d \in Consumers : d # c => cpc'[d] = cpc[d]
        /\ cpc'[c] \in {"loop", "drain"}
        /\ cpc'[c] = "drain" => cpc[c] = "handle_last"
    BY <1>1 DEF TypeOK
  <1>6. Pushed(held) /\ handled[held] = 0 /\ ~ InQueue(held)
    BY <1>1, <1>3, <1>4 DEF ElementsInv
  <1>7. /\ handled'[held] = 1
        /\ \A e \in Elements : e # held => handled'[e] = handled[e]
        /\ handled' \in [Elements -> Nat]
    BY <1>1, <1>3, <1>6 DEF TypeOK
  <1> HIDE DEF held
  <1>8. \A e \in Elements : Held(e)' <=> Held(e) /\ e # held
    <2> SUFFICES ASSUME NEW e \in Elements PROVE Held(e)' <=> Held(e) /\ e # held
      OBVIOUS
    <2>1. task[c] = held
      BY DEF held
    <2> QED
      BY <1>2, <1>4, <1>5, <2>1, NoneIsNoElement DEF Held
  <1>9. TypeOK'
    BY <1>1, <1>2, <1>7 DEF TypeOK
  <1>10. ThreadsInv'
    BY <1>1, <1>2, <1>5 DEF ThreadsInv
  <1>11. ElementsInv'
    <2>1. \A e \in Elements : (Pushed(e)' <=> Pushed(e)) /\ (InQueue(e)' <=> InQueue(e))
      BY <1>1, <1>2 DEF Pushed, InQueue
    <2>2. \A d1, d2 \in Consumers :
            task'[d1] = task'[d2] /\ task'[d1] # None => d1 = d2
      BY <1>1, <1>5 DEF ElementsInv
    <2> QED
      BY <1>1, <1>2, <1>6, <1>7, <1>8, <2>1, <2>2 DEF ElementsInv
  <1> QED
    BY <1>9, <1>10, <1>11 DEF IInv

\* The other steps move no element.
LEMMA ElementsKept ==
  ASSUME ElementsInv,
         UNCHANGED <<program, items, pushed, task, handled>>
  PROVE  ElementsInv'
  <1>1. Producers' = Producers /\ Consumers' = Consumers
    BY DEF Producers, Consumers
  <1>2. \A e \in Elements : /\ Pushed(e)' <=> Pushed(e)
                            /\ InQueue(e)' <=> InQueue(e)
                            /\ Held(e)' <=> Held(e)
    BY <1>1 DEF Pushed, InQueue, Held
  <1> QED
    BY <1>1, <1>2 DEF ElementsInv

\* A producer goes on, or is done when it has pushed all its elements, and the
\* flag is lowered when all are done.
LEMMA ProducersInv ==
  ASSUME IInv, LowerFlag \/ \E p \in Producers : PushReturns(p)
  PROVE  IInv'
  <1>1. /\ TypeOK /\ ThreadsInv /\ ElementsInv
        /\ UNCHANGED <<program, items, out, pushed, cpc, task, handled, finished>>
    BY DEF IInv, LowerFlag, PushReturns, queue, producers, consumers
  <1>2. Producers' = Producers /\ Consumers' = Consumers
    BY <1>1 DEF Producers, Consumers
  <1>3. ElementsInv'
    BY <1>1, ElementsKept
  <1>4. CASE LowerFlag
    <2>1. running' = FALSE /\ ppc' = ppc /\ \A p \in Producers : ppc[p] = "done"
      BY <1>4 DEF LowerFlag, producers
    <2>2. TypeOK' /\ ThreadsInv'
      BY <1>1, <1>2, <2>1 DEF TypeOK, ThreadsInv
    <2> QED
      BY <1>3, <2>2 DEF IInv
  <1>5. ASSUME NEW p \in Producers, PushReturns(p)
        PROVE  IInv'
    <2>1. /\ ppc[p] = "pushing" /\ running' = running
          /\ ppc' = [ppc EXCEPT ![p] = IF pushed[p] < Count THEN "loop" ELSE "done"]
      BY <1>5 DEF PushReturns
    <2>2. pushed[p] \in 0 .. Count /\ running
      BY <1>1, <2>1 DEF TypeOK, ThreadsInv
    <2>3. TypeOK' /\ ThreadsInv'
      BY <1>1, <1>2, <2>1, <2>2, CountAssumption DEF TypeOK, ThreadsInv
    <2> QED
      BY <1>3, <2>3 DEF IInv
  <1> QED
    BY <1>4, <1>5

\* A consumer that finds nothing stays in its loops until the flag is down and
\* every push has returned, so that it leaves the queue empty.
LEMMA ConsumersInv ==
  ASSUME IInv, NEW c \in Consumers, LoopTest(c) \/ TestEmpty(c) \/ TryPopRefuses(c)
  PROVE  IInv'
  <1>1. /\ TypeOK /\ ThreadsInv /\ ElementsInv
        /\ UNCHANGED <<program, items, out, pushed, ppc, running, task, handled, finished>>
    BY DEF IInv, LoopTest, TestEmpty, TryPopRefuses, queue, producers
  <1>2. Producers' = Producers /\ Consumers' = Consumers
    BY <1>1 DEF Producers, Consumers
  <1>3. ElementsInv'
    BY <1>1, ElementsKept
  <1>4. cpc[c] \in {"loop", "empty", "pop", "drain"}
    BY DEF LoopTest, TestEmpty, TryPopRefuses
  <1>5. ~ running => ~ Hidden
    BY <1>1 DEF ThreadsInv, Hidden
  <1>6. PICK l \in {"loop", "empty", "pop", "drain", "left"} :
          /\ cpc' = [cpc EXCEPT ![c] = l]
          /\ l \in {"empty", "drain", "left"} => ~ running
          /\ l = "left" => items = << >>
    <2>1. cpc[c] \in {"empty", "drain"} => ~ running
      BY <1>1 DEF ThreadsInv
    <2> QED
      BY <1>5, <2>1 DEF LoopTest, TestEmpty, TryPopRefuses
  <1>7. cpc'[c] = l /\ \A d \in Consumers : d # c => cpc'[d] = cpc[d]
    BY <1>1, <1>6 DEF TypeOK
  <1>8. TypeOK'
    BY <1>1, <1>2, <1>6 DEF TypeOK
  <1>9. ~ finished
    BY <1>1, <1>4 DEF ThreadsInv
  <1>10. ThreadsInv'
    BY <1>1, <1>2, <1>4, <1>6, <1>7, <1>9 DEF ThreadsInv
  <1> QED
    BY <1>3, <1>8, <1>10 DEF IInv

\* There is a consumer, so the queue that is destroyed at the end is empty.
LEMMA LeftEmpty ==
  ASSUME ThreadsInv, \A c \in Consumers : cpc[c] = "left"
  PROVE  items = << >>
  <1>1. Consumers # {}
    BY WorkersAssumption DEF Consumers
  <1> QED
    BY <1>1 DEF ThreadsInv

LEMMA FinishInv ==
  ASSUME IInv, Finish
  PROVE  IInv'
  <1>1. /\ TypeOK /\ ThreadsInv /\ ElementsInv
        /\ ~ running /\ \A c \in Consumers : cpc[c] = "left"
        /\ finished' = TRUE /\ items' = << >>
        /\ UNCHANGED <<program, out, pushed, ppc, running, cpc, task, handled>>
    BY DEF IInv, Finish, Queue!Clear, producers, consumers
  <1>2. Producers' = Producers /\ Consumers' = Consumers
    BY <1>1 DEF Producers, Consumers
  <1>3. items' = items
    BY <1>1, LeftEmpty
  <1>4. ElementsInv'
    BY <1>1, <1>3, ElementsKept
  <1>5. TypeOK' /\ ThreadsInv'
    BY <1>1, <1>2, <1>3 DEF TypeOK, ThreadsInv
  <1> QED
    BY <1>4, <1>5 DEF IInv

-----------------------------------------------------------------------------
\* In every reachable state the elements pushed so far are in the queue, with
\* a consumer, or handled, each in one place.
THEOREM Invariance == Spec => []IInv
  <1>1. IInv /\ [Next]_vars => IInv'
    <2> SUFFICES ASSUME IInv, [Next]_vars PROVE IInv'
      OBVIOUS
    <2>1. ASSUME NEW t \in Threads, ProducerStep(t)
          PROVE  IInv'
      BY <2>1, PushInv, ProducersInv DEF ProducerStep
    <2>2. ASSUME NEW t \in Threads, ConsumerStep(t)
          PROVE  IInv'
      BY <2>2, TryPopInv, HandleInv, ConsumersInv DEF ConsumerStep, Takes
    <2>3. CASE LowerFlag
      BY <2>3, ProducersInv
    <2>4. CASE Finish
      BY <2>4, FinishInv
    <2>5. CASE UNCHANGED vars
      <3>1. /\ TypeOK /\ ThreadsInv /\ ElementsInv
            /\ UNCHANGED <<program, items, out, pushed, ppc, running, cpc, task,
                           handled, finished>>
        BY <2>5 DEF IInv, vars, queue, producers, consumers
      <3>2. ElementsInv'
        BY <3>1, ElementsKept
      <3>3. TypeOK' /\ ThreadsInv'
        BY <3>1 DEF TypeOK, ThreadsInv, Producers, Consumers
      <3> QED
        BY <3>2, <3>3 DEF IInv
    <2> QED
      BY <2>1, <2>2, <2>3, <2>4, <2>5 DEF Next, Ended
  <1> QED
    BY InitInv, <1>1, PTL DEF Spec

\* "Thread pool finished executing all tasks.": a program that has ended has
\* handled every element, once, for every number of threads and elements and
\* every capacity.
THEOREM AllHandled == Spec => []AllHandledOnce
  <1>1. IInv => AllHandledOnce
    <2> SUFFICES ASSUME IInv, finished, NEW p \in Producers, NEW i \in 1 .. Count
                 PROVE  handled[<<p, i>>] = 1
      BY DEF AllHandledOnce
    <2>1. ThreadsInv /\ ElementsInv
      BY DEF IInv
    <2>2. ~ running /\ \A c \in Consumers : cpc[c] = "left"
      BY <2>1 DEF ThreadsInv
    <2>3. items = << >>
      BY <2>1, <2>2, LeftEmpty
    <2> DEFINE e == <<p, i>>
    <2>4. e \in Elements /\ e[1] = p /\ e[2] = i
      BY DEF Elements, Producers
    <2>5. Pushed(e)
      BY <2>1, <2>2, <2>4, CountAssumption DEF ThreadsInv, Pushed
    <2>6. ~ InQueue(e)
      BY <2>3 DEF InQueue
    <2>7. ~ Held(e)
      BY <2>1, <2>2, <2>4, NoneIsNoElement DEF ThreadsInv, Held
    <2> QED
      BY <2>1, <2>4, <2>5, <2>6, <2>7 DEF ElementsInv
  <1> QED
    BY <1>1, Invariance, PTL
=============================================================================
