------------------------------ MODULE NodeChains ------------------------------
(***************************************************************************)
(* Linked chains of nodes, as the unbounded queues build them: what a walk *)
(* along the links from some node meets, and when a sequence of nodes is   *)
(* all of it.  next is a function from nodes to their successors.  A node   *)
(* may hold several elements; then the chain holds them one after another. *)
(***************************************************************************)
EXTENDS Integers, Sequences, FiniteSets

CONSTANTS
  Nodes,      \* the addresses of nodes; their number bounds the queue
  Null        \* the null pointer; also what node holds of a deleted node

ASSUME NodesAssumption == IsFiniteSet(Nodes)
ASSUME NullAssumption == Null \notin Nodes

\* The node that k steps from h lead to, Null past the end.
Walk(h, next) ==
  LET w[k \in 0 .. Cardinality(Nodes)] ==
        IF k = 0 THEN h ELSE IF w[k - 1] = Null THEN Null ELSE next[w[k - 1]]
  IN  w

\* The nodes a walk from h meets.
ChainFrom(h, next) ==
  LET w == Walk(h, next)
      steps == {k \in 0 .. Cardinality(Nodes) : w[k] # Null}
  IN  [i \in 1 .. Cardinality(steps) |-> w[i - 1]]

\* The nodes of c are different, and linked from h to an end.
IsChain(c, h, next) ==
  /\ h = IF c = << >> THEN Null ELSE c[1]
  /\ \A i \in 1 .. Len(c) : next[c[i]] = IF i = Len(c) THEN Null ELSE c[i + 1]
  /\ \A i, j \in 1 .. Len(c) : c[i] = c[j] => i = j

\* The nodes on c.
On(c) == {c[i] : i \in 1 .. Len(c)}

\* What the first k nodes of c hold, for every k, where contents says what
\* each node holds.
Joined(c, contents) ==
  LET j[k \in 0 .. Len(c)] == IF k = 0 THEN << >> ELSE j[k - 1] \o contents[c[k]]
  IN  j
=============================================================================
