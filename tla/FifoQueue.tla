------------------------------ MODULE FifoQueue ------------------------------
(***************************************************************************)
(* What every queue of the library promises its clients: an element that   *)
(* was pushed is handed out once, by the pop whose turn it is, in the      *)
(* order of the pushes.  A step of an implementation that is not one of    *)
(* the three below must leave items and out alone.                         *)
(***************************************************************************)
EXTENDS Naturals, Sequences

CONSTANTS
  Value,      \* the elements of type T a client may push
  NoValue,    \* what out holds before the first pop
  Lengths,    \* the lengths the queue may have: Nat, or 0..N when bounded
  Clears      \* whether it can lose its elements to clear() or a destructor

VARIABLES
  items,      \* the elements in the queue, oldest first
  out         \* the element handed out by the latest pop

vars == <<items, out>>

Init ==
  /\ items = << >>
  /\ out = NoValue

Push(v) ==
  /\ Len(items) + 1 \in Lengths
  /\ items' = Append(items, v)
  /\ UNCHANGED out

Pop ==
  /\ items # << >>
  /\ out' = Head(items)
  /\ items' = Tail(items)

Clear ==
  /\ Clears
  /\ items' = << >>
  /\ UNCHANGED out

Next ==
  \/ \E v \in Value : Push(v)
  \/ Pop
  \/ Clear

Spec == Init /\ [][Next]_vars
=============================================================================
