--------------------------- MODULE ResultRegistry ---------------------------
(***************************************************************************)
(* What the Flight SQL server promises about the results it buffers: a     *)
(* query takes one of Capacity slots before it executes, keeps it while    *)
(* its result waits to be fetched, and gives it back when it fails or when *)
(* the result is fetched, which happens at most once.                      *)
(***************************************************************************)
EXTENDS Integers, FiniteSets

CONSTANTS Queries, Capacity

VARIABLE slot   \* [Queries -> "none", "executing", "buffered" or "gone"]

Occupied == {q \in Queries : slot[q] \in {"executing", "buffered"}}

Init == slot = [q \in Queries |-> "none"]

Admit(q) ==
  /\ slot[q] = "none"
  /\ Cardinality(Occupied) < Capacity
  /\ slot' = [slot EXCEPT ![q] = "executing"]

Fail(q) == slot[q] = "executing" /\ slot' = [slot EXCEPT ![q] = "none"]

Buffer(q) == slot[q] = "executing" /\ slot' = [slot EXCEPT ![q] = "buffered"]

Fetch(q) == slot[q] = "buffered" /\ slot' = [slot EXCEPT ![q] = "gone"]

\* A restart empties every slot at once.
Wipe ==
  slot' \in {f \in [Queries -> {"none", "gone"}] :
               \A q \in Queries : slot[q] = "gone" => f[q] = "gone"}

Next ==
  \/ \E q \in Queries : Admit(q) \/ Fail(q) \/ Buffer(q) \/ Fetch(q)
  \/ Wipe

Spec == Init /\ [][Next]_slot
=============================================================================
