------------------------------- MODULE IdPool -------------------------------
(***************************************************************************)
(* What the pool of snapshot ids promises its callers: an id is free, or   *)
(* used by one caller, or rests; ids rest in the order in which they were  *)
(* given back, and a caller is refused only when no id is free.            *)
(***************************************************************************)
EXTENDS Sequences

CONSTANT Ids

VARIABLES free, used, resting

Init == free = Ids /\ used = {} /\ resting = <<>>

Take(id) ==
  /\ id \in free
  /\ free' = free \ {id} /\ used' = used \cup {id} /\ UNCHANGED resting

GiveBack(id) ==
  /\ id \in used
  /\ used' = used \ {id} /\ resting' = Append(resting, id) /\ UNCHANGED free

Wake ==
  /\ resting # <<>>
  /\ free' = free \cup {Head(resting)} /\ resting' = Tail(resting)
  /\ UNCHANGED used

Next == Wake \/ \E id \in Ids : Take(id) \/ GiveBack(id)

Spec == Init /\ [][Next]_<<free, used, resting>>

=============================================================================
