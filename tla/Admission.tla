----------------------------- MODULE Admission -----------------------------
(***************************************************************************)
(* What the server promises about its clients, each known by its address:  *)
(* one is let in when there is room, its address has room and is not       *)
(* banned; from then on it goes from stage to stage in their order, or     *)
(* out.  Slots, tokens, messages and connections in error do not show.     *)
(***************************************************************************)
EXTENDS Naturals, FiniteSets

CONSTANTS Clients, Ips, IpOf, Capacity, MaxPerIP

VARIABLES stage,  \* how far a client has come
          bans    \* the banned addresses

admissionVars == <<stage, bans>>

Following == [AUTH |-> "CONNECTING", CONNECTING |-> "READY",
              READY |-> "introduced", introduced |-> "INGAME"]

Inside == {a \in Clients : stage[a] # "out"}
Neighbours(a) == {b \in Inside : IpOf[b] = IpOf[a]}

Init == stage = [a \in Clients |-> "out"] /\ bans = {}

Admit(a) ==
  /\ stage[a] = "out" /\ IpOf[a] \notin bans
  /\ Cardinality(Inside) < Capacity /\ Cardinality(Neighbours(a)) < MaxPerIP
  /\ stage' = [stage EXCEPT ![a] = "AUTH"]
  /\ UNCHANGED bans

Advance(a) ==
  /\ stage[a] \in DOMAIN Following
  /\ stage' = [stage EXCEPT ![a] = Following[@]]
  /\ UNCHANGED bans

Gone(a) == stage' = [stage EXCEPT ![a] = "out"]

Leave(a) == Gone(a) /\ UNCHANGED bans

(* A ban makes at most one of the address's clients leave.                 *)
Ban(i) ==
  /\ bans' = bans \cup {i}
  /\ UNCHANGED stage \/ \E a \in Clients : IpOf[a] = i /\ Gone(a)

Unban(i) == bans' = bans \ {i} /\ UNCHANGED stage

Next ==
  \/ \E a \in Clients : Admit(a) \/ Advance(a) \/ Leave(a)
  \/ \E i \in Ips : Ban(i) \/ Unban(i)

Spec == Init /\ [][Next]_admissionVars
=============================================================================
