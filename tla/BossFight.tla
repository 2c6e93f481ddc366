----------------------------- MODULE BossFight -----------------------------
(***************************************************************************)
(* What a boss fight promises the players in it: a party gathers in the    *)
(* lobby, moves to the boss together, and from some moment on nobody joins *)
(* and nobody comes back.  A fight with players in it ends by a victory    *)
(* and no other way.  A victory is remembered for a while, and when its    *)
(* party has run away it is a later one that it sends home.                *)
(***************************************************************************)
EXTENDS FiniteSets

CONSTANT Players

VARIABLES stage,   \* of the fight
          party,   \* who is in it
          victory  \* a boss was beaten and nobody sent home since

fightVars == <<stage, party, victory>>

Init == stage = "none" /\ party = {} /\ victory = FALSE

Open(p) ==
  /\ stage = "none" /\ stage' = "lobby"
  /\ party' = {p}
  /\ UNCHANGED victory

Join(p) ==
  /\ stage \in {"lobby", "gathering"}
  /\ party' = party \cup {p}
  /\ UNCHANGED <<stage, victory>>

(* Players may leave the server at any time; the dead leave a fight.       *)
Desert(p) ==
  /\ party' = party \ {p}
  /\ UNCHANGED <<stage, victory>>

Begin ==
  /\ stage = "lobby" /\ party # {}
  /\ stage' = "gathering"
  /\ UNCHANGED <<party, victory>>

Close ==
  /\ stage = "gathering" /\ party # {}
  /\ stage' = "fighting"
  /\ UNCHANGED <<party, victory>>

Win ==
  /\ stage = "fighting" /\ ~victory
  /\ victory' = TRUE
  /\ UNCHANGED <<stage, party>>

GoHome ==
  /\ victory /\ victory' = FALSE
  /\ stage' = "none" /\ party' = {}

(* Nobody is left.                                                         *)
Abandon ==
  /\ stage # "none" /\ party = {}
  /\ stage' = "none"
  /\ UNCHANGED <<party, victory>>

(* A victory that nobody waited for is forgotten, never that of a party.   *)
Forget ==
  /\ victory /\ victory' = FALSE
  /\ stage = "lobby" \/ party = {}
  /\ UNCHANGED <<stage, party>>

Next ==
  \/ \E p \in Players : Open(p) \/ Join(p) \/ Desert(p)
  \/ Begin \/ Close \/ Win \/ GoHome \/ Abandon \/ Forget

Spec == Init /\ [][Next]_fightVars
=============================================================================
