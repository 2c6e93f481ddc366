------------------------------ MODULE Sessions ------------------------------
(***************************************************************************)
(* What the accounts promise to the game: a registration takes a nick and  *)
(* a user name nobody has, and a login looks for its account among all     *)
(* sessions and takes it in one step, as if no other login, no drop and no *)
(* registration ran beside it.                                             *)
(***************************************************************************)
EXTENDS Sequences

CONSTANTS Places,  \* where a session can be
          Nicks, Names,
          Nobody   \* no session

VARIABLES session,  \* the account logged in at each place
          accounts  \* the accounts, in the order of their registration

sessionVars == <<session, accounts>>

Init == session = [p \in Places |-> Nobody] /\ accounts = <<>>

Register(n, m) ==
  /\ \A u \in DOMAIN accounts : accounts[u].nick # n /\ accounts[u].name # m
  /\ accounts' = Append(accounts, [nick |-> n, name |-> m])
  /\ UNCHANGED session

\* The session the place had, if any, ends.
LogIn(p, u) ==
  /\ \A q \in Places : session[q] # u
  /\ session' = [session EXCEPT ![p] = u]
  /\ UNCHANGED accounts

LogOut(p) ==
  /\ session' = [session EXCEPT ![p] = Nobody]
  /\ UNCHANGED accounts

Next ==
  \/ \E n \in Nicks, m \in Names : Register(n, m)
  \/ \E p \in Places : LogOut(p) \/ \E u \in DOMAIN accounts : LogIn(p, u)

Spec == Init /\ [][Next]_sessionVars
=============================================================================
