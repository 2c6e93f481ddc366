---------------------------- MODULE MasterServer ----------------------------
(***************************************************************************)
(* CMasterServer (engine/shared/masterserver.cpp), the owner of the jobs:  *)
(* RefreshAddresses has the pool look up every master server's address,    *)
(* Update polls the lookups until all are done.  Both run in the game      *)
(* thread, called by CRegister, while the workers run.                     *)
(***************************************************************************)
EXTENDS JobPool

VARIABLES
  mstate,  \* m_State
  valid,   \* m_Valid of each master server
  i,       \* index of the loop the game thread is in
  at       \* where the game thread is: "idle" outside the functions below

masterVars == <<mstate, valid, i, at>>
vars == <<poolVars, masterVars>>

Init ==
  /\ PoolInit
  /\ mstate = "INIT"
  /\ valid = [j \in Jobs |-> FALSE]
  /\ i = 0
  /\ at = "idle"

\* Mutant of RefreshAddresses: it does not wait for a refresh to end.
RefreshAtOnce ==
  /\ at = "idle"
  /\ at' = "clear" /\ i' = 0
  /\ UNCHANGED <<poolVars, mstate, valid>>

\* RefreshAddresses, refused while a refresh is under way.
RefreshAddresses ==
  /\ at = "idle" /\ mstate \in {"INIT", "READY"}
  /\ at' = "clear" /\ i' = 0
  /\ UNCHANGED <<poolVars, mstate, valid>>

\* HostLookup of one master server: Add's first half.
HostLookup ==
  /\ at = "clear"
  /\ Clear(i)
  /\ at' = "enqueue"
  /\ UNCHANGED <<mstate, valid, i>>

\* Add's second half, and the rest of the loop's body.
AddJob ==
  /\ at = "enqueue"
  /\ Enqueue(i)
  /\ valid' = [valid EXCEPT ![i] = FALSE]
  /\ i' = i + 1
  /\ IF i + 1 < MaxJobs THEN at' = "clear" /\ mstate' = mstate
                        ELSE at' = "idle" /\ mstate' = "UPDATE"

\* Update, which does nothing in the other states, begins by supposing that
\* all lookups are done.
Update ==
  /\ at = "idle" /\ mstate = "UPDATE"
  /\ mstate' = "READY"
  /\ at' = "poll" /\ i' = 0
  /\ UNCHANGED <<poolVars, valid>>

\* Mutant of Poll: the loop runs one past the last master server.
PollPastEnd ==
  /\ at = "poll"
  /\ IF status[i] # "DONE"
     THEN mstate' = "UPDATE" /\ valid' = valid
     ELSE mstate' = mstate /\ valid' = [valid EXCEPT ![i] = result[i] = 0]
  /\ i' = i + 1
  /\ at' = IF i < MaxJobs THEN "poll" ELSE "idle"
  /\ UNCHANGED poolVars

\* One turn of Update's loop.
Poll ==
  /\ at = "poll"
  /\ IF status[i] # "DONE"
     THEN mstate' = "UPDATE" /\ valid' = valid
     ELSE mstate' = mstate /\ valid' = [valid EXCEPT ![i] = result[i] = 0]
  /\ i' = i + 1
  /\ at' = IF i + 1 < MaxJobs THEN "poll" ELSE "idle"
  /\ UNCHANGED poolVars

GameThread == RefreshAddresses \/ HostLookup \/ AddJob \/ Update \/ Poll

Next ==
  \/ GameThread
  \/ \E w \in Workers : WorkerThread(w) /\ UNCHANGED masterVars

Spec == Init /\ [][Next]_vars

\* The worker threads run, lookups end, and RegisterUpdate calls Update on
\* every turn while sv_register is on; nothing makes it ask for a refresh.
FairSpec ==
  /\ Spec
  /\ \A w \in Workers : WF_vars(WorkerThread(w) /\ UNCHANGED masterVars)
  /\ WF_vars(HostLookup \/ AddJob \/ Update \/ Poll)

-----------------------------------------------------------------------------
TypeOK ==
  /\ PoolTypeOK
  /\ mstate \in {"INIT", "UPDATE", "READY"}
  /\ valid \in [Jobs -> BOOLEAN]
  /\ i \in 0 .. MaxJobs
  /\ at \in {"idle", "clear", "enqueue", "poll"}
  /\ at # "idle" => i < MaxJobs

\* When IsRefreshing says that a refresh is over, every lookup has ended and
\* an address is valid exactly if this refresh has found it: polling without
\* the lock never takes a result of an earlier refresh, or half a result.
ResultsRead ==
  at = "idle" /\ mstate = "READY" =>
    \A j \in Jobs : status[j] = "DONE" /\ (valid[j] <=> fresh[j])

\* A refresh ends, so that CRegister goes on.
RefreshEnds == at = "idle" /\ mstate = "UPDATE" ~> at = "idle" /\ mstate = "READY"
=============================================================================
