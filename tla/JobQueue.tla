------------------------------ MODULE JobQueue ------------------------------
(***************************************************************************)
(* What CJobPool promises: jobs are taken in the order they were added,    *)
(* each once for each time it was added, and a job is added only while it  *)
(* neither waits nor runs.                                                 *)
(***************************************************************************)
EXTENDS Sequences

CONSTANT Jobs

VARIABLES waiting,  \* jobs added and not yet taken, oldest first
          running   \* jobs taken and not yet finished

queueVars == <<waiting, running>>

Init == waiting = <<>> /\ running = {}

Add(j) == /\ j \notin running /\ \A k \in DOMAIN waiting : waiting[k] # j
          /\ waiting' = Append(waiting, j)
          /\ UNCHANGED running

Take == /\ waiting # <<>>
        /\ waiting' = Tail(waiting)
        /\ running' = running \cup {Head(waiting)}

Finish(j) == /\ j \in running
             /\ running' = running \ {j}
             /\ UNCHANGED waiting

Next == Take \/ \E j \in Jobs : Add(j) \/ Finish(j)

Spec == Init /\ [][Next]_queueVars
=============================================================================
