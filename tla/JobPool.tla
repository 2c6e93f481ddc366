------------------------------- MODULE JobPool ------------------------------
(***************************************************************************)
(* CJobPool (engine/shared/jobs.cpp): a doubly linked queue of jobs under  *)
(* a lock, and worker threads that take a job from it and then write its   *)
(* status and result without the lock, for the owner to poll.  What is     *)
(* done under the lock is one step; the links and the status live in the   *)
(* job itself, which its owner reuses.                                     *)
(***************************************************************************)
EXTENDS Integers, Sequences

CONSTANTS
  MaxJobs,   \* jobs of the owner (MAX_MASTERSERVERS)
  Workers,   \* worker threads; CEngine starts one
  Null       \* the null pointer

Jobs == 0 .. MaxJobs - 1

ASSUME JobsAssumption == MaxJobs \in Nat \ {0}
ASSUME NullAssumption == Null \notin Jobs

VARIABLES
  first, last,  \* m_pFirstJob, m_pLastJob
  next, prev,   \* m_pNext, m_pPrev of each job
  status,       \* m_Status
  result,       \* m_Result: 0 when the lookup succeeded
  held,         \* pJob of each worker
  place,        \* where each worker is
  waiting,      \* history: jobs added and not yet fetched, oldest first
  fresh         \* history: the job has written its data since it was added

links    == <<first, last, next, prev, waiting>>
poolVars == <<links, status, result, held, place, fresh>>

JobOrNull == Jobs \cup {Null}
Places    == {"idle", "fetched", "running", "called"}

\* The owner's mem_zero leaves PENDING; CJob(), in a master server that Load
\* has read from its file, DONE.
PoolInit ==
  /\ first = Null /\ last = Null
  /\ next = [j \in Jobs |-> Null]
  /\ prev = [j \in Jobs |-> Null]
  /\ status \in [Jobs -> {"PENDING", "DONE"}]
  /\ result = [j \in Jobs |-> 0]
  /\ held = [w \in Workers |-> Null]
  /\ place = [w \in Workers |-> "idle"]
  /\ waiting = <<>>
  /\ fresh = [j \in Jobs |-> FALSE]

\* The mem_zero of Add, before it takes the lock.
Clear(j) ==
  /\ next' = [next EXCEPT ![j] = Null]
  /\ prev' = [prev EXCEPT ![j] = Null]
  /\ status' = [status EXCEPT ![j] = "PENDING"]
  /\ result' = [result EXCEPT ![j] = 0]
  /\ fresh' = [fresh EXCEPT ![j] = FALSE]
  /\ UNCHANGED <<first, last, held, place, waiting>>

\* Mutant of Enqueue: an empty queue gets no first job.
EnqueueLast(j) ==
  /\ prev' = [prev EXCEPT ![j] = last]
  /\ next' = IF last = Null THEN next ELSE [next EXCEPT ![last] = j]
  /\ last' = j
  /\ waiting' = Append(waiting, j)
  /\ UNCHANGED <<first, status, result, held, place, fresh>>

\* The rest of Add: the job becomes the last of the queue.
Enqueue(j) ==
  /\ prev' = [prev EXCEPT ![j] = last]
  /\ next' = IF last = Null THEN next ELSE [next EXCEPT ![last] = j]
  /\ last' = j
  /\ first' = IF first = Null THEN j ELSE first
  /\ waiting' = Append(waiting, j)
  /\ UNCHANGED <<status, result, held, place, fresh>>

\* Mutant of Fetch: the last job of the queue leaves m_pLastJob behind.
FetchKeepingLast(w) ==
  /\ place[w] = "idle" /\ first # Null
  /\ held' = [held EXCEPT ![w] = first]
  /\ place' = [place EXCEPT ![w] = "fetched"]
  /\ first' = next[first]
  /\ prev' = IF next[first] # Null THEN [prev EXCEPT ![next[first]] = Null] ELSE prev
  /\ waiting' = Tail(waiting)
  /\ UNCHANGED <<last, next, status, result, fresh>>

\* WorkerThread takes the first job.  With an empty queue it only sleeps.
Fetch(w) ==
  /\ place[w] = "idle" /\ first # Null
  /\ held' = [held EXCEPT ![w] = first]
  /\ place' = [place EXCEPT ![w] = "fetched"]
  /\ first' = next[first]
  /\ IF next[first] # Null
     THEN prev' = [prev EXCEPT ![next[first]] = Null] /\ last' = last
     ELSE last' = Null /\ prev' = prev
  /\ waiting' = Tail(waiting)
  /\ UNCHANGED <<next, status, result, fresh>>

\* Mutant of Begin: the job is done as soon as it has begun.
BeginDone(w) ==
  /\ place[w] = "fetched"
  /\ place' = [place EXCEPT ![w] = "running"]
  /\ status' = [status EXCEPT ![held[w]] = "DONE"]
  /\ UNCHANGED <<links, result, held, fresh>>

Begin(w) ==
  /\ place[w] = "fetched"
  /\ place' = [place EXCEPT ![w] = "running"]
  /\ status' = [status EXCEPT ![held[w]] = "RUNNING"]
  /\ UNCHANGED <<links, result, held, fresh>>

\* HostLookupThread writes the address when net_host_lookup finds one, and
\* the job's result is what it returns.
Call(w) ==
  /\ place[w] = "running"
  /\ place' = [place EXCEPT ![w] = "called"]
  /\ \/ /\ result' = [result EXCEPT ![held[w]] = 0]
        /\ fresh' = [fresh EXCEPT ![held[w]] = TRUE]
     \/ /\ result' = [result EXCEPT ![held[w]] = -1]
        /\ fresh' = fresh
  /\ UNCHANGED <<links, status, held>>

Finish(w) ==
  /\ place[w] = "called"
  /\ place' = [place EXCEPT ![w] = "idle"]
  /\ status' = [status EXCEPT ![held[w]] = "DONE"]
  /\ held' = [held EXCEPT ![w] = Null]
  /\ UNCHANGED <<links, result, fresh>>

WorkerThread(w) == Fetch(w) \/ Begin(w) \/ Call(w) \/ Finish(w)

-----------------------------------------------------------------------------
PoolTypeOK ==
  /\ first \in JobOrNull /\ last \in JobOrNull
  /\ next \in [Jobs -> JobOrNull] /\ prev \in [Jobs -> JobOrNull]
  /\ status \in [Jobs -> {"PENDING", "RUNNING", "DONE"}]
  /\ result \in [Jobs -> {0, -1}]
  /\ held \in [Workers -> JobOrNull]
  /\ place \in [Workers -> Places]
  /\ waiting \in Seq(Jobs)
  /\ fresh \in [Jobs -> BOOLEAN]

\* The links describe exactly the jobs that wait, in the order they were
\* added, forwards from m_pFirstJob and backwards from m_pLastJob.
QueueIntact ==
  LET n == Len(waiting) IN
  /\ n = 0 => first = Null /\ last = Null
  /\ n > 0 => /\ first = waiting[1] /\ prev[first] = Null
              /\ last = waiting[n] /\ next[last] = Null
  /\ \A k \in 1 .. n - 1 : /\ next[waiting[k]] = waiting[k + 1]
                           /\ prev[waiting[k + 1]] = waiting[k]

\* The jobs some worker holds.
Running == {held[w] : w \in Workers} \ {Null}

\* The pool is a queue that runs each job once for each time it is added.
Queue == INSTANCE JobQueue WITH running <- Running
QueueSpec == Queue!Spec
=============================================================================
