-------------------------- MODULE MasterServerProofs --------------------------
(***************************************************************************)
(* For every number of jobs and of workers: the queue's links are intact,  *)
(* polling without the lock reads what the refresh has found, and the pool *)
(* implements a queue that runs each added job once.                       *)
(***************************************************************************)
EXTENDS MasterServer, TLAPS

Waits(j) == \E k \in 1 .. Len(waiting) : waiting[k] = j
Held(j)  == \E w \in Workers : held[w] = j
Free(j)  == ~Waits(j) /\ ~Held(j)

\* No job waits twice, or is waiting while a worker holds it, or is held by
\* two workers.
OnceInv ==
  /\ \A k, l \in 1 .. Len(waiting) : waiting[k] = waiting[l] => k = l
  /\ \A w \in Workers : held[w] = Null <=> place[w] = "idle"
  /\ \A w, v \in Workers : held[w] = held[v] /\ held[w] # Null => w = v
  /\ \A k \in 1 .. Len(waiting), w \in Workers : waiting[k] # held[w]

\* A job that is done is free.
DoneInv == \A j \in Jobs : status[j] = "DONE" => Free(j)

\* The jobs that RefreshAddresses has still to add are free, and the one it
\* has cleared is clear.
RefreshInv ==
  /\ at = "idle" /\ mstate # "UPDATE" => \A j \in Jobs : Free(j)
  /\ at \in {"clear", "enqueue"} => \A j \in Jobs : j >= i => Free(j)
  /\ at = "enqueue" => status[i] = "PENDING" /\ next[i] = Null /\ ~fresh[i]

\* A job that has not been called since it was added has written nothing.
FreshInv ==
  /\ \A k \in 1 .. Len(waiting) : ~fresh[waiting[k]]
  /\ \A w \in Workers : place[w] \in {"fetched", "running"} => ~fresh[held[w]]

\* The result of a finished lookup tells whether it found an address; only
\* what the program starts with is no lookup.
Told(j) == result[j] = 0 <=> fresh[j]
ResultInv ==
  /\ \A j \in Jobs : /\ status[j] = "DONE"
                     /\ mstate # "INIT" \/ (at \in {"clear", "enqueue"} /\ j < i)
                     => Told(j)
  /\ \A w \in Workers : place[w] = "called" => Told(held[w])

\* Update has read all lookups before the i-th, unless it has met one that
\* is not done.
PollInv ==
  at = "poll" =>
    /\ mstate # "INIT"
    /\ mstate = "READY" =>
         \A j \in Jobs : j < i => status[j] = "DONE" /\ (valid[j] <=> fresh[j])

IInv == /\ TypeOK /\ QueueIntact /\ OnceInv /\ DoneInv
        /\ RefreshInv /\ FreshInv /\ ResultInv /\ PollInv /\ ResultsRead

-----------------------------------------------------------------------------
(* Facts used throughout *)

LEMMA JobsFacts == Jobs \subseteq Int /\ 0 \in Jobs /\ MaxJobs \in Nat /\ Null \notin Jobs
  BY JobsAssumption, NullAssumption DEF Jobs

LEMMA InitInv == Init => IInv
<1> SUFFICES ASSUME Init PROVE IInv
  OBVIOUS
<1>1. TypeOK
  <2>1. waiting \in Seq(Jobs) /\ 0 \in 0 .. MaxJobs
    BY JobsFacts DEF Init, PoolInit
  <2> QED BY <2>1 DEF Init, PoolInit, TypeOK, PoolTypeOK, JobOrNull, Places
<1>2. Len(waiting) = 0 /\ 1 .. Len(waiting) = {} /\ 1 .. Len(waiting) - 1 = {}
  BY DEF Init, PoolInit
<1>3. QueueIntact
  BY <1>2 DEF Init, PoolInit, QueueIntact
<1>4. \A j \in Jobs : Free(j)
  BY <1>2, JobsFacts DEF Init, PoolInit, Free, Waits, Held
<1>5. OnceInv
  BY <1>2 DEF Init, PoolInit, OnceInv
<1>6. FreshInv
  BY <1>2 DEF Init, PoolInit, FreshInv
<1> QED BY <1>1, <1>3, <1>4, <1>5, <1>6
        DEF Init, PoolInit, IInv, DoneInv, RefreshInv, ResultInv, PollInv, ResultsRead

\* A job that is free is not in the queue, at either of its ends included.
LEMMA FreeFacts ==
  ASSUME IInv, NEW j \in Jobs, Free(j)
  PROVE  /\ first # j /\ last # j
         /\ \A k \in 1 .. Len(waiting) : waiting[k] # j
         /\ \A w \in Workers : held[w] # j
<1>1. /\ \A k \in 1 .. Len(waiting) : waiting[k] # j
      /\ \A w \in Workers : held[w] # j
  BY DEF Free, Waits, Held
<1>2. Len(waiting) \in Nat
  BY DEF IInv, TypeOK, PoolTypeOK
<1>3. CASE Len(waiting) = 0
  BY <1>1, <1>3, JobsFacts DEF IInv, QueueIntact
<1>4. CASE Len(waiting) > 0
  <2>1. 1 \in 1 .. Len(waiting) /\ Len(waiting) \in 1 .. Len(waiting)
    BY <1>2, <1>4
  <2> QED BY <1>1, <1>4, <2>1 DEF IInv, QueueIntact
<1> QED BY <1>1, <1>2, <1>3, <1>4

\* A worker that is not idle holds a job of its own, which is not done, nor
\* one the game thread may clear, nor in the queue.
LEMMA HeldFacts ==
  ASSUME IInv, NEW w \in Workers, place[w] # "idle"
  PROVE  /\ held[w] \in Jobs /\ status[held[w]] # "DONE" /\ Held(held[w])
         /\ \A v \in Workers : held[v] = held[w] => v = w
         /\ \A k \in 1 .. Len(waiting) : waiting[k] # held[w]
         /\ at = "enqueue" => i # held[w]
<1>1. /\ held[w] \in Jobs /\ Held(held[w])
      /\ \A v \in Workers : held[v] = held[w] => v = w
      /\ \A k \in 1 .. Len(waiting) : waiting[k] # held[w]
  BY DEF IInv, OnceInv, TypeOK, PoolTypeOK, JobOrNull, Held
<1>2. status[held[w]] # "DONE"
  BY <1>1 DEF IInv, DoneInv, Free
<1>3. at = "enqueue" => i # held[w]
  <2> SUFFICES ASSUME at = "enqueue" PROVE ~(i = held[w])
    OBVIOUS
  <2>1. i \in Jobs /\ i >= i
    BY JobsAssumption DEF IInv, TypeOK, Jobs
  <2>2. Free(i)
    BY <2>1 DEF IInv, RefreshInv
  <2> QED BY <1>1, <2>2 DEF Free
<1> QED BY <1>1, <1>2, <1>3

-----------------------------------------------------------------------------
(* The game thread *)

LEMMA RefreshStep == IInv /\ RefreshAddresses => IInv'
<1> SUFFICES ASSUME IInv, RefreshAddresses PROVE IInv'
  OBVIOUS
<1>1. /\ first' = first /\ last' = last /\ next' = next /\ prev' = prev
      /\ waiting' = waiting /\ status' = status /\ result' = result /\ held' = held
      /\ place' = place /\ fresh' = fresh /\ mstate' = mstate /\ valid' = valid
      /\ at = "idle" /\ mstate \in {"INIT", "READY"} /\ at' = "clear" /\ i' = 0
  BY DEF RefreshAddresses, poolVars, links
<1>2. TypeOK'
  BY <1>1, JobsAssumption DEF IInv, TypeOK, PoolTypeOK
<1>3. QueueIntact' /\ OnceInv' /\ DoneInv' /\ FreshInv'
  BY <1>1 DEF IInv, QueueIntact, OnceInv, DoneInv, FreshInv, Free, Waits, Held
<1>4. \A j \in Jobs : Free(j)
  BY <1>1 DEF IInv, RefreshInv
<1>5. RefreshInv'
  BY <1>1, <1>4 DEF RefreshInv, Free, Waits, Held
<1>6. ResultInv'
  <2>1. \A j \in Jobs : ~(j < 0)
    BY DEF Jobs
  <2> QED BY <1>1, <2>1 DEF IInv, ResultInv, Told
<1>7. PollInv' /\ ResultsRead'
  BY <1>1 DEF PollInv, ResultsRead
<1> QED BY <1>2, <1>3, <1>5, <1>6, <1>7 DEF IInv

LEMMA UpdateStep == IInv /\ Update => IInv'
<1> SUFFICES ASSUME IInv, Update PROVE IInv'
  OBVIOUS
<1>1. /\ first' = first /\ last' = last /\ next' = next /\ prev' = prev
      /\ waiting' = waiting /\ status' = status /\ result' = result /\ held' = held
      /\ place' = place /\ fresh' = fresh /\ valid' = valid
      /\ at = "idle" /\ mstate = "UPDATE" /\ mstate' = "READY" /\ at' = "poll" /\ i' = 0
  BY DEF Update, poolVars, links
<1>2. TypeOK'
  BY <1>1, JobsAssumption DEF IInv, TypeOK, PoolTypeOK
<1>3. QueueIntact' /\ OnceInv' /\ DoneInv' /\ FreshInv'
  BY <1>1 DEF IInv, QueueIntact, OnceInv, DoneInv, FreshInv, Free, Waits, Held
<1>4. RefreshInv' /\ ResultsRead'
  BY <1>1 DEF RefreshInv, ResultsRead
<1>5. ResultInv'
  BY <1>1 DEF IInv, ResultInv, Told
<1>6. PollInv'
  <2>1. \A j \in Jobs : ~(j < 0)
    BY DEF Jobs
  <2> QED BY <1>1, <2>1 DEF PollInv
<1> QED BY <1>2, <1>3, <1>4, <1>5, <1>6 DEF IInv

LEMMA PollStep == IInv /\ Poll => IInv'
<1> SUFFICES ASSUME IInv, Poll PROVE IInv'
  OBVIOUS
<1>1. /\ first' = first /\ last' = last /\ next' = next /\ prev' = prev
      /\ waiting' = waiting /\ status' = status /\ result' = result /\ held' = held
      /\ place' = place /\ fresh' = fresh
      /\ at = "poll" /\ i' = i + 1 /\ at' = IF i + 1 < MaxJobs THEN "poll" ELSE "idle"
  BY DEF Poll, poolVars, links
<1>2. /\ i \in Jobs /\ i \in Nat /\ MaxJobs \in Nat /\ i < MaxJobs
      /\ mstate \in {"UPDATE", "READY"} /\ valid \in [Jobs -> BOOLEAN]
  BY <1>1, JobsAssumption DEF IInv, TypeOK, Jobs, PollInv
<1>3. /\ mstate' \in {"UPDATE", "READY"} /\ valid' \in [Jobs -> BOOLEAN]
      /\ \A j \in Jobs : j # i => valid'[j] = valid[j]
      /\ mstate' = "READY" => /\ mstate = "READY" /\ status[i] = "DONE"
                              /\ valid'[i] <=> result[i] = 0
  BY <1>2 DEF Poll
<1>4. i' \in 0 .. MaxJobs /\ at' \in {"poll", "idle"} /\ (at' = "poll" <=> i' < MaxJobs)
  BY <1>1, <1>2
<1>5. TypeOK'
  BY <1>1, <1>3, <1>4 DEF IInv, TypeOK, PoolTypeOK
<1>6. QueueIntact' /\ OnceInv' /\ DoneInv' /\ FreshInv'
  BY <1>1 DEF IInv, QueueIntact, OnceInv, DoneInv, FreshInv, Free, Waits, Held
<1>7. ResultInv'
  BY <1>1, <1>2, <1>3, <1>4 DEF IInv, ResultInv, Told
<1>8. ASSUME mstate' = "READY", NEW j \in Jobs, j < i'
      PROVE  status'[j] = "DONE" /\ (valid'[j] <=> fresh'[j])
  <2>1. CASE j = i
    BY <1>1, <1>2, <1>3, <1>8, <2>1 DEF IInv, ResultInv, Told
  <2>2. CASE j # i
    <3>1. j < i
      BY <1>1, <1>2, <1>8, <2>2, JobsFacts
    <3> QED BY <1>1, <1>3, <1>8, <2>2, <3>1 DEF IInv, PollInv
  <2> QED BY <2>1, <2>2
<1>9. PollInv'
  BY <1>3, <1>8 DEF PollInv
<1>10. ResultsRead'
  <2> SUFFICES ASSUME at' = "idle", mstate' = "READY", NEW j \in Jobs
               PROVE  status'[j] = "DONE" /\ (valid'[j] <=> fresh'[j])
    BY DEF ResultsRead
  <2>1. j < i'
    BY <1>1, <1>2, <1>4 DEF Jobs
  <2> QED BY <1>8, <2>1
<1>11. RefreshInv'
  <2>1. at' = "idle" /\ mstate' # "UPDATE" => \A j \in Jobs : status'[j] = "DONE"
    BY <1>3, <1>10 DEF ResultsRead
  <2> QED BY <1>4, <1>6, <2>1 DEF RefreshInv, DoneInv
<1> QED BY <1>5, <1>6, <1>7, <1>9, <1>10, <1>11 DEF IInv

LEMMA HostLookupStep == IInv /\ HostLookup => IInv'
<1> SUFFICES ASSUME IInv, HostLookup PROVE IInv'
  OBVIOUS
<1>1. /\ at = "clear" /\ at' = "enqueue" /\ i' = i /\ mstate' = mstate /\ valid' = valid
      /\ first' = first /\ last' = last /\ waiting' = waiting
      /\ held' = held /\ place' = place
      /\ next' = [next EXCEPT ![i] = Null] /\ prev' = [prev EXCEPT ![i] = Null]
      /\ status' = [status EXCEPT ![i] = "PENDING"] /\ result' = [result EXCEPT ![i] = 0]
      /\ fresh' = [fresh EXCEPT ![i] = FALSE]
  BY DEF HostLookup, Clear
<1>2. i \in Jobs /\ i \in Nat
  BY <1>1, JobsAssumption DEF IInv, TypeOK, Jobs
<1>3. Free(i)
  BY <1>1, <1>2 DEF IInv, RefreshInv
<1>4. /\ first # i /\ last # i
      /\ \A k \in 1 .. Len(waiting) : waiting[k] # i
      /\ \A w \in Workers : held[w] # i
  BY <1>2, <1>3, FreeFacts
<1>5. /\ next' \in [Jobs -> JobOrNull] /\ prev' \in [Jobs -> JobOrNull]
      /\ status' \in [Jobs -> {"PENDING", "RUNNING", "DONE"}]
      /\ result' \in [Jobs -> {0, -1}] /\ fresh' \in [Jobs -> BOOLEAN]
  BY <1>1 DEF IInv, TypeOK, PoolTypeOK, JobOrNull
<1>6. TypeOK'
  BY <1>1, <1>5 DEF IInv, TypeOK, PoolTypeOK
<1>7. /\ next'[i] = Null /\ status'[i] = "PENDING" /\ fresh'[i] = FALSE
      /\ \A j \in Jobs : j # i => /\ next'[j] = next[j] /\ prev'[j] = prev[j]
                                  /\ status'[j] = status[j] /\ result'[j] = result[j]
                                  /\ fresh'[j] = fresh[j]
  BY <1>1, <1>2 DEF IInv, TypeOK, PoolTypeOK
<1>8. /\ waiting \in Seq(Jobs) /\ Len(waiting) \in Nat
      /\ \A k \in 1 .. Len(waiting) : waiting[k] \in Jobs
  BY DEF IInv, TypeOK, PoolTypeOK
<1>9. QueueIntact'
  <2>1. Len(waiting) = 0 => first' = Null /\ last' = Null
    BY <1>1 DEF IInv, QueueIntact
  <2>2. ASSUME Len(waiting) > 0
        PROVE  /\ first' = waiting[1] /\ prev'[first'] = Null
               /\ last' = waiting[Len(waiting)] /\ next'[last'] = Null
    <3>1. first = waiting[1] /\ prev[first] = Null /\ last = waiting[Len(waiting)] /\ next[last] = Null
      BY <2>2 DEF IInv, QueueIntact
    <3>2. first \in Jobs /\ last \in Jobs
      BY <1>8, <2>2, <3>1
    <3> QED BY <1>1, <1>4, <1>7, <3>1, <3>2
  <2>3. ASSUME NEW k \in 1 .. Len(waiting) - 1
        PROVE  next'[waiting[k]] = waiting[k + 1] /\ prev'[waiting[k + 1]] = waiting[k]
    <3>1. k \in 1 .. Len(waiting) /\ k + 1 \in 1 .. Len(waiting)
      BY <1>8
    <3>2. waiting[k] \in Jobs /\ waiting[k + 1] \in Jobs /\ waiting[k] # i /\ waiting[k + 1] # i
      BY <1>4, <1>8, <3>1
    <3>3. next[waiting[k]] = waiting[k + 1] /\ prev[waiting[k + 1]] = waiting[k]
      BY DEF IInv, QueueIntact
    <3> QED BY <1>7, <3>2, <3>3
  <2> QED BY <1>1, <2>1, <2>2, <2>3 DEF QueueIntact
<1>10. OnceInv'
  BY <1>1 DEF IInv, OnceInv
<1>11. \A j \in Jobs : Free(j)' <=> Free(j)
  BY <1>1 DEF Free, Waits, Held
<1>12. DoneInv'
  BY <1>7, <1>11 DEF IInv, DoneInv
<1>13. RefreshInv'
  BY <1>1, <1>7, <1>11 DEF IInv, RefreshInv
<1>14. ResultInv'
  <2>1. \A j \in Jobs : j < i => j # i
    BY <1>2, JobsFacts
  <2>2. \A j \in Jobs : j # i => (Told(j)' <=> Told(j))
    BY <1>7 DEF Told
  <2>3. \A j \in Jobs : status'[j] = "DONE" => j # i /\ status[j] = "DONE"
    BY <1>7
  <2>4. \A j \in Jobs : /\ status'[j] = "DONE"
                        /\ mstate' # "INIT" \/ (at' \in {"clear", "enqueue"} /\ j < i')
                        => Told(j)'
    BY <1>1, <2>1, <2>2, <2>3 DEF IInv, ResultInv
  <2>5. \A w \in Workers : place'[w] = "called" => Told(held[w])'
    <3> SUFFICES ASSUME NEW w \in Workers, place'[w] = "called"
                 PROVE  Told(held[w])'
      OBVIOUS
    <3>1. held[w] \in Jobs /\ held[w] # i /\ Told(held[w])
      BY <1>1, <1>4 DEF IInv, ResultInv, OnceInv, TypeOK, PoolTypeOK, JobOrNull
    <3> QED BY <1>1, <1>7, <3>1 DEF Told
  <2> QED BY <1>1, <2>4, <2>5 DEF ResultInv
<1>15. PollInv' /\ ResultsRead'
  BY <1>1 DEF PollInv, ResultsRead
<1>16. FreshInv'
  <2>1. \A w \in Workers : place[w] \in {"fetched", "running"} => held[w] \in Jobs
    BY HeldFacts
  <2> QED BY <1>1, <1>4, <1>7, <1>8, <2>1 DEF IInv, FreshInv
<1> QED BY <1>6, <1>9, <1>10, <1>12, <1>13, <1>14, <1>15, <1>16 DEF IInv

LEMMA AddJobStep == IInv /\ AddJob => IInv'
<1> SUFFICES ASSUME IInv, AddJob PROVE IInv'
  OBVIOUS
<1> DEFINE n == Len(waiting)
<1>1. /\ at = "enqueue" /\ i' = i + 1 /\ valid' = [valid EXCEPT ![i] = FALSE]
      /\ prev' = [prev EXCEPT ![i] = last]
      /\ next' = IF last = Null THEN next ELSE [next EXCEPT ![last] = i]
      /\ last' = i /\ first' = (IF first = Null THEN i ELSE first)
      /\ waiting' = Append(waiting, i)
      /\ status' = status /\ result' = result /\ held' = held /\ place' = place /\ fresh' = fresh
  BY DEF AddJob, Enqueue
<1>2. i \in Jobs /\ i \in Nat /\ i < MaxJobs /\ MaxJobs \in Nat
  BY <1>1, JobsAssumption DEF IInv, TypeOK, Jobs
<1>3. \/ i + 1 < MaxJobs /\ at' = "clear" /\ mstate' = mstate
      \/ i + 1 = MaxJobs /\ at' = "idle" /\ mstate' = "UPDATE"
  BY <1>2 DEF AddJob
<1>4. Free(i) /\ status[i] = "PENDING" /\ next[i] = Null /\ ~fresh[i]
  BY <1>1, <1>2 DEF IInv, RefreshInv
<1>5. /\ first # i /\ last # i
      /\ \A k \in 1 .. n : waiting[k] # i
      /\ \A w \in Workers : held[w] # i
  BY <1>2, <1>4, FreeFacts
<1>6. waiting \in Seq(Jobs) /\ n \in Nat /\ \A k \in 1 .. n : waiting[k] \in Jobs
  BY DEF IInv, TypeOK, PoolTypeOK
<1>7. /\ waiting' \in Seq(Jobs) /\ Len(waiting') = n + 1 /\ waiting'[n + 1] = i
      /\ \A k \in 1 .. n : waiting'[k] = waiting[k]
  BY <1>1, <1>2, <1>6
<1> HIDE DEF n
<1>8. last = Null \/ last \in Jobs
  BY DEF IInv, TypeOK, PoolTypeOK, JobOrNull
<1>9. /\ prev' \in [Jobs -> JobOrNull] /\ prev'[i] = last
      /\ \A j \in Jobs : j # i => prev'[j] = prev[j]
  BY <1>1, <1>2, <1>8 DEF IInv, TypeOK, PoolTypeOK, JobOrNull
<1>10. /\ next' \in [Jobs -> JobOrNull] /\ next'[i] = Null
       /\ last \in Jobs => next'[last] = i
       /\ \A j \in Jobs : j # last => next'[j] = next[j]
  <2>1. next \in [Jobs -> JobOrNull] /\ Null \notin Jobs /\ i \in JobOrNull
    BY <1>2, JobsFacts DEF IInv, TypeOK, PoolTypeOK, JobOrNull
  <2>2. CASE last = Null
    BY <1>1, <1>4, <2>1, <2>2
  <2>3. CASE last \in Jobs
    BY <1>1, <1>2, <1>4, <1>5, <2>1, <2>3
  <2> QED BY <1>8, <2>2, <2>3
<1>11. valid' \in [Jobs -> BOOLEAN]
  BY <1>1 DEF IInv, TypeOK
<1>12. TypeOK'
  <2>1. first' \in JobOrNull /\ last' \in JobOrNull
    BY <1>1, <1>2 DEF IInv, TypeOK, PoolTypeOK, JobOrNull
  <2>2. i' \in 0 .. MaxJobs /\ (at' # "idle" => i' < MaxJobs) /\ at' \in {"idle", "clear"}
    BY <1>1, <1>2, <1>3
  <2>3. mstate' \in {"INIT", "UPDATE", "READY"}
    BY <1>3 DEF IInv, TypeOK
  <2> QED BY <1>1, <1>7, <1>9, <1>10, <1>11, <2>1, <2>2, <2>3 DEF IInv, TypeOK, PoolTypeOK
<1>13. QueueIntact'
  <2>1. CASE n = 0
    <3>1. first = Null /\ last = Null
      BY <2>1 DEF IInv, QueueIntact, n
    <3>2. first' = i /\ last' = i /\ prev'[i] = Null /\ next'[i] = Null
      BY <1>1, <1>9, <1>10, <3>1
    <3>3. Len(waiting') = 1 /\ waiting'[1] = i /\ 1 .. Len(waiting') - 1 = {}
      BY <1>7, <2>1
    <3> QED BY <3>2, <3>3 DEF QueueIntact
  <2>2. CASE n > 0
    <3>1. /\ first = waiting[1] /\ prev[first] = Null
          /\ last = waiting[n] /\ next[last] = Null
          /\ \A k \in 1 .. n - 1 : /\ next[waiting[k]] = waiting[k + 1]
                                   /\ prev[waiting[k + 1]] = waiting[k]
      BY <2>2 DEF IInv, QueueIntact, n
    <3>2. 1 \in 1 .. n /\ n \in 1 .. n
      BY <1>6, <2>2
    <3>3. first \in Jobs /\ last \in Jobs /\ first # Null /\ last # Null
      BY <1>6, <3>1, <3>2, JobsFacts
    <3>4. first' = first /\ waiting'[1] = first /\ prev'[first] = Null
      BY <1>1, <1>5, <1>7, <1>9, <3>1, <3>2, <3>3
    <3>5. ASSUME NEW k \in 1 .. n
          PROVE  next'[waiting'[k]] = waiting'[k + 1] /\ prev'[waiting'[k + 1]] = waiting'[k]
      <4>1. CASE k = n
        BY <1>7, <1>9, <1>10, <3>1, <3>2, <3>3, <4>1
      <4>2. CASE k # n
        <5>1. k \in 1 .. n - 1 /\ k + 1 \in 1 .. n
          BY <1>6, <4>2
        <5>2. waiting[k] \in Jobs /\ waiting[k + 1] \in Jobs /\ waiting[k + 1] # i
          BY <1>5, <1>6, <5>1
        <5>3. waiting[k] # last
          BY <1>6, <3>1, <3>2, <4>2 DEF IInv, OnceInv, n
        <5> QED BY <1>7, <1>9, <1>10, <3>1, <5>1, <5>2, <5>3
      <4> QED BY <4>1, <4>2
    <3>6. Len(waiting') > 0 /\ Len(waiting') = n + 1 /\ Len(waiting') - 1 = n
      BY <1>6, <1>7
    <3>7. first' = waiting'[1] /\ prev'[first'] = Null /\ last' = waiting'[n + 1] /\ next'[last'] = Null
      BY <1>1, <1>7, <1>10, <3>4
    <3> QED BY <3>5, <3>6, <3>7 DEF QueueIntact
  <2> QED BY <1>6, <2>1, <2>2
<1>14. ASSUME NEW k \in 1 .. Len(waiting'), k \notin 1 .. n
       PROVE  k = n + 1 /\ waiting'[k] = i
  BY <1>6, <1>7, <1>14
<1>15. OnceInv'
  <2>1. \A k, l \in 1 .. Len(waiting') : waiting'[k] = waiting'[l] => k = l
    <3> SUFFICES ASSUME NEW k \in 1 .. Len(waiting'), NEW l \in 1 .. Len(waiting'),
                        waiting'[k] = waiting'[l]
                 PROVE  k = l
      OBVIOUS
    <3>1. CASE k \in 1 .. n /\ l \in 1 .. n
      BY <1>7, <3>1 DEF IInv, OnceInv, n
    <3>2. CASE k \notin 1 .. n \/ l \notin 1 .. n
      BY <1>5, <1>7, <1>14, <3>2
    <3> QED BY <3>1, <3>2
  <2>2. \A k \in 1 .. Len(waiting'), w \in Workers : waiting'[k] # held'[w]
    <3> SUFFICES ASSUME NEW k \in 1 .. Len(waiting'), NEW w \in Workers
                 PROVE  waiting'[k] # held[w]
      BY <1>1
    <3>1. CASE k \in 1 .. n
      BY <1>7, <3>1 DEF IInv, OnceInv, n
    <3>2. CASE k \notin 1 .. n
      BY <1>5, <1>14, <3>2
    <3> QED BY <3>1, <3>2
  <2> QED BY <1>1, <2>1, <2>2 DEF IInv, OnceInv
<1>16. \A j \in Jobs : j # i /\ Free(j) => Free(j)'
  <2> SUFFICES ASSUME NEW j \in Jobs, j # i, Free(j) PROVE ~Waits(j)'
    BY <1>1 DEF Free, Held
  <2>1. \A k \in 1 .. n : waiting[k] # j
    BY DEF Free, Waits, n
  <2> QED BY <1>7, <1>14, <2>1 DEF Waits
<1>17. DoneInv'
  BY <1>1, <1>4, <1>16 DEF IInv, DoneInv
<1>18. RefreshInv'
  <2>1. \A j \in Jobs : j >= i + 1 => j >= i /\ j # i
    BY <1>2, JobsFacts
  <2> QED BY <1>1, <1>3, <1>16, <2>1 DEF IInv, RefreshInv
<1>19. ResultInv'
  <2>1. ASSUME NEW j \in Jobs, status'[j] = "DONE", mstate' # "INIT" \/ (at' = "clear" /\ j < i')
        PROVE  Told(j)'
    <3>1. j # i /\ status[j] = "DONE"
      BY <1>1, <1>4, <2>1
    <3>2. mstate # "INIT" \/ j < i
      <4>1. j < i + 1 => j < i
        BY <1>2, <3>1, JobsFacts
      <4>2. i + 1 = MaxJobs => j < i + 1
        BY <1>2 DEF Jobs
      <4> QED BY <1>1, <1>3, <2>1, <4>1, <4>2
    <3> QED BY <1>1, <3>1, <3>2 DEF IInv, ResultInv, Told
  <2>2. \A w \in Workers : place'[w] = "called" => Told(held[w])'
    BY <1>1 DEF IInv, ResultInv, Told
  <2> QED BY <1>1, <1>3, <2>1, <2>2 DEF ResultInv
<1>20. PollInv' /\ ResultsRead'
  BY <1>3 DEF PollInv, ResultsRead
<1>21. FreshInv'
  <2> SUFFICES ASSUME NEW k \in 1 .. Len(waiting') PROVE ~fresh[waiting'[k]]
    BY <1>1 DEF IInv, FreshInv
  <2>1. CASE k \in 1 .. n
    BY <1>7, <2>1 DEF IInv, FreshInv, n
  <2>2. CASE k \notin 1 .. n
    BY <1>4, <1>14, <2>2
  <2> QED BY <2>1, <2>2
<1> QED BY <1>12, <1>13, <1>15, <1>17, <1>18, <1>19, <1>20, <1>21 DEF IInv

-----------------------------------------------------------------------------
(* The worker threads *)

\* The queue without its first job.
LEMMA TailFacts ==
  ASSUME NEW S, NEW q \in Seq(S), Len(q) > 0
  PROVE  /\ Tail(q) \in Seq(S) /\ Len(Tail(q)) = Len(q) - 1
         /\ \A k \in 1 .. Len(q) - 1 : Tail(q)[k] = q[k + 1]
<1>1. q # <<>>
  OBVIOUS
<1>2. Len(q) \in Nat
  OBVIOUS
<1> QED BY <1>1, <1>2

LEMMA FetchStep ==
  ASSUME IInv, NEW w \in Workers, Fetch(w), UNCHANGED masterVars
  PROVE  IInv'
<1> DEFINE n == Len(waiting)
<1>1. /\ place[w] = "idle" /\ first # Null
      /\ held' = [held EXCEPT ![w] = first] /\ place' = [place EXCEPT ![w] = "fetched"]
      /\ first' = next[first] /\ waiting' = Tail(waiting)
      /\ next' = next /\ status' = status /\ result' = result /\ fresh' = fresh
      /\ mstate' = mstate /\ valid' = valid /\ i' = i /\ at' = at
  BY DEF Fetch, masterVars
<1>2. waiting \in Seq(Jobs) /\ n \in Nat /\ \A k \in 1 .. n : waiting[k] \in Jobs
  BY DEF IInv, TypeOK, PoolTypeOK
<1>3. n > 0
  BY <1>1, <1>2 DEF IInv, QueueIntact
<1>4. /\ first = waiting[1] /\ prev[first] = Null
      /\ last = waiting[n] /\ next[last] = Null
      /\ \A k \in 1 .. n - 1 : /\ next[waiting[k]] = waiting[k + 1]
                               /\ prev[waiting[k + 1]] = waiting[k]
  BY <1>3 DEF IInv, QueueIntact
<1>5. /\ waiting' \in Seq(Jobs) /\ Len(waiting') = n - 1
      /\ \A k \in 1 .. n - 1 : waiting'[k] = waiting[k + 1]
  BY <1>1, <1>2, <1>3, TailFacts
<1> HIDE DEF n
<1>6. /\ 1 \in 1 .. n /\ n \in 1 .. n
      /\ \A k \in 1 .. n - 1 : k \in 1 .. n /\ k + 1 \in 1 .. n
  BY <1>2, <1>3
<1>7. first \in Jobs /\ last \in Jobs /\ next[first] \in JobOrNull
  BY <1>2, <1>4, <1>6 DEF IInv, TypeOK, PoolTypeOK
<1>8. /\ held' \in [Workers -> JobOrNull] /\ place' \in [Workers -> Places]
      /\ held'[w] = first /\ place'[w] = "fetched" /\ held[w] = Null
      /\ \A v \in Workers : v # w => held'[v] = held[v] /\ place'[v] = place[v]
  BY <1>1, <1>7 DEF IInv, TypeOK, PoolTypeOK, OnceInv, JobOrNull, Places
<1>9. ASSUME next[first] # Null
      PROVE  /\ next[first] \in Jobs /\ last' = last
             /\ prev' \in [Jobs -> JobOrNull] /\ prev'[next[first]] = Null
             /\ \A j \in Jobs : j # next[first] => prev'[j] = prev[j]
  <2>1. prev' = [prev EXCEPT ![next[first]] = Null] /\ last' = last
    BY <1>9 DEF Fetch
  <2> QED BY <1>7, <1>9, <2>1 DEF IInv, TypeOK, PoolTypeOK, JobOrNull
<1>10. ASSUME next[first] = Null PROVE last' = Null /\ prev' = prev
  BY <1>10 DEF Fetch
<1>11. TypeOK'
  <2>1. last' \in JobOrNull /\ prev' \in [Jobs -> JobOrNull]
    BY <1>7, <1>9, <1>10 DEF IInv, TypeOK, PoolTypeOK, JobOrNull
  <2> QED BY <1>1, <1>5, <1>7, <1>8, <2>1 DEF IInv, TypeOK, PoolTypeOK
<1>12. QueueIntact'
  <2>1. CASE n = 1
    <3>1. next[first] = Null
      BY <1>4, <2>1
    <3>2. first' = Null /\ last' = Null
      BY <1>1, <1>10, <3>1
    <3>3. Len(waiting') = 0 /\ 1 .. Len(waiting') - 1 = {}
      BY <1>5, <2>1
    <3> QED BY <3>2, <3>3 DEF QueueIntact
  <2>2. CASE n > 1
    <3>1. 1 \in 1 .. n - 1 /\ n - 1 \in 1 .. n - 1
      BY <1>2, <2>2
    <3>2. next[first] = waiting[2] /\ waiting[2] \in Jobs /\ next[first] # Null
      BY <1>2, <1>4, <1>6, <3>1, JobsFacts
    <3>3. first' = waiting'[1] /\ prev'[first'] = Null
      BY <1>1, <1>5, <1>9, <3>1, <3>2
    <3>4. last' = waiting'[n - 1] /\ next'[last'] = Null
      BY <1>1, <1>2, <1>4, <1>5, <1>9, <3>1, <3>2
    <3>5. ASSUME NEW k \in 1 .. n - 2
          PROVE  next'[waiting'[k]] = waiting'[k + 1] /\ prev'[waiting'[k + 1]] = waiting'[k]
      <4>1. /\ k \in 1 .. n - 1 /\ k + 1 \in 1 .. n - 1 /\ (k + 1) + 1 = k + 2
            /\ k + 2 \in 1 .. n /\ 2 \in 1 .. n /\ k + 2 # 2
        BY <1>2, <2>2
      <4>2. waiting'[k] = waiting[k + 1] /\ waiting'[k + 1] = waiting[k + 2]
        BY <1>5, <4>1
      <4>3. next[waiting[k + 1]] = waiting[k + 2] /\ prev[waiting[k + 2]] = waiting[k + 1]
        BY <1>4, <4>1
      <4>4. waiting[k + 2] \in Jobs /\ waiting[k + 2] # next[first]
        BY <1>2, <3>2, <4>1 DEF IInv, OnceInv, n
      <4> QED BY <1>1, <1>9, <3>2, <4>2, <4>3, <4>4
    <3>6. Len(waiting') > 0 /\ Len(waiting') = n - 1 /\ Len(waiting') - 1 = n - 2
      BY <1>2, <1>5, <2>2
    <3> QED BY <3>3, <3>4, <3>5, <3>6 DEF QueueIntact
  <2> QED BY <1>2, <1>3, <2>1, <2>2
<1>13. \A k \in 1 .. n - 1 : waiting[k + 1] # first
  <2> SUFFICES ASSUME NEW k \in 1 .. n - 1 PROVE waiting[k + 1] # first
    OBVIOUS
  <2>1. k + 1 # 1
    BY <1>2
  <2> QED BY <1>4, <1>6, <2>1 DEF IInv, OnceInv, n
<1>14. \A v \in Workers : held[v] # first
  BY <1>4, <1>6 DEF IInv, OnceInv, n
<1>15. OnceInv'
  <2>1. \A k, l \in 1 .. n - 1 : waiting'[k] = waiting'[l] => k = l
    <3> SUFFICES ASSUME NEW k \in 1 .. n - 1, NEW l \in 1 .. n - 1, waiting'[k] = waiting'[l]
                 PROVE  k = l
      OBVIOUS
    <3>1. k + 1 = l + 1
      BY <1>5, <1>6 DEF IInv, OnceInv, n
    <3> QED BY <1>2, <3>1
  <2>2. \A v \in Workers : held'[v] = Null <=> place'[v] = "idle"
    BY <1>7, <1>8, JobsFacts DEF IInv, OnceInv
  <2>3. \A v, u \in Workers : held'[v] = held'[u] /\ held'[v] # Null => v = u
    BY <1>8, <1>14 DEF IInv, OnceInv
  <2>4. \A k \in 1 .. n - 1, v \in Workers : waiting'[k] # held'[v]
    BY <1>5, <1>6, <1>8, <1>13 DEF IInv, OnceInv, n
  <2> QED BY <1>5, <2>1, <2>2, <2>3, <2>4 DEF OnceInv
<1>16. \A j \in Jobs : Free(j) => Free(j)'
  <2> SUFFICES ASSUME NEW j \in Jobs, Free(j) PROVE Free(j)'
    OBVIOUS
  <2>1. first # j /\ (\A k \in 1 .. n : waiting[k] # j) /\ \A v \in Workers : held[v] # j
    BY FreeFacts DEF n
  <2>2. ~Waits(j)'
    BY <1>5, <1>6, <2>1 DEF Waits
  <2>3. ~Held(j)'
    BY <1>8, <2>1 DEF Held
  <2> QED BY <2>2, <2>3 DEF Free
<1>17. DoneInv'
  BY <1>1, <1>16 DEF IInv, DoneInv
<1>18. RefreshInv'
  BY <1>1, <1>16 DEF IInv, RefreshInv
<1>19. ResultInv'
  BY <1>1, <1>8 DEF IInv, ResultInv, Told
<1>20. PollInv' /\ ResultsRead'
  BY <1>1 DEF IInv, PollInv, ResultsRead
<1>21. FreshInv'
  <2>1. ~fresh[first] /\ \A k \in 1 .. n - 1 : ~fresh[waiting[k + 1]]
    BY <1>4, <1>6 DEF IInv, FreshInv, n
  <2> QED BY <1>1, <1>5, <1>8, <2>1 DEF IInv, FreshInv
<1> QED BY <1>11, <1>12, <1>15, <1>17, <1>18, <1>19, <1>20, <1>21 DEF IInv

\* The properties that a job's status, result and data do not enter.
LEMMA OutsideQueue ==
  ASSUME IInv, UNCHANGED links, UNCHANGED masterVars, UNCHANGED held,
         \A w \in Workers : place'[w] = "idle" <=> place[w] = "idle"
  PROVE  QueueIntact' /\ OnceInv' /\ \A j \in Jobs : Free(j)' <=> Free(j)
<1>1. first' = first /\ last' = last /\ next' = next /\ prev' = prev /\ waiting' = waiting
  BY DEF links
<1>2. QueueIntact'
  BY <1>1 DEF IInv, QueueIntact
<1>3. OnceInv'
  BY <1>1 DEF IInv, OnceInv
<1>4. \A j \in Jobs : Free(j)' <=> Free(j)
  BY <1>1 DEF Free, Waits, Held
<1> QED BY <1>2, <1>3, <1>4

LEMMA BeginStep ==
  ASSUME IInv, NEW w \in Workers, Begin(w), UNCHANGED masterVars
  PROVE  IInv'
<1>1. /\ place[w] = "fetched" /\ place' = [place EXCEPT ![w] = "running"]
      /\ status' = [status EXCEPT ![held[w]] = "RUNNING"]
      /\ first' = first /\ last' = last /\ next' = next /\ prev' = prev /\ waiting' = waiting
      /\ result' = result /\ held' = held /\ fresh' = fresh
      /\ mstate' = mstate /\ valid' = valid /\ i' = i /\ at' = at
  BY DEF Begin, links, masterVars
<1>2. /\ held[w] \in Jobs /\ status[held[w]] # "DONE" /\ (at = "enqueue" => i # held[w])
  BY <1>1, HeldFacts
<1>3. /\ place' \in [Workers -> Places] /\ place'[w] = "running"
      /\ \A v \in Workers : v # w => place'[v] = place[v]
  BY <1>1 DEF IInv, TypeOK, PoolTypeOK, Places
<1>4. /\ status' \in [Jobs -> {"PENDING", "RUNNING", "DONE"}]
      /\ status'[held[w]] = "RUNNING"
      /\ \A j \in Jobs : j # held[w] => status'[j] = status[j]
  BY <1>1, <1>2 DEF IInv, TypeOK, PoolTypeOK
<1>5. TypeOK'
  BY <1>1, <1>3, <1>4 DEF IInv, TypeOK, PoolTypeOK
<1>6. QueueIntact' /\ OnceInv' /\ \A j \in Jobs : Free(j)' <=> Free(j)
  <2>1. \A v \in Workers : place'[v] = "idle" <=> place[v] = "idle"
    BY <1>1, <1>3
  <2> QED BY <1>1, <2>1, OutsideQueue DEF links, masterVars
<1>7. \A j \in Jobs : status'[j] = "DONE" <=> status[j] = "DONE"
  BY <1>2, <1>4
<1>8. DoneInv'
  BY <1>6, <1>7 DEF IInv, DoneInv
<1>9. RefreshInv'
  <2>1. at = "enqueue" => status'[i] = "PENDING"
    <3> SUFFICES ASSUME at = "enqueue" PROVE status'[i] = "PENDING"
      OBVIOUS
    <3>1. i \in Jobs
      BY JobsAssumption DEF IInv, TypeOK, Jobs
    <3> QED BY <1>2, <1>4, <3>1 DEF IInv, RefreshInv
  <2> QED BY <1>1, <1>6, <2>1 DEF IInv, RefreshInv
<1>10. ResultInv'
  BY <1>1, <1>3, <1>7 DEF IInv, ResultInv, Told
<1>11. PollInv' /\ ResultsRead'
  BY <1>1, <1>7 DEF IInv, PollInv, ResultsRead
<1>12. FreshInv'
  BY <1>1, <1>3 DEF IInv, FreshInv
<1> QED BY <1>5, <1>6, <1>8, <1>9, <1>10, <1>11, <1>12 DEF IInv

LEMMA CallStep ==
  ASSUME IInv, NEW w \in Workers, Call(w), UNCHANGED masterVars
  PROVE  IInv'
<1>1. /\ place[w] = "running" /\ place' = [place EXCEPT ![w] = "called"]
      /\ first' = first /\ last' = last /\ next' = next /\ prev' = prev /\ waiting' = waiting
      /\ status' = status /\ held' = held
      /\ mstate' = mstate /\ valid' = valid /\ i' = i /\ at' = at
  BY DEF Call, links, masterVars
<1>2. /\ held[w] \in Jobs /\ status[held[w]] # "DONE"
      /\ \A v \in Workers : held[v] = held[w] => v = w
      /\ \A k \in 1 .. Len(waiting) : waiting[k] # held[w]
      /\ at = "enqueue" => i # held[w]
  BY <1>1, HeldFacts
<1>3. /\ place' \in [Workers -> Places] /\ place'[w] = "called"
      /\ \A v \in Workers : v # w => place'[v] = place[v]
  BY <1>1 DEF IInv, TypeOK, PoolTypeOK, Places
<1>4. /\ result' \in [Jobs -> {0, -1}] /\ fresh' \in [Jobs -> BOOLEAN]
      /\ \A j \in Jobs : j # held[w] => result'[j] = result[j] /\ fresh'[j] = fresh[j]
  BY <1>2 DEF Call, IInv, TypeOK, PoolTypeOK
<1>5. Told(held[w])'
  <2>1. ~fresh[held[w]]
    BY <1>1 DEF IInv, FreshInv
  <2>2. \/ result' = [result EXCEPT ![held[w]] = 0] /\ fresh' = [fresh EXCEPT ![held[w]] = TRUE]
        \/ result' = [result EXCEPT ![held[w]] = -1] /\ fresh' = fresh
    BY DEF Call
  <2>3. \/ result'[held[w]] = 0 /\ fresh'[held[w]] = TRUE
        \/ result'[held[w]] = -1 /\ fresh'[held[w]] = FALSE
    BY <1>2, <2>1, <2>2 DEF IInv, TypeOK, PoolTypeOK
  <2> QED BY <1>1, <2>3 DEF Told
<1>6. TypeOK'
  BY <1>1, <1>3, <1>4 DEF IInv, TypeOK, PoolTypeOK
<1>7. QueueIntact' /\ OnceInv' /\ \A j \in Jobs : Free(j)' <=> Free(j)
  <2>1. \A v \in Workers : place'[v] = "idle" <=> place[v] = "idle"
    BY <1>1, <1>3
  <2> QED BY <1>1, <2>1, OutsideQueue DEF links, masterVars
<1>8. DoneInv' /\ RefreshInv'
  <2>1. at = "enqueue" => i \in Jobs
    BY JobsAssumption DEF IInv, TypeOK, Jobs
  <2> QED BY <1>1, <1>2, <1>4, <1>7, <2>1 DEF IInv, DoneInv, RefreshInv
<1>9. \A j \in Jobs : status[j] = "DONE" => fresh'[j] = fresh[j] /\ result'[j] = result[j]
  BY <1>2, <1>4
<1>10. ResultInv'
  <2>1. ASSUME NEW v \in Workers, place'[v] = "called" PROVE Told(held[v])'
    <3>1. CASE v = w
      BY <1>5, <3>1
    <3>2. CASE v # w
      <4>1. held[v] # held[w] /\ place[v] = "called"
        BY <1>2, <1>3, <2>1, <3>2
      <4>2. held[v] \in Jobs
        BY <4>1, HeldFacts
      <4> QED BY <1>1, <1>4, <4>1, <4>2 DEF IInv, ResultInv, Told
    <3> QED BY <3>1, <3>2
  <2> QED BY <1>1, <1>9, <2>1 DEF IInv, ResultInv, Told
<1>11. PollInv' /\ ResultsRead'
  BY <1>1, <1>9 DEF IInv, PollInv, ResultsRead
<1>12. FreshInv'
  <2>1. \A k \in 1 .. Len(waiting) : waiting[k] \in Jobs
    BY DEF IInv, TypeOK, PoolTypeOK
  <2>2. ASSUME NEW v \in Workers, place'[v] \in {"fetched", "running"} PROVE ~fresh'[held[v]]
    <3>1. v # w /\ place[v] \in {"fetched", "running"}
      BY <1>3, <2>2
    <3>2. held[v] \in Jobs /\ held[v] # held[w]
      BY <1>2, <3>1, HeldFacts
    <3> QED BY <1>4, <3>1, <3>2 DEF IInv, FreshInv
  <2> QED BY <1>1, <1>2, <1>4, <2>1, <2>2 DEF IInv, FreshInv
<1> QED BY <1>6, <1>7, <1>8, <1>10, <1>11, <1>12 DEF IInv

LEMMA FinishStep ==
  ASSUME IInv, NEW w \in Workers, Finish(w), UNCHANGED masterVars
  PROVE  IInv'
<1>1. PICK done \in Jobs : done = held[w]
  BY HeldFacts DEF Finish
<1>2. /\ place[w] = "called" /\ place' = [place EXCEPT ![w] = "idle"]
      /\ status' = [status EXCEPT ![done] = "DONE"] /\ held' = [held EXCEPT ![w] = Null]
      /\ first' = first /\ last' = last /\ next' = next /\ prev' = prev /\ waiting' = waiting
      /\ result' = result /\ fresh' = fresh
      /\ mstate' = mstate /\ valid' = valid /\ i' = i /\ at' = at
  BY <1>1 DEF Finish, links, masterVars
<1>3. /\ status[done] # "DONE"
      /\ \A v \in Workers : held[v] = done => v = w
      /\ \A k \in 1 .. Len(waiting) : waiting[k] # done
      /\ at = "enqueue" => i # done
  BY <1>1, <1>2, HeldFacts
<1>4. Told(done)
  BY <1>1, <1>2 DEF IInv, ResultInv
<1>5. /\ place' \in [Workers -> Places] /\ held' \in [Workers -> JobOrNull]
      /\ place'[w] = "idle" /\ held'[w] = Null
      /\ \A v \in Workers : v # w => place'[v] = place[v] /\ held'[v] = held[v]
  BY <1>2 DEF IInv, TypeOK, PoolTypeOK, Places, JobOrNull
<1>6. /\ status' \in [Jobs -> {"PENDING", "RUNNING", "DONE"}]
      /\ status'[done] = "DONE"
      /\ \A j \in Jobs : j # done => status'[j] = status[j]
  BY <1>2 DEF IInv, TypeOK, PoolTypeOK
<1>7. TypeOK'
  BY <1>2, <1>5, <1>6 DEF IInv, TypeOK, PoolTypeOK
<1>8. QueueIntact'
  BY <1>2 DEF IInv, QueueIntact
<1>9. \A v \in Workers : held'[v] = Null \/ (v # w /\ held'[v] = held[v])
  BY <1>5
<1>10. OnceInv'
  <2>1. \A k \in 1 .. Len(waiting), v \in Workers : waiting[k] # held'[v]
    <3>1. \A k \in 1 .. Len(waiting) : waiting[k] \in Jobs
      BY DEF IInv, TypeOK, PoolTypeOK
    <3> QED BY <1>9, <3>1, JobsFacts DEF IInv, OnceInv
  <2>2. \A v \in Workers : held'[v] = Null <=> place'[v] = "idle"
    BY <1>5 DEF IInv, OnceInv
  <2>3. \A v, u \in Workers : held'[v] = held'[u] /\ held'[v] # Null => v = u
    BY <1>9 DEF IInv, OnceInv
  <2> QED BY <1>2, <2>1, <2>2, <2>3 DEF IInv, OnceInv
<1>11. \A j \in Jobs : Free(j) => Free(j)'
  <2> SUFFICES ASSUME NEW j \in Jobs, Free(j) PROVE ~Held(j)'
    BY <1>2 DEF Free, Waits
  <2> QED BY <1>9, JobsFacts DEF Free, Held
<1>12. Free(done)'
  <2>1. ~Waits(done)'
    BY <1>2, <1>3 DEF Waits
  <2>2. ~Held(done)'
    BY <1>3, <1>9, JobsFacts DEF Held
  <2> QED BY <2>1, <2>2 DEF Free
<1>13. DoneInv'
  BY <1>6, <1>11, <1>12 DEF IInv, DoneInv
<1>14. RefreshInv'
  <2>1. at = "enqueue" => status'[i] = "PENDING"
    <3> SUFFICES ASSUME at = "enqueue" PROVE status'[i] = "PENDING"
      OBVIOUS
    <3>1. i \in Jobs
      BY JobsAssumption DEF IInv, TypeOK, Jobs
    <3> QED BY <1>3, <1>6, <3>1 DEF IInv, RefreshInv
  <2> QED BY <1>2, <1>11, <2>1 DEF IInv, RefreshInv
<1>15. ResultInv'
  <2>1. \A j \in Jobs : Told(j)' <=> Told(j)
    BY <1>2 DEF Told
  <2>2. ASSUME NEW j \in Jobs, status'[j] = "DONE",
               mstate # "INIT" \/ (at \in {"clear", "enqueue"} /\ j < i)
        PROVE  Told(j)
    BY <1>4, <1>6, <2>2 DEF IInv, ResultInv
  <2>3. ASSUME NEW v \in Workers, place'[v] = "called" PROVE Told(held[v])'
    <3>1. v # w /\ place[v] = "called" /\ held'[v] = held[v]
      BY <1>5, <2>3
    <3> QED BY <1>2, <3>1 DEF IInv, ResultInv, Told
  <2> QED BY <1>2, <2>1, <2>2, <2>3 DEF ResultInv
<1>16. \A j \in Jobs : status[j] = "DONE" => status'[j] = "DONE"
  BY <1>6
<1>17. PollInv' /\ ResultsRead'
  BY <1>2, <1>16 DEF IInv, PollInv, ResultsRead
<1>18. FreshInv'
  BY <1>2, <1>5 DEF IInv, FreshInv
<1> QED BY <1>7, <1>8, <1>10, <1>13, <1>14, <1>15, <1>17, <1>18 DEF IInv

-----------------------------------------------------------------------------
\* What the properties rest on: who may touch a job when, although its links
\* and its status are written by both sides, one of them without the lock.
THEOREM Invariant == Spec => []IInv
<1>1. IInv /\ [Next]_vars => IInv'
  <2> SUFFICES ASSUME IInv, [Next]_vars PROVE IInv'
    OBVIOUS
  <2>1. CASE GameThread
    BY <2>1, RefreshStep, HostLookupStep, AddJobStep, UpdateStep, PollStep DEF GameThread
  <2>2. ASSUME NEW w \in Workers, WorkerThread(w), UNCHANGED masterVars PROVE IInv'
    BY <2>2, FetchStep, BeginStep, CallStep, FinishStep DEF WorkerThread
  <2>3. CASE UNCHANGED vars
    <3>1. /\ first' = first /\ last' = last /\ next' = next /\ prev' = prev
          /\ waiting' = waiting /\ status' = status /\ result' = result /\ held' = held
          /\ place' = place /\ fresh' = fresh
          /\ mstate' = mstate /\ valid' = valid /\ i' = i /\ at' = at
      BY <2>3 DEF vars, poolVars, links, masterVars
    <3>2. TypeOK' /\ QueueIntact'
      BY <3>1 DEF IInv, TypeOK, PoolTypeOK, QueueIntact
    <3>3. OnceInv' /\ DoneInv' /\ RefreshInv' /\ FreshInv'
      BY <3>1 DEF IInv, OnceInv, DoneInv, RefreshInv, FreshInv, Free, Waits, Held
    <3>4. ResultInv' /\ PollInv' /\ ResultsRead'
      BY <3>1 DEF IInv, ResultInv, PollInv, ResultsRead, Told
    <3> QED BY <3>2, <3>3, <3>4 DEF IInv
  <2> QED BY <2>1, <2>2, <2>3 DEF Next
<1> QED BY InitInv, <1>1, PTL DEF Spec

\* The game thread and the workers keep every field in its type, the index
\* of each loop within the array.
THEOREM TypeCorrect == Spec => []TypeOK
<1>1. IInv => TypeOK
  BY DEF IInv
<1> QED BY Invariant, <1>1, PTL

\* The links of CJobPool are those of the queue of jobs that wait, although
\* Add clears a job's links without the lock.
THEOREM LinksIntact == Spec => []QueueIntact
<1>1. IInv => QueueIntact
  BY DEF IInv
<1> QED BY Invariant, <1>1, PTL

\* What CMasterServer reads by polling is what the refresh has found.
THEOREM ResultsAreRead == Spec => []ResultsRead
<1>1. IInv => ResultsRead
  BY DEF IInv
<1> QED BY Invariant, <1>1, PTL

LEMMA QueueStep == IInv /\ [Next]_vars => [Queue!Next]_(Queue!queueVars)
<1> SUFFICES ASSUME IInv, [Next]_vars PROVE [Queue!Next]_(Queue!queueVars)
  OBVIOUS
<1>1. ASSUME waiting' = waiting, held' = held PROVE UNCHANGED Queue!queueVars
  BY <1>1 DEF Queue!queueVars, Running
<1>2. CASE AddJob
  <2>1. i \in Jobs /\ Free(i)
    <3>1. i \in Jobs /\ i >= i
      BY <1>2, JobsAssumption DEF AddJob, IInv, TypeOK, Jobs
    <3> QED BY <1>2, <3>1 DEF AddJob, IInv, RefreshInv
  <2>2. i \notin Running /\ \A k \in 1 .. Len(waiting) : waiting[k] # i
    BY <2>1, FreeFacts DEF Running
  <2>3. DOMAIN waiting = 1 .. Len(waiting)
    BY DEF IInv, TypeOK, PoolTypeOK
  <2>4. waiting' = Append(waiting, i) /\ Running' = Running
    BY <1>2 DEF AddJob, Enqueue, Running
  <2>5. Queue!Add(i)
    BY <2>2, <2>3, <2>4 DEF Queue!Add
  <2> QED BY <2>1, <2>5 DEF Queue!Next
<1>3. ASSUME NEW w \in Workers, Fetch(w) PROVE Queue!Take
  <2>1. /\ first # Null /\ waiting' = Tail(waiting) /\ place[w] = "idle"
        /\ held' = [held EXCEPT ![w] = first]
    BY <1>3 DEF Fetch
  <2>2. waiting \in Seq(Jobs) /\ held \in [Workers -> JobOrNull] /\ held[w] = Null
    BY <2>1 DEF IInv, TypeOK, PoolTypeOK, OnceInv
  <2>3. Len(waiting) > 0
    BY <2>1, <2>2 DEF IInv, QueueIntact
  <2>4. waiting # <<>> /\ Head(waiting) = first
    BY <2>2, <2>3 DEF IInv, QueueIntact
  <2>5. held'[w] = first /\ \A v \in Workers : v # w => held'[v] = held[v]
    BY <2>1, <2>2
  <2>6. Running' = Running \cup {first}
    BY <2>1, <2>2, <2>5 DEF Running
  <2> QED BY <2>1, <2>4, <2>6 DEF Queue!Take
<1>4. ASSUME NEW w \in Workers, Finish(w) PROVE Queue!Finish(held[w]) /\ held[w] \in Jobs
  <2>1. /\ place[w] = "called" /\ held' = [held EXCEPT ![w] = Null] /\ waiting' = waiting
    BY <1>4 DEF Finish, links
  <2>2. /\ held[w] \in Jobs /\ \A v \in Workers : held[v] = held[w] => v = w
    BY <2>1, HeldFacts
  <2>3. held'[w] = Null /\ \A v \in Workers : v # w => held'[v] = held[v]
    BY <2>1 DEF IInv, TypeOK, PoolTypeOK
  <2>4. held[w] \in Running /\ Running' = Running \ {held[w]}
    BY <2>2, <2>3, JobsFacts DEF Running
  <2> QED BY <2>1, <2>2, <2>4 DEF Queue!Finish
<1>5. CASE RefreshAddresses \/ HostLookup \/ Update \/ Poll \/ UNCHANGED vars
  BY <1>1, <1>5 DEF RefreshAddresses, HostLookup, Clear, Update, Poll, vars, poolVars, links
<1>6. ASSUME NEW w \in Workers, Begin(w) \/ Call(w) PROVE UNCHANGED Queue!queueVars
  BY <1>1, <1>6 DEF Begin, Call, links
<1>7. ASSUME NEW w \in Workers, WorkerThread(w) PROVE [Queue!Next]_(Queue!queueVars)
  BY <1>3, <1>4, <1>6, <1>7 DEF WorkerThread, Queue!Next
<1> QED BY <1>2, <1>5, <1>7 DEF Next, GameThread

\* The workers and the owner together are a first-in first-out queue that
\* runs a job once for each time it is added.
THEOREM ImplementsQueue == Spec => QueueSpec
<1>1. Init => Queue!Init
  BY DEF Init, PoolInit, Queue!Init, Running
<1> QED BY Invariant, <1>1, QueueStep, PTL DEF Spec, QueueSpec, Queue!Spec

-----------------------------------------------------------------------------
(* Why refreshes end *)

\* The jobs that the refresh has added, all of them once it has been begun.
Added(j) == IF at \in {"clear", "enqueue"} THEN j < i ELSE mstate # "INIT"

\* A lookup that is not done is in the queue or in a worker's hands.
LostInv == \A j \in Jobs : Added(j) /\ status[j] # "DONE" => Waits(j) \/ Held(j)

\* What Update waits for is never lost.
NoLookupLost ==
  at \in {"idle", "poll"} /\ mstate # "INIT" =>
    \A j \in Jobs : status[j] = "DONE" \/ Waits(j) \/ Held(j)

HeldAt(j, p) == \E w \in Workers : held[w] = j /\ place[w] = p

\* How many steps of workers a lookup has still to go.
JobLeft(j) == IF Waits(j) THEN 4
              ELSE IF HeldAt(j, "fetched") THEN 3
              ELSE IF HeldAt(j, "running") THEN 2
              ELSE IF HeldAt(j, "called") THEN 1 ELSE 0

\* Workers bring one lookup nearer to its end and leave the others as far;
\* the owner only adds.
Advances ==
  IF place' = place
  THEN \A j \in Jobs : JobLeft(j)' = JobLeft(j) \/ (at = "enqueue" /\ j = i)
  ELSE \E j \in Jobs : /\ JobLeft(j)' < JobLeft(j)
                       /\ \A k \in Jobs \ {j} : JobLeft(k)' = JobLeft(k)

\* Steps that leave the queue, the workers and their jobs alone.
LEMMA SameLeft ==
  ASSUME waiting' = waiting, held' = held, place' = place
  PROVE  \A j \in Jobs : /\ Waits(j)' <=> Waits(j)
                         /\ Held(j)' <=> Held(j)
                         /\ JobLeft(j)' = JobLeft(j)
BY DEF Waits, Held, HeldAt, JobLeft

LEMMA OwnerLoses ==
  ASSUME IInv, LostInv, RefreshAddresses \/ HostLookup \/ Update \/ Poll
  PROVE  LostInv' /\ Advances
<1>1. waiting' = waiting /\ held' = held /\ place' = place
  BY DEF RefreshAddresses, HostLookup, Clear, Update, Poll, poolVars, links
<1>2. Advances
  BY <1>1, SameLeft DEF Advances
<1>3. ASSUME NEW j \in Jobs, Added(j)', status'[j] # "DONE"
      PROVE  Added(j) /\ status[j] # "DONE"
  <2>1. CASE RefreshAddresses
    BY <1>3, <2>1, JobsFacts DEF RefreshAddresses, Added, Jobs
  <2>2. CASE HostLookup
    <3>1. /\ at = "clear" /\ at' = "enqueue" /\ i' = i
          /\ status' = [status EXCEPT ![i] = "PENDING"]
      BY <2>2 DEF HostLookup, Clear
    <3>2. j < i
      BY <1>3, <3>1 DEF Added
    <3>3. j # i
      BY <3>2, JobsFacts DEF IInv, TypeOK
    <3> QED
      BY <1>3, <3>1, <3>2, <3>3 DEF Added, IInv, TypeOK, PoolTypeOK
  <2>3. CASE Update
    BY <1>3, <2>3 DEF Update, Added, poolVars
  <2>4. CASE Poll
    BY <1>3, <2>4 DEF Poll, Added, poolVars, IInv, PollInv
  <2> QED
    BY <2>1, <2>2, <2>3, <2>4
<1>4. LostInv'
  BY <1>1, <1>3, SameLeft DEF LostInv
<1> QED BY <1>2, <1>4

LEMMA AddJobLoses ==
  ASSUME IInv, LostInv, AddJob
  PROVE  LostInv' /\ Advances
<1>1. /\ at = "enqueue" /\ waiting' = Append(waiting, i) /\ status' = status
      /\ held' = held /\ place' = place /\ i' = i + 1
      /\ IF i + 1 < MaxJobs THEN at' = "clear" ELSE at' = "idle" /\ mstate' = "UPDATE"
  BY DEF AddJob, Enqueue
<1>2. waiting \in Seq(Jobs) /\ i \in Jobs /\ MaxJobs \in Nat
  BY <1>1, JobsAssumption DEF IInv, TypeOK, PoolTypeOK, Jobs
<1>3. \A j \in Jobs : Waits(j)' <=> Waits(j) \/ j = i
  <2>1. /\ Len(waiting') = Len(waiting) + 1 /\ waiting'[Len(waiting) + 1] = i
        /\ \A k \in 1 .. Len(waiting) : waiting'[k] = waiting[k]
    BY <1>1, <1>2
  <2>2. Len(waiting) \in Nat
    BY <1>2
  <2> QED BY <2>1, <2>2 DEF Waits
<1>4. \A j \in Jobs : (Held(j)' <=> Held(j)) /\ \A p \in Places : HeldAt(j, p)' <=> HeldAt(j, p)
  BY <1>1 DEF Held, HeldAt
<1>5. Advances
  <2>1. \A j \in Jobs : j # i => JobLeft(j)' = JobLeft(j)
    BY <1>3, <1>4 DEF JobLeft, Places
  <2> QED BY <1>1, <2>1 DEF Advances
<1>6. \A j \in Jobs : Added(j)' => Added(j) \/ j = i
  BY <1>1, <1>2 DEF Added, Jobs
<1>7. LostInv'
  BY <1>1, <1>3, <1>4, <1>6 DEF LostInv
<1> QED BY <1>5, <1>7

LEMMA FetchLoses ==
  ASSUME IInv, LostInv, NEW w \in Workers, Fetch(w), UNCHANGED masterVars
  PROVE  LostInv' /\ Advances
<1> DEFINE n == Len(waiting)
<1>1. /\ place[w] = "idle" /\ first # Null
      /\ held' = [held EXCEPT ![w] = first] /\ place' = [place EXCEPT ![w] = "fetched"]
      /\ waiting' = Tail(waiting) /\ status' = status
      /\ mstate' = mstate /\ i' = i /\ at' = at
  BY DEF Fetch, masterVars
<1>2. /\ waiting \in Seq(Jobs) /\ n \in Nat /\ n > 0
      /\ held \in [Workers -> JobOrNull] /\ place \in [Workers -> Places] /\ held[w] = Null
  BY <1>1 DEF IInv, TypeOK, PoolTypeOK, QueueIntact, OnceInv
<1>0. first = waiting[1] /\ first \in Jobs
  BY <1>2 DEF IInv, QueueIntact
<1>3. PICK head \in Jobs : head = first /\ head = waiting[1]
  BY <1>0
<1>4. /\ Len(waiting') = n - 1
      /\ \A k \in 1 .. n - 1 : waiting'[k] = waiting[k + 1]
  BY <1>1, <1>2, TailFacts
<1>5. /\ held'[w] = head /\ place'[w] = "fetched"
      /\ \A v \in Workers : v # w => held'[v] = held[v] /\ place'[v] = place[v]
  BY <1>1, <1>2, <1>3
<1>6. Waits(head) /\ ~Waits(head)'
  <2>1. \A k \in 1 .. n - 1 : waiting[k + 1] # head
    BY <1>2, <1>3 DEF IInv, OnceInv
  <2> QED BY <1>2, <1>3, <1>4, <2>1 DEF Waits
<1>7. ASSUME NEW j \in Jobs, j # head
      PROVE  (Waits(j)' <=> Waits(j)) /\ (Held(j)' <=> Held(j)) /\ JobLeft(j)' = JobLeft(j)
  <2>1. Waits(j)' => Waits(j)
    BY <1>2, <1>4 DEF Waits
  <2>2. Waits(j) => Waits(j)'
    <3> SUFFICES ASSUME NEW k \in 1 .. n, waiting[k] = j PROVE Waits(j)'
      BY DEF Waits
    <3>1. k - 1 \in 1 .. n - 1 /\ (k - 1) + 1 = k
      BY <1>2, <1>3, <1>7
    <3> QED BY <1>4, <3>1 DEF Waits
  <2>3. Held(j)' <=> Held(j)
    BY <1>2, <1>5, <1>7, JobsFacts DEF Held
  <2>4. \A p : HeldAt(j, p)' <=> HeldAt(j, p)
    BY <1>2, <1>5, <1>7, JobsFacts DEF HeldAt
  <2> QED BY <2>1, <2>2, <2>3, <2>4 DEF JobLeft
<1>8. JobLeft(head) = 4 /\ JobLeft(head)' = 3 /\ Held(head)'
  <2>1. HeldAt(head, "fetched")' /\ Held(head)'
    BY <1>5 DEF HeldAt, Held
  <2> QED BY <1>6, <2>1 DEF JobLeft
<1>9. place' # place
  BY <1>1, <1>5
<1>10. Advances
  BY <1>3, <1>7, <1>8, <1>9 DEF Advances
<1>11. LostInv'
  BY <1>1, <1>7, <1>8 DEF LostInv, Added
<1> QED BY <1>10, <1>11

\* A worker that goes on with its lookup.
LEMMA WorkLoses ==
  ASSUME IInv, LostInv, NEW w \in Workers, Begin(w) \/ Call(w) \/ Finish(w),
         UNCHANGED masterVars
  PROVE  LostInv' /\ Advances
<1>1. /\ place[w] # "idle" /\ waiting' = waiting
      /\ mstate' = mstate /\ i' = i /\ at' = at
      /\ held \in [Workers -> JobOrNull] /\ place \in [Workers -> Places]
      /\ status \in [Jobs -> {"PENDING", "RUNNING", "DONE"}]
  BY DEF Begin, Call, Finish, links, masterVars, IInv, TypeOK, PoolTypeOK
<1>2. PICK job \in Jobs : job = held[w]
  BY <1>1, HeldFacts
<1>3. /\ \A v \in Workers : held[v] = job => v = w
      /\ \A k \in 1 .. Len(waiting) : waiting[k] # job
  BY <1>1, <1>2, HeldFacts
<1>4. /\ \A v \in Workers : v # w => held'[v] = held[v] /\ place'[v] = place[v]
      /\ \A j \in Jobs : j # job => status'[j] = status[j]
      /\ \/ place[w] = "fetched" /\ place'[w] = "running" /\ held'[w] = job
         \/ place[w] = "running" /\ place'[w] = "called" /\ held'[w] = job
         \/ /\ place[w] = "called" /\ place'[w] = "idle" /\ held'[w] = Null
            /\ status'[job] = "DONE"
  BY <1>1, <1>2 DEF Begin, Call, Finish
<1>5. ASSUME NEW j \in Jobs, j # job
      PROVE  (Waits(j)' <=> Waits(j)) /\ (Held(j)' <=> Held(j)) /\ JobLeft(j)' = JobLeft(j)
  <2>1. Waits(j)' <=> Waits(j)
    BY <1>1 DEF Waits
  <2>2. held'[w] # j /\ held[w] # j
    BY <1>2, <1>4, <1>5, JobsFacts
  <2>3. Held(j)' <=> Held(j)
    BY <1>4, <2>2 DEF Held
  <2>4. \A p : HeldAt(j, p)' <=> HeldAt(j, p)
    BY <1>4, <2>2 DEF HeldAt
  <2> QED BY <2>1, <2>3, <2>4 DEF JobLeft
<1>6. /\ JobLeft(job)' < JobLeft(job)
      /\ status'[job] = "DONE" \/ Held(job)'
  <2>1. ~Waits(job) /\ ~Waits(job)'
    BY <1>1, <1>3 DEF Waits
  <2>2. \A p : HeldAt(job, p) <=> place[w] = p
    BY <1>2, <1>3 DEF HeldAt
  <2>3. CASE held'[w] = job
    <3>1. \A v \in Workers : held'[v] = job => v = w
      BY <1>3, <1>4
    <3>2. \A p : HeldAt(job, p)' <=> place'[w] = p
      BY <2>3, <3>1 DEF HeldAt
    <3>3. Held(job)'
      BY <2>3 DEF Held
    <3> QED BY <1>4, <2>1, <2>2, <2>3, <3>2, <3>3, JobsFacts DEF JobLeft
  <2>4. CASE held'[w] # job
    <3>1. place[w] = "called" /\ status'[job] = "DONE"
      BY <1>4, <2>4
    <3>2. \A p : ~HeldAt(job, p)'
      BY <1>3, <1>4, <2>4 DEF HeldAt
    <3> QED BY <2>1, <2>2, <3>1, <3>2 DEF JobLeft
  <2> QED BY <2>3, <2>4
<1>7. place' # place
  BY <1>4
<1>8. Advances
  BY <1>5, <1>6, <1>7 DEF Advances
<1>9. LostInv'
  BY <1>1, <1>4, <1>5, <1>6 DEF LostInv, Added
<1> QED BY <1>8, <1>9

LEMMA LostStep == IInv /\ LostInv /\ [Next]_vars => LostInv' /\ Advances
<1> SUFFICES ASSUME IInv, LostInv, [Next]_vars PROVE LostInv' /\ Advances
  OBVIOUS
<1>1. CASE GameThread
  BY <1>1, OwnerLoses, AddJobLoses DEF GameThread
<1>2. ASSUME NEW w \in Workers, WorkerThread(w), UNCHANGED masterVars
      PROVE  LostInv' /\ Advances
  BY <1>2, FetchLoses, WorkLoses DEF WorkerThread
<1>3. CASE UNCHANGED vars
  <2>1. /\ waiting' = waiting /\ held' = held /\ place' = place /\ status' = status
        /\ mstate' = mstate /\ i' = i /\ at' = at
    BY <1>3 DEF vars, poolVars, links, masterVars
  <2> QED BY <2>1, SameLeft DEF LostInv, Added, Advances
<1> QED BY <1>1, <1>2, <1>3 DEF Next

LEMMA LostInductive == Spec => []LostInv
<1>1. Init => LostInv
  BY JobsFacts DEF Init, LostInv, Added, Jobs
<1> QED BY <1>1, Invariant, LostStep, PTL DEF Spec

\* While a refresh goes on, every lookup that Update finds not done is still
\* in the queue or with a worker, though AddJob and Fetch change the queue
\* between any two of its reads: it never waits for one that is lost.
THEOREM NothingLost == Spec => []NoLookupLost
<1>1. LostInv => NoLookupLost
  BY DEF LostInv, NoLookupLost, Added
<1> QED BY <1>1, LostInductive, PTL

\* Every step of a worker brings one lookup nearer to its end and no step
\* but the owner's adding takes one back: with NothingLost, a refresh ends
\* after at most four steps of workers for each of its lookups.
THEOREM LookupsAdvance == Spec => [][Advances]_vars
<1>1. IInv /\ LostInv /\ [Next]_vars => [Advances]_vars
  BY LostStep
<1> QED BY <1>1, Invariant, LostInductive, PTL DEF Spec
=============================================================================
