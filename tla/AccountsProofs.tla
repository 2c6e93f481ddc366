--------------------------- MODULE AccountsProofs ---------------------------
(***************************************************************************)
(* Proofs about Accounts for any number of slots, threads, clients and     *)
(* instances: no account is logged in twice, no nick or user name is       *)
(* registered twice.  Both rest on the lock of the database: what a job    *)
(* has read under it stays true until it writes, because the game thread   *)
(* only ever takes sessions away.                                          *)
(***************************************************************************)
EXTENDS Accounts, SequenceTheorems, TLAPS

\* Exactly the thread inside a job holds the database.
LockInv == \A t \in Threads : job[t].pc \in Holding <=> lock = t

\* What a registration is about to insert is a nick and a user name.
KindInv ==
  \A t \in Threads :
    /\ job[t].kind = "register" => job[t].nick \in Nicks /\ job[t].name \in Names
    /\ job[t].pc = "insert" => job[t].kind = "register"

\* The slots a login has compared do not have its account.
ScanInv ==
  \A t \in Threads :
    /\ job[t].pc = "scan" => \A i \in Slots : i < job[t].next => user[i] # job[t].uid
    /\ job[t].pc = "assign" => \A i \in Slots : user[i] # job[t].uid

\* What a registration is about to insert is still free.
InsertInv == \A t \in Threads : job[t].pc = "insert" => ~Taken(t)

IInv == /\ TypeOK /\ LockInv /\ KindInv /\ ScanInv /\ InsertInv
        /\ UniqueLogin /\ UniqueNames

LEMMA SlotsFacts == 0 \in Slots /\ Slots \subseteq Nat /\ MaxPlayers \in Nat
  BY PlayersAssumption DEF Slots

LEMMA NewJobFacts ==
  ASSUME NEW k \in Kinds, NEW s \in Slots, NEW i \in Instances \cup {-1},
         NEW n \in Nicks \cup {NoNick}, NEW m \in Names \cup {NoNick}
  PROVE  /\ NewJob(k, s, i, n, m) \in Job
         /\ NewJob(k, s, i, n, m).pc = "queued" /\ NewJob(k, s, i, n, m).kind = k
         /\ NewJob(k, s, i, n, m).nick = n /\ NewJob(k, s, i, n, m).name = m
<1>1. 0 \in Nat /\ 0 \in 0 .. MaxPlayers
  BY SlotsFacts
<1> QED BY <1>1 DEF NewJob, Job, Places

LEMMA NoJobFacts == NoJob \in Job /\ NoJob.pc = "idle" /\ NoJob.kind = "init"
<1>1. InitClientJob(0) \in Job /\ InitClientJob(0).kind = "init"
  BY SlotsFacts, NewJobFacts DEF InitClientJob, Kinds
<1> QED BY <1>1 DEF NoJob, Job, Places

LEMMA InitInv == Init => IInv
<1> SUFFICES ASSUME Init PROVE IInv
  OBVIOUS
<1>1. NoJob \in Job /\ NoJob.pc = "idle" /\ NoJob.kind = "init"
  BY NoJobFacts
<1>2. \A t \in Threads : job[t] = NoJob
  BY DEF Init
<1> HIDE DEF NoJob
<1>3. TypeOK
  <2>1. accounts \in Seq(Account)
    BY DEF Init
  <2> QED BY <1>1, <2>1, InstancesAssumption DEF Init, TypeOK
<1>4. LockInv
  BY <1>1, <1>2, NamesAssumption DEF Init, LockInv, Holding
<1>5. KindInv /\ ScanInv /\ InsertInv
  BY <1>1, <1>2 DEF KindInv, ScanInv, InsertInv
<1>6. UniqueLogin
  BY DEF Init, UniqueLogin
<1>7. UniqueNames
  BY EmptySeq DEF Init, UniqueNames
<1> QED BY <1>3, <1>4, <1>5, <1>6, <1>7 DEF IInv

\* A thread that changes place keeps its request.
LEMMA GotoFacts ==
  ASSUME TypeOK, NEW t \in Threads, NEW place \in Places, Goto(t, place)
  PROVE  /\ job' \in [Threads -> Job]
         /\ \A r \in Threads : r # t => job'[r] = job[r]
         /\ job'[t].pc = place
         /\ job'[t].kind = job[t].kind /\ job'[t].slot = job[t].slot
         /\ job'[t].nick = job[t].nick /\ job'[t].name = job[t].name
         /\ job'[t].uid = job[t].uid /\ job'[t].next = job[t].next
<1> DEFINE new == [job[t] EXCEPT !.pc = place]
<1>1. job[t] \in Job
  BY DEF TypeOK
<1>2. /\ new \in Job /\ new.pc = place
      /\ new.kind = job[t].kind /\ new.slot = job[t].slot
      /\ new.nick = job[t].nick /\ new.name = job[t].name
      /\ new.uid = job[t].uid /\ new.next = job[t].next
  BY <1>1 DEF Job
<1>3. job' = [job EXCEPT ![t] = new] /\ job \in [Threads -> Job]
  BY DEF Goto, TypeOK
<1> HIDE DEF new
<1> QED BY <1>2, <1>3

\* A step that takes sessions away at most, registers nobody, and brings no
\* thread to a place where it relies on what it has read.
LEMMA QuietStep ==
  ASSUME IInv, TypeOK', LockInv', KindInv', accounts' = accounts,
         \A s \in Slots : user'[s] = user[s] \/ user'[s] = -1,
         \A r \in Threads : job'[r] = job[r] \/ job'[r].pc \notin {"scan", "assign", "insert"}
  PROVE  IInv'
<1>1. ScanInv'
  <2> SUFFICES ASSUME NEW r \in Threads, job'[r].pc \in {"scan", "assign"}
               PROVE  /\ job'[r].pc = "scan" => \A i \in Slots : i < job'[r].next => user'[i] # job'[r].uid
                      /\ job'[r].pc = "assign" => \A i \in Slots : user'[i] # job'[r].uid
    BY DEF ScanInv
  <2>1. job'[r] = job[r]
    OBVIOUS
  <2>2. job[r].uid \in Nat
    BY DEF IInv, TypeOK, Job
  <2> QED BY <2>1, <2>2 DEF IInv, ScanInv
<1>2. InsertInv'
  BY DEF IInv, InsertInv, Taken
<1>3. UniqueLogin'
  BY DEF IInv, UniqueLogin
<1>4. UniqueNames'
  BY DEF IInv, UniqueNames
<1> QED BY <1>1, <1>2, <1>3, <1>4 DEF IInv
-----------------------------------------------------------------------------
(* The game thread *)

\* Connect, Rejoin and Drop take the session of one slot away.
LEMMA SlotStep ==
  ASSUME IInv, NEW s \in Slots,
         (\E n \in Nicks : Connect(s, n)) \/ Rejoin(s) \/ Drop(s)
  PROVE  IInv'
<1>1. /\ user' = [user EXCEPT ![s] = -1] /\ log' = [log EXCEPT ![s] = -1]
      /\ accounts' = accounts /\ job' = job /\ lock' = lock
  BY DEF Connect, Rejoin, Drop
<1>2. nick' \in [Slots -> Nicks \cup {NoNick}]
  BY DEF Connect, Rejoin, Drop, IInv, TypeOK
<1>3. user' \in [Slots -> Nat \cup {-1}] /\ log' \in [Slots -> Instances \cup {-1}]
  BY <1>1 DEF IInv, TypeOK
<1>4. TypeOK'
  BY <1>1, <1>2, <1>3 DEF IInv, TypeOK
<1>5. LockInv' /\ KindInv'
  BY <1>1 DEF IInv, LockInv, KindInv
<1>6. \A r \in Slots : user'[r] = user[r] \/ user'[r] = -1
  BY <1>1 DEF IInv, TypeOK
<1> QED BY <1>1, <1>4, <1>5, <1>6, QuietStep

LEMMA StartJobStep ==
  ASSUME IInv, NEW t \in Threads, NEW s \in Slots, NEW k \in Kinds, NEW m \in Names \cup {NoNick},
         StartJob(t, k, s, m), k = "register" => m \in Names
  PROVE  IInv'
<1>1. PICK i \in Instances :
        /\ log' = [log EXCEPT ![s] = i]
        /\ job' = [job EXCEPT ![t] = NewJob(k, s, i, nick[s], m)]
  BY DEF StartJob
<1>2. /\ job[t].pc = "idle" /\ nick[s] # NoNick
      /\ nick' = nick /\ user' = user /\ accounts' = accounts /\ lock' = lock
  BY DEF StartJob
<1>3. nick[s] \in Nicks /\ nick[s] \in Nicks \cup {NoNick}
  BY <1>2 DEF IInv, TypeOK
<1> DEFINE new == NewJob(k, s, i, nick[s], m)
<1>4. new \in Job /\ new.pc = "queued" /\ new.kind = k /\ new.nick = nick[s] /\ new.name = m
  BY <1>3, NewJobFacts
<1> HIDE DEF new
<1>5. /\ job' \in [Threads -> Job] /\ job'[t] = new
      /\ \A r \in Threads : r # t => job'[r] = job[r]
  BY <1>1, <1>4 DEF IInv, TypeOK, new
<1>6. log' \in [Slots -> Instances \cup {-1}]
  BY <1>1 DEF IInv, TypeOK
<1>7. TypeOK'
  BY <1>2, <1>5, <1>6 DEF IInv, TypeOK
<1>8. LockInv'
  BY <1>2, <1>4, <1>5 DEF IInv, LockInv, Holding
<1>9. KindInv'
  BY <1>3, <1>4, <1>5 DEF IInv, KindInv
<1> QED BY <1>2, <1>4, <1>5, <1>7, <1>8, <1>9, QuietStep

LEMMA GameStepInv == IInv /\ GameStep => IInv'
<1> SUFFICES ASSUME IInv, GameStep PROVE IInv'
  OBVIOUS
<1>1. PICK s \in Slots :
        \/ \E n \in Nicks : Connect(s, n)
        \/ Rejoin(s)
        \/ Drop(s)
        \/ \E t \in Threads : \/ Login(t, s)
                              \/ \E m \in Names : Register(t, s, m)
                              \/ ListInventory(t, s)
                              \/ ChangePassword(t, s)
  BY DEF GameStep
<1>2. CASE (\E n \in Nicks : Connect(s, n)) \/ Rejoin(s) \/ Drop(s)
  BY <1>2, SlotStep
<1>3. CASE \E t \in Threads : Login(t, s) \/ ListInventory(t, s) \/ ChangePassword(t, s)
  <2>1. PICK t \in Threads, k \in Kinds : StartJob(t, k, s, NoNick) /\ k # "register"
    BY <1>3 DEF Login, ListInventory, ChangePassword, Kinds
  <2> QED BY <2>1, StartJobStep
<1>4. CASE \E t \in Threads : \E m \in Names : Register(t, s, m)
  <2>1. PICK t \in Threads, m \in Names : StartJob(t, "register", s, m)
    BY <1>4 DEF Register
  <2>2. "register" \in Kinds /\ m \in Names \cup {NoNick}
    BY DEF Kinds
  <2> QED BY <2>1, <2>2, StartJobStep
<1> QED BY <1>1, <1>2, <1>3, <1>4

-----------------------------------------------------------------------------
(* The job threads *)

\* A thread that moves on inside its job, or from outside to outside.
LEMMA MoveStep ==
  ASSUME IInv, NEW t \in Threads, NEW place \in Places, Goto(t, place),
         UNCHANGED <<nick, log, accounts, lock>>,
         user' \in [Slots -> Nat \cup {-1}],
         \A s \in Slots : user'[s] = user[s] \/ user'[s] = -1,
         job[t].pc \in Holding <=> place \in Holding,
         place \notin {"scan", "assign", "insert"}
  PROVE  IInv'
<1>1. /\ job' \in [Threads -> Job]
      /\ \A r \in Threads : r # t => job'[r] = job[r]
      /\ job'[t].pc = place /\ job'[t].kind = job[t].kind
      /\ job'[t].nick = job[t].nick /\ job'[t].name = job[t].name
  BY GotoFacts DEF IInv
<1>2. nick' = nick /\ log' = log /\ accounts' = accounts /\ lock' = lock
  OBVIOUS
<1>3. TypeOK'
  BY <1>1, <1>2 DEF IInv, TypeOK
<1>4. LockInv'
  BY <1>1, <1>2 DEF IInv, LockInv
<1>5. KindInv'
  BY <1>1 DEF IInv, KindInv
<1> QED BY <1>1, <1>2, <1>3, <1>4, <1>5, QuietStep

LEMMA ConnectSqlServerStep ==
  ASSUME IInv, NEW t \in Threads, ConnectSqlServer(t)
  PROVE  IInv'
<1>1. /\ job[t].pc = "queued" /\ lock = NoThread
      /\ nick' = nick /\ user' = user /\ log' = log /\ accounts' = accounts
  BY DEF ConnectSqlServer, At
<1>2. CASE lock' = t /\ Goto(t, "guard")
  <2>1. /\ job' \in [Threads -> Job]
        /\ \A r \in Threads : r # t => job'[r] = job[r]
        /\ job'[t].pc = "guard" /\ job'[t].kind = job[t].kind
        /\ job'[t].nick = job[t].nick /\ job'[t].name = job[t].name
    BY <1>2, GotoFacts DEF IInv, Places, Holding
  <2>2. TypeOK'
    BY <1>1, <1>2, <2>1 DEF IInv, TypeOK
  <2>3. LockInv'
    <3>1. \A r \in Threads : r # t => job[r].pc \notin Holding
      BY <1>1, NamesAssumption DEF IInv, LockInv
    <3>2. "guard" \in Holding
      BY DEF Holding
    <3> QED BY <1>2, <2>1, <3>1, <3>2 DEF LockInv
  <2>4. KindInv'
    BY <2>1 DEF IInv, KindInv
  <2> QED BY <1>1, <2>1, <2>2, <2>3, <2>4, QuietStep
<1>3. CASE lock' = lock /\ Goto(t, "clean")
  <2>1. job[t].pc \notin Holding /\ "clean" \notin Holding /\ "clean" \in Places
    BY <1>1 DEF Holding, Places
  <2>2. user' \in [Slots -> Nat \cup {-1}]
    BY <1>1 DEF IInv, TypeOK
  <2> QED BY <1>1, <1>3, <2>1, <2>2, MoveStep
<1> QED BY <1>2, <1>3 DEF ConnectSqlServer

\* Guard, OtherQuery, the ends of the queries and a refused login.
LEMMA InsideStep ==
  ASSUME IInv, NEW t \in Threads, NEW place \in {"query", "unlock"}, Goto(t, place),
         job[t].pc \in Holding, UNCHANGED <<nick, log, accounts, lock>>,
         user' = user \/ user' = [user EXCEPT ![job[t].slot] = -1]
  PROVE  IInv'
<1>1. place \in Holding /\ place \in Places /\ place \notin {"scan", "assign", "insert"}
  BY DEF Holding, Places
<1>2. /\ user' \in [Slots -> Nat \cup {-1}]
      /\ \A s \in Slots : user'[s] = user[s] \/ user'[s] = -1
  BY DEF IInv, TypeOK
<1> QED BY <1>1, <1>2, MoveStep


\* A thread that keeps its request and stays inside its job.
LEMMA InsideFacts ==
  ASSUME IInv, NEW t \in Threads, job' \in [Threads -> Job],
         \A r \in Threads : r # t => job'[r] = job[r],
         job'[t].kind = job[t].kind, job'[t].nick = job[t].nick, job'[t].name = job[t].name,
         job[t].pc \in Holding, job'[t].pc \in Holding \ {"insert"}, lock' = lock,
         nick' = nick, log' = log, accounts' = accounts, user' \in [Slots -> Nat \cup {-1}]
  PROVE  /\ TypeOK' /\ LockInv' /\ KindInv' /\ InsertInv' /\ UniqueNames'
         /\ \A r \in Threads : r # t => job[r].pc \notin Holding
<1>1. TypeOK'
  BY DEF IInv, TypeOK
<1>2. LockInv' /\ \A r \in Threads : r # t => job[r].pc \notin Holding
  BY DEF IInv, LockInv
<1>3. KindInv' /\ InsertInv'
  BY DEF IInv, KindInv, InsertInv, Taken
<1>4. UniqueNames'
  BY DEF IInv, UniqueNames
<1> QED BY <1>1, <1>2, <1>3, <1>4

\* Entering, advancing in and leaving the loop of Login over the slots.
LEMMA ScanStep ==
  ASSUME IInv, NEW t \in Threads, NEW new \in Job, job' = [job EXCEPT ![t] = new],
         new.kind = job[t].kind, new.nick = job[t].nick, new.name = job[t].name,
         job[t].pc \in Holding, new.pc \in {"scan", "assign"},
         UNCHANGED <<nick, user, log, accounts, lock>>,
         new.pc = "scan" => \A i \in Slots : i < new.next => user[i] # new.uid,
         new.pc = "assign" => \A i \in Slots : user[i] # new.uid
  PROVE  IInv'
<1>1. /\ job' \in [Threads -> Job] /\ job'[t] = new
      /\ \A r \in Threads : r # t => job'[r] = job[r]
  BY DEF IInv, TypeOK
<1>2. job'[t].pc \in Holding \ {"insert"}
  BY <1>1 DEF Holding
<1>3. user' \in [Slots -> Nat \cup {-1}] /\ user' = user
  BY DEF IInv, TypeOK
<1>4. nick' = nick /\ log' = log /\ accounts' = accounts /\ lock' = lock
  OBVIOUS
<1>5. /\ TypeOK' /\ LockInv' /\ KindInv' /\ InsertInv' /\ UniqueNames'
      /\ \A r \in Threads : r # t => job[r].pc \notin Holding
  BY <1>1, <1>2, <1>3, <1>4, InsideFacts
<1>6. ScanInv'
  BY <1>1, <1>3, <1>5 DEF ScanInv, Holding
<1>7. UniqueLogin'
  BY <1>3 DEF IInv, UniqueLogin
<1> QED BY <1>5, <1>6, <1>7 DEF IInv

LEMMA LoginQueryStep ==
  ASSUME IInv, NEW t \in Threads, LoginQuery(t)
  PROVE  IInv'
<1>1. /\ job[t].pc \in Holding /\ job[t] \in Job
      /\ UNCHANGED <<nick, user, log, accounts, lock>>
  BY DEF LoginQuery, At, Holding, IInv, TypeOK
<1>2. CASE Goto(t, "unlock")
  BY <1>1, <1>2, InsideStep
<1>3. ASSUME NEW u \in DOMAIN accounts,
             job' = [job EXCEPT ![t].pc = "scan", ![t].uid = u, ![t].next = 0]
      PROVE  IInv'
  <2> DEFINE new == [job[t] EXCEPT !.pc = "scan", !.uid = u, !.next = 0]
  <2>1. u \in Nat /\ 0 \in 0 .. MaxPlayers /\ "scan" \in Places
    BY SlotsFacts, LenProperties DEF IInv, TypeOK, Places, Holding
  <2>2. /\ new \in Job /\ new.pc = "scan" /\ new.next = 0
        /\ new.kind = job[t].kind /\ new.nick = job[t].nick /\ new.name = job[t].name
    BY <1>1, <2>1 DEF Job
  <2>3. job' = [job EXCEPT ![t] = new]
    BY <1>3 DEF IInv, TypeOK
  <2> HIDE DEF new
  <2>4. \A i \in Slots : ~(i < new.next)
    BY <2>2 DEF Slots
  <2> QED BY <1>1, <2>2, <2>3, <2>4, ScanStep
<1> QED BY <1>2, <1>3 DEF LoginQuery

LEMMA LoginScanStep ==
  ASSUME IInv, NEW t \in Threads, LoginScan(t)
  PROVE  IInv'
<1> DEFINE i == job[t].next
<1>1. /\ job[t].pc = "scan" /\ job[t].pc \in Holding /\ job[t] \in Job
      /\ i \in 0 .. MaxPlayers /\ MaxPlayers \in Nat
      /\ nick' = nick /\ log' = log /\ accounts' = accounts /\ lock' = lock
  BY SlotsFacts DEF LoginScan, At, Holding, IInv, TypeOK, Job
<1>2. \A r \in Slots : r < i => user[r] # job[t].uid
  BY <1>1 DEF IInv, ScanInv
<1>3. CASE i = MaxPlayers /\ Goto(t, "assign") /\ UNCHANGED user
  <2> DEFINE new == [job[t] EXCEPT !.pc = "assign"]
  <2>1. "assign" \in Places
    BY DEF Places, Holding
  <2>2. /\ new \in Job /\ new.pc = "assign" /\ new.uid = job[t].uid
        /\ new.kind = job[t].kind /\ new.nick = job[t].nick /\ new.name = job[t].name
    BY <1>1, <2>1 DEF Job
  <2>3. job' = [job EXCEPT ![t] = new]
    BY <1>3 DEF Goto, IInv, TypeOK
  <2>4. \A r \in Slots : user[r] # job[t].uid
    BY <1>1, <1>2, <1>3 DEF Slots
  <2> HIDE DEF new
  <2> QED BY <1>1, <1>3, <2>2, <2>3, <2>4, ScanStep
<1>4. CASE i < MaxPlayers /\ user' = [user EXCEPT ![job[t].slot] = -1] /\ Goto(t, "unlock")
  BY <1>1, <1>4, InsideStep
<1>5. CASE i < MaxPlayers /\ user[i] # job[t].uid /\ job' = [job EXCEPT ![t].next = i + 1]
           /\ UNCHANGED user
  <2> DEFINE new == [job[t] EXCEPT !.next = i + 1]
  <2>1. i + 1 \in 0 .. MaxPlayers /\ i \in Slots
    BY <1>1, <1>5 DEF Slots
  <2>2. /\ new \in Job /\ new.pc = "scan" /\ new.uid = job[t].uid /\ new.next = i + 1
        /\ new.kind = job[t].kind /\ new.nick = job[t].nick /\ new.name = job[t].name
    BY <1>1, <2>1 DEF Job
  <2>3. job' = [job EXCEPT ![t] = new]
    BY <1>5 DEF IInv, TypeOK
  <2>4. \A r \in Slots : r < i + 1 => user[r] # job[t].uid
    BY <1>1, <1>2, <1>5 DEF Slots
  <2> HIDE DEF new, i
  <2>5. \A r \in Slots : r < new.next => user[r] # new.uid
    BY <2>2, <2>4
  <2>6. new.pc \in {"scan", "assign"} /\ new.pc # "assign"
    BY <2>2
  <2>7. UNCHANGED <<nick, user, log, accounts, lock>>
    BY <1>1, <1>5
  <2> QED BY <1>1, <2>2, <2>3, <2>5, <2>6, <2>7, ScanStep
<1> QED BY <1>3, <1>4, <1>5 DEF LoginScan

\* The account is on no slot, so taking it on one keeps it on one.
LEMMA LoginAssignStep ==
  ASSUME IInv, NEW t \in Threads, LoginAssign(t)
  PROVE  IInv'
<1>1. /\ job[t].pc = "assign" /\ job[t].pc \in Holding
      /\ job[t].slot \in Slots /\ job[t].uid \in Nat
      /\ user' = [user EXCEPT ![job[t].slot] = job[t].uid] /\ Goto(t, "load")
      /\ nick' = nick /\ log' = log /\ accounts' = accounts /\ lock' = lock
  BY DEF LoginAssign, At, Holding, IInv, TypeOK, Job
<1>2. \A s \in Slots : user[s] # job[t].uid
  BY <1>1 DEF IInv, ScanInv
<1>3. /\ job' \in [Threads -> Job]
      /\ \A r \in Threads : r # t => job'[r] = job[r]
      /\ job'[t].pc = "load" /\ job'[t].kind = job[t].kind
      /\ job'[t].nick = job[t].nick /\ job'[t].name = job[t].name
  BY <1>1, GotoFacts DEF IInv, Places, Holding
<1>4. user' \in [Slots -> Nat \cup {-1}]
  BY <1>1 DEF IInv, TypeOK
<1>5. "load" \in Holding \ {"insert"}
  BY DEF Holding
<1>6. /\ TypeOK' /\ LockInv' /\ KindInv' /\ InsertInv' /\ UniqueNames'
      /\ \A r \in Threads : r # t => job[r].pc \notin Holding
  BY <1>1, <1>3, <1>4, <1>5, InsideFacts
<1>7. ScanInv'
  BY <1>3, <1>6 DEF ScanInv, Holding
<1>8. UniqueLogin'
  <2>1. \A s \in Slots : user'[s] = IF s = job[t].slot THEN job[t].uid ELSE user[s]
    BY <1>1 DEF IInv, TypeOK
  <2> QED BY <1>2, <2>1 DEF IInv, UniqueLogin
<1> QED BY <1>6, <1>7, <1>8 DEF IInv

LEMMA LoginLoadStep ==
  ASSUME IInv, NEW t \in Threads, LoginLoad(t)
  PROVE  IInv'
<1> DEFINE child == user[job[t].slot] >= 0
           new == [job[t] EXCEPT !.pc = "unlock", !.child = child]
<1>1. /\ job[t].pc \in Holding /\ job[t] \in Job
      /\ nick' = nick /\ user' = user /\ log' = log /\ accounts' = accounts /\ lock' = lock
  BY DEF LoginLoad, At, Holding, IInv, TypeOK
<1>2. "unlock" \in Places /\ "unlock" \in Holding \ {"insert", "scan", "assign"}
  BY DEF Places, Holding
<1>3. child \in BOOLEAN
  OBVIOUS
<1>4. job' = [job EXCEPT ![t] = new]
  BY DEF LoginLoad, IInv, TypeOK
<1> HIDE DEF child
<1>5. /\ new \in Job /\ new.pc = "unlock"
      /\ new.kind = job[t].kind /\ new.nick = job[t].nick /\ new.name = job[t].name
  BY <1>1, <1>2, <1>3 DEF Job
<1> HIDE DEF new
<1>6. /\ job' \in [Threads -> Job] /\ job'[t] = new
      /\ \A r \in Threads : r # t => job'[r] = job[r]
  BY <1>4, <1>5 DEF IInv, TypeOK
<1>7. user' \in [Slots -> Nat \cup {-1}]
  BY <1>1 DEF IInv, TypeOK
<1>8. TypeOK' /\ LockInv' /\ KindInv'
  BY <1>1, <1>2, <1>5, <1>6, <1>7, InsideFacts
<1> QED BY <1>1, <1>2, <1>5, <1>6, <1>8, QuietStep

\* The name and the nick were free a moment ago, under the lock.
LEMMA RegisterQueryStep ==
  ASSUME IInv, NEW t \in Threads, RegisterQuery(t)
  PROVE  IInv'
<1>1. /\ job[t].pc \in Holding /\ job[t].kind = "register"
      /\ nick' = nick /\ user' = user /\ log' = log /\ accounts' = accounts /\ lock' = lock
  BY DEF RegisterQuery, At, Holding
<1>2. CASE Goto(t, "unlock")
  BY <1>1, <1>2, InsideStep
<1>3. CASE ~Taken(t) /\ Goto(t, "insert")
  <2>1. "insert" \in Places /\ "insert" \in Holding
    BY DEF Places, Holding
  <2>2. /\ job' \in [Threads -> Job]
        /\ \A r \in Threads : r # t => job'[r] = job[r]
        /\ job'[t].pc = "insert" /\ job'[t].kind = job[t].kind
        /\ job'[t].nick = job[t].nick /\ job'[t].name = job[t].name
    BY <1>3, <2>1, GotoFacts DEF IInv
  <2>3. TypeOK'
    BY <1>1, <2>2 DEF IInv, TypeOK
  <2>4. LockInv'
    BY <1>1, <2>1, <2>2 DEF IInv, LockInv
  <2>5. KindInv'
    BY <1>1, <2>2 DEF IInv, KindInv
  <2>6. ScanInv'
    BY <1>1, <2>2 DEF IInv, ScanInv
  <2>7. InsertInv'
    BY <1>1, <1>3, <2>2 DEF IInv, InsertInv, Taken
  <2>8. UniqueLogin' /\ UniqueNames'
    BY <1>1 DEF IInv, UniqueLogin, UniqueNames
  <2> QED BY <2>3, <2>4, <2>5, <2>6, <2>7, <2>8 DEF IInv
<1> QED BY <1>2, <1>3 DEF RegisterQuery

LEMMA RegisterInsertStep ==
  ASSUME IInv, NEW t \in Threads, RegisterInsert(t)
  PROVE  IInv'
<1> DEFINE row == [nick |-> job[t].nick, name |-> job[t].name]
<1>1. /\ job[t].pc = "insert" /\ job[t].pc \in Holding /\ Goto(t, "unlock")
      /\ nick' = nick /\ user' = user /\ log' = log /\ lock' = lock
  BY DEF RegisterInsert, At, Holding
<1>2. CASE accounts' = accounts
  BY <1>1, <1>2, InsideStep
<1>3. CASE accounts' = Append(accounts, row)
  <2>1. row \in Account /\ ~Taken(t)
    BY <1>1 DEF IInv, KindInv, InsertInv, Account
  <2>2. "unlock" \in Places /\ "unlock" \in Holding
    BY DEF Places, Holding
  <2>3. /\ job' \in [Threads -> Job]
        /\ \A r \in Threads : r # t => job'[r] = job[r]
        /\ job'[t].pc = "unlock" /\ job'[t].kind = job[t].kind
        /\ job'[t].nick = job[t].nick /\ job'[t].name = job[t].name
    BY <1>1, <2>2, GotoFacts DEF IInv
  <2> DEFINE n == Len(accounts)
  <2>4. /\ accounts \in Seq(Account) /\ n \in Nat /\ DOMAIN accounts = 1 .. n
        /\ accounts' \in Seq(Account) /\ DOMAIN accounts' = 1 .. n + 1
        /\ accounts'[n + 1] = row
        /\ \A u \in 1 .. n : accounts'[u] = accounts[u]
    <3>1. accounts \in Seq(Account)
      BY DEF IInv, TypeOK
    <3> HIDE DEF row
    <3> QED BY <1>3, <2>1, <3>1, AppendProperties, LenProperties
  <2> HIDE DEF n
  <2>5. TypeOK'
    BY <1>1, <2>3, <2>4 DEF IInv, TypeOK
  <2>6. LockInv' /\ \A r \in Threads : r # t => job[r].pc \notin Holding
    BY <1>1, <2>2, <2>3 DEF IInv, LockInv
  <2>7. KindInv'
    BY <2>3 DEF IInv, KindInv
  <2>8. ScanInv' /\ InsertInv'
    BY <2>3, <2>6 DEF ScanInv, InsertInv, Holding
  <2>9. UniqueLogin'
    BY <1>1 DEF IInv, UniqueLogin
  <2>10. UniqueNames'
    <3>1. \A u \in 1 .. n : accounts[u].name # row.name /\ accounts[u].nick # row.nick
      BY <2>1, <2>4 DEF Taken
    <3>2. \A u, v \in 1 .. n :
            u # v => accounts[u].nick # accounts[v].nick /\ accounts[u].name # accounts[v].name
      BY <2>4 DEF IInv, UniqueNames
    <3> HIDE DEF row
    <3> SUFFICES ASSUME NEW u \in 1 .. n + 1, NEW v \in 1 .. n + 1, u # v
                 PROVE  /\ accounts'[u].nick # accounts'[v].nick
                        /\ accounts'[u].name # accounts'[v].name
      BY <2>4 DEF UniqueNames
    <3>3. CASE u \in 1 .. n /\ v \in 1 .. n
      BY <2>4, <3>2, <3>3
    <3>4. CASE u = n + 1 /\ v \in 1 .. n
      BY <2>4, <3>1, <3>4
    <3>5. CASE v = n + 1 /\ u \in 1 .. n
      BY <2>4, <3>1, <3>5
    <3> QED BY <2>4, <3>3, <3>4, <3>5
  <2> QED BY <2>5, <2>6, <2>7, <2>8, <2>9, <2>10 DEF IInv
<1> QED BY <1>2, <1>3 DEF RegisterInsert

LEMMA DisconnectStep ==
  ASSUME IInv, NEW t \in Threads, Disconnect(t)
  PROVE  IInv'
<1>1. /\ job[t].pc = "unlock" /\ lock' = NoThread /\ Goto(t, "clean")
      /\ nick' = nick /\ user' = user /\ log' = log /\ accounts' = accounts
  BY DEF Disconnect, At
<1>2. "clean" \in Places /\ "clean" \notin Holding /\ "unlock" \in Holding
  BY DEF Places, Holding
<1>3. /\ job' \in [Threads -> Job]
      /\ \A r \in Threads : r # t => job'[r] = job[r]
      /\ job'[t].pc = "clean" /\ job'[t].kind = job[t].kind
      /\ job'[t].nick = job[t].nick /\ job'[t].name = job[t].name
  BY <1>1, <1>2, GotoFacts DEF IInv
<1>4. TypeOK'
  BY <1>1, <1>3 DEF IInv, TypeOK
<1>5. LockInv'
  <2>1. \A r \in Threads : r # t => job[r].pc \notin Holding
    BY <1>1, <1>2 DEF IInv, LockInv
  <2> QED BY <1>1, <1>2, <1>3, <2>1, NamesAssumption DEF LockInv
<1>6. KindInv'
  BY <1>3 DEF IInv, KindInv
<1> QED BY <1>1, <1>3, <1>4, <1>5, <1>6, QuietStep

LEMMA CleanStep ==
  ASSUME IInv, NEW t \in Threads, Clean(t)
  PROVE  IInv'
<1> DEFINE new == IF job[t].child THEN InitClientJob(job[t].slot) ELSE NoJob
<1>1. /\ job[t].pc = "clean" /\ job[t].slot \in Slots
      /\ nick' = nick /\ user' = user /\ accounts' = accounts /\ lock' = lock
  BY DEF Clean, At, IInv, TypeOK, Job
<1>2. new \in Job /\ new.pc \in {"queued", "idle"} /\ new.kind = "init"
  <2>1. "init" \in Kinds /\ -1 \in Instances \cup {-1}
        /\ NoNick \in Nicks \cup {NoNick} /\ NoNick \in Names \cup {NoNick}
    BY DEF Kinds
  <2>2. /\ InitClientJob(job[t].slot) \in Job
        /\ InitClientJob(job[t].slot).pc = "queued"
        /\ InitClientJob(job[t].slot).kind = "init"
    <3>1. \A s \in Slots : /\ NewJob("init", s, -1, NoNick, NoNick) \in Job
                           /\ NewJob("init", s, -1, NoNick, NoNick).pc = "queued"
                           /\ NewJob("init", s, -1, NoNick, NoNick).kind = "init"
      BY <2>1, NewJobFacts
    <3> QED BY <1>1, <3>1 DEF InitClientJob
  <2>3. CASE job[t].child
    BY <2>2, <2>3
  <2>4. CASE ~job[t].child
    BY <2>4, NoJobFacts
  <2> QED BY <2>3, <2>4
<1>3. job' = [job EXCEPT ![t] = new]
  BY DEF Clean, IInv, TypeOK
<1> HIDE DEF new
<1>4. /\ job' \in [Threads -> Job] /\ job'[t] = new
      /\ \A r \in Threads : r # t => job'[r] = job[r]
  BY <1>2, <1>3 DEF IInv, TypeOK
<1>5. log' \in [Slots -> Instances \cup {-1}]
  BY <1>1 DEF Clean, IInv, TypeOK
<1>6. TypeOK'
  BY <1>1, <1>4, <1>5 DEF IInv, TypeOK
<1>7. LockInv'
  BY <1>1, <1>2, <1>4 DEF IInv, LockInv, Holding
<1>8. KindInv'
  BY <1>2, <1>4 DEF IInv, KindInv
<1> QED BY <1>1, <1>2, <1>4, <1>6, <1>7, <1>8, QuietStep

LEMMA RunStep ==
  ASSUME IInv, NEW t \in Threads, Run(t)
  PROVE  IInv'
<1>1. CASE Guard(t) \/ OtherQuery(t)
  <2>1. /\ job[t].pc \in Holding /\ UNCHANGED <<nick, user, log, accounts, lock>>
        /\ Goto(t, "query") \/ Goto(t, "unlock")
    BY <1>1 DEF Guard, OtherQuery, At, Holding
  <2> QED BY <2>1, InsideStep
<1>2. CASE LoginQuery(t) \/ LoginScan(t) \/ LoginAssign(t) \/ LoginLoad(t)
  BY <1>2, LoginQueryStep, LoginScanStep, LoginAssignStep, LoginLoadStep
<1>3. CASE RegisterQuery(t) \/ RegisterInsert(t)
  BY <1>3, RegisterQueryStep, RegisterInsertStep
<1>4. CASE Disconnect(t) \/ Clean(t)
  BY <1>4, DisconnectStep, CleanStep
<1> QED BY <1>1, <1>2, <1>3, <1>4 DEF Run

LEMMA NextInv == IInv /\ [Next]_vars => IInv'
<1> SUFFICES ASSUME IInv, [Next]_vars PROVE IInv'
  OBVIOUS
<1>1. CASE GameStep
  BY <1>1, GameStepInv
<1>2. CASE \E t \in Threads : ConnectSqlServer(t) \/ Run(t)
  BY <1>2, ConnectSqlServerStep, RunStep
<1>3. CASE UNCHANGED vars
  <2>1. /\ nick' = nick /\ user' = user /\ log' = log /\ accounts' = accounts
        /\ job' = job /\ lock' = lock
    BY <1>3 DEF vars
  <2>2. TypeOK' /\ LockInv' /\ KindInv'
    BY <2>1 DEF IInv, TypeOK, LockInv, KindInv
  <2> QED BY <2>1, <2>2, QuietStep
<1> QED BY <1>1, <1>2, <1>3 DEF Next

THEOREM Invariant == Spec => []IInv
<1> QED BY InitInv, NextInv, PTL DEF Spec

\* The variables keep their types: no step leaves a slot, a job or an account
\* in a shape the code does not have.
THEOREM TypeCorrect == Spec => []TypeOK
<1>1. IInv => TypeOK
  BY DEF IInv
<1> QED BY <1>1, Invariant, PTL

\* No account is ever logged in on two slots, however logins, drops and new
\* clients interleave with the loop of CSqlJob_Server_Login.
THEOREM LoginIsUnique == Spec => []UniqueLogin
<1>1. IInv => UniqueLogin
  BY DEF IInv
<1> QED BY <1>1, Invariant, PTL

\* No nick and no user name is ever registered twice, though the tables have
\* no unique key for them and statements may fail after taking effect.
THEOREM NamesAreUnique == Spec => []UniqueNames
<1>1. IInv => UniqueNames
  BY DEF IInv
<1> QED BY <1>1, Invariant, PTL

-----------------------------------------------------------------------------
(* Logins and registrations as single steps, and how long a job can take    *)

\* The account a login is about to take is registered, only a login gets
\* there, and only a login leaves a second job behind.
JobInv ==
  \A t \in Threads :
    /\ job[t].pc \in {"scan", "assign"} => job[t].uid \in DOMAIN accounts
    /\ job[t].pc \in {"scan", "assign", "load"} \/ job[t].child => job[t].kind = "login"

PlaceRank(pc) ==
  CASE pc = "idle" -> 0 [] pc = "clean" -> 1 [] pc = "unlock" -> 2
    [] pc \in {"insert", "load"} -> 3 [] pc = "assign" -> 4 [] pc = "scan" -> 5
    [] pc = "query" -> 6 [] pc = "guard" -> 7 [] OTHER -> 8

\* The steps that are left to the thread of job j at most: the places ahead of
\* it, the slots it has not compared, and those of the job it may start.
Rank(j) ==
  PlaceRank(j.pc)
  + (IF j.pc \in {"query", "guard", "queued"} THEN MaxPlayers
     ELSE IF j.pc = "scan" THEN MaxPlayers - j.next ELSE 0)
  + (IF j.kind = "init" THEN 0 ELSE MaxPlayers + 8)

\* A job of thread t becomes j: it is a new one, or has less left to do.
Advances(t, j) == job[t].pc = "idle" \/ Rank(j) < Rank(job[t])

\* What a step of one thread, or of the game for one thread, comes to.
ThreadStep(t) ==
  /\ \A r \in Threads : r # t => job'[r] = job[r]
  /\ Advances(t, job'[t])
  /\ job'[t].pc \in {"scan", "assign"} => job'[t].uid \in DOMAIN accounts
  /\ job'[t].pc \in {"scan", "assign", "load"} \/ job'[t].child => job'[t].kind = "login"

LEMMA GotoAdvances ==
  ASSUME IInv, JobInv, NEW t \in Threads, NEW place \in Places, Goto(t, place),
         <<job[t].pc, place>> \in
           {<<"queued", "guard">>, <<"queued", "clean">>, <<"guard", "query">>,
            <<"guard", "unlock">>, <<"query", "unlock">>, <<"query", "insert">>,
            <<"scan", "assign">>, <<"scan", "unlock">>, <<"assign", "load">>,
            <<"insert", "unlock">>, <<"unlock", "clean">>}
  PROVE  ThreadStep(t)
<1> DEFINE old == job[t]  new == [old EXCEPT !.pc = place]
<1>1. old \in Job /\ job' = [job EXCEPT ![t] = new] /\ job \in [Threads -> Job]
  BY DEF Goto, IInv, TypeOK
<1>2. /\ new.pc = place /\ new.kind = old.kind /\ new.uid = old.uid
      /\ new.next = old.next /\ new.child = old.child /\ old.next \in 0 .. MaxPlayers
  BY <1>1 DEF Job
<1>3. job'[t] = new /\ \A r \in Threads : r # t => job'[r] = job[r]
  BY <1>1
<1>4. /\ old.pc \in {"scan", "assign"} => old.uid \in DOMAIN accounts
      /\ old.pc \in {"scan", "assign", "load"} \/ old.child => old.kind = "login"
  BY DEF JobInv
<1> HIDE DEF old, new
<1>5. /\ new.pc \in {"scan", "assign"} => new.uid \in DOMAIN accounts
      /\ new.pc \in {"scan", "assign", "load"} \/ new.child => new.kind = "login"
  BY <1>2, <1>4 DEF old
<1>6. Rank(new) < Rank(old)
  BY <1>2, SlotsFacts DEF Rank, PlaceRank, old
<1> QED BY <1>3, <1>5, <1>6 DEF ThreadStep, Advances, old

\* Every step inside a job brings it closer to its end.
LEMMA JobAdvances ==
  ASSUME IInv, JobInv, NEW t \in Threads, ConnectSqlServer(t) \/ Run(t)
  PROVE  ThreadStep(t)
<1> DEFINE old == job[t]
<1>1. /\ old \in Job /\ job \in [Threads -> Job] /\ old.next \in 0 .. MaxPlayers
      /\ MaxPlayers \in Nat
      /\ {"guard", "query", "scan", "assign", "load", "insert", "unlock", "clean"} \subseteq Places
  BY SlotsFacts DEF IInv, TypeOK, Job, Places, Holding
<1>2. CASE ConnectSqlServer(t) \/ Guard(t) \/ OtherQuery(t) \/ LoginAssign(t)
           \/ RegisterQuery(t) \/ RegisterInsert(t) \/ Disconnect(t)
  <2>1. CASE ConnectSqlServer(t)
    BY <1>1, <2>1, GotoAdvances DEF ConnectSqlServer, At
  <2>2. CASE Guard(t) \/ OtherQuery(t)
    BY <1>1, <2>2, GotoAdvances DEF Guard, OtherQuery, At
  <2>3. CASE LoginAssign(t) \/ Disconnect(t)
    BY <1>1, <2>3, GotoAdvances DEF LoginAssign, Disconnect, At
  <2>4. CASE RegisterQuery(t) \/ RegisterInsert(t)
    BY <1>1, <2>4, GotoAdvances DEF RegisterQuery, RegisterInsert, At
  <2> QED BY <1>2, <2>1, <2>2, <2>3, <2>4
<1>3. CASE LoginQuery(t)
  <2>1. CASE Goto(t, "unlock")
    BY <1>1, <1>3, <2>1, GotoAdvances DEF LoginQuery, At
  <2>2. ASSUME NEW u \in DOMAIN accounts,
               job' = [job EXCEPT ![t].pc = "scan", ![t].uid = u, ![t].next = 0]
        PROVE  ThreadStep(t)
    <3> DEFINE new == [old EXCEPT !.pc = "scan", !.uid = u, !.next = 0]
    <3>1. /\ new.pc = "scan" /\ new.kind = "login" /\ new.uid = u /\ new.next = 0
          /\ old.pc = "query" /\ old.kind = "login"
      BY <1>1, <1>3 DEF LoginQuery, At, Job
    <3>2. job'[t] = new /\ \A r \in Threads : r # t => job'[r] = job[r]
      BY <1>1, <2>2
    <3> HIDE DEF new, old
    <3>3. Rank(new) < Rank(old)
      BY <1>1, <3>1 DEF Rank, PlaceRank
    <3> QED BY <3>1, <3>2, <3>3 DEF ThreadStep, Advances, old
  <2> QED BY <1>3, <2>1, <2>2 DEF LoginQuery
<1>4. CASE LoginScan(t)
  <2>1. CASE Goto(t, "assign") \/ Goto(t, "unlock")
    BY <1>1, <1>4, <2>1, GotoAdvances DEF LoginScan, At
  <2>2. CASE old.next < MaxPlayers /\ job' = [job EXCEPT ![t].next = old.next + 1]
    <3> DEFINE new == [old EXCEPT !.next = old.next + 1]
    <3>1. /\ new.pc = "scan" /\ new.kind = old.kind /\ new.uid = old.uid
          /\ new.next = old.next + 1 /\ old.pc = "scan"
      BY <1>1, <1>4 DEF LoginScan, At, Job
    <3>2. job'[t] = new /\ \A r \in Threads : r # t => job'[r] = job[r]
      BY <1>1, <2>2
    <3>3. old.uid \in DOMAIN accounts /\ old.kind = "login"
      BY <3>1 DEF JobInv
    <3> HIDE DEF new, old
    <3>4. Rank(new) < Rank(old)
      BY <1>1, <2>2, <3>1, <3>3 DEF Rank, PlaceRank
    <3> QED BY <3>1, <3>2, <3>3, <3>4 DEF ThreadStep, Advances, old
  <2> QED BY <1>4, <2>1, <2>2 DEF LoginScan
<1>5. CASE LoginLoad(t)
  <2> DEFINE child == user[old.slot] >= 0
             new == [old EXCEPT !.pc = "unlock", !.child = child]
  <2>1. /\ new.pc = "unlock" /\ new.kind = old.kind /\ old.pc = "load"
    BY <1>1, <1>5 DEF LoginLoad, At, Job
  <2>2. job'[t] = new /\ \A r \in Threads : r # t => job'[r] = job[r]
    BY <1>1, <1>5 DEF LoginLoad
  <2>3. old.kind = "login"
    BY <2>1 DEF JobInv
  <2> HIDE DEF new, old
  <2>4. Rank(new) < Rank(old)
    BY <1>1, <2>1, <2>3 DEF Rank, PlaceRank
  <2> QED BY <2>1, <2>2, <2>3, <2>4 DEF ThreadStep, Advances, old
<1>6. CASE Clean(t)
  <2> DEFINE next == InitClientJob(old.slot)
             new == IF old.child THEN next ELSE NoJob
  <2>1. /\ next.pc = "queued" /\ next.kind = "init" /\ next.child = FALSE
        /\ NoJob.pc = "idle" /\ NoJob.kind = "init" /\ NoJob.child = FALSE
    BY DEF InitClientJob, NewJob, NoJob
  <2>2. job' = [job EXCEPT ![t] = new] /\ old.pc = "clean"
    BY <1>6 DEF Clean, At
  <2>3. job'[t] = new /\ \A r \in Threads : r # t => job'[r] = job[r]
    BY <1>1, <2>2
  <2>4. old.child => old.kind = "login"
    BY DEF JobInv
  <2> HIDE DEF next, old
  <2>5. CASE old.child
    <3>1. new = next
      BY <2>5
    <3>2. Rank(new) < Rank(old)
      BY <1>1, <2>1, <2>2, <2>4, <2>5, <3>1 DEF Rank, PlaceRank
    <3> QED BY <2>1, <2>3, <3>1, <3>2 DEF ThreadStep, Advances, old
  <2>6. CASE ~old.child
    <3>1. new = NoJob
      BY <2>6
    <3> HIDE DEF new
    <3>2. Rank(new) < Rank(old)
      BY <1>1, <2>1, <2>2, <3>1 DEF Rank, PlaceRank
    <3> QED BY <2>1, <2>3, <3>1, <3>2 DEF ThreadStep, Advances, old
  <2> QED BY <2>5, <2>6
<1> QED BY <1>2, <1>3, <1>4, <1>5, <1>6 DEF Run

\* A new request is only for an idle thread.
LEMMA StartJobAdvances ==
  ASSUME IInv, NEW t \in Threads, NEW s \in Slots, NEW k \in Kinds, NEW m,
         StartJob(t, k, s, m)
  PROVE  ThreadStep(t)
<1>1. PICK i \in Instances : job' = [job EXCEPT ![t] = NewJob(k, s, i, nick[s], m)]
  BY DEF StartJob
<1> DEFINE new == NewJob(k, s, i, nick[s], m)
<1>2. new.pc = "queued" /\ new.child = FALSE
  BY DEF NewJob
<1>3. job[t].pc = "idle"
  BY DEF StartJob
<1> HIDE DEF new
<1>4. job'[t] = new /\ \A r \in Threads : r # t => job'[r] = job[r]
  BY <1>1 DEF IInv, TypeOK, new
<1> QED BY <1>2, <1>3, <1>4 DEF ThreadStep, Advances

\* A step of the game leaves the accounts alone and ends at most one session.
LEMMA GameStepFacts ==
  ASSUME IInv, GameStep
  PROVE  /\ accounts' = accounts
         /\ user' = user \/ \E s \in Slots : user' = [user EXCEPT ![s] = -1]
         /\ job' = job \/ \E t \in Threads : ThreadStep(t)
<1>1. PICK s \in Slots :
        \/ \E n \in Nicks : Connect(s, n)
        \/ Rejoin(s)
        \/ Drop(s)
        \/ \E t \in Threads : \/ Login(t, s)
                              \/ \E m \in Names : Register(t, s, m)
                              \/ ListInventory(t, s)
                              \/ ChangePassword(t, s)
  BY DEF GameStep
<1>2. CASE (\E n \in Nicks : Connect(s, n)) \/ Rejoin(s) \/ Drop(s)
  BY <1>2 DEF Connect, Rejoin, Drop
<1>3. CASE \E t \in Threads : \/ Login(t, s)
                              \/ \E m \in Names : Register(t, s, m)
                              \/ ListInventory(t, s)
                              \/ ChangePassword(t, s)
  <2>1. PICK t \in Threads, k \in Kinds, m \in Names \cup {NoNick} : StartJob(t, k, s, m)
    BY <1>3 DEF Login, Register, ListInventory, ChangePassword, Kinds
  <2>2. ThreadStep(t)
    BY <2>1, StartJobAdvances
  <2>3. accounts' = accounts /\ user' = user
    BY <2>1 DEF StartJob
  <2> QED BY <2>2, <2>3
<1> QED BY <1>1, <1>2, <1>3

\* A step of a thread registers a free nick and name, ends the session of its
\* slot, begins one of an account that has none, or does none of it.
LEMMA ThreadStepFacts ==
  ASSUME IInv, JobInv, NEW t \in Threads, ConnectSqlServer(t) \/ Run(t)
  PROVE  \/ user' = user /\ accounts' = accounts
         \/ \E s \in Slots : user' = [user EXCEPT ![s] = -1] /\ accounts' = accounts
         \/ \E s \in Slots, u \in DOMAIN accounts : Atomic!LogIn(s, u)
         \/ \E n \in Nicks, m \in Names : Atomic!Register(n, m)
<1>1. job[t].slot \in Slots
  BY DEF IInv, TypeOK, Job
<1>2. CASE LoginScan(t)
  BY <1>1, <1>2 DEF LoginScan
<1>3. CASE LoginAssign(t)
  <2>1. /\ user' = [user EXCEPT ![job[t].slot] = job[t].uid] /\ accounts' = accounts
        /\ job[t].pc = "assign"
    BY <1>3 DEF LoginAssign, At
  <2>2. job[t].uid \in DOMAIN accounts /\ \A r \in Slots : user[r] # job[t].uid
    BY <2>1 DEF JobInv, IInv, ScanInv
  <2>3. Atomic!LogIn(job[t].slot, job[t].uid)
    BY <2>1, <2>2 DEF Atomic!LogIn
  <2> QED BY <1>1, <2>2, <2>3
<1>4. CASE RegisterInsert(t)
  <2>1. user' = user /\ job[t].pc = "insert"
    BY <1>4 DEF RegisterInsert, At
  <2>2. CASE accounts' = Append(accounts, [nick |-> job[t].nick, name |-> job[t].name])
    <3>1. job[t].nick \in Nicks /\ job[t].name \in Names /\ ~Taken(t)
      BY <2>1 DEF IInv, KindInv, InsertInv
    <3>2. Atomic!Register(job[t].nick, job[t].name)
      BY <2>1, <2>2, <3>1 DEF Atomic!Register, Taken
    <3> QED BY <3>1, <3>2
  <2>3. CASE accounts' = accounts
    BY <2>1, <2>3
  <2> QED BY <1>4, <2>2, <2>3 DEF RegisterInsert
<1>5. CASE ConnectSqlServer(t) \/ Guard(t) \/ LoginQuery(t) \/ LoginLoad(t)
           \/ RegisterQuery(t) \/ OtherQuery(t) \/ Disconnect(t) \/ Clean(t)
  BY <1>5 DEF ConnectSqlServer, Guard, LoginQuery, LoginLoad, RegisterQuery,
              OtherQuery, Disconnect, Clean
<1> QED BY <1>2, <1>3, <1>4, <1>5 DEF Run

\* Registered accounts stay, so what is known of a thread's account stays.
LEMMA JobInvStep ==
  ASSUME IInv, JobInv, [Next]_vars
  PROVE  /\ JobInv'
         /\ \A t \in Threads : job'[t] # job[t] => Advances(t, job'[t])
<1>1. DOMAIN accounts \subseteq DOMAIN accounts'
  <2>1. accounts' = accounts \/ \E n \in Nicks, m \in Names : Atomic!Register(n, m)
    <3>1. CASE GameStep
      BY <3>1, GameStepFacts
    <3>2. CASE \E t \in Threads : ConnectSqlServer(t) \/ Run(t)
      BY <3>2, ThreadStepFacts DEF Atomic!LogIn
    <3> QED BY <3>1, <3>2 DEF Next, vars
  <2>2. ASSUME NEW n \in Nicks, NEW m \in Names, Atomic!Register(n, m)
        PROVE  DOMAIN accounts \subseteq DOMAIN accounts'
    <3> DEFINE row == [nick |-> n, name |-> m]
    <3>1. accounts \in Seq(Account) /\ row \in Account /\ accounts' = Append(accounts, row)
      BY <2>2 DEF Atomic!Register, IInv, TypeOK, Account
    <3> HIDE DEF row
    <3> QED BY <3>1, AppendProperties, LenProperties
  <2> QED BY <2>1, <2>2
<1>2. job' = job \/ \E t \in Threads : ThreadStep(t)
  <2>1. CASE GameStep
    BY <2>1, GameStepFacts
  <2>2. CASE \E t \in Threads : ConnectSqlServer(t) \/ Run(t)
    BY <2>2, JobAdvances
  <2> QED BY <2>1, <2>2 DEF Next, vars
<1>3. CASE job' = job
  BY <1>1, <1>3 DEF JobInv
<1>4. ASSUME NEW t \in Threads, ThreadStep(t)
      PROVE  /\ JobInv'
             /\ \A r \in Threads : job'[r] # job[r] => Advances(r, job'[r])
  <2>1. JobInv'
    BY <1>1, <1>4 DEF ThreadStep, JobInv
  <2> QED BY <1>4, <2>1 DEF ThreadStep
<1> QED BY <1>2, <1>3, <1>4

LEMMA JobInvInit == Init => JobInv
<1>1. NoJob.pc = "idle" /\ NoJob.child = FALSE
  BY DEF NoJob, InitClientJob, NewJob
<1> HIDE DEF NoJob
<1> QED BY <1>1 DEF Init, JobInv

THEOREM JobInvariant == Spec => []JobInv
<1>1. IInv /\ JobInv /\ [Next]_vars => JobInv'
  BY JobInvStep
<1> QED BY <1>1, JobInvInit, Invariant, PTL DEF Spec

\* Logins and registrations are atomic: the jobs' steps, a slot at a time and
\* between the game's, implement lookups and changes done in one step.
THEOREM ImplementsSessions == Spec => SessionsSpec
<1>1. Init => Atomic!Init
  BY DEF Init, Atomic!Init
<1>2. IInv /\ JobInv /\ [Next]_vars => [Atomic!Next]_(Atomic!sessionVars)
  <2> SUFFICES ASSUME IInv, JobInv, [Next]_vars
               PROVE  Atomic!Next \/ UNCHANGED Atomic!sessionVars
    OBVIOUS
  <2>1. CASE GameStep
    BY <2>1, GameStepFacts DEF Atomic!Next, Atomic!LogOut, Atomic!sessionVars
  <2>2. CASE \E t \in Threads : ConnectSqlServer(t) \/ Run(t)
    BY <2>2, ThreadStepFacts DEF Atomic!Next, Atomic!LogOut, Atomic!sessionVars
  <2>3. CASE UNCHANGED vars
    BY <2>3 DEF vars, Atomic!sessionVars
  <2> QED BY <2>1, <2>2, <2>3 DEF Next
<1> QED BY <1>1, <1>2, Invariant, JobInvariant, PTL DEF Spec, SessionsSpec, Atomic!Spec

\* A job is bounded: each step of its thread uses up some of what it has left,
\* and nothing any other thread or the game does gives it more.  So a job that
\* has the database gives it back after a number of its own steps that only
\* the number of slots limits.
THEOREM JobsAdvance ==
  Spec => [][\A t \in Threads : job'[t] # job[t] => Advances(t, job'[t])]_vars
<1>1. IInv /\ JobInv /\ [Next]_vars
        => [\A t \in Threads : job'[t] # job[t] => Advances(t, job'[t])]_vars
  BY JobInvStep
<1> QED BY <1>1, Invariant, JobInvariant, PTL DEF Spec
=============================================================================
