------------------------------- MODULE Accounts -----------------------------
(***************************************************************************)
(* Accounts and sessions: the database jobs of engine/server/sql_jobs.h    *)
(* that register and log in clients, run by one detached thread each       *)
(* (sql_job.cpp) under the lock of the only write server (sql_server.cpp,  *)
(* MAX_SQLSERVERS = 1, so a job has one try), against the client slots     *)
(* that the game thread of server.cpp connects, resets and drops.          *)
(*                                                                         *)
(* A slot answers one request at a time: m_LogInstance holds the instance  *)
(* of the job and CleanInstanceRef clears it.  CSqlJob::m_Instance is      *)
(* never written, so a job's instance is any of Instances.  A thread that  *)
(* ends becomes the job it started: an InitClient job takes the database   *)
(* after its login has released it and touches nothing modelled here.      *)
(* Passwords are a choice of the query, which may find nothing.            *)
(***************************************************************************)
EXTENDS Integers, Sequences

CONSTANTS
  Threads,     \* bound: job threads alive at a time
  Nicks,       \* client names
  Names,       \* user names of accounts
  NoNick,      \* the name of an empty slot
  MaxPlayers,  \* MAX_PLAYERS
  Instances,   \* values an unwritten m_Instance may have
  NoThread     \* the database lock is free

Slots == 0 .. MaxPlayers - 1

ASSUME PlayersAssumption == MaxPlayers \in Nat \ {0}
ASSUME NamesAssumption == NoNick \notin Nicks /\ NoThread \notin Threads
ASSUME InstancesAssumption == Instances \subseteq Int

VARIABLES
  nick,      \* m_aClients[].m_aName, NoNick in STATE_EMPTY
  user,      \* m_aClients[].m_UserID, -1 when not logged in
  log,       \* m_aClients[].m_LogInstance, negative when no request is open
  accounts,  \* the Users table in the order of UserId
  job,       \* the CSqlJob each thread runs
  lock       \* m_SqlLock of the write server

vars == <<nick, user, log, accounts, job, lock>>

Kinds == {"login", "register", "list", "password", "init"}
\* The jobs that compare m_LogInstance with their instance, and clear it.
Gated == {"login", "register", "list"}

\* Places of a job thread: waiting for the lock, then holding it.
Holding == {"guard", "query", "scan", "assign", "load", "insert", "unlock"}
Places  == Holding \cup {"idle", "queued", "clean"}

Account == [nick : Nicks, name : Names]
Job == [pc : Places, kind : Kinds, slot : Slots, inst : Instances \cup {-1},
        nick : Nicks \cup {NoNick}, name : Names \cup {NoNick},
        uid : Nat, next : 0 .. MaxPlayers, child : BOOLEAN]

NewJob(k, s, i, n, m) ==
  [pc |-> "queued", kind |-> k, slot |-> s, inst |-> i, nick |-> n, name |-> m,
   uid |-> 0, next |-> 0, child |-> FALSE]
InitClientJob(s) == NewJob("init", s, -1, NoNick, NoNick)
NoJob == [InitClientJob(0) EXCEPT !.pc = "idle"]

Init ==
  /\ nick = [s \in Slots |-> NoNick]
  /\ user = [s \in Slots |-> -1]
  /\ log = [s \in Slots |-> -1]
  /\ accounts = <<>>
  /\ job = [t \in Threads |-> NoJob]
  /\ lock = NoThread

-----------------------------------------------------------------------------
(* The game thread *)

\* TryAcceptClient takes the first free slot; NewClientCallback; SetClientName,
\* which compares the name with those of players in the game only (ClientName is
\* "(connecting)" before), so clients that join together may have one name.
Connect(s, n) ==
  /\ nick[s] = NoNick /\ \A r \in 0 .. s - 1 : nick[r] # NoNick
  /\ nick' = [nick EXCEPT ![s] = n]
  /\ user' = [user EXCEPT ![s] = -1]
  /\ log' = [log EXCEPT ![s] = -1]
  /\ UNCHANGED <<accounts, job, lock>>

\* ClientRejoinCallback of a client that is not changing maps: CClient::Reset.
Rejoin(s) ==
  /\ nick[s] # NoNick
  /\ user' = [user EXCEPT ![s] = -1]
  /\ log' = [log EXCEPT ![s] = -1]
  /\ UNCHANGED <<nick, accounts, job, lock>>

\* DelClientCallback.  The jobs of the client go on.
Drop(s) ==
  /\ nick[s] # NoNick
  /\ nick' = [nick EXCEPT ![s] = NoNick]
  /\ user' = [user EXCEPT ![s] = -1]
  /\ log' = [log EXCEPT ![s] = -1]
  /\ UNCHANGED <<accounts, job, lock>>

\* Mutant: the requests of a slot are counted.
StartJobCounting(t, k, s, m) ==
  /\ job[t].pc = "idle"
  /\ nick[s] # NoNick
  /\ log' = [log EXCEPT ![s] = @ + 1]
  /\ job' = [job EXCEPT ![t] = NewJob(k, s, log[s] + 1, nick[s], m)]
  /\ UNCHANGED <<nick, user, accounts, lock>>

\* new CSqlJob, m_LogInstance = GetInstance(), Start.
StartJob(t, k, s, m) ==
  /\ job[t].pc = "idle"
  /\ nick[s] # NoNick
  /\ \E i \in Instances :
       /\ log' = [log EXCEPT ![s] = i]
       /\ job' = [job EXCEPT ![t] = NewJob(k, s, i, nick[s], m)]
  /\ UNCHANGED <<nick, user, accounts, lock>>

Login(t, s) ==
  /\ user[s] < 0 /\ log[s] < 0
  /\ StartJob(t, "login", s, NoNick)

Register(t, s, m) ==
  /\ log[s] < 0
  /\ StartJob(t, "register", s, m)

ListInventory(t, s) ==
  /\ log[s] < 0 \/ user[s] >= 0
  /\ StartJob(t, "list", s, NoNick)

\* ChangePassword opens a request that no CleanInstanceRef closes.
ChangePassword(t, s) ==
  /\ user[s] >= 0
  /\ StartJob(t, "password", s, NoNick)

-----------------------------------------------------------------------------
(* A job thread: CSqlJob::Exec *)

At(t, place) == job[t].pc = place
Goto(t, place) == job' = [job EXCEPT ![t].pc = place]

\* Mutant: a failed Connect keeps the lock.
ConnectWithoutUnlock(t) ==
  /\ At(t, "queued") /\ lock = NoThread
  /\ lock' = t
  /\ Goto(t, "guard") \/ Goto(t, "clean")
  /\ UNCHANGED <<nick, user, log, accounts>>

\* Mutant: the lock is given back as soon as the job is connected.
ConnectUnlocking(t) ==
  /\ At(t, "queued") /\ lock = NoThread
  /\ Goto(t, "guard") \/ Goto(t, "clean")
  /\ UNCHANGED <<nick, user, log, accounts, lock>>

\* ConnectSqlServer: Connect locks, and unlocks again when it fails.
ConnectSqlServer(t) ==
  /\ At(t, "queued") /\ lock = NoThread
  /\ \/ lock' = t /\ Goto(t, "guard")
     \/ lock' = lock /\ Goto(t, "clean")
  /\ UNCHANGED <<nick, user, log, accounts>>

\* Job returns at once when the slot is no longer waiting for it.
Guard(t) ==
  /\ At(t, "guard")
  /\ Goto(t, IF job[t].kind \in Gated /\ log[job[t].slot] # job[t].inst
             THEN "unlock" ELSE "query")
  /\ UNCHANGED <<nick, user, log, accounts, lock>>

\* CSqlJob_Server_Login: the account of the client's name, unless the password
\* is wrong or the statement throws.
LoginQuery(t) ==
  /\ At(t, "query") /\ job[t].kind = "login"
  /\ \/ Goto(t, "unlock")
     \/ \E u \in DOMAIN accounts :
          /\ accounts[u].nick = job[t].nick
          /\ job' = [job EXCEPT ![t].pc = "scan", ![t].uid = u, ![t].next = 0]
  /\ UNCHANGED <<nick, user, log, accounts, lock>>

\* Mutant: the loop leaves out the last slot.
LoginScanShort(t) ==
  /\ At(t, "scan")
  /\ LET i == job[t].next IN
     \/ /\ i = MaxPlayers - 1
        /\ Goto(t, "assign")
        /\ UNCHANGED user
     \/ /\ i < MaxPlayers - 1 /\ user[i] = job[t].uid
        /\ user' = [user EXCEPT ![job[t].slot] = -1]
        /\ Goto(t, "unlock")
     \/ /\ i < MaxPlayers - 1 /\ user[i] # job[t].uid
        /\ job' = [job EXCEPT ![t].next = i + 1]
        /\ UNCHANGED user
  /\ UNCHANGED <<nick, log, accounts, lock>>

\* The loop over the slots: one comparison, or the end of the loop.
LoginScan(t) ==
  /\ At(t, "scan")
  /\ LET i == job[t].next IN
     \/ /\ i = MaxPlayers
        /\ Goto(t, "assign")
        /\ UNCHANGED user
     \/ /\ i < MaxPlayers /\ user[i] = job[t].uid
        /\ user' = [user EXCEPT ![job[t].slot] = -1]
        /\ Goto(t, "unlock")
     \/ /\ i < MaxPlayers /\ user[i] # job[t].uid
        /\ job' = [job EXCEPT ![t].next = i + 1]
        /\ UNCHANGED user
  /\ UNCHANGED <<nick, log, accounts, lock>>

LoginAssign(t) ==
  /\ At(t, "assign")
  /\ user' = [user EXCEPT ![job[t].slot] = job[t].uid]
  /\ Goto(t, "load")
  /\ UNCHANGED <<nick, log, accounts, lock>>

\* InitClientDB starts the InitClient job if the slot is still logged in.
LoginLoad(t) ==
  /\ At(t, "load")
  /\ job' = [job EXCEPT ![t].pc = "unlock", ![t].child = user[job[t].slot] >= 0]
  /\ UNCHANGED <<nick, user, log, accounts, lock>>

\* Mutant: the query of Register looks for the user name only.
TakenName(t) == \E u \in DOMAIN accounts : accounts[u].name = job[t].name

Taken(t) == \E u \in DOMAIN accounts :
              accounts[u].name = job[t].name \/ accounts[u].nick = job[t].nick

\* CSqlJob_Server_Register: the name and the nick must be free.
RegisterQuery(t) ==
  /\ At(t, "query") /\ job[t].kind = "register"
  /\ \/ Goto(t, "unlock")
     \/ ~Taken(t) /\ Goto(t, "insert")
  /\ UNCHANGED <<nick, user, log, accounts, lock>>

\* The INSERT takes effect or not, and a statement that did may still throw
\* when its answer is lost.  The row of uClass that follows is not modelled.
RegisterInsert(t) ==
  /\ At(t, "insert")
  /\ \/ accounts' = Append(accounts, [nick |-> job[t].nick, name |-> job[t].name])
     \/ accounts' = accounts
  /\ Goto(t, "unlock")
  /\ UNCHANGED <<nick, user, log, lock>>

\* The statements of the other jobs touch no account and no session.
OtherQuery(t) ==
  /\ At(t, "query") /\ job[t].kind \in {"list", "password", "init"}
  /\ Goto(t, "unlock")
  /\ UNCHANGED <<nick, user, log, accounts, lock>>

Disconnect(t) ==
  /\ At(t, "unlock")
  /\ lock' = NoThread
  /\ Goto(t, "clean")
  /\ UNCHANGED <<nick, user, log, accounts>>

\* CleanInstanceRef, for whoever holds the slot now, and the end of the thread.
Clean(t) ==
  /\ At(t, "clean")
  /\ log' = IF job[t].kind \in Gated THEN [log EXCEPT ![job[t].slot] = -1] ELSE log
  /\ job' = [job EXCEPT ![t] = IF @.child THEN InitClientJob(@.slot) ELSE NoJob]
  /\ UNCHANGED <<nick, user, accounts, lock>>

-----------------------------------------------------------------------------
GameStep ==
  \E s \in Slots :
    \/ \E n \in Nicks : Connect(s, n)
    \/ Rejoin(s)
    \/ Drop(s)
    \/ \E t \in Threads : \/ Login(t, s)
                          \/ \E m \in Names : Register(t, s, m)
                          \/ ListInventory(t, s)
                          \/ ChangePassword(t, s)

\* The steps of a thread that holds the database, or needs it no more.
Run(t) ==
  \/ Guard(t)
  \/ LoginQuery(t) \/ LoginScan(t) \/ LoginAssign(t) \/ LoginLoad(t)
  \/ RegisterQuery(t) \/ RegisterInsert(t)
  \/ OtherQuery(t)
  \/ Disconnect(t) \/ Clean(t)

Next == GameStep \/ \E t \in Threads : ConnectSqlServer(t) \/ Run(t)

Spec == Init /\ [][Next]_vars

\* Threads run, and a thread that keeps finding the mutex free gets it.
FairSpec == Spec /\ \A t \in Threads : WF_vars(Run(t)) /\ SF_vars(ConnectSqlServer(t))

-----------------------------------------------------------------------------
TypeOK ==
  /\ nick \in [Slots -> Nicks \cup {NoNick}]
  /\ user \in [Slots -> Nat \cup {-1}]
  /\ log \in [Slots -> Instances \cup {-1}]
  /\ accounts \in Seq(Account)
  /\ job \in [Threads -> Job]
  /\ lock \in Threads \cup {NoThread}

\* No account is logged in on two slots: a login compares with every slot and
\* then takes the account, all the while the game thread drops and connects
\* clients and other logins wait for the database.
UniqueLogin ==
  \A r, s \in Slots : r # s /\ user[r] >= 0 => user[r] # user[s]

\* No two accounts share a nick or a user name, though the database has no
\* unique key for them: the query of Register and its INSERT are one step to
\* all other jobs, and a failed INSERT that took effect is not repeated.
UniqueNames ==
  \A u, v \in DOMAIN accounts :
    u # v => accounts[u].nick # accounts[v].nick /\ accounts[u].name # accounts[v].name

\* The steps of the jobs, spread over the slots one by one and interleaved with
\* clients that come and go, amount to logins and registrations that each look
\* and take in one step, and to no other change of a session or an account.
Atomic == INSTANCE Sessions WITH Places <- Slots, Nobody <- -1, session <- user
SessionsSpec == Atomic!Spec

\* Every job ends, whatever fails on its way, and leaves the database to the
\* others.
JobsEnd == \A t \in Threads : At(t, "queued") ~> At(t, "idle")

\* A connected client's login, its password matched, is refused only if some
\* connected client uses the account: tutorial.md:5 tells a registered player
\* to type /login.
RefusedOnlyIfOnline ==
  \A t \in Threads :
    LET i == job[t].next IN
    /\ At(t, "scan") /\ i < MaxPlayers /\ user[i] = job[t].uid
    /\ nick[job[t].slot] = job[t].nick
    => nick[i] # NoNick
=============================================================================
