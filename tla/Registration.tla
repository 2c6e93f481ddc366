---------------------------- MODULE Registration ----------------------------
(***************************************************************************)
(* A game server that registers itself (CRegister) and the master servers  *)
(* (mastersrv) that list it for the players, over a network that loses     *)
(* packets: the choice of a master, the heartbeats, the check that the     *)
(* server can be reached from outside, and the list that is sent.          *)
(*                                                                         *)
(* Time passes in steps that are long for the two programs' loops and for  *)
(* the network: in each, all that is due is done and all that was sent     *)
(* arrives, in any order, or is lost.  Times since an event are kept       *)
(* instead of the event's time, up to the first value that no condition    *)
(* tells from the later ones.                                              *)
(***************************************************************************)
EXTENDS Integers, FiniteSets

LOCAL INSTANCE Functions

CONSTANTS
  NumMasters,      \* IMasterServer::MAX_MASTERSERVERS
  HeartbeatEvery,  \* 15, and the other times CRegister has:
  GiveUp,          \* 60, also after an error
  Freq,            \* 1
  QueryTimeout,    \* 3
  RedoAfter,       \* 120 registrations
  BuildEvery,      \* 5, and those of mastersrv:
  ExpireTime,      \* EXPIRE_TIME
  Tries,           \* 10
  MaxServers,      \* MAX_SERVERS
  MaxSent,         \* how many servers the packets of BuildPackets can hold
  Uptime,          \* the upper half of time_get(), RedoAfter or more after six days
  Others,          \* how many other servers each master may list
  Opens,           \* what the firewall may leave open
  MaxLookup,       \* bound: how long the lookup of the masters' names takes
  MaxFaults        \* bound: how often a packet is lost or comes twice, a lookup
                   \* fails or other servers' checks leave no room for one more

ASSUME RegistrationAssumption ==
  /\ NumMasters \in Nat \ {0} /\ RedoAfter \in Nat /\ Tries \in Nat \ {0}
  /\ {HeartbeatEvery, GiveUp, Freq, QueryTimeout, BuildEvery, ExpireTime} \subseteq Nat
  /\ Others \subseteq [0 .. NumMasters - 1 -> Nat] /\ Opens \subseteq SUBSET {"main", "alt"}
  /\ {MaxLookup, MaxFaults, Uptime} \subseteq Nat
  /\ MaxServers \in Nat /\ MaxSent \in Nat

Masters == 0 .. NumMasters - 1
NoServer == -1      \* m_RegisterRegisteredServer
Unknown == -1       \* m_Count
NotListed == -1

(* A server's address as its heartbeats show it, and the one with the port *)
(* it says it has.                                                         *)
Addrs == {"main", "alt"}

VARIABLES
  state, age,      \* m_RegisterState, time since m_RegisterStateStart
  count,           \* m_RegisterCount
  chosen,          \* m_RegisterRegisteredServer
  valid, got,      \* m_Valid and m_Count of m_aMasterserverInfo
  quiet,           \* time since m_LastSend of m_aMasterserverInfo
  refreshing, resolved, lookupAge,  \* of IMasterServer: a refresh, its result, its time
  checking,        \* m_aCheckServers of each master: how many with each m_TryCount
  listed,          \* m_aServers of each master: time since the server's last answer
  others,          \* how many other servers are in m_aServers
  sent,            \* whether the server is in m_aPackets
  buildAge,        \* time since LastBuild
  net,             \* packets on the way, how many of each
  faults,          \* packets lost or duplicated, refreshes failed, checks refused
  open,            \* addresses that the firewall lets the masters' checks through to
  told,            \* auxiliary: the server was told that it cannot be reached
  crowded          \* auxiliary: a master had no room in its packets or one of its lists

registerVars == <<state, age, count, chosen, valid, got, quiet>>
lookupVars == <<refreshing, resolved, lookupAge>>
masterVars == <<checking, listed, others, sent, buildAge, crowded>>
vars == <<registerVars, lookupVars, masterVars, net, faults, open, told>>

States == {"START", "UPDATE_ADDRS", "QUERY_COUNT", "HEARTBEAT", "REGISTERED", "ERROR"}

GetCount(m) == [type |-> "GETCOUNT", master |-> m, arg |-> 0]
Heartbeat(m) == [type |-> "HEARTBEAT", master |-> m, arg |-> 0]
Count(m, n) == [type |-> "COUNT", master |-> m, arg |-> n]
FwCheck(m, k) == [type |-> "FWCHECK", master |-> m, arg |-> k]
FwResponse(m, a) == [type |-> "FWRESPONSE", master |-> m, arg |-> a]
FwOk(m) == [type |-> "FWOK", master |-> m, arg |-> 0]
FwError(m) == [type |-> "FWERROR", master |-> m, arg |-> 0]

Counts == 0 .. MaxServers

Messages ==
  UNION {{GetCount(m), Heartbeat(m), FwOk(m), FwError(m)}
           \cup {Count(m, n) : n \in Counts} \cup {FwCheck(m, k) : k \in 1 .. Tries}
           \cup {FwResponse(m, a) : a \in Addrs} : m \in Masters}

(* The packets n with one more of each in S, and with one x fewer.         *)
Plus(n, S) == [x \in Messages |-> IF x \in S THEN n[x] + 1 ELSE n[x]]
Minus(n, x) == [n EXCEPT ![x] = @ - 1]

(* A time one step later, counted up to the first above top.               *)
Later(t, top) == IF t > top THEN t ELSE t + 1

Init ==
  /\ state = "START" /\ age = 0 /\ count = 0 /\ chosen = NoServer
  /\ valid = {} /\ got = [m \in Masters |-> 0]
  /\ quiet = [m \in Masters |-> HeartbeatEvery + 1]
  /\ refreshing = FALSE /\ resolved = {} /\ lookupAge = 0
  /\ checking = [m \in Masters |-> [k \in 0 .. Tries |-> 0]]
  /\ listed = [m \in Masters |-> [a \in Addrs |-> NotListed]]
  /\ others \in Others /\ sent = [m \in Masters |-> FALSE]
  /\ buildAge \in [Masters -> 0 .. BuildEvery]
  /\ net = [x \in Messages |-> 0] /\ faults = 0
  /\ open \in Opens /\ told = FALSE /\ crowded = FALSE

-----------------------------------------------------------------------------
(* The game server's side: a call of RegisterUpdate in each state          *)

NewState(st) == state' = st /\ age' = 0

UpdateStart ==
  /\ state = "START"
  /\ count' = 0 /\ NewState("UPDATE_ADDRS")
  /\ refreshing' = TRUE
  /\ resolved' = IF refreshing THEN resolved ELSE {}
  /\ lookupAge' = IF refreshing THEN lookupAge ELSE 0
  /\ UNCHANGED <<chosen, valid, got, quiet, masterVars, net, faults, open, told>>

UpdateAddrs ==
  /\ state = "UPDATE_ADDRS"
  /\ chosen' = NoServer
  /\ \/ refreshing /\ chosen # NoServer /\ UNCHANGED <<state, age, valid, got, quiet>>
     \/ /\ ~refreshing
        /\ valid' = resolved
        /\ got' = [m \in Masters |-> IF m \in resolved THEN Unknown ELSE 0]
        /\ quiet' = [m \in Masters |-> IF m \in resolved THEN HeartbeatEvery + 1 ELSE quiet[m]]
        /\ NewState("QUERY_COUNT")
  /\ UNCHANGED <<count, lookupVars, masterVars, net, faults, open, told>>

Left == {m \in valid : got[m] = Unknown}

(* Of the valid masters that answered, the one with the fewest servers,    *)
(* the first of several.                                                   *)
Best(m) ==
  \A n \in valid \ Left : got[m] < got[n] \/ (got[m] = got[n] /\ m <= n)

UpdateQuery ==
  LET ask == {m \in Left : quiet[m] > Freq}
      asked == [m \in Masters |-> IF m \in ask THEN 0 ELSE quiet[m]] IN
  /\ state = "QUERY_COUNT"
  /\ net' = Plus(net, {GetCount(m) : m \in ask})
  /\ \/ /\ Left # {} /\ age <= QueryTimeout
        /\ quiet' = asked /\ UNCHANGED <<state, age, chosen>>
     \/ /\ Left = {} \/ age > QueryTimeout
        /\ valid \ Left = {}
        /\ quiet' = asked /\ chosen' = NoServer /\ NewState("ERROR")
     \/ /\ Left = {} \/ age > QueryTimeout
        /\ \E best \in valid \ Left :
             /\ Best(best)
             /\ chosen' = best /\ NewState("HEARTBEAT")
             /\ quiet' = [asked EXCEPT ![best] = HeartbeatEvery + 1]
  /\ UNCHANGED <<count, valid, got, lookupVars, masterVars, faults, open, told>>

GiveUpInTime ==
  \/ age > GiveUp /\ NewState("START")
  \/ age <= GiveUp /\ UNCHANGED <<state, age>>

UpdateHeartbeat ==
  /\ state = "HEARTBEAT" /\ chosen # NoServer
  /\ \/ /\ quiet[chosen] > HeartbeatEvery
        /\ quiet' = [quiet EXCEPT ![chosen] = 0]
        /\ net' = Plus(net, {Heartbeat(chosen)})
     \/ quiet[chosen] <= HeartbeatEvery /\ UNCHANGED <<quiet, net>>
  /\ GiveUpInTime
  /\ UNCHANGED <<count, chosen, valid, got, lookupVars, masterVars, faults, open, told>>

(* With no master chosen the code takes the element before the array, as   *)
(* whose m_LastSend the build has m_RegisterFirst and m_RegisterCount: it  *)
(* sends to no one and m_RegisterCount becomes the clock's upper half.     *)
UpdateHeartbeatAstray ==
  /\ state = "HEARTBEAT" /\ chosen = NoServer
  /\ count' = IF count < Uptime THEN Uptime ELSE count
  /\ GiveUpInTime
  /\ UNCHANGED <<chosen, valid, got, quiet, lookupVars, masterVars, net, faults, open, told>>

UpdateRegistered ==
  /\ state = "REGISTERED" /\ age > Freq
  /\ \/ count = RedoAfter /\ NewState("START") /\ UNCHANGED count
     \/ count # RedoAfter /\ NewState("HEARTBEAT") /\ count' = count + 1
  /\ UNCHANGED <<chosen, valid, got, quiet, lookupVars, masterVars, net, faults, open, told>>

UpdateError ==
  /\ state = "ERROR" /\ age > GiveUp /\ NewState("START")
  /\ UNCHANGED <<count, chosen, valid, got, quiet, lookupVars, masterVars, net, faults, open, told>>

(* A call of RegisterUpdate would change nothing.                          *)
Settled ==
  \/ state = "UPDATE_ADDRS" /\ refreshing /\ chosen = NoServer
  \/ /\ state = "QUERY_COUNT" /\ age <= QueryTimeout
     /\ Left # {} /\ \A m \in Left : quiet[m] <= Freq
  \/ /\ state = "HEARTBEAT" /\ age <= GiveUp
     /\ chosen # NoServer => quiet[chosen] <= HeartbeatEvery
  \/ state = "REGISTERED" /\ age <= Freq
  \/ state = "ERROR" /\ age <= GiveUp

RegisterUpdate ==
  \/ UpdateStart \/ UpdateAddrs \/ UpdateQuery \/ UpdateHeartbeat
  \/ UpdateHeartbeatAstray \/ UpdateRegistered \/ UpdateError

Fault == faults < MaxFaults /\ faults' = faults + 1

(* The lookups of a refresh are done; F are the ones that failed.          *)
LookupDone(F) ==
  /\ refreshing /\ refreshing' = FALSE
  /\ IF F = {} THEN UNCHANGED faults ELSE Fault
  /\ resolved' = Masters \ F
  /\ UNCHANGED <<registerVars, lookupAge, masterVars, net, open, told>>

-----------------------------------------------------------------------------
(* The game server's side: RegisterProcessPacket                           *)

(* A count is kept whatever the state.                                     *)
GotCount(m, n) ==
  /\ net[Count(m, n)] > 0 /\ net' = Minus(net, Count(m, n))
  /\ got' = [got EXCEPT ![m] = n]
  /\ UNCHANGED <<state, age, count, chosen, valid, quiet>>
  /\ UNCHANGED <<lookupVars, masterVars, faults, open, told>>

(* Mutant: only the address that the heartbeat says is ever tried.         *)
CheckedMain(k) == "main"

(* The address the master checks at its k-th try.                          *)
Checked(k) == IF k % 2 = 1 THEN "main" ELSE "alt"

(* A check is answered from the address it came to, unless the firewall    *)
(* keeps it out.                                                           *)
GotCheck(m, k) ==
  /\ net[FwCheck(m, k)] > 0
  /\ net' = IF Checked(k) \in open
            THEN Plus(Minus(net, FwCheck(m, k)), {FwResponse(m, Checked(k))})
            ELSE Minus(net, FwCheck(m, k))
  /\ UNCHANGED <<registerVars, lookupVars, masterVars, faults, open, told>>

(* The answer that all is well registers the server, whatever the state.   *)
GotOk(m) ==
  /\ net[FwOk(m)] > 0 /\ net' = Minus(net, FwOk(m))
  /\ NewState("REGISTERED")
  /\ UNCHANGED <<count, chosen, valid, got, quiet>>
  /\ UNCHANGED <<lookupVars, masterVars, faults, open, told>>

GotError(m) ==
  /\ net[FwError(m)] > 0 /\ net' = Minus(net, FwError(m))
  /\ told' = TRUE
  /\ UNCHANGED <<registerVars, lookupVars, masterVars, faults, open>>

-----------------------------------------------------------------------------
(* A master's side                                                         *)

NumServers(m) == others[m] + Cardinality({a \in Addrs : listed[m][a] # NotListed})

ServeCount(m) ==
  /\ net[GetCount(m)] > 0
  /\ net' = Plus(Minus(net, GetCount(m)), {Count(m, NumServers(m))})
  /\ UNCHANGED <<registerVars, lookupVars, masterVars, faults, open, told>>

(* The checks of this server that a master has going on.                   *)
NumChecks(m) == SumFunction(checking[m])

(* Mutant: a heartbeat lists the server before it has been checked.        *)
AddCheckserverListed(m) ==
  LET full == NumChecks(m) >= MaxServers IN
  /\ net[Heartbeat(m)] > 0 /\ net' = Minus(net, Heartbeat(m))
  /\ \/ /\ checking' = IF full THEN checking ELSE [checking EXCEPT ![m][0] = @ + 1]
        /\ listed' = IF full THEN listed ELSE [listed EXCEPT ![m]["main"] = 0]
        /\ crowded' = (crowded \/ full) /\ UNCHANGED faults
     \/ Fault /\ UNCHANGED <<checking, listed, crowded>>
  /\ UNCHANGED <<registerVars, lookupVars, others, sent, buildAge, open, told>>

(* A heartbeat asks for a check, which is refused when the list of checks  *)
(* is full.  This server's checks may fill it alone; those of the others   *)
(* are not modelled, and when they do, that counts as a fault.             *)
AddCheckserver(m) ==
  LET full == NumChecks(m) >= MaxServers IN
  /\ net[Heartbeat(m)] > 0 /\ net' = Minus(net, Heartbeat(m))
  /\ \/ /\ checking' = IF full THEN checking ELSE [checking EXCEPT ![m][0] = @ + 1]
        /\ crowded' = (crowded \/ full) /\ UNCHANGED faults
     \/ Fault /\ UNCHANGED <<checking, crowded>>
  /\ UNCHANGED <<registerVars, lookupVars, listed, others, sent, buildAge, open, told>>

(* Mutant: the server is not looked for among those being checked.         *)
AddServerUnchecked(m, a) ==
  LET full == listed[m][a] = NotListed /\ NumServers(m) >= MaxServers IN
  /\ net[FwResponse(m, a)] > 0
  /\ \E k \in 0 .. Tries :
       /\ checking[m][k] > 0 \/ \A j \in 0 .. Tries : checking[m][j] = 0
       /\ checking' = [checking EXCEPT ![m][k] = @ - 1]
  /\ listed' = IF full THEN listed ELSE [listed EXCEPT ![m][a] = 0]
  /\ crowded' = (crowded \/ full)
  /\ net' = Plus(Plus(Minus(net, FwResponse(m, a)), {FwOk(m)}), {FwOk(m)})
  /\ UNCHANGED <<registerVars, lookupVars, others, sent, buildAge, faults, open, told>>

(* Mutant: a server that is listed already does not get more time.         *)
AddServerOnce(m, a) ==
  LET full == listed[m][a] = NotListed /\ NumServers(m) >= MaxServers IN
  /\ net[FwResponse(m, a)] > 0
  /\ \E k \in 0 .. Tries :
       checking[m][k] > 0 /\ checking' = [checking EXCEPT ![m][k] = @ - 1]
  /\ listed' = IF full \/ listed[m][a] # NotListed THEN listed
               ELSE [listed EXCEPT ![m][a] = 0]
  /\ crowded' = (crowded \/ full)
  /\ net' = Plus(Plus(Minus(net, FwResponse(m, a)), {FwOk(m)}), {FwOk(m)})
  /\ UNCHANGED <<registerVars, lookupVars, others, sent, buildAge, faults, open, told>>

(* An answer to a check: one of the checks is over, the server is listed   *)
(* or its time starts anew, unless the list is full, and it is told so     *)
(* from both of the master's ports.                                        *)
AddServer(m, a) ==
  LET full == listed[m][a] = NotListed /\ NumServers(m) >= MaxServers IN
  /\ net[FwResponse(m, a)] > 0
  /\ \E k \in 0 .. Tries :
       checking[m][k] > 0 /\ checking' = [checking EXCEPT ![m][k] = @ - 1]
  /\ listed' = IF full THEN listed ELSE [listed EXCEPT ![m][a] = 0]
  /\ crowded' = (crowded \/ full)
  /\ net' = Plus(Plus(Minus(net, FwResponse(m, a)), {FwOk(m)}), {FwOk(m)})
  /\ UNCHANGED <<registerVars, lookupVars, others, sent, buildAge, faults, open, told>>

(* An answer of a server that is not being checked is dropped.             *)
IgnoreServer(m, a) ==
  /\ net[FwResponse(m, a)] > 0 /\ net' = Minus(net, FwResponse(m, a))
  /\ \A k \in 0 .. Tries : checking[m][k] = 0
  /\ UNCHANGED <<registerVars, lookupVars, masterVars, faults, open, told>>

PurgeServers(m) ==
  listed' = [listed EXCEPT ![m] =
               [a \in Addrs |-> IF @[a] > ExpireTime THEN NotListed ELSE @[a]]]

(* Mutant: the last check is given up without a word.                      *)
UpdateServersSilent(m) ==
  /\ checking' = [checking EXCEPT ![m] =
                    [k \in 0 .. Tries |-> IF k = 0 THEN 0 ELSE @[k - 1]]]
  /\ net' = [x \in Messages |->
               IF x.master = m /\ x.type = "FWCHECK"
               THEN net[x] + checking[m][x.arg - 1] ELSE net[x]]

(* Each check is tried again, or given up with an error after the last.    *)
UpdateServers(m) ==
  /\ checking' = [checking EXCEPT ![m] =
                    [k \in 0 .. Tries |-> IF k = 0 THEN 0 ELSE @[k - 1]]]
  /\ net' = [x \in Messages |->
               IF x.master # m THEN net[x]
               ELSE IF x.type = "FWCHECK" THEN net[x] + checking[m][x.arg - 1]
               ELSE IF x.type = "FWERROR" THEN net[x] + checking[m][Tries]
               ELSE net[x]]

(* The packets with the list, which may have no room for this server.      *)
BuildPackets(m) ==
  LET isListed == \E a \in Addrs : listed'[m][a] # NotListed
      num == others[m] + Cardinality({a \in Addrs : listed'[m][a] # NotListed}) IN
  /\ \E room \in BOOLEAN :
       /\ num <= MaxSent => room
       /\ sent' = [sent EXCEPT ![m] = isListed /\ room]
  /\ crowded' = (crowded \/ num > MaxSent)

(* What a master does every five seconds.                                  *)
Cycle(m) ==
  /\ buildAge[m] > BuildEvery /\ buildAge' = [buildAge EXCEPT ![m] = 0]
  /\ PurgeServers(m)
  /\ UpdateServers(m)
  /\ BuildPackets(m)
  /\ UNCHANGED <<registerVars, lookupVars, others, faults, open, told>>

-----------------------------------------------------------------------------
(* The network and time                                                    *)

Lose(x) ==
  /\ net[x] > 0 /\ net' = Minus(net, x)
  /\ Fault
  /\ UNCHANGED <<registerVars, lookupVars, masterVars, open, told>>

Duplicate(x) ==
  /\ net[x] > 0 /\ net' = Plus(net, {x})
  /\ Fault
  /\ UNCHANGED <<registerVars, lookupVars, masterVars, open, told>>

Tick ==
  /\ Settled
  /\ \A x \in Messages : net[x] = 0
  /\ \A m \in Masters : buildAge[m] <= BuildEvery
  /\ refreshing => lookupAge < MaxLookup
  /\ age' = Later(age, GiveUp)
  /\ lookupAge' = IF refreshing THEN lookupAge + 1 ELSE 0
  /\ quiet' = [m \in Masters |-> Later(quiet[m], HeartbeatEvery)]
  /\ buildAge' = [m \in Masters |-> buildAge[m] + 1]
  /\ listed' = [m \in Masters |-> [a \in Addrs |->
                  IF listed[m][a] = NotListed THEN NotListed
                  ELSE Later(listed[m][a], ExpireTime)]]
  /\ UNCHANGED <<state, count, chosen, valid, got, refreshing, resolved>>
  /\ UNCHANGED <<checking, others, sent, crowded, net, faults, open, told>>

GotPacket(m) ==
  \/ \E n \in Counts : GotCount(m, n)
  \/ \E k \in 1 .. Tries : GotCheck(m, k)
  \/ GotOk(m) \/ GotError(m)

ServePacket(m) ==
  \/ ServeCount(m) \/ AddCheckserver(m)
  \/ \E a \in Addrs : AddServer(m, a) \/ IgnoreServer(m, a)

Next ==
  \/ RegisterUpdate
  \/ \E F \in SUBSET Masters : LookupDone(F)
  \/ \E m \in Masters : GotPacket(m) \/ ServePacket(m) \/ Cycle(m)
  \/ \E x \in Messages : Lose(x) \/ Duplicate(x)
  \/ Tick

(* Time goes on, which it does only once all that is due has been done.    *)
Fairness == WF_vars(Next)

Spec == Init /\ [][Next]_vars
FairSpec == Spec /\ Fairness

-----------------------------------------------------------------------------
(* Properties                                                              *)

(* Types.  No more checks are ended, and no more packets delivered, than   *)
(* there were: an answer of the server that comes twice ends one check     *)
(* only (AddServer, mastersrv.cpp:495).                                    *)
TypeOK ==
  /\ state \in States /\ age \in Nat /\ count \in Nat
  /\ chosen \in Masters \cup {NoServer}
  /\ valid \subseteq Masters /\ got \in [Masters -> Nat \cup {Unknown}]
  /\ quiet \in [Masters -> Nat]
  /\ refreshing \in BOOLEAN /\ resolved \subseteq Masters /\ lookupAge \in Nat
  /\ checking \in [Masters -> [0 .. Tries -> Nat]]
  /\ listed \in [Masters -> [Addrs -> Nat \cup {NotListed}]]
  /\ others \in [Masters -> Nat] /\ sent \in [Masters -> BOOLEAN]
  /\ buildAge \in [Masters -> Nat]
  /\ net \in [Messages -> Nat] /\ faults \in Nat
  /\ open \subseteq Addrs /\ told \in BOOLEAN /\ crowded \in BOOLEAN

(* A master lists a server under no address but one that its checks have   *)
(* reached: what a heartbeat claims is never enough (AddCheckserver and    *)
(* AddServer, mastersrv.cpp:207-258).                                      *)
OnlyReachableListed ==
  \A m \in Masters, a \in Addrs : listed[m][a] # NotListed => a \in open

Published == \E m \in Masters : sent[m]

(* How often a master works through its lists and a server asks for a      *)
(* check, how long it tries, waits for the next time and for the counts,   *)
(* and how long a registration anew takes.                                 *)
Period == BuildEvery + 1
Beat == HeartbeatEvery + 1
Patience == GiveUp + 1
Pause == Freq + 1
Query == QueryTimeout + 1
Anew == MaxLookup + Query + 2 * Period

(* The longest time from one FWOK to the next when a packet gets lost: the *)
(* server waits, looks for a master, tries in vain and begins anew.        *)
Longest == Pause + MaxLookup + Patience + Anew

(* The times of the two programs fit together: there is time for two       *)
(* checks between two heartbeats, for two heartbeats before the server     *)
(* gives up, for a second query and for all of it before an entry expires. *)
TimesFit ==
  /\ Tries >= 4 /\ 2 * Period <= HeartbeatEvery /\ 2 * Beat <= Patience
  /\ Freq <= HeartbeatEvery /\ Freq <= GiveUp /\ QueryTimeout <= GiveUp
  /\ Pause <= QueryTimeout /\ Longest + Period <= ExpireTime

(* A server that players find stays in the list while it runs, though its  *)
(* heartbeats, the checks, its registration anew with perhaps another      *)
(* master and the expiry of the list's entries all have times of their     *)
(* own, and a packet may get lost or come twice or a check be refused      *)
(* (register.cpp:196-235, EXPIRE_TIME of mastersrv.cpp:20), unless a list  *)
(* is full.                                                                *)
StaysPublished == [][Published => Published' \/ crowded']_vars

(* A server that can be reached by one of its addresses gets into the      *)
(* list, even when the answer FWOK that ends its waiting comes before it   *)
(* has chosen a master or its query of the masters has failed              *)
(* (register.cpp:110-235, 268), unless a list is full.                     *)
GetsPublished == <>(Published \/ crowded \/ open = {})

(* A server that no check can reach is told so in the end, also when the   *)
(* error gets lost: it goes on with its heartbeats, each of which starts   *)
(* new checks (mastersrv.cpp:266-279, register.cpp:205).                   *)
ToldOfFirewall == open = {} ~> told

=============================================================================
