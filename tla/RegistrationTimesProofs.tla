------------------------ MODULE RegistrationTimesProofs ------------------------
(***************************************************************************)
(* Proofs about the times of Registration: when the times of the server    *)
(* and of the masters fit together (TimesFit) and one packet at most gets  *)
(* lost or comes twice, a server that players find stays in the list.      *)
(*                                                                         *)
(* The argument is about deadlines.  In(d) says of the state of server,    *)
(* masters and packets that the next FWOK comes within the time d, or a    *)
(* list is full: without a fault so far by the one way that things go then *)
(* (Clean), after it by one of those that are left (Within).  As long as   *)
(* an entry of the lists lives until d and until a master has sent what it *)
(* lists, the players find the server.                                     *)
(***************************************************************************)
EXTENDS RegistrationProofs

-----------------------------------------------------------------------------
(* After the fault                                                         *)

(* The k-th try of a check gets through.                                   *)
Reaches(k) == k <= Tries /\ Checked(k) \in open

(* A master is checking the server. *)
Busy(m) == \E k \in 0 .. Tries : checking[m][k] > 0

(* The server's own way to the next FWOK is shorter than d: through the    *)
(* rest of what it does, another heartbeat and the second check at worst.  *)
OnServer(d) ==
  \/ state = "START" /\ Anew <= d
  \/ state = "UPDATE_ADDRS" /\ refreshing /\ Anew <= d + lookupAge
  \/ state = "UPDATE_ADDRS" /\ ~refreshing /\ resolved # {} /\ Query + 2 * Period <= d
  \/ state = "UPDATE_ADDRS" /\ ~refreshing /\ resolved = {} /\ Patience + Anew <= d
  \/ state = "QUERY_COUNT" /\ valid = {} /\ Patience + Anew <= d
  \/ state = "QUERY_COUNT" /\ valid # {} /\ Query + 2 * Period <= d + age
  \/ /\ state = "HEARTBEAT" /\ chosen # NoServer /\ age + Beat <= Patience + quiet[chosen]
     /\ Beat + 2 * Period <= d + quiet[chosen]
  \/ state = "HEARTBEAT" /\ Patience + Anew <= d + age
  \/ state = "REGISTERED" /\ Pause + Patience + Anew <= d + age
  \/ state = "ERROR" /\ Patience + Anew <= d + age

(* The answer to a check that gets through is on its way, or will be. *)
Answering(m) ==
  \/ \E k \in 1 .. Tries : net[FwCheck(m, k)] > 0 /\ Checked(k) \in open
  \/ \E a \in Addrs : net[FwResponse(m, a)] > 0

(* A check of m at its k-th try gets through with the next try or the one  *)
(* after it, before d.                                                     *)
Trying(m, k, d) ==
  /\ checking[m][k] > 0
  /\ \/ Reaches(k + 1) /\ Period <= d + buildAge[m]
     \/ Reaches(k + 2) /\ 2 * Period <= d + buildAge[m]

(* A master's way to the next FWOK is shorter than d.                      *)
OnMaster(d) ==
  \E m \in Masters :
    \/ net[Heartbeat(m)] > 0 /\ 2 * Period <= d
    \/ \E k \in 0 .. Tries : Trying(m, k, d)
    \/ Busy(m) /\ buildAge[m] <= BuildEvery /\ Answering(m)

(* After the fault: the next FWOK comes before d on one of the ways.       *)
Within(d) == OnServer(d) \/ OnMaster(d)

(* The count of m is asked for or on its way. *)
CountDue(m) == net[GetCount(m)] > 0 \/ \E n \in Counts : net[Count(m, n)] > 0

(* The query of the counts does not fail once the fault is over: a count   *)
(* has come, is on its way or can still be asked for.                      *)
QueryGoesOn ==
  state = "QUERY_COUNT" /\ valid # {} =>
    \/ valid \ Left # {}
    \/ /\ age <= QueryTimeout
       /\ \E m \in valid : CountDue(m) \/ age + Pause <= QueryTimeout + quiet[m]

-----------------------------------------------------------------------------
(* Before the fault                                                        *)

NoOk == \A m \in Masters : net[FwOk(m)] = 0

NoAnswerDue(m) ==
  /\ \A k \in 1 .. Tries : net[FwCheck(m, k)] = 0
  /\ \A a \in Addrs : net[FwResponse(m, a)] = 0

(* Nothing goes on between the server and m. *)
Idle(m) == net[Heartbeat(m)] = 0 /\ ~Busy(m) /\ NoAnswerDue(m)

(* The one check of m has come to its k-th try. *)
At(m, k) ==
  /\ net[Heartbeat(m)] = 0
  /\ \A j \in 0 .. Tries : checking[m][j] = IF j = k THEN 1 ELSE 0

(* The server looks for a master, and finds them all. *)
Seeking(d) ==
  \/ state = "START" /\ MaxLookup + Patience + Anew <= d
  \/ state = "UPDATE_ADDRS" /\ refreshing /\ MaxLookup + Patience + Anew <= d + lookupAge
  \/ /\ state = "UPDATE_ADDRS" /\ ~refreshing /\ resolved = Masters
     /\ Query + 2 * Period + Beat <= d
  \/ /\ state = "QUERY_COUNT" /\ age = 0 /\ valid = Masters
     /\ Query + 2 * Period + Beat <= d
     /\ \A m \in Left : quiet[m] > Freq \/ CountDue(m)

Looking(d) == NoOk /\ (\A m \in Masters : Idle(m)) /\ Seeking(d)

(* It is registered and waits for the next time. *)
Resting(d) ==
  /\ state = "REGISTERED" /\ (NoOk \/ age = 0) /\ \A m \in Masters : Idle(m)
  /\ Longest <= d + age

(* It is about to send a heartbeat. *)
Waiting(d) ==
  /\ state = "HEARTBEAT" /\ NoOk /\ \A m \in Masters : Idle(m)
  /\ age <= quiet[chosen] /\ 2 * Beat + 2 * Period <= d + quiet[chosen]

(* The heartbeat of m is on its way. *)
Asking(m, d) ==
  /\ net[Heartbeat(m)] = 1 /\ ~Busy(m) /\ NoAnswerDue(m)
  /\ quiet[m] = 0 /\ 2 * Period + Beat <= d

(* The check of m is to be tried for the first time. *)
AtFirst(m, d) ==
  /\ At(m, 0) /\ NoAnswerDue(m) /\ quiet[m] <= buildAge[m]
  /\ 3 * Period <= d + buildAge[m]
  /\ "main" \notin open => 4 * Period <= d + buildAge[m]

(* The first try is in vain. *)
AtSecond(m, d) ==
  /\ At(m, 1) /\ NoAnswerDue(m) /\ quiet[m] <= Period + buildAge[m]
  /\ "main" \notin open /\ 3 * Period <= d + buildAge[m]

(* One of the two is under way. *)
UnderWay(m, k, d) ==
  /\ At(m, k) /\ buildAge[m] = 0
  /\ (k = 1 /\ quiet[m] <= Period) \/ (k = 2 /\ "main" \notin open)
  /\ quiet[m] <= 2 * Period /\ 2 * Period <= d

(* It is on its way to the server. *)
CheckDue(m, k, d) ==
  /\ UnderWay(m, k, d)
  /\ net[FwCheck(m, k)] = 1 /\ \A j \in 1 .. Tries : j # k => net[FwCheck(m, j)] = 0
  /\ \A a \in Addrs : net[FwResponse(m, a)] = 0
  /\ Checked(k) \notin open => 3 * Period <= d

(* The answer is on its way back. *)
AnswerDue(m, k, d) ==
  /\ UnderWay(m, k, d) /\ Checked(k) \in open
  /\ \A j \in 1 .. Tries : net[FwCheck(m, j)] = 0
  /\ net[FwResponse(m, Checked(k))] = 1
  /\ \A a \in Addrs : a # Checked(k) => net[FwResponse(m, a)] = 0

Checks(m, d) ==
  \/ Asking(m, d) \/ AtFirst(m, d) \/ AtSecond(m, d)
  \/ \E k \in {1, 2} : CheckDue(m, k, d) \/ AnswerDue(m, k, d)

(* The chosen master checks the server. *)
Checking(d) ==
  /\ state = "HEARTBEAT" /\ NoOk /\ \A m \in Masters \ {chosen} : Idle(m)
  /\ age <= Beat + quiet[chosen] /\ Checks(chosen, d)

(* It has listed the server and tells it so. *)
Accepted(d) ==
  /\ state = "HEARTBEAT" /\ net[FwOk(chosen)] > 0 /\ \A m \in Masters : Idle(m)
  /\ age <= GiveUp /\ quiet[chosen] <= HeartbeatEvery /\ Longest <= d

(* Before any fault: the next FWOK comes before d even with one to come.   *)
Clean(d) ==
  \/ Looking(d)
  \/ chosen \in Masters /\ (Resting(d) \/ Waiting(d) \/ Checking(d) \/ Accepted(d))

In(d) == IF faults = 0 THEN Clean(d) ELSE Within(d)

-----------------------------------------------------------------------------
(* The lists                                                               *)

(* How far the counters of time go, and what is in the lists at most. *)
Capped ==
  /\ age <= Patience /\ lookupAge <= MaxLookup
  /\ state = "QUERY_COUNT" => age <= Query
  /\ \A m \in Masters : /\ quiet[m] <= Beat /\ buildAge[m] <= Period
                        /\ NumServers(m) <= MaxServers

(* When m sends what it lists of the server. *)
Until(m) == IF sent[m] THEN 0 ELSE Period + 1 - buildAge[m]

(* If the players can find the server in the time e, there is an entry     *)
(* that lets them find it and has not expired then.                        *)
Covered(e) ==
  (\E m \in Masters, a \in Addrs : listed[m][a] # NotListed /\ Until(m) <= e) =>
    \E m \in Masters, a \in Addrs :
      listed[m][a] # NotListed /\ Until(m) <= e /\ listed[m][a] + e <= ExpireTime

(* The entries live until the next FWOK has come and been listed.          *)
Lasting(d) == In(d) /\ \A e \in 0 .. d + Period : Covered(e)

Lasts ==
  open # {} /\ ~crowded =>
    /\ faults # 0 => QueryGoesOn
    /\ \E d \in 0 .. Longest : Lasting(d)

(* What every step keeps, on top of IInv and ListInv. *)
TimesInv == Capped /\ Lasts

-----------------------------------------------------------------------------
(* Times and packets                                                       *)

(* What the times amount to. *)
LEMMA TimesAre ==
  ASSUME TimesFit
  PROVE  /\ HeartbeatEvery \in Nat /\ GiveUp \in Nat /\ Freq \in Nat /\ QueryTimeout \in Nat
         /\ BuildEvery \in Nat /\ ExpireTime \in Nat /\ MaxLookup \in Nat
         /\ Period = BuildEvery + 1 /\ Beat = HeartbeatEvery + 1 /\ Patience = GiveUp + 1
         /\ Pause = Freq + 1 /\ Query = QueryTimeout + 1
         /\ Anew = MaxLookup + Query + 2 * Period
         /\ Longest = Pause + MaxLookup + Patience + Anew
         /\ Period \in Nat /\ Beat \in Nat /\ Patience \in Nat /\ Pause \in Nat
         /\ Query \in Nat /\ Anew \in Nat /\ Longest \in Nat
         /\ Tries \in Nat /\ Tries >= 4
         /\ 2 * Period <= HeartbeatEvery /\ 2 * Beat <= Patience
         /\ Freq <= HeartbeatEvery /\ Freq <= GiveUp /\ QueryTimeout <= GiveUp
         /\ Pause <= QueryTimeout /\ Longest + Period <= ExpireTime
<1>1. /\ HeartbeatEvery \in Nat /\ GiveUp \in Nat /\ Freq \in Nat /\ QueryTimeout \in Nat
      /\ BuildEvery \in Nat /\ ExpireTime \in Nat /\ MaxLookup \in Nat /\ Tries \in Nat
  BY RegistrationAssumption
<1>2. /\ Period \in Nat /\ Beat \in Nat /\ Patience \in Nat /\ Pause \in Nat /\ Query \in Nat
  BY <1>1 DEF Period, Beat, Patience, Pause, Query
<1>3. Anew \in Nat /\ Anew = MaxLookup + Query + 2 * Period
  BY <1>1, <1>2 DEF Anew
<1>4. Longest \in Nat /\ Longest = Pause + MaxLookup + Patience + Anew
  BY <1>1, <1>2, <1>3 DEF Longest
<1>5. /\ Period = BuildEvery + 1 /\ Beat = HeartbeatEvery + 1 /\ Patience = GiveUp + 1
      /\ Pause = Freq + 1 /\ Query = QueryTimeout + 1
  BY DEF Period, Beat, Patience, Pause, Query
<1> QED
  BY <1>1, <1>2, <1>3, <1>4, <1>5 DEF TimesFit

(* What a packet is can be read from it. *)
LEMMA Kinds ==
  /\ \A m \in Masters :
       /\ GetCount(m) \in Messages /\ GetCount(m).type = "GETCOUNT"
       /\ Heartbeat(m) \in Messages /\ Heartbeat(m).type = "HEARTBEAT"
       /\ FwOk(m) \in Messages /\ FwOk(m).type = "FWOK"
       /\ FwError(m) \in Messages /\ FwError(m).type = "FWERROR"
       /\ GetCount(m).master = m /\ Heartbeat(m).master = m
       /\ FwOk(m).master = m /\ FwError(m).master = m
  /\ \A m \in Masters, n \in Counts :
       Count(m, n) \in Messages /\ Count(m, n).type = "COUNT" /\ Count(m, n).master = m
  /\ \A m \in Masters, k \in 1 .. Tries :
       /\ FwCheck(m, k) \in Messages /\ FwCheck(m, k).type = "FWCHECK"
       /\ FwCheck(m, k).master = m /\ FwCheck(m, k).arg = k
  /\ \A m \in Masters, a \in Addrs :
       /\ FwResponse(m, a) \in Messages /\ FwResponse(m, a).type = "FWRESPONSE"
       /\ FwResponse(m, a).master = m /\ FwResponse(m, a).arg = a
<1>1. \A m \in Masters :
       /\ GetCount(m).type = "GETCOUNT" /\ Heartbeat(m).type = "HEARTBEAT"
       /\ FwOk(m).type = "FWOK" /\ FwError(m).type = "FWERROR"
       /\ GetCount(m).master = m /\ Heartbeat(m).master = m
       /\ FwOk(m).master = m /\ FwError(m).master = m
  BY DEF GetCount, Heartbeat, FwOk, FwError
<1>2. \A m \in Masters, n \in Counts : Count(m, n).type = "COUNT" /\ Count(m, n).master = m
  BY DEF Count
<1>3. \A m \in Masters, k \in 1 .. Tries :
       /\ FwCheck(m, k).type = "FWCHECK" /\ FwCheck(m, k).master = m
       /\ FwCheck(m, k).arg = k
  BY DEF FwCheck
<1>4. \A m \in Masters, a \in Addrs :
       /\ FwResponse(m, a).type = "FWRESPONSE" /\ FwResponse(m, a).master = m
       /\ FwResponse(m, a).arg = a
  BY DEF FwResponse
<1> QED
  BY <1>1, <1>2, <1>3, <1>4, MessagesOfMasters

(* Sending and delivering, packet by packet. *)
LEMMA PlusAt ==
  ASSUME NEW n \in [Messages -> Nat], NEW S
  PROVE  /\ Plus(n, S) \in [Messages -> Nat]
         /\ \A x \in Messages : Plus(n, S)[x] = IF x \in S THEN n[x] + 1 ELSE n[x]
BY DEF Plus

LEMMA MinusAt ==
  ASSUME NEW n \in [Messages -> Nat], NEW y \in Messages, n[y] > 0
  PROVE  /\ Minus(n, y) \in [Messages -> Nat]
         /\ Minus(n, y)[y] = n[y] - 1
         /\ \A x \in Messages : x # y => Minus(n, y)[x] = n[x]
<1>1. Minus(n, y) \in [Messages -> Nat]
  BY MinusTyped
<1>2. Minus(n, y) = [n EXCEPT ![y] = n[y] - 1]
  BY DEF Minus
<1> QED
  BY <1>1, <1>2

(* Only packets of the kinds in T are sent or delivered. *)
Only(T) == \A x \in Messages : x.type \notin T => net'[x] = net[x]

SameBeats == \A m \in Masters : net'[Heartbeat(m)] = net[Heartbeat(m)]
SameOks == \A m \in Masters : net'[FwOk(m)] = net[FwOk(m)]
SameCounts ==
  \A m \in Masters : /\ net'[GetCount(m)] = net[GetCount(m)]
                     /\ \A n \in Counts : net'[Count(m, n)] = net[Count(m, n)]
SameAnswers ==
  \A m \in Masters : /\ \A k \in 1 .. Tries : net'[FwCheck(m, k)] = net[FwCheck(m, k)]
                     /\ \A a \in Addrs : net'[FwResponse(m, a)] = net[FwResponse(m, a)]

(* What is left as it is. *)
LEMMA OnlyKeeps ==
  ASSUME NEW T, Only(T)
  PROVE  /\ "HEARTBEAT" \notin T => SameBeats
         /\ "FWOK" \notin T => SameOks
         /\ "GETCOUNT" \notin T /\ "COUNT" \notin T => SameCounts
         /\ "FWCHECK" \notin T /\ "FWRESPONSE" \notin T => SameAnswers
BY Kinds DEF Only, SameBeats, SameOks, SameCounts, SameAnswers

-----------------------------------------------------------------------------
(* The counters of time                                                    *)

(* The caps hold where the lists and the masters' times stay as they are.  *)
LEMMA CappedElsewhere ==
  ASSUME Capped, listed' = listed, others' = others, buildAge' = buildAge,
         age' <= Patience, lookupAge' <= MaxLookup,
         state' = "QUERY_COUNT" => age' <= Query,
         \A m \in Masters : quiet'[m] <= Beat
  PROVE  Capped'
<1>1. \A m \in Masters : NumServers(m)' = NumServers(m)
  BY DEF NumServers
<1> QED
  BY <1>1 DEF Capped

(* The server's steps keep the caps. *)
LEMMA UpdateCapped ==
  ASSUME TimesFit, IInv, Capped, RegisterUpdate
  PROVE  Capped'
<1> USE TimesAre
<1>1. /\ age \in Nat /\ age <= Patience /\ lookupAge <= MaxLookup
      /\ state = "QUERY_COUNT" => age <= Query
  BY DEF Capped, IInv, TypeOK
<1>2. quiet \in [Masters -> Nat] /\ \A m \in Masters : quiet[m] <= Beat
  BY DEF Capped, IInv, TypeOK
<1>3. listed' = listed /\ others' = others /\ buildAge' = buildAge
  BY DEF RegisterUpdate, UpdateStart, UpdateAddrs, UpdateQuery, UpdateHeartbeat,
     UpdateHeartbeatAstray, UpdateRegistered, UpdateError, masterVars
<1>4. (state' = state /\ age' = age) \/ age' = 0
  BY DEF RegisterUpdate, UpdateStart, UpdateAddrs, UpdateQuery, UpdateHeartbeat,
     UpdateHeartbeatAstray, UpdateRegistered, UpdateError, GiveUpInTime, NewState
<1>5. lookupAge' = lookupAge \/ lookupAge' = 0
  BY DEF RegisterUpdate, UpdateStart, UpdateAddrs, UpdateQuery, UpdateHeartbeat,
     UpdateHeartbeatAstray, UpdateRegistered, UpdateError, lookupVars
<1>6. \A m \in Masters : quiet'[m] \in {quiet[m], 0, HeartbeatEvery + 1}
  <2>1. CASE UpdateQuery
    BY <1>2, <2>1 DEF UpdateQuery
  <2>2. CASE UpdateAddrs
    BY <1>2, <2>2 DEF UpdateAddrs
  <2>3. CASE UpdateHeartbeat
    BY <1>2, <2>3 DEF UpdateHeartbeat
  <2>4. CASE quiet' = quiet
    BY <2>4
  <2> QED
    BY <2>1, <2>2, <2>3, <2>4
       DEF RegisterUpdate, UpdateStart, UpdateHeartbeatAstray, UpdateRegistered, UpdateError
<1>7. \A m \in Masters : quiet'[m] <= Beat
  BY <1>2, <1>6
<1>8. age' <= Patience /\ lookupAge' <= MaxLookup /\ (state' = "QUERY_COUNT" => age' <= Query)
  BY <1>1, <1>4, <1>5
<1> QED
  BY <1>3, <1>7, <1>8, CappedElsewhere

(* So do the packets that list nothing, the faults and a refresh's end.    *)
LEMMA PacketCapped ==
  ASSUME TimesFit, IInv, Capped,
         \/ \E m \in Masters : GotPacket(m) \/ ServeCount(m) \/ AddCheckserver(m)
         \/ \E m \in Masters, a \in Addrs : IgnoreServer(m, a)
         \/ \E x \in Messages : Lose(x) \/ Duplicate(x)
         \/ \E F \in SUBSET Masters : LookupDone(F)
         \/ UNCHANGED vars
  PROVE  Capped'
<1>1. /\ listed' = listed /\ others' = others /\ buildAge' = buildAge
      /\ quiet' = quiet /\ lookupAge' = lookupAge
      /\ (state' = state /\ age' = age) \/ age' = 0
  BY DEF GotPacket, GotCount, GotCheck, GotOk, GotError, ServeCount, AddCheckserver,
     IgnoreServer, Lose, Duplicate, LookupDone, NewState, vars, registerVars, lookupVars,
     masterVars
<1>2. age' <= Patience /\ (state' = "QUERY_COUNT" => age' <= Query)
  BY <1>1, TimesAre DEF Capped
<1> QED
  BY <1>1, <1>2, CappedElsewhere DEF Capped

(* A master has as many entries as addresses at most. *)
LEMMA EntriesFinite ==
  ASSUME NEW S \in SUBSET Addrs
  PROVE  IsFiniteSet(S) /\ Cardinality(S) \in Nat
<1>1. IsFiniteSet({"main"} \cup {"alt"})
  BY FS_Singleton, FS_AddElement
<1>2. Addrs = {"main"} \cup {"alt"}
  BY DEF Addrs
<1> QED
  BY <1>1, <1>2, FS_Subset, FS_CardinalityType

(* A master lists a server only where there is room. *)
LEMMA AddServerCapped ==
  ASSUME TimesFit, IInv, Capped, NEW m \in Masters, NEW a \in Addrs, AddServer(m, a)
  PROVE  Capped'
<1> DEFINE entries == {b \in Addrs : listed[m][b] # NotListed}
           entriesNew == {b \in Addrs : listed'[m][b] # NotListed}
           full == listed[m][a] = NotListed /\ NumServers(m) >= MaxServers
<1>1. /\ listed \in [Masters -> [Addrs -> Nat \cup {NotListed}]]
      /\ others \in [Masters -> Nat] /\ MaxServers \in Nat
  BY RegistrationAssumption DEF IInv, TypeOK
<1>2. listed' = IF full THEN listed ELSE [listed EXCEPT ![m][a] = 0]
  BY DEF AddServer
<1>3. /\ others' = others /\ buildAge' = buildAge /\ quiet' = quiet /\ age' = age
      /\ state' = state /\ lookupAge' = lookupAge
  BY DEF AddServer, registerVars, lookupVars
<1>4. \A n \in Masters : n # m => NumServers(n)' = NumServers(n)
  BY <1>1, <1>2, <1>3 DEF NumServers
<1>5. NumServers(m)' <= MaxServers
  <2>0. NumServers(m) <= MaxServers /\ NumServers(m) = others[m] + Cardinality(entries)
    BY DEF Capped, NumServers
  <2>1. NumServers(m)' = others[m] + Cardinality(entriesNew)
    BY <1>3 DEF NumServers
  <2>2. CASE full \/ listed[m][a] # NotListed
    <3>1. entriesNew = entries
      BY <1>1, <1>2, <2>2 DEF NotListed
    <3> QED
      BY <2>0, <2>1, <3>1
  <2>3. CASE listed[m][a] = NotListed /\ ~(NumServers(m) >= MaxServers)
    <3>1. entriesNew = entries \cup {a}
      BY <1>1, <1>2, <2>3 DEF NotListed
    <3>2. IsFiniteSet(entries) /\ Cardinality(entries) \in Nat /\ a \notin entries
      BY <2>3, EntriesFinite
    <3>3. Cardinality(entriesNew) = Cardinality(entries) + 1
      <4> HIDE DEF entries, entriesNew
      <4> QED
        BY <3>1, <3>2, FS_AddElement
    <3> HIDE DEF entries, entriesNew
    <3> QED
      BY <1>1, <2>0, <2>1, <2>3, <3>2, <3>3
  <2> QED
    BY <2>2, <2>3
<1> QED
  BY <1>3, <1>4, <1>5 DEF Capped

(* It drops entries in its work. *)
LEMMA CycleCapped ==
  ASSUME TimesFit, IInv, Capped, NEW m \in Masters, Cycle(m)
  PROVE  Capped'
<1> DEFINE entries == {b \in Addrs : listed[m][b] # NotListed}
           entriesNew == {b \in Addrs : listed'[m][b] # NotListed}
<1>1. /\ listed \in [Masters -> [Addrs -> Nat \cup {NotListed}]]
      /\ others \in [Masters -> Nat] /\ MaxServers \in Nat
      /\ buildAge \in [Masters -> Nat]
  BY RegistrationAssumption DEF IInv, TypeOK
<1>2. listed' = [listed EXCEPT ![m] =
        [b \in Addrs |-> IF listed[m][b] > ExpireTime THEN NotListed ELSE listed[m][b]]]
  BY DEF Cycle, PurgeServers
<1>3. /\ others' = others /\ buildAge' = [buildAge EXCEPT ![m] = 0] /\ quiet' = quiet
      /\ age' = age /\ state' = state /\ lookupAge' = lookupAge
  BY DEF Cycle, registerVars, lookupVars
<1>4. \A n \in Masters : n # m => NumServers(n)' = NumServers(n)
  BY <1>1, <1>2, <1>3 DEF NumServers
<1>5. NumServers(m)' <= MaxServers
  <2>1. NumServers(m) <= MaxServers /\ NumServers(m) = others[m] + Cardinality(entries)
    BY DEF Capped, NumServers
  <2>2. NumServers(m)' = others[m] + Cardinality(entriesNew)
    BY <1>3 DEF NumServers
  <2>3. entriesNew \subseteq entries
    BY <1>1, <1>2
  <2>4. /\ IsFiniteSet(entries) /\ Cardinality(entries) \in Nat
        /\ Cardinality(entriesNew) \in Nat
    BY EntriesFinite
  <2>5. Cardinality(entriesNew) <= Cardinality(entries)
    <3> HIDE DEF entries, entriesNew
    <3> QED
      BY <2>3, <2>4, FS_Subset
  <2> HIDE DEF entries, entriesNew
  <2> QED
    BY <1>1, <2>1, <2>2, <2>4, <2>5
<1>6. \A n \in Masters : buildAge'[n] <= Period
  BY <1>1, <1>3, TimesAre DEF Capped
<1> QED
  BY <1>3, <1>4, <1>5, <1>6 DEF Capped

(* Time goes as far as the caps. *)
LEMMA TickCapped ==
  ASSUME TimesFit, IInv, Capped, Tick
  PROVE  Capped'
<1> USE TimesAre
<1>1. /\ age \in Nat /\ lookupAge \in Nat /\ quiet \in [Masters -> Nat]
      /\ buildAge \in [Masters -> Nat]
      /\ listed \in [Masters -> [Addrs -> Nat \cup {NotListed}]]
  BY DEF IInv, TypeOK
<1>2. age' = Later(age, GiveUp) /\ age' <= Patience
  <2>1. age' = Later(age, GiveUp)
    BY DEF Tick
  <2> QED
    BY <1>1, <2>1 DEF Later, Capped
<1>3. lookupAge' <= MaxLookup
  BY <1>1 DEF Tick, Capped
<1>4. state' = "QUERY_COUNT" => age' <= Query
  BY <1>1, <1>2 DEF Tick, Settled, Later
<1>5. \A m \in Masters : quiet'[m] <= Beat
  <2>1. quiet' = [m \in Masters |-> Later(quiet[m], HeartbeatEvery)]
    BY DEF Tick
  <2> QED
    BY <1>1, <2>1 DEF Later, Capped
<1>6. \A m \in Masters : buildAge'[m] <= Period
  BY <1>1 DEF Tick, Capped
<1>7. \A m \in Masters : NumServers(m)' = NumServers(m)
  <2> SUFFICES ASSUME NEW m \in Masters
               PROVE  NumServers(m)' = NumServers(m)
    OBVIOUS
  <2>1. others' = others
    BY DEF Tick
  <2>2. \A a \in Addrs : listed'[m][a] # NotListed <=> listed[m][a] # NotListed
    BY <1>1 DEF Tick, Later, NotListed
  <2>3. {a \in Addrs : listed'[m][a] # NotListed} = {a \in Addrs : listed[m][a] # NotListed}
    BY <2>2
  <2> QED
    BY <2>1, <2>3 DEF NumServers
<1> QED
  BY <1>2, <1>3, <1>4, <1>5, <1>6, <1>7 DEF Capped

(* Every step keeps the caps. *)
LEMMA StepCapped ==
  ASSUME TimesFit, IInv, Capped, [Next]_vars
  PROVE  Capped'
<1>1. CASE RegisterUpdate
  BY <1>1, UpdateCapped
<1>2. CASE \E m \in Masters : Cycle(m)
  BY <1>2, CycleCapped
<1>3. CASE \E m \in Masters, a \in Addrs : AddServer(m, a)
  BY <1>3, AddServerCapped
<1>4. CASE Tick
  BY <1>4, TickCapped
<1>5. CASE \/ \E m \in Masters : GotPacket(m) \/ ServeCount(m) \/ AddCheckserver(m)
           \/ \E m \in Masters, a \in Addrs : IgnoreServer(m, a)
           \/ \E x \in Messages : Lose(x) \/ Duplicate(x)
           \/ \E F \in SUBSET Masters : LookupDone(F)
           \/ UNCHANGED vars
  BY <1>5, PacketCapped
<1> QED
  BY <1>1, <1>2, <1>3, <1>4, <1>5 DEF Next, ServePacket

-----------------------------------------------------------------------------
(* The packets of each step                                                *)

(* A query goes to those that have not answered for a while. *)
LEMMA UpdateQueryNet ==
  ASSUME IInv, UpdateQuery
  PROVE  /\ Only({"GETCOUNT"})
         /\ \A m \in Masters : net'[GetCount(m)] >= net[GetCount(m)]
         /\ \A m \in Left : quiet[m] > Freq => net'[GetCount(m)] > 0
         /\ \A m \in Left : quiet[m] > Freq \/ quiet'[m] = quiet[m] \/ state' # "QUERY_COUNT"
<1> DEFINE ask == {m \in Left : quiet[m] > Freq}
           S == {GetCount(m) : m \in ask}
<1>1. net \in [Messages -> Nat] /\ net' = Plus(net, S) /\ valid \subseteq Masters
  BY DEF IInv, TypeOK, UpdateQuery
<1>2. \A x \in Messages : net'[x] = IF x \in S THEN net[x] + 1 ELSE net[x]
  BY <1>1, PlusAt
<1>3. Left \subseteq Masters
  BY <1>1 DEF Left
<1>4. \A x \in S : x.type = "GETCOUNT"
  BY DEF GetCount
<1>5. Only({"GETCOUNT"})
  BY <1>2, <1>4 DEF Only
<1>6. \A m \in Masters : net'[GetCount(m)] >= net[GetCount(m)]
  BY <1>1, <1>2, Kinds
<1>7. \A m \in Left : quiet[m] > Freq => net'[GetCount(m)] > 0
  <2> SUFFICES ASSUME NEW m \in Left, quiet[m] > Freq
               PROVE  net'[GetCount(m)] > 0
    OBVIOUS
  <2>1. GetCount(m) \in S /\ GetCount(m) \in Messages
    BY <1>3, Kinds
  <2>2. net[GetCount(m)] \in Nat
    BY <1>1, <2>1
  <2> QED
    BY <1>2, <2>1, <2>2
<1>8. \A m \in Left : quiet[m] > Freq \/ quiet'[m] = quiet[m] \/ state' # "QUERY_COUNT"
  BY <1>3 DEF UpdateQuery, NewState
<1> QED
  BY <1>5, <1>6, <1>7, <1>8

(* A heartbeat goes to the chosen master when it is time. *)
LEMMA UpdateHeartbeatNet ==
  ASSUME IInv, UpdateHeartbeat
  PROVE  /\ Only({"HEARTBEAT"}) /\ chosen \in Masters
         /\ \A m \in Masters : m # chosen => net'[Heartbeat(m)] = net[Heartbeat(m)]
         /\ \/ /\ quiet[chosen] > HeartbeatEvery /\ quiet' = [quiet EXCEPT ![chosen] = 0]
               /\ net'[Heartbeat(chosen)] = net[Heartbeat(chosen)] + 1
            \/ quiet[chosen] <= HeartbeatEvery /\ quiet' = quiet /\ net' = net
<1>1. net \in [Messages -> Nat] /\ chosen \in Masters
  BY DEF IInv, TypeOK, UpdateHeartbeat
<1>2. \/ /\ quiet[chosen] > HeartbeatEvery /\ quiet' = [quiet EXCEPT ![chosen] = 0]
         /\ net' = Plus(net, {Heartbeat(chosen)})
      \/ quiet[chosen] <= HeartbeatEvery /\ quiet' = quiet /\ net' = net
  BY DEF UpdateHeartbeat
<1>3. CASE net' = net /\ quiet[chosen] <= HeartbeatEvery /\ quiet' = quiet
  BY <1>1, <1>3 DEF Only
<1>4. CASE /\ quiet[chosen] > HeartbeatEvery /\ quiet' = [quiet EXCEPT ![chosen] = 0]
           /\ net' = Plus(net, {Heartbeat(chosen)})
  <2>1. \A x \in Messages :
          net'[x] = IF x = Heartbeat(chosen) THEN net[x] + 1 ELSE net[x]
    BY <1>1, <1>4, PlusAt
  <2>2. Only({"HEARTBEAT"})
    BY <1>1, <2>1, Kinds DEF Only
  <2>3. \A m \in Masters : m # chosen =>
          Heartbeat(m) \in Messages /\ Heartbeat(m) # Heartbeat(chosen)
    BY <1>1, Kinds
  <2>4. \A m \in Masters : m # chosen => net'[Heartbeat(m)] = net[Heartbeat(m)]
    BY <2>1, <2>3
  <2>5. net'[Heartbeat(chosen)] = net[Heartbeat(chosen)] + 1
    BY <1>1, <2>1, Kinds
  <2> QED
    BY <1>1, <1>4, <2>2, <2>4, <2>5
<1> QED
  BY <1>2, <1>3, <1>4

(* A count, a FWOK or an error is delivered. *)
LEMMA GotNet ==
  ASSUME IInv, NEW m \in Masters
  PROVE  /\ \A n \in Counts : GotCount(m, n) =>
              /\ Only({"COUNT"})
              /\ \A p \in Masters, c \in Counts :
                   p # m => net'[Count(p, c)] = net[Count(p, c)]
         /\ GotOk(m) => Only({"FWOK"}) /\ net[FwOk(m)] > 0
         /\ GotError(m) => Only({"FWERROR"})
<1>1. net \in [Messages -> Nat]
  BY DEF IInv, TypeOK
<1>2. ASSUME NEW n \in Counts, GotCount(m, n)
      PROVE  /\ Only({"COUNT"})
             /\ \A p \in Masters, c \in Counts : p # m => net'[Count(p, c)] = net[Count(p, c)]
  <2>1. \A x \in Messages : x # Count(m, n) => net'[x] = net[x]
    BY <1>1, <1>2, Kinds, MinusAt DEF GotCount
  <2> QED
    BY <2>1, Kinds DEF Only
<1>3. ASSUME GotOk(m)
      PROVE  Only({"FWOK"}) /\ net[FwOk(m)] > 0
  <2>1. \A x \in Messages : x # FwOk(m) => net'[x] = net[x]
    BY <1>1, <1>3, Kinds, MinusAt DEF GotOk
  <2> QED
    BY <1>3, <2>1, Kinds DEF Only, GotOk
<1>4. ASSUME GotError(m)
      PROVE  Only({"FWERROR"})
  <2>1. \A x \in Messages : x # FwError(m) => net'[x] = net[x]
    BY <1>1, <1>4, Kinds, MinusAt DEF GotError
  <2> QED
    BY <2>1, Kinds DEF Only
<1> QED
  BY <1>2, <1>3, <1>4

(* The address of a check. *)
LEMMA CheckedAddr ==
  /\ \A k \in Nat : Checked(k) \in Addrs
  /\ \A k \in 1 .. Tries : Checked(k) \in Addrs
  /\ Checked(1) = "main" /\ Checked(2) = "alt"
  /\ Addrs = {"main", "alt"}
BY DEF Checked, Addrs

(* A check is delivered and its answer sent. *)
LEMMA GotCheckNet ==
  ASSUME IInv, NEW m \in Masters, NEW k \in 1 .. Tries, GotCheck(m, k)
  PROVE  /\ Only({"FWCHECK", "FWRESPONSE"})
         /\ net[FwCheck(m, k)] > 0 /\ net'[FwCheck(m, k)] = net[FwCheck(m, k)] - 1
         /\ \A n \in Masters, j \in 1 .. Tries :
              n # m \/ j # k => net'[FwCheck(n, j)] = net[FwCheck(n, j)]
         /\ \A n \in Masters, a \in Addrs :
              n # m \/ a # Checked(k) \/ Checked(k) \notin open =>
                net'[FwResponse(n, a)] = net[FwResponse(n, a)]
         /\ Checked(k) \in open =>
              net'[FwResponse(m, Checked(k))] = net[FwResponse(m, Checked(k))] + 1
<1> DEFINE left == Minus(net, FwCheck(m, k))
           answer == FwResponse(m, Checked(k))
<1>1. net \in [Messages -> Nat] /\ FwCheck(m, k) \in Messages /\ net[FwCheck(m, k)] > 0
  BY Kinds DEF IInv, TypeOK, GotCheck
<1>2. /\ left \in [Messages -> Nat] /\ left[FwCheck(m, k)] = net[FwCheck(m, k)] - 1
      /\ \A x \in Messages : x # FwCheck(m, k) => left[x] = net[x]
  BY <1>1, MinusAt
<1>3. net' = IF Checked(k) \in open THEN Plus(left, {answer}) ELSE left
  BY DEF GotCheck
<1>4. answer \in Messages /\ answer.type = "FWRESPONSE" /\ answer.arg = Checked(k)
      /\ answer.master = m /\ answer # FwCheck(m, k)
  BY Kinds, CheckedAddr
<1> HIDE DEF left, answer
<1>5. \A x \in Messages :
        net'[x] = IF x = answer /\ Checked(k) \in open THEN left[x] + 1 ELSE left[x]
  BY <1>2, <1>3, PlusAt
<1>6. Only({"FWCHECK", "FWRESPONSE"})
  BY <1>2, <1>4, <1>5, Kinds DEF Only
<1>7. net'[FwCheck(m, k)] = net[FwCheck(m, k)] - 1
  BY <1>1, <1>2, <1>4, <1>5
<1>8. \A n \in Masters, j \in 1 .. Tries :
        n # m \/ j # k => net'[FwCheck(n, j)] = net[FwCheck(n, j)]
  <2>1. \A n \in Masters, j \in 1 .. Tries :
          /\ FwCheck(n, j) \in Messages /\ FwCheck(n, j) # answer
          /\ n # m \/ j # k => FwCheck(n, j) # FwCheck(m, k)
    BY <1>4, Kinds
  <2> QED
    BY <1>2, <1>5, <2>1
<1>9. \A n \in Masters, a \in Addrs :
        n # m \/ a # Checked(k) \/ Checked(k) \notin open =>
          net'[FwResponse(n, a)] = net[FwResponse(n, a)]
  <2>1. \A n \in Masters, a \in Addrs :
          /\ FwResponse(n, a) \in Messages /\ FwResponse(n, a) # FwCheck(m, k)
          /\ n # m \/ a # Checked(k) => FwResponse(n, a) # answer
    BY <1>4, Kinds
  <2> QED
    BY <1>2, <1>5, <2>1
<1>10. Checked(k) \in open => net'[answer] = net[answer] + 1
  BY <1>2, <1>4, <1>5
<1> QED
  BY <1>1, <1>6, <1>7, <1>8, <1>9, <1>10 DEF answer

(* A query is answered with the number of servers. *)
LEMMA ServeCountNet ==
  ASSUME IInv, NEW m \in Masters, ServeCount(m)
  PROVE  /\ Only({"GETCOUNT", "COUNT"})
         /\ \A p \in Masters : p # m => net'[GetCount(p)] = net[GetCount(p)]
         /\ \A p \in Masters, c \in Counts : net'[Count(p, c)] >= net[Count(p, c)]
         /\ NumServers(m) \in Counts => net'[Count(m, NumServers(m))] > 0
<1> DEFINE left == Minus(net, GetCount(m))
           answer == Count(m, NumServers(m))
<1>1. net \in [Messages -> Nat] /\ GetCount(m) \in Messages /\ net[GetCount(m)] > 0
  BY Kinds DEF IInv, TypeOK, ServeCount
<1>2. /\ left \in [Messages -> Nat]
      /\ \A x \in Messages : x # GetCount(m) => left[x] = net[x]
  BY <1>1, MinusAt
<1>3. net' = Plus(left, {answer})
  BY DEF ServeCount
<1>4. answer.type = "COUNT"
  BY DEF Count
<1> HIDE DEF left, answer
<1>5. \A x \in Messages : net'[x] = IF x = answer THEN left[x] + 1 ELSE left[x]
  BY <1>2, <1>3, PlusAt
<1>6. Only({"GETCOUNT", "COUNT"})
  BY <1>2, <1>4, <1>5, Kinds DEF Only
<1>7. \A p \in Masters : p # m => net'[GetCount(p)] = net[GetCount(p)]
  <2>1. \A p \in Masters :
          /\ GetCount(p) \in Messages /\ GetCount(p) # answer
          /\ p # m => GetCount(p) # GetCount(m)
    BY <1>4, Kinds
  <2> QED
    BY <1>2, <1>5, <2>1
<1>8. \A p \in Masters, c \in Counts : net'[Count(p, c)] >= net[Count(p, c)]
  <2>1. \A p \in Masters, c \in Counts :
          Count(p, c) \in Messages /\ Count(p, c) # GetCount(m)
    BY Kinds
  <2> QED
    BY <1>1, <1>2, <1>5, <2>1
<1>9. NumServers(m) \in Counts => net'[answer] > 0
  <2> SUFFICES ASSUME NumServers(m) \in Counts
               PROVE  net'[answer] > 0
    OBVIOUS
  <2>1. answer \in Messages
    BY Kinds DEF answer
  <2> QED
    BY <1>2, <1>5, <2>1
<1> QED
  BY <1>6, <1>7, <1>8, <1>9 DEF answer

(* A heartbeat is delivered and starts a check. *)
LEMMA StartCheckNet ==
  ASSUME IInv, NEW m \in Masters, StartCheck(m)
  PROVE  /\ Only({"HEARTBEAT"})
         /\ net[Heartbeat(m)] > 0 /\ net'[Heartbeat(m)] = net[Heartbeat(m)] - 1
         /\ \A n \in Masters : n # m => net'[Heartbeat(n)] = net[Heartbeat(n)]
<1>1. net \in [Messages -> Nat] /\ Heartbeat(m) \in Messages /\ net[Heartbeat(m)] > 0
      /\ net' = Minus(net, Heartbeat(m))
  BY Kinds DEF IInv, TypeOK, StartCheck
<1>2. /\ net'[Heartbeat(m)] = net[Heartbeat(m)] - 1
      /\ \A x \in Messages : x # Heartbeat(m) => net'[x] = net[x]
  BY <1>1, MinusAt
<1> QED
  BY <1>1, <1>2, Kinds DEF Only

(* An answer is delivered, and the server told so. *)
LEMMA AddServerNet ==
  ASSUME IInv, NEW m \in Masters, NEW a \in Addrs, AddServer(m, a)
  PROVE  /\ Only({"FWRESPONSE", "FWOK"})
         /\ net[FwResponse(m, a)] > 0
         /\ net'[FwResponse(m, a)] = net[FwResponse(m, a)] - 1
         /\ \A n \in Masters, b \in Addrs :
              n # m \/ b # a => net'[FwResponse(n, b)] = net[FwResponse(n, b)]
         /\ net'[FwOk(m)] > 0
<1> DEFINE left == Minus(net, FwResponse(m, a))
           more == Plus(left, {FwOk(m)})
<1>1. net \in [Messages -> Nat] /\ FwResponse(m, a) \in Messages /\ net[FwResponse(m, a)] > 0
      /\ FwOk(m) \in Messages /\ FwOk(m).type = "FWOK" /\ FwOk(m) # FwResponse(m, a)
  BY Kinds DEF IInv, TypeOK, AddServer
<1>2. /\ left \in [Messages -> Nat]
      /\ left[FwResponse(m, a)] = net[FwResponse(m, a)] - 1
      /\ \A x \in Messages : x # FwResponse(m, a) => left[x] = net[x]
  BY <1>1, MinusAt
<1> HIDE DEF left
<1>3. /\ more \in [Messages -> Nat]
      /\ \A x \in Messages : more[x] = IF x = FwOk(m) THEN left[x] + 1 ELSE left[x]
  BY <1>2, PlusAt
<1>4. net' = Plus(more, {FwOk(m)})
  BY DEF AddServer, left
<1> HIDE DEF more
<1>5. \A x \in Messages : net'[x] = IF x = FwOk(m) THEN more[x] + 1 ELSE more[x]
  BY <1>3, <1>4, PlusAt
<1>6. \A x \in Messages : x # FwOk(m) => net'[x] = left[x]
  BY <1>3, <1>5
<1>7. Only({"FWRESPONSE", "FWOK"})
  BY <1>1, <1>2, <1>6, Kinds DEF Only
<1>8. net'[FwOk(m)] > 0
  BY <1>1, <1>2, <1>3, <1>5
<1>9. \A n \in Masters, b \in Addrs :
        n # m \/ b # a => net'[FwResponse(n, b)] = net[FwResponse(n, b)]
  <2>1. \A n \in Masters, b \in Addrs :
          /\ FwResponse(n, b) \in Messages /\ FwResponse(n, b) # FwOk(m)
          /\ n # m \/ b # a => FwResponse(n, b) # FwResponse(m, a)
    BY <1>1, Kinds
  <2> QED
    BY <1>2, <1>6, <2>1
<1> QED
  BY <1>1, <1>2, <1>6, <1>7, <1>8, <1>9

(* An answer to no check is delivered. *)
LEMMA IgnoreServerNet ==
  ASSUME IInv, NEW m \in Masters, NEW a \in Addrs, IgnoreServer(m, a)
  PROVE  /\ Only({"FWRESPONSE"})
         /\ net[FwResponse(m, a)] > 0
         /\ \A n \in Masters, b \in Addrs :
              /\ n # m => net'[FwResponse(n, b)] = net[FwResponse(n, b)]
              /\ net'[FwResponse(n, b)] <= net[FwResponse(n, b)]
<1>1. net \in [Messages -> Nat] /\ FwResponse(m, a) \in Messages /\ net[FwResponse(m, a)] > 0
      /\ net' = Minus(net, FwResponse(m, a))
  BY Kinds DEF IInv, TypeOK, IgnoreServer
<1>2. /\ net'[FwResponse(m, a)] = net[FwResponse(m, a)] - 1
      /\ \A x \in Messages : x # FwResponse(m, a) => net'[x] = net[x]
  BY <1>1, MinusAt
<1>3. Only({"FWRESPONSE"})
  BY <1>2, Kinds DEF Only
<1>4. \A n \in Masters, b \in Addrs :
        n # m => net'[FwResponse(n, b)] = net[FwResponse(n, b)]
  BY <1>2, Kinds
<1>5. \A x \in Messages : net'[x] <= net[x]
  BY <1>1, <1>2
<1> QED
  BY <1>1, <1>3, <1>4, <1>5, Kinds

(* The checks are sent, each by its number. *)
LEMMA CycleNet ==
  ASSUME IInv, NEW m \in Masters, Cycle(m)
  PROVE  /\ Only({"FWCHECK", "FWERROR"})
         /\ \A n \in Masters, k \in 1 .. Tries :
              n # m => net'[FwCheck(n, k)] = net[FwCheck(n, k)]
         /\ \A k \in 1 .. Tries :
              net'[FwCheck(m, k)] = net[FwCheck(m, k)] + checking[m][k - 1]
         /\ \A n \in Masters : n # m => checking'[n] = checking[n]
         /\ \A k \in 0 .. Tries : checking'[m][k] = IF k = 0 THEN 0 ELSE checking[m][k - 1]
         /\ buildAge' = [buildAge EXCEPT ![m] = 0] /\ buildAge[m] > BuildEvery
<1>1. \A x \in Messages :
        net'[x] = IF x.master # m THEN net[x]
                  ELSE IF x.type = "FWCHECK" THEN net[x] + checking[m][x.arg - 1]
                  ELSE IF x.type = "FWERROR" THEN net[x] + checking[m][Tries]
                  ELSE net[x]
  BY DEF Cycle, UpdateServers
<1>2. Only({"FWCHECK", "FWERROR"})
  BY <1>1 DEF Only
<1>3. /\ \A n \in Masters, k \in 1 .. Tries :
           n # m => net'[FwCheck(n, k)] = net[FwCheck(n, k)]
      /\ \A k \in 1 .. Tries :
           net'[FwCheck(m, k)] = net[FwCheck(m, k)] + checking[m][k - 1]
  BY <1>1, Kinds
<1>4. /\ \A n \in Masters : n # m => checking'[n] = checking[n]
      /\ \A k \in 0 .. Tries : checking'[m][k] = IF k = 0 THEN 0 ELSE checking[m][k - 1]
  BY DEF IInv, TypeOK, Cycle, UpdateServers
<1>5. buildAge' = [buildAge EXCEPT ![m] = 0] /\ buildAge[m] > BuildEvery
  BY DEF Cycle
<1> QED
  BY <1>2, <1>3, <1>4, <1>5

(* The steps that send and deliver nothing. *)
LEMMA SilentNet ==
  ASSUME \/ UpdateStart \/ UpdateAddrs \/ UpdateHeartbeatAstray \/ UpdateRegistered
         \/ UpdateError \/ Tick \/ UNCHANGED vars \/ \E F \in SUBSET Masters : LookupDone(F)
  PROVE  net' = net /\ Only({})
BY DEF UpdateStart, UpdateAddrs, UpdateHeartbeatAstray, UpdateRegistered, UpdateError, Tick,
   vars, LookupDone, Only

-----------------------------------------------------------------------------
(* What goes on at the masters                                             *)

(* Nothing of it is changed by the step. *)
SameMasters ==
  SameBeats /\ SameAnswers /\ checking' = checking /\ buildAge' = buildAge /\ open' = open

(* The steps of the server but the heartbeat, and the queries' packets.    *)
Aside ==
  \/ UpdateStart \/ UpdateAddrs \/ UpdateQuery \/ UpdateHeartbeatAstray
  \/ UpdateRegistered \/ UpdateError \/ UNCHANGED vars
  \/ \E F \in SUBSET Masters : LookupDone(F)
  \/ \E m \in Masters : \/ \E n \in Counts : GotCount(m, n)
                        \/ GotOk(m) \/ GotError(m) \/ ServeCount(m)

(* They change nothing at the masters. *)
LEMMA AsideKeeps ==
  ASSUME IInv, Aside
  PROVE  SameMasters
<1>1. checking' = checking /\ buildAge' = buildAge /\ open' = open
  BY DEF Aside, UpdateStart, UpdateAddrs, UpdateQuery, UpdateHeartbeatAstray,
     UpdateRegistered, UpdateError, vars, masterVars, LookupDone, GotCount, GotOk, GotError,
     ServeCount
<1>2. \E T \in SUBSET {"GETCOUNT", "COUNT", "FWOK", "FWERROR"} : Only(T)
  <2>1. CASE UpdateQuery
    BY <2>1, UpdateQueryNet
  <2>2. ASSUME NEW m \in Masters,
               (\E n \in Counts : GotCount(m, n)) \/ GotOk(m) \/ GotError(m)
        PROVE  Only({"COUNT"}) \/ Only({"FWOK"}) \/ Only({"FWERROR"})
    BY <2>2, GotNet
  <2>3. ASSUME NEW m \in Masters, ServeCount(m)
        PROVE  Only({"GETCOUNT", "COUNT"})
    BY <2>3, ServeCountNet
  <2>4. CASE Only({})
    BY <2>4
  <2> QED
    BY <2>1, <2>2, <2>3, <2>4, SilentNet DEF Aside
<1>3. PICK T \in SUBSET {"GETCOUNT", "COUNT", "FWOK", "FWERROR"} : Only(T)
  BY <1>2
<1>4. SameBeats /\ SameAnswers
  BY <1>3, OnlyKeeps
<1> QED
  BY <1>1, <1>4 DEF SameMasters

(* Heartbeats change nothing but themselves and the check they start. *)
LEMMA BeatKeeps ==
  ASSUME IInv, UpdateHeartbeat \/ \E m \in Masters : StartCheck(m)
  PROVE  SameAnswers /\ SameOks /\ SameCounts /\ buildAge' = buildAge /\ open' = open
<1>1. Only({"HEARTBEAT"})
  BY UpdateHeartbeatNet, StartCheckNet
<1>2. buildAge' = buildAge /\ open' = open
  BY DEF UpdateHeartbeat, StartCheck, masterVars
<1> QED
  BY <1>1, <1>2, OnlyKeeps

(* The ways at the masters stay, and what is idle stays idle. *)
LEMMA SameMastersKeep ==
  ASSUME SameMasters
  PROVE  /\ \A d : OnMaster(d) => OnMaster(d)'
         /\ \A m \in Masters : Idle(m)' <=> Idle(m)
         /\ \A m \in Masters : NoAnswerDue(m)' <=> NoAnswerDue(m)
         /\ \A m \in Masters : Busy(m)' <=> Busy(m)
<1>1. \A m \in Masters :
        /\ Busy(m)' <=> Busy(m)
        /\ NoAnswerDue(m)' <=> NoAnswerDue(m)
        /\ net'[Heartbeat(m)] = net[Heartbeat(m)]
        /\ Answering(m) => Answering(m)'
        /\ buildAge'[m] = buildAge[m]
  BY DEF SameMasters, SameBeats, SameAnswers, Busy, NoAnswerDue, Answering
<1>2. \A k, d : \A m \in Masters : Trying(m, k, d) => Trying(m, k, d)'
  BY DEF SameMasters, Trying, Reaches
<1>3. ASSUME NEW d, OnMaster(d)
      PROVE  OnMaster(d)'
  BY <1>1, <1>2, <1>3 DEF OnMaster
<1> QED
  BY <1>1, <1>3 DEF Idle

-----------------------------------------------------------------------------
(* After the fault: the deadline is kept                                   *)

(* The types that the server's deadlines are about. *)
LEMMA ServerTyped ==
  ASSUME TimesFit, IInv, Capped
  PROVE  /\ state \in {"START", "UPDATE_ADDRS", "QUERY_COUNT", "HEARTBEAT", "REGISTERED", "ERROR"}
         /\ age \in Nat /\ lookupAge \in Nat /\ age <= Patience /\ lookupAge <= MaxLookup
         /\ state = "QUERY_COUNT" => age <= Query
         /\ chosen \in Masters \cup {NoServer}
         /\ chosen # NoServer => chosen \in Masters
         /\ refreshing \in BOOLEAN /\ valid \subseteq Masters /\ resolved \subseteq Masters
         /\ quiet \in [Masters -> Nat] /\ buildAge \in [Masters -> Nat]
         /\ \A m \in Masters : quiet[m] <= Beat /\ buildAge[m] <= Period
BY DEF IInv, TypeOK, States, Capped

(* In every state a step leads to, a FWOK comes some time. *)
LEMMA AnyWithin ==
  ASSUME TimesFit, IInv', Capped'
  PROVE  Within(Longest)'
<1>1. /\ Pause + Patience + Anew <= Longest /\ Patience + Anew <= Longest
      /\ Query + 2 * Period <= Longest /\ Anew <= Longest /\ Longest \in Nat
  BY TimesAre
<1>2. \A t \in Nat : /\ Pause + Patience + Anew <= Longest + t
                     /\ Patience + Anew <= Longest + t
                     /\ Query + 2 * Period <= Longest + t /\ Anew <= Longest + t
  BY <1>1, TimesAre
<1>3. /\ state' \in States /\ age' \in Nat /\ lookupAge' \in Nat /\ refreshing' \in BOOLEAN
  BY DEF IInv, TypeOK
<1> QED
  BY <1>1, <1>2, <1>3 DEF Within, OnServer, States

(* The server goes its way before the deadline. *)
LEMMA UpdateKeepsWay ==
  ASSUME TimesFit, IInv, ListInv, Capped, QueryGoesOn, NEW d \in Nat, OnServer(d),
         \/ UpdateStart \/ UpdateAddrs \/ UpdateQuery \/ UpdateHeartbeatAstray
         \/ UpdateRegistered \/ UpdateError
  PROVE  OnServer(d)'
<1> USE TimesAre, ServerTyped
<1>1. CASE UpdateStart
  <2>1. Anew <= d
    BY <1>1 DEF UpdateStart, OnServer
  <2>2. state' = "UPDATE_ADDRS" /\ refreshing' /\ lookupAge' \in Nat
    BY <1>1 DEF UpdateStart, NewState
  <2> QED
    BY <2>1, <2>2 DEF OnServer
<1>2. CASE UpdateAddrs
  <2>1. CASE state' = state /\ refreshing
    <3>1. Anew <= d + lookupAge
      BY <1>2, <2>1 DEF UpdateAddrs, OnServer
    <3>2. state' = "UPDATE_ADDRS" /\ refreshing' /\ lookupAge' = lookupAge
      BY <1>2, <2>1 DEF UpdateAddrs, lookupVars
    <3> QED
      BY <3>1, <3>2 DEF OnServer
  <2>2. CASE ~refreshing
    <3>1. \/ resolved # {} /\ Query + 2 * Period <= d
          \/ resolved = {} /\ Patience + Anew <= d
      BY <1>2, <2>2 DEF UpdateAddrs, OnServer
    <3>2. state' = "QUERY_COUNT" /\ age' = 0 /\ valid' = resolved
      BY <1>2, <2>2 DEF UpdateAddrs, NewState
    <3> QED
      BY <3>1, <3>2 DEF OnServer
  <2> QED
    BY <1>2, <2>1, <2>2 DEF UpdateAddrs
<1>3. CASE UpdateQuery
  <2>1. \/ valid = {} /\ Patience + Anew <= d
        \/ valid # {} /\ Query + 2 * Period <= d + age
    BY <1>3 DEF UpdateQuery, OnServer
  <2>2. CASE state' = state /\ age' = age
    BY <1>3, <2>1, <2>2 DEF UpdateQuery, OnServer
  <2>3. CASE state' = "ERROR" /\ age' = 0 /\ (Left = {} \/ age > QueryTimeout) /\ valid \ Left = {}
    <3>1. valid = {}
      <4>1. Left \subseteq valid
        BY DEF Left
      <4> QED
        BY <1>3, <2>3, <4>1 DEF QueryGoesOn, UpdateQuery
    <3> QED
      BY <2>1, <2>3, <3>1 DEF OnServer
  <2>4. ASSUME NEW best \in valid \ Left, chosen' = best, state' = "HEARTBEAT", age' = 0,
               quiet'[best] = HeartbeatEvery + 1
        PROVE  OnServer(d)'
    <3>1. Query + 2 * Period <= d + age /\ best # NoServer
      <4>1. best \in Masters
        BY <2>4
      <4>2. best # NoServer
        BY <4>1, RegistrationAssumption DEF Masters, NoServer
      <4> QED
        BY <2>1, <2>4, <4>2
    <3>2. 2 * Period <= d
      BY <1>3, <3>1 DEF UpdateQuery
    <3>3. age' + Beat <= Patience + quiet'[best] /\ Beat + 2 * Period <= d + quiet'[best]
      BY <2>4, <3>2
    <3> QED
      BY <2>4, <3>1, <3>3 DEF OnServer
  <2> DEFINE asked == [m \in Masters |-> IF m \in {n \in Left : quiet[n] > Freq} THEN 0 ELSE quiet[m]]
  <2>5. \/ state' = state /\ age' = age
        \/ /\ state' = "ERROR" /\ age' = 0 /\ (Left = {} \/ age > QueryTimeout)
           /\ valid \ Left = {}
        \/ \E best \in valid \ Left :
             /\ chosen' = best /\ state' = "HEARTBEAT" /\ age' = 0
             /\ quiet' = [asked EXCEPT ![best] = HeartbeatEvery + 1]
    BY <1>3 DEF UpdateQuery, NewState
  <2>6. \A best \in Masters : [asked EXCEPT ![best] = HeartbeatEvery + 1][best] = HeartbeatEvery + 1
    OBVIOUS
  <2> HIDE DEF asked
  <2> QED
    BY <2>2, <2>3, <2>4, <2>5, <2>6
<1>4. CASE UpdateHeartbeatAstray
  <2>1. Patience + Anew <= d + age /\ state = "HEARTBEAT"
    BY <1>4 DEF UpdateHeartbeatAstray, OnServer
  <2>2. (state' = "START" /\ age > GiveUp) \/ (state' = state /\ age' = age)
    BY <1>4 DEF UpdateHeartbeatAstray, GiveUpInTime, NewState
  <2> QED
    BY <2>1, <2>2 DEF OnServer
<1>5. CASE UpdateRegistered
  <2>1. Pause + Patience + Anew <= d + age /\ state = "REGISTERED"
    BY <1>5 DEF UpdateRegistered, OnServer
  <2>2. age <= Pause
    BY <2>1 DEF ListInv, RegisteredShortly
  <2>3. state' \in {"START", "HEARTBEAT"} /\ age' = 0
    BY <1>5 DEF UpdateRegistered, NewState
  <2> QED
    BY <2>1, <2>2, <2>3 DEF OnServer
<1>6. CASE UpdateError
  <2>1. Patience + Anew <= d + age /\ age <= Patience
    BY <1>6 DEF UpdateError, OnServer
  <2>2. state' = "START"
    BY <1>6 DEF UpdateError, NewState
  <2> QED
    BY <2>1, <2>2 DEF OnServer
<1> QED
  BY <1>1, <1>2, <1>3, <1>4, <1>5, <1>6

(* A heartbeat is sent before it, or the server begins anew. *)
LEMMA HeartbeatKeepsWay ==
  ASSUME TimesFit, IInv, Capped, NEW d \in Nat, Within(d), UpdateHeartbeat
  PROVE  Within(d)'
<1>1. PICK c \in Masters : c = chosen /\ chosen' = c /\ state = "HEARTBEAT" /\ c # NoServer
  BY UpdateHeartbeatNet DEF UpdateHeartbeat
<1>2. \A m \in Masters : /\ net[Heartbeat(m)] \in Nat /\ net'[Heartbeat(m)] \in Nat
                          /\ net'[Heartbeat(m)] >= net[Heartbeat(m)]
  <2>1. \A m \in Masters : net[Heartbeat(m)] \in Nat
    BY Kinds DEF IInv, TypeOK
  <2>2. \/ net' = net
        \/ /\ net'[Heartbeat(c)] = net[Heartbeat(c)] + 1
           /\ \A m \in Masters : m # c => net'[Heartbeat(m)] = net[Heartbeat(m)]
    BY <1>1, UpdateHeartbeatNet
  <2> QED
    BY <2>1, <2>2
<1>3. SameAnswers /\ buildAge' = buildAge /\ open' = open
  BY BeatKeeps
<1>4. checking' = checking
  BY DEF UpdateHeartbeat, masterVars
<1>5. CASE OnMaster(d)
  <2>1. PICK m \in Masters :
          \/ net[Heartbeat(m)] > 0 /\ 2 * Period <= d
          \/ \E k \in 0 .. Tries : Trying(m, k, d)
          \/ Busy(m) /\ buildAge[m] <= BuildEvery /\ Answering(m)
    BY <1>5 DEF OnMaster
  <2>2. net[Heartbeat(m)] > 0 => net'[Heartbeat(m)] > 0
    BY <1>2
  <2>3. \A k \in 0 .. Tries : Trying(m, k, d) => Trying(m, k, d)'
    BY <1>3, <1>4 DEF Trying, Reaches
  <2>4. (Busy(m) => Busy(m)') /\ (Answering(m) => Answering(m)')
    BY <1>3, <1>4 DEF Busy, Answering, SameAnswers
  <2>5. OnMaster(d)'
    BY <1>3, <2>1, <2>2, <2>3, <2>4 DEF OnMaster
  <2> QED
    BY <2>5 DEF Within
<1>6. CASE OnServer(d)
  <2> USE TimesAre, ServerTyped
  <2>1. (state' = "START" /\ age > GiveUp) \/ (state' = state /\ age' = age /\ age <= GiveUp)
    BY DEF UpdateHeartbeat, GiveUpInTime, NewState
  <2>2. CASE Patience + Anew <= d + age
    BY <1>1, <2>1, <2>2 DEF Within, OnServer
  <2>3. CASE age + Beat <= Patience + quiet[c] /\ Beat + 2 * Period <= d + quiet[c]
    <3>1. CASE quiet[c] > HeartbeatEvery /\ net'[Heartbeat(c)] = net[Heartbeat(c)] + 1
      <4>1. 2 * Period <= d
        BY <1>1, <2>3
      <4>2. net'[Heartbeat(c)] > 0
        BY <1>2, <3>1
      <4> QED
        BY <4>1, <4>2 DEF Within, OnMaster
    <3>2. CASE quiet[c] <= HeartbeatEvery /\ quiet' = quiet
      BY <1>1, <2>1, <2>3, <3>2 DEF Within, OnServer
    <3> QED
      BY <1>1, <3>1, <3>2, UpdateHeartbeatNet
  <2> QED
    BY <1>1, <1>6, <2>2, <2>3 DEF OnServer
<1> QED
  BY <1>5, <1>6 DEF Within

(* The server's way is the same where it does nothing. *)
LEMMA SameWay ==
  ASSUME NEW d, OnServer(d),
         UNCHANGED <<state, age, chosen, valid, quiet, refreshing, resolved, lookupAge>>
  PROVE  OnServer(d)'
BY DEF OnServer

(* The end of a refresh that has found the masters. *)
LEMMA LookupKeepsWay ==
  ASSUME TimesFit, IInv, Capped, NEW d \in Nat, OnServer(d), LookupDone({})
  PROVE  OnServer(d)'
<1>1. /\ refreshing /\ ~refreshing' /\ resolved' = Masters
      /\ UNCHANGED <<state, age, chosen, valid, quiet, lookupAge>>
  BY DEF LookupDone, registerVars
<1>2. Masters # {}
  <2>1. NumMasters \in Nat \ {0}
    BY RegistrationAssumption
  <2>2. 0 \in Masters
    BY <2>1 DEF Masters
  <2> QED
    BY <2>2
<1>3. CASE state = "UPDATE_ADDRS"
  <2>1. Anew <= d + lookupAge /\ lookupAge \in Nat /\ lookupAge <= MaxLookup
    BY <1>1, <1>3 DEF OnServer, IInv, TypeOK, Capped
  <2>2. Query + 2 * Period <= d
    BY <2>1, TimesAre
  <2> QED
    BY <1>1, <1>2, <1>3, <2>2 DEF OnServer
<1>4. CASE state # "UPDATE_ADDRS"
  BY <1>1, <1>4 DEF OnServer
<1> QED
  BY <1>3, <1>4

(* An address that can be reached is that of one of two tries.             *)
LEMMA OneOfTwo ==
  ASSUME IInv, open # {}, NEW k \in Nat
  PROVE  Checked(k + 1) \in open \/ Checked(k + 2) \in open
<1>1. open \subseteq {"main", "alt"}
  BY DEF IInv, TypeOK, Addrs
<1>2. (k + 1) % 2 = 1 \/ (k + 2) % 2 = 1
  OBVIOUS
<1>3. (k + 1) % 2 # 1 \/ (k + 2) % 2 # 1
  OBVIOUS
<1> QED
  BY <1>1, <1>2, <1>3 DEF Checked

(* A heartbeat that arrives starts a check. *)
LEMMA CheckserverKeepsWay ==
  ASSUME TimesFit, IInv, Capped, open # {}, NEW d \in Nat, Within(d),
         NEW c \in Masters, StartCheck(c)
  PROVE  Within(d)'
<1>1. UNCHANGED <<state, age, chosen, valid, quiet, refreshing, resolved, lookupAge>>
  BY DEF StartCheck, registerVars, lookupVars
<1>2. CASE OnServer(d)
  BY <1>1, <1>2, SameWay DEF Within
<1>3. SameAnswers /\ buildAge' = buildAge /\ open' = open
  BY BeatKeeps
<1>4. checking \in [Masters -> [0 .. Tries -> Nat]] /\ buildAge \in [Masters -> Nat]
  BY DEF IInv, TypeOK
<1>5. checking' = [checking EXCEPT ![c] = [checking[c] EXCEPT ![0] = checking[c][0] + 1]]
  BY DEF StartCheck
<1>6. \A m \in Masters, k \in 0 .. Tries :
        /\ checking'[m][k] \in Nat /\ checking[m][k] \in Nat
        /\ checking'[m][k] >= checking[m][k]
  <2>0. 0 \in 0 .. Tries
    BY TimesAre
  <2>1. \A m \in Masters, k \in 0 .. Tries : checking[m][k] \in Nat
    BY <1>4
  <2>2. \A m \in Masters, k \in 0 .. Tries :
          checking'[m][k] = IF m = c /\ k = 0 THEN checking[c][0] + 1 ELSE checking[m][k]
    BY <1>4, <1>5
  <2> QED
    BY <2>0, <2>1, <2>2
<1>7. 0 \in 0 .. Tries /\ checking'[c][0] > 0
  <2>0. 0 \in 0 .. Tries
    BY TimesAre
  <2>1. checking'[c][0] = checking[c][0] + 1 /\ checking[c][0] \in Nat
    BY <1>4, <1>5, <2>0
  <2> QED
    BY <2>0, <2>1
<1>8. CASE OnMaster(d)
  <2>1. PICK m \in Masters :
          \/ net[Heartbeat(m)] > 0 /\ 2 * Period <= d
          \/ \E k \in 0 .. Tries : Trying(m, k, d)
          \/ Busy(m) /\ buildAge[m] <= BuildEvery /\ Answering(m)
    BY <1>8 DEF OnMaster
  <2>2. CASE m # c /\ net[Heartbeat(m)] > 0 /\ 2 * Period <= d
    <3>1. net'[Heartbeat(m)] > 0
      BY <2>2, StartCheckNet
    <3> QED
      BY <2>2, <3>1 DEF Within, OnMaster
  <2>3. CASE m = c /\ 2 * Period <= d
    <3>1. Trying(m, 0, d)'
      <4>1. Checked(1) \in open \/ Checked(2) \in open
        BY OneOfTwo, 0 + 1 = 1, 0 + 2 = 2
      <4>2. Reaches(0 + 1)' \/ Reaches(0 + 2)'
        BY <1>3, <4>1, TimesAre, 0 + 1 = 1, 0 + 2 = 2 DEF Reaches
      <4>3. 2 * Period <= d + buildAge[m] /\ Period <= d + buildAge[m]
        <5>1. Period \in Nat /\ buildAge[m] \in Nat
          BY <1>4, TimesAre
        <5> QED
          BY <2>3, <5>1
      <4> QED
        BY <1>3, <1>7, <2>3, <4>2, <4>3 DEF Trying
    <3> QED
      BY <1>7, <3>1 DEF Within, OnMaster
  <2>4. ASSUME NEW k \in 0 .. Tries, Trying(m, k, d)
        PROVE  Within(d)'
    <3>1. Trying(m, k, d)'
      BY <1>3, <1>6, <2>4 DEF Trying, Reaches
    <3> QED
      BY <3>1 DEF Within, OnMaster
  <2>5. CASE Busy(m) /\ buildAge[m] <= BuildEvery /\ Answering(m)
    <3>1. Busy(m)'
      BY <1>6, <2>5 DEF Busy
    <3>2. Answering(m)'
      BY <1>3, <2>5 DEF Answering, SameAnswers
    <3> QED
      BY <1>3, <2>5, <3>1, <3>2 DEF Within, OnMaster
  <2> QED
    BY <2>1, <2>2, <2>3, <2>4, <2>5
<1> QED
  BY <1>2, <1>8 DEF Within

(* A check that gets through is answered. *)
LEMMA GotCheckKeepsWay ==
  ASSUME IInv, IInv', NEW d \in Nat, Within(d),
         NEW c \in Masters, NEW j \in 1 .. Tries, GotCheck(c, j)
  PROVE  Within(d)'
<1>1. /\ UNCHANGED <<state, age, chosen, valid, quiet, refreshing, resolved, lookupAge>>
      /\ checking' = checking /\ buildAge' = buildAge /\ open' = open
  BY DEF GotCheck, registerVars, lookupVars, masterVars
<1>2. CASE OnServer(d)
  BY <1>1, <1>2, SameWay DEF Within
<1>3. SameBeats
  BY GotCheckNet, Kinds DEF Only, SameBeats
<1>4. \A x \in Messages : net[x] \in Nat /\ net'[x] \in Nat
  BY DEF IInv, TypeOK
<1>5. \A m \in Masters, a \in Addrs : net[FwResponse(m, a)] > 0 => net'[FwResponse(m, a)] > 0
  <2>1. \A m \in Masters, a \in Addrs :
          \/ net'[FwResponse(m, a)] = net[FwResponse(m, a)]
          \/ net'[FwResponse(m, a)] = net[FwResponse(m, a)] + 1
    BY GotCheckNet
  <2>2. \A m \in Masters, a \in Addrs : net[FwResponse(m, a)] \in Nat
    BY <1>4, Kinds
  <2> QED
    BY <2>1, <2>2
<1>6. Checked(j) \in open => net'[FwResponse(c, Checked(j))] > 0
  <2>1. net[FwResponse(c, Checked(j))] \in Nat
    BY <1>4, Kinds, CheckedAddr
  <2> QED
    BY <2>1, GotCheckNet
<1>7. \A m \in Masters : Answering(m) => Answering(m)'
  <2> SUFFICES ASSUME NEW m \in Masters, Answering(m)
               PROVE  Answering(m)'
    OBVIOUS
  <2>1. CASE \E a \in Addrs : net[FwResponse(m, a)] > 0
    BY <1>5, <2>1 DEF Answering
  <2>2. ASSUME NEW k \in 1 .. Tries, net[FwCheck(m, k)] > 0, Checked(k) \in open
        PROVE  Answering(m)'
    <3>1. CASE m = c /\ k = j
      BY <1>6, <2>2, <3>1, CheckedAddr DEF Answering
    <3>2. CASE m # c \/ k # j
      <4>1. net'[FwCheck(m, k)] = net[FwCheck(m, k)]
        BY <3>2, GotCheckNet
      <4> QED
        BY <1>1, <2>2, <4>1 DEF Answering
    <3> QED
      BY <3>1, <3>2
  <2> QED
    BY <2>1, <2>2 DEF Answering
<1>8. CASE OnMaster(d)
  <2>1. \A m \in Masters, k \in 0 .. Tries : Trying(m, k, d) => Trying(m, k, d)'
    BY <1>1 DEF Trying, Reaches
  <2>2. \A m \in Masters : Busy(m) => Busy(m)'
    BY <1>1 DEF Busy
  <2>3. OnMaster(d)'
    BY <1>1, <1>3, <1>7, <1>8, <2>1, <2>2 DEF OnMaster, SameBeats
  <2> QED
    BY <2>3 DEF Within
<1> QED
  BY <1>2, <1>8 DEF Within

(* An answer is dropped only where no check goes on. *)
LEMMA IgnoreKeepsWay ==
  ASSUME IInv, NEW d \in Nat, Within(d),
         NEW c \in Masters, NEW b \in Addrs, IgnoreServer(c, b)
  PROVE  Within(d)'
<1>1. /\ UNCHANGED <<state, age, chosen, valid, quiet, refreshing, resolved, lookupAge>>
      /\ checking' = checking /\ buildAge' = buildAge /\ open' = open
      /\ \A k \in 0 .. Tries : checking[c][k] = 0
  BY DEF IgnoreServer, registerVars, lookupVars, masterVars
<1>2. CASE OnServer(d)
  BY <1>1, <1>2, SameWay DEF Within
<1>3. /\ SameBeats
      /\ \A m \in Masters, k \in 1 .. Tries : net'[FwCheck(m, k)] = net[FwCheck(m, k)]
  BY IgnoreServerNet, Kinds DEF Only, SameBeats
<1>4. ~Busy(c)
  BY <1>1 DEF Busy
<1>5. \A m \in Masters : m # c /\ Answering(m) => Answering(m)'
  BY <1>1, <1>3, IgnoreServerNet DEF Answering
<1>6. CASE OnMaster(d)
  <2>1. \A m \in Masters, k \in 0 .. Tries : Trying(m, k, d) => Trying(m, k, d)'
    BY <1>1 DEF Trying, Reaches
  <2>2. \A m \in Masters : Busy(m) => Busy(m)'
    BY <1>1 DEF Busy
  <2>3. OnMaster(d)'
    BY <1>1, <1>3, <1>4, <1>5, <1>6, <2>1, <2>2 DEF OnMaster, SameBeats
  <2> QED
    BY <2>3 DEF Within
<1> QED
  BY <1>2, <1>6 DEF Within

(* A try that gets through is made in time, or another comes in time.      *)
LEMMA CycleKeepsWay ==
  ASSUME TimesFit, IInv, IInv', Capped, NEW d \in Nat, Within(d), NEW c \in Masters, Cycle(c)
  PROVE  Within(d)'
<1>1. /\ UNCHANGED <<state, age, chosen, valid, quiet, refreshing, resolved, lookupAge>>
      /\ open' = open
  BY DEF Cycle, registerVars, lookupVars
<1>2. CASE OnServer(d)
  BY <1>1, <1>2, SameWay DEF Within
<1>3. /\ SameBeats
      /\ \A m \in Masters, a \in Addrs : net'[FwResponse(m, a)] = net[FwResponse(m, a)]
  BY CycleNet, Kinds DEF Only, SameBeats
<1>4. /\ buildAge'[c] = 0 /\ buildAge[c] = Period
      /\ \A m \in Masters : m # c => buildAge'[m] = buildAge[m]
  <2>1. buildAge \in [Masters -> Nat] /\ buildAge[c] <= Period
    BY DEF IInv, TypeOK, Capped
  <2>2. buildAge' = [buildAge EXCEPT ![c] = 0] /\ buildAge[c] > BuildEvery
    BY CycleNet
  <2> QED
    BY <2>1, <2>2, TimesAre
<1>5. CASE OnMaster(d)
  <2>1. PICK m \in Masters :
          \/ net[Heartbeat(m)] > 0 /\ 2 * Period <= d
          \/ \E k \in 0 .. Tries : Trying(m, k, d)
          \/ Busy(m) /\ buildAge[m] <= BuildEvery /\ Answering(m)
    BY <1>5 DEF OnMaster
  <2>2. CASE net[Heartbeat(m)] > 0 /\ 2 * Period <= d
    BY <1>3, <2>2 DEF Within, OnMaster, SameBeats
  <2>3. CASE m # c
    <3>1. checking'[m] = checking[m] /\ buildAge'[m] = buildAge[m]
      BY <1>4, <2>3, CycleNet
    <3>2. \A k \in 0 .. Tries : Trying(m, k, d) => Trying(m, k, d)'
      BY <1>1, <3>1 DEF Trying, Reaches
    <3>3. Busy(m) => Busy(m)'
      BY <3>1 DEF Busy
    <3>4. Answering(m) => Answering(m)'
      BY <1>1, <1>3, <2>3, CycleNet DEF Answering
    <3> QED
      BY <2>1, <2>2, <3>1, <3>2, <3>3, <3>4 DEF Within, OnMaster
  <2>4. ASSUME NEW k \in 0 .. Tries, Trying(m, k, d), m = c
        PROVE  Within(d)'
    <3>0. k + 1 \in 0 .. Tries /\ k + 1 \in 1 .. Tries /\ k + 1 # 0 /\ (k + 1) - 1 = k
      BY <2>4, TimesAre DEF Trying, Reaches
    <3>1. checking'[c][k + 1] = checking[c][k] /\ checking[c][k] > 0
      BY <2>4, <3>0, CycleNet DEF Trying
    <3>2. CASE Reaches(k + 1)
      <4>1. net'[FwCheck(c, k + 1)] > 0
        <5>1. net'[FwCheck(c, k + 1)] = net[FwCheck(c, k + 1)] + checking[c][k]
          BY <3>0, CycleNet
        <5>2. net[FwCheck(c, k + 1)] \in Nat
          BY <3>0, Kinds DEF IInv, TypeOK
        <5>3. checking[c][k] \in Nat
          BY DEF IInv, TypeOK
        <5> QED
          BY <3>1, <5>1, <5>2, <5>3
      <4>2. Busy(c)'
        BY <3>0, <3>1 DEF Busy
      <4>3. Answering(c)'
        BY <1>1, <3>0, <3>2, <4>1 DEF Answering, Reaches
      <4> QED
        BY <1>4, <4>2, <4>3, TimesAre DEF Within, OnMaster
    <3>3. CASE ~Reaches(k + 1)
      <4>1. Reaches(k + 2) /\ 2 * Period <= d + Period
        BY <1>4, <2>4, <3>3 DEF Trying
      <4>2. Trying(c, k + 1, d)'
        BY <1>1, <1>4, <3>1, <4>1, TimesAre, (k + 1) + 1 = k + 2 DEF Trying, Reaches
      <4> QED
        BY <3>0, <4>2 DEF Within, OnMaster
    <3> QED
      BY <3>2, <3>3
  <2>5. CASE m = c /\ buildAge[m] <= BuildEvery
    BY <1>4, <2>5, TimesAre
  <2> QED
    BY <2>1, <2>2, <2>3, <2>4, <2>5
<1> QED
  BY <1>2, <1>5 DEF Within

(* Time passes and the deadline comes nearer. *)
LEMMA TickKeepsWay ==
  ASSUME TimesFit, IInv, ListInv, Capped, NEW d \in Nat, Within(d), Tick
  PROVE  d > 0 /\ Within(d - 1)'
<1> USE TimesAre, ServerTyped
<1>1. /\ state' = state /\ chosen' = chosen /\ valid' = valid
      /\ refreshing' = refreshing /\ resolved' = resolved
      /\ checking' = checking /\ open' = open /\ net' = net
      /\ age' = Later(age, GiveUp)
      /\ lookupAge' = (IF refreshing THEN lookupAge + 1 ELSE 0)
      /\ quiet' = [m \in Masters |-> Later(quiet[m], HeartbeatEvery)]
      /\ buildAge' = [m \in Masters |-> buildAge[m] + 1]
      /\ \A m \in Masters : buildAge[m] <= BuildEvery
      /\ refreshing => lookupAge < MaxLookup
      /\ \A x \in Messages : net[x] = 0
  BY DEF Tick
<1>2. Settled
  BY DEF Tick
<1>3. age <= GiveUp => age' = age + 1
  BY <1>1 DEF Later
<1>4. CASE OnServer(d)
  <2>1. CASE state = "UPDATE_ADDRS"
    <3>1. refreshing /\ Anew <= d + lookupAge
      BY <1>2, <1>4, <2>1 DEF Settled, OnServer
    <3>2. d > 0 /\ Anew <= (d - 1) + lookupAge'
      BY <1>1, <3>1
    <3> QED
      BY <1>1, <2>1, <3>1, <3>2 DEF Within, OnServer
  <2>2. CASE state = "QUERY_COUNT"
    <3>1. age <= QueryTimeout /\ valid # {}
      BY <1>2, <2>2 DEF Settled, Left
    <3>2. Query + 2 * Period <= d + age
      BY <1>4, <2>2, <3>1 DEF OnServer
    <3>3. d > 0 /\ Query + 2 * Period <= (d - 1) + age'
      BY <1>3, <3>1, <3>2
    <3> QED
      BY <1>1, <2>2, <3>1, <3>3 DEF Within, OnServer
  <2>3. CASE state = "HEARTBEAT"
    <3>1. age <= GiveUp /\ (chosen # NoServer => quiet[chosen] <= HeartbeatEvery)
      BY <1>2, <2>3 DEF Settled
    <3>2. CASE Patience + Anew <= d + age
      <4>1. d > 0 /\ Patience + Anew <= (d - 1) + age'
        BY <1>3, <3>1, <3>2
      <4> QED
        BY <1>1, <2>3, <4>1 DEF Within, OnServer
    <3>3. CASE /\ chosen # NoServer /\ age + Beat <= Patience + quiet[chosen]
               /\ Beat + 2 * Period <= d + quiet[chosen]
      <4>0. chosen \in Masters /\ quiet[chosen] \in Nat /\ quiet[chosen] <= HeartbeatEvery
        <5>1. chosen \in Masters /\ quiet \in [Masters -> Nat]
          BY <3>3
        <5> QED
          BY <3>1, <3>3, <5>1
      <4>1. quiet'[chosen] = quiet[chosen] + 1
        <5>1. quiet'[chosen] = Later(quiet[chosen], HeartbeatEvery)
          BY <1>1, <4>0
        <5> QED
          BY <4>0, <5>1 DEF Later
      <4>2. /\ d > 0 /\ age' + Beat <= Patience + quiet'[chosen]
            /\ Beat + 2 * Period <= (d - 1) + quiet'[chosen]
        <5>1. age' = age + 1 /\ age \in Nat
          BY <1>3, <3>1
        <5> QED
          BY <3>3, <4>0, <4>1, <5>1
      <4> QED
        BY <1>1, <2>3, <3>3, <4>2 DEF Within, OnServer
    <3> QED
      BY <1>4, <2>3, <3>2, <3>3 DEF OnServer
  <2>4. CASE state = "REGISTERED"
    <3>1. age <= Freq /\ Pause + Patience + Anew <= d + age
      BY <1>2, <1>4, <2>4 DEF Settled, OnServer
    <3>2. d > 0 /\ Pause + Patience + Anew <= (d - 1) + age'
      BY <1>3, <3>1
    <3> QED
      BY <1>1, <2>4, <3>2 DEF Within, OnServer
  <2>5. CASE state = "ERROR"
    <3>1. age <= GiveUp /\ Patience + Anew <= d + age
      BY <1>2, <1>4, <2>5 DEF Settled, OnServer
    <3>2. d > 0 /\ Patience + Anew <= (d - 1) + age'
      BY <1>3, <3>1
    <3> QED
      BY <1>1, <2>5, <3>2 DEF Within, OnServer
  <2> QED
    BY <1>2, <2>1, <2>2, <2>3, <2>4, <2>5 DEF Settled
<1>5. CASE OnMaster(d)
  <2>1. PICK m \in Masters :
          \/ net[Heartbeat(m)] > 0 /\ 2 * Period <= d
          \/ \E k \in 0 .. Tries : Trying(m, k, d)
          \/ Busy(m) /\ buildAge[m] <= BuildEvery /\ Answering(m)
    BY <1>5 DEF OnMaster
  <2>2. net[Heartbeat(m)] = 0 /\ ~Answering(m)
    BY <1>1, Kinds DEF Answering
  <2>3. PICK k \in 0 .. Tries : Trying(m, k, d)
    BY <2>1, <2>2
  <2>4. buildAge'[m] = buildAge[m] + 1 /\ buildAge[m] <= BuildEvery /\ buildAge[m] \in Nat
    BY <1>1
  <2>5. d > 0
    BY <2>3, <2>4 DEF Trying
  <2>6. Trying(m, k, d - 1)'
    <3>1. (Reaches(k + 1)' <=> Reaches(k + 1)) /\ (Reaches(k + 2)' <=> Reaches(k + 2))
      BY <1>1 DEF Reaches
    <3> QED
      BY <1>1, <2>3, <2>4, <3>1 DEF Trying
  <2> QED
    BY <2>5, <2>6 DEF Within, OnMaster
<1> QED
  BY <1>4, <1>5 DEF Within

-----------------------------------------------------------------------------
(* After the fault: the query succeeds                                     *)

(* Steps elsewhere change nothing of the query. *)
LEMMA SameQuery ==
  ASSUME QueryGoesOn, SameCounts, UNCHANGED <<state, age, valid, got, quiet>>, valid \subseteq Masters
  PROVE  QueryGoesOn'
<1>1. \A m \in Masters : CountDue(m) => CountDue(m)'
  BY DEF CountDue, SameCounts
<1> QED
  BY <1>1 DEF QueryGoesOn, Left

(* The masters are asked. *)
LEMMA UpdateKeepsQuery ==
  ASSUME TimesFit, IInv, IInv', Capped, QueryGoesOn, UpdateAddrs \/ UpdateQuery
  PROVE  QueryGoesOn'
<1>0. valid \subseteq Masters /\ resolved \subseteq Masters /\ age \in Nat
      /\ quiet \in [Masters -> Nat]
  BY DEF IInv, TypeOK
<1>1. CASE UpdateAddrs
  <2>1. CASE state' = "UPDATE_ADDRS"
    BY <2>1 DEF QueryGoesOn
  <2>2. CASE /\ age' = 0 /\ valid' = resolved
             /\ quiet' = [m \in Masters |-> IF m \in resolved THEN HeartbeatEvery + 1 ELSE quiet[m]]
    <3>1. \A m \in resolved : age' + Pause <= QueryTimeout + quiet'[m]
      BY <1>0, <2>2, TimesAre
    <3>2. age' <= QueryTimeout
      BY <2>2, TimesAre
    <3> QED
      BY <2>2, <3>1, <3>2 DEF QueryGoesOn
  <2> QED
    BY <1>1, <2>1, <2>2 DEF UpdateAddrs, NewState
<1>2. CASE UpdateQuery
  <2>1. CASE state' # "QUERY_COUNT"
    BY <2>1 DEF QueryGoesOn
  <2>2. CASE state' = "QUERY_COUNT"
    <3>1. valid' = valid /\ got' = got /\ age' = age /\ state = "QUERY_COUNT"
      BY <1>2, <2>2 DEF UpdateQuery, NewState
    <3>2. Left' = Left /\ Left \subseteq valid
      BY <3>1 DEF Left
    <3>3. CASE valid = {} \/ valid \ Left # {}
      BY <3>1, <3>2, <3>3 DEF QueryGoesOn
    <3>4. CASE valid # {} /\ valid \ Left = {}
      <4>1. age <= QueryTimeout
        BY <3>1, <3>4 DEF QueryGoesOn
      <4>2. PICK m \in valid : CountDue(m) \/ age + Pause <= QueryTimeout + quiet[m]
        BY <3>1, <3>4 DEF QueryGoesOn
      <4>3. m \in Masters /\ m \in Left
        BY <1>0, <3>4
      <4>4. CountDue(m) => CountDue(m)'
        <5>1. /\ net[GetCount(m)] \in Nat /\ net'[GetCount(m)] \in Nat
              /\ net'[GetCount(m)] >= net[GetCount(m)]
          BY <1>2, <4>3, UpdateQueryNet, Kinds DEF IInv, TypeOK
        <5>2. \A n \in Counts : net'[Count(m, n)] = net[Count(m, n)]
          BY <1>2, <4>3, UpdateQueryNet, Kinds DEF Only
        <5> QED
          BY <5>1, <5>2 DEF CountDue
      <4>5. CountDue(m)' \/ quiet'[m] = quiet[m]
        BY <1>2, <2>2, <4>3, UpdateQueryNet DEF CountDue
      <4> QED
        BY <3>1, <4>1, <4>2, <4>4, <4>5 DEF QueryGoesOn
    <3> QED
      BY <3>3, <3>4
  <2> QED
    BY <2>1, <2>2
<1> QED
  BY <1>1, <1>2

(* They answer with their counts, which are kept. *)
LEMMA CountKeepsQuery ==
  ASSUME TimesFit, IInv, IInv', Capped, QueryGoesOn, NEW c \in Masters,
         ServeCount(c) \/ \E n \in Counts : GotCount(c, n)
  PROVE  QueryGoesOn'
<1>0. valid \subseteq Masters /\ got \in [Masters -> Nat \cup {Unknown}]
  BY DEF IInv, TypeOK
<1>1. CASE ServeCount(c)
  <2>1. UNCHANGED <<state, age, valid, got, quiet>>
    BY <1>1 DEF ServeCount, registerVars
  <2>2. CountDue(c)'
    <3>1. NumServers(c) \in Counts
      <4>1. others[c] \in Nat /\ NumServers(c) <= MaxServers
        BY DEF IInv, TypeOK, Capped
      <4>2. Cardinality({a \in Addrs : listed[c][a] # NotListed}) \in Nat
        BY EntriesFinite
      <4>3. NumServers(c) \in Nat
        BY <4>1, <4>2 DEF NumServers
      <4> QED
        BY <4>1, <4>3, RegistrationAssumption DEF Counts
    <3>2. net'[Count(c, NumServers(c))] > 0
      BY <1>1, <3>1, ServeCountNet
    <3> QED
      BY <3>1, <3>2 DEF CountDue
  <2>3. \A m \in Masters : m # c /\ CountDue(m) => CountDue(m)'
    <3>1. \A m \in Masters, n \in Counts :
            /\ net[Count(m, n)] \in Nat /\ net'[Count(m, n)] \in Nat
            /\ net'[Count(m, n)] >= net[Count(m, n)]
      BY <1>1, ServeCountNet, Kinds DEF IInv, TypeOK
    <3>2. \A m \in Masters : m # c => net'[GetCount(m)] = net[GetCount(m)]
      BY <1>1, ServeCountNet
    <3> QED
      BY <3>1, <3>2 DEF CountDue
  <2>4. \A m \in valid : CountDue(m) => CountDue(m)'
    BY <1>0, <2>2, <2>3
  <2> QED
    BY <1>0, <2>1, <2>4 DEF QueryGoesOn, Left
<1>2. ASSUME NEW n \in Counts, GotCount(c, n)
      PROVE  QueryGoesOn'
  <2>1. /\ UNCHANGED <<state, age, valid, quiet>>
        /\ got' = [got EXCEPT ![c] = n]
    BY <1>2 DEF GotCount
  <2>2. n \in Nat /\ n # Unknown
    BY RegistrationAssumption DEF Counts, Unknown
  <2>3. CASE c \in valid
    <3>1. c \notin Left'
      BY <1>0, <2>1, <2>2 DEF Left
    <3> QED
      BY <2>1, <2>3, <3>1 DEF QueryGoesOn
  <2>4. CASE c \notin valid
    <3>1. Left' = Left
      BY <1>0, <2>1, <2>4 DEF Left
    <3>2. \A m \in Masters : m # c /\ CountDue(m) => CountDue(m)'
      <4>1. \A m \in Masters : net'[GetCount(m)] = net[GetCount(m)]
        BY <1>2, GotNet, Kinds DEF Only
      <4>2. \A m \in Masters, j \in Counts : m # c => net'[Count(m, j)] = net[Count(m, j)]
        BY <1>2, GotNet
      <4> QED
        BY <4>1, <4>2 DEF CountDue
    <3>3. \A m \in valid : CountDue(m) => CountDue(m)'
      BY <1>0, <2>4, <3>2
    <3> QED
      BY <2>1, <3>1, <3>3 DEF QueryGoesOn
  <2> QED
    BY <2>3, <2>4
<1> QED
  BY <1>1, <1>2

(* While nothing comes there is time for another query. *)
LEMMA TickKeepsQuery ==
  ASSUME TimesFit, IInv, Capped, QueryGoesOn, Tick
  PROVE  QueryGoesOn'
<1>1. /\ state' = state /\ valid' = valid /\ got' = got
      /\ age' = Later(age, GiveUp)
      /\ quiet' = [m \in Masters |-> Later(quiet[m], HeartbeatEvery)]
      /\ \A x \in Messages : net[x] = 0
  BY DEF Tick
<1>2. Left' = Left
  BY <1>1 DEF Left
<1>3. CASE state # "QUERY_COUNT" \/ valid = {} \/ valid \ Left # {}
  BY <1>1, <1>2, <1>3 DEF QueryGoesOn
<1>4. CASE state = "QUERY_COUNT" /\ valid # {} /\ valid \ Left = {}
  <2>1. valid \subseteq Masters /\ quiet \in [Masters -> Nat] /\ age \in Nat
    BY DEF IInv, TypeOK
  <2>2. age <= QueryTimeout
    BY <1>4 DEF QueryGoesOn
  <2>3. PICK m \in valid : CountDue(m) \/ age + Pause <= QueryTimeout + quiet[m]
    BY <1>4 DEF QueryGoesOn
  <2>4. ~CountDue(m)
    BY <1>1, <2>1, Kinds DEF CountDue
  <2>5. quiet[m] <= Freq /\ quiet[m] \in Nat /\ m \in Masters
    BY <1>4, <2>1 DEF Tick, Settled
  <2>6. age' = age + 1
    BY <1>1, <2>1, <2>2, TimesAre DEF Later
  <2>7. quiet'[m] = quiet[m] + 1
    BY <1>1, <2>5, TimesAre DEF Later
  <2>8. age + Pause <= QueryTimeout + quiet[m]
    BY <2>3, <2>4
  <2>9. age' <= QueryTimeout /\ age' + Pause <= QueryTimeout + quiet'[m]
    BY <2>1, <2>5, <2>6, <2>7, <2>8, TimesAre
  <2> QED
    BY <1>1, <2>9 DEF QueryGoesOn
<1> QED
  BY <1>3, <1>4

(* The steps without a fault, but those of heartbeats and time.            *)
Plain ==
  \/ UpdateStart \/ UpdateAddrs \/ UpdateQuery \/ UpdateHeartbeatAstray
  \/ UpdateRegistered \/ UpdateError \/ UNCHANGED vars \/ LookupDone({})
  \/ \E m \in Masters : \/ \E n \in Counts : GotCount(m, n)
                        \/ GotError(m) \/ ServeCount(m)
                        \/ \E k \in 1 .. Tries : GotCheck(m, k)
                        \/ \E a \in Addrs : IgnoreServer(m, a)

(* The steps of the network and of a lookup that are faults.               *)
Faulty ==
  \/ \E x \in Messages : Lose(x) \/ Duplicate(x)
  \/ \E F \in SUBSET Masters : F # {} /\ LookupDone(F)

(* Every step is one of these, unless a list is full. *)
LEMMA StepKinds ==
  ASSUME IInv, [Next]_vars, ~crowded'
  PROVE  \/ Plain \/ UpdateHeartbeat \/ Faulty \/ Tick
         \/ \E m \in Masters : \/ GotOk(m) \/ StartCheck(m) \/ Cycle(m)
                               \/ \E a \in Addrs : AddServer(m, a)
<1>1. \A m \in Masters : AddCheckserver(m) => StartCheck(m) \/ Faulty
  <2> SUFFICES ASSUME NEW m \in Masters, AddCheckserver(m)
               PROVE  StartCheck(m) \/ Faulty
    OBVIOUS
  <2>1. StartCheck(m) \/ Lose(Heartbeat(m))
    BY HeartbeatComes DEF RefuseCheck
  <2>2. Heartbeat(m) \in Messages
    BY Kinds
  <2> QED
    BY <2>1, <2>2 DEF Faulty
<1> QED
  BY <1>1 DEF Next, Plain, Faulty, RegisterUpdate, GotPacket, ServePacket

(* Every step without a fault keeps the query from failing. *)
LEMMA StepKeepsQuery ==
  ASSUME TimesFit, IInv, IInv', Capped, QueryGoesOn, [Next]_vars, ~Faulty, ~crowded'
  PROVE  QueryGoesOn'
<1>0. valid \subseteq Masters
  BY DEF IInv, TypeOK
<1>1. CASE UpdateAddrs \/ UpdateQuery
  BY <1>1, UpdateKeepsQuery
<1>2. CASE \E m \in Masters : ServeCount(m) \/ \E n \in Counts : GotCount(m, n)
  BY <1>2, CountKeepsQuery
<1>3. CASE Tick
  BY <1>3, TickKeepsQuery
<1>4. CASE \/ UpdateStart \/ UpdateHeartbeat \/ UpdateHeartbeatAstray \/ UpdateRegistered
           \/ UpdateError \/ \E m \in Masters : GotOk(m)
  <2>1. state' # "QUERY_COUNT"
    BY <1>4 DEF UpdateStart, UpdateHeartbeat, UpdateHeartbeatAstray, UpdateRegistered,
       UpdateError, GotOk, GiveUpInTime, NewState
  <2> QED
    BY <2>1 DEF QueryGoesOn
<1>5. CASE \/ UNCHANGED vars \/ LookupDone({})
           \/ \E m \in Masters : \/ GotError(m) \/ StartCheck(m) \/ Cycle(m)
                                 \/ \E k \in 1 .. Tries : GotCheck(m, k)
                                 \/ \E a \in Addrs : AddServer(m, a) \/ IgnoreServer(m, a)
  <2>1. UNCHANGED <<state, age, valid, got, quiet>>
    BY <1>5 DEF vars, LookupDone, GotError, StartCheck, Cycle, GotCheck, AddServer,
       IgnoreServer, registerVars
  <2>2. SameCounts
    <3>1. \E T : Only(T) /\ "GETCOUNT" \notin T /\ "COUNT" \notin T
      <4>1. CASE UNCHANGED vars \/ LookupDone({})
        <5>1. Only({})
          BY <4>1, SilentNet
        <5> QED
          BY <5>1
      <4>2. ASSUME NEW m \in Masters, GotError(m)
            PROVE  Only({"FWERROR"})
        BY <4>2, GotNet
      <4>3. ASSUME NEW m \in Masters, StartCheck(m)
            PROVE  Only({"HEARTBEAT"})
        BY <4>3, StartCheckNet
      <4>4. ASSUME NEW m \in Masters, Cycle(m)
            PROVE  Only({"FWCHECK", "FWERROR"})
        BY <4>4, CycleNet
      <4>5. ASSUME NEW m \in Masters, NEW k \in 1 .. Tries, GotCheck(m, k)
            PROVE  Only({"FWCHECK", "FWRESPONSE"})
        BY <4>5, GotCheckNet
      <4>6. ASSUME NEW m \in Masters, NEW a \in Addrs, AddServer(m, a)
            PROVE  Only({"FWRESPONSE", "FWOK"})
        BY <4>6, AddServerNet
      <4>7. ASSUME NEW m \in Masters, NEW a \in Addrs, IgnoreServer(m, a)
            PROVE  Only({"FWRESPONSE"})
        BY <4>7, IgnoreServerNet
      <4> QED
        BY <1>5, <4>1, <4>2, <4>3, <4>4, <4>5, <4>6, <4>7
    <3> QED
      BY <3>1, OnlyKeeps
  <2> QED
    BY <1>0, <2>1, <2>2, SameQuery
<1> QED
  BY <1>1, <1>2, <1>3, <1>4, <1>5, StepKinds DEF Plain

-----------------------------------------------------------------------------
(* After the fault: every step                                             *)

(* What is not done to the lists keeps the deadline. *)
LEMMA PlainWithin ==
  ASSUME TimesFit, IInv, IInv', ListInv, Capped, QueryGoesOn, open # {},
         NEW d \in Nat, Within(d),
         \/ Plain \/ UpdateHeartbeat
         \/ \E m \in Masters : StartCheck(m) \/ Cycle(m)
  PROVE  Within(d)'
<1>1. CASE UpdateHeartbeat
  BY <1>1, HeartbeatKeepsWay
<1>2. CASE \E m \in Masters : StartCheck(m) \/ Cycle(m)
  BY <1>2, CheckserverKeepsWay, CycleKeepsWay
<1>3. CASE \E m \in Masters : \/ \E k \in 1 .. Tries : GotCheck(m, k)
                              \/ \E a \in Addrs : IgnoreServer(m, a)
  BY <1>3, GotCheckKeepsWay, IgnoreKeepsWay
<1>4. CASE Plain /\ Aside
  <2>1. CASE OnMaster(d)
    BY <1>4, <2>1, AsideKeeps, SameMastersKeep DEF Within
  <2>2. CASE OnServer(d)
    <3>1. CASE \/ UpdateStart \/ UpdateAddrs \/ UpdateQuery \/ UpdateHeartbeatAstray
               \/ UpdateRegistered \/ UpdateError
      BY <2>2, <3>1, UpdateKeepsWay DEF Within
    <3>2. CASE LookupDone({})
      BY <2>2, <3>2, LookupKeepsWay DEF Within
    <3>3. CASE \/ UNCHANGED vars
               \/ \E m \in Masters : \/ \E n \in Counts : GotCount(m, n)
                                     \/ GotError(m) \/ ServeCount(m)
      <4>1. UNCHANGED <<state, age, chosen, valid, quiet, refreshing, resolved, lookupAge>>
        BY <3>3 DEF vars, GotCount, GotError, ServeCount, registerVars, lookupVars
      <4> QED
        BY <2>2, <4>1, SameWay DEF Within
    <3>4. CASE \E m \in Masters : \/ \E k \in 1 .. Tries : GotCheck(m, k)
                                  \/ \E a \in Addrs : IgnoreServer(m, a)
      BY <1>3, <3>4
    <3> QED
      BY <1>4, <3>1, <3>2, <3>3, <3>4 DEF Plain
  <2> QED
    BY <2>1, <2>2 DEF Within
<1>5. Plain => \/ Aside
               \/ \E m \in Masters : \/ \E k \in 1 .. Tries : GotCheck(m, k)
                                     \/ \E a \in Addrs : IgnoreServer(m, a)
  BY DEF Plain, Aside
<1> QED
  BY <1>1, <1>2, <1>3, <1>4, <1>5

-----------------------------------------------------------------------------
(* Before the fault: what is idle                                          *)

(* Where nothing goes on nothing arrives. *)
LEMMA IdleBlocks ==
  ASSUME IInv, NEW m \in Masters, Idle(m)
  PROVE  /\ ~StartCheck(m)
         /\ \A k \in 1 .. Tries : ~GotCheck(m, k)
         /\ \A a \in Addrs : ~AddServer(m, a) /\ ~IgnoreServer(m, a)
BY DEF Idle, NoAnswerDue, StartCheck, GotCheck, AddServer, IgnoreServer

(* No server is told what is not on its way. *)
LEMMA OkBlocks ==
  ASSUME NoOk, NEW m \in Masters
  PROVE  ~GotOk(m)
BY DEF NoOk, GotOk

(* A FWOK is sent only for an answer, and taken by GotOk only. *)
LEMMA SameOk ==
  ASSUME IInv,
         \/ Plain \/ UpdateHeartbeat
         \/ \E m \in Masters : StartCheck(m) \/ Cycle(m)
  PROVE  SameOks
<1>1. \E T : Only(T) /\ "FWOK" \notin T
  <2>1. CASE UNCHANGED vars \/ LookupDone({}) \/ UpdateStart \/ UpdateAddrs
             \/ UpdateHeartbeatAstray \/ UpdateRegistered \/ UpdateError
    <3>1. Only({})
      BY <2>1, SilentNet
    <3> QED
      BY <3>1
  <2>2. CASE UpdateQuery
    BY <2>2, UpdateQueryNet
  <2>3. CASE UpdateHeartbeat
    BY <2>3, UpdateHeartbeatNet
  <2>4. ASSUME NEW m \in Masters, GotError(m) \/ \E n \in Counts : GotCount(m, n)
        PROVE  Only({"FWERROR"}) \/ Only({"COUNT"})
    BY <2>4, GotNet
  <2>5. ASSUME NEW m \in Masters, ServeCount(m)
        PROVE  Only({"GETCOUNT", "COUNT"})
    BY <2>5, ServeCountNet
  <2>6. ASSUME NEW m \in Masters, StartCheck(m)
        PROVE  Only({"HEARTBEAT"})
    BY <2>6, StartCheckNet
  <2>7. ASSUME NEW m \in Masters, Cycle(m)
        PROVE  Only({"FWCHECK", "FWERROR"})
    BY <2>7, CycleNet
  <2>8. ASSUME NEW m \in Masters, NEW k \in 1 .. Tries, GotCheck(m, k)
        PROVE  Only({"FWCHECK", "FWRESPONSE"})
    BY <2>8, GotCheckNet
  <2>9. ASSUME NEW m \in Masters, NEW a \in Addrs, IgnoreServer(m, a)
        PROVE  Only({"FWRESPONSE"})
    BY <2>9, IgnoreServerNet
  <2>10. \A m \in Masters : GotError(m) \/ (\E n \in Counts : GotCount(m, n)) => \E T : Only(T) /\ "FWOK" \notin T
    <3>1. "FWOK" \notin {"FWERROR"} /\ "FWOK" \notin {"COUNT"}
      OBVIOUS
    <3> QED
      BY <2>4, <3>1
  <2> QED
    BY <2>1, <2>2, <2>3, <2>5, <2>6, <2>7, <2>8, <2>9, <2>10 DEF Plain
<1> QED
  BY <1>1, OnlyKeeps

(* A master that does its work starts no check. *)
LEMMA CycleQuiet ==
  ASSUME TimesFit, IInv, NEW c \in Masters, Cycle(c), NEW m \in Masters,
         ~Busy(m), NoAnswerDue(m)
  PROVE  ~Busy(m)' /\ NoAnswerDue(m)' /\ net'[Heartbeat(m)] = net[Heartbeat(m)]
<1>1. net'[Heartbeat(m)] = net[Heartbeat(m)] /\ \A a \in Addrs : net'[FwResponse(m, a)] = net[FwResponse(m, a)]
  BY CycleNet, Kinds DEF Only
<1>2. CASE m # c
  <2>1. checking'[m] = checking[m] /\ \A k \in 1 .. Tries : net'[FwCheck(m, k)] = net[FwCheck(m, k)]
    BY <1>2, CycleNet
  <2> QED
    BY <1>1, <2>1 DEF Busy, NoAnswerDue
<1>3. CASE m = c
  <2>1. \A k \in 0 .. Tries : checking[c][k] = 0
    <3>1. \A k \in 0 .. Tries : checking[c][k] \in Nat
      BY DEF IInv, TypeOK
    <3> QED
      BY <1>3, <3>1 DEF Busy
  <2>2. \A k \in 1 .. Tries : k - 1 \in 0 .. Tries
    BY TimesAre
  <2>3. \A k \in 0 .. Tries : checking'[c][k] = 0
    <3>1. \A k \in 0 .. Tries : k = 0 \/ k \in 1 .. Tries
      BY TimesAre
    <3> QED
      BY <2>1, <2>2, <3>1, CycleNet
  <2>4. \A k \in 1 .. Tries : net'[FwCheck(c, k)] = 0
    <3> SUFFICES ASSUME NEW k \in 1 .. Tries
                 PROVE  net'[FwCheck(c, k)] = 0
      OBVIOUS
    <3>1. checking[c][k - 1] = 0
      BY <2>1, <2>2
    <3>2. net[FwCheck(c, k)] = 0
      BY <1>3 DEF NoAnswerDue
    <3> QED
      BY <3>1, <3>2, CycleNet
  <2> QED
    BY <1>1, <1>3, <2>3, <2>4 DEF Busy, NoAnswerDue
<1> QED
  BY <1>2, <1>3

LEMMA CycleIdle ==
  ASSUME TimesFit, IInv, NEW c \in Masters, Cycle(c), NEW m \in Masters, Idle(m)
  PROVE  Idle(m)'
BY CycleQuiet DEF Idle

(* Where all is idle it stays so. *)
LEMMA AllIdle ==
  ASSUME TimesFit, IInv, \A m \in Masters : Idle(m),
         Plain \/ \E m \in Masters : StartCheck(m) \/ Cycle(m)
  PROVE  /\ \A m \in Masters : Idle(m)'
         /\ Aside \/ \E m \in Masters : Cycle(m)
         /\ \A m \in Masters : ~StartCheck(m)
<1>1. \A m \in Masters : ~StartCheck(m)
  BY IdleBlocks
<1>2. Aside \/ \E m \in Masters : Cycle(m)
  BY <1>1, IdleBlocks DEF Plain, Aside
<1>3. \A m \in Masters : Idle(m)'
  BY <1>2, AsideKeeps, SameMastersKeep, CycleIdle
<1> QED
  BY <1>1, <1>2, <1>3

-----------------------------------------------------------------------------
(* Before the fault: the one way that things go                            *)

(* The steps between the deadlines: all but faults, time, an answer that   *)
(* lists the server and the FWOK.                                          *)
Between ==
  \/ Plain \/ UpdateHeartbeat
  \/ \E m \in Masters : StartCheck(m) \/ Cycle(m)

(* The steps of others than the server's own loop. *)
ByOthers ==
  \/ UNCHANGED vars \/ \E m \in Masters : GotError(m) \/ Cycle(m) \/ StartCheck(m)
  \/ \E m \in Masters : \/ \E k \in 1 .. Tries : GotCheck(m, k)
                        \/ \E a \in Addrs : IgnoreServer(m, a)

(* They leave the query alone. *)
LEMMA OthersSame ==
  ASSUME IInv, ByOthers
  PROVE  /\ SameCounts
         /\ UNCHANGED <<state, age, count, chosen, valid, got, quiet, refreshing, resolved, lookupAge>>
<1>1. \E T : Only(T) /\ "GETCOUNT" \notin T /\ "COUNT" \notin T
  <2>1. CASE UNCHANGED vars
    <3>1. Only({})
      BY <2>1, SilentNet
    <3> QED
      BY <3>1
  <2>2. ASSUME NEW m \in Masters, GotError(m)
        PROVE  Only({"FWERROR"})
    BY <2>2, GotNet
  <2>3. ASSUME NEW m \in Masters, Cycle(m)
        PROVE  Only({"FWCHECK", "FWERROR"})
    BY <2>3, CycleNet
  <2>4. ASSUME NEW m \in Masters, StartCheck(m)
        PROVE  Only({"HEARTBEAT"})
    BY <2>4, StartCheckNet
  <2>5. ASSUME NEW m \in Masters, NEW k \in 1 .. Tries, GotCheck(m, k)
        PROVE  Only({"FWCHECK", "FWRESPONSE"})
    BY <2>5, GotCheckNet
  <2>6. ASSUME NEW m \in Masters, NEW a \in Addrs, IgnoreServer(m, a)
        PROVE  Only({"FWRESPONSE"})
    BY <2>6, IgnoreServerNet
  <2> QED
    BY <2>1, <2>2, <2>3, <2>4, <2>5, <2>6 DEF ByOthers
<1>2. UNCHANGED <<state, age, count, chosen, valid, got, quiet, refreshing, resolved, lookupAge>>
  BY DEF ByOthers, vars, GotError, Cycle, StartCheck, GotCheck, IgnoreServer,
     registerVars, lookupVars
<1> QED
  BY <1>1, <1>2, OnlyKeeps

(* The masters are found and asked, and they answer. *)
LEMMA SeekingGoesOn ==
  ASSUME TimesFit, IInv, IInv', Capped, NEW d \in Nat, Seeking(d), Between
  PROVE  \/ Seeking(d)'
         \/ /\ state' = "HEARTBEAT" /\ chosen' \in Masters /\ age' <= quiet'[chosen']
            /\ 2 * Beat + 2 * Period <= d + quiet'[chosen']
<1>0. /\ valid \subseteq Masters /\ quiet \in [Masters -> Nat]
      /\ got \in [Masters -> Nat \cup {Unknown}] /\ lookupAge \in Nat /\ lookupAge <= MaxLookup
      /\ Left \subseteq Masters /\ Left \subseteq valid
  <2>1. /\ valid \subseteq Masters /\ quiet \in [Masters -> Nat]
        /\ got \in [Masters -> Nat \cup {Unknown}] /\ lookupAge \in Nat
    BY DEF IInv, TypeOK
  <2>2. lookupAge <= MaxLookup
    BY DEF Capped
  <2> QED
    BY <2>1, <2>2 DEF Left
<1> USE TimesAre
<1>1. CASE UpdateStart
  <2>1. MaxLookup + Patience + Anew <= d
    BY <1>1 DEF UpdateStart, Seeking
  <2>2. state' = "UPDATE_ADDRS" /\ refreshing' /\ lookupAge' \in Nat
    BY <1>0, <1>1 DEF UpdateStart, NewState
  <2> QED
    BY <2>1, <2>2 DEF Seeking
<1>2. CASE UpdateAddrs
  <2>1. CASE refreshing
    <3>1. MaxLookup + Patience + Anew <= d + lookupAge
      BY <1>2, <2>1 DEF UpdateAddrs, Seeking
    <3>2. state' = "UPDATE_ADDRS" /\ refreshing' /\ lookupAge' = lookupAge
      BY <1>2, <2>1 DEF UpdateAddrs, lookupVars
    <3> QED
      BY <3>1, <3>2 DEF Seeking
  <2>2. CASE ~refreshing
    <3>1. resolved = Masters /\ Query + 2 * Period + Beat <= d
      BY <1>2, <2>2 DEF UpdateAddrs, Seeking
    <3>2. /\ state' = "QUERY_COUNT" /\ age' = 0 /\ valid' = resolved
          /\ quiet' = [m \in Masters |-> IF m \in resolved THEN HeartbeatEvery + 1 ELSE quiet[m]]
      BY <1>2, <2>2 DEF UpdateAddrs, NewState
    <3>3. \A m \in Masters : quiet'[m] > Freq
      BY <3>1, <3>2
    <3>4. \A m \in Left' : m \in Masters
      BY <3>1, <3>2 DEF Left
    <3> QED
      BY <3>1, <3>2, <3>3, <3>4 DEF Seeking
  <2> QED
    BY <2>1, <2>2
<1>3. CASE UpdateQuery
  <2>1. /\ age = 0 /\ valid = Masters /\ Query + 2 * Period + Beat <= d
        /\ \A m \in Left : quiet[m] > Freq \/ CountDue(m)
    BY <1>3 DEF UpdateQuery, Seeking
  <2>2. CASE state' = "QUERY_COUNT"
    <3>1. valid' = valid /\ got' = got /\ age' = age
      BY <1>3, <2>2 DEF UpdateQuery, NewState
    <3>2. Left' = Left
      BY <3>1 DEF Left
    <3>3. \A m \in Left : CountDue(m)'
      <4> SUFFICES ASSUME NEW m \in Left
                   PROVE  CountDue(m)'
        OBVIOUS
      <4>1. CASE quiet[m] > Freq
        BY <1>3, <4>1, UpdateQueryNet DEF CountDue
      <4>2. CASE CountDue(m)
        <5>1. /\ net[GetCount(m)] \in Nat /\ net'[GetCount(m)] \in Nat
              /\ net'[GetCount(m)] >= net[GetCount(m)]
          BY <1>0, <1>3, UpdateQueryNet, Kinds DEF IInv, TypeOK
        <5>2. \A n \in Counts : net'[Count(m, n)] = net[Count(m, n)]
          BY <1>0, <1>3, UpdateQueryNet, Kinds DEF Only
        <5> QED
          BY <4>2, <5>1, <5>2 DEF CountDue
      <4> QED
        BY <2>1, <4>1, <4>2
    <3> QED
      BY <2>1, <2>2, <3>1, <3>2, <3>3 DEF Seeking
  <2>3. CASE state' # "QUERY_COUNT"
    <3> DEFINE asked == [m \in Masters |-> IF m \in {n \in Left : quiet[n] > Freq} THEN 0 ELSE quiet[m]]
    <3>1. Left = {}
      BY <1>3, <2>1, <2>3 DEF UpdateQuery
    <3>2. valid \ Left # {}
      <4>1. NumMasters \in Nat \ {0}
        BY RegistrationAssumption
      <4>2. 0 \in Masters
        BY <4>1 DEF Masters
      <4> QED
        BY <2>1, <3>1, <4>2
    <3>3. \E best \in valid \ Left :
            /\ chosen' = best /\ state' = "HEARTBEAT" /\ age' = 0
            /\ quiet' = [asked EXCEPT ![best] = HeartbeatEvery + 1]
      BY <1>3, <2>3, <3>2 DEF UpdateQuery, NewState
    <3>4. \A best \in Masters : [asked EXCEPT ![best] = HeartbeatEvery + 1][best] = HeartbeatEvery + 1
      OBVIOUS
    <3> HIDE DEF asked
    <3>5. state' = "HEARTBEAT" /\ chosen' \in Masters /\ age' = 0 /\ quiet'[chosen'] = HeartbeatEvery + 1
      BY <1>0, <3>3, <3>4
    <3> QED
      BY <2>1, <3>5
  <2> QED
    BY <2>2, <2>3
<1>4. CASE LookupDone({})
  <2>1. /\ refreshing /\ ~refreshing' /\ resolved' = Masters
        /\ UNCHANGED <<state, age, valid, got, quiet, lookupAge>> /\ net' = net
    BY <1>4 DEF LookupDone, registerVars
  <2>2. Left' = Left /\ \A m \in Masters : CountDue(m)' <=> CountDue(m)
    BY <2>1 DEF Left, CountDue
  <2>3. CASE state = "UPDATE_ADDRS"
    <3>1. MaxLookup + Patience + Anew <= d + lookupAge
      BY <2>1, <2>3 DEF Seeking
    <3>2. Query + 2 * Period + Beat <= d
      BY <1>0, <3>1
    <3> QED
      BY <2>1, <2>3, <3>2 DEF Seeking
  <2>4. CASE state # "UPDATE_ADDRS"
    BY <1>0, <2>1, <2>2, <2>4 DEF Seeking
  <2> QED
    BY <2>3, <2>4
<1>5. ASSUME NEW c \in Masters, ServeCount(c) \/ \E n \in Counts : GotCount(c, n)
      PROVE  Seeking(d)'
  <2>1. UNCHANGED <<state, age, valid, quiet, refreshing, resolved, lookupAge>>
    BY <1>5 DEF ServeCount, GotCount, registerVars, lookupVars
  <2>2. CASE state # "QUERY_COUNT"
    BY <2>1, <2>2 DEF Seeking
  <2>3. CASE state = "QUERY_COUNT"
    <3>1. /\ age = 0 /\ valid = Masters /\ Query + 2 * Period + Beat <= d
          /\ \A m \in Left : quiet[m] > Freq \/ CountDue(m)
      BY <2>3 DEF Seeking
    <3>2. Left' \subseteq Left /\ \A m \in Left' : CountDue(m) => CountDue(m)'
      <4>1. CASE ServeCount(c)
        <5>1. Left' = Left
          BY <2>1, <4>1 DEF Left, ServeCount, registerVars
        <5>2. \A m \in Masters : CountDue(m) => CountDue(m)'
          <6>1. CountDue(c)'
            <7>1. NumServers(c) \in Counts
              <8>1. others[c] \in Nat /\ NumServers(c) <= MaxServers
                BY DEF IInv, TypeOK, Capped
              <8>2. Cardinality({a \in Addrs : listed[c][a] # NotListed}) \in Nat
                BY EntriesFinite
              <8>3. NumServers(c) \in Nat
                BY <8>1, <8>2 DEF NumServers
              <8> QED
                BY <8>1, <8>3, RegistrationAssumption DEF Counts
            <7>2. net'[Count(c, NumServers(c))] > 0
              BY <4>1, <7>1, ServeCountNet
            <7> QED
              BY <7>1, <7>2 DEF CountDue
          <6>2. \A m \in Masters, n \in Counts :
                  /\ net[Count(m, n)] \in Nat /\ net'[Count(m, n)] \in Nat
                  /\ net'[Count(m, n)] >= net[Count(m, n)]
            BY <4>1, ServeCountNet, Kinds DEF IInv, TypeOK
          <6>3. \A m \in Masters : m # c => net'[GetCount(m)] = net[GetCount(m)]
            BY <4>1, ServeCountNet
          <6> QED
            BY <6>1, <6>2, <6>3 DEF CountDue
        <5> QED
          BY <1>0, <5>1, <5>2
      <4>2. ASSUME NEW n \in Counts, GotCount(c, n)
            PROVE  Left' \subseteq Left /\ \A m \in Left' : CountDue(m) => CountDue(m)'
        <5>1. got' = [got EXCEPT ![c] = n] /\ valid' = valid /\ n # Unknown
          BY <4>2, RegistrationAssumption DEF GotCount, Counts, Unknown
        <5>2. Left' \subseteq Left \ {c}
          BY <1>0, <5>1 DEF Left
        <5>3. \A m \in Masters : m # c /\ CountDue(m) => CountDue(m)'
          <6>1. \A m \in Masters : net'[GetCount(m)] = net[GetCount(m)]
            BY <4>2, GotNet, Kinds DEF Only
          <6>2. \A m \in Masters, j \in Counts : m # c => net'[Count(m, j)] = net[Count(m, j)]
            BY <4>2, GotNet
          <6> QED
            BY <6>1, <6>2 DEF CountDue
        <5> QED
          BY <1>0, <5>2, <5>3
      <4> QED
        BY <1>5, <4>1, <4>2
    <3> QED
      BY <2>1, <2>3, <3>1, <3>2 DEF Seeking
  <2> QED
    BY <2>2, <2>3
<1>6. CASE ByOthers
  <2>1. /\ SameCounts
        /\ UNCHANGED <<state, age, valid, got, quiet, refreshing, resolved, lookupAge>>
    BY <1>6, OthersSame
  <2>2. Left' = Left /\ \A m \in Masters : CountDue(m) => CountDue(m)'
    BY <2>1 DEF Left, CountDue, SameCounts
  <2> QED
    BY <1>0, <2>1, <2>2 DEF Seeking
<1>7. CASE UpdateHeartbeat \/ UpdateHeartbeatAstray \/ UpdateRegistered \/ UpdateError
  BY <1>7 DEF UpdateHeartbeat, UpdateHeartbeatAstray, UpdateRegistered, UpdateError, Seeking
<1> QED
  BY <1>1, <1>2, <1>3, <1>4, <1>5, <1>6, <1>7 DEF Between, Plain, ByOthers


(* Looking for a master leads to waiting for the time of a heartbeat. *)
LEMMA LookingGoesOn ==
  ASSUME TimesFit, IInv, IInv', Capped, NEW d \in Nat, Looking(d), Between
  PROVE  Looking(d)' \/ (chosen' \in Masters /\ Waiting(d)')
<1>1. NoOk /\ (\A m \in Masters : Idle(m)) /\ Seeking(d)
  BY DEF Looking
<1>2. ~UpdateHeartbeat
  BY <1>1 DEF Seeking, UpdateHeartbeat
<1>3. Plain \/ \E m \in Masters : StartCheck(m) \/ Cycle(m)
  BY <1>2 DEF Between
<1>4. \A m \in Masters : Idle(m)'
  BY <1>1, <1>3, AllIdle
<1>5. NoOk'
  BY <1>1, SameOk DEF NoOk, SameOks, Between
<1>6. CASE Seeking(d)'
  BY <1>4, <1>5, <1>6 DEF Looking
<1>7. CASE /\ state' = "HEARTBEAT" /\ chosen' \in Masters /\ age' <= quiet'[chosen']
           /\ 2 * Beat + 2 * Period <= d + quiet'[chosen']
  BY <1>4, <1>5, <1>7 DEF Waiting
<1> QED
  BY <1>1, <1>6, <1>7, SeekingGoesOn


(* Where the server has nothing to do, it does nothing. *)
LEMMA ServerStays ==
  ASSUME Between, ~UpdateHeartbeat,
         \/ state = "HEARTBEAT" /\ chosen # NoServer
         \/ state = "REGISTERED" /\ ~UpdateRegistered
  PROVE  UNCHANGED <<state, age, chosen, quiet>>
<1>1. ~(\/ UpdateStart \/ UpdateAddrs \/ UpdateQuery \/ UpdateHeartbeatAstray
        \/ UpdateRegistered \/ UpdateError)
  BY DEF UpdateStart, UpdateAddrs, UpdateQuery, UpdateHeartbeatAstray, UpdateRegistered,
     UpdateError
<1>2. CASE UNCHANGED vars \/ LookupDone({})
  BY <1>2 DEF vars, LookupDone, registerVars
<1>3. CASE \E m \in Masters : \/ \E n \in Counts : GotCount(m, n)
                              \/ GotError(m) \/ ServeCount(m)
                              \/ \E k \in 1 .. Tries : GotCheck(m, k)
                              \/ \E a \in Addrs : IgnoreServer(m, a)
                              \/ StartCheck(m) \/ Cycle(m)
  BY <1>3 DEF GotCount, GotError, ServeCount, GotCheck, IgnoreServer, StartCheck, Cycle,
     registerVars
<1> QED
  BY <1>1, <1>2, <1>3 DEF Between, Plain

(* A master is not no master. *)
LEMMA MasterIsServer == \A m \in Masters : m # NoServer
<1>1. \A m \in Masters : m \in Int /\ 0 <= m
  BY RegistrationAssumption DEF Masters
<1> QED
  BY <1>1 DEF NoServer

(* The registered server rests until the next heartbeat or registration. *)
LEMMA RestingGoesOn ==
  ASSUME TimesFit, IInv, IInv', ListInv, Capped, NEW d \in Nat,
         chosen \in Masters, Resting(d), Between
  PROVE  Looking(d)' \/ (chosen' \in Masters /\ (Resting(d)' \/ Waiting(d)'))
<1>1. /\ state = "REGISTERED" /\ (NoOk \/ age = 0) /\ Longest <= d + age
      /\ \A m \in Masters : Idle(m)
  BY DEF Resting
<1>2. ~UpdateHeartbeat
  BY <1>1 DEF UpdateHeartbeat
<1>3. \A m \in Masters : Idle(m)'
  BY <1>1, <1>2, AllIdle DEF Between
<1>4. NoOk => NoOk'
  BY SameOk DEF NoOk, SameOks, Between
<1>5. CASE UpdateRegistered
  <2>1. age \in Nat /\ age = Pause
    <3>1. age \in Nat /\ age > Freq /\ age <= Freq + 1
      BY <1>1, <1>5 DEF IInv, TypeOK, UpdateRegistered, ListInv, RegisteredShortly
    <3> QED
      BY <3>1, TimesAre
  <2>2. NoOk'
    <3>1. age # 0
      BY <2>1, TimesAre
    <3> QED
      BY <1>1, <1>4, <3>1
  <2>3. MaxLookup + Patience + Anew <= d
    BY <1>1, <2>1, TimesAre
  <2>4. CASE state' = "START"
    BY <1>3, <2>2, <2>3, <2>4 DEF Looking, Seeking
  <2>5. CASE state' = "HEARTBEAT" /\ age' = 0
    <3>1. chosen' = chosen /\ quiet' = quiet /\ quiet[chosen] \in Nat
      BY <1>5 DEF UpdateRegistered, IInv, TypeOK
    <3>2. 2 * Beat + 2 * Period <= d
      BY <2>3, TimesAre
    <3>3. age' <= quiet'[chosen'] /\ 2 * Beat + 2 * Period <= d + quiet'[chosen']
      BY <2>5, <3>1, <3>2, TimesAre
    <3> QED
      BY <1>3, <2>2, <2>5, <3>1, <3>3 DEF Waiting
  <2> QED
    BY <1>5, <2>4, <2>5 DEF UpdateRegistered, NewState
<1>6. CASE ~UpdateRegistered
  <2>1. state' = state /\ age' = age /\ chosen' = chosen
    BY <1>1, <1>2, <1>6, ServerStays
  <2> QED
    BY <1>1, <1>3, <1>4, <2>1 DEF Resting
<1> QED
  BY <1>5, <1>6

(* The heartbeat is sent when it is time. *)
LEMMA WaitingGoesOn ==
  ASSUME TimesFit, IInv, IInv', Capped, NEW d \in Nat, chosen \in Masters, Waiting(d), Between
  PROVE  chosen' \in Masters /\ (Waiting(d)' \/ Checking(d)')
<1>1. /\ state = "HEARTBEAT" /\ NoOk /\ \A m \in Masters : Idle(m)
      /\ age <= quiet[chosen] /\ 2 * Beat + 2 * Period <= d + quiet[chosen]
  BY DEF Waiting
<1>2. NoOk'
  BY <1>1, SameOk DEF NoOk, SameOks, Between
<1>3. CASE UpdateHeartbeat
  <2>1. age \in Nat /\ quiet[chosen] \in Nat /\ quiet[chosen] <= Beat
    BY DEF IInv, TypeOK, Capped
  <2>2. age <= GiveUp
    BY <1>1, <2>1, TimesAre
  <2>3. state' = state /\ age' = age /\ chosen' = chosen
    BY <1>3, <2>2, TimesAre, <2>1 DEF UpdateHeartbeat, GiveUpInTime
  <2>4. \A m \in Masters : NoAnswerDue(m)' /\ ~Busy(m)'
    <3>1. SameAnswers /\ checking' = checking
      BY <1>3, BeatKeeps DEF UpdateHeartbeat, masterVars
    <3> QED
      BY <1>1, <3>1 DEF Idle, NoAnswerDue, Busy, SameAnswers
  <2>5. CASE quiet[chosen] <= HeartbeatEvery /\ quiet' = quiet /\ net' = net
    <3>1. \A m \in Masters : Idle(m)'
      BY <1>1, <2>4, <2>5 DEF Idle
    <3> QED
      BY <1>1, <1>2, <2>3, <2>5, <3>1 DEF Waiting
  <2>6. CASE /\ quiet[chosen] > HeartbeatEvery /\ quiet' = [quiet EXCEPT ![chosen] = 0]
             /\ net'[Heartbeat(chosen)] = net[Heartbeat(chosen)] + 1
    <3>1. quiet'[chosen] = 0
      BY <2>6 DEF IInv, TypeOK
    <3>2. net'[Heartbeat(chosen)] = 1
      BY <1>1, <2>6 DEF Idle
    <3>3. \A m \in Masters \ {chosen} : Idle(m)'
      <4>1. \A m \in Masters \ {chosen} : net'[Heartbeat(m)] = net[Heartbeat(m)]
        BY <1>3, UpdateHeartbeatNet
      <4> QED
        BY <1>1, <2>4, <4>1 DEF Idle
    <3>4. 2 * Period + Beat <= d /\ age <= Beat
      BY <1>1, <2>1, TimesAre
    <3>5. Asking(chosen, d)'
      BY <2>3, <2>4, <3>1, <3>2, <3>4 DEF Asking
    <3>6. age' <= Beat + quiet'[chosen']
      BY <2>3, <3>1, <3>4, TimesAre
    <3>7. Checks(chosen, d)'
      BY <3>5 DEF Checks
    <3> QED
      BY <1>1, <1>2, <2>3, <3>3, <3>6, <3>7 DEF Checking
  <2> QED
    BY <1>3, <2>5, <2>6, UpdateHeartbeatNet
<1>4. CASE ~UpdateHeartbeat
  <2>1. state' = state /\ age' = age /\ chosen' = chosen /\ quiet' = quiet
    BY <1>1, <1>4, ServerStays, MasterIsServer
  <2>2. \A m \in Masters : Idle(m)'
    BY <1>1, <1>4, AllIdle DEF Between
  <2> QED
    BY <1>1, <1>2, <2>1, <2>2 DEF Waiting
<1> QED
  BY <1>3, <1>4

(* The FWOK comes before the next heartbeat. *)
LEMMA AcceptedGoesOn ==
  ASSUME TimesFit, IInv, IInv', Capped, NEW d \in Nat, chosen \in Masters, Accepted(d), Between
  PROVE  chosen' \in Masters /\ Accepted(d)'
<1>1. /\ state = "HEARTBEAT" /\ net[FwOk(chosen)] > 0 /\ \A m \in Masters : Idle(m)
      /\ age <= GiveUp /\ quiet[chosen] <= HeartbeatEvery /\ Longest <= d
  BY DEF Accepted
<1>2. \A m \in Masters : net'[FwOk(m)] = net[FwOk(m)]
  BY SameOk DEF SameOks, Between
<1>3. state' = state /\ age' = age /\ chosen' = chosen /\ quiet' = quiet
  <2>1. CASE UpdateHeartbeat
    <3>1. age \in Nat /\ quiet[chosen] \in Nat
      BY DEF IInv, TypeOK
    <3> QED
      BY <1>1, <2>1, <3>1, TimesAre DEF UpdateHeartbeat, GiveUpInTime
  <2>2. CASE ~UpdateHeartbeat
    BY <1>1, <2>2, ServerStays, MasterIsServer
  <2> QED
    BY <2>1, <2>2
<1>4. \A m \in Masters : Idle(m)'
  <2>1. CASE UpdateHeartbeat
    <3>1. net' = net /\ checking' = checking
      <4>1. quiet[chosen] \in Nat
        BY DEF IInv, TypeOK
      <4> QED
        BY <1>1, <2>1, <4>1, TimesAre DEF UpdateHeartbeat, masterVars
    <3> QED
      BY <1>1, <3>1 DEF Idle, Busy, NoAnswerDue
  <2>2. CASE ~UpdateHeartbeat
    BY <1>1, <2>2, AllIdle DEF Between
  <2> QED
    BY <2>1, <2>2
<1> QED
  BY <1>1, <1>2, <1>3, <1>4 DEF Accepted


(* What goes on between the server and m is left as it is. *)
SameAt(m) ==
  /\ net'[Heartbeat(m)] = net[Heartbeat(m)]
  /\ \A k \in 1 .. Tries : net'[FwCheck(m, k)] = net[FwCheck(m, k)]
  /\ \A a \in Addrs : net'[FwResponse(m, a)] = net[FwResponse(m, a)]
  /\ checking'[m] = checking[m] /\ buildAge'[m] = buildAge[m] /\ open' = open

LEMMA SameAtKeeps ==
  ASSUME TimesFit, NEW m \in Masters, NEW d \in Nat, SameAt(m)
  PROVE  /\ Idle(m) => Idle(m)'
         /\ Checks(m, d) /\ quiet'[m] = quiet[m] => Checks(m, d)'
<1>1. \A k \in {1, 2} : k \in 1 .. Tries /\ Checked(k) \in Addrs
  BY TimesAre, CheckedAddr
<1>2. NoAnswerDue(m)' <=> NoAnswerDue(m)
  BY DEF SameAt, NoAnswerDue
<1>3. Busy(m)' <=> Busy(m)
  BY DEF SameAt, Busy
<1>4. \A k : At(m, k)' <=> At(m, k)
  BY DEF SameAt, At
<1>5. Idle(m) => Idle(m)'
  BY <1>2, <1>3 DEF SameAt, Idle
<1>6. ASSUME quiet'[m] = quiet[m], Checks(m, d)
      PROVE  Checks(m, d)'
  <2>1. CASE Asking(m, d)
    BY <1>2, <1>3, <1>6, <2>1 DEF SameAt, Asking, Checks
  <2>2. CASE AtFirst(m, d)
    BY <1>2, <1>4, <1>6, <2>2 DEF SameAt, AtFirst, Checks
  <2>3. CASE AtSecond(m, d)
    BY <1>2, <1>4, <1>6, <2>3 DEF SameAt, AtSecond, Checks
  <2>4. ASSUME NEW k \in {1, 2}, CheckDue(m, k, d)
        PROVE  Checks(m, d)'
    <3>1. CheckDue(m, k, d)'
      BY <1>1, <1>4, <1>6, <2>4 DEF SameAt, CheckDue, UnderWay
    <3> QED
      BY <3>1 DEF Checks
  <2>5. ASSUME NEW k \in {1, 2}, AnswerDue(m, k, d)
        PROVE  Checks(m, d)'
    <3>1. AnswerDue(m, k, d)'
      BY <1>1, <1>4, <1>6, <2>5 DEF SameAt, AnswerDue, UnderWay
    <3> QED
      BY <3>1 DEF Checks
  <2> QED
    BY <1>6, <2>1, <2>2, <2>3, <2>4, <2>5 DEF Checks
<1> QED
  BY <1>5, <1>6

(* The master takes the heartbeat. *)
LEMMA AskingGoesOn ==
  ASSUME TimesFit, IInv, IInv', NEW c \in Masters, NEW d \in Nat, Checks(c, d), StartCheck(c)
  PROVE  AtFirst(c, d)'
<1>1. net[Heartbeat(c)] > 0 /\ net'[Heartbeat(c)] = net[Heartbeat(c)] - 1
  BY StartCheckNet
<1>2. Asking(c, d)
  BY <1>1 DEF Checks, AtFirst, AtSecond, CheckDue, AnswerDue, UnderWay, At
<1>3. /\ net[Heartbeat(c)] = 1 /\ ~Busy(c) /\ NoAnswerDue(c)
      /\ quiet[c] = 0 /\ 2 * Period + Beat <= d
  BY <1>2 DEF Asking
<1>4. \A j \in 0 .. Tries : checking'[c][j] = IF j = 0 THEN 1 ELSE 0
  <2>1. checking \in [Masters -> [0 .. Tries -> Nat]]
    BY DEF IInv, TypeOK
  <2>2. checking' = [checking EXCEPT ![c] = [checking[c] EXCEPT ![0] = checking[c][0] + 1]]
    BY DEF StartCheck
  <2>3. \A j \in 0 .. Tries : checking[c][j] = 0
    <3>1. \A j \in 0 .. Tries : checking[c][j] \in Nat
      BY <2>1
    <3> QED
      BY <1>3, <3>1 DEF Busy
  <2>4. checking'[c] = [checking[c] EXCEPT ![0] = checking[c][0] + 1]
    BY <2>1, <2>2
  <2>5. checking[c] \in [0 .. Tries -> Nat] /\ 0 \in 0 .. Tries
    BY <2>1, TimesAre
  <2>6. checking[c][0] + 1 = 1
    BY <2>3, <2>5
  <2>7. checking'[c] = [checking[c] EXCEPT ![0] = 1]
    BY <2>4, <2>6
  <2> QED
    BY <2>3, <2>5, <2>7
<1>5. NoAnswerDue(c)' /\ buildAge'[c] = buildAge[c]
  BY <1>3, BeatKeeps DEF NoAnswerDue, SameAnswers
<1>6. quiet' = quiet /\ open' = open
  BY DEF StartCheck, registerVars
<1>7. buildAge[c] \in Nat
  BY DEF IInv, TypeOK
<1>8. /\ quiet'[c] <= buildAge'[c] /\ 3 * Period <= d + buildAge'[c]
      /\ 4 * Period <= d + buildAge'[c]
  BY <1>3, <1>5, <1>6, <1>7, TimesAre
<1>9. At(c, 0)'
  BY <1>1, <1>3, <1>4 DEF At
<1> QED
  BY <1>5, <1>8, <1>9 DEF AtFirst

(* The master tries the check. *)
LEMMA TryingGoesOn ==
  ASSUME TimesFit, IInv, IInv', Capped, open # {}, NEW c \in Masters, NEW d \in Nat,
         Checks(c, d), Cycle(c)
  PROVE  Checks(c, d)'
<1>1. /\ net'[Heartbeat(c)] = net[Heartbeat(c)]
      /\ \A a \in Addrs : net'[FwResponse(c, a)] = net[FwResponse(c, a)]
  BY CycleNet, Kinds DEF Only
<1>2. quiet' = quiet /\ open' = open
  BY DEF Cycle, registerVars
<1>3. buildAge'[c] = 0 /\ buildAge[c] = Period
  <2>1. buildAge \in [Masters -> Nat] /\ buildAge[c] <= Period
    BY DEF IInv, TypeOK, Capped
  <2> QED
    BY <2>1, CycleNet, TimesAre
<1>4. CASE Asking(c, d)
  <2>1. ~Busy(c)' /\ NoAnswerDue(c)'
    BY <1>4, CycleQuiet DEF Asking
  <2>2. Asking(c, d)'
    BY <1>1, <1>2, <1>4, <2>1 DEF Asking
  <2> QED
    BY <2>2 DEF Checks
<1>5. ASSUME NEW k \in {0, 1}, At(c, k), NoAnswerDue(c)
      PROVE  /\ At(c, k + 1)'
             /\ net'[FwCheck(c, k + 1)] = 1
             /\ \A j \in 1 .. Tries : j # k + 1 => net'[FwCheck(c, j)] = 0
             /\ \A a \in Addrs : net'[FwResponse(c, a)] = 0
  <2>1. \A j \in 0 .. Tries : checking[c][j] = IF j = k THEN 1 ELSE 0
    BY <1>5 DEF At
  <2>2. \A j \in 1 .. Tries : /\ j - 1 \in 0 .. Tries
                              /\ checking[c][j - 1] = IF j = k + 1 THEN 1 ELSE 0
    BY <2>1, TimesAre
  <2>3. k + 1 \in 1 .. Tries /\ k + 1 # 0
    BY TimesAre
  <2>4. \A j \in 0 .. Tries : checking'[c][j] = IF j = k + 1 THEN 1 ELSE 0
    <3>1. \A j \in 0 .. Tries : j = 0 \/ j \in 1 .. Tries
      BY TimesAre
    <3> QED
      BY <2>2, <2>3, <3>1, CycleNet
  <2>5. \A j \in 1 .. Tries : net'[FwCheck(c, j)] = IF j = k + 1 THEN 1 ELSE 0
    <3>1. \A j \in 1 .. Tries : net[FwCheck(c, j)] = 0
      BY <1>5 DEF NoAnswerDue
    <3> QED
      BY <2>2, <3>1, CycleNet
  <2>6. \A a \in Addrs : net'[FwResponse(c, a)] = 0
    BY <1>1, <1>5 DEF NoAnswerDue
  <2>7. net'[Heartbeat(c)] = 0
    BY <1>1, <1>5 DEF At
  <2> QED
    BY <2>3, <2>4, <2>5, <2>6, <2>7 DEF At
<1>6. CASE AtFirst(c, d)
  <2>1. /\ quiet[c] <= Period /\ 2 * Period <= d
        /\ "main" \notin open => 3 * Period <= d
    BY <1>3, <1>6, TimesAre DEF AtFirst
  <2>2. quiet[c] \in Nat /\ quiet[c] <= 2 * Period
    <3>1. quiet[c] \in Nat
      BY DEF IInv, TypeOK
    <3> QED
      BY <2>1, <3>1, TimesAre
  <2>3. At(c, 0) /\ NoAnswerDue(c) /\ 0 + 1 = 1
    BY <1>6 DEF AtFirst
  <2>4. CheckDue(c, 1, d)'
    BY <1>2, <1>3, <1>5, <2>1, <2>2, <2>3, CheckedAddr DEF CheckDue, UnderWay, Checked
  <2> QED
    BY <2>4 DEF Checks
<1>7. CASE AtSecond(c, d)
  <2>1. /\ quiet[c] <= 2 * Period /\ 2 * Period <= d /\ "main" \notin open
    BY <1>3, <1>7, TimesAre DEF AtSecond
  <2>2. "alt" \in open
    BY <2>1 DEF IInv, TypeOK, Addrs
  <2>3. At(c, 1) /\ NoAnswerDue(c) /\ 1 + 1 = 2
    BY <1>7 DEF AtSecond
  <2>4. Checked(2) = "alt"
    BY CheckedAddr
  <2>5. CheckDue(c, 2, d)'
    <3>1. UnderWay(c, 2, d)'
      BY <1>2, <1>3, <1>5, <2>1, <2>3 DEF UnderWay
    <3>2. Checked(2) \in open'
      BY <1>2, <2>2, <2>4
    <3>3. /\ net'[FwCheck(c, 2)] = 1
          /\ \A j \in 1 .. Tries : j # 2 => net'[FwCheck(c, j)] = 0
          /\ \A a \in Addrs : net'[FwResponse(c, a)] = 0
      BY <1>5, <2>3
    <3> QED
      BY <3>1, <3>2, <3>3 DEF CheckDue
  <2> QED
    BY <2>5 DEF Checks
<1>8. CASE \E k \in {1, 2} : UnderWay(c, k, d)
  BY <1>3, <1>8, TimesAre DEF UnderWay
<1> QED
  BY <1>4, <1>6, <1>7, <1>8 DEF Checks, CheckDue, AnswerDue

(* The check comes to the server, which answers if it has not been kept    *)
(* out.                                                                    *)
LEMMA CheckGoesOn ==
  ASSUME TimesFit, IInv, IInv', open # {}, NEW c \in Masters, NEW d \in Nat, Checks(c, d),
         NEW k \in 1 .. Tries, GotCheck(c, k)
  PROVE  Checks(c, d)'
<1>1. /\ net[FwCheck(c, k)] > 0 /\ net'[FwCheck(c, k)] = net[FwCheck(c, k)] - 1
      /\ \A j \in 1 .. Tries : j # k => net'[FwCheck(c, j)] = net[FwCheck(c, j)]
      /\ \A a \in Addrs : a # Checked(k) \/ Checked(k) \notin open =>
           net'[FwResponse(c, a)] = net[FwResponse(c, a)]
      /\ Checked(k) \in open =>
           net'[FwResponse(c, Checked(k))] = net[FwResponse(c, Checked(k))] + 1
      /\ Only({"FWCHECK", "FWRESPONSE"})
  BY GotCheckNet
<1>2. net'[Heartbeat(c)] = net[Heartbeat(c)]
  BY <1>1, Kinds DEF Only
<1>3. checking' = checking /\ buildAge' = buildAge /\ quiet' = quiet /\ open' = open
  BY DEF GotCheck, registerVars, masterVars
<1>4. k \in {1, 2} /\ CheckDue(c, k, d)
  <2>1. \A j \in {1, 2} : CheckDue(c, j, d) => k = j
    BY <1>1 DEF CheckDue
  <2>2. ~Asking(c, d) /\ ~AtFirst(c, d) /\ ~AtSecond(c, d)
    BY <1>1 DEF Asking, AtFirst, AtSecond, NoAnswerDue
  <2>3. \A j \in {1, 2} : ~AnswerDue(c, j, d)
    BY <1>1 DEF AnswerDue
  <2> QED
    BY <2>1, <2>2, <2>3 DEF Checks
<1>5. /\ UnderWay(c, k, d) /\ net[FwCheck(c, k)] = 1
      /\ \A j \in 1 .. Tries : j # k => net[FwCheck(c, j)] = 0
      /\ \A a \in Addrs : net[FwResponse(c, a)] = 0
      /\ Checked(k) \notin open => 3 * Period <= d
  BY <1>4 DEF CheckDue
<1>6. \A j \in 1 .. Tries : net'[FwCheck(c, j)] = 0
  BY <1>1, <1>5
<1>7. At(c, k)' /\ UnderWay(c, k, d)'
  BY <1>2, <1>3, <1>5 DEF UnderWay, At
<1>8. CASE Checked(k) \in open
  <2>1. net'[FwResponse(c, Checked(k))] = 1
    <3>1. Checked(k) \in Addrs
      BY CheckedAddr
    <3> QED
      BY <1>1, <1>5, <1>8, <3>1
  <2>2. \A a \in Addrs : a # Checked(k) => net'[FwResponse(c, a)] = 0
    BY <1>1, <1>5
  <2>3. AnswerDue(c, k, d)'
    BY <1>3, <1>6, <1>7, <1>8, <2>1, <2>2 DEF AnswerDue
  <2> QED
    BY <1>4, <2>3 DEF Checks
<1>9. CASE Checked(k) \notin open
  <2>1. k = 1 /\ "main" \notin open /\ quiet[c] <= Period
    <3>1. CASE k = 2
      <4>1. "main" \notin open /\ "alt" \notin open
        BY <1>5, <1>9, <3>1, CheckedAddr DEF UnderWay
      <4> QED
        BY <4>1 DEF IInv, TypeOK, Addrs
    <3>2. CASE k = 1
      BY <1>5, <1>9, <3>2, CheckedAddr DEF UnderWay
    <3> QED
      BY <1>4, <3>1, <3>2
  <2>2. NoAnswerDue(c)'
    BY <1>1, <1>5, <1>6, <1>9 DEF NoAnswerDue
  <2>3. buildAge[c] \in Nat /\ quiet[c] \in Nat
    BY DEF IInv, TypeOK
  <2>4. quiet[c] <= Period + buildAge[c] /\ 3 * Period <= d + buildAge[c]
    BY <1>5, <1>9, <2>1, <2>3, TimesAre
  <2>5. AtSecond(c, d)'
    BY <1>3, <1>7, <2>1, <2>2, <2>4 DEF AtSecond
  <2> QED
    BY <2>5 DEF Checks
<1> QED
  BY <1>8, <1>9

(* The check goes on. *)
LEMMA CheckingGoesOn ==
  ASSUME TimesFit, IInv, IInv', Capped, open # {}, NEW d \in Nat, chosen \in Masters,
         Checking(d), Between
  PROVE  chosen' \in Masters /\ Checking(d)'
<1>1. /\ state = "HEARTBEAT" /\ NoOk /\ \A m \in Masters \ {chosen} : Idle(m)
      /\ age <= Beat + quiet[chosen] /\ Checks(chosen, d)
  BY DEF Checking
<1>2. NoOk'
  BY <1>1, SameOk DEF NoOk, SameOks, Between
<1>3. /\ age \in Nat /\ quiet[chosen] \in Nat /\ buildAge[chosen] \in Nat
      /\ buildAge[chosen] <= Period
  BY DEF IInv, TypeOK, Capped
<1>4. quiet[chosen] <= HeartbeatEvery /\ age <= GiveUp
  <2>1. quiet[chosen] <= 2 * Period
    <3>1. CASE Asking(chosen, d) \/ AtFirst(chosen, d) \/ AtSecond(chosen, d)
      BY <1>3, <3>1, TimesAre DEF Asking, AtFirst, AtSecond
    <3>2. CASE \E k \in {1, 2} : UnderWay(chosen, k, d)
      BY <3>2 DEF UnderWay
    <3> QED
      BY <1>1, <3>1, <3>2 DEF Checks, CheckDue, AnswerDue
  <2> QED
    BY <1>1, <1>3, <2>1, TimesAre
<1>5. UpdateHeartbeat => net' = net /\ UNCHANGED <<state, age, chosen, quiet>>
  BY <1>3, <1>4, TimesAre DEF UpdateHeartbeat, GiveUpInTime
<1>6. UNCHANGED <<state, age, chosen, quiet>>
  BY <1>1, <1>5, ServerStays, MasterIsServer
<1>7. SUFFICES (\A m \in Masters \ {chosen} : Idle(m)') /\ Checks(chosen, d)'
  BY <1>1, <1>2, <1>6 DEF Checking
<1>8. CASE \A m \in Masters : SameAt(m)
  <2>1. \A m \in Masters \ {chosen} : Idle(m)'
    BY <1>1, <1>8, SameAtKeeps
  <2>2. Checks(chosen, d)'
    BY <1>1, <1>6, <1>8, SameAtKeeps
  <2> QED
    BY <2>1, <2>2
<1>9. CASE UpdateHeartbeat
  <2>1. \A m \in Masters : SameAt(m)
    BY <1>5, <1>9 DEF SameAt, UpdateHeartbeat, masterVars
  <2> QED
    BY <1>8, <2>1
<1>10. CASE Aside
  <2>1. SameMasters
    BY <1>10, AsideKeeps
  <2>2. \A m \in Masters : SameAt(m)
    BY <2>1 DEF SameMasters, SameBeats, SameAnswers, SameAt
  <2> QED
    BY <1>8, <2>2
<1>11. ASSUME NEW m \in Masters, StartCheck(m)
       PROVE  (\A n \in Masters \ {chosen} : Idle(n)') /\ Checks(chosen, d)'
  <2>1. m = chosen
    BY <1>1, <1>11, IdleBlocks
  <2>2. Checks(chosen, d)'
    BY <1>1, <1>6, <1>11, <2>1, AskingGoesOn DEF Checks
  <2>3. \A n \in Masters \ {chosen} : SameAt(n)
    <3>1. checking \in [Masters -> [0 .. Tries -> Nat]]
      BY DEF IInv, TypeOK
    <3>2. \A n \in Masters \ {chosen} : checking'[n] = checking[n]
      BY <1>11, <2>1, <3>1 DEF StartCheck
    <3>3. \A n \in Masters \ {chosen} : net'[Heartbeat(n)] = net[Heartbeat(n)]
      BY <1>11, <2>1, StartCheckNet
    <3> QED
      BY <1>11, <3>2, <3>3, BeatKeeps DEF SameAt, SameAnswers
  <2> QED
    BY <1>1, <2>2, <2>3, SameAtKeeps
<1>12. ASSUME NEW m \in Masters, Cycle(m)
       PROVE  (\A n \in Masters \ {chosen} : Idle(n)') /\ Checks(chosen, d)'
  <2>1. \A n \in Masters \ {chosen} : Idle(n)'
    BY <1>1, <1>12, CycleIdle
  <2>2. CASE m = chosen
    BY <1>1, <1>6, <1>12, <2>1, <2>2, TryingGoesOn
  <2>3. CASE m # chosen
    <3>1. SameAt(chosen)
      <4>1. /\ net'[Heartbeat(chosen)] = net[Heartbeat(chosen)]
            /\ \A a \in Addrs : net'[FwResponse(chosen, a)] = net[FwResponse(chosen, a)]
        BY <1>12, CycleNet, Kinds DEF Only
      <4>2. /\ \A k \in 1 .. Tries : net'[FwCheck(chosen, k)] = net[FwCheck(chosen, k)]
            /\ checking'[chosen] = checking[chosen]
        BY <1>12, <2>3, CycleNet
      <4>3. buildAge'[chosen] = buildAge[chosen]
        <5>1. buildAge \in [Masters -> Nat]
          BY DEF IInv, TypeOK
        <5> QED
          BY <1>12, <2>3, <5>1, CycleNet
      <4>4. open' = open
        BY <1>12 DEF Cycle
      <4> QED
        BY <4>1, <4>2, <4>3, <4>4 DEF SameAt
    <3> QED
      BY <1>1, <1>6, <2>1, <3>1, SameAtKeeps
  <2> QED
    BY <2>2, <2>3
<1>13. ASSUME NEW m \in Masters, NEW k \in 1 .. Tries, GotCheck(m, k)
       PROVE  (\A n \in Masters \ {chosen} : Idle(n)') /\ Checks(chosen, d)'
  <2>1. m = chosen
    BY <1>1, <1>13, IdleBlocks
  <2>2. Checks(chosen, d)'
    BY <1>1, <1>6, <1>13, <2>1, CheckGoesOn
  <2>3. \A n \in Masters \ {chosen} : SameAt(n)
    <3>1. checking' = checking /\ buildAge' = buildAge /\ open' = open
      BY <1>13 DEF GotCheck, masterVars
    <3>2. \A n \in Masters : net'[Heartbeat(n)] = net[Heartbeat(n)]
      BY <1>13, GotCheckNet, Kinds DEF Only
    <3>3. \A n \in Masters \ {chosen} :
            /\ \A j \in 1 .. Tries : net'[FwCheck(n, j)] = net[FwCheck(n, j)]
            /\ \A a \in Addrs : net'[FwResponse(n, a)] = net[FwResponse(n, a)]
      BY <1>13, <2>1, GotCheckNet
    <3> QED
      BY <3>1, <3>2, <3>3 DEF SameAt
  <2> QED
    BY <1>1, <2>2, <2>3, SameAtKeeps
<1>14. ASSUME NEW m \in Masters, NEW a \in Addrs, IgnoreServer(m, a)
       PROVE  FALSE
  <2>1. m = chosen
    BY <1>1, <1>14, IdleBlocks
  <2>2. net[FwResponse(chosen, a)] > 0 /\ \A k \in 0 .. Tries : checking[chosen][k] = 0
    BY <1>14, <2>1 DEF IgnoreServer
  <2>3. \A k \in {1, 2} : ~UnderWay(chosen, k, d)
    <3>1. \A k \in {1, 2} : k \in 0 .. Tries
      BY TimesAre
    <3> QED
      BY <2>2, <3>1 DEF UnderWay, At
  <2>4. ~Asking(chosen, d) /\ ~AtFirst(chosen, d) /\ ~AtSecond(chosen, d)
    BY <2>2 DEF Asking, AtFirst, AtSecond, NoAnswerDue
  <2> QED
    BY <1>1, <2>3, <2>4 DEF Checks, CheckDue, AnswerDue
<1>15. \/ UpdateHeartbeat \/ Aside
       \/ \E m \in Masters : \/ StartCheck(m) \/ Cycle(m)
                             \/ \E k \in 1 .. Tries : GotCheck(m, k)
                             \/ \E a \in Addrs : IgnoreServer(m, a)
  BY DEF Between, Plain, Aside
<1> QED
  BY <1>9, <1>10, <1>11, <1>12, <1>13, <1>14, <1>15


(* The master lists the server and tells it so. *)
LEMMA CleanListed ==
  ASSUME TimesFit, IInv, IInv', Capped, NEW d \in Nat, Clean(d),
         NEW m \in Masters, NEW a \in Addrs, AddServer(m, a)
  PROVE  Clean(Longest)'
<1>1. ~Idle(m)
  BY IdleBlocks
<1>2. Checking(d) /\ m = chosen
  BY <1>1 DEF Clean, Looking, Resting, Waiting, Accepted, Checking
<1>3. /\ state = "HEARTBEAT" /\ \A n \in Masters \ {m} : Idle(n)
      /\ age <= Beat + quiet[m] /\ Checks(m, d)
  BY <1>2 DEF Checking
<1>4. /\ net[FwResponse(m, a)] > 0 /\ net'[FwResponse(m, a)] = net[FwResponse(m, a)] - 1
      /\ \A n \in Masters, b \in Addrs :
           n # m \/ b # a => net'[FwResponse(n, b)] = net[FwResponse(n, b)]
      /\ net'[FwOk(m)] > 0 /\ Only({"FWRESPONSE", "FWOK"})
  BY AddServerNet
<1>5. PICK k \in {1, 2} : AnswerDue(m, k, d)
  BY <1>3, <1>4 DEF Checks, Asking, AtFirst, AtSecond, NoAnswerDue, CheckDue
<1>6. /\ UnderWay(m, k, d)
      /\ \A j \in 1 .. Tries : net[FwCheck(m, j)] = 0
      /\ net[FwResponse(m, Checked(k))] = 1
      /\ \A b \in Addrs : b # Checked(k) => net[FwResponse(m, b)] = 0
  BY <1>5 DEF AnswerDue
<1>7. /\ At(m, k) /\ quiet[m] <= 2 * Period
  BY <1>6 DEF UnderWay
<1>8. /\ \A n \in Masters : net'[Heartbeat(n)] = net[Heartbeat(n)]
      /\ \A n \in Masters, j \in 1 .. Tries : net'[FwCheck(n, j)] = net[FwCheck(n, j)]
  BY <1>4, Kinds DEF Only
<1>9. NoAnswerDue(m)'
  <2>1. a = Checked(k)
    BY <1>4, <1>6
  <2>2. \A b \in Addrs : net'[FwResponse(m, b)] = 0
    BY <1>4, <1>6, <2>1
  <2> QED
    BY <1>6, <1>8, <2>2 DEF NoAnswerDue
<1>10. /\ \A n \in Masters \ {m} : checking'[n] = checking[n]
       /\ \A j \in 0 .. Tries : checking'[m][j] = 0
  <2>1. checking \in [Masters -> [0 .. Tries -> Nat]]
    BY DEF IInv, TypeOK
  <2>2. PICK j \in 0 .. Tries :
          /\ checking[m][j] > 0
          /\ checking' = [checking EXCEPT ![m] = [checking[m] EXCEPT ![j] = checking[m][j] - 1]]
    BY DEF AddServer
  <2>3. j = k /\ checking[m][j] - 1 = 0
    BY <1>7, <2>2 DEF At
  <2>4. checking'[m] = [checking[m] EXCEPT ![j] = 0]
    BY <2>1, <2>2, <2>3
  <2>5. \A i \in 0 .. Tries : i # j => checking[m][i] = 0
    BY <1>7, <2>3 DEF At
  <2>6. checking[m] \in [0 .. Tries -> Nat]
    BY <2>1
  <2> QED
    BY <2>1, <2>2, <2>4, <2>5, <2>6
<1>11. \A n \in Masters : Idle(n)'
  <2>1. Idle(m)'
    BY <1>7, <1>8, <1>9, <1>10 DEF Idle, Busy, At
  <2>2. \A n \in Masters \ {m} : Idle(n)'
    BY <1>3, <1>4, <1>8, <1>10 DEF Idle, Busy, NoAnswerDue
  <2> QED
    BY <2>1, <2>2
<1>12. state' = state /\ age' = age /\ chosen' = chosen /\ quiet' = quiet
  BY DEF AddServer, registerVars
<1>13. age <= GiveUp /\ quiet[m] <= HeartbeatEvery
  <2>1. age \in Nat /\ quiet[m] \in Nat
    BY DEF IInv, TypeOK
  <2> QED
    BY <1>3, <1>7, <2>1, TimesAre
<1>14. Longest <= Longest
  BY TimesAre
<1> QED
  BY <1>2, <1>3, <1>4, <1>11, <1>12, <1>13, <1>14 DEF Clean, Accepted

(* The server takes the FWOK. *)
LEMMA CleanTold ==
  ASSUME TimesFit, IInv, NEW d \in Nat, Clean(d), NEW m \in Masters, GotOk(m)
  PROVE  Clean(Longest)'
<1>1. ~NoOk
  BY OkBlocks
<1>2. chosen \in Masters /\ \A n \in Masters : Idle(n)
  BY <1>1 DEF Clean, Looking, Resting, Waiting, Checking, Accepted
<1>3. \A n \in Masters : Idle(n)'
  <2>1. Aside
    BY DEF Aside
  <2> QED
    BY <1>2, <2>1, AsideKeeps, SameMastersKeep
<1>4. state' = "REGISTERED" /\ age' = 0 /\ chosen' = chosen
  BY DEF GotOk, NewState
<1>5. Longest <= Longest + 0
  BY TimesAre
<1> QED
  BY <1>2, <1>3, <1>4, <1>5 DEF Clean, Resting

(* Time passes. *)
LEMMA CleanTicks ==
  ASSUME TimesFit, IInv, ListInv, Capped, NEW d \in Nat, Clean(d), Tick
  PROVE  d > 0 /\ Clean(d - 1)'
<1>1. /\ state' = state /\ chosen' = chosen /\ valid' = valid
      /\ refreshing' = refreshing /\ resolved' = resolved
      /\ checking' = checking /\ open' = open /\ net' = net
      /\ age' = Later(age, GiveUp)
      /\ lookupAge' = (IF refreshing THEN lookupAge + 1 ELSE 0)
      /\ quiet' = [m \in Masters |-> Later(quiet[m], HeartbeatEvery)]
      /\ buildAge' = [m \in Masters |-> buildAge[m] + 1]
      /\ \A m \in Masters : buildAge[m] <= BuildEvery
      /\ refreshing => lookupAge < MaxLookup
      /\ \A x \in Messages : net[x] = 0
  BY DEF Tick
<1>2. Settled
  BY DEF Tick
<1>3. \A m \in Masters : Idle(m) => Idle(m)'
  BY <1>1 DEF Idle, Busy, NoAnswerDue
<1>4. NoOk => NoOk'
  BY <1>1 DEF NoOk
<1>5. /\ age \in Nat /\ lookupAge \in Nat /\ quiet \in [Masters -> Nat]
      /\ buildAge \in [Masters -> Nat]
  BY DEF IInv, TypeOK
<1>6. age <= GiveUp => age' = age + 1
  BY <1>1, <1>5, TimesAre DEF Later
<1>7. \A m \in Masters : quiet[m] <= HeartbeatEvery => quiet'[m] = quiet[m] + 1
  BY <1>1, <1>5, TimesAre DEF Later
<1>8. CASE Looking(d)
  <2>1. state = "UPDATE_ADDRS" /\ refreshing /\ MaxLookup + Patience + Anew <= d + lookupAge
    <3>1. state # "QUERY_COUNT"
      <4> SUFFICES ASSUME state = "QUERY_COUNT" PROVE FALSE
        OBVIOUS
      <4>1. Left # {} /\ \A m \in Left : quiet[m] <= Freq
        BY <1>2 DEF Settled
      <4>2. \A m \in Left : m \in Masters
        BY DEF Left, IInv, TypeOK
      <4>3. PICK m \in Left : CountDue(m)
        BY <1>5, <1>8, <4>1, <4>2, TimesAre DEF Looking, Seeking
      <4> QED
        BY <1>1, <4>2, <4>3, Kinds DEF CountDue
    <3> QED
      BY <1>2, <1>8, <3>1 DEF Looking, Seeking, Settled
  <2>2. d > 0 /\ MaxLookup + Patience + Anew <= (d - 1) + lookupAge'
    BY <1>1, <1>5, <2>1, TimesAre
  <2>3. Seeking(d - 1)'
    BY <1>1, <2>1, <2>2 DEF Seeking
  <2> QED
    BY <1>3, <1>4, <1>8, <2>2, <2>3 DEF Clean, Looking
<1>9. CASE chosen \in Masters /\ Resting(d)
  <2>1. /\ state = "REGISTERED" /\ age <= Freq /\ Longest <= d + age
    BY <1>2, <1>9 DEF Resting, Settled
  <2>2. d > 0 /\ Longest <= (d - 1) + age'
    BY <1>5, <1>6, <2>1, TimesAre
  <2>3. NoOk'
    BY <1>1, Kinds DEF NoOk
  <2> QED
    BY <1>1, <1>3, <1>9, <2>2, <2>3 DEF Clean, Resting
<1>10. CASE chosen \in Masters /\ Waiting(d)
  <2>1. age <= GiveUp /\ quiet[chosen] <= HeartbeatEvery
    BY <1>2, <1>10, MasterIsServer DEF Waiting, Settled
  <2>2. age' = age + 1 /\ quiet'[chosen] = quiet[chosen] + 1 /\ quiet[chosen] \in Nat
    BY <1>5, <1>6, <1>7, <1>10, <2>1
  <2>3. /\ d > 0 /\ age' <= quiet'[chosen]
        /\ 2 * Beat + 2 * Period <= (d - 1) + quiet'[chosen]
    <3>1. age <= quiet[chosen] /\ 2 * Beat + 2 * Period <= d + quiet[chosen]
      BY <1>10 DEF Waiting
    <3> QED
      BY <1>5, <2>1, <2>2, <3>1, TimesAre
  <2> QED
    BY <1>1, <1>3, <1>4, <1>10, <2>3 DEF Clean, Waiting
<1>11. CASE chosen \in Masters /\ Checking(d)
  <2>1. age <= GiveUp /\ quiet[chosen] <= HeartbeatEvery
    BY <1>2, <1>11, MasterIsServer DEF Checking, Settled
  <2>2. /\ age' = age + 1 /\ quiet'[chosen] = quiet[chosen] + 1 /\ quiet[chosen] \in Nat
        /\ buildAge'[chosen] = buildAge[chosen] + 1 /\ buildAge[chosen] \in Nat
        /\ buildAge[chosen] <= BuildEvery
    BY <1>1, <1>5, <1>6, <1>7, <1>11, <2>1
  <2>3. age' <= Beat + quiet'[chosen]
    BY <1>5, <1>11, <2>2, TimesAre DEF Checking
  <2>4. AtFirst(chosen, d) \/ AtSecond(chosen, d)
    <3>1. net[Heartbeat(chosen)] = 0
      BY <1>1, <1>11, Kinds
    <3>2. \A k \in {1, 2} : net[FwCheck(chosen, k)] = 0 /\ net[FwResponse(chosen, Checked(k))] = 0
      <4>1. \A k \in {1, 2} : k \in 1 .. Tries /\ Checked(k) \in Addrs
        BY TimesAre, CheckedAddr
      <4> QED
        BY <1>1, <1>11, <4>1, Kinds
    <3> QED
      BY <1>11, <3>1, <3>2 DEF Checking, Checks, Asking, CheckDue, AnswerDue
  <2>5. d > 0 /\ (AtFirst(chosen, d - 1)' \/ AtSecond(chosen, d - 1)')
    <3>1. \A k : At(chosen, k) => At(chosen, k)'
      BY <1>1 DEF At
    <3>2. NoAnswerDue(chosen) => NoAnswerDue(chosen)'
      BY <1>1 DEF NoAnswerDue
    <3>3. CASE AtFirst(chosen, d)
      <4>1. /\ quiet[chosen] <= buildAge[chosen] /\ 3 * Period <= d + buildAge[chosen]
            /\ "main" \notin open => 4 * Period <= d + buildAge[chosen]
        BY <3>3 DEF AtFirst
      <4>2. /\ d > 0 /\ quiet'[chosen] <= buildAge'[chosen]
            /\ 3 * Period <= (d - 1) + buildAge'[chosen]
            /\ "main" \notin open => 4 * Period <= (d - 1) + buildAge'[chosen]
        BY <2>2, <4>1, TimesAre
      <4> QED
        BY <1>1, <3>1, <3>2, <3>3, <4>2 DEF AtFirst
    <3>4. CASE AtSecond(chosen, d)
      <4>1. quiet[chosen] <= Period + buildAge[chosen] /\ 3 * Period <= d + buildAge[chosen]
        BY <3>4 DEF AtSecond
      <4>2. /\ d > 0 /\ quiet'[chosen] <= Period + buildAge'[chosen]
            /\ 3 * Period <= (d - 1) + buildAge'[chosen]
        BY <2>2, <4>1, TimesAre
      <4> QED
        BY <1>1, <3>1, <3>2, <3>4, <4>2 DEF AtSecond
    <3> QED
      BY <2>4, <3>3, <3>4
  <2> QED
    BY <1>1, <1>3, <1>4, <1>11, <2>3, <2>5 DEF Clean, Checking, Checks
<1>12. ~Accepted(d) \/ chosen \notin Masters
  BY <1>1, Kinds DEF Accepted
<1> QED
  BY <1>8, <1>9, <1>10, <1>11, <1>12 DEF Clean


(* One of the next two tries gets through. *)
LEMMA NextTries ==
  ASSUME TimesFit, IInv, open # {}
  PROVE  /\ \A k \in {0, 1, 2} : Reaches(k + 1) \/ Reaches(k + 2)
         /\ "main" \notin open => Reaches(2)
<1>1. "main" \in open \/ "alt" \in open
  BY DEF IInv, TypeOK, Addrs
<1>2. Checked(1) = "main" /\ Checked(2) = "alt" /\ Checked(3) = "main" /\ Checked(4) = "alt"
  BY DEF Checked
<1>3. 1 <= Tries /\ 2 <= Tries /\ 3 <= Tries /\ 4 <= Tries
  BY TimesAre
<1>4. "main" \in open => Reaches(1) /\ Reaches(3)
  BY <1>2, <1>3 DEF Reaches
<1>5. "alt" \in open => Reaches(2) /\ Reaches(4)
  BY <1>2, <1>3 DEF Reaches
<1>6. 0 + 1 = 1 /\ 0 + 2 = 2 /\ 1 + 1 = 2 /\ 1 + 2 = 3 /\ 2 + 1 = 3 /\ 2 + 2 = 4
  OBVIOUS
<1> QED
  BY <1>1, <1>4, <1>5, <1>6

(* A check before the fault is tried again after it. *)
LEMMA ChecksTried ==
  ASSUME TimesFit, IInv, open # {}, NEW m \in Masters, NEW d \in Nat, Checks(m, d),
         ~Asking(m, d)
  PROVE  \E k \in 0 .. Tries : Trying(m, k, d)
<1>1. buildAge[m] \in Nat
  BY DEF IInv, TypeOK
<1>2. \A k \in {0, 1, 2} : k \in 0 .. Tries /\ (At(m, k) => checking[m][k] > 0)
  <2>1. \A k \in {0, 1, 2} : k \in 0 .. Tries
    BY TimesAre
  <2> QED
    BY <2>1 DEF At
<1>3. CASE AtFirst(m, d)
  <2>1. Period <= d + buildAge[m] /\ 2 * Period <= d + buildAge[m]
    BY <1>1, <1>3, TimesAre DEF AtFirst
  <2>2. At(m, 0)
    BY <1>3 DEF AtFirst
  <2>3. Trying(m, 0, d)
    BY <1>2, <2>1, <2>2, NextTries DEF Trying
  <2> QED
    BY <1>2, <2>3
<1>4. CASE AtSecond(m, d)
  <2>1. Period <= d + buildAge[m] /\ At(m, 1) /\ "main" \notin open
    BY <1>1, <1>4, TimesAre DEF AtSecond
  <2>2. Trying(m, 1, d)
    BY <1>2, <2>1, NextTries, 1 + 1 = 2 DEF Trying
  <2> QED
    BY <1>2, <2>2
<1>5. ASSUME NEW k \in {1, 2}, UnderWay(m, k, d)
      PROVE  \E j \in 0 .. Tries : Trying(m, j, d)
  <2>1. Period <= d + buildAge[m] /\ 2 * Period <= d + buildAge[m] /\ At(m, k)
    BY <1>1, <1>5, TimesAre DEF UnderWay
  <2>2. Trying(m, k, d)
    BY <1>2, <2>1, NextTries DEF Trying
  <2> QED
    BY <1>2, <2>2
<1> QED
  BY <1>3, <1>4, <1>5 DEF Checks, CheckDue, AnswerDue

(* The fault comes, and one of the other ways is left. *)
LEMMA FaultComes ==
  ASSUME TimesFit, IInv, IInv', Capped, open # {}, NEW d \in Nat, Clean(d), Faulty
  PROVE  Within(d)' /\ QueryGoesOn'
<1>1. /\ UNCHANGED <<state, age, chosen, valid, got, quiet, lookupAge>>
      /\ UNCHANGED <<checking, buildAge, open>>
  BY DEF Faulty, Lose, Duplicate, LookupDone, registerVars, lookupVars, masterVars
<1>2. \/ refreshing' = refreshing /\ resolved' = resolved
      \/ refreshing /\ ~refreshing'
  BY DEF Faulty, Lose, Duplicate, LookupDone, lookupVars
<1>3. /\ age \in Nat /\ lookupAge \in Nat /\ lookupAge <= MaxLookup
      /\ quiet \in [Masters -> Nat] /\ Masters # {}
  <2>1. Masters # {}
    <3>1. NumMasters \in Nat \ {0}
      BY RegistrationAssumption
    <3>2. 0 \in Masters
      BY <3>1 DEF Masters
    <3> QED
      BY <3>2
  <2> QED
    BY <2>1 DEF IInv, TypeOK, Capped
<1>4. CASE Looking(d)
  <2>1. CASE state = "START"
    <3>1. Anew <= d
      BY <1>4, <2>1, TimesAre DEF Looking, Seeking
    <3> QED
      BY <1>1, <2>1, <3>1 DEF Within, OnServer, QueryGoesOn
  <2>2. CASE state = "UPDATE_ADDRS" /\ refreshing
    <3>1. MaxLookup + Patience + Anew <= d + lookupAge
      BY <1>4, <2>2 DEF Looking, Seeking
    <3>2. Anew <= d + lookupAge /\ Query + 2 * Period <= d /\ Patience + Anew <= d
      BY <1>3, <3>1, TimesAre
    <3> QED
      BY <1>1, <1>2, <2>2, <3>2 DEF Within, OnServer, QueryGoesOn
  <2>3. CASE state = "UPDATE_ADDRS" /\ ~refreshing
    <3>1. resolved = Masters /\ Query + 2 * Period <= d
      BY <1>4, <2>3, TimesAre DEF Looking, Seeking
    <3> QED
      BY <1>1, <1>2, <1>3, <2>3, <3>1 DEF Within, OnServer, QueryGoesOn
  <2>4. CASE state = "QUERY_COUNT"
    <3>1. age = 0 /\ valid = Masters /\ Query + 2 * Period <= d
      BY <1>4, <2>4, TimesAre DEF Looking, Seeking
    <3>2. age <= QueryTimeout /\ \E m \in valid : age + Pause <= QueryTimeout + quiet[m]
      BY <1>3, <3>1, TimesAre
    <3>3. Query + 2 * Period <= d + age
      BY <3>1, TimesAre
    <3>4. QueryGoesOn'
      BY <1>1, <3>2 DEF QueryGoesOn
    <3> QED
      BY <1>1, <1>3, <2>4, <3>1, <3>3, <3>4 DEF Within, OnServer
  <2> QED
    BY <1>4, <2>1, <2>2, <2>3, <2>4 DEF Looking, Seeking
<1>5. CASE chosen \in Masters /\ Resting(d)
  <2>1. Pause + Patience + Anew <= d + age /\ state = "REGISTERED"
    BY <1>3, <1>5, TimesAre DEF Resting
  <2> QED
    BY <1>1, <2>1 DEF Within, OnServer, QueryGoesOn
<1>6. CASE chosen \in Masters /\ Waiting(d)
  <2>1. state = "HEARTBEAT" /\ age <= quiet[chosen] /\ 2 * Beat + 2 * Period <= d + quiet[chosen]
    BY <1>6 DEF Waiting
  <2>2. age + Beat <= Patience + quiet[chosen] /\ Beat + 2 * Period <= d + quiet[chosen]
    BY <1>3, <1>6, <2>1, TimesAre
  <2>3. chosen # NoServer
    BY <1>6, MasterIsServer
  <2> QED
    BY <1>1, <2>1, <2>2, <2>3 DEF Within, OnServer, QueryGoesOn
<1>7. CASE chosen \in Masters /\ Checking(d)
  <2>1. state = "HEARTBEAT" /\ age <= Beat + quiet[chosen] /\ Checks(chosen, d)
    BY <1>7 DEF Checking
  <2>2. QueryGoesOn'
    BY <1>1, <2>1 DEF QueryGoesOn
  <2>3. CASE Asking(chosen, d)
    <3>1. quiet[chosen] = 0 /\ 2 * Period + Beat <= d
      BY <2>3 DEF Asking
    <3>2. age + Beat <= Patience + quiet[chosen] /\ Beat + 2 * Period <= d + quiet[chosen]
      BY <1>3, <2>1, <3>1, TimesAre
    <3>3. chosen # NoServer
      BY <1>7, MasterIsServer
    <3> QED
      BY <1>1, <2>1, <2>2, <3>2, <3>3 DEF Within, OnServer
  <2>4. CASE ~Asking(chosen, d)
    <3>1. PICK k \in 0 .. Tries : Trying(chosen, k, d)
      BY <1>7, <2>1, <2>4, ChecksTried
    <3>2. Trying(chosen, k, d)'
      BY <1>1, <3>1 DEF Trying, Reaches
    <3>3. OnMaster(d)'
      BY <1>1, <1>7, <3>2 DEF OnMaster
    <3> QED
      BY <2>2, <3>3 DEF Within
  <2> QED
    BY <2>3, <2>4
<1>8. CASE chosen \in Masters /\ Accepted(d)
  <2>1. Patience + Anew <= d + age /\ state = "HEARTBEAT"
    BY <1>3, <1>8, TimesAre DEF Accepted
  <2> QED
    BY <1>1, <2>1 DEF Within, OnServer, QueryGoesOn
<1> QED
  BY <1>4, <1>5, <1>6, <1>7, <1>8 DEF Clean

-----------------------------------------------------------------------------
(* The deadline                                                            *)

(* A step of a master that lists the server, or of the server that is told *)
(* so.                                                                     *)
Listing ==
  \E m \in Masters : GotOk(m) \/ \E a \in Addrs : AddServer(m, a)

(* The next FWOK comes before the deadline; the one that comes sets a new  *)
(* one.                                                                    *)
LEMMA DeadlineKept ==
  ASSUME TimesFit, MaxFaults <= 1, IInv, IInv', ListInv, Capped, Capped', open # {},
         faults # 0 => QueryGoesOn, NEW d \in Nat, In(d), [Next]_vars, ~crowded'
  PROVE  /\ faults' # 0 => QueryGoesOn'
         /\ \/ Listing /\ In(Longest)'
            \/ Tick /\ d > 0 /\ In(d - 1)'
            \/ ~Listing /\ ~Tick /\ In(d)'
<1>0. faults \in Nat /\ MaxFaults \in Nat
  BY RegistrationAssumption DEF IInv, TypeOK
<1>1. CASE Faulty
  <2>1. faults = 0 /\ faults' = 1
    <3>1. Fault
      BY <1>1 DEF Faulty, Lose, Duplicate, LookupDone
    <3> QED
      BY <1>0, <3>1 DEF Fault
  <2>2. Clean(d)
    BY <2>1 DEF In
  <2>3. Within(d)' /\ QueryGoesOn'
    BY <1>1, <2>2, FaultComes
  <2>4. ~Tick /\ ~Listing
    BY <2>1 DEF Tick, Listing, GotOk, AddServer
  <2> QED
    BY <2>1, <2>3, <2>4 DEF In
<1>2. CASE ~Faulty
  <2>1. faults' = faults
    <3>1. UpdateHeartbeat \/ Tick => faults' = faults
      BY DEF UpdateHeartbeat, Tick
    <3>2. Plain => faults' = faults
      BY DEF Plain, vars, UpdateStart, UpdateAddrs, UpdateQuery, UpdateHeartbeatAstray,
         UpdateRegistered, UpdateError, LookupDone, GotCount, GotError, ServeCount, GotCheck,
         IgnoreServer
    <3>3. \A m \in Masters : \/ GotOk(m) \/ StartCheck(m) \/ Cycle(m)
                             \/ \E a \in Addrs : AddServer(m, a)
            => faults' = faults
      BY DEF GotOk, StartCheck, Cycle, AddServer
    <3> QED
      BY <1>2, <3>1, <3>2, <3>3, StepKinds
  <2>2. faults' # 0 => QueryGoesOn'
    BY <1>2, <2>1, StepKeepsQuery
  <2>3. CASE Listing
    <3>1. CASE faults = 0
      <4>1. Clean(Longest)'
        BY <2>3, <3>1, CleanTold, CleanListed DEF Listing, In
      <4> QED
        BY <2>1, <2>2, <2>3, <3>1, <4>1 DEF In
    <3>2. CASE faults # 0
      BY <2>1, <2>2, <2>3, <3>2, AnyWithin DEF In
    <3> QED
      BY <3>1, <3>2
  <2>4. CASE Tick
    <3>1. CASE faults = 0
      BY <2>1, <2>2, <2>4, <3>1, CleanTicks DEF In
    <3>2. CASE faults # 0
      BY <2>1, <2>2, <2>4, <3>2, TickKeepsWay DEF In
    <3> QED
      BY <3>1, <3>2
  <2>5. CASE ~Listing /\ ~Tick
    <3>1. Between
      BY <1>2, <2>5, StepKinds DEF Listing, Between
    <3>2. CASE faults = 0
      <4>1. Clean(d)
        BY <3>2 DEF In
      <4>2. Clean(d)'
        BY <3>1, <4>1, LookingGoesOn, RestingGoesOn, WaitingGoesOn, CheckingGoesOn,
           AcceptedGoesOn DEF Clean
      <4> QED
        BY <2>1, <2>2, <2>5, <3>2, <4>2 DEF In
    <3>3. CASE faults # 0
      <4>1. Within(d)'
        BY <3>1, <3>3, PlainWithin DEF Between, In
      <4> QED
        BY <2>1, <2>2, <2>5, <3>3, <4>1 DEF In
    <3> QED
      BY <3>2, <3>3
  <2> QED
    BY <2>3, <2>4, <2>5
<1> QED
  BY <1>1, <1>2


-----------------------------------------------------------------------------
(* The entries                                                             *)

(* What the steps do to the lists, but those of AddServer and Tick, unless *)
(* a list is full.                                                         *)
LEMMA ListsKept ==
  ASSUME IInv, [Next]_vars, ~Tick, ~crowded'
  PROVE  /\ open' = open /\ (crowded => crowded')
         /\ (\E m \in Masters : Cycle(m)) \/ (sent' = sent /\ buildAge' = buildAge)
         /\ (\E m \in Masters : Cycle(m) \/ \E a \in Addrs : AddServer(m, a)) \/ listed' = listed
<1> DEFINE same == /\ open' = open /\ crowded' = crowded /\ listed' = listed
                   /\ sent' = sent /\ buildAge' = buildAge
<1>1. Faulty => same
  BY DEF Faulty, Lose, Duplicate, LookupDone, masterVars
<1>2. UpdateHeartbeat => same
  BY DEF UpdateHeartbeat, masterVars
<1>3. Plain => same
  BY DEF Plain, vars, UpdateStart, UpdateAddrs, UpdateQuery, UpdateHeartbeatAstray,
     UpdateRegistered, UpdateError, LookupDone, GotCount, GotError, ServeCount, GotCheck,
     IgnoreServer, masterVars
<1>4. \A m \in Masters : GotOk(m) \/ StartCheck(m) => same
  BY DEF GotOk, StartCheck, masterVars
<1>5. \A m \in Masters : Cycle(m) => open' = open /\ (crowded => crowded')
  BY DEF Cycle, BuildPackets
<1>6. \A m \in Masters, a \in Addrs : AddServer(m, a) =>
        open' = open /\ (crowded => crowded') /\ sent' = sent /\ buildAge' = buildAge
  BY DEF AddServer
<1>7. \/ same
      \/ \E m \in Masters : Cycle(m) \/ \E a \in Addrs : AddServer(m, a)
  BY <1>1, <1>2, <1>3, <1>4, StepKinds
<1> QED
  BY <1>5, <1>6, <1>7

(* What a master purges has expired; the rest it sends. *)
LEMMA CycleSends ==
  ASSUME IInv, IInv', NEW c \in Masters, Cycle(c), ~crowded'
  PROVE  /\ \A m \in Masters : m # c => /\ listed'[m] = listed[m] /\ sent'[m] = sent[m]
                                        /\ buildAge'[m] = buildAge[m]
         /\ \A a \in Addrs :
              IF listed[c][a] > ExpireTime THEN listed'[c][a] = NotListed
              ELSE listed'[c][a] = listed[c][a]
         /\ \A a \in Addrs : listed'[c][a] # NotListed =>
              sent'[c] /\ listed'[c][a] = listed[c][a] /\ listed[c][a] <= ExpireTime
<1>1. /\ listed \in [Masters -> [Addrs -> Nat \cup {NotListed}]]
      /\ sent \in [Masters -> BOOLEAN] /\ buildAge \in [Masters -> Nat]
      /\ others[c] \in Nat /\ ExpireTime \in Nat /\ MaxSent \in Nat
  BY RegistrationAssumption DEF IInv, TypeOK
<1>2. listed' = [listed EXCEPT ![c] =
        [a \in Addrs |-> IF listed[c][a] > ExpireTime THEN NotListed ELSE listed[c][a]]]
  BY DEF Cycle, PurgeServers
<1>3. /\ \E room \in BOOLEAN :
           /\ others[c] + Cardinality({a \in Addrs : listed'[c][a] # NotListed}) <= MaxSent => room
           /\ sent' = [sent EXCEPT ![c] = (\E a \in Addrs : listed'[c][a] # NotListed) /\ room]
      /\ ~(others[c] + Cardinality({a \in Addrs : listed'[c][a] # NotListed}) > MaxSent)
  BY DEF Cycle, BuildPackets
<1>4. others[c] + Cardinality({a \in Addrs : listed'[c][a] # NotListed}) <= MaxSent
  <2>1. Cardinality({a \in Addrs : listed'[c][a] # NotListed}) \in Nat
    BY EntriesFinite
  <2> QED
    BY <1>1, <1>3, <2>1
<1>5. sent' = [sent EXCEPT ![c] = \E a \in Addrs : listed'[c][a] # NotListed]
  BY <1>3, <1>4
<1>6. \A m \in Masters : m # c => /\ listed'[m] = listed[m] /\ sent'[m] = sent[m]
                                  /\ buildAge'[m] = buildAge[m]
  BY <1>1, <1>2, <1>5 DEF Cycle
<1>7. \A a \in Addrs :
        IF listed[c][a] > ExpireTime THEN listed'[c][a] = NotListed
        ELSE listed'[c][a] = listed[c][a]
  BY <1>1, <1>2
<1>8. \A a \in Addrs : listed'[c][a] # NotListed =>
        /\ sent'[c] /\ listed'[c][a] = listed[c][a] /\ listed[c][a] <= ExpireTime
  <2>1. \A a \in Addrs : listed[c][a] \in Int
    BY <1>1 DEF NotListed
  <2>2. (\E a \in Addrs : listed'[c][a] # NotListed) => sent'[c]
    BY <1>1, <1>5
  <2> QED
    BY <1>1, <1>7, <2>1, <2>2
<1> QED
  BY <1>6, <1>7, <1>8

(* A master that has not sent the server's entry will do so. *)
LEMMA UntilIs ==
  ASSUME TimesFit, IInv, Capped, NEW m \in Masters
  PROVE  /\ Until(m) \in 0 .. Period + 1
         /\ Until(m) = 0 <=> sent[m]
         /\ ~sent[m] => Until(m) = Period + 1 - buildAge[m]
<1>1. buildAge[m] \in Nat /\ buildAge[m] <= Period
  BY DEF IInv, TypeOK, Capped
<1> QED
  BY <1>1, TimesAre DEF Until

(* The master does its work. *)
LEMMA CycleCovers ==
  ASSUME TimesFit, IInv, IInv', Capped, Capped', NEW c \in Masters, Cycle(c), ~crowded',
         NEW e \in Nat, Covered(e)
  PROVE  Covered(e)'
<1>1. SUFFICES ASSUME NEW m \in Masters, NEW a \in Addrs,
                      listed'[m][a] # NotListed, Until(m)' <= e
               PROVE  \E n \in Masters, b \in Addrs :
                        listed'[n][b] # NotListed /\ Until(n)' <= e /\ listed'[n][b] + e <= ExpireTime
  BY DEF Covered
<1>2. \A n \in Masters : n # c => Until(n)' = Until(n) /\ listed'[n] = listed[n]
  BY CycleSends DEF Until
<1>3. ExpireTime \in Nat /\ listed \in [Masters -> [Addrs -> Nat \cup {NotListed}]]
  BY TimesAre DEF IInv, TypeOK
<1>4. (\E b \in Addrs : listed'[c][b] # NotListed) => Until(c)' = 0
  BY CycleSends DEF Until
<1>5. CASE m = c /\ e = 0
  <2>1. listed'[c][a] # NotListed /\ listed'[c][a] <= ExpireTime /\ listed'[c][a] \in Nat
    BY <1>1, <1>3, <1>5, CycleSends
  <2> QED
    BY <1>4, <1>5, <2>1
<1>6. CASE m # c \/ e # 0
  <2>1. listed[m][a] # NotListed /\ Until(m) <= e
    <3>1. CASE m # c
      BY <1>1, <1>2, <3>1
    <3>2. CASE m = c
      <4>1. buildAge[c] = Period
        <5>1. buildAge[c] \in Nat /\ buildAge[c] <= Period
          BY DEF IInv, TypeOK, Capped
        <5> QED
          BY <5>1, TimesAre DEF Cycle
      <4>2. Until(c) <= 1
        BY <4>1, TimesAre DEF Until
      <4>3. Until(c) \in Nat
        BY UntilIs, TimesAre
      <4>4. listed[c][a] # NotListed
        BY <1>1, <3>2, CycleSends
      <4> QED
        BY <1>6, <3>2, <4>2, <4>3, <4>4
    <3> QED
      BY <3>1, <3>2
  <2>2. PICK n \in Masters, b \in Addrs :
          listed[n][b] # NotListed /\ Until(n) <= e /\ listed[n][b] + e <= ExpireTime
    BY <2>1 DEF Covered
  <2>3. listed'[n][b] = listed[n][b]
    <3>1. CASE n # c
      BY <1>2, <3>1
    <3>2. CASE n = c
      <4>1. listed[c][b] \in Nat
        BY <1>3, <2>2, <3>2
      <4>2. ~(listed[c][b] > ExpireTime)
        BY <1>3, <2>2, <3>2, <4>1
      <4> QED
        BY <3>2, <4>2, CycleSends
    <3> QED
      BY <3>1, <3>2
  <2>4. Until(n)' <= e
    <3>1. CASE n # c
      BY <1>2, <2>2, <3>1
    <3>2. CASE n = c
      BY <1>4, <2>2, <2>3, <3>2
    <3> QED
      BY <3>1, <3>2
  <2> QED
    BY <2>2, <2>3, <2>4
<1> QED
  BY <1>5, <1>6

(* Time passes. *)
LEMMA TickCovers ==
  ASSUME TimesFit, IInv, Capped, NEW e \in Nat, Covered(e + 1), Tick
  PROVE  Covered(e)'
<1>1. /\ listed' = [m \in Masters |-> [a \in Addrs |->
                     IF listed[m][a] = NotListed THEN NotListed
                     ELSE Later(listed[m][a], ExpireTime)]]
      /\ sent' = sent /\ buildAge' = [m \in Masters |-> buildAge[m] + 1]
  BY DEF Tick
<1>2. /\ listed \in [Masters -> [Addrs -> Nat \cup {NotListed}]]
      /\ buildAge \in [Masters -> Nat] /\ ExpireTime \in Nat /\ Period \in Nat
  BY TimesAre DEF IInv, TypeOK
<1>3. \A m \in Masters : Until(m) <= e + 1 <=> Until(m)' <= e
  <2> SUFFICES ASSUME NEW m \in Masters
               PROVE  Until(m) <= e + 1 <=> Until(m)' <= e
    OBVIOUS
  <2>1. buildAge'[m] = buildAge[m] + 1 /\ buildAge[m] \in Nat /\ sent'[m] = sent[m]
    BY <1>1, <1>2
  <2>2. CASE sent[m]
    BY <2>1, <2>2 DEF Until
  <2>3. CASE ~sent[m]
    <3>1. Until(m) = Period + 1 - buildAge[m] /\ Until(m)' = Period + 1 - (buildAge[m] + 1)
      BY <2>1, <2>3, Period' = Period DEF Until, Period
    <3> QED
      BY <1>2, <2>1, <3>1
  <2> QED
    BY <2>2, <2>3
<1>4. SUFFICES ASSUME NEW m \in Masters, NEW a \in Addrs,
                      listed'[m][a] # NotListed, Until(m)' <= e
               PROVE  \E n \in Masters, b \in Addrs :
                        listed'[n][b] # NotListed /\ Until(n)' <= e /\ listed'[n][b] + e <= ExpireTime
  BY DEF Covered
<1>5. listed[m][a] # NotListed /\ Until(m) <= e + 1
  <2>1. listed'[m][a] = IF listed[m][a] = NotListed THEN NotListed
                        ELSE Later(listed[m][a], ExpireTime)
    BY <1>1
  <2> QED
    BY <1>3, <1>4, <2>1
<1>6. PICK n \in Masters, b \in Addrs :
        listed[n][b] # NotListed /\ Until(n) <= e + 1 /\ listed[n][b] + (e + 1) <= ExpireTime
  BY <1>5 DEF Covered
<1>7. listed[n][b] \in Nat
  BY <1>2, <1>6
<1>8. listed'[n][b] = listed[n][b] + 1
  <2>1. listed'[n][b] = Later(listed[n][b], ExpireTime)
    BY <1>1, <1>6
  <2> QED
    BY <1>2, <1>6, <1>7, <2>1 DEF Later
<1>9. listed'[n][b] # NotListed /\ listed'[n][b] + e <= ExpireTime
  BY <1>2, <1>6, <1>7, <1>8 DEF NotListed
<1> QED
  BY <1>3, <1>6, <1>9

(* A new entry, which m has listed just now, lasts until the next.         *)
LEMMA ListingCovers ==
  ASSUME TimesFit, IInv, Capped, NEW m \in Masters, NEW a \in Addrs,
         listed'[m][a] = 0, \A n \in Masters : n # m => listed'[n] = listed[n],
         sent' = sent, buildAge' = buildAge,
         NEW d \in Nat, \A e \in 0 .. d + Period : Covered(e)
  PROVE  \A e \in 0 .. Longest + Period : Covered(e)'
<1>1. \A n \in Masters : Until(n)' = Until(n) /\ Until(n) \in 0 .. Period + 1
  <2>1. \A n \in Masters : Until(n)' = Until(n)
    BY DEF Until
  <2> QED
    BY <2>1, UntilIs
<1> SUFFICES ASSUME NEW e \in 0 .. Longest + Period, NEW n \in Masters, NEW b \in Addrs,
                    listed'[n][b] # NotListed, Until(n)' <= e
             PROVE  \E p \in Masters, c \in Addrs :
                      listed'[p][c] # NotListed /\ Until(p)' <= e /\ listed'[p][c] + e <= ExpireTime
  BY DEF Covered
<1>2. CASE Until(m) <= e
  <2>1. 0 # NotListed /\ 0 + e <= ExpireTime
    BY TimesAre DEF NotListed
  <2> QED
    BY <1>1, <1>2, <2>1
<1>3. CASE ~(Until(m) <= e)
  <2>1. e \in 0 .. d + Period
    BY <1>1, <1>3, TimesAre
  <2>2. n # m /\ Until(n) <= e /\ listed[n][b] # NotListed
    BY <1>1, <1>3
  <2>3. PICK p \in Masters, c \in Addrs :
          listed[p][c] # NotListed /\ Until(p) <= e /\ listed[p][c] + e <= ExpireTime
    BY <2>1, <2>2 DEF Covered
  <2>4. p # m
    BY <1>3, <2>3
  <2> QED
    BY <1>1, <2>3, <2>4
<1> QED
  BY <1>2, <1>3


(* Every step leaves entries that last.                                    *)
LEMMA StepLasts ==
  ASSUME TimesFit, MaxFaults <= 1, IInv, IInv', ListInv, Capped, Capped', Lasts, [Next]_vars
  PROVE  Lasts'
<1> SUFFICES ASSUME open' # {}, ~crowded'
             PROVE  /\ faults' # 0 => QueryGoesOn'
                    /\ \E d \in 0 .. Longest : Lasting(d)'
  BY DEF Lasts
<1>1. open # {} /\ ~crowded
  <2>1. Tick => open' = open /\ crowded' = crowded
    BY DEF Tick
  <2> QED
    BY <2>1, ListsKept
<1>2. faults # 0 => QueryGoesOn
  BY <1>1 DEF Lasts
<1>3. PICK d \in 0 .. Longest : In(d) /\ \A e \in 0 .. d + Period : Covered(e)
  BY <1>1 DEF Lasts, Lasting
<1>4. d \in Nat /\ Longest \in Nat /\ Period \in Nat /\ Longest \in 0 .. Longest
  BY TimesAre
<1>5. /\ faults' # 0 => QueryGoesOn'
      /\ \/ Listing /\ In(Longest)'
         \/ Tick /\ d > 0 /\ In(d - 1)'
         \/ ~Listing /\ ~Tick /\ In(d)'
  BY <1>1, <1>2, <1>3, <1>4, DeadlineKept
<1>6. CASE Listing /\ In(Longest)'
  <2>1. \E m \in Masters, a \in Addrs :
          /\ listed'[m][a] = 0 /\ \A n \in Masters : n # m => listed'[n] = listed[n]
          /\ sent' = sent /\ buildAge' = buildAge
    <3>1. ASSUME NEW m \in Masters, GotOk(m)
          PROVE  /\ listed' = listed /\ sent' = sent /\ buildAge' = buildAge
                 /\ \E a \in Addrs : listed[m][a] = 0
      <4>1. \E a \in Addrs : listed[m][a] = 0
        BY <1>1, <3>1 DEF GotOk, ListInv, OkTrue
      <4> QED
        BY <3>1, <4>1 DEF GotOk, masterVars
    <3>2. ASSUME NEW m \in Masters, NEW a \in Addrs, AddServer(m, a)
          PROVE  /\ listed'[m][a] = 0 /\ \A n \in Masters : n # m => listed'[n] = listed[n]
                 /\ sent' = sent /\ buildAge' = buildAge
      <4>1. listed' = [listed EXCEPT ![m] = [listed[m] EXCEPT ![a] = 0]]
        BY <3>2 DEF AddServer
      <4>2. listed \in [Masters -> [Addrs -> Nat \cup {NotListed}]]
        BY DEF IInv, TypeOK
      <4>3. listed'[m] = [listed[m] EXCEPT ![a] = 0] /\ listed[m] \in [Addrs -> Nat \cup {NotListed}]
        BY <4>1, <4>2
      <4>4. \A n \in Masters : n # m => listed'[n] = listed[n]
        BY <4>1, <4>2
      <4> QED
        BY <3>2, <4>3, <4>4 DEF AddServer
    <3> QED
      BY <1>6, <3>1, <3>2 DEF Listing
  <2>2. \A e \in 0 .. Longest + Period : Covered(e)'
    BY <1>3, <1>4, <2>1, ListingCovers
  <2>3. Lasting(Longest)'
    BY <1>6, <2>2 DEF Lasting
  <2> QED
    BY <1>4, <1>5, <2>3
<1>7. CASE Tick /\ d > 0 /\ In(d - 1)'
  <2>1. d - 1 \in 0 .. Longest
    BY <1>3, <1>4, <1>7
  <2>2. \A e \in 0 .. (d - 1) + Period : Covered(e)'
    <3> SUFFICES ASSUME NEW e \in 0 .. (d - 1) + Period
                 PROVE  Covered(e)'
      OBVIOUS
    <3>1. e \in Nat /\ e + 1 \in 0 .. d + Period
      BY <1>4, <2>1
    <3> QED
      BY <1>3, <1>7, <3>1, TickCovers
  <2>3. Lasting(d - 1)'
    BY <1>7, <2>2 DEF Lasting
  <2> QED
    BY <1>5, <2>1, <2>3
<1>8. CASE ~Listing /\ ~Tick /\ In(d)'
  <2>1. \A e \in 0 .. d + Period : Covered(e)'
    <3> SUFFICES ASSUME NEW e \in 0 .. d + Period
                 PROVE  Covered(e)'
      OBVIOUS
    <3>1. e \in Nat /\ Covered(e)
      BY <1>3, <1>4
    <3>2. CASE \E m \in Masters : Cycle(m)
      BY <3>1, <3>2, CycleCovers
    <3>3. CASE ~\E m \in Masters : Cycle(m)
      <4>1. sent' = sent /\ buildAge' = buildAge /\ listed' = listed
        BY <1>8, <3>3, ListsKept DEF Listing
      <4>2. \A m \in Masters : Until(m)' = Until(m)
        BY <4>1 DEF Until
      <4> QED
        BY <3>1, <4>1, <4>2 DEF Covered
    <3> QED
      BY <3>2, <3>3
  <2>2. Lasting(d)'
    BY <1>8, <2>1 DEF Lasting
  <2> QED
    BY <1>3, <1>5, <2>2
<1> QED
  BY <1>5, <1>6, <1>7, <1>8

(* The other servers that a master may list are no more than it can.       *)
OthersFit == \A o \in Others, m \in Masters : o[m] <= MaxServers

(* It holds at the beginning. *)
LEMMA InitTimes ==
  ASSUME TimesFit, OthersFit, Init
  PROVE  TimesInv
<1>1. Capped
  <2>1. age <= Patience /\ lookupAge <= MaxLookup /\ state # "QUERY_COUNT"
    BY TimesAre DEF Init
  <2>2. \A m \in Masters : quiet[m] <= Beat /\ buildAge[m] <= Period
    <3>1. /\ quiet = [m \in Masters |-> HeartbeatEvery + 1]
          /\ buildAge \in [Masters -> 0 .. BuildEvery]
      BY DEF Init
    <3>2. HeartbeatEvery + 1 <= Beat /\ \A b \in 0 .. BuildEvery : b <= Period
      BY TimesAre
    <3> QED
      BY <3>1, <3>2
  <2>3. \A m \in Masters : NumServers(m) <= MaxServers
    <3> SUFFICES ASSUME NEW m \in Masters
                 PROVE  NumServers(m) <= MaxServers
      OBVIOUS
    <3>1. {a \in Addrs : listed[m][a] # NotListed} = {}
      BY DEF Init
    <3>2. NumServers(m) = others[m] + 0
      BY <3>1, FS_EmptySet DEF NumServers
    <3>3. others \in Others /\ others[m] \in Nat /\ MaxServers \in Nat
      BY RegistrationAssumption DEF Init, Masters
    <3>4. others[m] <= MaxServers
      BY <3>3 DEF OthersFit
    <3> QED
      BY <3>2, <3>3, <3>4
  <2> QED
    BY <2>1, <2>2, <2>3 DEF Capped
<1>2. \A x \in Messages : net[x] = 0
  BY DEF Init
<1>3. Clean(Longest)
  <2>1. NoOk
    BY <1>2, Kinds DEF NoOk
  <2>2. \A m \in Masters : Idle(m)
    BY <1>2, Kinds DEF Init, Idle, Busy, NoAnswerDue
  <2>3. MaxLookup + Patience + Anew <= Longest
    BY TimesAre
  <2> QED
    BY <2>1, <2>2, <2>3 DEF Init, Clean, Looking, Seeking
<1>4. \A e : Covered(e)
  BY DEF Init, Covered
<1>5. Lasts
  <2>1. Longest \in 0 .. Longest
    BY TimesAre
  <2> QED
    BY <1>3, <1>4, <2>1 DEF Init, Lasts, Lasting, In
<1> QED
  BY <1>1, <1>5 DEF TimesInv

(* A server that is found stays so by what the lists hold.                 *)
LEMMA PublishedKept ==
  ASSUME TimesFit, IInv, IInv', ListInv, Capped, Lasts, [Next]_vars, Published
  PROVE  Published' \/ crowded'
<1> SUFFICES ASSUME ~crowded'
             PROVE  Published'
  OBVIOUS
<1>1. CASE ~\E m \in Masters : Cycle(m)
  <2>1. Tick => sent' = sent
    BY DEF Tick
  <2>2. sent' = sent
    BY <1>1, <2>1, ListsKept
  <2> QED
    BY <2>2 DEF Published
<1>2. ASSUME NEW c \in Masters, Cycle(c)
      PROVE  Published'
  <2>1. PICK m \in Masters : sent[m]
    BY DEF Published
  <2>2. PICK a \in open : listed[m][a] # NotListed
    BY <2>1 DEF ListInv, SentIsReachable
  <2>3. a \in Addrs /\ ~crowded /\ open # {}
    BY <1>2, <2>2 DEF IInv, TypeOK, Cycle, BuildPackets
  <2>4. Covered(0)
    <3>1. PICK d \in 0 .. Longest : \A e \in 0 .. d + Period : Covered(e)
      BY <2>3 DEF Lasts, Lasting
    <3>2. 0 \in 0 .. d + Period
      BY TimesAre
    <3> QED
      BY <3>1, <3>2
  <2>5. PICK n \in Masters, b \in Addrs :
          listed[n][b] # NotListed /\ Until(n) <= 0 /\ listed[n][b] + 0 <= ExpireTime
    BY <2>1, <2>2, <2>3, <2>4, UntilIs DEF Covered
  <2>6. sent[n]
    BY <2>5, UntilIs, TimesAre
  <2>7. listed[n][b] \in Nat /\ ~(listed[n][b] > ExpireTime)
    <3>1. listed[n][b] \in Nat
      BY <2>5 DEF IInv, TypeOK
    <3> QED
      BY <2>5, <3>1, TimesAre
  <2>8. sent'[n]
    <3>1. CASE n # c
      BY <1>2, <2>6, <3>1, CycleSends
    <3>2. CASE n = c
      BY <1>2, <2>5, <2>7, <3>2, CycleSends
    <3> QED
      BY <3>1, <3>2
  <2> QED
    BY <2>8 DEF Published
<1> QED
  BY <1>1, <1>2

-----------------------------------------------------------------------------
(***************************************************************************)
(* A server that players find stays in the list while it runs, for any     *)
(* number of masters and other servers, any firewall and any times that    *)
(* fit together, when one packet or lookup at most is lost or comes twice, *)
(* or one check is refused: each FWOK sets a deadline for the next, the    *)
(* way to it survives the fault, and the entries live longer.              *)
(***************************************************************************)
THEOREM PublishedStays ==
  ASSUME TimesFit, OthersFit, MaxFaults <= 1
  PROVE  Spec => StaysPublished
<1>1. Freq <= GiveUp /\ Freq + 1 <= ExpireTime
  BY TimesAre
<1>2. Init => ListInv /\ TimesInv
  BY InitLists, InitTimes
<1>3. IInv /\ IInv' /\ ListInv /\ TimesInv /\ [Next]_vars
        => ListInv' /\ TimesInv' /\ [Published => Published' \/ crowded']_vars
  <2> SUFFICES ASSUME IInv, IInv', ListInv, TimesInv, [Next]_vars
               PROVE  ListInv' /\ TimesInv' /\ [Published => Published' \/ crowded']_vars
    OBVIOUS
  <2>1. Capped /\ Lasts
    BY DEF TimesInv
  <2>2. ListInv'
    BY <1>1, StepLists
  <2>3. Capped'
    BY <2>1, StepCapped
  <2>4. Lasts'
    BY <2>1, <2>3, StepLasts
  <2>5. Published => Published' \/ crowded'
    BY <2>1, PublishedKept
  <2> QED
    BY <2>2, <2>3, <2>4, <2>5 DEF TimesInv
<1> QED
  BY <1>2, <1>3, Inductive, PTL DEF Spec, StaysPublished

=============================================================================
