------------------------- MODULE RegistrationProofs -------------------------
(***************************************************************************)
(* Proofs about Registration, for any number of masters, any times and any *)
(* number of faults: what the state's parts are, and that no master lists  *)
(* an address that it has not reached.                                     *)
(***************************************************************************)
EXTENDS Registration, FiniteSetTheorems, TLAPS

(***************************************************************************)
(* An answer to a check is on its way only from an address that the check  *)
(* came through to: what AddServer relies on.                              *)
(***************************************************************************)
AnswersReachable ==
  \A m \in Masters, a \in Addrs : net[FwResponse(m, a)] > 0 => a \in open

(* What every step keeps. *)
IInv == TypeOK /\ OnlyReachableListed /\ AnswersReachable

(* The answers that are on the way are as many as before, or fewer. *)
NoNewAnswer ==
  \A m \in Masters, a \in Addrs :
    net'[FwResponse(m, a)] > 0 => net[FwResponse(m, a)] > 0

-----------------------------------------------------------------------------

(* The times are natural numbers. *)
LEMMA TimesNatural ==
  /\ HeartbeatEvery \in Nat /\ GiveUp \in Nat /\ Freq \in Nat
  /\ BuildEvery \in Nat /\ ExpireTime \in Nat /\ Uptime \in Nat
  /\ Tries \in Nat /\ HeartbeatEvery + 1 \in Nat
BY RegistrationAssumption

(* The packets of the two protocols. *)
LEMMA MessagesOfMasters ==
  ASSUME NEW m \in Masters
  PROVE  /\ GetCount(m) \in Messages /\ Heartbeat(m) \in Messages
         /\ FwOk(m) \in Messages /\ FwError(m) \in Messages
         /\ \A n \in Counts : Count(m, n) \in Messages
         /\ \A k \in 1 .. Tries : FwCheck(m, k) \in Messages
         /\ \A a \in Addrs : FwResponse(m, a) \in Messages
BY DEF Messages

(* A check carries the number of its try. *)
LEMMA ChecksNumbered ==
  ASSUME NEW x \in Messages, x.type = "FWCHECK"
  PROVE  x.arg \in 1 .. Tries
BY DEF Messages, GetCount, Heartbeat, FwOk, FwError, Count, FwCheck, FwResponse

(* A packet sent is one more on the way. *)
LEMMA PlusTyped ==
  ASSUME NEW n \in [Messages -> Nat], NEW S
  PROVE  /\ Plus(n, S) \in [Messages -> Nat]
         /\ \A x \in Messages : x \notin S => Plus(n, S)[x] = n[x]
BY DEF Plus

(* A packet that arrives is one fewer. *)
LEMMA MinusTyped ==
  ASSUME NEW n \in [Messages -> Nat], NEW x \in Messages, n[x] > 0
  PROVE  /\ Minus(n, x) \in [Messages -> Nat]
         /\ \A y \in Messages : Minus(n, x)[y] <= n[y]
<1>1. n[x] - 1 \in Nat /\ n[x] - 1 <= n[x]
  OBVIOUS
<1>2. Minus(n, x) = [n EXCEPT ![x] = n[x] - 1]
  BY DEF Minus
<1> QED
  BY <1>1, <1>2

(* Sending anything but answers adds no answer. *)
LEMMA PlusKeepsAnswers ==
  ASSUME NEW n \in [Messages -> Nat], NEW S,
         \A x \in S : x.type # "FWRESPONSE"
  PROVE  \A m \in Masters, a \in Addrs : Plus(n, S)[FwResponse(m, a)] = n[FwResponse(m, a)]
<1> SUFFICES ASSUME NEW m \in Masters, NEW a \in Addrs
             PROVE  Plus(n, S)[FwResponse(m, a)] = n[FwResponse(m, a)]
  OBVIOUS
<1>1. FwResponse(m, a) \in Messages
  BY MessagesOfMasters
<1>2. FwResponse(m, a).type = "FWRESPONSE"
  BY DEF FwResponse
<1>3. FwResponse(m, a) \notin S
  BY <1>2
<1> QED
  BY <1>1, <1>3, PlusTyped

(* Steps that add no answer and list nothing new keep what is reached. *)
LEMMA ReachedKept ==
  ASSUME IInv, NoNewAnswer, open' = open, listed' = listed
  PROVE  OnlyReachableListed' /\ AnswersReachable'
BY DEF IInv, OnlyReachableListed, AnswersReachable, NoNewAnswer

(* Nothing sent or delivered. *)
LEMMA SameNet ==
  ASSUME net' = net
  PROVE  NoNewAnswer
BY DEF NoNewAnswer

(* What is delivered takes its packet off the net. *)
LEMMA OneDelivered ==
  ASSUME IInv, NEW x \in Messages, net[x] > 0
  PROVE  /\ Minus(net, x) \in [Messages -> Nat]
         /\ \A m \in Masters, a \in Addrs :
              Minus(net, x)[FwResponse(m, a)] > 0 => net[FwResponse(m, a)] > 0
<1>1. net \in [Messages -> Nat]
  BY DEF IInv, TypeOK
<1>2. Minus(net, x) \in [Messages -> Nat] /\ \A y \in Messages : Minus(net, x)[y] <= net[y]
  BY <1>1, MinusTyped
<1>3. ASSUME NEW m \in Masters, NEW a \in Addrs, Minus(net, x)[FwResponse(m, a)] > 0
      PROVE  net[FwResponse(m, a)] > 0
  <2>1. FwResponse(m, a) \in Messages
    BY MessagesOfMasters
  <2>2. /\ Minus(net, x)[FwResponse(m, a)] \in Nat /\ net[FwResponse(m, a)] \in Nat
        /\ Minus(net, x)[FwResponse(m, a)] <= net[FwResponse(m, a)]
    BY <1>1, <1>2, <2>1
  <2> QED
    BY <1>3, <2>2
<1> QED
  BY <1>2, <1>3

-----------------------------------------------------------------------------
(* Steps of the game server                                                *)

(* The first state of a registration keeps the invariant. *)
LEMMA UpdateStartKeeps ==
  ASSUME IInv, UpdateStart
  PROVE  IInv'
<1>1. TypeOK'
  BY DEF IInv, TypeOK, UpdateStart, NewState, States, masterVars
<1>2. NoNewAnswer
  BY SameNet DEF UpdateStart
<1>3. open' = open /\ listed' = listed
  BY DEF UpdateStart, masterVars
<1> QED
  BY <1>1, <1>2, <1>3, ReachedKept DEF IInv

(* Waiting for the masters' addresses keeps the invariant. *)
LEMMA UpdateAddrsKeeps ==
  ASSUME IInv, UpdateAddrs
  PROVE  IInv'
<1>1. TypeOK'
  <2>1. state' \in States /\ age' \in Nat
    BY DEF IInv, TypeOK, UpdateAddrs, NewState, States
  <2>2. chosen' \in Masters \cup {NoServer} /\ valid' \subseteq Masters
    BY DEF IInv, TypeOK, UpdateAddrs
  <2>3. got' \in [Masters -> Nat \cup {Unknown}]
    BY DEF IInv, TypeOK, UpdateAddrs
  <2>4. quiet' \in [Masters -> Nat]
    <3>1. quiet \in [Masters -> Nat]
      BY DEF IInv, TypeOK
    <3>2. \/ quiet' = quiet
          \/ quiet' = [m \in Masters |->
                         IF m \in resolved THEN HeartbeatEvery + 1 ELSE quiet[m]]
      BY DEF UpdateAddrs
    <3> QED
      BY <3>1, <3>2, TimesNatural
  <2>5. /\ count' = count /\ net' = net /\ faults' = faults /\ open' = open /\ told' = told
        /\ refreshing' = refreshing /\ resolved' = resolved /\ lookupAge' = lookupAge
        /\ checking' = checking /\ listed' = listed /\ others' = others /\ sent' = sent
        /\ buildAge' = buildAge /\ crowded' = crowded
    BY DEF UpdateAddrs, lookupVars, masterVars
  <2> QED
    BY <2>1, <2>2, <2>3, <2>4, <2>5 DEF IInv, TypeOK
<1>2. NoNewAnswer
  BY SameNet DEF UpdateAddrs
<1>3. open' = open /\ listed' = listed
  BY DEF UpdateAddrs, masterVars
<1> QED
  BY <1>1, <1>2, <1>3, ReachedKept DEF IInv

(* Asking the masters for their counts keeps the invariant. *)
LEMMA UpdateQueryKeeps ==
  ASSUME IInv, UpdateQuery
  PROVE  IInv'
<1> DEFINE ask == {m \in Left : quiet[m] > Freq}
           asked == [m \in Masters |-> IF m \in ask THEN 0 ELSE quiet[m]]
           S == {GetCount(m) : m \in ask}
<1>1. net \in [Messages -> Nat] /\ net' = Plus(net, S)
  BY DEF IInv, TypeOK, UpdateQuery
<1>2. \A x \in S : x.type # "FWRESPONSE"
  BY DEF GetCount
<1>3. net' \in [Messages -> Nat]
  BY <1>1, PlusTyped
<1>4. NoNewAnswer
  BY <1>1, <1>2, PlusKeepsAnswers DEF NoNewAnswer
<1>5. asked \in [Masters -> Nat]
  BY DEF IInv, TypeOK
<1>6. \/ quiet' = asked
      \/ \E best \in Masters : quiet' = [asked EXCEPT ![best] = HeartbeatEvery + 1]
  BY DEF IInv, TypeOK, UpdateQuery
<1>7. state' \in States /\ age' \in Nat
  BY DEF IInv, TypeOK, UpdateQuery, NewState, States
<1>8. quiet' \in [Masters -> Nat] /\ chosen' \in Masters \cup {NoServer}
  <2> HIDE DEF asked
  <2>1. quiet' \in [Masters -> Nat]
    BY <1>5, <1>6, TimesNatural
  <2>2. chosen' \in Masters \cup {NoServer}
    BY DEF IInv, TypeOK, UpdateQuery
  <2> QED
    BY <2>1, <2>2
<1>9. /\ count' = count /\ valid' = valid /\ got' = got /\ faults' = faults
      /\ open' = open /\ told' = told
      /\ refreshing' = refreshing /\ resolved' = resolved /\ lookupAge' = lookupAge
      /\ checking' = checking /\ listed' = listed /\ others' = others /\ sent' = sent
      /\ buildAge' = buildAge /\ crowded' = crowded
  BY DEF UpdateQuery, lookupVars, masterVars
<1>10. TypeOK'
  BY <1>3, <1>7, <1>8, <1>9 DEF IInv, TypeOK
<1> QED
  BY <1>4, <1>9, <1>10, ReachedKept DEF IInv

(* A heartbeat to the chosen master keeps the invariant. *)
LEMMA UpdateHeartbeatKeeps ==
  ASSUME IInv, UpdateHeartbeat
  PROVE  IInv'
<1>1. net \in [Messages -> Nat] /\ chosen \in Masters
  BY DEF IInv, TypeOK, UpdateHeartbeat
<1>2. net' = net \/ net' = Plus(net, {Heartbeat(chosen)})
  BY DEF UpdateHeartbeat
<1>3. net' \in [Messages -> Nat]
  BY <1>1, <1>2, PlusTyped
<1>4. NoNewAnswer
  <2>1. \A x \in {Heartbeat(chosen)} : x.type # "FWRESPONSE"
    BY DEF Heartbeat
  <2> QED
    BY <1>1, <1>2, <2>1, PlusKeepsAnswers, SameNet DEF NoNewAnswer
<1>5. state' \in States /\ age' \in Nat
  BY DEF IInv, TypeOK, UpdateHeartbeat, GiveUpInTime, NewState, States
<1>6. quiet' \in [Masters -> Nat]
  <2>1. quiet \in [Masters -> Nat]
    BY DEF IInv, TypeOK
  <2>2. quiet' = quiet \/ quiet' = [quiet EXCEPT ![chosen] = 0]
    BY DEF UpdateHeartbeat
  <2> QED
    BY <2>1, <2>2
<1>7. /\ count' = count /\ chosen' = chosen /\ valid' = valid /\ got' = got
      /\ faults' = faults /\ open' = open /\ told' = told
      /\ refreshing' = refreshing /\ resolved' = resolved /\ lookupAge' = lookupAge
      /\ checking' = checking /\ listed' = listed /\ others' = others /\ sent' = sent
      /\ buildAge' = buildAge /\ crowded' = crowded
  BY DEF UpdateHeartbeat, lookupVars, masterVars
<1>8. TypeOK'
  BY <1>3, <1>5, <1>6, <1>7 DEF IInv, TypeOK
<1> QED
  BY <1>4, <1>7, <1>8, ReachedKept DEF IInv

(* The steps that send nothing keep the invariant. *)
LEMMA UpdateSilentKeeps ==
  ASSUME IInv, UpdateHeartbeatAstray \/ UpdateRegistered \/ UpdateError
  PROVE  IInv'
<1>1. TypeOK'
  <2>1. CASE UpdateHeartbeatAstray
    <3>1. state' \in States /\ age' \in Nat
      BY <2>1 DEF IInv, TypeOK, UpdateHeartbeatAstray, GiveUpInTime, NewState, States
    <3>2. count' \in Nat
      BY <2>1, TimesNatural DEF IInv, TypeOK, UpdateHeartbeatAstray
    <3> QED
      BY <2>1, <3>1, <3>2 DEF IInv, TypeOK, UpdateHeartbeatAstray, lookupVars, masterVars
  <2>2. CASE UpdateRegistered
    BY <2>2 DEF IInv, TypeOK, UpdateRegistered, NewState, States, lookupVars, masterVars
  <2>3. CASE UpdateError
    BY <2>3 DEF IInv, TypeOK, UpdateError, NewState, States, lookupVars, masterVars
  <2> QED
    BY <2>1, <2>2, <2>3
<1>2. net' = net /\ open' = open /\ listed' = listed
  BY DEF UpdateHeartbeatAstray, UpdateRegistered, UpdateError, masterVars
<1> QED
  BY <1>1, <1>2, SameNet, ReachedKept DEF IInv

(* The end of a refresh keeps the invariant. *)
LEMMA LookupDoneKeeps ==
  ASSUME IInv, NEW F \in SUBSET Masters, LookupDone(F)
  PROVE  IInv'
<1>1. TypeOK'
  <2>1. faults' \in Nat
    BY DEF IInv, TypeOK, LookupDone, Fault
  <2>2. refreshing' \in BOOLEAN /\ resolved' \subseteq Masters
    BY DEF LookupDone
  <2> QED
    BY <2>1, <2>2 DEF IInv, TypeOK, LookupDone, registerVars, masterVars
<1>2. net' = net /\ open' = open /\ listed' = listed
  BY DEF LookupDone, masterVars
<1> QED
  BY <1>1, <1>2, SameNet, ReachedKept DEF IInv

(* A count, a registration's end or an error that arrives keep it.         *)
LEMMA GotKeeps ==
  ASSUME IInv, NEW m \in Masters,
         (\E n \in Counts : GotCount(m, n)) \/ GotOk(m) \/ GotError(m)
  PROVE  IInv'
<1>1. PICK x \in Messages : net[x] > 0 /\ net' = Minus(net, x)
  BY MessagesOfMasters DEF GotCount, GotOk, GotError
<1>2. net' \in [Messages -> Nat] /\ NoNewAnswer
  BY <1>1, OneDelivered DEF NoNewAnswer
<1>3. state' \in States /\ age' \in Nat
  <2>1. state \in States /\ age \in Nat /\ "REGISTERED" \in States
    BY DEF IInv, TypeOK, States
  <2>2. (state' = state /\ age' = age) \/ (state' = "REGISTERED" /\ age' = 0)
    BY DEF GotCount, GotOk, GotError, NewState, registerVars
  <2> QED
    BY <2>1, <2>2
<1>4. got' \in [Masters -> Nat \cup {Unknown}]
  <2>1. \A n \in Counts : n \in Nat
    BY RegistrationAssumption DEF Counts
  <2>2. got \in [Masters -> Nat \cup {Unknown}]
    BY DEF IInv, TypeOK
  <2>3. got' = got \/ \E n \in Nat : got' = [got EXCEPT ![m] = n]
    BY <2>1 DEF GotCount, GotOk, GotError, registerVars
  <2> QED
    BY <2>2, <2>3
<1>5. told' \in BOOLEAN
  BY DEF IInv, TypeOK, GotCount, GotOk, GotError
<1>6. /\ count' = count /\ chosen' = chosen /\ valid' = valid /\ quiet' = quiet
      /\ faults' = faults /\ open' = open
      /\ refreshing' = refreshing /\ resolved' = resolved /\ lookupAge' = lookupAge
      /\ checking' = checking /\ listed' = listed /\ others' = others /\ sent' = sent
      /\ buildAge' = buildAge /\ crowded' = crowded
  BY DEF GotCount, GotOk, GotError, registerVars, lookupVars, masterVars
<1>7. TypeOK'
  BY <1>2, <1>3, <1>4, <1>5, <1>6 DEF IInv, TypeOK
<1> QED
  BY <1>2, <1>6, <1>7, ReachedKept DEF IInv

(* An answer to a check goes out only from the address that it came to.    *)
LEMMA GotCheckKeeps ==
  ASSUME IInv, NEW m \in Masters, NEW k \in 1 .. Tries, GotCheck(m, k)
  PROVE  IInv'
<1> DEFINE left == Minus(net, FwCheck(m, k))
           answer == FwResponse(m, Checked(k))
<1>1. FwCheck(m, k) \in Messages /\ net[FwCheck(m, k)] > 0
  BY MessagesOfMasters DEF GotCheck
<1>2. /\ left \in [Messages -> Nat]
      /\ \A n \in Masters, a \in Addrs :
           left[FwResponse(n, a)] > 0 => net[FwResponse(n, a)] > 0
  BY <1>1, OneDelivered
<1>3. net' = IF Checked(k) \in open THEN Plus(left, {answer}) ELSE left
  BY DEF GotCheck
<1>4. /\ UNCHANGED <<registerVars, lookupVars, masterVars, faults, told>>
      /\ open' = open
  BY DEF GotCheck
<1> HIDE DEF left
<1>5. net' \in [Messages -> Nat]
  BY <1>2, <1>3, PlusTyped
<1>6. AnswersReachable'
  <2> SUFFICES ASSUME NEW n \in Masters, NEW a \in Addrs, net'[FwResponse(n, a)] > 0
               PROVE  a \in open
    BY <1>4 DEF AnswersReachable
  <2>1. CASE net' = left \/ FwResponse(n, a) # answer
    <3>1. FwResponse(n, a) \in Messages
      BY MessagesOfMasters
    <3>2. net'[FwResponse(n, a)] = left[FwResponse(n, a)]
      BY <1>2, <1>3, <2>1, <3>1, PlusTyped
    <3> QED
      BY <1>2, <3>2 DEF IInv, AnswersReachable
  <2>2. CASE net' # left /\ FwResponse(n, a) = answer
    <3>1. Checked(k) \in open
      BY <1>3, <2>2
    <3>2. a = Checked(k)
      BY <2>2 DEF FwResponse
    <3> QED
      BY <3>1, <3>2
  <2> QED
    BY <2>1, <2>2
<1>7. TypeOK'
  BY <1>4, <1>5 DEF IInv, TypeOK, registerVars, lookupVars, masterVars
<1>8. OnlyReachableListed'
  BY <1>4 DEF IInv, OnlyReachableListed, masterVars
<1> QED
  BY <1>6, <1>7, <1>8 DEF IInv

-----------------------------------------------------------------------------
(* Steps of a master                                                       *)

(* A heartbeat that arrives starts a check. *)
StartCheck(m) ==
  /\ net[Heartbeat(m)] > 0 /\ net' = Minus(net, Heartbeat(m))
  /\ checking' = [checking EXCEPT ![m] = [checking[m] EXCEPT ![0] = checking[m][0] + 1]]
  /\ UNCHANGED <<registerVars, lookupVars, listed, others, sent, buildAge, crowded>>
  /\ UNCHANGED <<faults, open, told>>

(* It is refused, since this server's checks fill the list. *)
RefuseCheck(m) ==
  /\ net[Heartbeat(m)] > 0 /\ net' = Minus(net, Heartbeat(m))
  /\ crowded' = TRUE
  /\ UNCHANGED <<registerVars, lookupVars, checking, listed, others, sent, buildAge>>
  /\ UNCHANGED <<faults, open, told>>

(* Or it is refused for the others' checks, and might as well have got lost. *)
LEMMA HeartbeatComes ==
  ASSUME IInv, NEW m \in Masters, AddCheckserver(m)
  PROVE  StartCheck(m) \/ RefuseCheck(m) \/ Lose(Heartbeat(m))
<1> DEFINE full == NumChecks(m) >= MaxServers
<1> HIDE DEF full
<1>1. /\ net[Heartbeat(m)] > 0 /\ net' = Minus(net, Heartbeat(m))
      /\ \/ /\ checking' = IF full THEN checking ELSE [checking EXCEPT ![m][0] = @ + 1]
            /\ crowded' = (crowded \/ full) /\ UNCHANGED faults
         \/ Fault /\ UNCHANGED <<checking, crowded>>
      /\ UNCHANGED <<registerVars, lookupVars, listed, others, sent, buildAge, open, told>>
  BY Zenon DEF AddCheckserver, full
<1>2. CASE full /\ crowded' = TRUE /\ checking' = checking /\ UNCHANGED faults
  BY <1>1, <1>2 DEF RefuseCheck
<1>3. CASE ~full /\ crowded' = crowded /\ UNCHANGED faults
           /\ checking' = [checking EXCEPT ![m][0] = @ + 1]
  BY <1>1, <1>3 DEF StartCheck
<1>4. CASE Fault /\ UNCHANGED <<checking, crowded>>
  BY <1>1, <1>4 DEF Lose, masterVars
<1>5. crowded \in BOOLEAN
  BY DEF IInv, TypeOK
<1>6. crowded' = (crowded \/ full) => IF full THEN crowded' = TRUE ELSE crowded' = crowded
  BY <1>5
<1> QED
  BY <1>1, <1>2, <1>3, <1>4, <1>6, Zenon

(* A query of the count and a heartbeat that arrive keep the invariant. *)
LEMMA ServeKeeps ==
  ASSUME IInv, NEW m \in Masters, ServeCount(m) \/ AddCheckserver(m)
  PROVE  IInv'
<1>0. ServeCount(m) \/ StartCheck(m) \/ RefuseCheck(m) \/ Lose(Heartbeat(m))
  BY HeartbeatComes
<1>1. PICK x \in Messages : /\ net[x] > 0
                            /\ \/ net' = Minus(net, x)
                               \/ net' = Plus(Minus(net, x), {Count(m, NumServers(m))})
  BY <1>0, MessagesOfMasters DEF ServeCount, StartCheck, RefuseCheck, Lose
<1>2. /\ Minus(net, x) \in [Messages -> Nat]
      /\ \A n \in Masters, a \in Addrs :
           Minus(net, x)[FwResponse(n, a)] > 0 => net[FwResponse(n, a)] > 0
  BY <1>1, OneDelivered
<1>3. \A y \in {Count(m, NumServers(m))} : y.type # "FWRESPONSE"
  BY DEF Count
<1>4. net' \in [Messages -> Nat]
  BY <1>1, <1>2, PlusTyped
<1>5. NoNewAnswer
  BY <1>1, <1>2, <1>3, PlusKeepsAnswers DEF NoNewAnswer
<1>6. checking' \in [Masters -> [0 .. Tries -> Nat]]
  <2>1. checking \in [Masters -> [0 .. Tries -> Nat]]
    BY DEF IInv, TypeOK
  <2>2. \/ checking' = checking
        \/ checking' = [checking EXCEPT ![m] = [checking[m] EXCEPT ![0] = checking[m][0] + 1]]
    BY <1>0 DEF ServeCount, StartCheck, RefuseCheck, Lose, masterVars
  <2>0. 0 \in 0 .. Tries
    BY TimesNatural
  <2>3. checking[m] \in [0 .. Tries -> Nat] /\ checking[m][0] \in Nat
    BY <2>0, <2>1
  <2>4. checking[m][0] + 1 \in Nat
    BY <2>3
  <2>5. [checking[m] EXCEPT ![0] = checking[m][0] + 1] \in [0 .. Tries -> Nat]
    BY <2>3, <2>4
  <2> QED
    BY <2>1, <2>2, <2>5
<1>7. /\ UNCHANGED <<registerVars, lookupVars, others, sent, buildAge, told>>
      /\ open' = open /\ listed' = listed
      /\ faults' \in Nat /\ crowded' \in BOOLEAN
  <2>1. /\ UNCHANGED <<registerVars, lookupVars, others, sent, buildAge, told>>
        /\ open' = open /\ listed' = listed
        /\ faults' = faults \/ faults' = faults + 1
        /\ crowded' = crowded \/ crowded' = TRUE
    BY <1>0 DEF ServeCount, StartCheck, RefuseCheck, Lose, Fault, masterVars
  <2>2. faults \in Nat /\ crowded \in BOOLEAN
    BY DEF IInv, TypeOK
  <2>3. faults' \in Nat
    BY <2>1, <2>2
  <2>4. crowded' \in BOOLEAN
    BY <2>1, <2>2
  <2> QED
    BY <2>1, <2>3, <2>4
<1>8. TypeOK'
  BY <1>4, <1>6, <1>7 DEF IInv, TypeOK, registerVars, lookupVars
<1> QED
  BY <1>5, <1>7, <1>8, ReachedKept DEF IInv

(* An answer that lists the server, which has come through the firewall.   *)
LEMMA AddServerKeeps ==
  ASSUME IInv, NEW m \in Masters, NEW a \in Addrs, AddServer(m, a)
  PROVE  IInv'
<1> DEFINE left == Minus(net, FwResponse(m, a))
           more == Plus(left, {FwOk(m)})
<1>1. FwResponse(m, a) \in Messages /\ net[FwResponse(m, a)] > 0
  BY MessagesOfMasters DEF AddServer
<1>2. /\ left \in [Messages -> Nat]
      /\ \A n \in Masters, b \in Addrs :
           left[FwResponse(n, b)] > 0 => net[FwResponse(n, b)] > 0
  BY <1>1, OneDelivered
<1>3. net' = Plus(more, {FwOk(m)})
  BY DEF AddServer
<1>4. \A y \in {FwOk(m)} : y.type # "FWRESPONSE"
  BY DEF FwOk
<1> HIDE DEF left
<1>5. /\ more \in [Messages -> Nat]
      /\ \A n \in Masters, b \in Addrs : more[FwResponse(n, b)] = left[FwResponse(n, b)]
  BY <1>2, <1>4, PlusTyped, PlusKeepsAnswers
<1> HIDE DEF more
<1>6. /\ net' \in [Messages -> Nat]
      /\ \A n \in Masters, b \in Addrs : net'[FwResponse(n, b)] = more[FwResponse(n, b)]
  BY <1>3, <1>4, <1>5, PlusTyped, PlusKeepsAnswers
<1>7. NoNewAnswer
  BY <1>2, <1>5, <1>6 DEF NoNewAnswer
<1>8. a \in open
  BY <1>1 DEF IInv, AnswersReachable
<1>9. listed \in [Masters -> [Addrs -> Nat \cup {NotListed}]]
  BY DEF IInv, TypeOK
<1>10. listed' = listed \/ listed' = [listed EXCEPT ![m] = [listed[m] EXCEPT ![a] = 0]]
  BY DEF AddServer
<1>11. listed' \in [Masters -> [Addrs -> Nat \cup {NotListed}]]
  <2>1. [listed[m] EXCEPT ![a] = 0] \in [Addrs -> Nat \cup {NotListed}]
    BY <1>9
  <2> QED
    BY <1>9, <1>10, <2>1
<1>12. checking' \in [Masters -> [0 .. Tries -> Nat]]
  <2>1. checking \in [Masters -> [0 .. Tries -> Nat]]
    BY DEF IInv, TypeOK
  <2>2. PICK k \in 0 .. Tries :
          /\ checking[m][k] > 0
          /\ checking' = [checking EXCEPT ![m] = [checking[m] EXCEPT ![k] = checking[m][k] - 1]]
    BY DEF AddServer
  <2>3. checking[m] \in [0 .. Tries -> Nat] /\ checking[m][k] \in Nat
    BY <2>1
  <2>4. checking[m][k] - 1 \in Nat
    BY <2>2, <2>3
  <2>5. [checking[m] EXCEPT ![k] = checking[m][k] - 1] \in [0 .. Tries -> Nat]
    BY <2>3, <2>4
  <2> QED
    BY <2>1, <2>2, <2>5
<1>13. crowded' \in BOOLEAN
  BY DEF AddServer
<1>14. UNCHANGED <<registerVars, lookupVars, others, sent, buildAge, faults, open, told>>
  BY DEF AddServer
<1>15. TypeOK'
  BY <1>6, <1>11, <1>12, <1>13, <1>14 DEF IInv, TypeOK, registerVars, lookupVars
<1>16. OnlyReachableListed'
  <2>1. \A n \in Masters, b \in Addrs :
          listed'[n][b] # NotListed => listed[n][b] # NotListed \/ b = a
    BY <1>9, <1>10
  <2> QED
    BY <1>8, <1>14, <2>1 DEF IInv, OnlyReachableListed
<1>17. AnswersReachable'
  BY <1>7, <1>14 DEF IInv, AnswersReachable, NoNewAnswer
<1> QED
  BY <1>15, <1>16, <1>17 DEF IInv

(* An answer to no check is dropped. *)
LEMMA IgnoreServerKeeps ==
  ASSUME IInv, NEW m \in Masters, NEW a \in Addrs, IgnoreServer(m, a)
  PROVE  IInv'
<1>1. /\ FwResponse(m, a) \in Messages /\ net[FwResponse(m, a)] > 0
      /\ net' = Minus(net, FwResponse(m, a))
  BY MessagesOfMasters DEF IgnoreServer
<1>2. net' \in [Messages -> Nat] /\ NoNewAnswer
  BY <1>1, OneDelivered DEF NoNewAnswer
<1>3. TypeOK'
  BY <1>2 DEF IInv, TypeOK, IgnoreServer, registerVars, lookupVars, masterVars
<1>4. open' = open /\ listed' = listed
  BY DEF IgnoreServer, masterVars
<1> QED
  BY <1>2, <1>3, <1>4, ReachedKept DEF IInv

(* A master's five-second work lists nothing and sends no answer.          *)
LEMMA CycleKeeps ==
  ASSUME IInv, NEW m \in Masters, Cycle(m)
  PROVE  IInv'
<1>1. net \in [Messages -> Nat] /\ checking \in [Masters -> [0 .. Tries -> Nat]]
  BY DEF IInv, TypeOK
<1>2. \A x \in Messages :
        \/ net'[x] = net[x]
        \/ x.type = "FWCHECK" /\ net'[x] = net[x] + checking[m][x.arg - 1]
        \/ x.type = "FWERROR" /\ net'[x] = net[x] + checking[m][Tries]
  BY DEF Cycle, UpdateServers
<1>3. net' \in [Messages -> Nat]
  <2>1. \A x \in Messages : net'[x] \in Nat
    <3> SUFFICES ASSUME NEW x \in Messages
                 PROVE  net'[x] \in Nat
      OBVIOUS
    <3>1. CASE net'[x] = net[x]
      BY <1>1, <3>1
    <3>2. CASE x.type = "FWCHECK" /\ net'[x] = net[x] + checking[m][x.arg - 1]
      <4>1. x.arg - 1 \in 0 .. Tries
        BY <3>2, ChecksNumbered, TimesNatural
      <4>2. checking[m][x.arg - 1] \in Nat /\ net[x] \in Nat
        BY <1>1, <4>1
      <4> QED
        BY <3>2, <4>2
    <3>3. CASE x.type = "FWERROR" /\ net'[x] = net[x] + checking[m][Tries]
      <4>1. Tries \in 0 .. Tries
        BY TimesNatural
      <4>2. checking[m][Tries] \in Nat /\ net[x] \in Nat
        BY <1>1, <4>1
      <4> QED
        BY <3>3, <4>2
    <3> QED
      BY <1>2, <3>1, <3>2, <3>3
  <2>2. net' = [x \in Messages |-> net'[x]]
    BY DEF Cycle, UpdateServers
  <2> QED
    BY <2>1, <2>2
<1>4. NoNewAnswer
  <2> SUFFICES ASSUME NEW n \in Masters, NEW a \in Addrs
               PROVE  net'[FwResponse(n, a)] = net[FwResponse(n, a)]
    BY DEF NoNewAnswer
  <2>1. FwResponse(n, a) \in Messages
    BY MessagesOfMasters
  <2>2. FwResponse(n, a).type # "FWCHECK" /\ FwResponse(n, a).type # "FWERROR"
    BY DEF FwResponse
  <2> QED
    BY <1>2, <2>1, <2>2
<1>5. checking' \in [Masters -> [0 .. Tries -> Nat]]
  <2> DEFINE next == [k \in 0 .. Tries |-> IF k = 0 THEN 0 ELSE checking[m][k - 1]]
  <2>1. checking' = [checking EXCEPT ![m] = next]
    BY DEF Cycle, UpdateServers
  <2>2. \A k \in 0 .. Tries : k # 0 => k - 1 \in 0 .. Tries
    BY TimesNatural
  <2>3. next \in [0 .. Tries -> Nat]
    BY <1>1, <2>2
  <2> HIDE DEF next
  <2> QED
    BY <1>1, <2>1, <2>3
<1>6. listed \in [Masters -> [Addrs -> Nat \cup {NotListed}]]
  BY DEF IInv, TypeOK
<1> DEFINE kept == [a \in Addrs |-> IF listed[m][a] > ExpireTime THEN NotListed ELSE listed[m][a]]
<1>7. listed' = [listed EXCEPT ![m] = kept]
  BY DEF Cycle, PurgeServers
<1>8. kept \in [Addrs -> Nat \cup {NotListed}]
  BY <1>6
<1>9. \A a \in Addrs : kept[a] # NotListed => listed[m][a] # NotListed
  BY <1>6
<1> HIDE DEF kept
<1>10. listed' \in [Masters -> [Addrs -> Nat \cup {NotListed}]]
  BY <1>6, <1>7, <1>8
<1>11. \A n \in Masters, a \in Addrs : listed'[n][a] # NotListed => listed[n][a] # NotListed
  BY <1>6, <1>7, <1>9
<1>12. buildAge' \in [Masters -> Nat]
  BY DEF IInv, TypeOK, Cycle
<1>13. sent' \in [Masters -> BOOLEAN] /\ crowded' \in BOOLEAN
  BY DEF IInv, TypeOK, Cycle, BuildPackets
<1>14. UNCHANGED <<registerVars, lookupVars, others, faults, open, told>>
  BY DEF Cycle
<1>15. TypeOK'
  BY <1>3, <1>5, <1>10, <1>12, <1>13, <1>14 DEF IInv, TypeOK, registerVars, lookupVars
<1>16. OnlyReachableListed'
  BY <1>11, <1>14 DEF IInv, OnlyReachableListed
<1>17. AnswersReachable'
  BY <1>4, <1>14 DEF IInv, AnswersReachable, NoNewAnswer
<1> QED
  BY <1>15, <1>16, <1>17 DEF IInv

-----------------------------------------------------------------------------
(* The network and time                                                    *)

(* A packet lost or duplicated keeps the invariant. *)
LEMMA FaultKeeps ==
  ASSUME IInv, NEW x \in Messages, Lose(x) \/ Duplicate(x)
  PROVE  IInv'
<1>1. net \in [Messages -> Nat] /\ net[x] > 0
  BY DEF IInv, TypeOK, Lose, Duplicate
<1>2. net' = Minus(net, x) \/ net' = Plus(net, {x})
  BY DEF Lose, Duplicate
<1>3. net' \in [Messages -> Nat]
  BY <1>1, <1>2, PlusTyped, MinusTyped
<1>4. NoNewAnswer
  <2>1. CASE net' = Minus(net, x)
    BY <1>1, <2>1, OneDelivered DEF NoNewAnswer
  <2>2. CASE net' = Plus(net, {x})
    BY <1>1, <2>2, PlusTyped, MessagesOfMasters DEF NoNewAnswer
  <2> QED
    BY <1>2, <2>1, <2>2
<1>5. faults' \in Nat
  BY DEF IInv, TypeOK, Lose, Duplicate, Fault
<1>6. UNCHANGED <<registerVars, lookupVars, masterVars, told>> /\ open' = open
  BY DEF Lose, Duplicate
<1>7. TypeOK'
  BY <1>3, <1>5, <1>6 DEF IInv, TypeOK, registerVars, lookupVars, masterVars
<1>8. listed' = listed
  BY <1>6 DEF masterVars
<1> QED
  BY <1>4, <1>6, <1>7, <1>8, ReachedKept DEF IInv

(* A step of time keeps the invariant. *)
LEMMA TickKeeps ==
  ASSUME IInv, Tick
  PROVE  IInv'
<1>1. \A t \in Nat, top \in Nat : Later(t, top) \in Nat
  BY DEF Later
<1>2. age' \in Nat /\ lookupAge' \in Nat
  BY <1>1, TimesNatural DEF IInv, TypeOK, Tick
<1>3. quiet' \in [Masters -> Nat]
  <2>1. quiet \in [Masters -> Nat]
    BY DEF IInv, TypeOK
  <2>2. quiet' = [m \in Masters |-> Later(quiet[m], HeartbeatEvery)]
    BY DEF Tick
  <2> QED
    BY <1>1, <2>1, <2>2, TimesNatural
<1>4. buildAge' \in [Masters -> Nat]
  <2>1. buildAge \in [Masters -> Nat]
    BY DEF IInv, TypeOK
  <2>2. buildAge' = [m \in Masters |-> buildAge[m] + 1]
    BY DEF Tick
  <2> QED
    BY <2>1, <2>2
<1>5. listed \in [Masters -> [Addrs -> Nat \cup {NotListed}]]
  BY DEF IInv, TypeOK
<1>6. listed' = [m \in Masters |-> [a \in Addrs |->
                  IF listed[m][a] = NotListed THEN NotListed
                  ELSE Later(listed[m][a], ExpireTime)]]
  BY DEF Tick
<1>7. \A m \in Masters, a \in Addrs :
        /\ listed[m][a] = NotListed => listed'[m][a] = NotListed
        /\ listed'[m][a] \in Nat \cup {NotListed}
  BY <1>1, <1>5, <1>6, TimesNatural
<1>8. listed' \in [Masters -> [Addrs -> Nat \cup {NotListed}]]
  BY <1>1, <1>5, <1>6, TimesNatural
<1>9. /\ state' = state /\ count' = count /\ chosen' = chosen /\ valid' = valid /\ got' = got
      /\ refreshing' = refreshing /\ resolved' = resolved /\ checking' = checking
      /\ others' = others /\ sent' = sent /\ crowded' = crowded /\ net' = net
      /\ faults' = faults /\ open' = open /\ told' = told
  BY DEF Tick
<1>10. TypeOK'
  BY <1>2, <1>3, <1>4, <1>8, <1>9 DEF IInv, TypeOK
<1>11. OnlyReachableListed'
  BY <1>7, <1>9 DEF IInv, OnlyReachableListed
<1>12. AnswersReachable'
  BY <1>9 DEF IInv, AnswersReachable
<1> QED
  BY <1>10, <1>11, <1>12 DEF IInv

-----------------------------------------------------------------------------

(* The game server starts with the masters listing others only. *)
LEMMA InitInv == Init => IInv
<1> SUFFICES ASSUME Init
             PROVE  IInv
  OBVIOUS
<1>1. \A m \in Masters, a \in Addrs : net[FwResponse(m, a)] = 0
  BY MessagesOfMasters DEF Init
<1>2. AnswersReachable
  BY <1>1 DEF AnswersReachable
<1>3. OnlyReachableListed
  BY DEF Init, OnlyReachableListed
<1>4. /\ state \in States /\ age \in Nat /\ count \in Nat
      /\ chosen \in Masters \cup {NoServer}
      /\ valid \subseteq Masters /\ got \in [Masters -> Nat \cup {Unknown}]
  BY DEF Init, States
<1>5. quiet \in [Masters -> Nat] /\ buildAge \in [Masters -> Nat]
  BY TimesNatural DEF Init
<1>6. /\ refreshing \in BOOLEAN /\ resolved \subseteq Masters /\ lookupAge \in Nat
      /\ checking \in [Masters -> [0 .. Tries -> Nat]]
      /\ listed \in [Masters -> [Addrs -> Nat \cup {NotListed}]]
      /\ sent \in [Masters -> BOOLEAN]
      /\ net \in [Messages -> Nat] /\ faults \in Nat
      /\ told \in BOOLEAN /\ crowded \in BOOLEAN
  BY DEF Init
<1>7. others \in [Masters -> Nat] /\ open \subseteq Addrs
  BY RegistrationAssumption DEF Init, Masters, Addrs
<1>8. TypeOK
  BY <1>4, <1>5, <1>6, <1>7 DEF TypeOK
<1> QED
  BY <1>2, <1>3, <1>8 DEF IInv

(* Every step keeps the invariant. *)
LEMMA StepInv == IInv /\ [Next]_vars => IInv'
<1> SUFFICES ASSUME IInv, [Next]_vars
             PROVE  IInv'
  OBVIOUS
<1>1. CASE RegisterUpdate
  BY <1>1, UpdateStartKeeps, UpdateAddrsKeeps, UpdateQueryKeeps, UpdateHeartbeatKeeps,
     UpdateSilentKeeps DEF RegisterUpdate
<1>2. CASE \E F \in SUBSET Masters : LookupDone(F)
  BY <1>2, LookupDoneKeeps
<1>3. CASE \E m \in Masters : GotPacket(m)
  BY <1>3, GotKeeps, GotCheckKeeps DEF GotPacket
<1>4. CASE \E m \in Masters : ServePacket(m)
  BY <1>4, ServeKeeps, AddServerKeeps, IgnoreServerKeeps DEF ServePacket
<1>5. CASE \E m \in Masters : Cycle(m)
  BY <1>5, CycleKeeps
<1>6. CASE \E x \in Messages : Lose(x) \/ Duplicate(x)
  BY <1>6, FaultKeeps
<1>7. CASE Tick
  BY <1>7, TickKeeps
<1>8. CASE UNCHANGED vars
  <2>1. UNCHANGED <<registerVars, lookupVars, masterVars, net, faults, open, told>>
    BY <1>8 DEF vars
  <2>2. TypeOK'
    BY <2>1 DEF IInv, TypeOK, registerVars, lookupVars, masterVars
  <2>3. listed' = listed /\ net' = net /\ open' = open
    BY <2>1 DEF masterVars
  <2> QED
    BY <2>2, <2>3, SameNet, ReachedKept DEF IInv
<1> QED
  BY <1>1, <1>2, <1>3, <1>4, <1>5, <1>6, <1>7, <1>8 DEF Next

(***************************************************************************)
(* Types, lists and the answers on their way fit together in every state.  *)
(***************************************************************************)
THEOREM Inductive == Spec => []IInv
BY InitInv, StepInv, PTL DEF Spec

(* No check is ended and no packet delivered that there was not.           *)
THEOREM TypeCorrect == Spec => []TypeOK
<1>1. IInv => TypeOK
  BY DEF IInv
<1> QED
  BY <1>1, Inductive, PTL

(***************************************************************************)
(* However packets are lost or duplicated and whatever the heartbeats say, *)
(* the masters list a server only where their checks have reached it.      *)
(***************************************************************************)
THEOREM ListedIsReachable == Spec => []OnlyReachableListed
<1>1. IInv => OnlyReachableListed
  BY DEF IInv
<1> QED
  BY <1>1, Inductive, PTL

-----------------------------------------------------------------------------
(***************************************************************************)
(* What the server believes and what the players are told.  The answer     *)
(* FWOK is true as long as it is on its way: the server has just been      *)
(* listed, or a list had no room for it.                                   *)
(***************************************************************************)
OkTrue ==
  \A m \in Masters :
    net[FwOk(m)] > 0 => crowded \/ \E a \in Addrs : listed[m][a] = 0

(* A server that takes itself for registered is in some master's list, and *)
(* has been since it was last told so: RegisterUpdate leaves REGISTERED    *)
(* before the entry can expire.                                            *)
RegisteredIsListed ==
  state = "REGISTERED" =>
    crowded \/ \E m \in Masters, a \in open : listed[m][a] \in 0 .. age

(* It is registered for one step of time more than the shortest. *)
RegisteredShortly == state = "REGISTERED" => age <= Freq + 1

(* What the master sends to the players is in its list, under an address   *)
(* that its checks have reached.                                           *)
SentIsReachable ==
  \A m \in Masters : sent[m] => \E a \in open : listed[m][a] # NotListed

(* What every step keeps, on top of IInv. *)
ListInv == OkTrue /\ RegisteredIsListed /\ RegisteredShortly /\ SentIsReachable

(* The server has no entry in m's list that is still to expire. *)
Expired(m) == \A a \in Addrs : listed[m][a] = NotListed \/ listed[m][a] > ExpireTime

(* A master takes a server out of what it sends only when all its entries  *)
(* have expired, or the packets had no room for it.                        *)
DroppedWhenExpired ==
  \A m \in Masters : sent[m] /\ ~sent'[m] => Expired(m) \/ crowded'

(* The server cannot be told that all is well by more packets than before. *)
NoNewOk == \A m \in Masters : net'[FwOk(m)] > 0 => net[FwOk(m)] > 0

(* The lists are the ones before, and the server is registered only where  *)
(* it was.                                                                 *)
Elsewhere ==
  /\ NoNewOk
  /\ listed' = listed /\ sent' = sent /\ (crowded => crowded') /\ open' = open
  /\ state' = "REGISTERED" => state = "REGISTERED" /\ age' = age

-----------------------------------------------------------------------------

(* Sending anything but FWOK adds no FWOK. *)
LEMMA PlusKeepsOk ==
  ASSUME NEW n \in [Messages -> Nat], NEW S, \A x \in S : x.type # "FWOK"
  PROVE  \A m \in Masters : Plus(n, S)[FwOk(m)] = n[FwOk(m)]
<1> SUFFICES ASSUME NEW m \in Masters
             PROVE  Plus(n, S)[FwOk(m)] = n[FwOk(m)]
  OBVIOUS
<1>1. FwOk(m) \in Messages
  BY MessagesOfMasters
<1>2. FwOk(m) \notin S
  BY DEF FwOk
<1> QED
  BY <1>1, <1>2, PlusTyped

(* What is delivered leaves no FWOK that was not there. *)
LEMMA MinusKeepsOk ==
  ASSUME IInv, NEW x \in Messages, net[x] > 0
  PROVE  /\ Minus(net, x) \in [Messages -> Nat]
         /\ \A m \in Masters : Minus(net, x)[FwOk(m)] > 0 => net[FwOk(m)] > 0
<1>1. net \in [Messages -> Nat]
  BY DEF IInv, TypeOK
<1>2. Minus(net, x) \in [Messages -> Nat] /\ \A y \in Messages : Minus(net, x)[y] <= net[y]
  BY <1>1, MinusTyped
<1>3. ASSUME NEW m \in Masters, Minus(net, x)[FwOk(m)] > 0
      PROVE  net[FwOk(m)] > 0
  <2>1. FwOk(m) \in Messages
    BY MessagesOfMasters
  <2>2. /\ Minus(net, x)[FwOk(m)] \in Nat /\ net[FwOk(m)] \in Nat
        /\ Minus(net, x)[FwOk(m)] <= net[FwOk(m)]
    BY <1>1, <1>2, <2>1
  <2> QED
    BY <1>3, <2>2
<1> QED
  BY <1>2, <1>3

(* A step elsewhere keeps what the server and the players are told. *)
LEMMA ElsewhereKeeps ==
  ASSUME ListInv, Elsewhere
  PROVE  ListInv' /\ DroppedWhenExpired
<1>1. OkTrue'
  BY DEF ListInv, OkTrue, Elsewhere, NoNewOk
<1>2. RegisteredIsListed' /\ RegisteredShortly'
  BY DEF ListInv, RegisteredIsListed, RegisteredShortly, Elsewhere
<1>3. SentIsReachable' /\ DroppedWhenExpired
  BY DEF ListInv, SentIsReachable, DroppedWhenExpired, Elsewhere
<1> QED
  BY <1>1, <1>2, <1>3 DEF ListInv

(* The steps of RegisterUpdate are elsewhere. *)
LEMMA UpdateElsewhere ==
  ASSUME IInv, RegisterUpdate
  PROVE  Elsewhere
<1>1. net \in [Messages -> Nat]
  BY DEF IInv, TypeOK
<1>2. NoNewOk
  <2>1. CASE net' = net
    BY <2>1 DEF NoNewOk
  <2>2. CASE UpdateQuery
    <3>1. \A x \in {GetCount(m) : m \in {m \in Left : quiet[m] > Freq}} : x.type # "FWOK"
      BY DEF GetCount
    <3>2. net' = Plus(net, {GetCount(m) : m \in {m \in Left : quiet[m] > Freq}})
      BY <2>2 DEF UpdateQuery
    <3> QED
      BY <1>1, <3>1, <3>2, PlusKeepsOk DEF NoNewOk
  <2>3. CASE UpdateHeartbeat /\ net' = Plus(net, {Heartbeat(chosen)})
    <3>1. \A x \in {Heartbeat(chosen)} : x.type # "FWOK"
      BY DEF Heartbeat
    <3> QED
      BY <1>1, <2>3, <3>1, PlusKeepsOk DEF NoNewOk
  <2> QED
    BY <2>1, <2>2, <2>3 DEF RegisterUpdate, UpdateStart, UpdateAddrs, UpdateHeartbeat,
       UpdateHeartbeatAstray, UpdateRegistered, UpdateError
<1>3. /\ listed' = listed /\ sent' = sent /\ crowded' = crowded /\ open' = open
  BY DEF RegisterUpdate, UpdateStart, UpdateAddrs, UpdateQuery, UpdateHeartbeat,
     UpdateHeartbeatAstray, UpdateRegistered, UpdateError, masterVars
<1>4. state' # "REGISTERED"
  BY DEF RegisterUpdate, UpdateStart, UpdateAddrs, UpdateQuery, UpdateHeartbeat,
     UpdateHeartbeatAstray, UpdateRegistered, UpdateError, GiveUpInTime, NewState
<1> QED
  BY <1>2, <1>3, <1>4 DEF Elsewhere

(* So are the packets that end no registration and no check. *)
LEMMA PacketElsewhere ==
  ASSUME IInv, NEW m \in Masters,
         \/ \E n \in Counts : GotCount(m, n)
         \/ \E k \in 1 .. Tries : GotCheck(m, k)
         \/ GotError(m) \/ ServeCount(m) \/ AddCheckserver(m)
         \/ \E a \in Addrs : IgnoreServer(m, a)
  PROVE  Elsewhere
<1>0. ASSUME AddCheckserver(m)
      PROVE  StartCheck(m) \/ RefuseCheck(m) \/ Lose(Heartbeat(m))
  BY <1>0, HeartbeatComes
<1>1. PICK x \in Messages :
        /\ net[x] > 0
        /\ \/ net' = Minus(net, x)
           \/ \E S : (\A y \in S : y.type # "FWOK") /\ net' = Plus(Minus(net, x), S)
  <2>1. CASE \E n \in Counts : GotCount(m, n)
    <3>1. PICK n \in Counts : GotCount(m, n)
      BY <2>1
    <3> QED
      BY <3>1, MessagesOfMasters DEF GotCount
  <2>2. CASE \E k \in 1 .. Tries : GotCheck(m, k)
    <3>1. PICK k \in 1 .. Tries : GotCheck(m, k)
      BY <2>2
    <3>2. \A y \in {FwResponse(m, Checked(k))} : y.type # "FWOK"
      BY DEF FwResponse
    <3> QED
      BY <3>1, <3>2, MessagesOfMasters DEF GotCheck
  <2>3. CASE ServeCount(m)
    <3>1. \A y \in {Count(m, NumServers(m))} : y.type # "FWOK"
      BY DEF Count
    <3> QED
      BY <2>3, <3>1, MessagesOfMasters DEF ServeCount
  <2>4. CASE GotError(m) \/ \E a \in Addrs : IgnoreServer(m, a)
    BY <2>4, MessagesOfMasters DEF GotError, IgnoreServer
  <2>5. CASE AddCheckserver(m)
    BY <1>0, <2>5, MessagesOfMasters DEF StartCheck, RefuseCheck, Lose
  <2> QED
    BY <2>1, <2>2, <2>3, <2>4, <2>5
<1>2. /\ Minus(net, x) \in [Messages -> Nat]
      /\ \A n \in Masters : Minus(net, x)[FwOk(n)] > 0 => net[FwOk(n)] > 0
  BY <1>1, MinusKeepsOk
<1>3. NoNewOk
  BY <1>1, <1>2, PlusKeepsOk DEF NoNewOk
<1>4. /\ listed' = listed /\ sent' = sent /\ (crowded => crowded') /\ open' = open
      /\ state' = state /\ age' = age
  <2>1. CASE StartCheck(m)
    BY <2>1 DEF StartCheck, registerVars
  <2>2. CASE RefuseCheck(m)
    BY <2>2 DEF RefuseCheck, registerVars
  <2>3. CASE Lose(Heartbeat(m))
    BY <2>3 DEF Lose, registerVars, masterVars
  <2>4. CASE \/ \E n \in Counts : GotCount(m, n)
             \/ \E k \in 1 .. Tries : GotCheck(m, k)
             \/ GotError(m) \/ ServeCount(m) \/ \E a \in Addrs : IgnoreServer(m, a)
    <3>1. /\ listed' = listed /\ sent' = sent /\ crowded' = crowded /\ open' = open
          /\ state' = state /\ age' = age
      BY <2>4 DEF GotCount, GotCheck, GotError, ServeCount, IgnoreServer, registerVars,
         masterVars
    <3> QED
      BY <3>1
  <2> QED
    BY <1>0, <2>1, <2>2, <2>3, <2>4
<1> QED
  BY <1>3, <1>4 DEF Elsewhere

(* So are the faults of the network and the end of a refresh. *)
LEMMA FaultElsewhere ==
  ASSUME IInv,
         \/ \E x \in Messages : Lose(x) \/ Duplicate(x)
         \/ \E F \in SUBSET Masters : LookupDone(F)
         \/ UNCHANGED vars
  PROVE  Elsewhere
<1>1. NoNewOk
  <2>1. ASSUME NEW x \in Messages, Lose(x)
        PROVE  NoNewOk
    BY <2>1, MinusKeepsOk DEF Lose, NoNewOk
  <2>2. ASSUME NEW x \in Messages, Duplicate(x)
        PROVE  NoNewOk
    <3>1. net \in [Messages -> Nat] /\ net[x] > 0 /\ net' = Plus(net, {x})
      BY <2>2 DEF IInv, TypeOK, Duplicate
    <3>2. \A y \in Messages : y # x => net'[y] = net[y]
      BY <3>1, PlusTyped
    <3> QED
      BY <3>1, <3>2, MessagesOfMasters DEF NoNewOk
  <2>3. CASE net' = net
    BY <2>3 DEF NoNewOk
  <2> QED
    BY <2>1, <2>2, <2>3 DEF LookupDone, vars
<1>2. /\ listed' = listed /\ sent' = sent /\ crowded' = crowded /\ open' = open
      /\ state' = state /\ age' = age
  BY DEF Lose, Duplicate, LookupDone, vars, registerVars, masterVars
<1> QED
  BY <1>1, <1>2 DEF Elsewhere

-----------------------------------------------------------------------------
(* The steps that end a check or a registration, and time                  *)

(* The server takes itself for registered because of a FWOK. *)
LEMMA GotOkLists ==
  ASSUME IInv, ListInv, NEW m \in Masters, GotOk(m)
  PROVE  ListInv' /\ DroppedWhenExpired
<1>1. FwOk(m) \in Messages /\ net[FwOk(m)] > 0 /\ net' = Minus(net, FwOk(m))
  BY MessagesOfMasters DEF GotOk
<1>2. /\ listed' = listed /\ sent' = sent /\ crowded' = crowded /\ open' = open
      /\ state' = "REGISTERED" /\ age' = 0
  BY DEF GotOk, NewState, masterVars
<1>3. OkTrue'
  BY <1>1, <1>2, MinusKeepsOk DEF ListInv, OkTrue
<1>4. RegisteredIsListed'
  <2>1. crowded \/ \E a \in Addrs : listed[m][a] = 0
    BY <1>1 DEF ListInv, OkTrue
  <2>2. \A a \in Addrs : listed[m][a] = 0 => a \in open
    BY DEF IInv, OnlyReachableListed, NotListed
  <2>3. crowded \/ \E a \in open : listed[m][a] \in 0 .. 0
    BY <2>1, <2>2
  <2> QED
    BY <1>2, <2>3 DEF RegisteredIsListed
<1>5. RegisteredShortly'
  BY <1>2, TimesNatural DEF RegisteredShortly
<1>6. SentIsReachable' /\ DroppedWhenExpired
  BY <1>2 DEF ListInv, SentIsReachable, DroppedWhenExpired
<1> QED
  BY <1>3, <1>4, <1>5, <1>6 DEF ListInv

(* A check that ends lists the server as it says. *)
LEMMA AddServerLists ==
  ASSUME IInv, ListInv, NEW m \in Masters, NEW a \in Addrs, AddServer(m, a)
  PROVE  ListInv' /\ DroppedWhenExpired
<1> DEFINE left == Minus(net, FwResponse(m, a))
           more == Plus(left, {FwOk(m)})
<1>1. listed \in [Masters -> [Addrs -> Nat \cup {NotListed}]] /\ open \subseteq Addrs
      /\ crowded \in BOOLEAN
  BY DEF IInv, TypeOK
<1>2. \/ listed' = listed /\ crowded'
      \/ listed' = [listed EXCEPT ![m][a] = 0] /\ crowded' = crowded
  BY <1>1 DEF AddServer
<1>3. sent' = sent /\ open' = open /\ state' = state /\ age' = age
  BY DEF AddServer, registerVars
<1>4. \A n \in Masters, b \in Addrs :
        listed'[n][b] = listed[n][b] \/ listed'[n][b] = 0
  BY <1>1, <1>2
<1>5. crowded => crowded'
  BY <1>2
<1>6. \A n \in Masters : n # m => (net'[FwOk(n)] > 0 => net[FwOk(n)] > 0)
  <2>1. FwResponse(m, a) \in Messages /\ net[FwResponse(m, a)] > 0
    BY MessagesOfMasters DEF AddServer
  <2>2. /\ left \in [Messages -> Nat]
        /\ \A n \in Masters : left[FwOk(n)] > 0 => net[FwOk(n)] > 0
    BY <2>1, MinusKeepsOk
  <2>3. net' = Plus(more, {FwOk(m)})
    BY DEF AddServer
  <2> HIDE DEF left
  <2>4. /\ more \in [Messages -> Nat]
        /\ \A x \in Messages : x # FwOk(m) => more[x] = left[x]
    BY <2>2, PlusTyped
  <2> HIDE DEF more
  <2>5. \A x \in Messages : x # FwOk(m) => net'[x] = more[x]
    BY <2>3, <2>4, PlusTyped
  <2>6. \A n \in Masters : n # m => FwOk(n) \in Messages /\ FwOk(n) # FwOk(m)
    BY MessagesOfMasters DEF FwOk
  <2> QED
    BY <2>2, <2>4, <2>5, <2>6
<1>7. OkTrue'
  <2> SUFFICES ASSUME NEW n \in Masters, net'[FwOk(n)] > 0, ~crowded'
               PROVE  \E b \in Addrs : listed'[n][b] = 0
    BY DEF OkTrue
  <2>1. CASE n = m
    BY <1>1, <1>2, <2>1
  <2>2. CASE n # m
    <3>1. PICK b \in Addrs : listed[n][b] = 0
      BY <1>5, <1>6, <2>2 DEF ListInv, OkTrue
    <3> QED
      BY <1>4, <3>1
  <2> QED
    BY <2>1, <2>2
<1>8. RegisteredIsListed'
  <2> SUFFICES ASSUME state = "REGISTERED", ~crowded'
               PROVE  \E n \in Masters, b \in open : listed'[n][b] \in 0 .. age
    BY <1>3 DEF RegisteredIsListed
  <2>1. PICK n \in Masters, b \in open : listed[n][b] \in 0 .. age
    BY <1>5 DEF ListInv, RegisteredIsListed
  <2>2. age \in Nat
    BY DEF IInv, TypeOK
  <2> QED
    BY <1>1, <1>4, <2>1, <2>2
<1>9. RegisteredShortly'
  BY <1>3 DEF ListInv, RegisteredShortly
<1>10. SentIsReachable'
  <2>1. \A n \in Masters, b \in Addrs :
          listed[n][b] # NotListed => listed'[n][b] # NotListed
    BY <1>4 DEF NotListed
  <2> QED
    BY <1>1, <1>3, <2>1 DEF ListInv, SentIsReachable
<1>11. DroppedWhenExpired
  BY <1>3 DEF DroppedWhenExpired
<1> QED
  BY <1>7, <1>8, <1>9, <1>10, <1>11 DEF ListInv

(* A master's five-second work takes out what has expired only.            *)
LEMMA CycleLists ==
  ASSUME IInv, ListInv, Freq + 1 <= ExpireTime, NEW m \in Masters, Cycle(m)
  PROVE  ListInv' /\ DroppedWhenExpired
<1> USE TimesNatural
<1>1. /\ listed \in [Masters -> [Addrs -> Nat \cup {NotListed}]] /\ open \subseteq Addrs
      /\ sent \in [Masters -> BOOLEAN] /\ age \in Nat
  BY DEF IInv, TypeOK
<1>2. open' = open /\ state' = state /\ age' = age /\ (crowded => crowded')
  BY DEF Cycle, BuildPackets, registerVars
<1>3. listed' = [listed EXCEPT ![m] =
        [a \in Addrs |-> IF listed[m][a] > ExpireTime THEN NotListed ELSE listed[m][a]]]
  BY DEF Cycle, PurgeServers
<1>4. \A n \in Masters, a \in Addrs :
        \/ listed'[n][a] = listed[n][a]
        \/ n = m /\ listed[n][a] > ExpireTime /\ listed'[n][a] = NotListed
  BY <1>1, <1>3
<1>5. \A n \in Masters, a \in Addrs :
        listed[n][a] \in 0 .. Freq + 1 => listed'[n][a] = listed[n][a]
  BY <1>1, <1>4
<1>6. NoNewOk
  <2> SUFFICES ASSUME NEW n \in Masters
               PROVE  net'[FwOk(n)] = net[FwOk(n)]
    BY DEF NoNewOk
  <2>1. FwOk(n) \in Messages /\ FwOk(n).type # "FWCHECK" /\ FwOk(n).type # "FWERROR"
    BY MessagesOfMasters DEF FwOk
  <2> QED
    BY <2>1 DEF Cycle, UpdateServers
<1>7. OkTrue'
  <2>1. \A n \in Masters, a \in Addrs : listed[n][a] = 0 => listed'[n][a] = 0
    BY <1>5
  <2> QED
    BY <1>2, <1>6, <2>1 DEF ListInv, OkTrue, NoNewOk
<1>8. RegisteredIsListed' /\ RegisteredShortly'
  <2>1. RegisteredShortly'
    BY <1>2 DEF ListInv, RegisteredShortly
  <2> SUFFICES ASSUME state = "REGISTERED", ~crowded'
               PROVE  \E n \in Masters, a \in open : listed'[n][a] \in 0 .. age
    BY <1>2, <2>1 DEF RegisteredIsListed
  <2>2. PICK n \in Masters, a \in open : listed[n][a] \in 0 .. age
    BY <1>2 DEF ListInv, RegisteredIsListed
  <2>3. age <= Freq + 1
    BY DEF ListInv, RegisteredShortly
  <2>4. listed'[n][a] = listed[n][a]
    BY <1>1, <1>5, <2>2, <2>3
  <2> QED
    BY <2>2, <2>4
<1>9. PICK room \in BOOLEAN :
        /\ room \/ crowded'
        /\ sent' = [sent EXCEPT ![m] = (\E a \in Addrs : listed'[m][a] # NotListed) /\ room]
  <2> DEFINE num == others[m] + Cardinality({a \in Addrs : listed'[m][a] # NotListed})
  <2>1. PICK room \in BOOLEAN :
          /\ num <= MaxSent => room
          /\ sent' = [sent EXCEPT ![m] = (\E a \in Addrs : listed'[m][a] # NotListed) /\ room]
    BY DEF Cycle, BuildPackets
  <2>2. crowded' = (crowded \/ num > MaxSent)
    BY DEF Cycle, BuildPackets
  <2>3. num \in Nat
    <3>1. IsFiniteSet(Addrs)
      <4>1. IsFiniteSet({"main"})
        BY FS_Singleton
      <4>2. IsFiniteSet({"main"} \cup {"alt"})
        BY <4>1, FS_AddElement
      <4>3. Addrs = {"main"} \cup {"alt"}
        BY DEF Addrs
      <4> QED
        BY <4>2, <4>3
    <3>2. Cardinality({a \in Addrs : listed'[m][a] # NotListed}) \in Nat
      BY <3>1, FS_Subset, FS_CardinalityType
    <3>3. others[m] \in Nat
      BY DEF IInv, TypeOK
    <3> HIDE DEF Addrs
    <3> QED
      BY <3>2, <3>3
  <2> HIDE DEF num
  <2>4. num <= MaxSent \/ num > MaxSent
    BY <2>3, RegistrationAssumption
  <2> QED
    BY <2>1, <2>2, <2>4
<1>10. SentIsReachable'
  <2> SUFFICES ASSUME NEW n \in Masters, sent'[n]
               PROVE  \E a \in open : listed'[n][a] # NotListed
    BY <1>2 DEF SentIsReachable
  <2>1. CASE n = m
    <3>1. PICK a \in Addrs : listed'[m][a] # NotListed
      BY <1>1, <1>9, <2>1
    <3>2. a \in open
      BY <1>4, <3>1 DEF IInv, OnlyReachableListed
    <3> QED
      BY <2>1, <3>1, <3>2
  <2>2. CASE n # m
    BY <1>1, <1>4, <1>9, <2>2 DEF ListInv, SentIsReachable
  <2> QED
    BY <2>1, <2>2
<1>11. DroppedWhenExpired
  <2> SUFFICES ASSUME NEW n \in Masters, sent[n], ~sent'[n], ~crowded'
               PROVE  Expired(n)
    BY DEF DroppedWhenExpired
  <2>1. n = m /\ \A a \in Addrs : listed'[m][a] = NotListed
    BY <1>1, <1>9
  <2> QED
    BY <1>4, <2>1 DEF Expired
<1> QED
  BY <1>7, <1>8, <1>10, <1>11 DEF ListInv

(* Time makes the entries older, and the registration as much. *)
LEMMA TickLists ==
  ASSUME IInv, ListInv, Freq <= GiveUp, Tick
  PROVE  ListInv' /\ DroppedWhenExpired
<1> USE TimesNatural
<1>1. listed \in [Masters -> [Addrs -> Nat \cup {NotListed}]] /\ open \subseteq Addrs /\ age \in Nat
  BY DEF IInv, TypeOK
<1>2. /\ sent' = sent /\ crowded' = crowded /\ open' = open /\ state' = state /\ net' = net
      /\ age' = Later(age, GiveUp)
      /\ \A x \in Messages : net[x] = 0
      /\ state = "REGISTERED" => age <= Freq
  BY DEF Tick, Settled
<1>3. listed' = [m \in Masters |-> [a \in Addrs |->
                  IF listed[m][a] = NotListed THEN NotListed
                  ELSE Later(listed[m][a], ExpireTime)]]
  BY DEF Tick
<1>4. \A m \in Masters, a \in Addrs :
        listed[m][a] # NotListed =>
          /\ listed'[m][a] \in Nat
          /\ listed'[m][a] <= listed[m][a] + 1
  BY <1>1, <1>3 DEF Later
<1>5. OkTrue'
  <2>1. \A m \in Masters : net'[FwOk(m)] = 0
    BY <1>2, MessagesOfMasters
  <2> QED
    BY <2>1 DEF OkTrue
<1>6. state = "REGISTERED" => age' = age + 1 /\ age' <= Freq + 1
  BY <1>1, <1>2 DEF Later
<1>7. RegisteredShortly'
  BY <1>2, <1>6 DEF RegisteredShortly
<1>8. RegisteredIsListed'
  <2> SUFFICES ASSUME state = "REGISTERED", ~crowded
               PROVE  \E n \in Masters, a \in open : listed'[n][a] \in 0 .. age'
    BY <1>2 DEF RegisteredIsListed
  <2>1. PICK n \in Masters, a \in open : listed[n][a] \in 0 .. age
    BY DEF ListInv, RegisteredIsListed
  <2>2. listed[n][a] # NotListed /\ listed[n][a] <= age /\ listed[n][a] \in Nat
    BY <1>1, <2>1 DEF NotListed
  <2>3. listed'[n][a] \in Nat /\ listed'[n][a] <= age + 1
    BY <1>1, <1>4, <2>2
  <2>4. listed'[n][a] \in 0 .. age'
    BY <1>1, <1>6, <2>3
  <2> QED
    BY <2>4
<1>9. SentIsReachable'
  <2>1. \A m \in Masters, a \in Addrs :
          listed[m][a] # NotListed => listed'[m][a] # NotListed
    BY <1>4 DEF NotListed
  <2> QED
    BY <1>1, <1>2, <2>1 DEF ListInv, SentIsReachable
<1>10. DroppedWhenExpired
  BY <1>2 DEF DroppedWhenExpired
<1> QED
  BY <1>5, <1>7, <1>8, <1>9, <1>10 DEF ListInv

(* At the start the server is in no list and not registered. *)
LEMMA InitLists == Init => ListInv
<1> SUFFICES ASSUME Init
             PROVE  ListInv
  OBVIOUS
<1>1. OkTrue
  BY MessagesOfMasters DEF Init, OkTrue
<1> QED
  BY <1>1 DEF Init, ListInv, RegisteredIsListed, RegisteredShortly, SentIsReachable

(* Every step keeps it, and drops only what has expired. *)
LEMMA StepLists ==
  ASSUME Freq <= GiveUp, Freq + 1 <= ExpireTime, IInv, ListInv, [Next]_vars
  PROVE  ListInv' /\ DroppedWhenExpired
<1>1. CASE RegisterUpdate
  BY <1>1, UpdateElsewhere, ElsewhereKeeps
<1>2. CASE \E F \in SUBSET Masters : LookupDone(F)
  BY <1>2, FaultElsewhere, ElsewhereKeeps
<1>3. CASE \E m \in Masters : GotPacket(m)
  BY <1>3, PacketElsewhere, ElsewhereKeeps, GotOkLists DEF GotPacket
<1>4. CASE \E m \in Masters : ServePacket(m)
  BY <1>4, PacketElsewhere, ElsewhereKeeps, AddServerLists DEF ServePacket
<1>5. CASE \E m \in Masters : Cycle(m)
  BY <1>5, CycleLists
<1>6. CASE \E x \in Messages : Lose(x) \/ Duplicate(x)
  BY <1>6, FaultElsewhere, ElsewhereKeeps
<1>7. CASE Tick
  BY <1>7, TickLists
<1>8. CASE UNCHANGED vars
  BY <1>8, FaultElsewhere, ElsewhereKeeps
<1> QED
  BY <1>1, <1>2, <1>3, <1>4, <1>5, <1>6, <1>7, <1>8 DEF Next

(***************************************************************************)
(* A server that takes itself for registered is in some master's list, or  *)
(* a list was full, as long as it looks again (after Freq) before it would *)
(* give up and before the masters forget it: 1, 60 and 90 seconds.         *)
(***************************************************************************)
THEOREM RegisteredListed ==
  ASSUME Freq <= GiveUp, Freq + 1 <= ExpireTime
  PROVE  Spec => []RegisteredIsListed
<1>1. IInv /\ ListInv /\ [Next]_vars => ListInv'
  BY StepLists
<1>2. ListInv => RegisteredIsListed
  BY DEF ListInv
<1> QED
  BY <1>1, <1>2, InitLists, Inductive, PTL DEF Spec

(***************************************************************************)
(* What a master sends to the players it has reached with a check, and it  *)
(* has not purged it since.                                                *)
(***************************************************************************)
THEOREM SentReachable ==
  ASSUME Freq <= GiveUp, Freq + 1 <= ExpireTime
  PROVE  Spec => []SentIsReachable
<1>1. IInv /\ ListInv /\ [Next]_vars => ListInv'
  BY StepLists
<1>2. ListInv => SentIsReachable
  BY DEF ListInv
<1> QED
  BY <1>1, <1>2, InitLists, Inductive, PTL DEF Spec

(***************************************************************************)
(* A server that the players find is dropped from what a master sends only *)
(* when the master has not heard of it for ExpireTime, or a list is full.  *)
(***************************************************************************)
THEOREM DroppedLate ==
  ASSUME Freq <= GiveUp, Freq + 1 <= ExpireTime
  PROVE  Spec => [][DroppedWhenExpired]_vars
<1>1. IInv /\ ListInv /\ [Next]_vars => ListInv' /\ DroppedWhenExpired
  BY StepLists
<1> QED
  BY <1>1, InitLists, Inductive, PTL DEF Spec

=============================================================================
