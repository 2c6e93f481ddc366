-------------------------- MODULE ClientSlotsProofs --------------------------
(***************************************************************************)
(* Proofs about ClientSlots, for any number of slots, addresses and        *)
(* clients for each of them.                                               *)
(***************************************************************************)
EXTENDS ClientSlots, FiniteSetTheorems, TLAPS

SlotsTyped ==
  /\ conn \in [Slots -> {"offline", "online", "error"}]
  /\ peer \in [Slots -> Addrs \cup {NoAddr}]
  /\ young \in [Slots -> BOOLEAN]
  /\ state \in [Slots -> States] /\ player \in [Slots -> {"none", "new", "ready"}]

Programs == {"off", "asking", "up", "met", "talking"}

NetTyped ==
  /\ bans \subseteq Ips
  /\ prog \in [Addrs -> Programs]
  /\ sync \in [Slots -> BOOLEAN]
  /\ toServer \in [Addrs -> Seq(ClientMessages)] /\ toClient \in [Addrs -> Seq(ServerMessages)]
  /\ accepts \subseteq Addrs

(* A connection belongs together with a program only while it is in use.   *)
SyncInUse == \A s \in Slots : sync[s] => conn[s] = "online"

(* What only depends on the slots, and what every step keeps.              *)
SlotInv == SlotsTyped /\ SlotsAgree /\ PlayersAgree /\ OneSlotPerClient /\ PerIpLimit
IInv == SlotInv /\ NetTyped /\ SyncInUse

-----------------------------------------------------------------------------
(* The limit per address                                                   *)

(* The slots of an address without its port are finitely many.             *)
LEMMA OnIpFinite ==
  ASSUME NEW i
  PROVE  IsFiniteSet(OnIp(i)) /\ Cardinality(OnIp(i)) \in Nat
<1>1. NumSlots \in Int /\ 1 \in Int
  BY SlotsAssumption
<1>2. IsFiniteSet(Slots)
  BY <1>1, FS_Interval DEF Slots
<1>3. OnIp(i) \in SUBSET Slots
  BY DEF OnIp
<1>4. IsFiniteSet(OnIp(i))
  BY <1>2, <1>3, FS_Subset
<1> QED
  BY <1>4, FS_CardinalityType

(* The limit stays when no live slot of an address is added.               *)
LEMMA LimitStays ==
  ASSUME PerIpLimit, \A i \in Ips : OnIp(i)' \subseteq OnIp(i)
  PROVE  PerIpLimit'
<1> SUFFICES ASSUME NEW i \in Ips PROVE Cardinality(OnIp(i)') <= MaxPerIP
  BY DEF PerIpLimit
<1> DEFINE old == OnIp(i)  new == OnIp(i)'
<1>1. IsFiniteSet(old) /\ Cardinality(old) \in Nat
  BY OnIpFinite
<1>2. new \in SUBSET old
  OBVIOUS
<1>3. Cardinality(old) <= MaxPerIP
  BY DEF PerIpLimit
<1> HIDE DEF old, new
<1>4. Cardinality(new) <= Cardinality(old) /\ IsFiniteSet(new)
  BY <1>1, <1>2, FS_Subset
<1>5. Cardinality(new) \in Nat
  BY <1>4, FS_CardinalityType
<1>6. MaxPerIP \in Nat
  BY SlotsAssumption
<1>7. Cardinality(new) <= MaxPerIP
  BY <1>1, <1>3, <1>4, <1>5, <1>6
<1> QED
  BY <1>7 DEF new

(* TryAcceptClient asks for room before it gives a slot to an address.     *)
LEMMA LimitAsked ==
  ASSUME SlotInv, NEW s \in Slots, NEW a \in Addrs,
         NEW together \in BOOLEAN, Accepted(s, a, together)
  PROVE  PerIpLimit'
<1> SUFFICES ASSUME NEW i \in Ips PROVE Cardinality(OnIp(i)') <= MaxPerIP
  BY DEF PerIpLimit
<1> DEFINE old == OnIp(i)  new == OnIp(i)'
<1>1. IsFiniteSet(old) /\ Cardinality(old) \in Nat
  BY OnIpFinite
<1>2. MaxPerIP \in Nat
  BY SlotsAssumption
<1>3. Cardinality(old) <= MaxPerIP
  BY DEF SlotInv, PerIpLimit
<1>4. conn' = [conn EXCEPT ![s] = "online"] /\ peer' = [peer EXCEPT ![s] = a]
  BY DEF Accepted
<1>5. s \notin old
  BY DEF Accepted, FreeSlot, OnIp
<1>6. CASE IpOf[a] = i
  <2>1. new \subseteq old \cup {s} /\ old \cup {s} \subseteq new
    BY <1>4, <1>5, <1>6 DEF OnIp, SlotInv, SlotsTyped
  <2>2. new = old \cup {s}
    BY <2>1
  <2>3. Cardinality(old) + 1 <= MaxPerIP
    BY <1>6 DEF Accepted, NumClientsWithAddr
  <2> HIDE DEF old, new
  <2>4. Cardinality(old \cup {s}) = Cardinality(old) + 1
    BY <1>1, <1>5, FS_AddElement
  <2>5. Cardinality(new) <= MaxPerIP
    BY <2>2, <2>3, <2>4
  <2> QED
    BY <2>5 DEF new
<1>7. CASE IpOf[a] # i
  <2>1. new \subseteq old /\ old \subseteq new
    BY <1>4, <1>5, <1>7 DEF OnIp, SlotInv, SlotsTyped
  <2>2. new = old
    BY <2>1
  <2> QED
    BY <1>3, <2>2
<1> QED
  BY <1>6, <1>7

-----------------------------------------------------------------------------
(* What happens to a slot                                                  *)

(* A step that leaves the slots alone keeps what depends on them.          *)
LEMMA SlotsLeftAlone ==
  ASSUME SlotInv, UNCHANGED slotVars
  PROVE  SlotInv'
BY DEF SlotInv, SlotsTyped, SlotsAgree, PlayersAgree, OneSlotPerClient, PerIpLimit,
       OnIp, slotVars

(* Dropping a client of any state leaves no trace of it.                   *)
LEMMA DropKeeps ==
  ASSUME IInv, NEW s \in Slots, Drop(s)
  PROVE  SlotInv' /\ SyncInUse'
         /\ sync' \in [Slots -> BOOLEAN]
         /\ toServer' \in [Addrs -> Seq(ClientMessages)] /\ toClient' \in [Addrs -> Seq(ServerMessages)]
<1> USE DEF IInv, SlotInv
<1>1. SlotsTyped'
  BY DEF SlotsTyped, Drop, States
<1>2. SlotsAgree'
  BY SlotsAssumption DEF SlotsTyped, SlotsAgree, Drop
<1>3. PlayersAgree'
  BY DEF SlotsTyped, PlayersAgree, Drop
<1>4. OneSlotPerClient'
  BY DEF SlotsTyped, OneSlotPerClient, Drop
<1>5. PerIpLimit'
  <2>1. \A i \in Ips : OnIp(i)' \subseteq OnIp(i)
    BY DEF OnIp, SlotsTyped, Drop
  <2> QED
    BY <2>1, LimitStays
<1>6. SyncInUse'
  BY DEF SyncInUse, SlotsTyped, NetTyped, Drop, CutOff
<1>7. sync' \in [Slots -> BOOLEAN]
  BY DEF NetTyped, Drop, CutOff
<1>8. toServer' \in [Addrs -> Seq(ClientMessages)]
  BY DEF NetTyped, Drop, CutOff
<1>9. toClient' \in [Addrs -> Seq(ServerMessages)]
  BY DEF NetTyped, Drop, CutOff
<1> QED
  BY <1>1, <1>2, <1>3, <1>4, <1>5, <1>6, <1>7, <1>8, <1>9

(* An address without a live slot is given a free one, or refused.         *)
LEMMA TryAcceptKeeps ==
  ASSUME IInv, NEW a \in Addrs, GetClientSlot(a) = {},
         NEW together \in BOOLEAN, TryAcceptClient(a, together)
  PROVE  SlotInv' /\ SyncInUse' /\ sync' \in [Slots -> BOOLEAN]
<1>1. CASE UNCHANGED <<slotVars, sync>>
  BY <1>1, SlotsLeftAlone DEF IInv, SyncInUse, NetTyped, slotVars
<1>2. ASSUME NEW s \in Slots, Accepted(s, a, together)
      PROVE  SlotInv' /\ SyncInUse' /\ sync' \in [Slots -> BOOLEAN]
  <2> USE <1>2 DEF IInv, SlotInv
  <2>1. SlotsTyped'
    BY DEF SlotsTyped, Accepted, States
  <2>2. SlotsAgree'
    BY SlotsAssumption DEF SlotsTyped, SlotsAgree, Accepted
  <2>3. PlayersAgree'
    BY DEF SlotsTyped, SlotsAgree, PlayersAgree, Accepted, FreeSlot
  <2>4. OneSlotPerClient'
    BY DEF SlotsTyped, OneSlotPerClient, Accepted, GetClientSlot
  <2>5. PerIpLimit'
    BY LimitAsked
  <2>6. SyncInUse'
    BY DEF SyncInUse, SlotsTyped, NetTyped, Accepted
  <2>7. sync' \in [Slots -> BOOLEAN]
    BY DEF NetTyped, Accepted
  <2> QED
    BY <2>1, <2>2, <2>3, <2>4, <2>5, <2>6, <2>7
<1> QED
  BY <1>1, <1>2 DEF TryAcceptClient

(* A slot that a stream belongs to has an address.                         *)
LEMMA InUse ==
  ASSUME IInv, NEW s \in Slots, conn[s] # "offline"
  PROVE  peer[s] \in Addrs
BY DEF IInv, SlotInv, SlotsTyped, SlotsAgree

(* The messages of a stream are messages.                                  *)
LEMMA SeqFacts ==
  ASSUME NEW M, NEW q \in Seq(M)
  PROVE  /\ q # <<>> => Head(q) \in M /\ Tail(q) \in Seq(M)
         /\ \A m \in M : Append(q, m) \in Seq(M)
OBVIOUS

(* A reply keeps the streams' types.                                       *)
LEMMA ReplyTyped ==
  ASSUME IInv, NEW s \in Slots, sync[s], NextMessage(s) # "",
         NEW m \in ServerMessages \cup {""}, Reply(s, m)
  PROVE  toServer' \in [Addrs -> Seq(ClientMessages)] /\ toClient' \in [Addrs -> Seq(ServerMessages)]
<1>1. peer[s] \in Addrs
  BY InUse DEF IInv, SyncInUse
<1> DEFINE a == peer[s]
<1>2. toServer[a] \in Seq(ClientMessages) /\ toClient[a] \in Seq(ServerMessages)
  BY <1>1 DEF IInv, NetTyped
<1>3. toServer[a] # <<>>
  BY DEF NextMessage
<1>4. Tail(toServer[a]) \in Seq(ClientMessages)
  BY <1>2, <1>3, SeqFacts
<1>5. m # "" => Append(toClient[a], m) \in Seq(ServerMessages)
  BY <1>2, SeqFacts
<1>6. toServer' = [toServer EXCEPT ![a] = Tail(toServer[a])]
  BY <1>1 DEF Reply
<1>7. toClient' = [toClient EXCEPT ![a] = IF m = "" THEN toClient[a] ELSE Append(toClient[a], m)]
  BY <1>1 DEF Reply
<1> HIDE DEF a
<1>8. toServer' \in [Addrs -> Seq(ClientMessages)]
  BY <1>4, <1>6 DEF IInv, NetTyped
<1>9. (IF m = "" THEN toClient[a] ELSE Append(toClient[a], m)) \in Seq(ServerMessages)
  BY <1>2, <1>5
<1>10. toClient' \in [Addrs -> Seq(ServerMessages)]
  BY <1>7, <1>9 DEF IInv, NetTyped
<1> QED
  BY <1>8, <1>10

(* What a client sends first is messages.                                  *)
LEMMA FirstTyped ==
  /\ DOMAIN FirstMessages = {"up", "met"}
  /\ FirstMessages["up"] = <<"info">> /\ FirstMessages["met"] = <<"info", "ready">>
  /\ \A p \in DOMAIN FirstMessages : FirstMessages[p] \in Seq(ClientMessages)
<1>1. <<"info">> \in Seq(ClientMessages) /\ <<"info", "ready">> \in Seq(ClientMessages)
  BY DEF ClientMessages
<1>2. /\ DOMAIN FirstMessages = {"up", "met"}
      /\ FirstMessages["up"] = <<"info">> /\ FirstMessages["met"] = <<"info", "ready">>
  BY DEF FirstMessages
<1> QED BY <1>1, <1>2

(* A client that sends again, or on, sends messages.                       *)
LEMMA SendsTyped ==
  ASSUME IInv, NEW a \in Addrs,
         \/ prog[a] \in DOMAIN FirstMessages /\ SendsAgain(a)
         \/ SendsOn(a)
         \/ UNCHANGED <<prog, toServer>>
  PROVE  prog' \in [Addrs -> Programs] /\ toServer' \in [Addrs -> Seq(ClientMessages)]
<1>1. CASE prog[a] \in DOMAIN FirstMessages /\ SendsAgain(a)
  <2>1. FirstMessages[prog[a]] \in Seq(ClientMessages)
    BY <1>1, FirstTyped
  <2> QED BY <1>1, <2>1 DEF IInv, NetTyped, SendsAgain
<1>2. CASE SendsOn(a)
  <2>1. prog[a] \in Programs /\ "talking" \in Programs /\ <<>> \in Seq(ClientMessages)
    BY DEF IInv, NetTyped, Programs
  <2> QED BY <1>2, <2>1 DEF IInv, NetTyped, SendsOn
<1> QED BY <1>1, <1>2 DEF IInv, NetTyped

(* A new connection of an address without one keeps the invariant.         *)
LEMMA NewConnectionKeeps ==
  ASSUME IInv, NEW a \in Addrs, GetClientSlot(a) = {}, NewConnection(a),
         UNCHANGED <<bans, toClient, accepts>>
  PROVE  IInv'
<1>1. \E together \in BOOLEAN : TryAcceptClient(a, together)
  BY DEF NewConnection
<1>2. SlotInv' /\ SyncInUse' /\ sync' \in [Slots -> BOOLEAN]
  BY <1>1, TryAcceptKeeps
<1>3. prog' \in [Addrs -> Programs] /\ toServer' \in [Addrs -> Seq(ClientMessages)]
  BY FirstTyped, SendsTyped DEF NewConnection
<1> QED
  BY <1>2, <1>3 DEF IInv, NetTyped

-----------------------------------------------------------------------------
(* One lemma for each action                                               *)

(* ClientStart keeps the invariant. *)
LEMMA ClientStartKeeps ==
  ASSUME IInv, NEW a \in Addrs, ClientStart(a)
  PROVE  IInv'
<1>1. SlotInv'
  BY SlotsLeftAlone DEF IInv, ClientStart
<1>2. NetTyped' /\ SyncInUse'
  BY DEF IInv, NetTyped, Programs, SyncInUse, ClientStart, slotVars
<1> QED
  BY <1>1, <1>2 DEF IInv

(* Connect keeps the invariant. *)
LEMMA ConnectKeeps ==
  ASSUME IInv, NEW a \in Addrs, Connect(a)
  PROVE  IInv'
<1>1. SlotInv'
  BY SlotsLeftAlone DEF IInv, Connect
<1>2. <<"info">> \in Seq(ClientMessages)
  BY DEF ClientMessages
<1>3. NetTyped' /\ SyncInUse'
  BY <1>2 DEF IInv, NetTyped, Programs, SyncInUse, Connect, NowUp, slotVars
<1> QED
  BY <1>1, <1>3 DEF IInv

(* OnPreConnMsg keeps the invariant. *)
LEMMA OnPreConnMsgKeeps ==
  ASSUME IInv, NEW a \in Addrs, OnPreConnMsg(a)
  PROVE  IInv'
<1>1. GetClientSlot(a) = {} /\ UNCHANGED <<bans, toClient, accepts>>
  BY DEF OnPreConnMsg
<1>2. CASE TryAcceptClient(a, TRUE) /\ NowUp(a)
  <2>1. SlotInv' /\ SyncInUse' /\ sync' \in [Slots -> BOOLEAN]
    BY <1>1, <1>2, TryAcceptKeeps
  <2>2. <<"info">> \in Seq(ClientMessages) /\ "up" \in Programs
    BY DEF ClientMessages, Programs
  <2>3. NetTyped'
    BY <1>1, <1>2, <2>1, <2>2 DEF IInv, NetTyped, NowUp
  <2> QED
    BY <2>1, <2>3 DEF IInv
<1>3. CASE NewConnection(a)
  BY <1>1, <1>3, NewConnectionKeeps
<1> QED
  BY <1>2, <1>3 DEF OnPreConnMsg

(* Accept keeps the invariant. *)
LEMMA AcceptKeeps ==
  ASSUME IInv, NEW a \in Addrs, Accept(a)
  PROVE  IInv'
<1>1. UNCHANGED <<bans, accepts>>
  BY DEF Accept
<1>2. CASE \E s \in GetClientSlot(a) : Rejoin(s)
  <2>1. PICK s \in GetClientSlot(a) : Rejoin(s)
    BY <1>2
  <2>2. s \in Slots /\ conn[s] = "online" /\ peer[s] = a
    BY <2>1 DEF GetClientSlot
  <2>3. SlotInv'
    BY <2>1, SlotsLeftAlone DEF IInv, Rejoin
  <2>4. <<"map">> \in Seq(ServerMessages) /\ <<>> \in Seq(ServerMessages)
    BY DEF ServerMessages
  <2>5. prog' \in [Addrs -> Programs] /\ toServer' \in [Addrs -> Seq(ClientMessages)]
    BY <2>1, <2>2, SendsTyped DEF Rejoin
  <2>6. sync' \in [Slots -> BOOLEAN]
    BY <2>1 DEF IInv, NetTyped, Rejoin
  <2>7. toClient' \in [Addrs -> Seq(ServerMessages)]
    BY <2>1, <2>2, <2>4 DEF IInv, NetTyped, Rejoin
  <2>8. SyncInUse'
    BY <2>1, <2>2 DEF IInv, NetTyped, SyncInUse, Rejoin, slotVars
  <2>9. NetTyped'
    BY <1>1, <2>5, <2>6, <2>7 DEF IInv, NetTyped
  <2> QED
    BY <2>3, <2>8, <2>9 DEF IInv
<1>3. CASE GetClientSlot(a) = {} /\ NewConnection(a) /\ UNCHANGED toClient
  BY <1>1, <1>3, NewConnectionKeeps
<1>4. CASE UNCHANGED <<slotVars, netVars>>
  <2>1. SlotInv'
    BY <1>4, SlotsLeftAlone DEF IInv
  <2> QED
    BY <1>1, <1>4, <2>1 DEF IInv, NetTyped, SyncInUse, slotVars, netVars
<1> QED
  BY <1>2, <1>3, <1>4 DEF Accept

(* Lose keeps the invariant. *)
LEMMA LoseKeeps ==
  ASSUME IInv, NEW a \in Addrs, Lose(a)
  PROVE  IInv'
<1>1. SlotInv'
  BY SlotsLeftAlone DEF IInv, Lose
<1>2. NetTyped' /\ SyncInUse'
  BY DEF IInv, NetTyped, SyncInUse, Lose, slotVars
<1> QED
  BY <1>1, <1>2 DEF IInv

(* A message that changes the client's state or its player.                *)
LEMMA StepInSlot ==
  ASSUME IInv, NEW s \in Slots, conn[s] # "offline",
         NEW st \in States \ {"EMPTY"}, NEW pl \in {"none", "new", "ready"},
         (pl # "none") <=> (st \in {"READY", "INGAME"}),
         st = "INGAME" => pl = "ready",
         state' = [state EXCEPT ![s] = st], player' = [player EXCEPT ![s] = pl],
         UNCHANGED <<conn, peer, young>>
  PROVE  SlotInv'
<1> USE DEF IInv, SlotInv
<1>1. SlotsTyped'
  BY DEF SlotsTyped
<1>2. SlotsAgree'
  BY DEF SlotsTyped, SlotsAgree
<1>3. PlayersAgree'
  BY DEF SlotsTyped, PlayersAgree
<1>4. OneSlotPerClient' /\ PerIpLimit'
  BY DEF OneSlotPerClient, PerIpLimit, OnIp
<1> QED
  BY <1>1, <1>2, <1>3, <1>4

(* Every message of a client keeps the invariant. *)
LEMMA ProcessClientPacketKeeps ==
  ASSUME IInv, NEW s \in Slots, ProcessClientPacket(s)
  PROVE  IInv'
<1> DEFINE Streams == /\ toServer' \in [Addrs -> Seq(ClientMessages)]
                      /\ toClient' \in [Addrs -> Seq(ServerMessages)]
<1>1. sync[s] /\ conn[s] = "online" /\ UNCHANGED <<bans, prog, accepts>>
  BY DEF ProcessClientPacket, IInv, SyncInUse
<1>2. prog' \in [Addrs -> Programs]
  BY DEF ProcessClientPacket, IInv, NetTyped
<1>3. state[s] \in States \ {"EMPTY"} /\ player[s] \in {"none", "new", "ready"}
  BY <1>1 DEF IInv, SlotInv, SlotsTyped, SlotsAgree
<1>4. /\ (player[s] # "none") <=> (state[s] \in {"READY", "INGAME"})
      /\ state[s] = "INGAME" => player[s] = "ready"
  BY DEF IInv, SlotInv, PlayersAgree
<1>5. state = [state EXCEPT ![s] = state[s]] /\ player = [player EXCEPT ![s] = player[s]]
  BY DEF IInv, SlotInv, SlotsTyped
<1>6. {"map", "con_ready", "ready_to_enter"} \subseteq ServerMessages /\ "" \notin ServerMessages
  BY DEF ServerMessages
<1>7. NextMessage(s) # ""
  BY DEF ProcessClientPacket, Info, Ready, StartInfo, EnterGame
<1>8. ASSUME NEW m \in ServerMessages \cup {""}, Reply(s, m), SlotInv',
             UNCHANGED <<conn, sync>>
      PROVE  IInv'
  <2>1. /\ toServer' \in [Addrs -> Seq(ClientMessages)]
        /\ toClient' \in [Addrs -> Seq(ServerMessages)]
    BY <1>1, <1>7, <1>8, ReplyTyped
  <2>2. SyncInUse'
    BY <1>8 DEF IInv, SyncInUse
  <2> QED
    BY <1>1, <1>2, <1>8, <2>1, <2>2 DEF IInv, NetTyped
<1>9. ASSUME NEW m \in ServerMessages \cup {""}, Reply(s, m),
             UNCHANGED <<slotVars, sync>>
      PROVE  IInv'
  <2>1. SlotInv'
    BY <1>9, SlotsLeftAlone DEF IInv
  <2> QED
    BY <1>8, <1>9, <2>1 DEF slotVars
<1>10. ASSUME NEW m \in ServerMessages \cup {""}, Reply(s, m),
              NEW st \in States \ {"EMPTY"}, NEW pl \in {"none", "new", "ready"},
              (pl # "none") <=> (st \in {"READY", "INGAME"}),
              st = "INGAME" => pl = "ready",
              state' = [state EXCEPT ![s] = st], player' = [player EXCEPT ![s] = pl],
              UNCHANGED <<conn, peer, young, sync>>
       PROVE  IInv'
  <2>1. SlotInv'
    BY <1>1, <1>10, StepInSlot
  <2> QED
    BY <1>8, <1>10, <2>1
<1>11. CASE Info(s)
  <2>1. CASE state[s] = "AUTH" /\ Drop(s)
    <3>1. SlotInv' /\ SyncInUse' /\ sync' \in [Slots -> BOOLEAN] /\ Streams
      BY <2>1, DropKeeps
    <3> QED
      BY <1>1, <1>2, <3>1 DEF IInv, NetTyped
  <2>2. CASE /\ state[s] = "AUTH" /\ state' = [state EXCEPT ![s] = "CONNECTING"]
             /\ Reply(s, "map") /\ UNCHANGED <<conn, peer, young, player, sync>>
    <3>1. "CONNECTING" \in States \ {"EMPTY"}
      BY DEF States
    <3>2. player[s] = "none" /\ player' = [player EXCEPT ![s] = player[s]]
      BY <1>4, <1>5, <2>2
    <3> QED
      BY <1>3, <1>6, <1>10, <2>2, <3>1, <3>2
  <2>3. CASE Reply(s, "") /\ UNCHANGED <<slotVars, sync>>
    BY <1>9, <2>3
  <2> QED
    BY <1>11, <2>1, <2>2, <2>3 DEF Info
<1>12. CASE Ready(s)
  <2>1. CASE /\ player' = [player EXCEPT ![s] = "new"]
             /\ state' = [state EXCEPT ![s] = "READY"]
             /\ Reply(s, "con_ready") /\ UNCHANGED <<conn, peer, young, sync>>
    <3>1. "READY" \in States \ {"EMPTY"}
      BY DEF States
    <3> QED
      BY <1>6, <1>10, <2>1, <3>1
  <2>2. CASE Reply(s, "") /\ UNCHANGED <<slotVars, sync>>
    BY <1>9, <2>2
  <2> QED
    BY <1>12, <2>1, <2>2 DEF Ready
<1>13. CASE StartInfo(s)
  <2>1. CASE /\ state[s] = "READY" /\ player' = [player EXCEPT ![s] = "ready"]
             /\ Reply(s, "ready_to_enter") /\ UNCHANGED <<conn, peer, young, state, sync>>
    <3>1. state' = [state EXCEPT ![s] = state[s]]
      BY <1>5, <2>1
    <3> QED
      BY <1>3, <1>6, <1>10, <2>1, <3>1
  <2>2. CASE Reply(s, "") /\ UNCHANGED <<slotVars, sync>>
    BY <1>9, <2>2
  <2> QED
    BY <1>13, <2>1, <2>2 DEF StartInfo
<1>14. CASE EnterGame(s)
  <2>1. CASE /\ player[s] = "ready" /\ state' = [state EXCEPT ![s] = "INGAME"]
             /\ Reply(s, "") /\ UNCHANGED <<conn, peer, young, player, sync>>
    <3>1. "INGAME" \in States \ {"EMPTY"}
      BY DEF States
    <3>2. player' = [player EXCEPT ![s] = "ready"]
      BY <1>5, <2>1
    <3> QED
      BY <1>10, <2>1, <3>1, <3>2
  <2>2. CASE Reply(s, "") /\ UNCHANGED <<slotVars, sync>>
    BY <1>9, <2>2
  <2> QED
    BY <1>14, <2>1, <2>2 DEF EnterGame
<1> QED
  BY <1>11, <1>12, <1>13, <1>14 DEF ProcessClientPacket

(* Receive keeps the invariant. *)
LEMMA ReceiveKeeps ==
  ASSUME IInv, NEW a \in Addrs, Receive(a)
  PROVE  IInv'
<1>1. SlotInv'
  BY SlotsLeftAlone DEF IInv, Receive
<1>2. toServer[a] \in Seq(ClientMessages) /\ toClient[a] \in Seq(ServerMessages) /\ toClient[a] # <<>>
  BY DEF IInv, NetTyped, Receive
<1> DEFINE m == Answer[Head(toClient[a])]
<1>3. Tail(toClient[a]) \in Seq(ServerMessages)
  BY <1>2, SeqFacts
<1>4. toClient' = [toClient EXCEPT ![a] = Tail(toClient[a])]
  BY DEF Receive
<1>5. toClient' \in [Addrs -> Seq(ServerMessages)]
  BY <1>3, <1>4 DEF IInv, NetTyped
<1>6. m \in ClientMessages
  <2>1. Head(toClient[a]) \in ServerMessages
    BY <1>2, SeqFacts
  <2> QED
    BY <2>1 DEF Answer, ServerMessages, ClientMessages
<1>7. Append(toServer[a], m) \in Seq(ClientMessages)
  BY <1>2, <1>6, SeqFacts
<1>8. toServer' = [toServer EXCEPT ![a] = Append(toServer[a], m)]
  BY DEF Receive
<1>9. toServer' \in [Addrs -> Seq(ClientMessages)]
  BY <1>7, <1>8 DEF IInv, NetTyped
<1>10. prog' \in [Addrs -> Programs]
  BY DEF IInv, NetTyped, Receive, Programs
<1>11. NetTyped' /\ SyncInUse'
  BY <1>5, <1>9, <1>10 DEF IInv, NetTyped, SyncInUse, Receive, slotVars
<1> QED
  BY <1>1, <1>11 DEF IInv

(* ClientStop keeps the invariant. *)
LEMMA ClientStopKeeps ==
  ASSUME IInv, NEW a \in Addrs, ClientStop(a)
  PROVE  IInv'
<1> USE DEF IInv, SlotInv
<1>1. PICK closed \in SUBSET {s \in Slots : sync[s] /\ peer[s] = a} :
        /\ conn' = [s \in Slots |-> IF s \in closed THEN "error" ELSE conn[s]]
        /\ \E fast \in SUBSET closed : young' = [s \in Slots |-> young[s] \/ s \in fast]
  BY DEF ClientStop
<1>2. UNCHANGED <<peer, state, player>>
  BY DEF ClientStop
<1>3. SlotsTyped'
  BY <1>1, <1>2 DEF SlotsTyped, NetTyped
<1>4. SlotsAgree'
  BY <1>1, <1>2 DEF SlotsTyped, SlotsAgree, SyncInUse
<1>5. PlayersAgree'
  BY <1>2 DEF PlayersAgree
<1>6. OneSlotPerClient'
  BY <1>1, <1>2 DEF SlotsTyped, OneSlotPerClient
<1>7. PerIpLimit'
  <2>1. \A i \in Ips : OnIp(i)' \subseteq OnIp(i)
    BY <1>1, <1>2 DEF OnIp, SlotsTyped
  <2> QED
    BY <2>1, LimitStays
<1>8. sync' \in [Slots -> BOOLEAN] /\ SyncInUse'
  BY <1>1 DEF NetTyped, SyncInUse, ClientStop
<1>9. NetTyped'
  <2>1. <<>> \in Seq(ClientMessages) /\ <<>> \in Seq(ServerMessages)
    OBVIOUS
  <2> QED
    BY <1>8, <2>1 DEF NetTyped, Programs, ClientStop
<1> QED
  BY <1>3, <1>4, <1>5, <1>6, <1>7, <1>8, <1>9

(* Expire keeps the invariant. *)
LEMMA ExpireKeeps ==
  ASSUME IInv, NEW s \in Slots, Expire(s)
  PROVE  IInv'
<1> USE DEF IInv, SlotInv
<1>1. SlotsTyped'
  BY DEF SlotsTyped, Expire
<1>2. SlotsAgree'
  BY DEF SlotsTyped, SlotsAgree, Expire
<1>3. PlayersAgree'
  BY DEF PlayersAgree, Expire
<1>4. OneSlotPerClient'
  BY DEF SlotsTyped, OneSlotPerClient, Expire
<1>5. PerIpLimit'
  <2>1. \A i \in Ips : OnIp(i)' \subseteq OnIp(i)
    BY DEF OnIp, SlotsTyped, Expire
  <2> QED
    BY <2>1, LimitStays
<1>6. SyncInUse'
  BY DEF SyncInUse, SlotsTyped, NetTyped, Expire, CutOff
<1>7. NetTyped'
  BY DEF NetTyped, Expire, CutOff
<1> QED
  BY <1>1, <1>2, <1>3, <1>4, <1>5, <1>6, <1>7

(* Age keeps the invariant. *)
LEMMA AgeKeeps ==
  ASSUME IInv, NEW s \in Slots, Age(s)
  PROVE  IInv'
BY DEF IInv, SlotInv, SlotsTyped, SlotsAgree, PlayersAgree, OneSlotPerClient, PerIpLimit,
       OnIp, NetTyped, SyncInUse, Age, netVars

(* Dropping a client, with any change of the bans.                         *)
LEMMA DropStep ==
  ASSUME IInv, NEW s \in Slots, Drop(s), bans' \subseteq Ips, UNCHANGED <<prog, accepts>>
  PROVE  IInv'
<1>1. /\ SlotInv' /\ SyncInUse' /\ sync' \in [Slots -> BOOLEAN]
      /\ toServer' \in [Addrs -> Seq(ClientMessages)] /\ toClient' \in [Addrs -> Seq(ServerMessages)]
  BY DropKeeps
<1> QED
  BY <1>1 DEF IInv, NetTyped

(* BanExt keeps the invariant. *)
LEMMA BanExtKeeps ==
  ASSUME IInv, NEW i \in Ips, BanExt(i), UNCHANGED <<prog, accepts>>
  PROVE  IInv'
<1>1. bans' \subseteq Ips
  BY DEF IInv, NetTyped, BanExt
<1>2. CASE \E s \in Slots : Drop(s)
  BY <1>1, <1>2, DropStep
<1>3. CASE UNCHANGED <<slotVars, sync, toServer, toClient>>
  <2>1. SlotInv'
    BY <1>3, SlotsLeftAlone DEF IInv
  <2>2. NetTyped' /\ SyncInUse'
    BY <1>1, <1>3 DEF IInv, NetTyped, SyncInUse, slotVars
  <2> QED
    BY <2>1, <2>2 DEF IInv
<1> QED
  BY <1>2, <1>3 DEF BanExt

(* Update keeps the invariant. *)
LEMMA UpdateKeeps ==
  ASSUME IInv, NEW s \in Slots, Update(s)
  PROVE  IInv'
<1>1. UNCHANGED <<prog, accepts>> /\ conn[s] = "error"
  BY DEF Update
<1>2. CASE BanExt(IpOf[peer[s]])
  <2>1. IpOf[peer[s]] \in Ips
    BY <1>1, InUse, SlotsAssumption
  <2> QED
    BY <1>1, <1>2, <2>1, BanExtKeeps
<1>3. CASE Drop(s) /\ UNCHANGED bans
  BY <1>1, <1>3, DropStep DEF IInv, NetTyped
<1> QED
  BY <1>2, <1>3 DEF Update

(* Kick and the console's ban keep the invariant. *)
LEMMA KickKeeps ==
  ASSUME IInv, NEW s \in Slots, Kick(s) \/ ConBanExt(s)
  PROVE  IInv'
<1>1. Drop(s) /\ UNCHANGED <<prog, accepts>> /\ state[s] # "EMPTY"
  BY DEF Kick, ConBanExt
<1>2. peer[s] \in Addrs
  BY <1>1, InUse DEF IInv, SlotInv, SlotsAgree
<1>3. bans' \subseteq Ips
  BY <1>2, SlotsAssumption DEF IInv, NetTyped, Kick, ConBanExt
<1> QED
  BY <1>1, <1>3, DropStep

(* A ban that ends keeps the invariant. *)
LEMMA UnbanKeeps ==
  ASSUME IInv, NEW i \in Ips, Unban(i)
  PROVE  IInv'
<1>1. SlotInv'
  BY SlotsLeftAlone DEF IInv, Unban
<1>2. NetTyped' /\ SyncInUse'
  BY DEF IInv, NetTyped, SyncInUse, Unban, slotVars, netVars
<1> QED
  BY <1>1, <1>2 DEF IInv

-----------------------------------------------------------------------------
(* The theorems                                                            *)

(* The invariant is inductive.                                             *)
THEOREM Inductive == Spec => []IInv
<1>1. Init => IInv
  <2> SUFFICES ASSUME Init PROVE IInv
    OBVIOUS
  <2>1. SlotsTyped /\ SlotsAgree /\ PlayersAgree /\ OneSlotPerClient
    BY SlotsAssumption DEF Init, SlotsTyped, States, SlotsAgree, PlayersAgree, OneSlotPerClient
  <2>2. NetTyped /\ SyncInUse
    BY DEF Init, NetTyped, Programs, SyncInUse
  <2>3. PerIpLimit
    <3>1. \A i \in Ips : OnIp(i) = {}
      BY DEF Init, OnIp
    <3>2. Cardinality({}) = 0
      BY FS_EmptySet
    <3>3. 0 <= MaxPerIP
      BY SlotsAssumption
    <3> QED
      BY <3>1, <3>2, <3>3 DEF PerIpLimit
  <2> QED
    BY <2>1, <2>2, <2>3 DEF IInv, SlotInv
<1>2. IInv /\ [Next]_vars => IInv'
  <2> SUFFICES ASSUME IInv, [Next]_vars PROVE IInv'
    OBVIOUS
  <2>1. CASE UNCHANGED vars
    <3>1. SlotInv'
      BY <2>1, SlotsLeftAlone DEF IInv, vars
    <3>2. NetTyped' /\ SyncInUse'
      BY <2>1 DEF IInv, NetTyped, SyncInUse, vars, netVars, slotVars
    <3> QED
      BY <3>1, <3>2 DEF IInv
  <2>2. ASSUME NEW a \in Addrs, Client(a) PROVE IInv'
    BY <2>2, ClientStartKeeps, ConnectKeeps, OnPreConnMsgKeeps, AcceptKeeps,
       LoseKeeps, ReceiveKeeps, ClientStopKeeps DEF Client
  <2>3. ASSUME NEW s \in Slots, Slot(s) PROVE IInv'
    BY <2>3, ProcessClientPacketKeeps, ExpireKeeps, AgeKeeps, UpdateKeeps, KickKeeps DEF Slot
  <2>4. ASSUME NEW i \in Ips, BanAddr(i) PROVE IInv'
    BY <2>4, BanExtKeeps DEF BanAddr
  <2>5. ASSUME NEW i \in Ips, Unban(i) PROVE IInv'
    BY <2>5, UnbanKeeps
  <2> QED
    BY <2>1, <2>2, <2>3, <2>4, <2>5 DEF Next
<1> QED
  BY <1>1, <1>2, PTL DEF Spec

(* Every variable keeps its type.                                          *)
THEOREM Typed == Spec => []TypeOK
<1>1. IInv => TypeOK
  BY DEF IInv, SlotInv, SlotsTyped, NetTyped, Programs, TypeOK
<1> QED
  BY <1>1, Inductive, PTL

(* CServer and CNetServer agree on which slots are in use, however a       *)
(* client goes.                                                            *)
THEOREM StatesAndConnectionsAgree == Spec => []SlotsAgree
<1>1. IInv => SlotsAgree
  BY DEF IInv, SlotInv
<1> QED
  BY <1>1, Inductive, PTL

(* The game has a player for exactly the clients past CONNECTING.          *)
THEOREM StatesAndPlayersAgree == Spec => []PlayersAgree
<1>1. IInv => PlayersAgree
  BY DEF IInv, SlotInv
<1> QED
  BY <1>1, Inductive, PTL

(* A client has at most one live slot, whatever the network repeats.       *)
THEOREM SlotOfAClientUnique == Spec => []OneSlotPerClient
<1>1. IInv => OneSlotPerClient
  BY DEF IInv, SlotInv
<1> QED
  BY <1>1, Inductive, PTL

(* No address has more live slots than sv_max_clients_per_ip, whatever     *)
(* ports its clients use.                                                  *)
THEOREM LimitPerAddressHolds == Spec => []PerIpLimit
<1>1. IInv => PerIpLimit
  BY DEF IInv, SlotInv
<1> QED
  BY <1>1, Inductive, PTL

-----------------------------------------------------------------------------
(* Clients by their addresses                                              *)

(* What StageOf gives, without its choice: a client has one live slot.     *)
StageFacts ==
  /\ StageOf = [a \in Addrs |-> StageOf[a]]
  /\ \A s \in Slots : conn[s] = "online" =>
       /\ peer[s] \in Addrs /\ StageOf[peer[s]] = Stage(s)
       /\ Stage(s) # "out"
  /\ \A a \in Addrs : GetClientSlot(a) = {} => StageOf[a] = "out"

LEMMA StageKnown == SlotInv => StageFacts
<1> SUFFICES ASSUME SlotInv PROVE StageFacts
  OBVIOUS
<1>1. ASSUME NEW s \in Slots, conn[s] = "online"
      PROVE  peer[s] \in Addrs /\ StageOf[peer[s]] = Stage(s) /\ Stage(s) # "out"
  <2>1. peer[s] \in Addrs
    BY <1>1 DEF SlotInv, SlotsTyped, SlotsAgree
  <2>2. GetClientSlot(peer[s]) = {s}
    BY <1>1 DEF SlotInv, OneSlotPerClient, GetClientSlot
  <2>3. (CHOOSE r \in GetClientSlot(peer[s]) : TRUE) = s
    BY <2>2
  <2>4. StageOf[peer[s]] = Stage(s)
    BY <2>1, <2>2, <2>3 DEF StageOf
  <2>5. Stage(s) # "out"
    BY DEF Stage, SlotInv, SlotsTyped, States
  <2> QED BY <2>1, <2>4, <2>5
<1>2. StageOf = [a \in Addrs |-> StageOf[a]] /\ \A a \in Addrs : GetClientSlot(a) = {} => StageOf[a] = "out"
  BY DEF StageOf
<1> QED BY <1>1, <1>2 DEF StageFacts

LEMMA StageKnownNext == SlotInv' => StageFacts'
BY StageKnown, PTL

Same(s) == /\ conn'[s] = conn[s] /\ peer'[s] = peer[s]
           /\ state'[s] = state[s] /\ player'[s] = player[s]

(* A step that changes no slots but those of one client changes the stage  *)
(* of no other.                                                            *)
LEMMA OneStage ==
  ASSUME SlotInv, SlotInv', NEW a \in Addrs,
         \A s \in Slots : \/ Same(s)
                         \/ /\ conn[s] = "online" => peer[s] = a
                            /\ conn'[s] = "online" => peer'[s] = a
  PROVE  StageOf' = [StageOf EXCEPT ![a] = StageOf'[a]]
<1>1. StageFacts /\ StageFacts'
  BY StageKnown, StageKnownNext
<1>2. ASSUME NEW b \in Addrs, b # a
      PROVE  StageOf'[b] = StageOf[b]
  <2>1. ASSUME NEW s \in Slots, conn[s] = "online", peer[s] = b
        PROVE  StageOf'[b] = StageOf[b]
    <3>1. Same(s)
      BY <1>2, <2>1
    <3>2. StageOf[b] = Stage(s) /\ StageOf'[b] = Stage(s)'
      BY <1>1, <2>1, <3>1 DEF StageFacts, Same
    <3>3. Stage(s)' = Stage(s)
      BY <3>1 DEF Stage, Same
    <3> QED BY <3>2, <3>3
  <2>2. CASE GetClientSlot(b) = {}
    <3>1. \A s \in Slots : conn'[s] = "online" => peer'[s] # b
      BY <1>2, <2>2 DEF GetClientSlot, Same
    <3>2. GetClientSlot(b)' = {}
      BY <3>1 DEF GetClientSlot
    <3> QED BY <1>1, <2>2, <3>2 DEF StageFacts
  <2> QED BY <2>1, <2>2 DEF GetClientSlot
<1> QED BY <1>1, <1>2 DEF StageFacts

(* One that changes no live slot changes no stage.                         *)
LEMMA NoStage ==
  ASSUME SlotInv, SlotInv',
         \A s \in Slots : Same(s) \/ (conn[s] # "online" /\ conn'[s] # "online")
  PROVE  StageOf' = StageOf
<1>1. StageFacts /\ StageFacts'
  BY StageKnown, StageKnownNext
<1>2. ASSUME NEW b \in Addrs
      PROVE  StageOf'[b] = StageOf[b]
  <2>1. ASSUME NEW s \in Slots, conn[s] = "online", peer[s] = b
        PROVE  StageOf'[b] = StageOf[b]
    <3>1. Same(s)
      BY <2>1
    <3>2. StageOf[b] = Stage(s) /\ StageOf'[b] = Stage(s)'
      BY <1>1, <2>1, <3>1 DEF StageFacts, Same
    <3>3. Stage(s)' = Stage(s)
      BY <3>1 DEF Stage, Same
    <3> QED BY <3>2, <3>3
  <2>2. CASE GetClientSlot(b) = {}
    <3>1. \A s \in Slots : conn'[s] = "online" => peer'[s] # b
      BY <2>2 DEF GetClientSlot, Same
    <3>2. GetClientSlot(b)' = {}
      BY <3>1 DEF GetClientSlot
    <3> QED BY <1>1, <2>2, <3>2 DEF StageFacts
  <2> QED BY <2>1, <2>2 DEF GetClientSlot
<1> QED BY <1>1, <1>2 DEF StageFacts

(* Dropping a live slot makes its client leave; another is nobody's.       *)
LEMMA DropStage ==
  ASSUME IInv, IInv', NEW s \in Slots, Drop(s)
  PROVE  \/ StageOf' = StageOf
         \/ conn[s] = "online" /\ peer[s] \in Addrs /\ Adm!Gone(peer[s])
<1>1. \A r \in Slots : r # s => Same(r)
  BY DEF Drop, Same, IInv, SlotInv, SlotsTyped
<1>2. conn'[s] = "offline"
  BY DEF Drop, IInv, SlotInv, SlotsTyped
<1>3. CASE conn[s] # "online"
  BY <1>1, <1>2, <1>3, NoStage DEF IInv
<1>4. CASE conn[s] = "online"
  <2>1. PICK a \in Addrs : a = peer[s]
    BY <1>4, InUse
  <2>2. StageOf' = [StageOf EXCEPT ![a] = StageOf'[a]]
    BY <1>1, <1>2, <2>1, OneStage DEF IInv
  <2>3. \A r \in Slots : conn'[r] = "online" => peer'[r] # a
    BY <1>1, <1>2, <1>4, <2>1 DEF Same, IInv, SlotInv, OneSlotPerClient
  <2>4. GetClientSlot(a)' = {}
    BY <2>3 DEF GetClientSlot
  <2>5. StageOf'[a] = "out"
    BY <2>4, StageKnownNext DEF IInv, StageFacts
  <2> QED BY <1>4, <2>1, <2>2, <2>5 DEF Adm!Gone
<1> QED BY <1>3, <1>4

(* What a function reaches from a finite set is no larger than the set.    *)
LEMMA Reached ==
  ASSUME NEW S, IsFiniteSet(S), NEW T, NEW f,
         \A x \in S : f[x] \in T, \A t \in T : \E x \in S : f[x] = t
  PROVE  /\ Cardinality(T) \in Nat /\ Cardinality(S) \in Nat
         /\ Cardinality(T) <= Cardinality(S)
<1> DEFINE g == [x \in S |-> f[x]]
<1>1. g \in Surjection(S, T)
  BY DEF Surjection
<1> HIDE DEF g
<1>2. IsFiniteSet(T) /\ Cardinality(T) <= Cardinality(S)
  BY <1>1, FS_Surjection
<1> QED BY <1>2, FS_CardinalityType

(* The clients inside have a live slot each, which may be few of the slots *)
(* but none of those that are free.                                        *)
LEMMA RoomForClients ==
  ASSUME IInv, NEW a \in Addrs, NEW free \in Slots, conn[free] = "offline"
  PROVE  /\ Cardinality(Adm!Inside) < NumSlots
         /\ Cardinality(Adm!Neighbours(a)) \in Nat
         /\ Cardinality(Adm!Neighbours(a)) <= NumClientsWithAddr(a)
<1> DEFINE Live == {s \in Slots : conn[s] = "online"}
           Used == Slots \ {free}
<1>1. StageFacts
  BY StageKnown DEF IInv
<1>2. IsFiniteSet(Slots) /\ Cardinality(Slots) = NumSlots /\ NumSlots \in Nat
  BY SlotsAssumption, FS_Interval DEF Slots
<1>3. IsFiniteSet(Used) /\ Cardinality(Used) = NumSlots - 1
  BY <1>2, FS_RemoveElement
<1>4. Live \in SUBSET Used
  OBVIOUS
<1> HIDE DEF Used
<1>5. IsFiniteSet(Live) /\ Cardinality(Live) <= NumSlots - 1
  BY <1>3, <1>4, FS_Subset
<1>6. /\ \A s \in Live : peer[s] \in Adm!Inside
      /\ \A b \in Adm!Inside : \E s \in Live : peer[s] = b
  BY <1>1 DEF StageFacts, GetClientSlot, Adm!Inside
<1> HIDE DEF Live
<1>7. Cardinality(Adm!Inside) < NumSlots
  <2>1. /\ Cardinality(Adm!Inside) \in Nat /\ Cardinality(Live) \in Nat
        /\ Cardinality(Adm!Inside) <= Cardinality(Live)
    BY <1>5, <1>6, Reached
  <2> QED BY <1>2, <1>5, <2>1
<1>8. /\ Cardinality(Adm!Neighbours(a)) \in Nat
      /\ Cardinality(Adm!Neighbours(a)) <= NumClientsWithAddr(a)
  <2> DEFINE S == OnIp(IpOf[a])  T == Adm!Neighbours(a)
  <2>1. IsFiniteSet(S)
    BY OnIpFinite
  <2>2. \A s \in S : peer[s] \in T
    BY <1>1 DEF StageFacts, OnIp, Adm!Inside, Adm!Neighbours
  <2>3. \A b \in T : \E s \in S : peer[s] = b
    BY <1>1 DEF StageFacts, OnIp, GetClientSlot, Adm!Inside, Adm!Neighbours
  <2> HIDE DEF S, T
  <2>4. Cardinality(T) \in Nat /\ Cardinality(T) <= Cardinality(S)
    BY <2>1, <2>2, <2>3, Reached
  <2> QED BY <2>4 DEF S, T, NumClientsWithAddr
<1> QED BY <1>7, <1>8

(* The specification counts like this module.                              *)
LEMMA SameCount == \A S : Adm!Cardinality(S) = Cardinality(S)
BY DEF Cardinality, Adm!Cardinality

(* A client that is given a slot is let in.                                *)
LEMMA AcceptedStage ==
  ASSUME IInv, IInv', NEW s \in Slots, NEW a \in Addrs, GetClientSlot(a) = {},
         NEW together, Accepted(s, a, together), IpOf[a] \notin bans, bans' = bans
  PROVE  Adm!Admit(a)
<1>1. \A r \in Slots : r # s => Same(r)
  BY DEF Accepted, Same, IInv, SlotInv, SlotsTyped
<1>2. /\ conn[s] = "offline" /\ conn'[s] = "online" /\ peer'[s] = a /\ state'[s] = "AUTH"
      /\ NumClientsWithAddr(a) + 1 <= MaxPerIP
  BY DEF Accepted, FreeSlot, IInv, SlotInv, SlotsTyped
<1>3. StageOf' = [StageOf EXCEPT ![a] = StageOf'[a]]
  BY <1>1, <1>2, OneStage DEF IInv
<1>4. StageOf[a] = "out" /\ StageOf'[a] = Stage(s)'
  BY <1>2, StageKnown, StageKnownNext DEF IInv, StageFacts
<1>5. Stage(s)' = "AUTH"
  BY <1>2 DEF Stage
<1>6. Cardinality(Adm!Inside) < NumSlots /\ Cardinality(Adm!Neighbours(a)) < MaxPerIP
  <2>1. /\ Cardinality(Adm!Inside) < NumSlots
        /\ Cardinality(Adm!Neighbours(a)) \in Nat
        /\ Cardinality(Adm!Neighbours(a)) <= NumClientsWithAddr(a)
    BY <1>2, RoomForClients
  <2>2. NumClientsWithAddr(a) \in Nat /\ MaxPerIP \in Nat
    <3>1. Cardinality(OnIp(IpOf[a])) \in Nat
      BY OnIpFinite
    <3> QED BY <3>1, SlotsAssumption DEF NumClientsWithAddr
  <2> DEFINE near == Cardinality(Adm!Neighbours(a))  slots == NumClientsWithAddr(a)
  <2>3. near \in Nat /\ slots \in Nat /\ near <= slots /\ slots + 1 <= MaxPerIP
    BY <1>2, <2>1, <2>2
  <2> HIDE DEF near, slots
  <2>4. near < MaxPerIP
    BY <2>2, <2>3
  <2> QED BY <2>1, <2>4 DEF near
<1> QED BY <1>3, <1>4, <1>5, <1>6, SameCount DEF Adm!Admit

LEMMA TryAcceptStage ==
  ASSUME IInv, IInv', NEW a \in Addrs, NEW together, TryAcceptClient(a, together),
         GetClientSlot(a) = {}, IpOf[a] \notin bans, bans' = bans
  PROVE  Adm!Admit(a) \/ StageOf' = StageOf
<1>1. CASE UNCHANGED slotVars
  BY <1>1, NoStage DEF IInv, slotVars, Same
<1>2. CASE \E s \in Slots : Accepted(s, a, together)
  BY <1>2, AcceptedStage
<1> QED BY <1>1, <1>2 DEF TryAcceptClient

(* What a client does: it comes in, or leaves, or shows no change.         *)
LEMMA ClientStage ==
  ASSUME IInv, IInv', NEW a \in Addrs, Client(a)
  PROVE  bans' = bans /\ (Adm!Admit(a) \/ Adm!Gone(a) \/ StageOf' = StageOf)
<1>1. bans' = bans
  BY DEF Client, ClientStart, Connect, OnPreConnMsg, Accept, Lose, Receive, ClientStop
<1>2. CASE ClientStart(a) \/ Connect(a) \/ Lose(a) \/ Receive(a)
  <2>1. UNCHANGED slotVars
    BY <1>2 DEF ClientStart, Connect, Lose, Receive
  <2> QED BY <1>1, <2>1, NoStage DEF IInv, slotVars, Same
<1>3. CASE OnPreConnMsg(a)
  <2>1. PICK together \in BOOLEAN : TryAcceptClient(a, together)
    BY <1>3 DEF OnPreConnMsg, NewConnection
  <2> QED BY <1>1, <1>3, <2>1, TryAcceptStage DEF OnPreConnMsg
<1>4. CASE Accept(a)
  <2>1. CASE UNCHANGED slotVars
    BY <1>1, <2>1, NoStage DEF IInv, slotVars, Same
  <2>2. CASE GetClientSlot(a) = {} /\ IpOf[a] \notin bans /\ NewConnection(a)
    <3>1. PICK together \in BOOLEAN : TryAcceptClient(a, together)
      BY <2>2 DEF NewConnection
    <3> QED BY <1>1, <2>2, <3>1, TryAcceptStage
  <2> QED BY <1>4, <2>1, <2>2 DEF Accept, Rejoin
<1>5. CASE ClientStop(a)
  <2>1. /\ UNCHANGED <<peer, state, player>>
        /\ \A s \in Slots : \/ conn'[s] = conn[s]
                            \/ sync[s] /\ peer[s] = a /\ conn'[s] = "error"
    BY <1>5 DEF ClientStop, IInv, SlotInv, SlotsTyped
  <2>2. CASE conn' = conn
    BY <1>1, <2>1, <2>2, NoStage DEF IInv, Same
  <2>3. ASSUME NEW s \in Slots, conn'[s] # conn[s]
        PROVE  Adm!Gone(a)
    <3>1. conn[s] = "online" /\ peer[s] = a /\ conn'[s] = "error"
      BY <2>1, <2>3 DEF IInv, SyncInUse
    <3>2. StageOf' = [StageOf EXCEPT ![a] = StageOf'[a]]
      BY <2>1, OneStage DEF IInv, Same
    <3>3. \A r \in Slots : conn'[r] = "online" => peer'[r] # a
      BY <2>1, <3>1 DEF IInv, SlotInv, OneSlotPerClient
    <3>4. GetClientSlot(a)' = {}
      BY <3>3 DEF GetClientSlot
    <3>5. StageOf'[a] = "out"
      BY <3>4, StageKnownNext DEF IInv, StageFacts
    <3> QED BY <3>2, <3>5 DEF Adm!Gone
  <2>4. conn' = conn \/ \E s \in Slots : conn'[s] # conn[s]
    <3>1. conn \in [Slots -> {"offline", "online", "error"}] /\ conn' \in [Slots -> {"offline", "online", "error"}]
      BY DEF IInv, SlotInv, SlotsTyped
    <3> QED BY <3>1
  <2> QED BY <1>1, <2>2, <2>3, <2>4
<1> QED BY <1>1, <1>2, <1>3, <1>4, <1>5 DEF Client

(* A message that changes the client's state is its next one.              *)
LEMMA MessageStage ==
  ASSUME IInv, IInv', NEW s \in Slots, conn[s] = "online",
         NEW st, NEW pl, state' = [state EXCEPT ![s] = st], player' = [player EXCEPT ![s] = pl],
         UNCHANGED <<conn, peer, bans>>,
         <<state[s], player[s], st, pl>> \in
           {<<"AUTH", "none", "CONNECTING", "none">>, <<"CONNECTING", "none", "READY", "new">>,
            <<"READY", "new", "READY", "ready">>, <<"READY", "ready", "INGAME", "ready">>}
  PROVE  \E a \in Addrs : Adm!Advance(a)
<1>1. PICK a \in Addrs : a = peer[s]
  BY InUse
<1>2. /\ \A r \in Slots : r # s => Same(r)
      /\ state'[s] = st /\ player'[s] = pl /\ conn'[s] = "online" /\ peer'[s] = a
  BY <1>1 DEF Same, IInv, SlotInv, SlotsTyped
<1>3. StageOf' = [StageOf EXCEPT ![a] = StageOf'[a]]
  BY <1>1, <1>2, OneStage DEF IInv
<1>4. StageOf[a] = Stage(s) /\ StageOf'[a] = Stage(s)'
  BY <1>1, <1>2, StageKnown, StageKnownNext DEF IInv, StageFacts
<1>5. Stage(s) \in DOMAIN Adm!Following /\ Stage(s)' = Adm!Following[Stage(s)]
  BY <1>2 DEF Stage, Adm!Following
<1>6. StageOf' = [StageOf EXCEPT ![a] = Adm!Following[StageOf[a]]]
  BY <1>3, <1>4, <1>5
<1> QED BY <1>4, <1>5, <1>6 DEF Adm!Advance

LEMMA PacketStage ==
  ASSUME IInv, IInv', NEW s \in Slots, ProcessClientPacket(s)
  PROVE  /\ bans' = bans
         /\ StageOf' = StageOf \/ \E a \in Addrs : Adm!Advance(a) \/ Adm!Gone(a)
<1>1. bans' = bans /\ conn[s] = "online"
  BY DEF ProcessClientPacket, IInv, SyncInUse
<1>2. /\ state' = [state EXCEPT ![s] = state'[s]] /\ player' = [player EXCEPT ![s] = player'[s]]
      /\ (player[s] # "none") <=> (state[s] \in {"READY", "INGAME"})
  <2>1. /\ state \in [Slots -> States] /\ player \in [Slots -> {"none", "new", "ready"}]
        /\ state' \in [Slots -> States] /\ player' \in [Slots -> {"none", "new", "ready"}]
        /\ (player[s] # "none") <=> (state[s] \in {"READY", "INGAME"})
    BY DEF IInv, SlotInv, SlotsTyped, PlayersAgree
  <2>2. \A r \in Slots : r # s => state'[r] = state[r] /\ player'[r] = player[r]
    <3>1. CASE Drop(s)
      BY <2>1, <3>1 DEF Drop
    <3>2. CASE ~Drop(s) /\ Info(s)
      <4>1. player' = player /\ (state' = state \/ state' = [state EXCEPT ![s] = "CONNECTING"])
        BY <3>2 DEF Info, slotVars
      <4> QED BY <2>1, <4>1
    <3>3. CASE Ready(s)
      <4>1. \/ player' = player /\ state' = state
            \/ player' = [player EXCEPT ![s] = "new"] /\ state' = [state EXCEPT ![s] = "READY"]
        BY <3>3 DEF Ready, slotVars
      <4> QED BY <2>1, <4>1
    <3>4. CASE StartInfo(s) \/ EnterGame(s)
      <4>1. /\ player' = player \/ player' = [player EXCEPT ![s] = "ready"]
            /\ state' = state \/ state' = [state EXCEPT ![s] = "INGAME"]
        BY <3>4 DEF StartInfo, EnterGame, slotVars
      <4> QED BY <2>1, <4>1
    <3> QED BY <3>1, <3>2, <3>3, <3>4 DEF ProcessClientPacket
  <2> QED BY <2>1, <2>2
<1>3. CASE UNCHANGED slotVars
  BY <1>1, <1>3, NoStage DEF IInv, slotVars, Same
<1>4. CASE Drop(s)
  BY <1>1, <1>4, DropStage
<1>5. CASE ~UNCHANGED slotVars /\ ~Drop(s)
  <2>1. /\ UNCHANGED <<conn, peer>>
        /\ <<state[s], player[s], state'[s], player'[s]>> \in
             {<<"AUTH", "none", "CONNECTING", "none">>, <<"CONNECTING", "none", "READY", "new">>,
              <<"READY", "new", "READY", "ready">>, <<"READY", "ready", "INGAME", "ready">>}
    <3>1. CASE Info(s)
      BY <1>2, <1>5, <3>1 DEF Info, IInv, SlotInv, SlotsTyped
    <3>2. CASE Ready(s)
      BY <1>2, <1>5, <3>2 DEF Ready, IInv, SlotInv, SlotsTyped
    <3>3. CASE StartInfo(s)
      BY <1>2, <1>5, <3>3 DEF StartInfo, IInv, SlotInv, SlotsTyped
    <3>4. CASE EnterGame(s)
      BY <1>2, <1>5, <3>4 DEF EnterGame, IInv, SlotInv, SlotsTyped
    <3> QED BY <3>1, <3>2, <3>3, <3>4 DEF ProcessClientPacket
  <2> QED BY <1>1, <1>2, <2>1, MessageStage
<1> QED BY <1>1, <1>3, <1>4, <1>5

(* A new ban of an address makes one of its clients leave, or none.        *)
LEMMA BanStage ==
  ASSUME IInv, IInv', NEW i \in Ips, BanExt(i)
  PROVE  Adm!Ban(i)
<1>1. bans' = bans \cup {i}
  BY DEF BanExt
<1>2. CASE UNCHANGED slotVars
  <2>1. StageOf' = StageOf
    BY <1>2, NoStage DEF IInv, slotVars, Same
  <2> QED BY <1>1, <2>1 DEF Adm!Ban
<1>3. ASSUME NEW s \in Slots, IpOf[peer[s]] = i, Drop(s)
      PROVE  Adm!Ban(i)
  <2>1. StageOf' = StageOf \/ (peer[s] \in Addrs /\ Adm!Gone(peer[s]))
    BY <1>3, DropStage
  <2> QED BY <1>1, <1>3, <2>1 DEF Adm!Ban
<1> QED BY <1>2, <1>3 DEF BanExt

LEMMA SlotStage ==
  ASSUME IInv, IInv', NEW s \in Slots, Slot(s)
  PROVE  Adm!Next \/ (StageOf' = StageOf /\ bans' = bans)
<1>1. CASE ProcessClientPacket(s)
  BY <1>1, PacketStage DEF Adm!Next, Adm!Leave
<1>2. CASE Age(s)
  <2>1. StageOf' = StageOf
    BY <1>2, NoStage DEF IInv, Age, Same
  <2> QED BY <1>2, <2>1 DEF Age
<1>3. CASE Expire(s)
  <2>1. PICK a \in Addrs : a = peer[s] /\ conn[s] = "online"
    BY <1>3, InUse DEF Expire
  <2>2. /\ \A r \in Slots : r # s => Same(r)
        /\ conn'[s] = "error" /\ bans' = bans
    BY <1>3 DEF Expire, Same, IInv, SlotInv, SlotsTyped
  <2>3. StageOf' = [StageOf EXCEPT ![a] = StageOf'[a]]
    BY <2>1, <2>2, OneStage DEF IInv
  <2>4. \A r \in Slots : conn'[r] = "online" => peer'[r] # a
    BY <2>1, <2>2 DEF Same, IInv, SlotInv, OneSlotPerClient
  <2>5. GetClientSlot(a)' = {}
    BY <2>4 DEF GetClientSlot
  <2>6. StageOf'[a] = "out"
    BY <2>5, StageKnownNext DEF IInv, StageFacts
  <2>7. Adm!Leave(a)
    BY <2>2, <2>3, <2>6 DEF Adm!Leave, Adm!Gone
  <2> QED BY <2>7 DEF Adm!Next
<1>4. CASE Update(s)
  <2>1. IpOf[peer[s]] \in Ips
    BY <1>4, InUse, SlotsAssumption DEF Update
  <2>2. CASE BanExt(IpOf[peer[s]])
    BY <2>1, <2>2, BanStage DEF Adm!Next
  <2>3. CASE Drop(s) /\ bans' = bans
    BY <2>3, DropStage DEF Adm!Next, Adm!Leave
  <2> QED BY <1>4, <2>2, <2>3 DEF Update
<1>5. CASE Kick(s)
  BY <1>5, DropStage DEF Kick, Adm!Next, Adm!Leave
<1>6. CASE ConBanExt(s)
  <2>1. Drop(s) /\ (bans' = bans \/ bans' = bans \cup {IpOf[peer[s]]}) /\ state[s] # "EMPTY"
    BY <1>6 DEF ConBanExt
  <2>2. IpOf[peer[s]] \in Ips
    BY <2>1, InUse, SlotsAssumption DEF IInv, SlotInv, SlotsAgree
  <2>3. CASE bans' = bans
    BY <2>1, <2>3, DropStage DEF Adm!Next, Adm!Leave
  <2>4. CASE bans' = bans \cup {IpOf[peer[s]]}
    <3>1. StageOf' = StageOf \/ (peer[s] \in Addrs /\ Adm!Gone(peer[s]))
      BY <2>1, DropStage
    <3>2. Adm!Ban(IpOf[peer[s]])
      BY <2>4, <3>1 DEF Adm!Ban
    <3> QED BY <2>2, <3>2 DEF Adm!Next
  <2> QED BY <2>1, <2>3, <2>4
<1> QED BY <1>1, <1>2, <1>3, <1>4, <1>5, <1>6 DEF Slot

(* The slots, the handshakes and the messages implement one record for     *)
(* each client, for any number of slots, clients and clients of an         *)
(* address: nobody skips a stage, falls back or comes in banned, and each  *)
(* step concerns one client at most.                                       *)
THEOREM ImplementsAdmission == Spec => AdmissionSpec
<1>1. Init => Adm!Init
  BY DEF Init, Adm!Init, StageOf, GetClientSlot
<1>2. IInv /\ IInv' /\ [Next]_vars => [Adm!Next]_(Adm!admissionVars)
  <2> SUFFICES ASSUME IInv, IInv', [Next]_vars
               PROVE  Adm!Next \/ (StageOf' = StageOf /\ bans' = bans)
    BY DEF Adm!admissionVars
  <2>1. CASE UNCHANGED vars
    <3>1. UNCHANGED slotVars /\ bans' = bans
      BY <2>1 DEF vars
    <3> QED BY <3>1, NoStage DEF IInv, slotVars, Same
  <2>2. ASSUME NEW a \in Addrs, Client(a)
        PROVE  Adm!Next \/ (StageOf' = StageOf /\ bans' = bans)
    BY <2>2, ClientStage DEF Adm!Next, Adm!Leave
  <2>3. ASSUME NEW s \in Slots, Slot(s)
        PROVE  Adm!Next \/ (StageOf' = StageOf /\ bans' = bans)
    BY <2>3, SlotStage
  <2>4. ASSUME NEW i \in Ips, BanAddr(i)
        PROVE  Adm!Next
    BY <2>4, BanStage DEF BanAddr, Adm!Next
  <2>5. ASSUME NEW i \in Ips, Unban(i)
        PROVE  Adm!Next
    <3>1. UNCHANGED slotVars /\ bans' = bans \ {i}
      BY <2>5 DEF Unban
    <3>2. StageOf' = StageOf
      BY <3>1, NoStage DEF IInv, slotVars, Same
    <3> QED BY <3>1, <3>2 DEF Adm!Unban, Adm!Next
  <2> QED BY <2>1, <2>2, <2>3, <2>4, <2>5 DEF Next
<1> QED BY <1>1, <1>2, Inductive, PTL DEF Spec, AdmissionSpec, Adm!Spec

-----------------------------------------------------------------------------
(* Joining never gets stuck                                                *)

Has(q, m) == \E i \in 1 .. Len(q) : q[i] = m

(* The client is about to get m, or has sent its answer.                   *)
Coming(a, m) == Has(toClient[a], m) \/ Has(toServer[a], Answer[m])

Running == {"up", "met", "talking"}

(* The client of a slot is going on with its join: what takes it further   *)
(* is under way on a connection that both ends hold, and it is there.      *)
Going(s) ==
  LET a == peer[s] IN
  /\ sync[s] /\ prog[a] \in Running
  /\ \/ state[s] = "AUTH" /\ Has(toServer[a], "info")
     \/ state[s] = "CONNECTING" /\ Coming(a, "map")
     \/ /\ state[s] = "READY"
        /\ Coming(a, IF player[s] = "new" THEN "con_ready" ELSE "ready_to_enter")

(* The join of a client in AUTH or CONNECTING goes on.                     *)
JoinGoesOn ==
  \A s \in Slots : sync[s] /\ state[s] \in {"AUTH", "CONNECTING"} => Going(s)

ProgramRuns == \A s \in Slots : sync[s] => prog[peer[s]] \in Running

JoinInv == JoinGoesOn /\ ProgramRuns

(* What is going on goes on, until the client is in the game or its        *)
(* connection has come to an end; only an ACCEPT that finds it READY takes *)
(* away what it waits for.                                                 *)
StaysGoing(s) ==
  Going(s) => \/ Going(s)' \/ state'[s] = "INGAME" \/ ~sync'[s]
              \/ state[s] = "READY" /\ Accept(peer[s])
JoinsGoOn == \A s \in Slots : StaysGoing(s)

(* Both, for one slot. *)
SlotJoins(s) ==
  /\ sync'[s] /\ state'[s] \in {"AUTH", "CONNECTING"} => Going(s)'
  /\ sync'[s] => prog'[peer'[s]] \in Running
  /\ StaysGoing(s)

(* The connection of a slot is left as it is. *)
Untouched(s) ==
  /\ sync'[s] = sync[s]
  /\ sync[s] =>
       /\ state'[s] = state[s] /\ player'[s] = player[s] /\ peer'[s] = peer[s]
       /\ prog'[peer[s]] = prog[peer[s]]
       /\ toServer'[peer[s]] = toServer[peer[s]] /\ toClient'[peer[s]] = toClient[peer[s]]

LEMMA JoinOfAll ==
  ASSUME \A s \in Slots : SlotJoins(s)
  PROVE  JoinInv' /\ JoinsGoOn
BY DEF SlotJoins, JoinInv, JoinGoesOn, ProgramRuns, JoinsGoOn

LEMMA UntouchedJoins ==
  ASSUME JoinInv, NEW s \in Slots, Untouched(s)
  PROVE  SlotJoins(s)
BY DEF Untouched, SlotJoins, StaysGoing, JoinInv, JoinGoesOn, ProgramRuns, Going, Coming

LEMMA CutOffJoins ==
  ASSUME NEW s \in Slots, ~sync'[s]
  PROVE  SlotJoins(s)
BY DEF SlotJoins, StaysGoing

(* The slots that belong to programs have one each. *)
LEMMA StreamsApart ==
  ASSUME IInv, NEW r \in Slots, NEW s \in Slots, sync[r], r # s, conn[s] = "online"
  PROVE  peer[r] # peer[s] /\ peer[r] \in Addrs /\ peer[s] \in Addrs
BY InUse DEF IInv, SyncInUse, SlotInv, OneSlotPerClient

(* A message in a sequence is the first or one of the others. *)
LEMMA HasTail ==
  ASSUME NEW M, NEW q \in Seq(M), q # <<>>, NEW m, Has(q, m), Head(q) # m
  PROVE  Has(Tail(q), m)
<1>1. PICK i \in 1 .. Len(q) : q[i] = m
  BY DEF Has
<1>2. i # 1
  BY <1>1
<1>3. i - 1 \in 1 .. Len(Tail(q)) /\ Tail(q)[i - 1] = m
  BY <1>1, <1>2
<1> QED BY <1>3 DEF Has

LEMMA HasAppend ==
  ASSUME NEW M, NEW q \in Seq(M), NEW m \in M, NEW x, Has(q, x) \/ x = m
  PROVE  Has(Append(q, m), x)
<1>1. CASE x = m
  <2>1. Len(q) + 1 \in 1 .. Len(Append(q, m)) /\ Append(q, m)[Len(q) + 1] = m
    OBVIOUS
  <2> QED BY <1>1, <2>1 DEF Has
<1>2. CASE Has(q, x)
  <2>1. PICK i \in 1 .. Len(q) : q[i] = x
    BY <1>2 DEF Has
  <2>2. i \in 1 .. Len(Append(q, m)) /\ Append(q, m)[i] = x
    BY <2>1
  <2> QED BY <2>2 DEF Has
<1> QED BY <1>1, <1>2

(* A slot that is cut off, by Drop or Expire, disturbs no other.           *)
LEMMA CutOffAlone ==
  ASSUME IInv, JoinInv, NEW s \in Slots, conn[s] # "offline", CutOff(s), prog' = prog,
         \A r \in Slots : r # s =>
           state'[r] = state[r] /\ player'[r] = player[r] /\ peer'[r] = peer[r]
  PROVE  JoinInv' /\ JoinsGoOn
<1>1. /\ ~sync'[s]
      /\ \A r \in Slots : r # s => sync'[r] = sync[r]
  BY DEF CutOff, IInv, NetTyped
<1>2. ASSUME NEW r \in Slots, r # s
      PROVE  SlotJoins(r)
  <2>1. CASE ~sync[r]
    BY <1>1, <1>2, <2>1, CutOffJoins
  <2>2. CASE sync[r]
    <3>1. peer[r] \in Addrs /\ (sync[s] => peer[r] # peer[s])
      BY <1>2, <2>2, StreamsApart, InUse DEF IInv, SyncInUse
    <3>2. toServer'[peer[r]] = toServer[peer[r]] /\ toClient'[peer[r]] = toClient[peer[r]]
      BY <3>1 DEF CutOff
    <3>3. Untouched(r)
      BY <1>1, <1>2, <3>2 DEF Untouched
    <3> QED BY <3>3, UntouchedJoins
  <2> QED BY <2>1, <2>2
<1> QED BY <1>1, <1>2, CutOffJoins, JoinOfAll

LEMMA DropJoins ==
  ASSUME IInv, JoinInv, NEW s \in Slots, conn[s] # "offline", Drop(s), prog' = prog
  PROVE  JoinInv' /\ JoinsGoOn
<1>1. \A r \in Slots : r # s =>
        state'[r] = state[r] /\ player'[r] = player[r] /\ peer'[r] = peer[r]
  BY DEF Drop, IInv, SlotInv, SlotsTyped
<1> QED BY <1>1, CutOffAlone DEF Drop

(* Nothing happens to the clients. *)
LEMMA NothingJoins ==
  ASSUME IInv, JoinInv, UNCHANGED <<peer, state, player, prog, sync, toServer, toClient>>
  PROVE  JoinInv' /\ JoinsGoOn
<1>1. \A s \in Slots : Untouched(s)
  BY DEF Untouched
<1> QED BY <1>1, UntouchedJoins, JoinOfAll

-----------------------------------------------------------------------------
(* The handshake's steps *)

(* A program without a slot of its own disturbs no other.                  *)
LEMMA NoSlotJoins ==
  ASSUME IInv, JoinInv, NEW a \in Addrs, \A s \in Slots : sync[s] => peer[s] # a,
         UNCHANGED <<slotVars, sync, toClient>>,
         \A b \in Addrs : b # a => prog'[b] = prog[b] /\ toServer'[b] = toServer[b]
  PROVE  JoinInv' /\ JoinsGoOn
<1>1. ASSUME NEW s \in Slots
      PROVE  Untouched(s)
  <2>1. sync[s] => peer[s] \in Addrs \ {a}
    BY InUse DEF IInv, SyncInUse
  <2> QED BY <2>1 DEF Untouched, slotVars
<1> QED BY <1>1, UntouchedJoins, JoinOfAll

(* A program that comes up, or starts, has no connection yet.              *)
LEMMA NowUpJoins ==
  ASSUME IInv, JoinInv, NEW a \in Addrs, prog[a] \notin Running,
         UNCHANGED <<slotVars, sync, toClient>>,
         \/ NowUp(a)
         \/ \E p \in {"off", "asking"} : prog' = [prog EXCEPT ![a] = p] /\ toServer' = toServer
  PROVE  JoinInv' /\ JoinsGoOn
<1>1. \A b \in Addrs : b # a => prog'[b] = prog[b] /\ toServer'[b] = toServer[b]
  BY DEF NowUp, IInv, NetTyped
<1>2. \A s \in Slots : sync[s] => peer[s] # a
  BY DEF JoinInv, ProgramRuns
<1> QED BY <1>1, <1>2, NoSlotJoins

(* A slot is given to a client, which comes with its first message.        *)
LEMMA AcceptedJoins ==
  ASSUME IInv, JoinInv, NEW s \in Slots, NEW a \in Addrs, NEW together \in BOOLEAN,
         Accepted(s, a, together), GetClientSlot(a) = {}, toClient' = toClient,
         together => prog'[a] \in Running /\ Has(toServer'[a], "info"),
         \A b \in Addrs : b # a => prog'[b] = prog[b] /\ toServer'[b] = toServer[b]
  PROVE  JoinInv' /\ JoinsGoOn
<1>1. /\ sync'[s] = together /\ peer'[s] = a /\ state'[s] = "AUTH"
      /\ \A r \in Slots : r # s =>
           /\ sync'[r] = sync[r] /\ peer'[r] = peer[r]
           /\ state'[r] = state[r] /\ player'[r] = player[r]
  BY DEF Accepted, IInv, SlotInv, SlotsTyped, NetTyped
<1>2. ~sync[s]
  BY DEF Accepted, FreeSlot, IInv, SyncInUse
<1>3. SlotJoins(s)
  <2>1. Going(s)' \/ ~sync'[s]
    BY <1>1 DEF Going
  <2> QED BY <1>1, <1>2, <2>1 DEF SlotJoins, StaysGoing, Going
<1>4. ASSUME NEW r \in Slots, r # s
      PROVE  SlotJoins(r)
  <2>1. sync[r] => peer[r] \in Addrs \ {a}
    BY InUse DEF IInv, SyncInUse, GetClientSlot
  <2>2. Untouched(r)
    BY <1>1, <1>4, <2>1 DEF Untouched
  <2> QED BY <2>2, UntouchedJoins
<1> QED BY <1>3, <1>4, JoinOfAll

(* Has what was sent first, in whatever order. *)
LEMMA FirstSent ==
  /\ Has(<<"info">>, "info") /\ Has(<<"map">>, "map")
  /\ \A p \in {"up", "met"} : Has(FirstMessages[p], "info")
  /\ Has(FirstMessages["met"], "ready")
<1>1. Len(<<"info">>) = 1 /\ Len(<<"map">>) = 1 /\ Len(<<"info", "ready">>) = 2
  OBVIOUS
<1>2. Has(<<"info">>, "info") /\ Has(<<"map">>, "map")
  BY <1>1 DEF Has
<1>3. Has(<<"info", "ready">>, "info") /\ Has(<<"info", "ready">>, "ready")
  BY <1>1 DEF Has
<1> QED BY <1>2, <1>3, FirstTyped

(* Somebody who has no slot asks for one.                                  *)
LEMMA TryAcceptJoins ==
  ASSUME IInv, JoinInv, NEW a \in Addrs, NEW together \in BOOLEAN,
         TryAcceptClient(a, together), GetClientSlot(a) = {}, toClient' = toClient,
         together => prog'[a] \in Running /\ Has(toServer'[a], "info"),
         \A b \in Addrs : b # a => prog'[b] = prog[b] /\ toServer'[b] = toServer[b]
  PROVE  JoinInv' /\ JoinsGoOn
<1>1. CASE \E s \in Slots : Accepted(s, a, together)
  BY <1>1, AcceptedJoins
<1>2. CASE UNCHANGED <<slotVars, sync>>
  <2>1. \A s \in Slots : sync[s] => peer[s] # a
    BY DEF IInv, SyncInUse, GetClientSlot
  <2> QED BY <1>2, <2>1, NoSlotJoins
<1> QED BY <1>1, <1>2 DEF TryAcceptClient

(* What a program sends again or on is its own.                            *)
LEMMA SendsOwn ==
  ASSUME IInv, NEW a \in Addrs,
         (prog[a] \in DOMAIN FirstMessages /\ SendsAgain(a)) \/ SendsOn(a) \/ NowUp(a)
           \/ UNCHANGED <<prog, toServer>>
  PROVE  /\ \A b \in Addrs : b # a => prog'[b] = prog[b] /\ toServer'[b] = toServer[b]
         /\ (prog[a] \in DOMAIN FirstMessages /\ SendsAgain(a)) \/ NowUp(a) =>
              prog'[a] \in {"up", "met"} /\ Has(toServer'[a], "info")
         /\ prog[a] = "met" /\ SendsAgain(a) => Has(toServer'[a], "ready")
<1>1. \A b \in Addrs : b # a => prog'[b] = prog[b] /\ toServer'[b] = toServer[b]
  BY DEF SendsAgain, SendsOn, NowUp, IInv, NetTyped
<1>2. CASE prog[a] \in DOMAIN FirstMessages /\ SendsAgain(a)
  <2>1. prog[a] \in {"up", "met"} /\ prog' = prog /\ toServer'[a] = FirstMessages[prog[a]]
    BY <1>2, FirstTyped DEF SendsAgain, IInv, NetTyped
  <2>2. Has(toServer'[a], "info") /\ (prog[a] = "met" => Has(toServer'[a], "ready"))
    BY <2>1, FirstSent
  <2> QED BY <1>1, <2>1, <2>2
<1>3. CASE NowUp(a)
  <2>1. prog'[a] = "up" /\ toServer'[a] = <<"info">>
    BY <1>3 DEF NowUp, IInv, NetTyped
  <2>2. prog[a] = "met" /\ SendsAgain(a) => Has(toServer'[a], "ready")
    BY <2>1, FirstSent DEF SendsAgain, IInv, NetTyped
  <2> QED BY <1>1, <2>1, <2>2, FirstSent
<1>4. CASE ~NowUp(a) /\ ~(prog[a] \in DOMAIN FirstMessages /\ SendsAgain(a))
  BY <1>1, <1>4, FirstTyped
<1> QED BY <1>2, <1>3, <1>4

LEMMA NewConnectionJoins ==
  ASSUME IInv, JoinInv, NEW a \in Addrs, NewConnection(a), GetClientSlot(a) = {},
         toClient' = toClient
  PROVE  JoinInv' /\ JoinsGoOn
<1>1. CASE prog[a] = "up" /\ SendsAgain(a) /\ TryAcceptClient(a, TRUE)
  <2>1. prog[a] \in DOMAIN FirstMessages
    BY <1>1, FirstTyped
  <2>2. prog'[a] \in Running /\ Has(toServer'[a], "info")
    BY <1>1, <2>1, SendsOwn DEF Running
  <2> QED BY <1>1, <2>1, <2>2, SendsOwn, TryAcceptJoins
<1>2. CASE SendsOn(a) /\ TryAcceptClient(a, FALSE)
  BY <1>2, SendsOwn, TryAcceptJoins
<1>3. CASE TryAcceptClient(a, FALSE) /\ UNCHANGED <<prog, toServer>>
  BY <1>3, TryAcceptJoins
<1> QED BY <1>1, <1>2, <1>3 DEF NewConnection

LEMMA OnPreConnMsgJoins ==
  ASSUME IInv, JoinInv, NEW a \in Addrs, OnPreConnMsg(a)
  PROVE  JoinInv' /\ JoinsGoOn
<1>1. GetClientSlot(a) = {} /\ toClient' = toClient
  BY DEF OnPreConnMsg
<1>2. CASE TryAcceptClient(a, TRUE) /\ NowUp(a)
  <2>1. prog'[a] \in Running /\ Has(toServer'[a], "info")
    BY <1>2, SendsOwn DEF Running
  <2> QED BY <1>1, <1>2, <2>1, SendsOwn, TryAcceptJoins
<1>3. CASE NewConnection(a)
  BY <1>1, <1>3, NewConnectionJoins
<1> QED BY <1>2, <1>3 DEF OnPreConnMsg

(* A rejoin lets a client that has sent its first messages again go on,    *)
(* with the map on its way or its answer, and cuts off any other.          *)
LEMMA RejoinJoins ==
  ASSUME IInv, JoinInv, NEW a \in Addrs, NEW s \in Slots, conn[s] = "online", peer[s] = a,
         Rejoin(s), Accept(a)
  PROVE  JoinInv' /\ JoinsGoOn
<1>1. /\ UNCHANGED <<peer, state, player>>
      /\ \A r \in Slots : r # s => sync'[r] = sync[r]
      /\ \A b \in Addrs : b # a => toClient'[b] = toClient[b]
  BY DEF Rejoin, slotVars, IInv, NetTyped
<1>2. \A b \in Addrs : b # a => prog'[b] = prog[b] /\ toServer'[b] = toServer[b]
  BY SendsOwn DEF Rejoin
<1>3. ASSUME sync'[s]
      PROVE  SlotJoins(s)
  <2>1. /\ prog[a] \in DOMAIN FirstMessages /\ SendsAgain(a)
        /\ toClient'[a] = IF prog[a] = "up" THEN <<"map">> ELSE <<>>
    BY <1>3 DEF Rejoin, IInv, NetTyped
  <2>2. /\ prog'[a] \in Running /\ Has(toServer'[a], "info")
        /\ prog[a] = "met" => Has(toServer'[a], "ready")
    BY <2>1, SendsOwn DEF Running
  <2>3. Has(toClient'[a], "map") \/ Has(toServer'[a], "ready")
    BY <2>1, <2>2, FirstTyped, FirstSent
  <2>4. state[s] \in {"AUTH", "CONNECTING"} => Going(s)'
    BY <1>1, <1>3, <2>2, <2>3 DEF Going, Coming, Answer
  <2>5. Going(s) => state[s] \in {"AUTH", "CONNECTING", "READY"}
    BY DEF Going
  <2> QED BY <1>1, <1>3, <2>2, <2>4, <2>5 DEF SlotJoins, StaysGoing
<1>4. SlotJoins(s)
  BY <1>3, CutOffJoins
<1>5. ASSUME NEW r \in Slots, r # s
      PROVE  SlotJoins(r)
  <2>1. sync[r] => peer[r] \in Addrs \ {a}
    BY <1>5, StreamsApart
  <2>2. Untouched(r)
    BY <1>1, <1>2, <1>5, <2>1 DEF Untouched
  <2> QED BY <2>2, UntouchedJoins
<1> QED BY <1>4, <1>5, JoinOfAll

LEMMA AcceptJoins ==
  ASSUME IInv, JoinInv, NEW a \in Addrs, Accept(a)
  PROVE  JoinInv' /\ JoinsGoOn
<1>1. CASE \E s \in GetClientSlot(a) : Rejoin(s)
  BY <1>1, RejoinJoins DEF GetClientSlot
<1>2. CASE GetClientSlot(a) = {} /\ NewConnection(a) /\ UNCHANGED toClient
  BY <1>2, NewConnectionJoins
<1>3. CASE UNCHANGED <<slotVars, netVars>>
  BY <1>3, NothingJoins DEF slotVars, netVars
<1> QED BY <1>1, <1>2, <1>3 DEF Accept

-----------------------------------------------------------------------------
(* The messages *)

(* A message is taken from the client, which goes on with what is left and *)
(* the reply.                                                              *)
LEMMA ReplyFacts ==
  ASSUME IInv, NEW s \in Slots, sync[s], NextMessage(s) # "",
         NEW m \in ServerMessages \cup {""}, Reply(s, m)
  PROVE  /\ \A x : Has(toServer[peer[s]], x) /\ x # NextMessage(s) => Has(toServer'[peer[s]], x)
         /\ \A x : Has(toClient[peer[s]], x) => Has(toClient'[peer[s]], x)
         /\ m # "" => Has(toClient'[peer[s]], m)
         /\ \A b \in Addrs : b # peer[s] => toServer'[b] = toServer[b] /\ toClient'[b] = toClient[b]
<1>1. PICK a \in Addrs : a = peer[s]
  BY InUse DEF IInv, SyncInUse
<1>2. toServer[a] \in Seq(ClientMessages) /\ toClient[a] \in Seq(ServerMessages)
  BY DEF IInv, NetTyped
<1>3. toServer[a] # <<>> /\ NextMessage(s) = Head(toServer[a])
  BY <1>1 DEF NextMessage
<1>4. toServer'[a] = Tail(toServer[a])
  BY <1>1 DEF Reply, IInv, NetTyped
<1>5. toClient'[a] = IF m = "" THEN toClient[a] ELSE Append(toClient[a], m)
  BY <1>1 DEF Reply, IInv, NetTyped
<1>6. \A x : Has(toServer[a], x) /\ x # NextMessage(s) => Has(toServer'[a], x)
  BY <1>2, <1>3, <1>4, HasTail
<1>7. \A b \in Addrs : b # a => toServer'[b] = toServer[b] /\ toClient'[b] = toClient[b]
  BY <1>1 DEF Reply, IInv, NetTyped
<1>8. CASE m # ""
  <2>1. m \in ServerMessages
    BY <1>8
  <2>2. \A x : Has(toClient[a], x) \/ x = m => Has(Append(toClient[a], m), x)
    BY <1>2, <2>1, HasAppend
  <2> QED BY <1>1, <1>5, <1>6, <1>7, <1>8, <2>2
<1>9. CASE m = ""
  BY <1>1, <1>5, <1>6, <1>7, <1>9
<1> QED BY <1>8, <1>9

LEMMA PacketJoins ==
  ASSUME IInv, IInv', JoinInv, NEW s \in Slots, ProcessClientPacket(s)
  PROVE  JoinInv' /\ JoinsGoOn
<1>1. PICK a \in Addrs : a = peer[s]
  BY InUse DEF ProcessClientPacket, IInv, SyncInUse
<1>2. /\ sync[s] /\ conn[s] = "online" /\ NextMessage(s) \in {"info", "ready", "start", "enter"}
      /\ prog' = prog /\ prog[a] \in Running
  BY <1>1 DEF JoinInv, ProgramRuns, ProcessClientPacket, Info, Ready, StartInfo, EnterGame, IInv, SyncInUse, NetTyped
<1>3. ASSUME NEW r \in Slots, r # s, sync[r]
      PROVE  peer[r] \in Addrs \ {a}
  BY <1>1, <1>2, <1>3, StreamsApart
<1>4. CASE ~Drop(s)
  <2>1. PICK m \in ServerMessages \cup {""} :
          /\ Reply(s, m) /\ UNCHANGED <<peer, sync>>
          /\ \/ UNCHANGED <<state, player>>
                /\ \/ NextMessage(s) = "info" /\ state[s] # "AUTH"
                   \/ NextMessage(s) = "ready" /\ state[s] # "CONNECTING"
                   \/ NextMessage(s) = "start" /\ ~(state[s] = "READY" /\ player[s] = "new")
                   \/ NextMessage(s) = "enter" /\ ~(state[s] = "READY" /\ player[s] = "ready")
             \/ state[s] = "AUTH" /\ state' = [state EXCEPT ![s] = "CONNECTING"]
                /\ player' = player /\ m = "map"
             \/ state[s] = "CONNECTING" /\ state' = [state EXCEPT ![s] = "READY"]
                /\ player' = [player EXCEPT ![s] = "new"] /\ m = "con_ready"
             \/ state[s] = "READY" /\ player[s] = "new" /\ state' = state
                /\ player' = [player EXCEPT ![s] = "ready"] /\ m = "ready_to_enter"
             \/ state' = [state EXCEPT ![s] = "INGAME"] /\ player' = player
    <3>1. CASE Info(s)
      BY <1>4, <3>1 DEF Info, slotVars, ServerMessages
    <3>2. CASE Ready(s)
      BY <3>2 DEF Ready, slotVars, ServerMessages
    <3>3. CASE StartInfo(s)
      BY <3>3 DEF StartInfo, slotVars, ServerMessages
    <3>4. CASE EnterGame(s)
      BY <3>4 DEF EnterGame, slotVars, ServerMessages
    <3> QED BY <3>1, <3>2, <3>3, <3>4 DEF ProcessClientPacket
  <2>2. /\ \A x : Has(toServer[a], x) /\ x # NextMessage(s) => Has(toServer'[a], x)
        /\ \A x : Has(toClient[a], x) => Has(toClient'[a], x)
        /\ m # "" => Has(toClient'[a], m)
        /\ \A b \in Addrs : b # a => toServer'[b] = toServer[b] /\ toClient'[b] = toClient[b]
    BY <1>1, <1>2, <2>1, ReplyFacts
  <2>3. /\ state \in [Slots -> States] /\ player \in [Slots -> {"none", "new", "ready"}]
        /\ state[s] = "READY" => player[s] \in {"new", "ready"}
    BY DEF IInv, SlotInv, SlotsTyped, PlayersAgree
  <2>4. \A r \in Slots : r # s => state'[r] = state[r] /\ player'[r] = player[r]
    BY <2>1, <2>3
  <2>5. ASSUME NEW r \in Slots, r # s
        PROVE  SlotJoins(r)
    <3>1. Untouched(r)
      BY <1>2, <1>3, <2>1, <2>2, <2>4, <2>5 DEF Untouched
    <3> QED BY <3>1, UntouchedJoins
  <2>6. SlotJoins(s)
    <3>1. CASE UNCHANGED <<state, player>>
      <4>1. /\ state'[s] = state[s] /\ player'[s] = player[s] /\ peer'[s] = a /\ sync'[s]
            /\ state[s] = "AUTH" => NextMessage(s) # "info" \/ state'[s] = "INGAME"
            /\ state[s] = "CONNECTING" => NextMessage(s) # "ready" \/ state'[s] = "INGAME"
            /\ state[s] = "READY" /\ player[s] = "new" => NextMessage(s) # "start"
            /\ state[s] = "READY" /\ player[s] = "ready" => NextMessage(s) # "enter"
        BY <1>1, <1>2, <2>1, <2>3, <3>1
      <4>2. Going(s) => Going(s)'
        <5>1. CASE state[s] = "AUTH"
          BY <1>1, <1>2, <2>2, <4>1, <5>1 DEF Going
        <5>2. CASE state[s] = "CONNECTING"
          BY <1>1, <1>2, <2>2, <4>1, <5>2 DEF Going, Coming, Answer
        <5>3. CASE state[s] = "READY" /\ player[s] = "new"
          BY <1>1, <1>2, <2>2, <4>1, <5>3 DEF Going, Coming, Answer
        <5>4. CASE state[s] = "READY" /\ player[s] = "ready"
          BY <1>1, <1>2, <2>2, <4>1, <5>4 DEF Going, Coming, Answer
        <5> QED BY <2>3, <5>1, <5>2, <5>3, <5>4 DEF Going
      <4>3. state[s] \in {"AUTH", "CONNECTING"} => Going(s)
        BY <1>2 DEF JoinInv, JoinGoesOn
      <4> QED BY <1>1, <1>2, <4>1, <4>2, <4>3 DEF SlotJoins, StaysGoing
    <3>2. CASE state'[s] = "CONNECTING" /\ m = "map"
      BY <1>1, <1>2, <2>1, <2>2, <3>2 DEF SlotJoins, StaysGoing, Going, Coming
    <3>3. CASE state'[s] = "READY" /\ player'[s] = "new" /\ m = "con_ready"
      BY <1>1, <1>2, <2>1, <2>2, <3>3 DEF SlotJoins, StaysGoing, Going, Coming
    <3>4. CASE state'[s] = "READY" /\ player'[s] = "ready" /\ m = "ready_to_enter"
      BY <1>1, <1>2, <2>1, <2>2, <3>4 DEF SlotJoins, StaysGoing, Going, Coming
    <3>5. CASE state'[s] = "INGAME"
      BY <1>1, <1>2, <2>1, <3>5 DEF SlotJoins, StaysGoing
    <3> QED BY <2>1, <2>3, <3>1, <3>2, <3>3, <3>4, <3>5
  <2> QED BY <2>5, <2>6, JoinOfAll
<1>5. CASE Drop(s)
  <2>1. ~sync'[s]
    BY <1>5 DEF Drop, CutOff, IInv, NetTyped
  <2>2. ASSUME NEW r \in Slots, r # s
        PROVE  SlotJoins(r)
    <3>1. /\ state'[r] = state[r] /\ player'[r] = player[r] /\ peer'[r] = peer[r]
          /\ sync'[r] = sync[r]
      BY <1>5, <2>2 DEF Drop, CutOff, IInv, SlotInv, SlotsTyped, NetTyped
    <3>2. sync[r] => /\ prog'[peer[r]] = prog[peer[r]]
                     /\ toServer'[peer[r]] = toServer[peer[r]] /\ toClient'[peer[r]] = toClient[peer[r]]
      BY <1>1, <1>2, <1>3, <1>5, <2>2 DEF Drop, CutOff
    <3>3. Untouched(r)
      BY <3>1, <3>2 DEF Untouched
    <3> QED BY <3>3, UntouchedJoins
  <2> QED BY <2>1, <2>2, CutOffJoins, JoinOfAll
<1> QED BY <1>4, <1>5

(* The client answers what the server has sent. *)
LEMMA ReceiveJoins ==
  ASSUME IInv, JoinInv, NEW a \in Addrs, Receive(a)
  PROVE  JoinInv' /\ JoinsGoOn
<1> DEFINE h == Head(toClient[a])
<1>1. /\ toServer[a] \in Seq(ClientMessages) /\ toClient[a] \in Seq(ServerMessages)
      /\ toClient[a] # <<>>
  BY DEF Receive, IInv, NetTyped
<1>2. /\ toServer'[a] = Append(toServer[a], Answer[h]) /\ toClient'[a] = Tail(toClient[a])
      /\ prog'[a] \in Running /\ UNCHANGED <<peer, state, player, sync>>
      /\ \A b \in Addrs : b # a => prog'[b] = prog[b] /\ toServer'[b] = toServer[b]
                                   /\ toClient'[b] = toClient[b]
  BY DEF Receive, Running, IInv, NetTyped, slotVars
<1>3. Answer[h] \in ClientMessages
  <2>1. h \in ServerMessages
    BY <1>1, SeqFacts
  <2> QED BY <2>1 DEF Answer, ServerMessages, ClientMessages
<1>4. \A x : Has(toServer[a], x) \/ x = Answer[h] => Has(toServer'[a], x)
  BY <1>1, <1>2, <1>3, HasAppend
<1>5. \A x : Has(toClient[a], x) /\ x # h => Has(toClient'[a], x)
  BY <1>1, <1>2, HasTail
<1> HIDE DEF h
<1>6. \A x : Has(toClient[a], x) \/ Has(toServer[a], Answer[x]) =>
             Has(toClient'[a], x) \/ Has(toServer'[a], Answer[x])
  BY <1>4, <1>5
<1>7. ASSUME NEW s \in Slots
      PROVE  SlotJoins(s)
  <2>1. CASE ~sync[s]
    BY <1>2, <2>1, CutOffJoins
  <2>2. CASE sync[s] /\ peer[s] # a
    <3>1. peer[s] \in Addrs
      BY <2>2, InUse DEF IInv, SyncInUse
    <3>2. Untouched(s)
      BY <1>2, <2>2, <3>1 DEF Untouched
    <3> QED BY <3>2, UntouchedJoins
  <2>3. CASE sync[s] /\ peer[s] = a
    <3>1. Going(s) => Going(s)'
      <4>1. \A x : Coming(a, x) => Has(toClient'[a], x) \/ Has(toServer'[a], Answer[x])
        BY <1>6 DEF Coming
      <4>2. CASE state[s] = "AUTH"
        BY <1>2, <1>4, <2>3, <4>2 DEF Going
      <4>3. CASE state[s] = "CONNECTING"
        BY <1>2, <2>3, <4>1, <4>3 DEF Going, Coming
      <4>4. CASE state[s] = "READY"
        BY <1>2, <2>3, <4>1, <4>4 DEF Going, Coming
      <4> QED BY <4>2, <4>3, <4>4 DEF Going
    <3>2. state[s] \in {"AUTH", "CONNECTING"} => Going(s)
      BY <2>3 DEF JoinInv, JoinGoesOn
    <3> QED BY <1>2, <2>3, <3>1, <3>2 DEF SlotJoins, StaysGoing
  <2> QED BY <2>1, <2>2, <2>3
<1> QED BY <1>7, JoinOfAll

(* A program that ends takes its slots along. *)
LEMMA ClientStopJoins ==
  ASSUME IInv, JoinInv, NEW a \in Addrs, ClientStop(a)
  PROVE  JoinInv' /\ JoinsGoOn
<1>1. /\ UNCHANGED <<peer, state, player>> /\ prog'[a] = "off"
      /\ \A s \in Slots : sync'[s] = (sync[s] /\ peer[s] # a)
      /\ \A b \in Addrs : b # a => prog'[b] = prog[b] /\ toServer'[b] = toServer[b]
                                   /\ toClient'[b] = toClient[b]
  BY DEF ClientStop, IInv, NetTyped
<1>2. ASSUME NEW s \in Slots
      PROVE  SlotJoins(s)
  <2>1. CASE ~sync'[s]
    BY <2>1, CutOffJoins
  <2>2. CASE sync'[s]
    <3>1. sync[s] /\ peer[s] \in Addrs \ {a} /\ sync'[s] = sync[s]
      BY <1>1, <2>2, InUse DEF IInv, SyncInUse, NetTyped
    <3>2. Untouched(s)
      BY <1>1, <3>1 DEF Untouched
    <3> QED BY <3>2, UntouchedJoins
  <2> QED BY <2>1, <2>2
<1> QED BY <1>2, JoinOfAll

-----------------------------------------------------------------------------

LEMMA SlotStepJoins ==
  ASSUME IInv, IInv', JoinInv, NEW s \in Slots, Slot(s)
  PROVE  JoinInv' /\ JoinsGoOn
<1> USE DEF IInv, SlotInv, SlotsAgree
<1>1. CASE ProcessClientPacket(s)
  BY <1>1, PacketJoins
<1>2. CASE Expire(s)
  BY <1>2, CutOffAlone DEF Expire
<1>3. CASE Age(s)
  BY <1>3, NothingJoins DEF Age, netVars
<1>4. CASE Update(s)
  BY <1>4, DropJoins, NothingJoins DEF Update, BanExt, slotVars
<1>5. CASE Kick(s) \/ ConBanExt(s)
  BY <1>5, DropJoins DEF Kick, ConBanExt
<1> QED BY <1>1, <1>2, <1>3, <1>4, <1>5 DEF Slot

LEMMA ClientStepJoins ==
  ASSUME IInv, JoinInv, NEW a \in Addrs, Client(a)
  PROVE  JoinInv' /\ JoinsGoOn
<1>1. CASE ClientStart(a)
  BY <1>1, NowUpJoins DEF ClientStart, Running
<1>2. CASE Connect(a)
  BY <1>2, NowUpJoins DEF Connect, Running
<1>3. CASE Lose(a)
  BY <1>3, NothingJoins DEF Lose, slotVars
<1> QED BY <1>1, <1>2, <1>3, OnPreConnMsgJoins, AcceptJoins, ReceiveJoins, ClientStopJoins DEF Client

LEMMA StepJoins ==
  ASSUME IInv, IInv', JoinInv, [Next]_vars
  PROVE  JoinInv' /\ JoinsGoOn
<1>1. CASE UNCHANGED vars
  BY <1>1, NothingJoins DEF vars, slotVars, netVars
<1>2. ASSUME NEW i \in Ips, BanAddr(i)
      PROVE  JoinInv' /\ JoinsGoOn
  BY <1>2, DropJoins, NothingJoins DEF BanAddr, BanExt, slotVars, IInv, SlotInv, SlotsAgree
<1>3. ASSUME NEW i \in Ips, Unban(i)
      PROVE  JoinInv' /\ JoinsGoOn
  BY <1>3, NothingJoins DEF Unban, slotVars, netVars
<1> QED BY <1>1, <1>2, <1>3, SlotStepJoins, ClientStepJoins DEF Next

LEMMA InitJoins == Init => JoinInv
BY DEF Init, JoinInv, JoinGoesOn, ProgramRuns

(***************************************************************************)
(* A client in AUTH or CONNECTING whose connection holds always has what   *)
(* takes it further under way, though ACCEPTs arrive again and again: the  *)
(* half of JoinCompletes that says no join is ever stuck.                  *)
(***************************************************************************)
THEOREM JoinNeverStuck == Spec => []JoinGoesOn
<1>1. IInv /\ IInv' /\ JoinInv /\ [Next]_vars => JoinInv'
  BY StepJoins
<1>2. JoinInv => JoinGoesOn
  BY DEF JoinInv
<1> QED BY <1>1, <1>2, InitJoins, Inductive, PTL DEF Spec

(***************************************************************************)
(* And once a join goes on, it does, through CONNECTING and READY to the   *)
(* game, unless its connection ends: no step of any client, of the network *)
(* or of the server takes away what the next stage waits for.              *)
(***************************************************************************)
THEOREM JoinsProceed == Spec => [][JoinsGoOn]_vars
<1>1. IInv /\ IInv' /\ JoinInv /\ [Next]_vars => JoinInv' /\ JoinsGoOn
  BY StepJoins
<1> QED BY <1>1, InitJoins, Inductive, PTL DEF Spec

=============================================================================
