---------------------------- MODULE ClientSlots ----------------------------
(***************************************************************************)
(* The slots of the server: CNetServer, which gives a slot to an address,  *)
(* CServer, which keeps a client's state in it (EMPTY, AUTH, CONNECTING,   *)
(* READY, INGAME), and the CPlayer that CGameContext makes for it, from    *)
(* the handshake with its tokens to a client's entering the game, with     *)
(* restarts of clients, rejoins, kicks, bans and expiring connections.     *)
(*                                                                         *)
(* A connection is an ordered stream of messages each way, which is what   *)
(* NetConnection shows of it, as long as its two ends belong together      *)
(* (`sync').  The client's program is external: it asks, answers what the  *)
(* server sends, leaves or vanishes.                                       *)
(***************************************************************************)
EXTENDS Integers, Sequences, FiniteSets

CONSTANTS
  NumSlots,   \* MaxClients() - MAX_BOTS
  Addrs,      \* addresses with their ports
  Ips,        \* addresses without
  IpOf,       \* the function from the first to the second
  Legacy,     \* the addresses whose clients know no tokens
  NoAddr,
  MaxPerIP    \* m_MaxClientsPerIP

ASSUME SlotsAssumption ==
  /\ NumSlots \in Nat /\ MaxPerIP \in Nat \ {0}
  /\ IpOf \in [Addrs -> Ips] /\ Legacy \subseteq Addrs /\ NoAddr \notin Addrs

Slots == 1 .. NumSlots

VARIABLES
  conn, peer,  \* m_State and m_PeerAddr of the slot's connection
  young,       \* a connection in error that was made less than a second ago
  state,       \* m_State of the slot's client
  player,      \* its CPlayer: none, one, or one with m_IsReady
  bans,        \* the banned addresses
  prog,        \* what the program at an address does
  sync,        \* the slot's connection and its client's belong together
  toServer, toClient, \* messages under way on the client's connection
  accepts             \* the addresses that have an ACCEPT under way

slotVars == <<conn, peer, young, state, player>>
netVars == <<prog, sync, toServer, toClient, accepts>>
vars == <<slotVars, bans, netVars>>

States == {"EMPTY", "AUTH", "CONNECTING", "READY", "INGAME"}
ClientMessages == {"info", "ready", "start", "enter"}
ServerMessages == {"map", "con_ready", "ready_to_enter"}

Init ==
  /\ conn = [s \in Slots |-> "offline"] /\ peer = [s \in Slots |-> NoAddr]
  /\ young = [s \in Slots |-> FALSE]
  /\ state = [s \in Slots |-> "EMPTY"] /\ player = [s \in Slots |-> "none"]
  /\ bans = {}
  /\ prog = [a \in Addrs |-> "off"] /\ sync = [s \in Slots |-> FALSE]
  /\ toServer = [a \in Addrs |-> <<>>] /\ toClient = [a \in Addrs |-> <<>>]
  /\ accepts = {}

-----------------------------------------------------------------------------
(* The slots of CNetServer                                                 *)

GetClientSlotPort(a) ==   \* mutant: only clients past AUTH are looked at
  {s \in Slots : conn[s] = "online" /\ peer[s] = a /\ state[s] # "AUTH"}

(* The slots of a client; a connection in error counts no more.            *)
GetClientSlot(a) == {s \in Slots : conn[s] = "online" /\ peer[s] = a}

OnIp(i) == {s \in Slots : conn[s] = "online" /\ IpOf[peer[s]] = i}

NumClientsWithAddr(a) == Cardinality(OnIp(IpOf[a]))

(* The first slot that is not in use.                                      *)
FreeSlot(s) ==
  /\ s \in Slots /\ conn[s] = "offline"
  /\ \A r \in Slots : r < s => conn[r] # "offline"

(* What a program has sent that knows of none of it to have arrived: one   *)
(* that is up has got nothing either, one that has met the server a map.   *)
FirstMessages == [up |-> <<"info">>, met |-> <<"info", "ready">>]

(* None of it has arrived at the slot.                                     *)
Unheard(a) ==
  prog[a] \in DOMAIN FirstMessages /\ toServer[a] = FirstMessages[prog[a]]

(* The program of the slot is cut off.  One that nobody has heard goes on  *)
(* sending its first messages.                                             *)
CutOff(s) ==
  LET A == IF sync[s] THEN {peer[s]} ELSE {} IN
  /\ sync' = [sync EXCEPT ![s] = FALSE]
  /\ toServer' = [a \in Addrs |-> IF a \in A /\ ~Unheard(a) THEN <<>> ELSE toServer[a]]
  /\ toClient' = [a \in Addrs |-> IF a \in A THEN <<>> ELSE toClient[a]]

DropKeepingState(s) ==   \* mutant: the client is forgotten only if it had a player
  /\ conn' = [conn EXCEPT ![s] = "offline"]
  /\ state' = [state EXCEPT ![s] = IF player[s] = "none" THEN @ ELSE "EMPTY"]
  /\ player' = [player EXCEPT ![s] = "none"]
  /\ peer' = [peer EXCEPT ![s] = NoAddr] /\ young' = [young EXCEPT ![s] = FALSE]
  /\ CutOff(s)

(***************************************************************************)
(* Drop: DelClientCallback, which has the worlds delete the player         *)
(* (OnClientDrop) and empties the client, then Disconnect.  The address    *)
(* stays in the connection, but nobody reads that of one that is offline.  *)
(***************************************************************************)
Drop(s) ==
  /\ conn' = [conn EXCEPT ![s] = "offline"]
  /\ state' = [state EXCEPT ![s] = "EMPTY"]
  /\ player' = [player EXCEPT ![s] = "none"]
  /\ peer' = [peer EXCEPT ![s] = NoAddr] /\ young' = [young EXCEPT ![s] = FALSE]
  /\ CutOff(s)

(* TryAcceptClient with DirectInit and NewClientCallback.                  *)
Accepted(s, a, together) ==
  /\ NumClientsWithAddr(a) + 1 <= MaxPerIP /\ FreeSlot(s)
  /\ conn' = [conn EXCEPT ![s] = "online"] /\ peer' = [peer EXCEPT ![s] = a]
  /\ state' = [state EXCEPT ![s] = "AUTH"]
  /\ sync' = [sync EXCEPT ![s] = together]
  /\ UNCHANGED <<young, player>>

(* Refused: too often, too many, or no slot, which only Connlimit decides  *)
(* by what is not modelled.                                                *)
TryAcceptClient(a, together) ==
  \/ \E s \in Slots : Accepted(s, a, together)
  \/ UNCHANGED <<slotVars, sync>>

-----------------------------------------------------------------------------
(* The handshake                                                           *)

(* A program starts, also after it has vanished with its slot in use.      *)
ClientStart(a) ==
  /\ prog[a] = "off"
  /\ prog' = [prog EXCEPT ![a] = "asking"]
  /\ UNCHANGED <<slotVars, bans, sync, toServer, toClient, accepts>>

NowUp(a) ==
  /\ prog' = [prog EXCEPT ![a] = "up"]
  /\ toServer' = [toServer EXCEPT ![a] = <<"info">>]

(***************************************************************************)
(* CONNECT with a token: whether the address has a slot or not, it is      *)
(* answered with the address's token; a banned one without a slot is not.  *)
(* The client that gets the answer sends ACCEPT and its first message.     *)
(***************************************************************************)
Connect(a) ==
  /\ prog[a] = "asking" /\ a \notin Legacy
  /\ GetClientSlot(a) # {} \/ IpOf[a] \notin bans
  /\ NowUp(a) /\ accepts' = accepts \cup {a}
  /\ UNCHANGED <<slotVars, bans, sync, toClient>>

(* The client does not know that anything has arrived, and sends it again. *)
SendsAgain(a) ==
  /\ toServer' = [toServer EXCEPT ![a] = FirstMessages[prog[a]]]
  /\ UNCHANGED prog

(* It sends nothing again that it knows to have arrived, or nothing at all. *)
SendsOn(a) ==
  /\ ~Unheard(a)
  /\ toServer' = [toServer EXCEPT ![a] = <<>>]
  /\ prog' = [prog EXCEPT ![a] = IF @ \in DOMAIN FirstMessages THEN "talking" ELSE @]

(***************************************************************************)
(* A new connection of the server belongs together with the client's if    *)
(* the client begins with its first message and has got nothing: a packet  *)
(* that acknowledges what was not sent is ignored.                         *)
(***************************************************************************)
NewConnection(a) ==
  \/ prog[a] = "up" /\ SendsAgain(a) /\ TryAcceptClient(a, TRUE)
  \/ prog[a] # "met" /\ SendsOn(a) /\ TryAcceptClient(a, FALSE)
  \/ prog[a] = "met" /\ TryAcceptClient(a, FALSE) /\ UNCHANGED <<prog, toServer>>

(***************************************************************************)
(* OnPreConnMsg: CONNECT without a token is accepted at once, if it can    *)
(* be, and answered before that is known.  The answer may be lost, and     *)
(* then the client goes on asking, but has a slot; it may be of no use to  *)
(* a client that is not asking any more when its CONNECT arrives.  One of  *)
(* an earlier program, even one before the server's start, may be under    *)
(* way at any time.                                                        *)
(***************************************************************************)
OnPreConnMsg(a) ==
  /\ a \in Legacy
  /\ GetClientSlot(a) = {} /\ IpOf[a] \notin bans
  /\ \/ prog[a] = "asking" /\ TryAcceptClient(a, TRUE) /\ NowUp(a)
     \/ NewConnection(a)
  /\ UNCHANGED <<bans, toClient, accepts>>

RejoinDeaf(s) ==   \* mutant: what the client has sent is thrown away
  LET a == peer[s] IN
  /\ sync' = [sync EXCEPT ![s] = prog[a] = "up"]
  /\ toClient' = [toClient EXCEPT ![a] = IF prog[a] = "up" THEN <<"map">> ELSE <<>>]
  /\ toServer' = [toServer EXCEPT ![a] = <<>>]
  /\ UNCHANGED <<slotVars, prog>>

RejoinReconnecting(s) ==   \* mutant: the client goes back to CONNECTING
  LET a == peer[s] IN
  /\ SendsOn(a)
  /\ sync' = [sync EXCEPT ![s] = FALSE] /\ toClient' = [toClient EXCEPT ![a] = <<>>]
  /\ state' = [state EXCEPT ![s] = "CONNECTING"]
  /\ UNCHANGED <<conn, peer, young, player>>

(***************************************************************************)
(* OnConnCtrlMsg with ACCEPT: the connection's numbers are reset in place, *)
(* ClientRejoinCallback sends the map, and the client keeps its state.     *)
(* The two ends belong together if the client's numbers can be the first   *)
(* ones again; to one that has a map already the map is an old chunk.      *)
(***************************************************************************)
Rejoin(s) ==
  LET a == peer[s] IN
  /\ \/ /\ prog[a] \in DOMAIN FirstMessages /\ SendsAgain(a)
        /\ sync' = [sync EXCEPT ![s] = TRUE]
        /\ toClient' = [toClient EXCEPT ![a] = IF prog[a] = "up" THEN <<"map">> ELSE <<>>]
     \/ /\ SendsOn(a)
        /\ sync' = [sync EXCEPT ![s] = FALSE]
        /\ toClient' = [toClient EXCEPT ![a] = <<>>]
  /\ UNCHANGED slotVars

AcceptBanned(a) ==   \* mutant: bans are looked up when the client asks, not again
  /\ a \in accepts
  /\ \/ \E s \in GetClientSlot(a) : Rejoin(s)
     \/ GetClientSlot(a) = {} /\ NewConnection(a) /\ UNCHANGED toClient
  /\ UNCHANGED <<bans, accepts>>

(* ACCEPT arrives.                                                         *)
Accept(a) ==
  /\ a \in accepts
  /\ \/ \E s \in GetClientSlot(a) : Rejoin(s)
     \/ /\ GetClientSlot(a) = {} /\ IpOf[a] \notin bans
        /\ NewConnection(a) /\ UNCHANGED toClient
     \/ /\ GetClientSlot(a) = {} /\ IpOf[a] \in bans
        /\ UNCHANGED <<slotVars, netVars>>
  /\ UNCHANGED <<bans, accepts>>

(* They arrive any number of times, then no more.                          *)
Lose(a) ==
  /\ a \in accepts /\ accepts' = accepts \ {a}
  /\ UNCHANGED <<slotVars, bans, prog, sync, toServer, toClient>>

-----------------------------------------------------------------------------
(* Messages of a client                                                    *)

ReplyEmpty(s, m) ==   \* mutant: an empty message is sent where there is no reply
  LET a == peer[s] IN
  /\ toServer' = [toServer EXCEPT ![a] = Tail(@)]
  /\ toClient' = [toClient EXCEPT ![a] = Append(@, m)]

(* The message is taken off the stream, and m is sent if there is one.     *)
Reply(s, m) ==
  LET a == peer[s] IN
  /\ toServer' = [toServer EXCEPT ![a] = Tail(@)]
  /\ toClient' = [toClient EXCEPT ![a] = IF m = "" THEN @ ELSE Append(@, m)]

NextMessage(s) == IF toServer[peer[s]] = <<>> THEN "" ELSE Head(toServer[peer[s]])

(* NETMSG_INFO: a wrong version or password drops the client.              *)
Info(s) ==
  /\ NextMessage(s) = "info"
  /\ \/ state[s] = "AUTH" /\ state' = [state EXCEPT ![s] = "CONNECTING"]
        /\ Reply(s, "map") /\ UNCHANGED <<conn, peer, young, player, sync>>
     \/ state[s] = "AUTH" /\ Drop(s)
     \/ state[s] # "AUTH" /\ Reply(s, "") /\ UNCHANGED <<slotVars, sync>>

(* NETMSG_READY: OnClientConnected makes the player.                       *)
Ready(s) ==
  /\ NextMessage(s) = "ready"
  /\ \/ /\ state[s] = "CONNECTING"
        /\ player' = [player EXCEPT ![s] = "new"]
        /\ state' = [state EXCEPT ![s] = "READY"]
        /\ Reply(s, "con_ready")
        /\ UNCHANGED <<conn, peer, young>>
     \/ state[s] # "CONNECTING" /\ Reply(s, "") /\ UNCHANGED slotVars
  /\ UNCHANGED sync

(* OnMessage with CL_STARTINFO: game messages are for READY and INGAME.    *)
StartInfo(s) ==
  /\ NextMessage(s) = "start"
  /\ \/ /\ state[s] = "READY" /\ player[s] = "new"
        /\ player' = [player EXCEPT ![s] = "ready"]
        /\ Reply(s, "ready_to_enter")
        /\ UNCHANGED <<conn, peer, young, state>>
     \/ (state[s] # "READY" \/ player[s] # "new") /\ Reply(s, "") /\ UNCHANGED slotVars
  /\ UNCHANGED sync

(* NETMSG_ENTERGAME.                                                       *)
EnterGame(s) ==
  /\ NextMessage(s) = "enter"
  /\ \/ /\ state[s] = "READY" /\ player[s] = "ready"
        /\ state' = [state EXCEPT ![s] = "INGAME"]
        /\ UNCHANGED <<conn, peer, young, player>>
     \/ ~(state[s] = "READY" /\ player[s] = "ready") /\ UNCHANGED slotVars
  /\ Reply(s, "") /\ UNCHANGED sync

ProcessClientPacket(s) ==
  /\ sync[s]
  /\ Info(s) \/ Ready(s) \/ StartInfo(s) \/ EnterGame(s)
  /\ UNCHANGED <<bans, prog, accepts>>

(* The client's side: each message of the server is answered.              *)
Answer == [map |-> "ready", con_ready |-> "start", ready_to_enter |-> "enter"]

(* A message tells the client what has arrived until it was sent.          *)
Receive(a) ==
  /\ toClient[a] # <<>> /\ prog[a] \in {"up", "met", "talking"}
  /\ toServer' = [toServer EXCEPT ![a] = Append(@, Answer[Head(toClient[a])])]
  /\ toClient' = [toClient EXCEPT ![a] = Tail(@)]
  /\ prog' = [prog EXCEPT ![a] = IF @ = "up" /\ Unheard(a) THEN "met" ELSE "talking"]
  /\ UNCHANGED <<slotVars, bans, sync, accepts>>

-----------------------------------------------------------------------------
(* The ends of a connection                                                *)

(***************************************************************************)
(* A program vanishes, or leaves with a CLOSE that arrives, perhaps within *)
(* a second of the slot's being given.  What it has sent or was to get on  *)
(* its connection is of no use any more.                                   *)
(***************************************************************************)
ClientStop(a) ==
  /\ prog[a] # "off"
  /\ prog' = [prog EXCEPT ![a] = "off"]
  /\ \E closed \in SUBSET {s \in Slots : sync[s] /\ peer[s] = a} :
       \E fast \in SUBSET closed :
         /\ conn' = [s \in Slots |-> IF s \in closed THEN "error" ELSE conn[s]]
         /\ young' = [s \in Slots |-> young[s] \/ s \in fast]
  /\ sync' = [s \in Slots |-> sync[s] /\ peer[s] # a]
  /\ toServer' = [toServer EXCEPT ![a] = <<>>]
  /\ toClient' = [toClient EXCEPT ![a] = <<>>]
  /\ UNCHANGED <<peer, state, player, bans, accepts>>

(* Nothing useful has arrived for ten seconds.                             *)
Expire(s) ==
  /\ conn[s] = "online"
  /\ conn' = [conn EXCEPT ![s] = "error"] /\ CutOff(s)
  /\ UNCHANGED <<peer, young, state, player, bans, prog, accepts>>

(* A second passes after a connection was made.                            *)
Age(s) ==
  /\ young[s] /\ young' = [young EXCEPT ![s] = FALSE]
  /\ UNCHANGED <<conn, peer, state, player, bans, netVars>>

(***************************************************************************)
(* CServerBan::BanExt: a new ban drops at most one client, the one that    *)
(* m_BanID names if it has that address.  m_BanID is left from the last    *)
(* ban of the console, so it may be any client, or none.                   *)
(***************************************************************************)
BanExt(i) ==
  /\ bans' = bans \cup {i}
  /\ \/ UNCHANGED <<slotVars, sync, toServer, toClient>>
     \/ /\ i \notin bans
        /\ \E s \in Slots : state[s] # "EMPTY" /\ IpOf[peer[s]] = i /\ Drop(s)

UpdateOnce(s) ==   \* mutant: a slot of a banned address is left alone
  /\ conn[s] = "error"
  /\ IpOf[peer[s]] \notin bans
  /\ \/ young[s] /\ BanExt(IpOf[peer[s]])
     \/ ~young[s] /\ Drop(s) /\ UNCHANGED bans
  /\ UNCHANGED <<prog, accepts>>

(* CNetServer::Update: a connection in error is banned while it is young,  *)
(* which may fail, and dropped once it is not.                             *)
Update(s) ==
  /\ conn[s] = "error"
  /\ \/ young[s] /\ BanExt(IpOf[peer[s]])
     \/ ~young[s] /\ Drop(s) /\ UNCHANGED bans
  /\ UNCHANGED <<prog, accepts>>

Kick(s) ==
  /\ state[s] # "EMPTY" /\ Drop(s)
  /\ UNCHANGED <<bans, prog, accepts>>

(* The console's ban of a client: banned if it can be, and dropped.        *)
ConBanExt(s) ==
  /\ state[s] # "EMPTY" /\ Drop(s)
  /\ bans' \in {bans, bans \cup {IpOf[peer[s]]}}
  /\ UNCHANGED <<prog, accepts>>

(* A ban of an address, from the console or for a client's many tries.     *)
BanAddr(i) ==
  /\ BanExt(i)
  /\ UNCHANGED <<prog, accepts>>

Unban(i) ==
  /\ i \in bans /\ bans' = bans \ {i}
  /\ UNCHANGED <<slotVars, netVars>>

-----------------------------------------------------------------------------
Client(a) ==
  \/ ClientStart(a) \/ Connect(a) \/ OnPreConnMsg(a) \/ Accept(a)
  \/ Lose(a) \/ Receive(a) \/ ClientStop(a)

Slot(s) ==
  \/ ProcessClientPacket(s) \/ Expire(s) \/ Age(s) \/ Update(s)
  \/ Kick(s) \/ ConBanExt(s)

Next ==
  \/ \E a \in Addrs : Client(a)
  \/ \E s \in Slots : Slot(s)
  \/ \E i \in Ips : BanAddr(i) \/ Unban(i)

Spec == Init /\ [][Next]_vars

Gone(s) == conn[s] = "online" /\ prog[peer[s]] = "off"

(* Time passes for the slot: nothing arrives from a client that is gone.   *)
Time(s) == Age(s) \/ (Gone(s) /\ Expire(s))

(***************************************************************************)
(* The main loop updates every slot, time passes, a connection that both   *)
(* ends keep delivers its messages, and clients answer.  The network       *)
(* repeats a packet some times, not for ever.                              *)
(***************************************************************************)
Fairness ==
  /\ \A s \in Slots :
       WF_vars(Update(s)) /\ WF_vars(Time(s)) /\ WF_vars(ProcessClientPacket(s))
  /\ \A a \in Addrs : WF_vars(Receive(a)) /\ WF_vars(Lose(a))

FairSpec == Spec /\ Fairness

-----------------------------------------------------------------------------
(* Properties                                                              *)

(* Every variable keeps its type.                                          *)
TypeOK ==
  /\ conn \in [Slots -> {"offline", "online", "error"}]
  /\ peer \in [Slots -> Addrs \cup {NoAddr}]
  /\ young \in [Slots -> BOOLEAN]
  /\ state \in [Slots -> States] /\ player \in [Slots -> {"none", "new", "ready"}]
  /\ bans \subseteq Ips
  /\ prog \in [Addrs -> {"off", "asking", "up", "met", "talking"}]
  /\ sync \in [Slots -> BOOLEAN]
  /\ toServer \in [Addrs -> Seq(ClientMessages)]
  /\ toClient \in [Addrs -> Seq(ServerMessages)]
  /\ accepts \subseteq Addrs

(***************************************************************************)
(* CServer and CNetServer agree on which slots are in use: however a       *)
(* client goes, a slot that can be given away holds no client, and a       *)
(* client never has a connection that is gone.                             *)
(***************************************************************************)
SlotsAgree ==
  \A s \in Slots :
    /\ (state[s] = "EMPTY") <=> (conn[s] = "offline")
    /\ (peer[s] = NoAddr) <=> (conn[s] = "offline")

(***************************************************************************)
(* The game has a player for exactly the clients past CONNECTING, through  *)
(* rejoins and drops at any moment, and who is in the game has said who    *)
(* he is: the code indexes m_apPlayers by client without asking.           *)
(***************************************************************************)
PlayersAgree ==
  \A s \in Slots :
    /\ (player[s] # "none") <=> (state[s] \in {"READY", "INGAME"})
    /\ state[s] = "INGAME" => player[s] = "ready"

(***************************************************************************)
(* A client never holds two live slots, however often it restarts and      *)
(* however late or often its ACCEPT arrives: packets have one owner.       *)
(***************************************************************************)
OneSlotPerClient ==
  \A r, s \in Slots :
    conn[r] = "online" /\ conn[s] = "online" /\ peer[r] = peer[s] => r = s

(* sv_max_clients_per_ip holds whatever ports the clients have.            *)
PerIpLimit == \A i \in Ips : Cardinality(OnIp(i)) <= MaxPerIP

(* How far the client of a slot has come; one that has said who it is      *)
(* differs from one that has not.                                          *)
Stage(s) ==
  IF state[s] = "READY" /\ player[s] = "ready" THEN "introduced" ELSE state[s]

StageOf ==
  [a \in Addrs |-> IF GetClientSlot(a) = {} THEN "out"
                   ELSE Stage(CHOOSE s \in GetClientSlot(a) : TRUE)]

(***************************************************************************)
(* Seen by their addresses, clients are let in, go on and leave as if the  *)
(* server kept one record for each: no late or repeated packet, no slot    *)
(* that is given to the next client, and no connection in error ever makes *)
(* a client skip a stage, fall back, come in while it is banned, or go     *)
(* together with another.                                                  *)
(***************************************************************************)
Adm == INSTANCE Admission WITH Clients <- Addrs, Capacity <- NumSlots, stage <- StageOf
AdmissionSpec == Adm!Spec

(***************************************************************************)
(* A connection in error is freed, though the ban of a young one may leave *)
(* it as it is and its address may be banned already; and the slot of a    *)
(* client that vanished, in whatever state, is given back unless the       *)
(* client comes again.                                                     *)
(***************************************************************************)
SlotsFreed ==
  \A s \in Slots :
    (conn[s] = "error" \/ Gone(s))
      ~> (conn[s] = "offline" \/ (conn[s] = "online" /\ prog[peer[s]] # "off"))

(***************************************************************************)
(* A client whose slot is in AUTH or CONNECTING enters the game if its     *)
(* connection holds, though ACCEPTs that arrive again reset it and the     *)
(* client gets the map twice, unless one may still arrive when the client  *)
(* is READY.                                                               *)
(***************************************************************************)
JoinCompletes ==
  \A s \in Slots :
    (sync[s] /\ state[s] \in {"AUTH", "CONNECTING"})
      ~> \/ state[s] = "INGAME" \/ ~sync[s] \/ conn[s] # "online"
         \/ state[s] = "READY" /\ peer[s] \in accepts

=============================================================================
