--------------------------- MODULE NetConnection ----------------------------
(***************************************************************************)
(* Two CNetConnections (engine/shared/network_conn.cpp, with the unpacker  *)
(* and the packet helpers of network.cpp) talking over UDP: the handshake, *)
(* the sequence and acknowledgement numbers modulo NET_MAX_SEQUENCE, the   *)
(* bounded resend buffer, the packet under construction, resend requests,  *)
(* and the timers of Update.  The network loses, duplicates and reorders.  *)
(*                                                                         *)
(* Only vital chunks are modelled: the others bypass the sequence filter.  *)
(* Time is abstract: each Update chooses which of its timers have expired. *)
(* Each end lives one incarnation, from Connect, Accept or PENDING to the  *)
(* Reset of Disconnect; sent, delivered, acked, unkept and life are        *)
(* history.                                                                *)
(***************************************************************************)
EXTENDS Integers, Sequences, FiniteSets

CONSTANTS
  A, B,       \* the two ends
  Servers,    \* the ends driven by a CNetServer; the others by a CNetClient
  N,          \* NET_MAX_SEQUENCE
  BufSure,    \* chunks of any size that the resend buffer has room for
  BufCap,     \* chunks it can hold at most (NET_CONN_BUFFERSIZE bytes)
  PktCap,     \* chunks that fit in a packet (NET_MAX_PAYLOAD)
  ChunkMod,   \* the values of the byte that carries num_chunks (256)
  MaxLead,    \* environment: unacknowledged vital chunks of an end, at most
  MaxSend,    \* bound: vital chunks each end queues
  MaxNet,     \* bound: packets of an end in flight
  MaxClose    \* bound: ends that disconnect, expire or are closed

Peers == {A, B}
Other(p) == IF p = A THEN B ELSE A

ASSUME PeersAssumption == A # B /\ Servers \subseteq Peers
ASSUME WindowAssumption ==
  /\ N \in Nat /\ N % 2 = 0 /\ N > 2
  /\ MaxLead \in Nat \ {0} /\ 2 * MaxLead < N
ASSUME CapacityAssumption ==
  /\ BufSure \in Nat /\ BufCap \in Nat /\ PktCap \in Nat \ {0} /\ ChunkMod \in Nat \ {0}
  /\ MaxSend \in [Peers -> Nat] /\ MaxNet \in [Peers -> Nat]
  /\ MaxClose \in Nat

VARIABLES
  state,         \* m_State
  seq,           \* m_Sequence: the last sequence number given to a chunk
  ack,           \* m_Ack: the last sequence number taken in order
  peerAck,       \* m_PeerAck: the last acknowledgement accepted
  remoteClosed,  \* m_RemoteClosed
  buffer,        \* m_Buffer: the chunks kept for a resend, oldest first
  construct,     \* m_Construct: chunks and resend flag of the next packet
  inbox,         \* chunks of the packet in m_RecvUnpacker not yet fetched
  net,           \* packets in flight
  sent,          \* history: vital chunks queued
  delivered,     \* history: chunks handed up while the connection was open
  acked,         \* history: chunk number that peerAck stands for
  unkept,        \* history: later chunks that found no room in the resend buffer
  life           \* history: "new", "open" or "closed"

connVars == <<state, seq, ack, peerAck, remoteClosed, buffer, construct>>
history  == <<sent, delivered, acked, unkept, life>>
vars     == <<connVars, inbox, net, history>>

States   == {"OFFLINE", "CONNECT", "PENDING", "ONLINE", "ERROR"}
Controls == {"KEEPALIVE", "CONNECT", "CONNECTACCEPT", "ACCEPT", "CLOSE"}

\* A chunk carries its sequence number; idx says which chunk it really is.
Chunk  == [seq : 0 .. N - 1, idx : Nat \ {0}]
\* acked says which acknowledgement the wire number ack really is.
Packet == [src : Peers, ctl : Controls \cup {"none"}, resend : BOOLEAN,
           ack : 0 .. N - 1, acked : Nat, chunks : Seq(Chunk)]
EmptyConstruct == [chunks |-> <<>>, resend |-> FALSE]

Init ==
  /\ state = [p \in Peers |-> "OFFLINE"]
  /\ seq = [p \in Peers |-> 0]
  /\ ack = [p \in Peers |-> 0]
  /\ peerAck = [p \in Peers |-> 0]
  /\ remoteClosed = [p \in Peers |-> FALSE]
  /\ buffer = [p \in Peers |-> <<>>]
  /\ construct = [p \in Peers |-> EmptyConstruct]
  /\ inbox = [p \in Peers |-> <<>>]
  /\ net = {}
  /\ sent = [p \in Peers |-> 0]
  /\ delivered = [p \in Peers |-> <<>>]
  /\ acked = [p \in Peers |-> 0]
  /\ unkept = [p \in Peers |-> {}]
  /\ life = [p \in Peers |-> "new"]

-----------------------------------------------------------------------------
(* Sequence arithmetic.                                                    *)

NextSeqUnwrapped(s) == s + 1   \* mutant of NextSeq: the numbers never wrap

\* The sequence number after s.
NextSeq(s) == (s + 1) % N

\* Mutant of IsSeqInBackroom: the wrap is forgotten.
BackroomUnwrapped(s, a) == s <= a

\* CNetBase::IsSeqInBackroom: a sequence number the receiver already has.
IsSeqInBackroom(s, a) ==
  LET bottom == a - N \div 2
  IN  IF bottom < 0 THEN s <= a \/ s >= bottom + N
                    ELSE s <= a /\ s >= bottom

\* Mutant of AckInWindow: an acknowledgement may go back.
AckBelowSequence(s, pa, a) ==
  IF s >= pa THEN a <= s ELSE a >= pa \/ a <= s

\* The test Feed makes of a packet's acknowledgement a: own sequence s,
\* latest acknowledgement pa.
AckInWindow(s, pa, a) ==
  IF s >= pa THEN a >= pa /\ a <= s ELSE a >= pa \/ a <= s

-----------------------------------------------------------------------------
(* Sending.                                                                *)

DataPacket(p, chunks, resend) ==
  [src |-> p, ctl |-> "none", resend |-> resend, ack |-> ack[p],
   acked |-> Len(delivered[p]), chunks |-> chunks]

ControlPacket(p, ctl) ==
  [src |-> p, ctl |-> ctl, resend |-> FALSE, ack |-> ack[p],
   acked |-> Len(delivered[p]), chunks |-> <<>>]

\* QueueChunkEx of the chunks cs, one after the other: a chunk that does not
\* fit any more has the packet flushed first.  Flushed are the full packets
\* of the chunks already under construction followed by cs.
Stream(p, cs) == construct[p].chunks \o cs
Cuts(n) == IF n = 0 THEN 0 ELSE (n - 1) \div PktCap
FlushedBy(p, cs) ==
  {DataPacket(p, SubSeq(Stream(p, cs), (i - 1) * PktCap + 1, i * PktCap),
              construct[p].resend /\ i = 1) :
      i \in 1 .. Cuts(Len(Stream(p, cs)))}
ConstructAfter(p, cs) ==
  LET k == Cuts(Len(Stream(p, cs)))
  IN  [chunks |-> SubSeq(Stream(p, cs), k * PktCap + 1, Len(Stream(p, cs))),
       resend |-> construct[p].resend /\ k = 0]

\* Flush: nothing is sent when there is neither a chunk nor a flag.
FlushOf(p, c) ==
  IF c = EmptyConstruct THEN {} ELSE {DataPacket(p, c.chunks, c.resend)}

\* net_udp_send of the packets ps, once old has left the network.
Transmit(ps, old) ==
  /\ net' = (net \ old) \cup ps
  /\ \A p \in Peers : Cardinality({m \in net' : m.src = p}) <= MaxNet[p]

-----------------------------------------------------------------------------
(* Opening and closing.                                                    *)

\* A new incarnation: Reset, then the state it starts in.  What the unpacker
\* still holds stays there.
Open(p, st) ==
  /\ state[p] = "OFFLINE" /\ life[p] = "new"
  /\ state' = [state EXCEPT ![p] = st]
  /\ life' = [life EXCEPT ![p] = "open"]
  /\ seq' = [seq EXCEPT ![p] = 0]
  /\ ack' = [ack EXCEPT ![p] = 0]
  /\ peerAck' = [peerAck EXCEPT ![p] = 0]
  /\ remoteClosed' = [remoteClosed EXCEPT ![p] = FALSE]
  /\ buffer' = [buffer EXCEPT ![p] = <<>>]
  /\ construct' = [construct EXCEPT ![p] = EmptyConstruct]
  /\ UNCHANGED <<inbox, sent, delivered, acked, unkept>>

\* A control packet sent right after the Reset.
FirstPacket(p, ctl) == [ControlPacket(p, ctl) EXCEPT !.ack = 0, !.acked = 0]

\* CNetConnection::Connect, called through CNetClient::Connect.
Connect(p) ==
  /\ p \notin Servers
  /\ Open(p, "CONNECT")
  /\ Transmit({FirstPacket(p, "CONNECT")}, {})

\* CNetServer::OnPreConnMsg, which answers before TryAcceptClient has the
\* slot's connection initialised by DirectInit.
Accept(p) ==
  /\ p \in Servers
  /\ \E m \in net : m.src = Other(p) /\ m.ctl = "CONNECT"
  /\ Open(p, "ONLINE")
  /\ Transmit({FirstPacket(p, "CONNECTACCEPT")}, {})

\* CNetConnection::Reset at the end of an incarnation.
Reset(p) ==
  /\ state' = [state EXCEPT ![p] = "OFFLINE"]
  /\ seq' = [seq EXCEPT ![p] = 0]
  /\ ack' = [ack EXCEPT ![p] = 0]
  /\ peerAck' = [peerAck EXCEPT ![p] = 0]
  /\ remoteClosed' = [remoteClosed EXCEPT ![p] = FALSE]
  /\ buffer' = [buffer EXCEPT ![p] = <<>>]
  /\ construct' = [construct EXCEPT ![p] = EmptyConstruct]
  /\ life' = [life EXCEPT ![p] = "closed"]
  /\ UNCHANGED <<inbox, sent, delivered, acked, unkept>>

\* Bound: another end may still go down.
MayClose(p) == Cardinality({q \in Peers : life[q] = "closed" /\ q # p}) < MaxClose

\* The CLOSE of Disconnect, not sent to an end that has closed itself.
CloseOf(p) == IF remoteClosed[p] THEN {} ELSE {ControlPacket(p, "CLOSE")}

Disconnect(p) ==
  /\ state[p] # "OFFLINE" /\ MayClose(p)
  /\ Reset(p)
  /\ Transmit(CloseOf(p), {})

-----------------------------------------------------------------------------
(* The application sends.                                                  *)

\* CNetServer::Send and CNetClient::Send of a vital chunk, QueueChunk and
\* the Flush that NETSENDFLAG_FLUSH asks for.  Whether the resend buffer has
\* room for it depends on the chunks' sizes.  A chunk that finds none goes out
\* without being kept, and the server then skips Flush.
Send(p, flush, kept) ==
  LET next == NextSeq(seq[p])
      c    == [seq |-> next, idx |-> sent[p] + 1]
      rest == ConstructAfter(p, <<c>>)
      now  == flush /\ (kept \/ p \notin Servers)
  IN
  /\ state[p] \in {"ONLINE", "ERROR"} /\ life[p] = "open"
  /\ sent[p] - acked[p] < MaxLead /\ sent[p] < MaxSend[p]
  /\ Len(buffer[p]) < BufSure => kept
  /\ kept => Len(buffer[p]) < BufCap
  /\ seq' = [seq EXCEPT ![p] = next]
  /\ sent' = [sent EXCEPT ![p] = @ + 1]
  /\ buffer' = IF kept THEN [buffer EXCEPT ![p] = Append(@, c)] ELSE buffer
  /\ unkept' = IF kept THEN unkept ELSE [unkept EXCEPT ![p] = @ \cup {c.idx}]
  /\ construct' = [construct EXCEPT ![p] = IF now THEN EmptyConstruct ELSE rest]
  /\ Transmit(FlushedBy(p, <<c>>) \cup (IF now THEN FlushOf(p, rest) ELSE {}), {})
  /\ UNCHANGED <<state, ack, peerAck, remoteClosed, inbox, delivered, acked, life>>

\* CNetClient::Flush.
Flush(p) ==
  /\ p \notin Servers /\ life[p] = "open"
  /\ construct[p] # EmptyConstruct
  /\ construct' = [construct EXCEPT ![p] = EmptyConstruct]
  /\ Transmit(FlushOf(p, construct[p]), {})
  /\ UNCHANGED <<state, seq, ack, peerAck, remoteClosed, buffer, inbox, history>>

-----------------------------------------------------------------------------
(* Receiving.                                                              *)

\* Environment: a packet does not outlive the sequence space.  What it
\* acknowledges is less than N chunks old, and its chunks less than
\* N - MaxLead chunks older than the next one due.
Fresh(p, m) ==
  /\ sent[p] - m.acked < N
  /\ \A i \in DOMAIN m.chunks :
       m.chunks[i].idx + N > Len(delivered[p]) + 1 + MaxLead

\* CNetServer::Recv feeds a packet only to a slot GetClientSlot finds, that
\* is neither offline nor in error; CNetClient::Recv feeds in any state.
\* Either takes a packet once the chunks of the previous one are fetched.
\* The network keeps or forgets what it hands over (old).
Receives(p, m, old) ==
  /\ m \in net /\ m.src = Other(p)
  /\ inbox[p] = <<>>
  /\ p \in Servers => state[p] \notin {"OFFLINE", "ERROR"}
  /\ Fresh(p, m)

\* AckChunks: the acknowledged prefix leaves the resend buffer.
AckChunks(p, a) ==
  \E j \in 0 .. Len(buffer[p]) :
    /\ \A i \in 1 .. j : IsSeqInBackroom(buffer[p][i].seq, a)
    /\ j < Len(buffer[p]) => ~IsSeqInBackroom(buffer[p][j + 1].seq, a)
    /\ buffer' = [buffer EXCEPT ![p] = SubSeq(@, j + 1, Len(@))]

\* Feed drops a packet whose acknowledgement it cannot have earned.
FeedIgnored(p, m, old) ==
  /\ Receives(p, m, old)
  /\ ~AckInWindow(seq[p], peerAck[p], m.ack)
  /\ Transmit({}, old)
  /\ UNCHANGED <<connVars, inbox, history>>

\* The common start of the other branches of Feed.
FeedAck(p, m, old) ==
  /\ Receives(p, m, old)
  /\ AckInWindow(seq[p], peerAck[p], m.ack)
  /\ peerAck' = [peerAck EXCEPT ![p] = m.ack]
  /\ IF life[p] = "open"
     THEN /\ acked' = [acked EXCEPT ![p] = m.acked]
          /\ unkept' = [unkept EXCEPT ![p] = {i \in @ : i > m.acked}]
     ELSE UNCHANGED <<acked, unkept>>

\* CLOSE counts only from the address this connection was opened with.
FeedClose(p, m, old) ==
  /\ FeedAck(p, m, old)
  /\ m.ctl = "CLOSE"
  /\ IF life[p] = "new" THEN UNCHANGED <<state, remoteClosed>>
     ELSE /\ state' = [state EXCEPT ![p] = "ERROR"]
          /\ remoteClosed' = [remoteClosed EXCEPT ![p] = TRUE]
  /\ Transmit({}, old)
  /\ UNCHANGED <<seq, ack, buffer, construct, inbox, sent, delivered, life>>

\* A CNetClient that is offline answers CONNECT and waits in PENDING.
FeedConnect(p, m, old) ==
  /\ Receives(p, m, old)
  /\ AckInWindow(seq[p], peerAck[p], m.ack)
  /\ m.ctl = "CONNECT"
  /\ Open(p, "PENDING")
  /\ Transmit({FirstPacket(p, "CONNECTACCEPT")}, old)

\* CONNECTACCEPT ends the handshake of the end that asked.
FeedConnectAccept(p, m, old) ==
  /\ FeedAck(p, m, old)
  /\ m.ctl = "CONNECTACCEPT" /\ state[p] = "CONNECT"
  /\ state' = [state EXCEPT ![p] = "ONLINE"]
  /\ AckChunks(p, m.ack)
  /\ Transmit({ControlPacket(p, "ACCEPT")}, old)
  /\ UNCHANGED <<seq, ack, remoteClosed, construct, inbox, sent, delivered, life>>

\* Every other control message is an acknowledgement and a sign of life.
FeedControl(p, m, old) ==
  /\ FeedAck(p, m, old)
  /\ m.ctl \in Controls \ {"CLOSE"}
  /\ ~(m.ctl = "CONNECT" /\ state[p] = "OFFLINE")
  /\ ~(m.ctl = "CONNECTACCEPT" /\ state[p] = "CONNECT")
  /\ IF state[p] = "ONLINE" THEN AckChunks(p, m.ack) ELSE UNCHANGED buffer
  /\ Transmit({}, old)
  /\ UNCHANGED <<state, seq, ack, remoteClosed, construct, inbox, sent, delivered, life>>

\* A packet of chunks: a requested resend queues the whole buffer before the
\* acknowledgement empties it, and num_chunks has lost its high bits.
FeedData(p, m, old) ==
  LET again == IF m.resend THEN buffer[p] ELSE <<>>
      next  == IF state[p] = "PENDING" THEN "ONLINE" ELSE state[p]
  IN
  /\ FeedAck(p, m, old)
  /\ m.ctl = "none"
  /\ construct' = [construct EXCEPT ![p] = ConstructAfter(p, again)]
  /\ state' = [state EXCEPT ![p] = next]
  /\ IF next = "ONLINE" THEN AckChunks(p, m.ack) ELSE UNCHANGED buffer
  /\ inbox' = [inbox EXCEPT ![p] = SubSeq(m.chunks, 1, Len(m.chunks) % ChunkMod)]
  /\ Transmit(FlushedBy(p, again), old)
  /\ UNCHANGED <<seq, ack, remoteClosed, sent, delivered, life>>

Feed(p, m, old) ==
  \/ FeedIgnored(p, m, old) \/ FeedClose(p, m, old) \/ FeedConnect(p, m, old)
  \/ FeedConnectAccept(p, m, old) \/ FeedControl(p, m, old) \/ FeedData(p, m, old)

\* Mutant of InSequence: everything new is taken.
NotTakenYet(p, s) == ~IsSeqInBackroom(s, ack[p])

\* The chunk is the one due.
InSequence(p, s) == s = NextSeq(ack[p])

\* CNetRecvUnpacker::FetchChunk on the next chunk of the packet: it is the
\* one due, or one already taken, or one that calls for a resend.  It looks
\* at no connection state, so it also runs after a Disconnect.
FetchChunk(p) ==
  LET c == Head(inbox[p]) IN
  /\ inbox[p] # <<>>
  /\ inbox' = [inbox EXCEPT ![p] = Tail(@)]
  /\ IF InSequence(p, c.seq)
     THEN /\ ack' = [ack EXCEPT ![p] = NextSeq(@)]
          /\ delivered' = IF life[p] = "open"
                          THEN [delivered EXCEPT ![p] = Append(@, c.idx)]
                          ELSE delivered
          /\ UNCHANGED construct
     ELSE /\ construct' = [construct EXCEPT ![p].resend =
                             @ \/ ~IsSeqInBackroom(c.seq, ack[p])]
          /\ UNCHANGED <<ack, delivered>>
  /\ UNCHANGED <<state, seq, peerAck, remoteClosed, buffer, net, sent, acked, unkept, life>>

-----------------------------------------------------------------------------
(* Time.                                                                   *)

\* Mutant of ResendHead: the newest chunk kept is resent.
ResendLast(p, due) == IF due THEN <<buffer[p][Len(buffer[p])]>> ELSE <<>>

\* The chunk Update resends: the oldest one kept, no other.
ResendHead(p, due) == IF due THEN <<Head(buffer[p])>> ELSE <<>>

\* Update while nothing has expired for good.  due: the oldest kept chunk was
\* last sent over a second ago.  idle: how long ago the last packet was sent,
\* "half" over half a second and "full" over a second, "recent" if the
\* resend itself has just flushed one.
Update(p, due, idle) ==
  LET flushed == FlushedBy(p, ResendHead(p, due))
      rest    == ConstructAfter(p, ResendHead(p, due))
      last    == CASE state[p] = "ONLINE" /\ idle # "recent" /\ rest # EmptyConstruct
                        -> FlushOf(p, rest)
                   [] state[p] = "ONLINE" /\ idle = "full" /\ rest = EmptyConstruct
                        -> {ControlPacket(p, "KEEPALIVE")}
                   [] state[p] = "CONNECT" /\ idle # "recent"
                        -> {ControlPacket(p, "CONNECT")}
                   [] state[p] = "PENDING" /\ idle # "recent"
                        -> {ControlPacket(p, "CONNECTACCEPT")}
                   [] OTHER -> {}
  IN
  /\ state[p] \notin {"OFFLINE", "ERROR"} /\ inbox[p] = <<>>
  /\ due => buffer[p] # <<>>
  /\ flushed # {} => idle = "recent"
  /\ construct' = [construct EXCEPT ![p] =
                     IF state[p] = "ONLINE" /\ idle # "recent" THEN EmptyConstruct ELSE rest]
  /\ Transmit(flushed \cup last, {})
  /\ UNCHANGED <<state, seq, ack, peerAck, remoteClosed, buffer, inbox, history>>

\* Mutant of CanExpire: only an unacknowledged chunk ends a connection.
OnlyTooWeak(p) == state[p] \notin {"OFFLINE", "CONNECT", "ERROR"} /\ buffer[p] # <<>>

\* Silence counts in every live state but CONNECT, which keeps no chunk either.
CanExpire(p) == state[p] \notin {"OFFLINE", "CONNECT", "ERROR"}

\* Update when the peer has been silent for ten seconds (a chunk may still be
\* resent), or when a chunk went ten seconds unacknowledged.  The owner's
\* Update then disconnects; only a CNetServer that bans the address instead
\* leaves the slot in error until its next round.
Expire(p, due, banned) ==
  LET flushed == FlushedBy(p, ResendHead(p, due)) IN
  /\ CanExpire(p) /\ inbox[p] = <<>>
  /\ MayClose(p)
  /\ due => buffer[p] # <<>>
  /\ banned => p \in Servers
  /\ IF banned
     THEN /\ state' = [state EXCEPT ![p] = "ERROR"]
          /\ construct' = [construct EXCEPT ![p] = ConstructAfter(p, ResendHead(p, due))]
          /\ UNCHANGED <<seq, ack, peerAck, remoteClosed, buffer, inbox, history>>
          /\ Transmit(flushed, {})
     ELSE /\ Reset(p)
          /\ Transmit(flushed \cup CloseOf(p), {})

\* The network loses a packet; before the receiver would take one, it makes
\* no difference when.
Lose(m) == /\ inbox[Other(m.src)] = <<>>
           /\ net' = net \ {m}
           /\ UNCHANGED <<connVars, inbox, history>>

-----------------------------------------------------------------------------
Next ==
  \/ \E p \in Peers :
       \/ Connect(p) \/ Accept(p) \/ Disconnect(p) \/ Flush(p) \/ FetchChunk(p)
       \/ \E flush, kept \in BOOLEAN : Send(p, flush, kept)
       \/ \E m \in net : \E old \in {{}, {m}} : Feed(p, m, old)
       \/ \E due \in BOOLEAN, idle \in {"recent", "half", "full"} : Update(p, due, idle)
       \/ \E due, banned \in BOOLEAN : Expire(p, due, banned)
  \/ \E m \in net : Lose(m)

Spec == Init /\ [][Next]_vars

\* Fairness.  The owner keeps calling Update, so a timer that has expired is
\* acted on; a full network (MaxNet) can only delay it, as packets leave the
\* network in the end.  A packet sent again and again gets through: the one
\* with the chunk due at p, the one with the latest acknowledgement, the one
\* that answers a handshake.
Useful(p, m) ==
  \/ m.acked = Len(delivered[Other(p)]) /\ m.acked > acked[p]
  \/ m.ctl = "CONNECTACCEPT" /\ state[p] = "CONNECT"
  \/ \E i \in DOMAIN m.chunks : m.chunks[i].idx = Len(delivered[p]) + 1
TransportFairness ==
  \A p \in Peers :
    /\ WF_vars(FetchChunk(p))
    /\ SF_vars(\E idle \in {"recent", "half", "full"} : Update(p, TRUE, idle))
    /\ SF_vars(Update(p, FALSE, "full"))
    /\ SF_vars(\E m \in net : Useful(p, m) /\ Feed(p, m, {m}))
    /\ SF_vars(\E m \in net : m.src = p /\ Lose(m))
FairSpec == Spec /\ TransportFairness

\* An end whose peer is gone for good hears nothing for ten seconds, and
\* Update of CNetClient and CNetServer drops an end that is in error.
Silent(p) == life[Other(p)] = "closed" /\ \A m \in net : m.src # Other(p)
ClosingFairness ==
  \A p \in Peers :
    /\ WF_vars(FetchChunk(p))
    /\ SF_vars(\E m \in net : m.src = p /\ Lose(m))
    /\ SF_vars(Silent(p) /\ Expire(p, FALSE, FALSE))
    /\ SF_vars(state[p] = "ERROR" /\ Disconnect(p))
ClosingSpec == Spec /\ ClosingFairness

-----------------------------------------------------------------------------
(* Properties.                                                             *)

\* Every variable keeps its type; sequence numbers stay below N, the resend
\* buffer within its capacity.
TypeOK ==
  /\ state \in [Peers -> States]
  /\ seq \in [Peers -> 0 .. N - 1]
  /\ ack \in [Peers -> 0 .. N - 1]
  /\ peerAck \in [Peers -> 0 .. N - 1]
  /\ remoteClosed \in [Peers -> BOOLEAN]
  /\ buffer \in [Peers -> Seq(Chunk)]
  /\ construct \in [Peers -> [chunks : Seq(Chunk), resend : BOOLEAN]]
  /\ inbox \in [Peers -> Seq(Chunk)]
  /\ net \in SUBSET Packet
  /\ sent \in [Peers -> Nat]
  /\ delivered \in [Peers -> Seq(Nat \ {0})]
  /\ acked \in [Peers -> Nat]
  /\ unkept \in [Peers -> SUBSET Nat]
  /\ life \in [Peers -> {"new", "open", "closed"}]
  /\ \A p \in Peers : Len(buffer[p]) <= BufCap

\* FetchChunk's sequence filter hands up the chunks of an open connection
\* once each and in the order they were queued, whatever the network loses,
\* duplicates or reorders and however often the numbers wrap.
InOrder ==
  \A p \in Peers : \A i \in DOMAIN delivered[p] : delivered[p][i] = i

\* AckChunks discards no chunk the peer still lacks: while the sender is
\* online, every chunk queued and not yet taken by the peer is kept for a
\* resend, but for those that found no room in the resend buffer themselves.
UndeliveredKept ==
  \A p \in Peers : state[p] = "ONLINE" =>
    Len(delivered[Other(p)]) + 1 .. sent[p]
      \subseteq {buffer[p][i].idx : i \in DOMAIN buffer[p]} \cup unkept[p]

\* The pair of connections is a reliable stream in either direction.
Abstract == INSTANCE ReliableStream
StreamSpec == Abstract!Spec

\* Head-of-line resends, resend requests and keepalives together get every
\* queued vital chunk to the peer, unless an end goes down.
EventuallyDelivered ==
  \A p \in Peers : \A i \in 1 .. MaxSend[p] :
    sent[p] >= i ~> \/ Len(delivered[Other(p)]) >= i
                    \/ \E q \in Peers : state[q] \in {"OFFLINE", "ERROR"}

\* No half-open connection: once an end is gone, the other one leaves too,
\* even when the CLOSE is lost.  An end still in CONNECT asks for ever.
NoHalfOpen ==
  \A p \in Peers :
    life[p] = "closed" ~> life[Other(p)] # "open" \/ state[Other(p)] = "CONNECT"
=============================================================================
