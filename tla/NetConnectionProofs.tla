------------------------ MODULE NetConnectionProofs -------------------------
(***************************************************************************)
(* Proofs about NetConnection for every sequence space N, every buffer and *)
(* packet capacity and every number of chunks sent.                        *)
(***************************************************************************)
EXTENDS NetConnection, SequenceTheorems, TLAPS

-----------------------------------------------------------------------------
(* Sequence arithmetic.                                                    *)

\* Division with remainder by the size of the sequence space.
LEMMA DivMod ==
  ASSUME NEW i \in Nat
  PROVE  /\ i % N \in 0 .. N - 1 /\ i \div N \in Nat
         /\ i = N * (i \div N) + (i % N)
BY WindowAssumption

\* Two numbers less than N apart: their wire forms are as far apart, up to
\* one wrap.
LEMMA Distance ==
  ASSUME NEW i \in Nat, NEW j \in Nat, i <= j, j - i < N
  PROVE  j % N = (i % N) + (j - i) \/ j % N = ((i % N) + (j - i)) - N
<1> DEFINE q == i \div N
           r == j \div N
           d == r - q
<1>1. /\ i = N * q + (i % N) /\ j = N * r + (j % N)
      /\ q \in Nat /\ r \in Nat /\ i % N \in 0 .. N - 1 /\ j % N \in 0 .. N - 1
  BY DivMod
<1>2. j - i = N * d + (j % N) - (i % N)
  BY <1>1, WindowAssumption
<1>3. ASSUME d < 0 PROVE FALSE
  <2>1. N * d <= -N
    BY <1>3, <1>1, WindowAssumption
  <2> QED BY <2>1, <1>1, <1>2, WindowAssumption
<1>4. ASSUME d > 1 PROVE FALSE
  <2>1. N * d >= 2 * N
    BY <1>4, <1>1, WindowAssumption
  <2> QED BY <2>1, <1>1, <1>2, WindowAssumption
<1>5. d = 0 \/ d = 1
  BY <1>3, <1>4, <1>1
<1> QED BY <1>5, <1>2, <1>1, WindowAssumption

\* The wire form tells apart numbers less than N apart.
LEMMA WireInjective ==
  ASSUME NEW i \in Nat, NEW j \in Nat, i - j < N, j - i < N, i % N = j % N
  PROVE  i = j
<1>1. CASE i <= j
  <2>1. j % N = (i % N) + (j - i) \/ j % N = ((i % N) + (j - i)) - N
    BY <1>1, Distance
  <2> QED BY <2>1, <1>1, DivMod, WindowAssumption
<1>2. CASE j <= i
  <2>1. i % N = (j % N) + (i - j) \/ i % N = ((j % N) + (i - j)) - N
    BY <1>2, Distance
  <2> QED BY <2>1, <1>2, DivMod, WindowAssumption
<1> QED BY <1>1, <1>2

\* Counting on the wire is counting.
LEMMA NextWire ==
  ASSUME NEW i \in Nat
  PROVE  NextSeq(i % N) = (i + 1) % N
<1>1. i % N \in 0 .. N - 1 /\ (i + 1) % N \in 0 .. N - 1
  BY DivMod
<1>2. (i + 1) % N = (i % N) + 1 \/ (i + 1) % N = ((i % N) + 1) - N
  <2> DEFINE j == i + 1
  <2>1. j \in Nat /\ i <= j /\ j - i = 1 /\ j - i < N
    BY WindowAssumption
  <2>2. j % N = (i % N) + (j - i) \/ j % N = ((i % N) + (j - i)) - N
    <3> HIDE DEF j
    <3> QED BY <2>1, Distance
  <2> QED BY <2>1, <2>2
<1>3. CASE (i % N) + 1 < N
  BY <1>1, <1>2, <1>3, WindowAssumption DEF NextSeq
<1>4. CASE (i % N) + 1 = N
  BY <1>1, <1>2, <1>4, WindowAssumption DEF NextSeq
<1> QED BY <1>1, <1>3, <1>4, WindowAssumption

LEMMA NextSeqType ==
  ASSUME NEW s \in 0 .. N - 1
  PROVE  NextSeq(s) \in 0 .. N - 1
BY WindowAssumption DEF NextSeq

\* The backroom test decides the order of numbers less than half the
\* sequence space apart.
LEMMA BackroomOrders ==
  ASSUME NEW i \in Nat, NEW a \in Nat, 2 * (i - a) < N, 2 * (a - i) < N
  PROVE  IsSeqInBackroom(i % N, a % N) <=> i <= a
<1>1. N = 2 * (N \div 2) /\ N \div 2 \in Nat /\ N \in Nat
  BY WindowAssumption
<1>2. i % N \in 0 .. N - 1 /\ a % N \in 0 .. N - 1
  BY DivMod
<1>3. CASE i <= a
  <2>0. a - i < N
    BY <1>1, <1>3
  <2>1. a % N = (i % N) + (a - i) \/ a % N = ((i % N) + (a - i)) - N
    BY <2>0, <1>3, Distance
  <2> QED BY <1>1, <1>2, <1>3, <2>1 DEF IsSeqInBackroom
<1>4. CASE a < i
  <2>0. i - a < N
    BY <1>1, <1>4
  <2>1. i % N = (a % N) + (i - a) \/ i % N = ((a % N) + (i - a)) - N
    BY <2>0, <1>4, Distance
  <2> QED BY <1>1, <1>2, <1>4, <2>1 DEF IsSeqInBackroom
<1> QED BY <1>3, <1>4

\* Feed's window test refuses an acknowledgement older than the latest one.
LEMMA WindowOrders ==
  ASSUME NEW s \in Nat, NEW pa \in Nat, NEW a \in Nat,
         pa <= s, s - pa < N, a <= s, s - a < N,
         AckInWindow(s % N, pa % N, a % N)
  PROVE  pa <= a
<1>1. s % N \in 0 .. N - 1 /\ pa % N \in 0 .. N - 1 /\ a % N \in 0 .. N - 1
  BY DivMod
<1>2. s % N = (pa % N) + (s - pa) \/ s % N = ((pa % N) + (s - pa)) - N
  BY Distance
<1>3. s % N = (a % N) + (s - a) \/ s % N = ((a % N) + (s - a)) - N
  BY Distance
<1> QED BY <1>1, <1>2, <1>3, WindowAssumption DEF AckInWindow

\* Packets are cut out of the chunks there are.
LEMMA CutsBound ==
  ASSUME NEW n \in Nat
  PROVE  /\ Cuts(n) \in Nat /\ Cuts(n) * PktCap <= n /\ Cuts(n) * PktCap \in Nat
         /\ \A i \in 1 .. Cuts(n) : i * PktCap \in Nat /\ i * PktCap <= n
                                    /\ (i - 1) * PktCap \in Nat
<1> PktCap \in Nat \ {0}  BY CapacityAssumption
<1> DEFINE k == Cuts(n)
<1>1. k \in Nat /\ k * PktCap <= n /\ k * PktCap \in Nat
  <2>1. CASE n = 0  BY <2>1 DEF Cuts
  <2>2. CASE n > 0
    <3>1. k = (n - 1) \div PktCap  BY <2>2 DEF Cuts
    <3>2. n - 1 = PktCap * ((n - 1) \div PktCap) + ((n - 1) % PktCap)
      BY <2>2
    <3>3. (n - 1) % PktCap \in 0 .. PktCap - 1 /\ (n - 1) \div PktCap \in Nat
      BY <2>2
    <3> QED BY <3>1, <3>2, <3>3
  <2> QED BY <2>1, <2>2
<1>2. ASSUME NEW i \in 1 .. k
      PROVE i * PktCap \in Nat /\ i * PktCap <= n /\ (i - 1) * PktCap \in Nat
  <2> HIDE DEF k
  <2>1. i * PktCap <= k * PktCap  BY <1>1, <1>2
  <2> QED BY <2>1, <1>1, <1>2
<1> QED BY <1>1, <1>2

-----------------------------------------------------------------------------
(* What the sending helpers return.                                        *)

LEMMA Ends ==
  ASSUME NEW p \in Peers
  PROVE  Other(p) \in Peers /\ Other(p) # p /\ Other(Other(p)) = p
         /\ \A q \in Peers : q = p \/ q = Other(p)
BY PeersAssumption DEF Peers, Other

\* The packets flushed while chunks are appended, and the packet left under
\* construction, hold nothing but those chunks.
LEMMA AppendChunks ==
  ASSUME NEW p \in Peers, NEW S, NEW cs \in Seq(S),
         construct[p].chunks \in Seq(S), construct[p].resend \in BOOLEAN
  PROVE  /\ ConstructAfter(p, cs) \in [chunks : Seq(S), resend : BOOLEAN]
         /\ \A m \in FlushedBy(p, cs) :
              \E chunks \in Seq(S), r \in BOOLEAN : m = DataPacket(p, chunks, r)
         /\ construct[p].chunks = <<>> /\ cs = <<>> =>
              FlushedBy(p, cs) = {} /\ ConstructAfter(p, cs).chunks = <<>>
<1> DEFINE st == Stream(p, cs)
           n == Len(st)
           k == Cuts(n)
<1>1. st \in Seq(S) /\ n \in Nat /\ \A i \in 1 .. n : st[i] \in S
  BY ConcatProperties, LenProperties, ElementOfSeq DEF Stream
<1>2. /\ k \in Nat /\ k * PktCap <= n /\ k * PktCap \in Nat
      /\ \A i \in 1 .. k : i * PktCap \in Nat /\ i * PktCap <= n
                           /\ (i - 1) * PktCap \in Nat
  <2> HIDE DEF n
  <2> QED BY <1>1, CutsBound
<1>3. SubSeq(st, k * PktCap + 1, n) \in Seq(S)
  <2>1. \A i \in k * PktCap + 1 .. n : st[i] \in S
    BY <1>1, <1>2
  <2> QED BY <2>1, <1>1, <1>2, SubSeqProperties
<1>4. ConstructAfter(p, cs) \in [chunks : Seq(S), resend : BOOLEAN]
  BY <1>3 DEF ConstructAfter
<1>5. ASSUME NEW m \in FlushedBy(p, cs)
      PROVE  \E chunks \in Seq(S), r \in BOOLEAN : m = DataPacket(p, chunks, r)
  <2>1. PICK i \in 1 .. k :
          m = DataPacket(p, SubSeq(st, (i - 1) * PktCap + 1, i * PktCap),
                         construct[p].resend /\ i = 1)
    BY <1>5 DEF FlushedBy
  <2>2. \A x \in (i - 1) * PktCap + 1 .. i * PktCap : st[x] \in S
    BY <1>1, <1>2
  <2>3. SubSeq(st, (i - 1) * PktCap + 1, i * PktCap) \in Seq(S)
    BY <2>2, <1>2, SubSeqProperties
  <2> QED BY <2>1, <2>3
<1>6. ASSUME construct[p].chunks = <<>>, cs = <<>>
      PROVE  FlushedBy(p, cs) = {} /\ ConstructAfter(p, cs).chunks = <<>>
  <2>1. st = <<>> /\ n = 0
    BY <1>6, ConcatEmptySeq, EmptySeq DEF Stream
  <2>2. k = 0
    BY <2>1 DEF Cuts
  <2>3. ConstructAfter(p, cs).chunks = SubSeq(st, 0 * PktCap + 1, n)
    BY <2>2 DEF ConstructAfter
  <2>4. SubSeq(st, 0 * PktCap + 1, n) = <<>>
    BY <2>1, CapacityAssumption, SubSeqEmpty
  <2> QED BY <2>2, <2>3, <2>4 DEF FlushedBy
<1> QED BY <1>4, <1>5, <1>6

\* The packets of end p, as the current state makes them, are packets.
LEMMA PacketTypes ==
  ASSUME TypeOK, NEW p \in Peers
  PROVE  /\ \A chunks \in Seq(Chunk), r \in BOOLEAN : DataPacket(p, chunks, r) \in Packet
         /\ \A ctl \in Controls : ControlPacket(p, ctl) \in Packet
         /\ \A ctl \in Controls : FirstPacket(p, ctl) \in Packet
<1>1. ack[p] \in 0 .. N - 1 /\ Len(delivered[p]) \in Nat /\ 0 \in 0 .. N - 1
  BY LenProperties, WindowAssumption DEF TypeOK
<1>2. <<>> \in Seq(Chunk)
  BY EmptySeq
<1>3. \A ctl \in Controls : ControlPacket(p, ctl) \in Packet
  BY <1>1, <1>2 DEF ControlPacket, Packet
<1>4. \A chunks \in Seq(Chunk), r \in BOOLEAN : DataPacket(p, chunks, r) \in Packet
  BY <1>1 DEF DataPacket, Packet
<1>5. \A ctl \in Controls : FirstPacket(p, ctl) \in Packet
  BY <1>1, <1>3 DEF FirstPacket, Packet
<1> QED BY <1>3, <1>4, <1>5

\* What is flushed from a construct of good chunks.
LEMMA FlushTypes ==
  ASSUME NEW p \in Peers, NEW S, NEW c \in [chunks : Seq(S), resend : BOOLEAN]
  PROVE  \A m \in FlushOf(p, c) :
           \E chunks \in Seq(S), r \in BOOLEAN : m = DataPacket(p, chunks, r)
BY DEF FlushOf

LEMMA EmptyConstructType ==
  ASSUME NEW S
  PROVE  EmptyConstruct \in [chunks : Seq(S), resend : BOOLEAN]
BY EmptySeq DEF EmptyConstruct

LEMMA TransmitAdds ==
  ASSUME NEW ps, NEW old, Transmit(ps, old)
  PROVE  net' \subseteq net \cup ps
BY DEF Transmit

-----------------------------------------------------------------------------
(* Type correctness.                                                       *)

LEMMA TransmitTypes ==
  ASSUME TypeOK, NEW ps, NEW old, Transmit(ps, old), ps \subseteq Packet
  PROVE  net' \in SUBSET Packet
BY TransmitAdds DEF TypeOK

LEMMA OpenTypes ==
  ASSUME TypeOK, NEW p \in Peers, NEW st \in States, Open(p, st), net' \in SUBSET Packet
  PROVE  TypeOK'
<1>1. 0 \in 0 .. N - 1 /\ <<>> \in Seq(Chunk) /\ Len(<<>>) = 0
  BY WindowAssumption, EmptySeq
<1>2. EmptyConstruct \in [chunks : Seq(Chunk), resend : BOOLEAN]
  BY EmptyConstructType
<1>3. \A q \in Peers : Len(buffer'[q]) <= BufCap
  BY <1>1, CapacityAssumption DEF TypeOK, Open
<1>4. /\ state' \in [Peers -> States] /\ seq' \in [Peers -> 0 .. N - 1]
      /\ ack' \in [Peers -> 0 .. N - 1] /\ peerAck' \in [Peers -> 0 .. N - 1]
      /\ remoteClosed' \in [Peers -> BOOLEAN]
      /\ life' \in [Peers -> {"new", "open", "closed"}]
  BY <1>1 DEF TypeOK, Open
<1>5. /\ buffer' \in [Peers -> Seq(Chunk)]
      /\ construct' \in [Peers -> [chunks : Seq(Chunk), resend : BOOLEAN]]
  BY <1>1, <1>2 DEF TypeOK, Open
<1> QED BY <1>3, <1>4, <1>5 DEF TypeOK, Open

LEMMA ResetTypes ==
  ASSUME TypeOK, NEW p \in Peers, Reset(p), net' \in SUBSET Packet
  PROVE  TypeOK'
<1>1. 0 \in 0 .. N - 1 /\ <<>> \in Seq(Chunk) /\ Len(<<>>) = 0
  BY WindowAssumption, EmptySeq
<1>2. EmptyConstruct \in [chunks : Seq(Chunk), resend : BOOLEAN]
  BY EmptyConstructType
<1>3. \A q \in Peers : Len(buffer'[q]) <= BufCap
  BY <1>1, CapacityAssumption DEF TypeOK, Reset
<1>4. /\ state' \in [Peers -> States] /\ seq' \in [Peers -> 0 .. N - 1]
      /\ ack' \in [Peers -> 0 .. N - 1] /\ peerAck' \in [Peers -> 0 .. N - 1]
      /\ remoteClosed' \in [Peers -> BOOLEAN]
      /\ life' \in [Peers -> {"new", "open", "closed"}]
  BY <1>1 DEF TypeOK, Reset, States
<1>5. /\ buffer' \in [Peers -> Seq(Chunk)]
      /\ construct' \in [Peers -> [chunks : Seq(Chunk), resend : BOOLEAN]]
  BY <1>1, <1>2 DEF TypeOK, Reset
<1> QED BY <1>3, <1>4, <1>5 DEF TypeOK, Reset

\* Popping acknowledged chunks leaves a shorter buffer of the same chunks.
LEMMA AckChunksTypes ==
  ASSUME NEW p \in Peers, NEW a, NEW S, buffer \in [Peers -> Seq(S)], AckChunks(p, a)
  PROVE  /\ buffer' \in [Peers -> Seq(S)]
         /\ \A q \in Peers : Len(buffer'[q]) <= Len(buffer[q])
         /\ \A q \in Peers : q # p => buffer'[q] = buffer[q]
<1>1. PICK j \in 0 .. Len(buffer[p]) :
        buffer' = [buffer EXCEPT ![p] = SubSeq(@, j + 1, Len(@))]
  BY DEF AckChunks
<1> DEFINE b == buffer[p]
           t == SubSeq(b, j + 1, Len(b))
<1>2. b \in Seq(S) /\ Len(b) \in Nat /\ \A i \in 1 .. Len(b) : b[i] \in S
  BY LenProperties, ElementOfSeq
<1>3. t \in Seq(S) /\ Len(t) <= Len(b)
  <2>1. j + 1 \in Int /\ Len(b) \in Int /\ \A i \in j + 1 .. Len(b) : b[i] \in S
    BY <1>2
  <2>2. t \in Seq(S) /\ Len(t) = IF j + 1 <= Len(b) THEN Len(b) - (j + 1) + 1 ELSE 0
    BY <2>1, SubSeqProperties
  <2> QED BY <2>2, <1>2
<1>4. buffer' = [buffer EXCEPT ![p] = t]
  BY <1>1
<1>5. \A q \in Peers : Len(buffer[q]) \in Nat
  BY LenProperties
<1> HIDE DEF t, b
<1>6. buffer'[p] = t /\ \A q \in Peers : q # p => buffer'[q] = buffer[q]
  BY <1>4
<1>7. b = buffer[p] BY DEF b
<1> QED BY <1>3, <1>4, <1>5, <1>6, <1>7

LEMMA ModBound ==
  ASSUME NEW n \in Nat, NEW k \in Nat \ {0}
  PROVE  n % k \in Nat /\ n % k <= n
<1>1. n = k * (n \div k) + (n % k) /\ n \div k \in Nat /\ n % k \in 0 .. k - 1
  OBVIOUS
<1>2. k * (n \div k) >= 0
  BY <1>1
<1> QED BY <1>1, <1>2

\* Appending chunks to the packet under construction keeps the types.
LEMMA AppendTypes ==
  ASSUME TypeOK, NEW p \in Peers, NEW cs \in Seq(Chunk)
  PROVE  /\ ConstructAfter(p, cs) \in [chunks : Seq(Chunk), resend : BOOLEAN]
         /\ FlushedBy(p, cs) \subseteq Packet
<1>1. construct[p].chunks \in Seq(Chunk) /\ construct[p].resend \in BOOLEAN
  BY DEF TypeOK
<1>2. /\ ConstructAfter(p, cs) \in [chunks : Seq(Chunk), resend : BOOLEAN]
      /\ \A m \in FlushedBy(p, cs) :
              \E chunks \in Seq(Chunk), r \in BOOLEAN : m = DataPacket(p, chunks, r)
  BY <1>1, AppendChunks
<1>3. \A chunks \in Seq(Chunk), r \in BOOLEAN : DataPacket(p, chunks, r) \in Packet
  BY PacketTypes
<1> QED BY <1>2, <1>3

LEMMA FeedAckTypes ==
  ASSUME TypeOK, NEW p \in Peers, NEW m, NEW old, FeedAck(p, m, old)
  PROVE  /\ m \in Packet
         /\ peerAck' \in [Peers -> 0 .. N - 1]
         /\ acked' \in [Peers -> Nat]
         /\ unkept' \in [Peers -> SUBSET Nat]
<1>1. m \in Packet
  BY DEF TypeOK, FeedAck, Receives
<1>2. m.ack \in 0 .. N - 1 /\ m.acked \in Nat
  BY <1>1 DEF Packet
<1>3. unkept' \in [Peers -> SUBSET Nat]
  <2>1. unkept \in [Peers -> SUBSET Nat]
    BY DEF TypeOK
  <2>2. CASE life[p] = "open"
    <3>1. unkept' = [unkept EXCEPT ![p] = {i \in unkept[p] : i > m.acked}]
      BY <2>2 DEF FeedAck
    <3>2. {i \in unkept[p] : i > m.acked} \in SUBSET Nat
      BY <2>1
    <3> QED BY <2>1, <3>1, <3>2
  <2>3. CASE life[p] # "open"
    BY <2>1, <2>3 DEF FeedAck
  <2> QED BY <2>2, <2>3
<1> QED BY <1>1, <1>2, <1>3 DEF TypeOK, FeedAck

LEMMA FeedTypes ==
  ASSUME TypeOK, NEW p \in Peers, NEW m, NEW old, Feed(p, m, old)
  PROVE  TypeOK'
<1>0. "CONNECTACCEPT" \in Controls /\ "ACCEPT" \in Controls
  BY DEF Controls
<1>00. {} \subseteq Packet
  OBVIOUS
<1>1. CASE FeedIgnored(p, m, old)
  <2>1. net' \in SUBSET Packet  BY <1>00, <1>1, TransmitTypes DEF FeedIgnored
  <2> QED BY <1>1, <2>1 DEF FeedIgnored, connVars, history, TypeOK
<1>2. CASE FeedClose(p, m, old)
  <2>1. net' \in SUBSET Packet  BY <1>00, <1>2, TransmitTypes DEF FeedClose
  <2>2. peerAck' \in [Peers -> 0 .. N - 1] /\ acked' \in [Peers -> Nat] /\ unkept' \in [Peers -> SUBSET Nat]
    BY <1>2, FeedAckTypes DEF FeedClose
  <2>3. state' \in [Peers -> States] /\ remoteClosed' \in [Peers -> BOOLEAN]
    BY <1>2 DEF FeedClose, TypeOK, States
  <2> QED BY <1>2, <2>1, <2>2, <2>3 DEF FeedClose, TypeOK
<1>3. CASE FeedConnect(p, m, old)
  <2>1. {FirstPacket(p, "CONNECTACCEPT")} \subseteq Packet
    BY <1>0, PacketTypes
  <2>2. net' \in SUBSET Packet  BY <1>3, <2>1, TransmitTypes DEF FeedConnect
  <2> QED BY <1>3, <2>2, OpenTypes DEF FeedConnect, States
<1>4. CASE FeedConnectAccept(p, m, old)
  <2>1. {ControlPacket(p, "ACCEPT")} \subseteq Packet
    BY <1>0, PacketTypes
  <2>2. net' \in SUBSET Packet  BY <1>4, <2>1, TransmitTypes DEF FeedConnectAccept
  <2>3. peerAck' \in [Peers -> 0 .. N - 1] /\ acked' \in [Peers -> Nat] /\ unkept' \in [Peers -> SUBSET Nat]
    BY <1>4, FeedAckTypes DEF FeedConnectAccept
  <2>4. state' \in [Peers -> States]
    BY <1>4 DEF FeedConnectAccept, TypeOK, States
  <2>5. buffer' \in [Peers -> Seq(Chunk)] /\ \A q \in Peers : Len(buffer'[q]) <= Len(buffer[q])
    BY <1>4, AckChunksTypes DEF FeedConnectAccept, TypeOK
  <2>6. \A q \in Peers : Len(buffer'[q]) <= BufCap
    BY <2>5, LenProperties, CapacityAssumption DEF TypeOK
  <2> QED BY <1>4, <2>2, <2>3, <2>4, <2>5, <2>6 DEF FeedConnectAccept, TypeOK
<1>5. CASE FeedControl(p, m, old)
  <2>1. net' \in SUBSET Packet  BY <1>00, <1>5, TransmitTypes DEF FeedControl
  <2>2. peerAck' \in [Peers -> 0 .. N - 1] /\ acked' \in [Peers -> Nat] /\ unkept' \in [Peers -> SUBSET Nat]
    BY <1>5, FeedAckTypes DEF FeedControl
  <2>3. buffer' \in [Peers -> Seq(Chunk)] /\ \A q \in Peers : Len(buffer'[q]) <= Len(buffer[q])
    <3>1. CASE AckChunks(p, m.ack)  BY <3>1, AckChunksTypes DEF TypeOK
    <3>2. CASE UNCHANGED buffer  BY <3>2, LenProperties DEF TypeOK
    <3> QED BY <1>5, <3>1, <3>2 DEF FeedControl
  <2>4. \A q \in Peers : Len(buffer'[q]) <= BufCap
    BY <2>3, LenProperties, CapacityAssumption DEF TypeOK
  <2> QED BY <1>5, <2>1, <2>2, <2>3, <2>4 DEF FeedControl, TypeOK
<1>6. CASE FeedData(p, m, old)
  <2> DEFINE again == IF m.resend THEN buffer[p] ELSE <<>>
  <2>1. again \in Seq(Chunk)
    BY EmptySeq DEF TypeOK
  <2> HIDE DEF again
  <2>3. /\ ConstructAfter(p, again) \in [chunks : Seq(Chunk), resend : BOOLEAN]
        /\ FlushedBy(p, again) \subseteq Packet
    BY <2>1, AppendTypes
  <2>4. /\ construct' = [construct EXCEPT ![p] = ConstructAfter(p, again)]
        /\ Transmit(FlushedBy(p, again), old)
    BY <1>6 DEF FeedData, again
  <2>5. net' \in SUBSET Packet  BY <2>3, <2>4, TransmitTypes
  <2>6. construct' \in [Peers -> [chunks : Seq(Chunk), resend : BOOLEAN]]
    BY <2>3, <2>4 DEF TypeOK
  <2>7. /\ peerAck' \in [Peers -> 0 .. N - 1] /\ acked' \in [Peers -> Nat] /\ m \in Packet
        /\ unkept' \in [Peers -> SUBSET Nat]
    BY <1>6, FeedAckTypes DEF FeedData
  <2>8. state' \in [Peers -> States]
    BY <1>6 DEF FeedData, TypeOK, States
  <2>9. buffer' \in [Peers -> Seq(Chunk)] /\ \A q \in Peers : Len(buffer'[q]) <= Len(buffer[q])
    <3>1. CASE AckChunks(p, m.ack)  BY <3>1, AckChunksTypes DEF TypeOK
    <3>2. CASE UNCHANGED buffer  BY <3>2, LenProperties DEF TypeOK
    <3> QED BY <1>6, <3>1, <3>2 DEF FeedData
  <2>10. \A q \in Peers : Len(buffer'[q]) <= BufCap
    BY <2>9, LenProperties, CapacityAssumption DEF TypeOK
  <2>11. inbox' \in [Peers -> Seq(Chunk)]
    <3> DEFINE k == Len(m.chunks) % ChunkMod
    <3>1. m.chunks \in Seq(Chunk)
      BY <2>7 DEF Packet
    <3>2. Len(m.chunks) \in Nat /\ \A i \in 1 .. Len(m.chunks) : m.chunks[i] \in Chunk
      BY <3>1, LenProperties, ElementOfSeq
    <3>3. k \in Nat /\ k <= Len(m.chunks)
      BY <3>2, CapacityAssumption, ModBound
    <3>4. SubSeq(m.chunks, 1, k) \in Seq(Chunk)
      <4> HIDE DEF k
      <4> QED BY <3>2, <3>3, SubSeqProperties
    <3> QED BY <1>6, <3>4 DEF FeedData, TypeOK
  <2> QED BY <1>6, <2>5, <2>6, <2>7, <2>8, <2>9, <2>10, <2>11 DEF FeedData, TypeOK
<1> QED BY <1>1, <1>2, <1>3, <1>4, <1>5, <1>6 DEF Feed

LEMMA SendTypes ==
  ASSUME TypeOK, NEW p \in Peers, NEW flush \in BOOLEAN, NEW kept \in BOOLEAN,
         Send(p, flush, kept)
  PROVE  TypeOK'
<1> DEFINE c == [seq |-> NextSeq(seq[p]), idx |-> sent[p] + 1]
           rest == ConstructAfter(p, <<c>>)
           now == flush /\ (kept \/ p \notin Servers)
           ps == FlushedBy(p, <<c>>) \cup (IF now THEN FlushOf(p, rest) ELSE {})
<1>1. /\ seq' = [seq EXCEPT ![p] = NextSeq(seq[p])]
      /\ sent' = [sent EXCEPT ![p] = @ + 1]
      /\ buffer' = IF kept THEN [buffer EXCEPT ![p] = Append(@, c)] ELSE buffer
      /\ construct' = [construct EXCEPT ![p] = IF now THEN EmptyConstruct ELSE rest]
      /\ Transmit(ps, {})
      /\ UNCHANGED <<state, ack, peerAck, remoteClosed, inbox, delivered, acked, life>>
  BY DEF Send
<1>2. NextSeq(seq[p]) \in 0 .. N - 1
  BY NextSeqType DEF TypeOK
<1>3. c \in Chunk
  BY <1>2 DEF TypeOK, Chunk
<1>4. <<c>> \in Seq(Chunk)
  BY <1>3
<1>5. rest \in [chunks : Seq(Chunk), resend : BOOLEAN] /\ FlushedBy(p, <<c>>) \subseteq Packet
  <2> HIDE DEF c
  <2> QED BY <1>4, AppendTypes
<1>6. FlushOf(p, rest) \subseteq Packet
  <2> HIDE DEF rest
  <2> QED BY <1>5, FlushTypes, PacketTypes
<1>7. ps \subseteq Packet
  BY <1>5, <1>6
<1>13. unkept' \in [Peers -> SUBSET Nat]
  <2>1. unkept \in [Peers -> SUBSET Nat] /\ unkept[p] \cup {c.idx} \in SUBSET Nat
    BY <1>3 DEF TypeOK, Chunk
  <2>2. unkept' = IF kept THEN unkept ELSE [unkept EXCEPT ![p] = unkept[p] \cup {c.idx}]
    BY DEF Send
  <2> HIDE DEF c
  <2> QED BY <2>1, <2>2
<1> HIDE DEF c, rest, now, ps
<1>8. net' \in SUBSET Packet
  BY <1>1, <1>7, TransmitTypes
<1>9. construct' \in [Peers -> [chunks : Seq(Chunk), resend : BOOLEAN]]
  BY <1>1, <1>5, EmptyConstructType, SMTT(30) DEF TypeOK
<1>10. buffer' \in [Peers -> Seq(Chunk)] /\ \A q \in Peers : Len(buffer'[q]) <= BufCap
  <2>1. buffer[p] \in Seq(Chunk)
    BY DEF TypeOK
  <2>2. Append(buffer[p], c) \in Seq(Chunk) /\ Len(Append(buffer[p], c)) = Len(buffer[p]) + 1
    BY <2>1, <1>3, AppendProperties
  <2>3. CASE kept
    <3>0. Len(buffer[p]) < BufCap
      BY <2>3 DEF Send
    <3>1. Len(Append(buffer[p], c)) <= BufCap
      BY <2>1, <2>2, <3>0, LenProperties, CapacityAssumption
    <3> QED BY <1>1, <2>2, <2>3, <3>1 DEF TypeOK
  <2>4. CASE ~kept
    BY <1>1, <2>4, SMTT(30) DEF TypeOK
  <2> QED BY <2>3, <2>4
<1>11. seq' \in [Peers -> 0 .. N - 1]
  BY <1>1, <1>2 DEF TypeOK
<1>12. sent' \in [Peers -> Nat]
  <2>1. sent \in [Peers -> Nat]
    BY DEF TypeOK
  <2> QED BY <1>1, <2>1
<1> QED BY <1>1, <1>8, <1>9, <1>10, <1>11, <1>12, <1>13 DEF TypeOK

LEMMA FetchTypes ==
  ASSUME TypeOK, NEW p \in Peers, FetchChunk(p)
  PROVE  TypeOK'
<1> DEFINE c == Head(inbox[p])
<1>1. c \in Chunk /\ Tail(inbox[p]) \in Seq(Chunk)
  BY HeadTailProperties DEF FetchChunk, TypeOK
<1>2. inbox' \in [Peers -> Seq(Chunk)]
  BY <1>1 DEF FetchChunk, TypeOK
<1>3. c.idx \in Nat \ {0}
  BY <1>1 DEF Chunk
<1> HIDE DEF c
<1>4. CASE InSequence(p, c.seq)
  <2>1. ack' \in [Peers -> 0 .. N - 1]
    <3>1. NextSeq(ack[p]) \in 0 .. N - 1
      BY NextSeqType DEF TypeOK
    <3>2. ack' = [ack EXCEPT ![p] = NextSeq(@)]
      BY <1>4 DEF FetchChunk, c
    <3> QED BY <3>1, <3>2 DEF TypeOK
  <2>2. delivered[p] \in Seq(Nat \ {0})
    BY DEF TypeOK
  <2>3. Append(delivered[p], c.idx) \in Seq(Nat \ {0})
    BY <2>2, <1>3, AppendProperties
  <2>4. delivered' \in [Peers -> Seq(Nat \ {0})]
    BY <1>4, <2>3 DEF FetchChunk, TypeOK, c
  <2> QED BY <1>2, <1>4, <2>1, <2>4 DEF FetchChunk, TypeOK, c
<1>5. CASE ~InSequence(p, c.seq)
  <2>1. construct' = [construct EXCEPT ![p].resend = @ \/ ~IsSeqInBackroom(c.seq, ack[p])]
    BY <1>5 DEF FetchChunk, c
  <2>2. construct' \in [Peers -> [chunks : Seq(Chunk), resend : BOOLEAN]]
    <3> DEFINE con == [chunks : Seq(Chunk), resend : BOOLEAN]
               wish == IsSeqInBackroom(c.seq, ack[p])
               mine == [construct[p] EXCEPT !.resend = @ \/ ~wish]
    <3>1. construct \in [Peers -> con] /\ construct[p] \in con
      BY DEF TypeOK
    <3>2. mine \in con
      BY <3>1
    <3>3. construct' = [construct EXCEPT ![p] = mine]
      BY <2>1, <3>1
    <3> HIDE DEF con, mine
    <3>4. construct' \in [Peers -> con]
      BY <3>1, <3>2, <3>3
    <3> QED BY <3>4 DEF con
  <2> QED BY <1>2, <1>5, <2>2 DEF FetchChunk, TypeOK, c
<1> QED BY <1>4, <1>5

LEMMA ResendHeadType ==
  ASSUME NEW p \in Peers, NEW S, NEW due, due => buffer[p] # <<>>, buffer[p] \in Seq(S)
  PROVE  ResendHead(p, due) \in Seq(S)
<1>1. CASE due
  <2>1. Head(buffer[p]) \in S
    BY <1>1, HeadTailProperties
  <2> QED BY <1>1, <2>1 DEF ResendHead
<1>2. CASE ~due
  BY <1>2, EmptySeq DEF ResendHead
<1> QED BY <1>1, <1>2

LEMMA UpdateTypes ==
  ASSUME TypeOK, NEW p \in Peers, NEW due \in BOOLEAN, NEW idle, Update(p, due, idle)
  PROVE  TypeOK'
<1> DEFINE flushed == FlushedBy(p, ResendHead(p, due))
           rest == ConstructAfter(p, ResendHead(p, due))
<1>1. ResendHead(p, due) \in Seq(Chunk)
  BY ResendHeadType DEF Update, TypeOK
<1>2. rest \in [chunks : Seq(Chunk), resend : BOOLEAN] /\ flushed \subseteq Packet
  BY <1>1, AppendTypes
<1>3. FlushOf(p, rest) \subseteq Packet
  <2> HIDE DEF rest
  <2> QED BY <1>2, FlushTypes, PacketTypes
<1>4. \A ctl \in Controls : {ControlPacket(p, ctl)} \subseteq Packet
  BY PacketTypes
<1>5. \E ps \in SUBSET Packet : Transmit(ps, {})
  BY <1>2, <1>3, <1>4 DEF Update, Controls
<1>6. net' \in SUBSET Packet
  BY <1>5, TransmitTypes
<1>7. construct' = [construct EXCEPT ![p] =
                      IF state[p] = "ONLINE" /\ idle # "recent" THEN EmptyConstruct ELSE rest]
  BY DEF Update
<1> HIDE DEF rest
<1>8. construct' \in [Peers -> [chunks : Seq(Chunk), resend : BOOLEAN]]
  BY <1>2, <1>7, EmptyConstructType DEF TypeOK
<1> QED BY <1>6, <1>8 DEF Update, TypeOK, history

LEMMA CloseTypes ==
  ASSUME TypeOK, NEW p \in Peers
  PROVE  CloseOf(p) \subseteq Packet
BY PacketTypes DEF CloseOf, Controls

LEMMA ExpireTypes ==
  ASSUME TypeOK, NEW p \in Peers, NEW due \in BOOLEAN, NEW banned \in BOOLEAN,
         Expire(p, due, banned)
  PROVE  TypeOK'
<1> DEFINE flushed == FlushedBy(p, ResendHead(p, due))
           rest == ConstructAfter(p, ResendHead(p, due))
<1>1. ResendHead(p, due) \in Seq(Chunk)
  BY ResendHeadType DEF Expire, TypeOK
<1>2. rest \in [chunks : Seq(Chunk), resend : BOOLEAN] /\ flushed \subseteq Packet
  BY <1>1, AppendTypes
<1>3. CASE banned
  <2>1. net' \in SUBSET Packet
    BY <1>2, <1>3, TransmitTypes DEF Expire
  <2>2. construct' = [construct EXCEPT ![p] = rest]
    BY <1>3 DEF Expire
  <2> HIDE DEF rest
  <2>3. construct' \in [Peers -> [chunks : Seq(Chunk), resend : BOOLEAN]]
    BY <1>2, <2>2 DEF TypeOK
  <2>4. state' \in [Peers -> States]
    BY <1>3 DEF Expire, TypeOK, States
  <2> QED BY <1>3, <2>1, <2>3, <2>4 DEF Expire, TypeOK, history
<1>4. CASE ~banned
  <2>1. flushed \cup CloseOf(p) \subseteq Packet
    BY <1>2, CloseTypes
  <2>2. net' \in SUBSET Packet
    BY <1>4, <2>1, TransmitTypes DEF Expire
  <2> QED BY <1>4, <2>2, ResetTypes DEF Expire
<1> QED BY <1>3, <1>4

LEMMA TypeStep ==
  ASSUME TypeOK, [Next]_vars
  PROVE  TypeOK'
<1>0. \A ctl \in Controls, p \in Peers : {FirstPacket(p, ctl)} \subseteq Packet
  BY PacketTypes
<1>1. ASSUME NEW p \in Peers, Connect(p) PROVE TypeOK'
  <2>1. net' \in SUBSET Packet
    BY <1>0, <1>1, TransmitTypes DEF Connect, Controls
  <2> QED BY <1>1, <2>1, OpenTypes DEF Connect, States
<1>2. ASSUME NEW p \in Peers, Accept(p) PROVE TypeOK'
  <2>1. net' \in SUBSET Packet
    BY <1>0, <1>2, TransmitTypes DEF Accept, Controls
  <2> QED BY <1>2, <2>1, OpenTypes DEF Accept, States
<1>3. ASSUME NEW p \in Peers, Disconnect(p) PROVE TypeOK'
  <2>1. net' \in SUBSET Packet
    BY <1>3, CloseTypes, TransmitTypes DEF Disconnect
  <2> QED BY <1>3, <2>1, ResetTypes DEF Disconnect
<1>4. ASSUME NEW p \in Peers, Flush(p) PROVE TypeOK'
  <2>1. FlushOf(p, construct[p]) \subseteq Packet
    <3>1. construct[p] \in [chunks : Seq(Chunk), resend : BOOLEAN]
      BY DEF TypeOK
    <3> QED BY <3>1, FlushTypes, PacketTypes
  <2>2. net' \in SUBSET Packet
    BY <1>4, <2>1, TransmitTypes DEF Flush
  <2>3. construct' \in [Peers -> [chunks : Seq(Chunk), resend : BOOLEAN]]
    BY <1>4, EmptyConstructType DEF Flush, TypeOK
  <2> QED BY <1>4, <2>2, <2>3 DEF Flush, TypeOK, history
<1>5. ASSUME NEW m \in net, Lose(m) PROVE TypeOK'
  BY <1>5 DEF Lose, TypeOK, connVars, history
<1>6. CASE UNCHANGED vars
  BY <1>6 DEF TypeOK, vars, connVars, history
<1> QED BY <1>1, <1>2, <1>3, <1>4, <1>5, <1>6, FeedTypes, SendTypes, FetchTypes, UpdateTypes, ExpireTypes
        DEF Next

LEMMA TypeInit == Init => TypeOK
<1> SUFFICES ASSUME Init PROVE TypeOK
  OBVIOUS
<1>1. 0 \in 0 .. N - 1 /\ <<>> \in Seq(Chunk) /\ <<>> \in Seq(Nat \ {0}) /\ Len(<<>>) = 0
  BY WindowAssumption, EmptySeq
<1>2. EmptyConstruct \in [chunks : Seq(Chunk), resend : BOOLEAN]
  BY EmptyConstructType
<1>3. /\ buffer \in [Peers -> Seq(Chunk)] /\ \A p \in Peers : Len(buffer[p]) <= BufCap
  BY <1>1, CapacityAssumption DEF Init
<1>4. construct \in [Peers -> [chunks : Seq(Chunk), resend : BOOLEAN]]
  BY <1>2 DEF Init
<1> QED BY <1>1, <1>3, <1>4 DEF Init, TypeOK, States

\* Type correctness: the variables of both ends and every packet in flight
\* keep their types, wire numbers stay below N and the resend buffer never
\* exceeds its capacity.
THEOREM TypeCorrect == Spec => []TypeOK
<1>1. TypeOK /\ [Next]_vars => TypeOK'
  BY TypeStep
<1> QED BY TypeInit, <1>1, PTL DEF Spec

-----------------------------------------------------------------------------
(* The inductive invariant.  InOrder alone is not inductive: a chunk is     *)
(* taken for its wire number, so the invariant must say which chunk every  *)
(* wire number in the system stands for, and how old it can be.            *)

\* The chunks of an end that has queued n, under their true wire numbers.
Good(n) == {c \in Chunk : c.seq = c.idx % N /\ c.idx <= n}

PacketGood(m) ==
  /\ m.chunks \in Seq(Good(sent[m.src]))
  /\ m.ack = m.acked % N
  /\ m.acked <= Len(delivered[m.src])

ChunksInv ==
  \A p \in Peers : /\ buffer[p] \in Seq(Good(sent[p]))
                   /\ construct[p].chunks \in Seq(Good(sent[p]))
                   /\ inbox[p] \in Seq(Good(sent[Other(p)]))

PacketsInv == \A m \in net : PacketGood(m)

\* The wire numbers of an open connection stand for its true counts.
NumbersInv ==
  \A p \in Peers : life[p] = "open" =>
    /\ seq[p] = sent[p] % N
    /\ ack[p] = Len(delivered[p]) % N
    /\ peerAck[p] = acked[p] % N

\* How the history of an end and its state go together.
LifeInv ==
  \A p \in Peers :
    /\ life[p] = "new" => /\ state[p] = "OFFLINE"
                          /\ sent[p] = 0 /\ Len(delivered[p]) = 0 /\ acked[p] = 0
    /\ life[p] = "open" => state[p] # "OFFLINE"
    /\ life[p] = "closed" => state[p] = "OFFLINE" \/ (state[p] = "ERROR" /\ remoteClosed[p])
    /\ life[p] # "open" => buffer[p] = <<>> /\ construct[p].chunks = <<>>
    /\ state[p] \in {"CONNECT", "PENDING"} => sent[p] = 0

\* Nothing is taken before it is sent, nor acknowledged before it is taken,
\* and an end is never more than MaxLead chunks ahead of what it knows.
CountsInv ==
  \A p \in Peers : /\ acked[p] <= Len(delivered[Other(p)])
                   /\ Len(delivered[p]) <= sent[Other(p)]
                   /\ sent[p] - acked[p] <= MaxLead

\* The chunks still to be fetched are close enough to the one due, and to
\* each other, for their wire numbers to tell them apart.
InboxInv ==
  \A p \in Peers : \A i \in 1 .. Len(inbox[p]) :
    /\ inbox[p][i].idx + N > Len(delivered[p]) + 1
    /\ \A j \in 1 .. Len(inbox[p]) : inbox[p][i].idx - inbox[p][j].idx <= N - 2

IInv == /\ TypeOK /\ ChunksInv /\ PacketsInv /\ NumbersInv /\ LifeInv
        /\ CountsInv /\ InboxInv /\ InOrder

LEMMA GoodGrows ==
  ASSUME NEW n \in Nat, NEW k \in Nat, n <= k, NEW s \in Seq(Good(n))
  PROVE  s \in Seq(Good(k))
<1>1. Good(n) \subseteq Good(k)
  BY DEF Good, Chunk
<1> QED BY <1>1, SeqMonotonic

\* Packets stay good when the counts they refer to only grow.
LEMMA PacketsStep ==
  ASSUME IInv, TypeOK',
         \A p \in Peers : sent[p] <= sent'[p] /\ Len(delivered[p]) <= Len(delivered'[p]),
         NEW ps, net' \subseteq net \cup ps, \A m \in ps : PacketGood(m)'
  PROVE  PacketsInv'
<1>1. ASSUME NEW m \in net PROVE PacketGood(m)'
  <2>1. m \in Packet /\ PacketGood(m)
    BY DEF IInv, TypeOK, PacketsInv
  <2>2. m.src \in Peers /\ m.acked \in Nat
    BY <2>1 DEF Packet
  <2>3. sent[m.src] \in Nat /\ sent'[m.src] \in Nat /\ sent[m.src] <= sent'[m.src]
    BY <2>2 DEF IInv, TypeOK
  <2>4. /\ Len(delivered[m.src]) \in Nat /\ Len(delivered'[m.src]) \in Nat
        /\ Len(delivered[m.src]) <= Len(delivered'[m.src])
    BY <2>2, LenProperties DEF IInv, TypeOK
  <2>5. m.chunks \in Seq(Good(sent'[m.src]))
    BY <2>1, <2>3, GoodGrows DEF PacketGood
  <2>6. m.acked <= Len(delivered'[m.src])
    BY <2>1, <2>2, <2>4 DEF PacketGood
  <2> QED BY <2>1, <2>5, <2>6 DEF PacketGood
<1> QED BY <1>1 DEF PacketsInv

\* The packets an open end sends are good.
LEMMA OwnPackets ==
  ASSUME IInv, NEW p \in Peers, life[p] = "open", delivered'[p] = delivered[p]
  PROVE  \A m : \/ \E chunks \in Seq(Good(sent'[p])), r \in BOOLEAN : m = DataPacket(p, chunks, r)
                \/ \E ctl \in Controls : m = ControlPacket(p, ctl)
                => PacketGood(m)'
<1>1. ack[p] = Len(delivered[p]) % N /\ Len(delivered[p]) \in Nat
  BY LenProperties DEF IInv, NumbersInv, TypeOK
<1>2. ASSUME NEW m, NEW chunks \in Seq(Good(sent'[p])), NEW r, m = DataPacket(p, chunks, r)
      PROVE  PacketGood(m)'
  BY <1>1, <1>2 DEF PacketGood, DataPacket
<1>3. ASSUME NEW m, NEW ctl, m = ControlPacket(p, ctl)
      PROVE  PacketGood(m)'
  BY <1>1, <1>3, EmptySeq DEF PacketGood, ControlPacket
<1> QED BY <1>2, <1>3

\* The first packet of an incarnation is good.
LEMMA FirstPackets ==
  ASSUME TypeOK', NEW p \in Peers, NEW ctl
  PROVE  \A m \in {FirstPacket(p, ctl)} : PacketGood(m)'
<1> SUFFICES ASSUME NEW m, m = FirstPacket(p, ctl) PROVE PacketGood(m)'
  OBVIOUS
<1>1. m.src = p /\ m.ack = 0 /\ m.acked = 0 /\ m.chunks = <<>>
  BY DEF FirstPacket, ControlPacket
<1>2. 0 % N = 0
  BY WindowAssumption
<1>3. 0 <= Len(delivered'[p])
  BY LenProperties DEF TypeOK
<1> QED BY <1>1, <1>2, <1>3, EmptySeq DEF PacketGood

\* Appending good chunks to the construct of an open end: what is flushed
\* and what is left are good.
LEMMA AppendGood ==
  ASSUME IInv, NEW p \in Peers, life[p] = "open", delivered'[p] = delivered[p],
         sent'[p] \in Nat, sent[p] <= sent'[p], NEW cs \in Seq(Good(sent'[p]))
  PROVE  /\ ConstructAfter(p, cs) \in [chunks : Seq(Good(sent'[p])), resend : BOOLEAN]
         /\ \A m \in FlushedBy(p, cs) : PacketGood(m)'
         /\ \A m \in FlushOf(p, ConstructAfter(p, cs)) : PacketGood(m)'
<1> DEFINE S == Good(sent'[p])
           rest == ConstructAfter(p, cs)
<1>1. construct[p].chunks \in Seq(S) /\ construct[p].resend \in BOOLEAN
  BY GoodGrows DEF IInv, ChunksInv, TypeOK
<1>2. /\ rest \in [chunks : Seq(S), resend : BOOLEAN]
      /\ \A m \in FlushedBy(p, cs) :
           \E chunks \in Seq(S), r \in BOOLEAN : m = DataPacket(p, chunks, r)
  BY <1>1, AppendChunks
<1>3. \A m \in FlushOf(p, rest) :
        \E chunks \in Seq(S), r \in BOOLEAN : m = DataPacket(p, chunks, r)
  <2> HIDE DEF rest, S
  <2> QED BY <1>2, FlushTypes
<1>4. \A m : (\E chunks \in Seq(S), r \in BOOLEAN : m = DataPacket(p, chunks, r)) => PacketGood(m)'
  BY OwnPackets
<1> QED BY <1>2, <1>3, <1>4

-----------------------------------------------------------------------------
(* The invariant is kept: steps that open or close a connection.           *)

\* What holds of an end that a step leaves alone.
Untouched(q) ==
  /\ buffer'[q] = buffer[q] /\ construct'[q] = construct[q]
  /\ seq'[q] = seq[q] /\ ack'[q] = ack[q] /\ peerAck'[q] = peerAck[q]
  /\ acked'[q] = acked[q] /\ life'[q] = life[q] /\ state'[q] = state[q]
  /\ remoteClosed'[q] = remoteClosed[q]

LEMMA ChunksFrame ==
  ASSUME IInv, NEW p \in Peers, \A q \in Peers : q # p => Untouched(q),
         inbox' = inbox, sent' = sent,
         buffer'[p] \in Seq(Good(sent[p])), construct'[p].chunks \in Seq(Good(sent[p]))
  PROVE  ChunksInv'
<1> SUFFICES ASSUME NEW q \in Peers
    PROVE  /\ buffer'[q] \in Seq(Good(sent[q]))
           /\ construct'[q].chunks \in Seq(Good(sent[q]))
           /\ inbox[q] \in Seq(Good(sent[Other(q)]))
  BY DEF ChunksInv
<1>1. CASE q = p  BY <1>1 DEF IInv, ChunksInv
<1>2. CASE q # p  BY <1>2 DEF IInv, ChunksInv, Untouched
<1> QED BY <1>1, <1>2

LEMMA OpenStep ==
  ASSUME IInv, NEW p \in Peers, NEW st \in {"CONNECT", "PENDING", "ONLINE"}, Open(p, st),
         TypeOK', PacketsInv'
  PROVE  IInv'
<1>1. /\ \A q \in Peers : q # p => Untouched(q)
      /\ UNCHANGED <<inbox, sent, delivered, acked>>
      /\ buffer'[p] = <<>> /\ construct'[p] = EmptyConstruct
      /\ seq'[p] = 0 /\ ack'[p] = 0 /\ peerAck'[p] = 0
      /\ life'[p] = "open" /\ state'[p] = st /\ life[p] = "new"
  BY DEF Open, Untouched, IInv, TypeOK
<1>2. sent[p] = 0 /\ Len(delivered[p]) = 0 /\ acked[p] = 0
  BY <1>1 DEF IInv, LifeInv
<1>3. ChunksInv'
  <2>1. <<>> \in Seq(Good(sent[p]))
    BY EmptySeq
  <2>2. buffer'[p] = <<>> /\ construct'[p].chunks = <<>> /\ inbox' = inbox /\ sent' = sent
    BY <1>1 DEF EmptyConstruct
  <2> QED BY <1>1, <2>1, <2>2, ChunksFrame
<1>4. NumbersInv'
  <2>1. 0 % N = 0
    BY WindowAssumption
  <2> QED BY <1>1, <1>2, <2>1 DEF IInv, NumbersInv, Untouched
<1>5. LifeInv'
  BY <1>1, <1>2 DEF IInv, LifeInv, Untouched
<1>6. CountsInv' /\ InboxInv' /\ InOrder'
  BY <1>1 DEF IInv, CountsInv, InboxInv, InOrder
<1> QED BY <1>3, <1>4, <1>5, <1>6 DEF IInv

LEMMA ResetStep ==
  ASSUME IInv, NEW p \in Peers, Reset(p), TypeOK', PacketsInv'
  PROVE  IInv'
<1>1. /\ \A q \in Peers : q # p => Untouched(q)
      /\ UNCHANGED <<inbox, sent, delivered, acked>>
      /\ buffer'[p] = <<>> /\ construct'[p] = EmptyConstruct
      /\ life'[p] = "closed" /\ state'[p] = "OFFLINE"
  BY DEF Reset, Untouched, IInv, TypeOK
<1>2. ChunksInv'
  <2>1. <<>> \in Seq(Good(sent[p]))
    BY EmptySeq
  <2>2. buffer'[p] = <<>> /\ construct'[p].chunks = <<>> /\ inbox' = inbox /\ sent' = sent
    BY <1>1 DEF EmptyConstruct
  <2> QED BY <1>1, <2>1, <2>2, ChunksFrame
<1>3. NumbersInv'
  BY <1>1 DEF IInv, NumbersInv, Untouched
<1>4. LifeInv'
  BY <1>1 DEF IInv, LifeInv, Untouched, EmptyConstruct
<1>5. CountsInv' /\ InboxInv' /\ InOrder'
  BY <1>1 DEF IInv, CountsInv, InboxInv, InOrder
<1> QED BY <1>2, <1>3, <1>4, <1>5 DEF IInv

\* A step that sends ps and leaves the history alone keeps packets good.
LEMMA SentPackets ==
  ASSUME IInv, TypeOK', sent' = sent, delivered' = delivered,
         NEW ps, NEW old, Transmit(ps, old), \A m \in ps : PacketGood(m)'
  PROVE  PacketsInv'
<1>1. \A p \in Peers : sent[p] <= sent'[p] /\ Len(delivered[p]) <= Len(delivered'[p])
  BY LenProperties DEF IInv, TypeOK
<1> QED BY <1>1, TransmitAdds, PacketsStep

LEMMA OpeningSteps ==
  ASSUME IInv, TypeOK', NEW p \in Peers, NEW st \in {"CONNECT", "PENDING", "ONLINE"},
         Open(p, st), NEW ctl, NEW old, Transmit({FirstPacket(p, ctl)}, old)
  PROVE  IInv'
<1>1. \A m \in {FirstPacket(p, ctl)} : PacketGood(m)'
  BY FirstPackets
<1>2. sent' = sent /\ delivered' = delivered
  BY DEF Open
<1>3. PacketsInv'
  BY <1>1, <1>2, SentPackets
<1> QED BY <1>3, OpenStep

\* The CLOSE of Disconnect is good: only an open end still sends one.
LEMMA ClosePackets ==
  ASSUME IInv, NEW p \in Peers, state[p] # "OFFLINE", delivered' = delivered
  PROVE  \A m \in CloseOf(p) : PacketGood(m)'
<1>1. CASE life[p] = "open"
  BY <1>1, OwnPackets DEF CloseOf, Controls
<1>2. CASE life[p] # "open"
  <2>1. life[p] \in {"new", "open", "closed"}
    BY DEF IInv, TypeOK
  <2>2. remoteClosed[p]
    BY <1>2, <2>1 DEF IInv, LifeInv
  <2> QED BY <2>2 DEF CloseOf
<1> QED BY <1>1, <1>2

LEMMA DisconnectStep ==
  ASSUME IInv, TypeOK', NEW p \in Peers, Disconnect(p)
  PROVE  IInv'
<1>1. sent' = sent /\ delivered' = delivered
  BY DEF Disconnect, Reset
<1>2. \A m \in CloseOf(p) : PacketGood(m)'
  BY <1>1, ClosePackets DEF Disconnect
<1>3. PacketsInv'
  BY <1>1, <1>2, SentPackets DEF Disconnect
<1> QED BY <1>3, ResetStep DEF Disconnect

\* A step that changes no more than an open end's construct, its state to
\* ERROR, and the network.
LEMMA QuietStep ==
  ASSUME IInv, TypeOK', PacketsInv', NEW p \in Peers, life[p] = "open",
         inbox' = inbox, sent' = sent, delivered' = delivered, acked' = acked, life' = life,
         seq' = seq, ack' = ack, peerAck' = peerAck, remoteClosed' = remoteClosed,
         buffer' = buffer,
         state' = state \/ state' = [state EXCEPT ![p] = "ERROR"],
         construct'[p].chunks \in Seq(Good(sent[p])),
         \A q \in Peers : q # p => construct'[q] = construct[q]
  PROVE  IInv'
<1>1. \A q \in Peers : q # p => Untouched(q)
  BY DEF Untouched, IInv, TypeOK
<1>2. ChunksInv'
  <2>1. buffer'[p] \in Seq(Good(sent[p]))
    BY DEF IInv, ChunksInv
  <2> QED BY <1>1, <2>1, ChunksFrame
<1>3. LifeInv'
  <2>1. state' \in [Peers -> States] /\ life \in [Peers -> {"new", "open", "closed"}]
    BY DEF IInv, TypeOK
  <2>2. state'[p] = state[p] \/ state'[p] = "ERROR"
    BY DEF IInv, TypeOK
  <2> QED BY <1>1, <2>1, <2>2 DEF IInv, LifeInv, Untouched
<1>4. NumbersInv' /\ CountsInv' /\ InboxInv' /\ InOrder'
  BY DEF IInv, NumbersInv, CountsInv, InboxInv, InOrder
<1> QED BY <1>2, <1>3, <1>4 DEF IInv

LEMMA FlushStep ==
  ASSUME IInv, TypeOK', NEW p \in Peers, Flush(p)
  PROVE  IInv'
<1>1. /\ life[p] = "open" /\ construct' = [construct EXCEPT ![p] = EmptyConstruct]
      /\ inbox' = inbox /\ sent' = sent /\ delivered' = delivered /\ acked' = acked
      /\ life' = life /\ seq' = seq /\ ack' = ack /\ peerAck' = peerAck
      /\ remoteClosed' = remoteClosed /\ buffer' = buffer /\ state' = state
      /\ Transmit(FlushOf(p, construct[p]), {})
  BY DEF Flush, history
<1>2. construct[p] \in [chunks : Seq(Good(sent[p])), resend : BOOLEAN]
  BY DEF IInv, TypeOK, ChunksInv
<1>3. \A m \in FlushOf(p, construct[p]) :
        \E chunks \in Seq(Good(sent[p])), r \in BOOLEAN : m = DataPacket(p, chunks, r)
  BY <1>2, FlushTypes
<1>4. \A m \in FlushOf(p, construct[p]) : PacketGood(m)'
  BY <1>1, <1>3, OwnPackets
<1>5. PacketsInv'
  BY <1>1, <1>4, SentPackets
<1>6. construct'[p].chunks = <<>> /\ \A q \in Peers : q # p => construct'[q] = construct[q]
  BY <1>1 DEF IInv, TypeOK, EmptyConstruct
<1>7. construct'[p].chunks \in Seq(Good(sent[p]))
  BY <1>6, EmptySeq
<1> QED BY <1>1, <1>5, <1>6, <1>7, QuietStep

\* A connection that is neither offline nor in error is open.
LEMMA LiveIsOpen ==
  ASSUME IInv, NEW p \in Peers, state[p] \notin {"OFFLINE", "ERROR"}
  PROVE  life[p] = "open"
BY DEF IInv, TypeOK, LifeInv

LEMMA UpdateStep ==
  ASSUME IInv, TypeOK', NEW p \in Peers, NEW due \in BOOLEAN, NEW idle, Update(p, due, idle)
  PROVE  IInv'
<1> DEFINE flushed == FlushedBy(p, ResendHead(p, due))
           rest == ConstructAfter(p, ResendHead(p, due))
<1>1. /\ life[p] = "open"
      /\ inbox' = inbox /\ sent' = sent /\ delivered' = delivered /\ acked' = acked
      /\ life' = life /\ seq' = seq /\ ack' = ack /\ peerAck' = peerAck
      /\ remoteClosed' = remoteClosed /\ buffer' = buffer /\ state' = state
  BY LiveIsOpen DEF Update, history
<1>2. construct' = [construct EXCEPT ![p] =
                      IF state[p] = "ONLINE" /\ idle # "recent" THEN EmptyConstruct ELSE rest]
  BY DEF Update
<1>3. ResendHead(p, due) \in Seq(Good(sent'[p]))
  <2>1. due => buffer[p] # <<>>
    BY DEF Update
  <2> QED BY <1>1, <2>1, ResendHeadType DEF IInv, ChunksInv
<1>4. sent'[p] \in Nat /\ sent[p] <= sent'[p] /\ delivered'[p] = delivered[p]
  BY <1>1 DEF IInv, TypeOK
<1>5. /\ rest \in [chunks : Seq(Good(sent'[p])), resend : BOOLEAN]
      /\ \A m \in flushed : PacketGood(m)'
      /\ \A m \in FlushOf(p, rest) : PacketGood(m)'
  BY <1>1, <1>3, <1>4, AppendGood
<1>6. \A ctl \in Controls : \A m \in {ControlPacket(p, ctl)} : PacketGood(m)'
  BY <1>1, OwnPackets
<1>7. PICK ps : Transmit(ps, {}) /\ \A m \in ps : PacketGood(m)'
  <2> HIDE DEF PacketGood
  <2> QED BY <1>5, <1>6 DEF Update, Controls
<1>8. PacketsInv'
  BY <1>1, <1>7, SentPackets
<1>9. construct'[p].chunks \in Seq(Good(sent[p])) /\ \A q \in Peers : q # p => construct'[q] = construct[q]
  <2> HIDE DEF rest
  <2>1. EmptyConstruct \in [chunks : Seq(Good(sent'[p])), resend : BOOLEAN]
    BY EmptyConstructType
  <2> QED BY <1>1, <1>2, <1>5, <2>1 DEF IInv, TypeOK
<1> QED BY <1>1, <1>8, <1>9, QuietStep

LEMMA ExpireStep ==
  ASSUME IInv, TypeOK', NEW p \in Peers, NEW due \in BOOLEAN, NEW banned \in BOOLEAN,
         Expire(p, due, banned)
  PROVE  IInv'
<1> DEFINE flushed == FlushedBy(p, ResendHead(p, due))
           rest == ConstructAfter(p, ResendHead(p, due))
<1>1. life[p] = "open" /\ state[p] # "OFFLINE"
  BY LiveIsOpen DEF Expire, CanExpire
<1>2. sent' = sent /\ delivered' = delivered
  BY DEF Expire, Reset, history
<1>3. ResendHead(p, due) \in Seq(Good(sent'[p]))
  <2>1. due => buffer[p] # <<>>
    BY DEF Expire
  <2> QED BY <1>2, <2>1, ResendHeadType DEF IInv, ChunksInv
<1>4. sent'[p] \in Nat /\ sent[p] <= sent'[p] /\ delivered'[p] = delivered[p]
  BY <1>2 DEF IInv, TypeOK
<1>5. /\ rest \in [chunks : Seq(Good(sent'[p])), resend : BOOLEAN]
      /\ \A m \in flushed : PacketGood(m)'
  BY <1>1, <1>3, <1>4, AppendGood
<1>6. CASE banned
  <2>1. /\ inbox' = inbox /\ acked' = acked
        /\ life' = life /\ seq' = seq /\ ack' = ack /\ peerAck' = peerAck
        /\ remoteClosed' = remoteClosed /\ buffer' = buffer
        /\ state' = [state EXCEPT ![p] = "ERROR"]
        /\ construct' = [construct EXCEPT ![p] = rest]
        /\ Transmit(flushed, {})
    BY <1>6 DEF Expire, history
  <2>2. PacketsInv'
    BY <1>2, <1>5, <2>1, SentPackets
  <2>3. construct'[p].chunks \in Seq(Good(sent[p])) /\ \A q \in Peers : q # p => construct'[q] = construct[q]
    <3> HIDE DEF rest
    <3> QED BY <1>2, <1>5, <2>1 DEF IInv, TypeOK
  <2> QED BY <1>1, <1>2, <2>1, <2>2, <2>3, QuietStep
<1>7. CASE ~banned
  <2>1. Reset(p) /\ Transmit(flushed \cup CloseOf(p), {})
    BY <1>7 DEF Expire
  <2>2. \A m \in CloseOf(p) : PacketGood(m)'
    BY <1>1, <1>2, ClosePackets
  <2>3. PacketsInv'
    BY <1>2, <1>5, <2>1, <2>2, SentPackets
  <2> QED BY <2>1, <2>3, ResetStep
<1> QED BY <1>6, <1>7

\* A step that touches nothing but the network and adds no packet.
LEMMA NetworkStep ==
  ASSUME IInv, UNCHANGED <<connVars, inbox, history>>, net' \subseteq net
  PROVE  IInv'
<1>1. /\ inbox' = inbox /\ sent' = sent /\ delivered' = delivered /\ acked' = acked
      /\ life' = life /\ seq' = seq /\ ack' = ack /\ peerAck' = peerAck
      /\ remoteClosed' = remoteClosed /\ buffer' = buffer /\ state' = state
      /\ construct' = construct /\ unkept' = unkept
  BY DEF connVars, history
<1>2. TypeOK'
  BY <1>1 DEF IInv, TypeOK
<1>3. PacketsInv'
  BY <1>1 DEF IInv, PacketsInv, PacketGood
<1> QED BY <1>1, <1>2, <1>3
      DEF IInv, ChunksInv, NumbersInv, LifeInv, CountsInv, InboxInv, InOrder

-----------------------------------------------------------------------------
(* The invariant is kept: queueing and fetching chunks.                    *)

LEMMA SendStep ==
  ASSUME IInv, TypeOK', NEW p \in Peers, NEW flush \in BOOLEAN, NEW kept \in BOOLEAN,
         Send(p, flush, kept)
  PROVE  IInv'
<1> DEFINE c    == [seq |-> NextSeq(seq[p]), idx |-> sent[p] + 1]
           rest == ConstructAfter(p, <<c>>)
           now  == flush /\ (kept \/ p \notin Servers)
           S    == Good(sent[p] + 1)
<1>1. /\ life[p] = "open" /\ state[p] \in {"ONLINE", "ERROR"}
      /\ sent[p] - acked[p] < MaxLead
      /\ seq' = [seq EXCEPT ![p] = NextSeq(seq[p])]
      /\ sent' = [sent EXCEPT ![p] = @ + 1]
      /\ inbox' = inbox /\ delivered' = delivered /\ acked' = acked /\ life' = life
      /\ ack' = ack /\ peerAck' = peerAck /\ remoteClosed' = remoteClosed /\ state' = state
  BY DEF Send
<1>2. buffer' = IF kept THEN [buffer EXCEPT ![p] = Append(@, c)] ELSE buffer
  BY DEF Send
<1>3. construct' = [construct EXCEPT ![p] = IF now THEN EmptyConstruct ELSE rest]
  BY DEF Send
<1>4. Transmit(FlushedBy(p, <<c>>) \cup (IF now THEN FlushOf(p, rest) ELSE {}), {})
  BY DEF Send
<1>5. /\ sent \in [Peers -> Nat] /\ sent'[p] = sent[p] + 1 /\ sent[p] \in Nat /\ sent'[p] \in Nat
      /\ \A q \in Peers : q # p => sent'[q] = sent[q]
      /\ \A q \in Peers : sent[q] <= sent'[q]
  <2>1. sent \in [Peers -> Nat]
    BY DEF IInv, TypeOK
  <2>2. sent'[p] = sent[p] + 1 /\ \A q \in Peers : q # p => sent'[q] = sent[q]
    BY <1>1, <2>1
  <2>3. \A q \in Peers : sent[q] \in Nat
    BY <2>1
  <2> QED BY <2>1, <2>2, <2>3
<1>6. c \in S
  <2>1. seq[p] = sent[p] % N
    BY <1>1 DEF IInv, NumbersInv
  <2>2. c.seq = c.idx % N
    BY <1>5, <2>1, NextWire
  <2>3. c.seq \in 0 .. N - 1
    BY NextSeqType DEF IInv, TypeOK
  <2> QED BY <1>5, <2>2, <2>3 DEF Good, Chunk
<1>7. <<c>> \in Seq(Good(sent'[p]))
  <2> HIDE DEF c
  <2> QED BY <1>5, <1>6
<1>8. /\ rest \in [chunks : Seq(Good(sent'[p])), resend : BOOLEAN]
      /\ \A m \in FlushedBy(p, <<c>>) : PacketGood(m)'
      /\ \A m \in FlushOf(p, rest) : PacketGood(m)'
  <2> HIDE DEF c
  <2>1. delivered'[p] = delivered[p] /\ sent[p] <= sent'[p]
    BY <1>1, <1>5
  <2> QED BY <1>1, <1>5, <1>7, <2>1, AppendGood
<1>9. PacketsInv'
  <2> DEFINE ps == FlushedBy(p, <<c>>) \cup (IF now THEN FlushOf(p, rest) ELSE {})
  <2>1. \A m \in ps : PacketGood(m)'
    BY <1>8
  <2>2. net' \subseteq net \cup ps
    <3> HIDE DEF ps
    <3> QED BY <1>4, TransmitAdds DEF ps
  <2>3. \A q \in Peers : sent[q] <= sent'[q] /\ Len(delivered[q]) <= Len(delivered'[q])
    BY <1>1, <1>5, LenProperties DEF IInv, TypeOK
  <2> HIDE DEF ps
  <2> QED BY <2>1, <2>2, <2>3, PacketsStep
<1>10. construct'[p].chunks \in Seq(Good(sent'[p])) /\ \A q \in Peers : q # p => construct'[q] = construct[q]
  <2> HIDE DEF rest, now
  <2>1. EmptyConstruct \in [chunks : Seq(Good(sent'[p])), resend : BOOLEAN]
    BY EmptyConstructType
  <2> QED BY <1>3, <1>8, <2>1 DEF IInv, TypeOK
<1>11. buffer'[p] \in Seq(Good(sent'[p])) /\ \A q \in Peers : q # p => buffer'[q] = buffer[q]
  <2>1. buffer[p] \in Seq(S)
    BY <1>5, GoodGrows DEF IInv, ChunksInv
  <2> HIDE DEF c, S
  <2>2. Append(buffer[p], c) \in Seq(S)
    BY <1>6, <2>1, AppendProperties
  <2>3. S = Good(sent'[p])
    BY <1>5 DEF S
  <2> QED BY <1>2, <2>1, <2>2, <2>3 DEF IInv, TypeOK
<1>12. ChunksInv'
  <2>1. \A q \in Peers : inbox[q] \in Seq(Good(sent'[Other(q)]))
    <3> TAKE q \in Peers
    <3>1. Other(q) \in Peers
      BY Ends
    <3>2. sent[Other(q)] \in Nat /\ sent'[Other(q)] \in Nat /\ sent[Other(q)] <= sent'[Other(q)]
      BY <1>5, <3>1 DEF IInv, TypeOK
    <3> QED BY <3>2, GoodGrows DEF IInv, ChunksInv
  <2> QED BY <1>1, <1>5, <1>10, <1>11, <2>1 DEF IInv, ChunksInv
<1>13. NumbersInv'
  <2>1. seq'[p] = sent'[p] % N
    BY <1>1, <1>5, NextWire DEF IInv, NumbersInv, TypeOK
  <2>2. \A q \in Peers : q # p => seq'[q] = seq[q]
    BY <1>1
  <2> QED BY <1>1, <1>5, <2>1, <2>2 DEF IInv, NumbersInv
<1>14. LifeInv'
  BY <1>1, <1>5, <1>10, <1>11 DEF IInv, LifeInv
<1>15. CountsInv'
  <2> SUFFICES ASSUME NEW q \in Peers
      PROVE  /\ acked[q] <= Len(delivered[Other(q)])
             /\ Len(delivered[q]) <= sent'[Other(q)]
             /\ sent'[q] - acked[q] <= MaxLead
    BY <1>1 DEF CountsInv
  <2>1. /\ acked[q] <= Len(delivered[Other(q)]) /\ Len(delivered[q]) <= sent[Other(q)]
        /\ sent[q] - acked[q] <= MaxLead
    BY DEF IInv, CountsInv
  <2>2. Len(delivered[q]) \in Nat /\ acked[q] \in Nat /\ Other(q) \in Peers /\ MaxLead \in Nat
    BY Ends, LenProperties, WindowAssumption DEF IInv, TypeOK
  <2>3. sent[Other(q)] <= sent'[Other(q)] /\ sent[Other(q)] \in Nat /\ sent'[Other(q)] \in Nat
    BY <1>5, <2>2 DEF IInv, TypeOK
  <2>4. Len(delivered[q]) <= sent'[Other(q)]
    BY <2>1, <2>2, <2>3
  <2>5. sent'[q] - acked[q] <= MaxLead
    BY <1>1, <1>5, <2>1, <2>2
  <2> QED BY <2>1, <2>4, <2>5
<1>16. InboxInv' /\ InOrder'
  BY <1>1 DEF IInv, InboxInv, InOrder
<1> QED BY <1>9, <1>12, <1>13, <1>14, <1>15, <1>16 DEF IInv

\* The sequence filter recognises the chunk due: no other chunk that can be
\* in the unpacker has its wire number.
LEMMA FilterExact ==
  ASSUME IInv, NEW p \in Peers, life[p] = "open", inbox[p] # <<>>,
         InSequence(p, Head(inbox[p]).seq)
  PROVE  Head(inbox[p]).idx = Len(delivered[p]) + 1
<1> DEFINE c == Head(inbox[p])
           n == Len(delivered[p])
<1>1. inbox[p] \in Seq(Good(sent[Other(p)])) /\ Other(p) \in Peers
  BY Ends DEF IInv, ChunksInv
<1>2. c = inbox[p][1] /\ c \in Good(sent[Other(p)]) /\ 1 \in 1 .. Len(inbox[p])
  BY <1>1, HeadTailProperties, ElementOfSeq, EmptySeq
<1>3. /\ n \in Nat /\ sent[Other(p)] \in Nat /\ acked[Other(p)] \in Nat
      /\ c.idx \in Nat /\ c.idx <= sent[Other(p)] /\ c.seq = c.idx % N
  BY <1>1, <1>2, LenProperties DEF IInv, TypeOK, Good, Chunk
<1>4. c.idx + N > n + 1
  BY <1>2 DEF IInv, InboxInv
<1>5. sent[Other(p)] - acked[Other(p)] <= MaxLead /\ acked[Other(p)] <= n
  BY <1>1, Ends DEF IInv, CountsInv
<1>6. c.idx % N = (n + 1) % N
  BY <1>3, NextWire DEF IInv, NumbersInv, InSequence
<1>7. c.idx - (n + 1) < N /\ (n + 1) - c.idx < N /\ n + 1 \in Nat
  <2> HIDE DEF c, n
  <2>1. N \in Nat /\ MaxLead \in Nat /\ MaxLead < N
    BY WindowAssumption
  <2>2. acked[Other(p)] <= n /\ sent[Other(p)] - acked[Other(p)] <= MaxLead
    BY <1>5 DEF n
  <2> QED BY <1>3, <1>4, <2>1, <2>2
<1> HIDE DEF c, n
<1>8. c.idx = n + 1
  <2> DEFINE k == n + 1
  <2>1. k \in Nat /\ c.idx - k < N /\ k - c.idx < N /\ c.idx % N = k % N
    BY <1>6, <1>7
  <2> HIDE DEF k
  <2>2. c.idx = k
    BY <1>3, <2>1, WireInjective
  <2> QED BY <2>2 DEF k
<1> QED BY <1>8 DEF c, n

LEMMA FetchStep ==
  ASSUME IInv, TypeOK', NEW p \in Peers, FetchChunk(p)
  PROVE  IInv'
<1> DEFINE c == Head(inbox[p])
           n == Len(delivered[p])
           t == Tail(inbox[p])
<1>1. /\ inbox[p] # <<>> /\ inbox' = [inbox EXCEPT ![p] = t]
      /\ state' = state /\ seq' = seq /\ peerAck' = peerAck /\ remoteClosed' = remoteClosed
      /\ buffer' = buffer /\ net' = net /\ sent' = sent /\ acked' = acked /\ life' = life
  BY DEF FetchChunk
<1>2. /\ t \in Seq(Good(sent[Other(p)])) /\ Len(t) \in Nat
      /\ Len(inbox[p]) = Len(t) + 1 /\ \A i \in 1 .. Len(t) : t[i] = inbox[p][i + 1]
  <2>1. inbox[p] \in Seq(Good(sent[Other(p)]))
    BY DEF IInv, ChunksInv
  <2>2. /\ t \in Seq(Good(sent[Other(p)])) /\ Len(t) = Len(inbox[p]) - 1
        /\ \A i \in 1 .. Len(t) : t[i] = inbox[p][i + 1]
    BY <1>1, <2>1, HeadTailProperties
  <2>3. Len(t) \in Nat /\ Len(inbox[p]) \in Nat
    BY <2>1, <2>2, LenProperties
  <2> HIDE DEF t
  <2> QED BY <2>2, <2>3
<1>3. inbox'[p] = t /\ \A q \in Peers : q # p => inbox'[q] = inbox[q]
  BY <1>1 DEF IInv, TypeOK
<1> HIDE DEF t
<1>4. ASSUME delivered' = delivered PROVE InboxInv'
  <2> SUFFICES ASSUME NEW q \in Peers, NEW i \in 1 .. Len(inbox'[q])
      PROVE  /\ inbox'[q][i].idx + N > Len(delivered[q]) + 1
             /\ \A j \in 1 .. Len(inbox'[q]) : inbox'[q][i].idx - inbox'[q][j].idx <= N - 2
    BY <1>4 DEF InboxInv
  <2>1. CASE q # p
    BY <1>3, <2>1 DEF IInv, InboxInv
  <2>2. CASE q = p
    <3>1. \A k \in 1 .. Len(t) : k + 1 \in 1 .. Len(inbox[p])
      BY <1>2
    <3> QED BY <1>2, <1>3, <2>2, <3>1 DEF IInv, InboxInv
  <2> QED BY <2>1, <2>2
<1>5. CASE InSequence(p, c.seq)
  <2>1. /\ ack' = [ack EXCEPT ![p] = NextSeq(@)] /\ construct' = construct
        /\ delivered' = IF life[p] = "open" THEN [delivered EXCEPT ![p] = Append(@, c.idx)]
                                            ELSE delivered
    BY <1>5 DEF FetchChunk
  <2>2. ChunksInv'
    BY <1>1, <1>2, <1>3, <2>1 DEF IInv, ChunksInv
  <2>3. CASE life[p] = "open"
    <3>1. c.idx = n + 1
      BY <1>1, <1>5, <2>3, FilterExact
    <3>2. /\ delivered'[p] = Append(delivered[p], n + 1)
          /\ \A q \in Peers : q # p => delivered'[q] = delivered[q]
      BY <2>1, <2>3, <3>1 DEF IInv, TypeOK
    <3>3. n \in Nat /\ \A q \in Peers : Len(delivered[q]) \in Nat
      BY LenProperties DEF IInv, TypeOK
    <3>4. /\ Len(delivered'[p]) = n + 1 /\ delivered'[p][n + 1] = n + 1
          /\ \A i \in 1 .. n : delivered'[p][i] = delivered[p][i]
      BY <3>2, AppendProperties DEF IInv, TypeOK
    <3>5. PacketsInv'
      <4>1. \A q \in Peers : sent[q] <= sent'[q] /\ Len(delivered[q]) <= Len(delivered'[q])
        <5> TAKE q \in Peers
        <5>1. sent[q] \in Nat /\ sent'[q] = sent[q]
          BY <1>1 DEF IInv, TypeOK
        <5>2. CASE q = p
          <6>1. Len(delivered'[q]) = n + 1 /\ Len(delivered[q]) = n
            BY <3>4, <5>2
          <6> QED BY <3>3, <5>1, <6>1
        <5>3. CASE q # p  BY <3>2, <3>3, <5>1, <5>3
        <5> QED BY <5>2, <5>3
      <4> DEFINE none == {}
      <4>2. net' \subseteq net \cup none /\ \A m \in none : PacketGood(m)'
        BY <1>1
      <4> HIDE DEF none
      <4> QED BY <4>1, <4>2, PacketsStep
    <3>6. NumbersInv'
      <4>1. ack'[p] = (n + 1) % N
        BY <2>1, <2>3, <3>3, NextWire DEF IInv, NumbersInv, TypeOK
      <4>2. \A q \in Peers : q # p => ack'[q] = ack[q]
        BY <2>1
      <4> QED BY <1>1, <3>2, <3>4, <4>1, <4>2 DEF IInv, NumbersInv
    <3>7. LifeInv'
      BY <1>1, <2>1, <2>3, <3>2 DEF IInv, LifeInv
    <3>8. c.idx <= sent[Other(p)]
      <4>1. inbox[p] \in Seq(Good(sent[Other(p)]))
        BY DEF IInv, ChunksInv
      <4>2. c \in Good(sent[Other(p)])
        BY <1>1, <4>1, HeadTailProperties
      <4> QED BY <4>2 DEF Good
    <3>9. CountsInv'
      <4> SUFFICES ASSUME NEW q \in Peers
          PROVE  /\ acked[q] <= Len(delivered'[Other(q)])
                 /\ Len(delivered'[q]) <= sent[Other(q)]
                 /\ sent[q] - acked[q] <= MaxLead
        BY <1>1 DEF CountsInv
      <4>1. /\ acked[q] <= Len(delivered[Other(q)]) /\ Len(delivered[q]) <= sent[Other(q)]
            /\ sent[q] - acked[q] <= MaxLead /\ Other(q) \in Peers /\ acked[q] \in Nat
        BY Ends DEF IInv, CountsInv, TypeOK
      <4>2. acked[q] <= Len(delivered'[Other(q)])
        BY <3>2, <3>3, <3>4, <4>1
      <4>3. Len(delivered'[q]) <= sent[Other(q)]
        BY <3>1, <3>2, <3>4, <3>8, <4>1
      <4> QED BY <4>1, <4>2, <4>3
    <3>10. InboxInv'
      <4> SUFFICES ASSUME NEW q \in Peers, NEW i \in 1 .. Len(inbox'[q])
          PROVE  /\ inbox'[q][i].idx + N > Len(delivered'[q]) + 1
                 /\ \A j \in 1 .. Len(inbox'[q]) : inbox'[q][i].idx - inbox'[q][j].idx <= N - 2
        BY DEF InboxInv
      <4>1. CASE q # p
        BY <1>3, <3>2, <4>1 DEF IInv, InboxInv
      <4>2. CASE q = p
        <5>1. 1 \in 1 .. Len(inbox[p]) /\ \A k \in 1 .. Len(t) : k + 1 \in 1 .. Len(inbox[p])
          BY <1>2
        <5>2. inbox[p][1] = c
          BY <1>1 DEF IInv, TypeOK
        <5>3. \A k \in 1 .. Len(inbox[p]) : inbox[p][k].idx \in Nat
          <6> TAKE k \in 1 .. Len(inbox[p])
          <6>1. inbox[p][k] \in Chunk
            BY ElementOfSeq DEF IInv, TypeOK
          <6> QED BY <6>1 DEF Chunk
        <5>4. c.idx - inbox[p][i + 1].idx <= N - 2
          BY <1>3, <4>2, <5>1, <5>2 DEF IInv, InboxInv
        <5>5. i \in 1 .. Len(t) /\ inbox'[p] = t
          BY <1>3, <4>2
        <5>6. t[i].idx + N > n + 2
          <6>1. t[i] = inbox[p][i + 1] /\ inbox[p][i + 1].idx \in Nat
            BY <1>2, <5>1, <5>3, <5>5
          <6>2. N \in Nat
            BY WindowAssumption
          <6> HIDE DEF c, n
          <6> QED BY <3>1, <3>3, <5>4, <6>1, <6>2
        <5>7. \A j \in 1 .. Len(t) : t[i].idx - t[j].idx <= N - 2
          BY <1>2, <5>1, <5>5 DEF IInv, InboxInv
        <5>8. Len(delivered'[p]) + 1 = n + 2
          BY <3>3, <3>4
        <5> QED BY <4>2, <5>5, <5>6, <5>7, <5>8
      <4> QED BY <4>1, <4>2
    <3>11. InOrder'
      <4> SUFFICES ASSUME NEW q \in Peers, NEW i \in 1 .. Len(delivered'[q])
          PROVE  delivered'[q][i] = i
        <5>1. \A q \in Peers : DOMAIN delivered'[q] = 1 .. Len(delivered'[q])
          <6> TAKE q \in Peers
          <6>1. delivered'[q] \in Seq(Nat \ {0})
            BY DEF TypeOK
          <6> QED BY <6>1, LenProperties
        <5>2. SUFFICES ASSUME NEW q \in Peers PROVE \A i \in DOMAIN delivered'[q] : delivered'[q][i] = i
          BY DEF InOrder
        <5> QED BY <5>1
      <4>1. \A k \in 1 .. Len(delivered[q]) : delivered[q][k] = k
        <5>1. delivered[q] \in Seq(Nat \ {0})
          BY DEF IInv, TypeOK
        <5>2. DOMAIN delivered[q] = 1 .. Len(delivered[q])
          BY <5>1, LenProperties
        <5>3. \A k \in DOMAIN delivered[q] : delivered[q][k] = k
          BY DEF IInv, InOrder
        <5> QED BY <5>2, <5>3
      <4>2. CASE q # p  BY <3>2, <4>1, <4>2
      <4>3. CASE q = p  BY <3>3, <3>4, <4>1, <4>3
      <4> QED BY <4>2, <4>3
    <3> QED BY <2>2, <3>5, <3>6, <3>7, <3>9, <3>10, <3>11 DEF IInv
  <2>4. CASE life[p] # "open"
    <3>1. delivered' = delivered
      BY <2>1, <2>4
    <3>2. NumbersInv'
      BY <1>1, <2>1, <2>4, <3>1 DEF IInv, NumbersInv
    <3>3. PacketsInv' /\ LifeInv' /\ CountsInv' /\ InOrder'
      BY <1>1, <2>1, <3>1 DEF IInv, PacketsInv, PacketGood, LifeInv, CountsInv, InOrder
    <3>4. InboxInv'
      BY <1>4, <3>1
    <3> QED BY <2>2, <3>2, <3>3, <3>4 DEF IInv
  <2> QED BY <2>3, <2>4
<1>6. CASE ~InSequence(p, c.seq)
  <2>1. /\ ack' = ack /\ delivered' = delivered
        /\ construct' = [construct EXCEPT ![p].resend = @ \/ ~IsSeqInBackroom(c.seq, ack[p])]
    BY <1>6 DEF FetchChunk
  <2>2. \A q \in Peers : construct'[q].chunks = construct[q].chunks
    BY <2>1 DEF IInv, TypeOK
  <2>3. ChunksInv'
    BY <1>1, <1>2, <1>3, <2>2 DEF IInv, ChunksInv
  <2>4. InboxInv'
    BY <1>4, <2>1
  <2>5. PacketsInv' /\ LifeInv' /\ NumbersInv' /\ CountsInv' /\ InOrder'
    BY <1>1, <2>1, <2>2 DEF IInv, PacketsInv, PacketGood, LifeInv, NumbersInv, CountsInv, InOrder
  <2> QED BY <2>3, <2>4, <2>5 DEF IInv
<1> QED BY <1>5, <1>6

-----------------------------------------------------------------------------
(* The invariant is kept: packets.                                         *)

\* What Feed knows of a packet: it is good, and an acknowledgement that
\* passes the window test of an open connection is not older than the latest.
LEMMA FeedKnows ==
  ASSUME IInv, NEW p \in Peers, NEW m, NEW old, Receives(p, m, old)
  PROVE  /\ m \in Packet /\ m.src = Other(p) /\ PacketGood(m) /\ m.acked \in Nat
         /\ m.acked <= Len(delivered[Other(p)])
         /\ life[p] = "open" /\ AckInWindow(seq[p], peerAck[p], m.ack) => acked[p] <= m.acked
<1>1. m \in Packet /\ m.src = Other(p) /\ PacketGood(m) /\ m.acked \in Nat
  BY DEF Receives, IInv, TypeOK, PacketsInv, Packet
<1>2. m.acked <= Len(delivered[Other(p)])
  BY <1>1 DEF PacketGood
<1>3. ASSUME life[p] = "open", AckInWindow(seq[p], peerAck[p], m.ack)
      PROVE  acked[p] <= m.acked
  <2>1. seq[p] = sent[p] % N /\ peerAck[p] = acked[p] % N /\ m.ack = m.acked % N
    BY <1>1, <1>3 DEF IInv, NumbersInv, PacketGood
  <2>2. /\ sent[p] \in Nat /\ acked[p] \in Nat /\ Other(p) \in Peers
        /\ Len(delivered[Other(p)]) \in Nat
    BY Ends, LenProperties DEF IInv, TypeOK
  <2>3. /\ acked[p] <= Len(delivered[Other(p)]) /\ Len(delivered[Other(p)]) <= sent[p]
        /\ sent[p] - acked[p] <= MaxLead
    BY <2>2, Ends DEF IInv, CountsInv
  <2>4. sent[p] - m.acked < N
    BY DEF Receives, Fresh
  <2>5. /\ acked[p] <= sent[p] /\ sent[p] - acked[p] < N
        /\ m.acked <= sent[p] /\ sent[p] - m.acked < N
    BY <1>1, <1>2, <2>2, <2>3, <2>4, WindowAssumption
  <2> QED BY <1>1, <1>3, <2>1, <2>2, <2>5, WindowOrders
<1> QED BY <1>1, <1>2, <1>3

\* The part of the invariant the common start of Feed keeps.
LEMMA FeedAckStep ==
  ASSUME IInv, NEW p \in Peers, NEW m, NEW old, FeedAck(p, m, old),
         sent' = sent, delivered' = delivered, life' = life, seq' = seq, ack' = ack
  PROVE  NumbersInv' /\ CountsInv' /\ InOrder'
<1>1. /\ m.acked \in Nat /\ m.ack = m.acked % N /\ m.acked <= Len(delivered[Other(p)])
      /\ life[p] = "open" => acked[p] <= m.acked
  BY FeedKnows DEF FeedAck, PacketGood
<1>2. /\ peerAck' = [peerAck EXCEPT ![p] = m.ack]
      /\ acked' = IF life[p] = "open" THEN [acked EXCEPT ![p] = m.acked] ELSE acked
  BY DEF FeedAck
<1>3. \A q \in Peers : q # p => peerAck'[q] = peerAck[q] /\ acked'[q] = acked[q]
  BY <1>2 DEF IInv, TypeOK
<1>4. peerAck'[p] = m.ack /\ acked'[p] = IF life[p] = "open" THEN m.acked ELSE acked[p]
  BY <1>2 DEF IInv, TypeOK
<1>5. NumbersInv'
  BY <1>1, <1>3, <1>4 DEF IInv, NumbersInv
<1>6. CountsInv'
  <2> SUFFICES ASSUME NEW q \in Peers
      PROVE  /\ acked'[q] <= Len(delivered[Other(q)])
             /\ Len(delivered[q]) <= sent[Other(q)]
             /\ sent[q] - acked'[q] <= MaxLead
    BY DEF CountsInv
  <2>1. /\ acked[q] <= Len(delivered[Other(q)]) /\ Len(delivered[q]) <= sent[Other(q)]
        /\ sent[q] - acked[q] <= MaxLead /\ sent[q] \in Nat /\ acked[q] \in Nat
        /\ MaxLead \in Nat
    BY WindowAssumption DEF IInv, CountsInv, TypeOK
  <2>2. CASE q # p  BY <1>3, <2>1, <2>2
  <2>3. CASE q = p  BY <1>1, <1>4, <2>1, <2>3
  <2> QED BY <2>2, <2>3
<1> QED BY <1>5, <1>6 DEF IInv, InOrder

\* Popping acknowledged chunks leaves good chunks.
LEMMA PoppedGood ==
  ASSUME IInv, NEW p \in Peers, NEW a, NEW S, buffer[p] \in Seq(S), AckChunks(p, a)
  PROVE  buffer'[p] \in Seq(S) /\ \A q \in Peers : q # p => buffer'[q] = buffer[q]
<1>1. PICK j \in 0 .. Len(buffer[p]) :
        buffer' = [buffer EXCEPT ![p] = SubSeq(@, j + 1, Len(@))]
  BY DEF AckChunks
<1>2. Len(buffer[p]) \in Nat /\ \A i \in 1 .. Len(buffer[p]) : buffer[p][i] \in S
  BY LenProperties, ElementOfSeq
<1>3. j + 1 \in Int /\ Len(buffer[p]) \in Int
      /\ \A i \in j + 1 .. Len(buffer[p]) : buffer[p][i] \in S
  BY <1>2
<1>4. SubSeq(buffer[p], j + 1, Len(buffer[p])) \in Seq(S)
  BY <1>3, SubSeqProperties
<1> QED BY <1>1, <1>4 DEF IInv, TypeOK

\* The feed steps that leave the unpacker and the construct alone.
LEMMA FeedStateStep ==
  ASSUME IInv, TypeOK', PacketsInv', NEW p \in Peers, NEW m, NEW old, FeedAck(p, m, old),
         sent' = sent, delivered' = delivered, life' = life, seq' = seq, ack' = ack,
         inbox' = inbox, construct' = construct,
         buffer' = buffer \/ (AckChunks(p, m.ack) /\ life[p] = "open"),
         \A q \in Peers : q # p => state'[q] = state[q] /\ remoteClosed'[q] = remoteClosed[q],
         \/ state'[p] = state[p] /\ remoteClosed'[p] = remoteClosed[p]
         \/ state'[p] = "ERROR" /\ remoteClosed'[p] /\ life[p] # "new"
         \/ state'[p] = "ONLINE" /\ life[p] = "open"
  PROVE  IInv'
<1>1. NumbersInv' /\ CountsInv' /\ InOrder'
  BY FeedAckStep
<1>2. InboxInv'
  BY DEF IInv, InboxInv
<1>3. /\ buffer'[p] \in Seq(Good(sent[p])) /\ \A q \in Peers : q # p => buffer'[q] = buffer[q]
      /\ life[p] # "open" => buffer'[p] = buffer[p]
  <2>1. CASE buffer' = buffer  BY <2>1 DEF IInv, ChunksInv
  <2>2. CASE AckChunks(p, m.ack) /\ life[p] = "open"
    BY <2>2, PoppedGood DEF IInv, ChunksInv
  <2> QED BY <2>1, <2>2
<1>4. ChunksInv'
  BY <1>3 DEF IInv, ChunksInv
<1>5. \A q \in Peers : q # p => acked'[q] = acked[q]
  BY DEF FeedAck, IInv, TypeOK
<1>6. life[p] # "open" => acked'[p] = acked[p]
  BY DEF FeedAck
<1>7. LifeInv'
  <2> SUFFICES ASSUME NEW q \in Peers
      PROVE  /\ life[q] = "new" => /\ state'[q] = "OFFLINE" /\ sent[q] = 0
                                   /\ Len(delivered[q]) = 0 /\ acked'[q] = 0
             /\ life[q] = "open" => state'[q] # "OFFLINE"
             /\ life[q] = "closed" => \/ state'[q] = "OFFLINE"
                                      \/ state'[q] = "ERROR" /\ remoteClosed'[q]
             /\ life[q] # "open" => buffer'[q] = <<>> /\ construct'[q].chunks = <<>>
             /\ state'[q] \in {"CONNECT", "PENDING"} => sent[q] = 0
    BY DEF LifeInv
  <2>1. CASE q # p  BY <1>3, <1>5, <2>1 DEF IInv, LifeInv
  <2>2. CASE q = p
    <3>1. life[p] # "open" => buffer'[p] = <<>> /\ construct'[p].chunks = <<>>
      BY <1>3 DEF IInv, LifeInv
    <3> QED BY <1>6, <2>2, <3>1 DEF IInv, LifeInv
  <2> QED BY <2>1, <2>2
<1> QED BY <1>1, <1>2, <1>4, <1>7 DEF IInv

\* The chunks of a packet that Feed puts in the unpacker.
LEMMA FreshChunks ==
  ASSUME IInv, NEW p \in Peers, NEW m, NEW old, Receives(p, m, old), NEW k \in Nat,
         k <= Len(m.chunks)
  PROVE  LET s == SubSeq(m.chunks, 1, k) IN
         /\ s \in Seq(Good(sent[Other(p)]))
         /\ \A i \in 1 .. Len(s) :
              /\ s[i].idx + N > Len(delivered[p]) + 1
              /\ \A j \in 1 .. Len(s) : s[i].idx - s[j].idx <= N - 2
<1> DEFINE s == SubSeq(m.chunks, 1, k)
           n == Len(delivered[p])
           last == sent[Other(p)]
<1>1. m.chunks \in Seq(Good(last)) /\ Other(p) \in Peers
  BY FeedKnows, Ends DEF PacketGood
<1>2. /\ s \in Seq(Good(last)) /\ Len(s) = k
      /\ \A i \in 1 .. k : s[i] = m.chunks[i] /\ i \in DOMAIN m.chunks
  <2>1. Len(m.chunks) \in Nat /\ DOMAIN m.chunks = 1 .. Len(m.chunks)
        /\ \A i \in 1 .. Len(m.chunks) : m.chunks[i] \in Good(last)
    BY <1>1, LenProperties, ElementOfSeq
  <2>2. 1 \in Int /\ k \in Int /\ \A i \in 1 .. k : m.chunks[i] \in Good(last)
    BY <2>1
  <2>3. /\ s \in Seq(Good(last)) /\ Len(s) = IF 1 <= k THEN k - 1 + 1 ELSE 0
        /\ \A i \in 1 .. k - 1 + 1 : s[i] = m.chunks[1 + i - 1]
    BY <2>2, <1>1, SubSeqProperties
  <2> HIDE DEF s
  <2> QED BY <2>1, <2>3
<1>3. /\ n \in Nat /\ last \in Nat /\ acked[Other(p)] \in Nat
      /\ last - acked[Other(p)] <= MaxLead /\ acked[Other(p)] <= n
      /\ N \in Nat /\ MaxLead \in Nat
  <2>1. acked[Other(p)] <= Len(delivered[Other(Other(p))])
    BY <1>1 DEF IInv, CountsInv
  <2> QED BY <1>1, <2>1, Ends, LenProperties, WindowAssumption DEF IInv, TypeOK, CountsInv
<1>4. \A i \in 1 .. k : /\ s[i].idx \in Nat /\ s[i].idx <= last
                        /\ s[i].idx + N > n + 1 + MaxLead
  <2> TAKE i \in 1 .. k
  <2>1. s[i] \in Good(last)
    BY <1>2, ElementOfSeq
  <2>2. m.chunks[i].idx + N > n + 1 + MaxLead
    BY <1>2 DEF Receives, Fresh
  <2>3. s[i].idx + N > n + 1 + MaxLead
    BY <1>2, <2>2
  <2>4. s[i].idx \in Nat /\ s[i].idx <= last
    BY <2>1 DEF Good, Chunk
  <2> QED BY <2>3, <2>4
<1> HIDE DEF s, n, last
<1>5. \A i, j \in 1 .. k : s[i].idx - s[j].idx <= N - 2
  <2> TAKE i, j \in 1 .. k
  <2>1. s[i].idx \in Nat /\ s[j].idx \in Nat /\ s[i].idx <= last /\ s[j].idx + N > n + 1 + MaxLead
    BY <1>4
  <2>2. last <= n + MaxLead
    BY <1>3
  <2> DEFINE x == s[i].idx
             y == s[j].idx
  <2>3. x \in Nat /\ y \in Nat /\ x <= last /\ y + N > n + 1 + MaxLead
    BY <2>1
  <2> HIDE DEF x, y
  <2>4. x - y <= N - 2
    BY <1>3, <2>2, <2>3
  <2> QED BY <2>4 DEF x, y
<1>6. \A i \in 1 .. k : s[i].idx + N > n + 1
  <2> TAKE i \in 1 .. k
  <2> DEFINE x == s[i].idx
  <2>1. x \in Nat /\ x + N > n + 1 + MaxLead
    BY <1>4
  <2> HIDE DEF x
  <2>2. x + N > n + 1
    BY <2>1, <1>3
  <2> QED BY <2>2 DEF x
<1> QED BY <1>2, <1>5, <1>6 DEF s, n, last

LEMMA FeedDataStep ==
  ASSUME IInv, TypeOK', NEW p \in Peers, NEW m, NEW old, FeedData(p, m, old)
  PROVE  IInv'
<1> DEFINE again == IF m.resend THEN buffer[p] ELSE <<>>
           next  == IF state[p] = "PENDING" THEN "ONLINE" ELSE state[p]
           rest  == ConstructAfter(p, again)
           k     == Len(m.chunks) % ChunkMod
           new   == SubSeq(m.chunks, 1, k)
           S     == Good(sent[p])
<1>1. /\ FeedAck(p, m, old) /\ Receives(p, m, old)
      /\ seq' = seq /\ ack' = ack /\ remoteClosed' = remoteClosed
      /\ sent' = sent /\ delivered' = delivered /\ life' = life
      /\ construct' = [construct EXCEPT ![p] = rest]
      /\ state' = [state EXCEPT ![p] = next]
      /\ inbox' = [inbox EXCEPT ![p] = new]
      /\ Transmit(FlushedBy(p, again), old)
  BY DEF FeedData, FeedAck
<1>2. IF next = "ONLINE" THEN AckChunks(p, m.ack) ELSE buffer' = buffer
  BY DEF FeedData
<1>3. again \in Seq(S) /\ construct[p].chunks \in Seq(S) /\ construct[p].resend \in BOOLEAN
      /\ buffer[p] \in Seq(S)
  BY EmptySeq DEF IInv, ChunksInv, TypeOK
<1>4. /\ rest \in [chunks : Seq(S), resend : BOOLEAN]
      /\ \A x \in FlushedBy(p, again) :
           \E chunks \in Seq(S), r \in BOOLEAN : x = DataPacket(p, chunks, r)
      /\ construct[p].chunks = <<>> /\ again = <<>> =>
           FlushedBy(p, again) = {} /\ rest.chunks = <<>>
  <2> HIDE DEF again, S
  <2> QED BY <1>3, AppendChunks
<1>5. life[p] # "open" => /\ FlushedBy(p, again) = {} /\ rest.chunks = <<>>
                          /\ buffer[p] = <<>> /\ state[p] \in {"OFFLINE", "ERROR"}
  <2>1. life[p] # "open" => /\ buffer[p] = <<>> /\ construct[p].chunks = <<>>
                            /\ state[p] \in {"OFFLINE", "ERROR"}
    BY DEF IInv, LifeInv, TypeOK
  <2>2. life[p] # "open" => again = <<>>
    BY <2>1
  <2> HIDE DEF again, rest
  <2> QED BY <1>4, <2>1, <2>2
<1>6. PacketsInv'
  <2>1. \A x \in FlushedBy(p, again) : PacketGood(x)'
    <3>1. CASE life[p] = "open"  BY <1>1, <1>4, <3>1, OwnPackets
    <3>2. CASE life[p] # "open"  BY <1>5, <3>2
    <3> QED BY <3>1, <3>2
  <2> QED BY <1>1, <2>1, SentPackets
<1>7. NumbersInv' /\ CountsInv' /\ InOrder'
  BY <1>1, FeedAckStep
<1>8. /\ buffer'[p] \in Seq(S) /\ \A q \in Peers : q # p => buffer'[q] = buffer[q]
      /\ life[p] # "open" => buffer'[p] = <<>>
  <2>1. CASE buffer' = buffer  BY <1>3, <1>5, <2>1
  <2>2. CASE AckChunks(p, m.ack) /\ life[p] = "open"
    BY <1>3, <2>2, PoppedGood
  <2> QED BY <1>2, <1>5, <2>1, <2>2
<1>9. k \in Nat /\ k <= Len(m.chunks)
  <2>1. Len(m.chunks) \in Nat
    BY <1>1, FeedKnows, LenProperties DEF Packet
  <2> QED BY <2>1, ModBound, CapacityAssumption
<1>10. /\ new \in Seq(Good(sent[Other(p)]))
       /\ \A i \in 1 .. Len(new) :
            /\ new[i].idx + N > Len(delivered[p]) + 1
            /\ \A j \in 1 .. Len(new) : new[i].idx - new[j].idx <= N - 2
  <2> HIDE DEF k
  <2> QED BY <1>1, <1>9, FreshChunks
<1> HIDE DEF rest, new, S, k
<1>11. /\ inbox'[p] = new /\ construct'[p] = rest /\ state'[p] = next
       /\ \A q \in Peers : q # p => /\ inbox'[q] = inbox[q] /\ construct'[q] = construct[q]
                                    /\ state'[q] = state[q]
  BY <1>1 DEF IInv, TypeOK
<1>12. ChunksInv'
  <2>1. \A q \in Peers : inbox'[q] \in Seq(Good(sent[Other(q)]))
    BY <1>10, <1>11 DEF IInv, ChunksInv
  <2>2. \A q \in Peers : buffer'[q] \in Seq(Good(sent[q]))
    BY <1>8 DEF IInv, ChunksInv, S
  <2>3. \A q \in Peers : construct'[q].chunks \in Seq(Good(sent[q]))
    BY <1>4, <1>11 DEF IInv, ChunksInv, S
  <2> QED BY <1>1, <2>1, <2>2, <2>3 DEF ChunksInv
<1>13. InboxInv'
  <2> SUFFICES ASSUME NEW q \in Peers, NEW i \in 1 .. Len(inbox'[q])
      PROVE  /\ inbox'[q][i].idx + N > Len(delivered[q]) + 1
             /\ \A j \in 1 .. Len(inbox'[q]) : inbox'[q][i].idx - inbox'[q][j].idx <= N - 2
    BY <1>1 DEF InboxInv
  <2>1. CASE q = p  BY <1>10, <1>11, <2>1
  <2>2. CASE q # p  BY <1>11, <2>2 DEF IInv, InboxInv
  <2> QED BY <2>1, <2>2
<1>14. LifeInv'
  <2> SUFFICES ASSUME NEW q \in Peers
      PROVE  /\ life[q] = "new" => /\ state'[q] = "OFFLINE" /\ sent[q] = 0
                                   /\ Len(delivered[q]) = 0 /\ acked'[q] = 0
             /\ life[q] = "open" => state'[q] # "OFFLINE"
             /\ life[q] = "closed" => \/ state'[q] = "OFFLINE"
                                      \/ state'[q] = "ERROR" /\ remoteClosed[q]
             /\ life[q] # "open" => buffer'[q] = <<>> /\ construct'[q].chunks = <<>>
             /\ state'[q] \in {"CONNECT", "PENDING"} => sent[q] = 0
    BY <1>1 DEF LifeInv
  <2>1. \A r \in Peers : r # p => acked'[r] = acked[r]
    <3>1. acked' = acked \/ acked' = [acked EXCEPT ![p] = m.acked]
      BY <1>1 DEF FeedAck
    <3>2. acked \in [Peers -> Nat]
      BY DEF IInv, TypeOK
    <3> QED BY <3>1, <3>2
  <2>2. life[p] # "open" => acked'[p] = acked[p]
    BY <1>1 DEF FeedAck
  <2>3. CASE q # p
    BY <1>8, <1>11, <2>1, <2>3 DEF IInv, LifeInv
  <2>4. CASE q = p
    <3>1. life[p] # "open" => /\ state'[p] = state[p] /\ buffer'[p] = <<>>
                              /\ construct'[p].chunks = <<>>
      BY <1>5, <1>8, <1>11
    <3>2. state'[p] = state[p] \/ state'[p] = "ONLINE"
      BY <1>11
    <3> QED BY <2>2, <2>4, <3>1, <3>2 DEF IInv, LifeInv
  <2> QED BY <2>3, <2>4
<1> QED BY <1>6, <1>7, <1>12, <1>13, <1>14 DEF IInv

LEMMA FeedStep ==
  ASSUME IInv, TypeOK', NEW p \in Peers, NEW m, NEW old, Feed(p, m, old)
  PROVE  IInv'
<1> DEFINE none == {}
<1>0. \A x \in none : PacketGood(x)'
  OBVIOUS
<1>1. CASE FeedIgnored(p, m, old)
  <2>1. net' \subseteq net
    BY <1>1, TransmitAdds DEF FeedIgnored
  <2> QED BY <1>1, <2>1, NetworkStep DEF FeedIgnored
<1>2. CASE FeedConnect(p, m, old)
  BY <1>2, OpeningSteps DEF FeedConnect
<1>3. CASE FeedData(p, m, old)
  BY <1>3, FeedDataStep
<1>4. CASE FeedClose(p, m, old)
  <2>1. /\ FeedAck(p, m, old) /\ Transmit(none, old)
        /\ sent' = sent /\ delivered' = delivered /\ life' = life /\ seq' = seq /\ ack' = ack
        /\ inbox' = inbox /\ construct' = construct /\ buffer' = buffer
    BY <1>4 DEF FeedClose
  <2>2. PacketsInv'
    <3> HIDE DEF none
    <3> QED BY <1>0, <2>1, SentPackets
  <2>3. /\ \A q \in Peers : q # p => state'[q] = state[q] /\ remoteClosed'[q] = remoteClosed[q]
        /\ \/ state'[p] = state[p] /\ remoteClosed'[p] = remoteClosed[p]
           \/ state'[p] = "ERROR" /\ remoteClosed'[p] /\ life[p] # "new"
    BY <1>4 DEF FeedClose, IInv, TypeOK
  <2> QED BY <2>1, <2>2, <2>3, FeedStateStep
<1>5. CASE FeedConnectAccept(p, m, old)
  <2>1. /\ FeedAck(p, m, old) /\ Transmit({ControlPacket(p, "ACCEPT")}, old)
        /\ sent' = sent /\ delivered' = delivered /\ life' = life /\ seq' = seq /\ ack' = ack
        /\ inbox' = inbox /\ construct' = construct /\ AckChunks(p, m.ack)
        /\ remoteClosed' = remoteClosed /\ state' = [state EXCEPT ![p] = "ONLINE"]
    BY <1>5 DEF FeedConnectAccept
  <2>2. life[p] = "open"
    BY <1>5, LiveIsOpen DEF FeedConnectAccept
  <2>3. \A x \in {ControlPacket(p, "ACCEPT")} : PacketGood(x)'
    BY <2>1, <2>2, OwnPackets DEF Controls
  <2>4. PacketsInv'
    BY <2>1, <2>3, SentPackets
  <2>5. state'[p] = "ONLINE" /\ \A q \in Peers : q # p => state'[q] = state[q]
    BY <2>1 DEF IInv, TypeOK
  <2> QED BY <2>1, <2>2, <2>4, <2>5, FeedStateStep
<1>6. CASE FeedControl(p, m, old)
  <2>1. /\ FeedAck(p, m, old) /\ Transmit(none, old)
        /\ sent' = sent /\ delivered' = delivered /\ life' = life /\ seq' = seq /\ ack' = ack
        /\ inbox' = inbox /\ construct' = construct /\ remoteClosed' = remoteClosed
        /\ state' = state
    BY <1>6 DEF FeedControl
  <2>2. PacketsInv'
    <3> HIDE DEF none
    <3> QED BY <1>0, <2>1, SentPackets
  <2>3. buffer' = buffer \/ (AckChunks(p, m.ack) /\ life[p] = "open")
    BY <1>6, LiveIsOpen DEF FeedControl
  <2> QED BY <2>1, <2>2, <2>3, FeedStateStep
<1> QED BY <1>1, <1>2, <1>3, <1>4, <1>5, <1>6 DEF Feed

LEMMA IInvStep ==
  ASSUME IInv, [Next]_vars
  PROVE  IInv'
<1>1. TypeOK'
  BY TypeStep DEF IInv
<1>2. ASSUME NEW p \in Peers, Connect(p) PROVE IInv'
  BY <1>1, <1>2, OpeningSteps DEF Connect
<1>3. ASSUME NEW p \in Peers, Accept(p) PROVE IInv'
  BY <1>1, <1>3, OpeningSteps DEF Accept
<1>4. ASSUME NEW m \in net, Lose(m) PROVE IInv'
  <2>1. net' \subseteq net
    BY <1>4 DEF Lose
  <2> QED BY <1>4, <2>1, NetworkStep DEF Lose
<1>5. CASE UNCHANGED vars
  <2>1. UNCHANGED <<connVars, inbox, history>> /\ net' \subseteq net
    BY <1>5 DEF vars
  <2> QED BY <2>1, NetworkStep
<1> QED BY <1>1, <1>2, <1>3, <1>4, <1>5, DisconnectStep, FlushStep, FetchStep, SendStep,
           FeedStep, UpdateStep, ExpireStep
        DEF Next

LEMMA IInvInit == Init => IInv
<1> SUFFICES ASSUME Init PROVE IInv
  OBVIOUS
<1>1. TypeOK
  BY TypeInit
<1>2. 0 % N = 0 /\ \A S : <<>> \in Seq(S)
  BY WindowAssumption, EmptySeq
<1>3. \A p \in Peers : /\ buffer[p] = <<>> /\ construct[p].chunks = <<>> /\ inbox[p] = <<>>
                       /\ delivered[p] = <<>> /\ Len(delivered[p]) = 0 /\ sent[p] = 0
                       /\ acked[p] = 0 /\ life[p] = "new" /\ state[p] = "OFFLINE"
                       /\ Len(inbox[p]) = 0 /\ DOMAIN delivered[p] = {}
  BY EmptySeq DEF Init, EmptyConstruct
<1>4. ChunksInv
  BY <1>2, <1>3 DEF ChunksInv
<1>5. PacketsInv /\ NumbersInv /\ InOrder
  BY <1>3 DEF Init, PacketsInv, NumbersInv, InOrder
<1>6. LifeInv
  BY <1>3 DEF LifeInv
<1>7. CountsInv /\ InboxInv
  BY <1>3, Ends, WindowAssumption DEF CountsInv, InboxInv
<1> QED BY <1>1, <1>4, <1>5, <1>6, <1>7 DEF IInv

\* Every behaviour of the two connections stays in the inductive invariant.
THEOREM Invariant == Spec => []IInv
<1>1. IInv /\ [Next]_vars => IInv'
  BY IInvStep
<1> QED BY IInvInit, <1>1, PTL DEF Spec

\* The sequence filter of FetchChunk is exact: for every even sequence space
\* and every send window below half of it, what a connection hands up is
\* 1, 2, 3, ... without loss, duplicate or reordering.
THEOREM DeliveredInOrder == Spec => []InOrder
<1>1. IInv => InOrder
  BY DEF IInv
<1> QED BY Invariant, <1>1, PTL

-----------------------------------------------------------------------------
(* What the resend buffer keeps.  The set in UndeliveredKept is not         *)
(* inductive: popping stops at the first chunk that is not acknowledged,   *)
(* so the buffer must be in order, and hold no acknowledged chunk.         *)

Kept(p) ==
  /\ \A i \in 1 .. Len(buffer[p]) : acked[p] < buffer[p][i].idx
  /\ \A i, j \in 1 .. Len(buffer[p]) : i < j => buffer[p][i].idx < buffer[p][j].idx
  /\ \A x \in acked[p] + 1 .. sent[p] :
       x \in unkept[p] \/ \E i \in 1 .. Len(buffer[p]) : buffer[p][i].idx = x

KeptInv == \A p \in Peers : state[p] = "ONLINE" => Kept(p)

\* What the types and the counts say of the buffer of an end.
LEMMA BufferFacts ==
  ASSUME IInv, NEW p \in Peers
  PROVE  /\ sent[p] \in Nat /\ acked[p] \in Nat /\ acked[p] <= sent[p]
         /\ buffer[p] \in Seq(Good(sent[p])) /\ Len(buffer[p]) \in Nat
         /\ \A i \in 1 .. Len(buffer[p]) :
              /\ buffer[p][i].idx \in Nat /\ buffer[p][i].idx <= sent[p]
              /\ buffer[p][i].seq = buffer[p][i].idx % N
<1>1. /\ sent[p] \in Nat /\ acked[p] \in Nat /\ buffer[p] \in Seq(Good(sent[p]))
      /\ Len(delivered[Other(p)]) \in Nat
  BY Ends, LenProperties DEF IInv, TypeOK, ChunksInv
<1>2. acked[p] <= Len(delivered[Other(p)]) /\ Len(delivered[Other(p)]) <= sent[p]
  BY Ends DEF IInv, CountsInv
<1>3. Len(buffer[p]) \in Nat /\ \A i \in 1 .. Len(buffer[p]) : buffer[p][i] \in Good(sent[p])
  BY <1>1, LenProperties, ElementOfSeq
<1>4. \A c \in Good(sent[p]) : c.idx \in Nat /\ c.idx <= sent[p] /\ c.seq = c.idx % N
  BY DEF Good, Chunk
<1> QED BY <1>1, <1>2, <1>3, <1>4

\* A connection that has queued nothing has nothing to keep.
LEMMA FreshKept ==
  ASSUME NEW b \in Seq(Good(0)), NEW a \in Nat, NEW d \in Nat, a <= d, d <= 0
  PROVE  Len(b) = 0 /\ a = 0
<1>1. Good(0) = {}
  BY DEF Good, Chunk
<1>2. Len(b) \in Nat /\ \A i \in 1 .. Len(b) : b[i] \in {}
  BY <1>1, LenProperties, ElementOfSeq
<1> QED BY <1>2

\* A chunk is queued after all the others, or noted as not kept.
LEMMA SendKept ==
  ASSUME IInv, NEW p \in Peers, NEW flush, NEW kept \in BOOLEAN, Send(p, flush, kept), Kept(p)
  PROVE  Kept(p)'
<1> DEFINE c == [seq |-> NextSeq(seq[p]), idx |-> sent[p] + 1]
           b == buffer[p]
<1>1. /\ sent[p] \in Nat /\ acked[p] \in Nat /\ acked[p] <= sent[p]
      /\ b \in Seq(Good(sent[p])) /\ Len(b) \in Nat
      /\ \A i \in 1 .. Len(b) : b[i].idx \in Nat /\ b[i].idx <= sent[p]
  BY BufferFacts
<1>2. /\ buffer' = IF kept THEN [buffer EXCEPT ![p] = Append(b, c)] ELSE buffer
      /\ unkept' = IF kept THEN unkept ELSE [unkept EXCEPT ![p] = unkept[p] \cup {c.idx}]
      /\ sent' = [sent EXCEPT ![p] = @ + 1]
      /\ acked' = acked
  BY DEF Send
<1>3. c.idx = sent[p] + 1
  OBVIOUS
<1> HIDE DEF c
<1>4. sent'[p] = sent[p] + 1 /\ acked'[p] = acked[p]
  BY <1>2 DEF IInv, TypeOK
<1>5. /\ \A i \in 1 .. Len(b) : acked[p] < b[i].idx
      /\ \A i, j \in 1 .. Len(b) : i < j => b[i].idx < b[j].idx
      /\ \A x \in acked[p] + 1 .. sent[p] :
           x \in unkept[p] \/ \E i \in 1 .. Len(b) : b[i].idx = x
  BY DEF Kept
<1> HIDE DEF b
<1>6. CASE kept
  <2> DEFINE t == Append(b, c)
  <2>1. Len(t) = Len(b) + 1 /\ t[Len(b) + 1] = c /\ \A i \in 1 .. Len(b) : t[i] = b[i]
    BY <1>1, AppendProperties
  <2>2. buffer'[p] = t /\ unkept' = unkept
    BY <1>2, <1>6 DEF IInv, TypeOK, b
  <2> HIDE DEF t
  <2>3. \A i \in 1 .. Len(t) : acked[p] < t[i].idx
    BY <1>1, <1>3, <1>5, <2>1
  <2>4. ASSUME NEW i \in 1 .. Len(t), NEW j \in 1 .. Len(t), i < j
        PROVE  t[i].idx < t[j].idx
    <3>1. i \in 1 .. Len(b)
      BY <1>1, <2>1, <2>4
    <3>2. CASE j \in 1 .. Len(b)
      BY <1>5, <2>1, <2>4, <3>1, <3>2
    <3>3. CASE j = Len(b) + 1
      BY <1>1, <1>3, <2>1, <3>1, <3>3
    <3> QED BY <1>1, <2>1, <3>2, <3>3
  <2>5. ASSUME NEW x \in acked[p] + 1 .. sent[p] + 1
        PROVE  x \in unkept[p] \/ \E i \in 1 .. Len(t) : t[i].idx = x
    <3>1. CASE x = sent[p] + 1
      <4>1. Len(b) + 1 \in 1 .. Len(t)
        BY <1>1, <2>1
      <4> QED BY <1>3, <2>1, <3>1, <4>1
    <3>2. CASE x # sent[p] + 1
      <4>1. x \in acked[p] + 1 .. sent[p]
        BY <1>1, <3>2
      <4>2. ASSUME NEW i \in 1 .. Len(b), b[i].idx = x
            PROVE  i \in 1 .. Len(t) /\ t[i].idx = x
        BY <1>1, <2>1, <4>2
      <4> QED BY <1>5, <4>1, <4>2
    <3> QED BY <3>1, <3>2
  <2> QED BY <1>4, <2>2, <2>3, <2>4, <2>5 DEF Kept
<1>7. CASE ~kept
  <2>1. buffer'[p] = b /\ unkept'[p] = unkept[p] \cup {sent[p] + 1}
    BY <1>2, <1>3, <1>7 DEF IInv, TypeOK, b
  <2>2. ASSUME NEW x \in acked[p] + 1 .. sent[p] + 1
        PROVE  x \in unkept'[p] \/ \E i \in 1 .. Len(b) : b[i].idx = x
    <3>1. x = sent[p] + 1 \/ x \in acked[p] + 1 .. sent[p]
      BY <1>1
    <3> QED BY <1>5, <2>1, <3>1
  <2> QED BY <1>4, <1>5, <2>1, <2>2 DEF Kept
<1> QED BY <1>6, <1>7

\* Two numbers inside one window of chunks in flight are less than half of the
\* sequence space apart.
LEMMA LeadClose ==
  ASSUME NEW low \in Nat, NEW high \in Nat, NEW x \in Nat, NEW y \in Nat, NEW lead \in Nat, NEW size \in Nat,
         low <= x, x <= high, low <= y, y <= high, high - low <= lead, 2 * lead < size
  PROVE  2 * (x - y) < size /\ 2 * (y - x) < size
<1>1. x - y <= lead /\ y - x <= lead
  OBVIOUS
<1> QED BY <1>1

\* AckChunks pops exactly the chunks that the acknowledgement newly covers.
LEMMA AckKept ==
  ASSUME IInv, NEW p \in Peers, NEW m, NEW old, FeedAck(p, m, old), life[p] = "open",
         AckChunks(p, m.ack), sent' = sent, Kept(p)
  PROVE  Kept(p)'
<1> DEFINE b == buffer[p]
<1>1. /\ m.acked \in Nat /\ m.ack = m.acked % N /\ acked[p] <= m.acked
      /\ m.acked <= Len(delivered[Other(p)])
      /\ acked' = [acked EXCEPT ![p] = m.acked]
      /\ unkept' = [unkept EXCEPT ![p] = {i \in unkept[p] : i > m.acked}]
  BY FeedKnows DEF FeedAck, PacketGood
<1>2. /\ sent[p] \in Nat /\ acked[p] \in Nat /\ sent[p] - acked[p] <= MaxLead
      /\ m.acked <= sent[p] /\ 2 * MaxLead < N /\ MaxLead \in Nat /\ N \in Nat
  <2>1. Other(p) \in Peers /\ Other(Other(p)) = p
    BY Ends
  <2>2. Len(delivered[Other(p)]) <= sent[p] /\ Len(delivered[Other(p)]) \in Nat
    BY <2>1, LenProperties DEF IInv, CountsInv, TypeOK
  <2>3. /\ sent[p] \in Nat /\ acked[p] \in Nat /\ sent[p] - acked[p] <= MaxLead
        /\ 2 * MaxLead < N /\ MaxLead \in Nat /\ N \in Nat
    BY WindowAssumption DEF IInv, CountsInv, TypeOK
  <2> QED BY <1>1, <2>2, <2>3
<1>3. /\ b \in Seq(Good(sent[p])) /\ Len(b) \in Nat
      /\ \A i \in 1 .. Len(b) :
           b[i].idx \in Nat /\ b[i].idx <= sent[p] /\ b[i].seq = b[i].idx % N
  BY BufferFacts
<1>4. /\ \A i \in 1 .. Len(b) : acked[p] < b[i].idx
      /\ \A i, j \in 1 .. Len(b) : i < j => b[i].idx < b[j].idx
      /\ \A x \in acked[p] + 1 .. sent[p] :
           x \in unkept[p] \/ \E i \in 1 .. Len(b) : b[i].idx = x
  BY DEF Kept
<1>5. PICK j \in 0 .. Len(b) :
        /\ \A i \in 1 .. j : IsSeqInBackroom(b[i].seq, m.ack)
        /\ j < Len(b) => ~IsSeqInBackroom(b[j + 1].seq, m.ack)
        /\ buffer' = [buffer EXCEPT ![p] = SubSeq(b, j + 1, Len(b))]
  BY DEF AckChunks
<1> HIDE DEF b
<1>6. ASSUME NEW i \in 1 .. Len(b)
      PROVE  IsSeqInBackroom(b[i].seq, m.ack) <=> b[i].idx <= m.acked
  <2> DEFINE low == acked[p]
             high == sent[p]
             x == b[i].idx
             y == m.acked
  <2>1. b[i].seq = x % N /\ m.ack = y % N
    BY <1>1, <1>3
  <2>2. low \in Nat /\ high \in Nat /\ x \in Nat /\ y \in Nat /\ MaxLead \in Nat /\ N \in Nat
    BY <1>1, <1>2, <1>3
  <2>3. low <= x /\ x <= high /\ low <= y /\ y <= high
    BY <1>1, <1>2, <1>3, <1>4
  <2>4. high - low <= MaxLead /\ 2 * MaxLead < N
    BY <1>2
  <2> HIDE DEF low, high, x, y
  <2>5. 2 * (x - y) < N /\ 2 * (y - x) < N
    BY <2>2, <2>3, <2>4, LeadClose
  <2>6. IsSeqInBackroom(x % N, y % N) <=> x <= y
    BY <2>2, <2>5, BackroomOrders
  <2> QED BY <2>1, <2>6 DEF x, y
<1>7. j \in Nat /\ j <= Len(b)
  BY <1>3, <1>5
<1>8. ASSUME NEW i \in 1 .. Len(b)
      PROVE  /\ i <= j => b[i].idx <= m.acked
             /\ i > j => b[i].idx > m.acked
  <2>1. CASE i <= j
    BY <1>5, <1>6, <1>7, <2>1
  <2>2. CASE i > j
    <3>1. j + 1 \in 1 .. Len(b) /\ j < Len(b)
      BY <1>3, <1>7, <2>2
    <3>2. b[j + 1].idx > m.acked
      BY <1>1, <1>3, <1>5, <1>6, <3>1
    <3>3. i = j + 1 \/ b[j + 1].idx < b[i].idx
      BY <1>4, <1>7, <2>2, <3>1
    <3>4. b[j + 1].idx \in Nat /\ b[i].idx \in Nat
      BY <1>3, <3>1
    <3>5. CASE i = j + 1  BY <2>2, <3>2, <3>5
    <3>6. CASE i # j + 1  BY <1>1, <2>2, <3>2, <3>3, <3>4, <3>6
    <3> QED BY <3>5, <3>6
  <2> QED BY <1>7, <2>1, <2>2
<1>9. /\ acked'[p] = m.acked /\ buffer'[p] = SubSeq(b, j + 1, Len(b))
      /\ unkept'[p] = {i \in unkept[p] : i > m.acked}
  BY <1>1, <1>5 DEF IInv, TypeOK
<1> DEFINE t == SubSeq(b, j + 1, Len(b))
<1>10. /\ Len(t) = Len(b) - j
       /\ \A i \in 1 .. Len(b) - j : t[i] = b[j + i]
  <2>1. \A i \in j + 1 .. Len(b) : b[i] \in Good(sent[p])
    BY <1>3, <1>7, ElementOfSeq
  <2>2. j + 1 \in Int /\ Len(b) \in Int
    BY <1>3, <1>7
  <2>3. /\ Len(t) = IF j + 1 <= Len(b) THEN Len(b) - (j + 1) + 1 ELSE 0
        /\ \A i \in 1 .. Len(b) - (j + 1) + 1 : t[i] = b[j + 1 + i - 1]
    BY <2>1, <2>2, SubSeqProperties
  <2>4. Len(b) - (j + 1) + 1 = Len(b) - j /\ \A i \in Int : j + 1 + i - 1 = j + i
    BY <1>3, <1>7
  <2> QED BY <1>3, <1>7, <2>3, <2>4
<1>11. buffer'[p] = t
  BY <1>9
<1> HIDE DEF t
<1>12. ASSUME NEW i \in 1 .. Len(t)
       PROVE  j + i \in 1 .. Len(b) /\ j + i > j /\ t[i] = b[j + i]
  BY <1>3, <1>7, <1>10
<1>13. \A i \in 1 .. Len(t) : m.acked < t[i].idx
  BY <1>1, <1>3, <1>8, <1>12
<1>14. ASSUME NEW i \in 1 .. Len(t), NEW k \in 1 .. Len(t), i < k
       PROVE  t[i].idx < t[k].idx
  <2>1. j + i < j + k
    BY <1>7, <1>14
  <2> QED BY <1>4, <1>12, <2>1
<1>15. ASSUME NEW x \in m.acked + 1 .. sent[p]
       PROVE  x \in unkept'[p] \/ \E i \in 1 .. Len(t) : t[i].idx = x
  <2>1. x \in acked[p] + 1 .. sent[p] /\ x > m.acked
    BY <1>1, <1>2
  <2>2. CASE x \in unkept[p]
    BY <1>9, <2>1, <2>2
  <2>3. ASSUME NEW i \in 1 .. Len(b), b[i].idx = x
        PROVE  \E h \in 1 .. Len(t) : t[h].idx = x
    <3>1. i > j
      BY <1>1, <1>7, <1>8, <2>1, <2>3
    <3>2. i - j \in 1 .. Len(t) /\ j + (i - j) = i
      BY <1>3, <1>7, <1>10, <3>1
    <3>3. t[i - j] = b[i]
      BY <1>12, <3>2
    <3> QED BY <2>3, <3>2, <3>3
  <2> QED BY <1>4, <2>1, <2>2, <2>3
<1>16. acked'[p] = m.acked /\ sent'[p] = sent[p]
  BY <1>9
<1> QED BY <1>11, <1>13, <1>14, <1>15, <1>16 DEF Kept

LEMMA KeptStep ==
  ASSUME IInv, KeptInv, Next, IInv'
  PROVE  KeptInv'
<1> SUFFICES ASSUME NEW p \in Peers, state'[p] = "ONLINE"
    PROVE  Kept(p)'
  BY DEF KeptInv
<1>0. state[p] = "ONLINE" => Kept(p) /\ life[p] = "open"
  BY LiveIsOpen DEF KeptInv
<1>1. ASSUME state[p] = "ONLINE", buffer'[p] = buffer[p], sent'[p] = sent[p],
             acked'[p] = acked[p], unkept'[p] = unkept[p]
      PROVE  Kept(p)'
  BY <1>0, <1>1 DEF Kept
<1>2. ASSUME sent'[p] = 0 PROVE Kept(p)'
  <2>1. buffer'[p] \in Seq(Good(0)) /\ acked'[p] \in Nat /\ sent'[p] = sent'[Other(Other(p))]
    BY <1>2, Ends DEF IInv, ChunksInv, TypeOK
  <2>2. Len(delivered'[Other(p)]) \in Nat
    BY Ends, LenProperties DEF IInv, TypeOK
  <2>3. acked'[p] <= Len(delivered'[Other(p)]) /\ Len(delivered'[Other(p)]) <= 0
    BY <1>2, <2>1, Ends DEF IInv, CountsInv
  <2>4. Len(buffer'[p]) = 0 /\ acked'[p] = 0
    BY <2>1, <2>2, <2>3, FreshKept
  <2> QED BY <1>2, <2>4 DEF Kept
<1>3. ASSUME NEW q \in Peers, NEW st, Open(q, st) PROVE Kept(p)'
  <2>1. life[q] = "new" /\ sent' = sent
    BY <1>3 DEF Open
  <2>2. CASE q = p
    <3>1. sent[p] = 0
      BY <2>1, <2>2 DEF IInv, LifeInv
    <3> QED BY <1>2, <2>1, <3>1
  <2>3. CASE q # p
    <3>1. /\ state'[p] = state[p] /\ buffer'[p] = buffer[p] /\ sent'[p] = sent[p]
          /\ acked'[p] = acked[p] /\ unkept'[p] = unkept[p]
      BY <1>3, <2>3 DEF Open, IInv, TypeOK
    <3> QED BY <1>1, <3>1
  <2> QED BY <2>2, <2>3
<1>4. ASSUME NEW q \in Peers, Reset(q) PROVE Kept(p)'
  <2>1. q # p
    BY <1>4 DEF Reset, IInv, TypeOK
  <2>2. /\ state'[p] = state[p] /\ buffer'[p] = buffer[p] /\ sent'[p] = sent[p]
        /\ acked'[p] = acked[p] /\ unkept'[p] = unkept[p]
    BY <1>4, <2>1 DEF Reset, IInv, TypeOK
  <2> QED BY <1>1, <2>2
<1>5. ASSUME NEW q \in Peers, NEW flush \in BOOLEAN, NEW kept \in BOOLEAN, Send(q, flush, kept)
      PROVE  Kept(p)'
  <2>1. state' = state
    BY <1>5 DEF Send
  <2>2. CASE q = p  BY <1>0, <1>5, <2>1, <2>2, SendKept
  <2>3. CASE q # p
    <3>1. /\ buffer'[p] = buffer[p] /\ sent'[p] = sent[p]
          /\ acked'[p] = acked[p] /\ unkept'[p] = unkept[p]
      BY <1>5, <2>3 DEF Send, IInv, TypeOK
    <3> QED BY <1>1, <2>1, <3>1
  <2> QED BY <2>2, <2>3
<1>6. ASSUME state' = state \/ (\E q \in Peers : state' = [state EXCEPT ![q] = "ERROR"]),
             buffer' = buffer, sent' = sent, acked' = acked, unkept' = unkept
      PROVE  Kept(p)'
  <2>1. state[p] = "ONLINE"
    BY <1>6 DEF IInv, TypeOK
  <2> QED BY <1>1, <1>6, <2>1
<1>7. ASSUME NEW q \in Peers, NEW m, NEW old, FeedAck(q, m, old), sent' = sent,
             \/ AckChunks(q, m.ack)
             \/ buffer' = buffer /\ (q = p => state[p] # "ONLINE"),
             q = p => state[p] \in {"CONNECT", "PENDING", "ONLINE"},
             q # p => state'[p] = state[p]
      PROVE  Kept(p)'
  <2>1. CASE q # p
    <3>1. buffer'[p] = buffer[p]
      BY <1>7, <2>1, PoppedGood DEF IInv, ChunksInv
    <3>2. acked'[p] = acked[p] /\ unkept'[p] = unkept[p]
      BY <1>7, <2>1 DEF FeedAck, IInv, TypeOK
    <3> QED BY <1>1, <1>7, <2>1, <3>1, <3>2
  <2>2. CASE q = p /\ state[p] = "ONLINE"
    BY <1>0, <1>7, <2>2, AckKept
  <2>3. CASE q = p /\ state[p] # "ONLINE"
    <3>1. sent[p] = 0
      BY <1>7, <2>3 DEF IInv, LifeInv
    <3> QED BY <1>2, <1>7, <3>1
  <2> QED BY <1>7, <2>1, <2>2, <2>3
<1>8. ASSUME NEW q \in Peers, NEW m, NEW old, Feed(q, m, old) PROVE Kept(p)'
  <2>1. CASE FeedIgnored(q, m, old)
    BY <1>6, <2>1 DEF FeedIgnored, connVars, history
  <2>2. CASE FeedClose(q, m, old)
    <3>1. /\ FeedAck(q, m, old) /\ sent' = sent /\ buffer' = buffer
          /\ q # p => state'[p] = state[p]
      BY <2>2 DEF FeedClose, IInv, TypeOK
    <3>2. q # p
      BY <2>2 DEF FeedClose, IInv, TypeOK, LifeInv
    <3> QED BY <1>7, <3>1, <3>2
  <2>3. CASE FeedConnect(q, m, old)
    BY <1>3, <2>3 DEF FeedConnect
  <2>4. CASE FeedConnectAccept(q, m, old)
    <3>1. /\ FeedAck(q, m, old) /\ sent' = sent /\ AckChunks(q, m.ack)
          /\ q # p => state'[p] = state[p]
          /\ q = p => state[p] = "CONNECT"
      BY <2>4 DEF FeedConnectAccept, IInv, TypeOK
    <3> QED BY <1>7, <3>1
  <2>5. CASE FeedControl(q, m, old)
    <3>1. FeedAck(q, m, old) /\ sent' = sent /\ state' = state
      BY <2>5 DEF FeedControl
    <3>2. IF state[q] = "ONLINE" THEN AckChunks(q, m.ack) ELSE buffer' = buffer
      BY <2>5 DEF FeedControl
    <3>3. AckChunks(q, m.ack) \/ (buffer' = buffer /\ (q = p => state[p] # "ONLINE"))
      BY <3>2
    <3> QED BY <1>7, <3>1, <3>3
  <2>6. CASE FeedData(q, m, old)
    <3> DEFINE next == IF state[q] = "PENDING" THEN "ONLINE" ELSE state[q]
    <3>1. FeedAck(q, m, old) /\ sent' = sent /\ state' = [state EXCEPT ![q] = next]
      BY <2>6 DEF FeedData
    <3>2. IF next = "ONLINE" THEN AckChunks(q, m.ack) ELSE buffer' = buffer
      BY <2>6 DEF FeedData
    <3>3. state'[q] = next /\ (q # p => state'[p] = state[p])
      BY <3>1 DEF IInv, TypeOK
    <3>4. /\ q = p => state[p] \in {"PENDING", "ONLINE"}
          /\ AckChunks(q, m.ack) \/ (buffer' = buffer /\ (q = p => state[p] # "ONLINE"))
      BY <3>2, <3>3
    <3> QED BY <1>7, <3>1, <3>3, <3>4
  <2> QED BY <1>8, <2>1, <2>2, <2>3, <2>4, <2>5, <2>6 DEF Feed
<1>9. ASSUME NEW q \in Peers, NEW due \in BOOLEAN, NEW banned \in BOOLEAN, Expire(q, due, banned)
      PROVE  Kept(p)'
  BY <1>4, <1>6, <1>9 DEF Expire, history
<1>10. ASSUME NEW q \in Peers, Flush(q) \/ FetchChunk(q)
                               \/ (\E due \in BOOLEAN : \E idle : Update(q, due, idle))
       PROVE  Kept(p)'
  <2>1. state' = state /\ buffer' = buffer /\ sent' = sent /\ acked' = acked /\ unkept' = unkept
    BY <1>10 DEF Flush, FetchChunk, Update, history
  <2> QED BY <1>6, <2>1
<1>11. ASSUME NEW m \in net, Lose(m) PROVE Kept(p)'
  BY <1>6, <1>11 DEF Lose, connVars, history
<1> QED BY <1>3, <1>4, <1>5, <1>8, <1>9, <1>10, <1>11 DEF Next, Connect, Accept, Disconnect

\* No chunk the peer lacks leaves the resend buffer, for every window below
\* half of the sequence space and every buffer, full or not: what is missing
\* never found room in it.
THEOREM ResendComplete == Spec => []UndeliveredKept
<1>1. Init => KeptInv
  <2> SUFFICES ASSUME Init, NEW p \in Peers PROVE state[p] # "ONLINE"
    BY DEF KeptInv
  <2> QED BY DEF Init
<1>2. IInv /\ IInv' /\ KeptInv /\ [Next]_vars => KeptInv'
  <2>1. ASSUME KeptInv, UNCHANGED vars PROVE KeptInv'
    BY <2>1 DEF vars, connVars, history, KeptInv, Kept
  <2> QED BY <2>1, KeptStep
<1>3. IInv /\ KeptInv => UndeliveredKept
  <2> SUFFICES ASSUME IInv, NEW p \in Peers, state[p] = "ONLINE", Kept(p),
                      NEW x \in Len(delivered[Other(p)]) + 1 .. sent[p]
      PROVE  x \in {buffer[p][i].idx : i \in DOMAIN buffer[p]} \cup unkept[p]
    BY DEF KeptInv, UndeliveredKept
  <2>1. /\ Len(delivered[Other(p)]) \in Nat /\ sent[p] \in Nat /\ acked[p] \in Nat
        /\ acked[p] <= Len(delivered[Other(p)]) /\ DOMAIN buffer[p] = 1 .. Len(buffer[p])
    BY Ends, LenProperties DEF IInv, TypeOK, CountsInv
  <2>2. x \in acked[p] + 1 .. sent[p]
    BY <2>1
  <2> QED BY <2>1, <2>2 DEF Kept
<1> QED BY Invariant, <1>1, <1>2, <1>3, PTL DEF Spec

-----------------------------------------------------------------------------
(* The two connections implement two reliable streams.                     *)

\* A packet that passes the window test teaches its receiver a true count;
\* the abstract step is Learn.
LEMMA LearnStep ==
  ASSUME IInv, NEW p \in Peers, NEW m, NEW old, FeedAck(p, m, old),
         sent' = sent, delivered' = delivered
  PROVE  [Abstract!Next]_(Abstract!streamVars)
<1>1. CASE life[p] = "open"
  <2>1. m.acked \in acked[p] .. Len(delivered[Other(p)]) /\ acked' = [acked EXCEPT ![p] = m.acked]
    <3>1. /\ m.acked \in Nat /\ m.acked <= Len(delivered[Other(p)]) /\ acked[p] <= m.acked
          /\ acked[p] \in Nat /\ Len(delivered[Other(p)]) \in Nat
      BY <1>1, FeedKnows, Ends, LenProperties DEF FeedAck, IInv, TypeOK
    <3> QED BY <1>1, <3>1 DEF FeedAck
  <2>2. Abstract!Learn(p)
    BY <2>1 DEF Abstract!Learn
  <2> QED BY <2>2 DEF Abstract!Next
<1>2. CASE life[p] # "open"
  BY <1>2 DEF FeedAck, Abstract!streamVars
<1> QED BY <1>1, <1>2

\* Every step of the connections is a step of the streams or leaves them alone.
LEMMA StreamStep ==
  ASSUME IInv, [Next]_vars
  PROVE  [Abstract!Next]_(Abstract!streamVars)
<1>1. ASSUME sent' = sent, delivered' = delivered, acked' = acked
      PROVE  [Abstract!Next]_(Abstract!streamVars)
  BY <1>1 DEF Abstract!streamVars
<1>2. ASSUME NEW p \in Peers, NEW flush \in BOOLEAN, NEW kept \in BOOLEAN, Send(p, flush, kept)
      PROVE  [Abstract!Next]_(Abstract!streamVars)
  <2>1. Abstract!Queue(p)
    BY <1>2 DEF Send, Abstract!Queue
  <2> QED BY <2>1 DEF Abstract!Next
<1>3. ASSUME NEW p \in Peers, FetchChunk(p)
      PROVE  [Abstract!Next]_(Abstract!streamVars)
  <2> DEFINE c == Head(inbox[p])
  <2>1. CASE InSequence(p, c.seq) /\ life[p] = "open"
    <3>1. /\ inbox[p] # <<>> /\ sent' = sent /\ acked' = acked
          /\ delivered' = [delivered EXCEPT ![p] = Append(@, c.idx)]
      BY <1>3, <2>1 DEF FetchChunk
    <3>2. c.idx = Len(delivered[p]) + 1
      BY <2>1, <3>1, FilterExact
    <3>3. c.idx <= sent[Other(p)]
      <4>1. inbox[p] \in Seq(Good(sent[Other(p)]))
        BY DEF IInv, ChunksInv
      <4>2. c \in Good(sent[Other(p)])
        BY <3>1, <4>1, HeadTailProperties
      <4> QED BY <4>2 DEF Good
    <3>4. /\ Len(delivered[p]) < sent[Other(p)]
          /\ delivered' = [delivered EXCEPT ![p] = Append(@, Len(@) + 1)]
      <4>1. Len(delivered[p]) \in Nat /\ sent[Other(p)] \in Nat
        BY Ends, LenProperties DEF IInv, TypeOK
      <4> HIDE DEF c
      <4> QED BY <3>1, <3>2, <3>3, <4>1
    <3>5. Abstract!Deliver(p)
      BY <3>1, <3>4 DEF Abstract!Deliver
    <3> QED BY <3>5 DEF Abstract!Next
  <2>2. CASE ~(InSequence(p, c.seq) /\ life[p] = "open")
    BY <1>1, <1>3, <2>2 DEF FetchChunk
  <2> QED BY <2>1, <2>2
<1>4. ASSUME NEW p \in Peers, NEW m, NEW old, Feed(p, m, old)
      PROVE  [Abstract!Next]_(Abstract!streamVars)
  <2>1. CASE FeedIgnored(p, m, old)
    BY <1>1, <2>1 DEF FeedIgnored, history
  <2>2. CASE FeedConnect(p, m, old)
    BY <1>1, <2>2 DEF FeedConnect, Open
  <2>3. CASE FeedClose(p, m, old)
    BY <2>3, LearnStep DEF FeedClose
  <2>4. CASE FeedConnectAccept(p, m, old)
    BY <2>4, LearnStep DEF FeedConnectAccept
  <2>5. CASE FeedControl(p, m, old)
    BY <2>5, LearnStep DEF FeedControl
  <2>6. CASE FeedData(p, m, old)
    BY <2>6, LearnStep DEF FeedData
  <2> QED BY <1>4, <2>1, <2>2, <2>3, <2>4, <2>5, <2>6 DEF Feed
<1>5. ASSUME NEW p \in Peers,
             \/ Connect(p) \/ Accept(p) \/ Disconnect(p) \/ Flush(p)
             \/ (\E due \in BOOLEAN : \E idle : Update(p, due, idle))
             \/ (\E due, banned \in BOOLEAN : Expire(p, due, banned))
      PROVE  [Abstract!Next]_(Abstract!streamVars)
  <2>1. sent' = sent /\ delivered' = delivered /\ acked' = acked
    BY <1>5 DEF Connect, Accept, Disconnect, Flush, Update, Expire, Open, Reset, history
  <2> QED BY <1>1, <2>1
<1>6. ASSUME (\E m \in net : Lose(m)) \/ UNCHANGED vars
      PROVE  [Abstract!Next]_(Abstract!streamVars)
  BY <1>1, <1>6 DEF Lose, vars, history
<1> QED BY <1>2, <1>3, <1>4, <1>5, <1>6 DEF Next

\* The pair of connections implements ReliableStream: what is handed up is a
\* prefix of what was queued, and an end never believes that more of its
\* chunks arrived than did, nor forgets what it knew.
THEOREM ImplementsStream == Spec => StreamSpec
<1>1. Init => Abstract!Init
  BY DEF Init, Abstract!Init
<1>2. IInv /\ [Next]_vars => [Abstract!Next]_(Abstract!streamVars)
  BY StreamStep
<1> QED BY Invariant, <1>1, <1>2, PTL DEF Spec, StreamSpec, Abstract!Spec
=============================================================================
