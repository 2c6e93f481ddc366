--------------------------- MODULE ReliableStream ---------------------------
(***************************************************************************)
(* What a pair of CNetConnections promises for the chunks sent with        *)
(* NET_CHUNKFLAG_VITAL: each direction is a stream whose messages 1, 2, .. *)
(* arrive once each and in order, and a sender learns of an arrival only   *)
(* after it happened.                                                      *)
(***************************************************************************)
EXTENDS Naturals, Sequences

CONSTANT Peers,     \* the two ends
         Other(_)   \* the end a given end talks to

VARIABLES sent,       \* sent[p]: vital chunks p has queued so far
          delivered,  \* delivered[p]: what has been handed up at p, oldest first
          acked       \* acked[p]: how many of its chunks p knows have arrived

streamVars == <<sent, delivered, acked>>

Init == /\ sent = [p \in Peers |-> 0]
        /\ delivered = [p \in Peers |-> <<>>]
        /\ acked = [p \in Peers |-> 0]

\* p queues the next message of its stream.
Queue(p) == /\ sent' = [sent EXCEPT ![p] = @ + 1]
            /\ UNCHANGED <<delivered, acked>>

\* The next message of the other end's stream is handed up at p.
Deliver(p) == /\ Len(delivered[p]) < sent[Other(p)]
              /\ delivered' = [delivered EXCEPT ![p] = Append(@, Len(@) + 1)]
              /\ UNCHANGED <<sent, acked>>

\* p learns how far its stream has got, never more than is true.
Learn(p) == /\ \E n \in acked[p] .. Len(delivered[Other(p)]) :
                 acked' = [acked EXCEPT ![p] = n]
            /\ UNCHANGED <<sent, delivered>>

Next == \E p \in Peers : Queue(p) \/ Deliver(p) \/ Learn(p)

Spec == Init /\ [][Next]_streamVars
=============================================================================
