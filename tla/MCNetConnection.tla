-------------------------- MODULE MCNetConnection ---------------------------
(* Small instances of NetConnection.                                       *)
EXTENDS NetConnection

CONSTANTS SendA, SendB,   \* chunks A and B queue at most
          NetA, NetB      \* packets of A and B in flight at most
MCMaxSend == [p \in Peers |-> IF p = A THEN SendA ELSE SendB]
MCMaxNet == [p \in Peers |-> IF p = A THEN NetA ELSE NetB]
=============================================================================
