--------------------------- MODULE MCClientSlots ---------------------------
(* Two programs behind one address.                                        *)
EXTENDS ClientSlots

CONSTANT ip

MCIpOf == [a \in Addrs |-> ip]

=============================================================================
