------------------------------ MODULE MCWrapper ------------------------------
(***************************************************************************)
(* One bit of content per word, so that every packet, every mixture of two *)
(* packets and every cleared word differ.  The parts of a response name the*)
(* first, a middle and the last word of the packet they answer.            *)
(***************************************************************************)
EXTENDS StreamWrapper

MCField == {0, 1}
MCDigest(p) == <<p[0], p[4], p[7]>>
MCAction == [p \in Packet |-> <<"action", MCDigest(p)>>]
MCScore == [p \in Packet |-> <<"score", MCDigest(p)>>]
MCCycles == [p \in Packet |-> <<"cycles", MCDigest(p)>>]
=============================================================================
