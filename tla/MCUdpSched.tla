----------------------------- MODULE MCUdpSched -----------------------------
(***************************************************************************)
(* Instances of UdpSched for TLC.                                          *)
(***************************************************************************)
EXTENDS UdpSched

CONSTANTS s1, s2, v4

D(tx, prio, to, size) ==
    [tx |-> tx, prio |-> prio, to |-> to, net |-> v4, size |-> size]

\* Two datagrams to the same host in one stack, an urgent one in another.
Three == {D(s1, "data", "x", 1), D(s1, "data", "x", 2), D(s2, "highest", "y", 1)}
=============================================================================
