------------------------------- MODULE MCTxUt -------------------------------
(***************************************************************************)
(* Instances of TxUt for TLC.                                              *)
(***************************************************************************)
EXTENDS TxUt

Req(h, r, n) == [to |-> h, reliable |-> r, fragcnt |-> n]

CONSTANT h1

\* All the ACKs that udp_check_semi_reliable() lets through for a message of n
\* fragments, whether their count and their bits agree or not.
AllAcks(n) ==
    {ZeroAck, EarNack} \cup
    {a \in [ear: {FALSE}, ear_nack: {FALSE}, cumulative: BOOLEAN, fragno: 0 .. n - 1,
            received: 0 .. n, missing: SUBSET (0 .. n - 1)] :
        AckHeaderValid(a) /\ (a.received = 0 => a.missing = {})}
Acks1 == AllAcks(1)

\* Those that RxUt sends: the count and the bits of an extended ACK agree.
PeerAcks(n) ==
    {a \in AllAcks(n) : a.received # 0 =>
        /\ a.missing \subseteq 0 .. n - WindowBase(a) - 1
        /\ a.received = WindowBase(a) + Cardinality(WindowReceived(a, n))
        /\ a.fragno \notin a.missing \/ a.cumulative}
PeerAcks3 == PeerAcks(3)

Mixed3 == {Req(h1, TRUE, 3), Req(h1, FALSE, 2), Req(h1, TRUE, Oversize)}
Mixed1 == {Req(h1, r, 1) : r \in BOOLEAN}
=============================================================================
