------------------------------- MODULE UtAck -------------------------------
(***************************************************************************)
(* The acknowledgments of the semi-reliable UDP protocol, shared by the    *)
(* receiving layer (RxUt), which builds them, and by the sending layer     *)
(* (TxUt), which reads them.                                               *)
(*                                                                         *)
(* A set of fragment numbers stands for the bit arrays of the code: the    *)
(* fragment numbers are zero-based as in struct ut_ack, and the "missing"  *)
(* bit field is the set of the bits that are set in it.                    *)
(***************************************************************************)
EXTENDS Integers, FiniteSets, FiniteSetsExt

CONSTANT MissingBits    \* width of the "missing" field, 24 on the wire

ASSUME MissingBitsAssumption == MissingBits \in Nat \ {0}

\* nPart and nCount are one byte each on the wire.
FragMax == 255
Part == 0 .. FragMax - 1

Acks == [ear: BOOLEAN, ear_nack: BOOLEAN, cumulative: BOOLEAN,
         fragno: Part, received: 0 .. FragMax,
         missing: SUBSET (0 .. MissingBits - 1)]

\* ZERO(&ack)
ZeroAck == [ear |-> FALSE, ear_nack |-> FALSE, cumulative |-> FALSE,
            fragno |-> 0, received |-> 0, missing |-> {}]

PlainAck(i) == [ZeroAck EXCEPT !.fragno = i]
CumulativeAck(i) == [ZeroAck EXCEPT !.fragno = i, !.cumulative = TRUE]
EarNack == [ZeroAck EXCEPT !.ear = TRUE, !.ear_nack = TRUE]

\* The first fragment that bit 0 of "missing" stands for, and the first
\* fragment past the last bit.
WindowBase(ack) == IF ack.cumulative THEN ack.fragno + 1 ELSE 0
WindowEnd(base, fragcnt) ==
    IF base + MissingBits < fragcnt THEN base + MissingBits ELSE fragcnt

----------------------------------------------------------------------------
(* How the sending layer reads an ACK for a message of fragcnt fragments.  *)

\* Does the ACK close the message as a whole?
AcksWholeMessage(ack, fragcnt) ==
    \/ ack.received = fragcnt
    \/ ack.cumulative /\ ack.fragno + 1 = fragcnt

\* The fragments of the window whose "missing" bit is clear.
WindowReceived(ack, fragcnt) ==
    LET base == WindowBase(ack)
    IN  {f \in base .. WindowEnd(base, fragcnt) - 1 : f - base \notin ack.missing}

\* The fragments past the window, when the count of received fragments
\* implies that they all arrived.
ImpliedReceived(ack, fragcnt) ==
    LET base == WindowBase(ack)
        end  == WindowEnd(base, fragcnt)
        frags == base + Cardinality(WindowReceived(ack, fragcnt))
    IN  IF end < fragcnt /\ ack.received = frags + fragcnt - end
          THEN end .. fragcnt - 1
          ELSE {}

\* All the fragments an ACK acknowledges.
Acknowledged(ack, fragcnt) ==
    IF ack.ear THEN {}
    ELSE IF AcksWholeMessage(ack, fragcnt) THEN 0 .. fragcnt - 1
    ELSE {ack.fragno}
         \cup (IF ack.cumulative THEN 0 .. ack.fragno - 1 ELSE {})
         \cup (IF ack.received # 0
                 THEN WindowReceived(ack, fragcnt) \cup ImpliedReceived(ack, fragcnt)
                 ELSE {})

----------------------------------------------------------------------------
(* What udp_check_semi_reliable() requires of the header of an ACK before  *)
(* it hands the datagram over to the transceiver.                          *)

AckHeaderValid(ack) ==
    ack.received # 0 =>
        /\ ~ack.ear
        /\ ack.cumulative => ack.received >= ack.fragno + 1
=============================================================================
