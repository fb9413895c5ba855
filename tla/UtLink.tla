------------------------------- MODULE UtLink -------------------------------
(***************************************************************************)
(* The sending layer TxUt of one host, the receiving layer RxUt of another *)
(* and the network between them, which loses, duplicates, delays and       *)
(* reorders: net only grows, and any datagram of it may be received at any *)
(* time, any number of times or never.                                     *)
(*                                                                         *)
(* A fragment carries the message it belongs to as its payload, so that    *)
(* what is re-assembled tells where it comes from.  The variables below    *)
(* the line in the list are histories: no action depends on them.          *)
(*                                                                         *)
(* Sequence IDs are not reused here (FreshSeqno): there are 2^16 of them,  *)
(* handed out in turn, and datagrams do not travel for that long.          *)
(***************************************************************************)
EXTENDS TxUt, RxUt

CONSTANTS
    ImprovedAcks,   \* attr->improved_acks of the sending layer
    MaxFrags        \* the largest fragment count of the requests

VARIABLES
    net,        \* datagrams put on the network
    \* -----
    accepted,   \* what messages were made of when they were accepted
    arrived,    \* fragments of a message that ever reached the receiver
    delivered,  \* messages given to the upper layer
    lost        \* messages the receiver forgot fragments of

history == <<arrived, delivered, lost>>
linkvars == <<vars, rxvars, net, accepted, history>>

\* The headers that the sending layer puts on fragments, and what a message is
\* made of.
WireHeaders ==
    {h \in [part: 0 .. MaxFrags - 1, count: 1 .. MaxFrags, ackme: BOOLEAN,
            deflated: {FALSE}, improved: {ImprovedAcks}] : h.part < h.count}
Deal == [seqno: Id, count: 1 .. MaxFrags, reliable: BOOLEAN]

ASSUME LinkAssumption ==
    /\ ImprovedAcks \in BOOLEAN
    /\ MaxMsgs <= IdMask
    /\ MaxFrags \in 1 .. FragMax
    /\ \A req \in Requests : req.fragcnt <= MaxFrags
    /\ Sent # Dropped /\ Null \notin Deal

\* The receiving layer knows a message by its sequence ID (there is one sender),
\* receives the headers above, and the payload of a fragment is its message.
ASSUME PeerAssumption ==
    /\ Rid = Id /\ NoMsg = Null /\ WireHeaders \subseteq Headers
    /\ Payload = Mid /\ Empty \notin Mid

\* ut_frag_create(): the header of a fragment, and what it carries.
OnWire(m, f) ==
    [kind |-> "frag", seqno |-> msgs[m].seqno, mid |-> m,
     head |-> [part |-> f, count |-> Fragcnt(msgs[m]), ackme |-> msgs[m].reliable,
               deflated |-> FALSE, improved |-> ImprovedAcks]]
EarOnWire(seqno) == [kind |-> "ear", seqno |-> seqno]
AckOnWire(seqno, ack) == [kind |-> "ack", seqno |-> seqno, ack |-> ack]

----------------------------------------------------------------------------
(* The sender.                                                             *)

\* Bound: a sequence ID is not reused.
FreshSeqno ==
    \A m, n \in Mid : accepted'[m] # Null /\ accepted'[n] # Null /\ m # n =>
        accepted'[m].seqno # accepted'[n].seqno

\* tx_ut_sendto()
LinkSend ==
    /\ Upper
    /\ accepted' = [m \in Mid |->
            IF msgs[m] = Unborn /\ msgs'[m] # Unborn
              THEN [seqno |-> msgs'[m].seqno, count |-> Fragcnt(msgs'[m]),
                    reliable |-> msgs'[m].reliable]
              ELSE accepted[m]]
    /\ FreshSeqno
    /\ UNCHANGED <<rxvars, net, history>>

\* What the lower layer releases as sent was put on the network.
LinkFragSent(m, f) ==
    /\ FragSent(m, f)
    /\ net' = net \cup {OnWire(m, f)}
    /\ UNCHANGED <<rxvars, accepted, history>>

LinkEarSent(seqno, n) ==
    /\ EarSent(seqno, n)
    /\ net' = net \cup {EarOnWire(seqno)}
    /\ UNCHANGED <<rxvars, accepted, history>>

\* ut_got_message() handing an ACK or an EAR NACK to the TX layer, where the
\* message is looked up from the sequence ID.
LinkGotAck(dg) ==
    \E m \in LiveMids :
        /\ msgs[m].seqno = dg.seqno
        /\ GotAck(m, dg.ack) \/ GotEarNack(m, dg.ack)
        /\ UNCHANGED <<rxvars, net, accepted, history>>

SenderStep ==
    \/ \E dg \in BagToSet(lower) :
            \/ dg.kind = "frag" /\ (FragDropped(dg.mid, dg.fragno)
                                    \/ FragCancelled(dg.mid, dg.fragno))
            \/ dg.kind = "ear" /\ EarDropped(dg.seqno, dg.attempts)
    \/ \E k \in 1 .. Len(attr.pending) : Service(k)
    \/ \E m \in Mid : Timeout(m)
    \/ \E h \in Host : Aged(h)
LinkSender == SenderStep /\ UNCHANGED <<rxvars, net, accepted, history>>

----------------------------------------------------------------------------
(* The receiver.                                                           *)

\* ut_send_ack(): the ACKs of the handler are put on the network.
AcksSent == net' = net \cup {AckOnWire(a.mid, a.ack) : a \in acks'}

GivenMids == UNION {{p[2] : p \in g.fragments} : g \in given'}

\* ut_got_message(), a fragment.
LinkGotFragment(dg) ==
    /\ \/ GotSingleton(dg.seqno, dg.head, dg.mid)
       \/ GotInconsistent(dg.seqno, dg.head)
       \/ GotFragment(dg.seqno, dg.head, dg.mid, TRUE)
    /\ AcksSent
    /\ arrived' = [arrived EXCEPT ![dg.mid] = @ \cup {dg.head.part}]
    /\ delivered' = delivered \cup GivenMids
    /\ UNCHANGED <<vars, accepted, lost>>

LinkGotEar(dg) ==
    /\ GotEAR(dg.seqno)
    /\ AcksSent
    /\ UNCHANGED <<vars, accepted, history>>

\* The messages of the IDs in S, of which fragments were received in part.
PartlyReceived(S) ==
    {m \in Mid : /\ accepted[m] # Null /\ accepted[m].seqno \in S
                /\ Known(accepted[m].seqno)
                /\ ~mseq[accepted[m].seqno].lingering}

LinkReceiver(s) ==
    /\ RxTimeout(s)
    /\ AcksSent
    /\ lost' = IF mseq'[s] = Null THEN lost \cup PartlyReceived({s}) ELSE lost
    /\ UNCHANGED <<vars, accepted, arrived, delivered>>

\* The receiving host restarts, or its UDP layers are rebuilt: they are
\* enabled as soon as they are made.
LinkRestart ==
    /\ \E s \in Id : Known(s)
    /\ mseq' = [s \in Id |-> Null]
    /\ if_enabled' = TRUE
    /\ acks' = {} /\ given' = {}
    /\ lost' = lost \cup PartlyReceived(Id)
    /\ UNCHANGED <<vars, net, accepted, arrived, delivered>>

----------------------------------------------------------------------------
LinkInit ==
    /\ Init
    /\ mseq = [s \in Id |-> Null]
    /\ if_enabled = TRUE
    /\ acks = {} /\ given = {}
    /\ net = {}
    /\ accepted = [m \in Mid |-> Null]
    /\ arrived = [m \in Mid |-> {}]
    /\ delivered = {} /\ lost = {}

LinkNext ==
    \/ LinkSend
    \/ \E dg \in BagToSet(lower) :
            \/ dg.kind = "frag" /\ LinkFragSent(dg.mid, dg.fragno)
            \/ dg.kind = "ear" /\ LinkEarSent(dg.seqno, dg.attempts)
    \/ LinkSender
    \/ \E dg \in net : \/ dg.kind = "ack" /\ LinkGotAck(dg)
                       \/ dg.kind = "frag" /\ LinkGotFragment(dg)
                       \/ dg.kind = "ear" /\ LinkGotEar(dg)
    \/ \E s \in Id : LinkReceiver(s)
    \/ LinkRestart

LinkSpec == LinkInit /\ [][LinkNext]_linkvars

----------------------------------------------------------------------------
(* Properties.                                                             *)

\* What the sender reports of its messages.
Reported(um) ==
    CASE um = Unborn -> "none"
      [] um = Sent -> "sent"
      [] um = Dropped -> "dropped"
      [] OTHER -> "pending"
Status == [m \in Mid |-> Reported(msgs[m])]

\* What they were made of.
Agreed(deal) ==
    IF deal = Null THEN [count |-> 0, reliable |-> FALSE]
    ELSE [count |-> deal.count, reliable |-> deal.reliable]
Wanted == [m \in Mid |-> Agreed(accepted[m])]

\* What the receiver knows it has delivered.
Remembered ==
    {m \in Mid : /\ accepted[m] # Null
                /\ Known(accepted[m].seqno)
                /\ mseq[accepted[m].seqno].lingering}

Abs == INSTANCE UtAbstract WITH
        Message <- Mid, Size <- MaxFrags,
        status <- Status, wanted <- Wanted, remembered <- Remembered

\* The two layers and the network implement UtAbstract: whatever is lost,
\* duplicated, delayed or reordered, and even if the receiver restarts, a
\* message is delivered once as long as ut_rmsg_linger() makes the receiver
\* remember it, and ut_msg_free() reports a message that wants ACKs as sent
\* only when all its fragments had arrived, and were delivered unless the
\* receiver forgot some.
Implements == Abs!ASpec
=============================================================================
