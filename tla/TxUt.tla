-------------------------------- MODULE TxUt --------------------------------
(***************************************************************************)
(* The sending layer of the semi-reliable UDP transceiver                  *)
(* (src/core/tx_ut.c).                                                     *)
(*                                                                         *)
(* msgs[mid] is the message of that ID, attr the attributes of the layer,  *)
(* lower the bag of datagrams given to the lower layer and not released    *)
(* yet.  The handlers are run one at a time by the main thread: the upper  *)
(* layer sends (SendTo), the lower layer releases a datagram, sent or not  *)
(* (the free routines ut_frag_pmsg_free and ut_ack_pmsg_free), or calls    *)
(* the service routine, the RX layer hands over an ACK (GotAck), and the   *)
(* callout queue runs the timers of a message and of its fragments.        *)
(*                                                                         *)
(* A datagram that the lower layer sends at once is released from within   *)
(* the call that handed it over; here it is released by a later action.    *)
(* The timers carry no time: a timer that is armed may fire at any moment. *)
(***************************************************************************)
EXTENDS UtAck, IdTable, Sequences, SequencesExt, Bags

CONSTANTS
    MaxMsgs,        \* bound on the number of messages ever accepted
    Host,           \* destinations
    Requests,       \* what the upper layer may ask to send
    Oversize,       \* fragment count of a message that is too large
    AckInputs,      \* the ACKs peers may send
    RoguePeers,     \* may they acknowledge a fragment that was never sent?
    SendMax,        \* TX_UT_SEND_MAX, 4
    EarSendMax,     \* TX_UT_EAR_SEND_MAX, 3
    AckSendMax,     \* TX_UT_ACK_SEND_MAX, 6
    Alpha,          \* TX_UT_ALPHA, 3
    SeqnoThresh,    \* TX_UT_SEQNO_THRESH, 1024
    EarSupport,     \* attr->ear_support
    LowerRefuses,   \* may the lower layer refuse a datagram?
    MaxLower,       \* bound on the datagrams queued here or in the lower layer
    Unborn,         \* the message does not exist yet
    Sent, Dropped,  \* the message was freed, marked as sent or not
    Null            \* the fragment was acknowledged, or sent if unreliable

VARIABLES
    msgs,       \* the messages
    attr,       \* struct attr
    lower,      \* datagrams held by the lower layer
    aborted     \* an assertion failed: the program is gone

vars == <<msgs, attr, lower, aborted>>

ASSUME LimitsAssumption ==
    /\ {SendMax, EarSendMax, AckSendMax, Alpha, SeqnoThresh, MaxLower, MaxMsgs} \subseteq Nat \ {0}
    /\ SeqnoThresh <= IdMask /\ Alpha <= FragMax
    /\ {EarSupport, LowerRefuses, RoguePeers} \subseteq BOOLEAN
ASSUME RequestsAssumption ==
    \A req \in Requests : /\ req.to \in Host /\ req.reliable \in BOOLEAN
                          /\ req.fragcnt \in 1 .. FragMax \/ req.fragcnt = Oversize
ASSUME AckInputsAssumption == AckInputs \subseteq Acks

\* The IDs given by ut_msg_id_create()
Mid == 1 .. MaxMsgs

\* struct ut_frag; txcnt is exact up to SendMax, all that is ever compared.
UFrag == [txcnt: 0 .. SendMax, resend_ev: BOOLEAN, resend: BOOLEAN, pending: BOOLEAN]
NewFrag == [txcnt |-> 0, resend_ev |-> FALSE, resend |-> FALSE, pending |-> FALSE]

\* struct ut_msg; pending is a byte.  The expire_ev timer is always armed: its
\* callback is ut_um_lingered() when lingering, ut_um_expired() before.
UMsg(n) == [to: Host, seqno: Id, reliable: BOOLEAN, fragments: [0 .. n - 1 -> UFrag \cup {Null}],
            resend: Seq(0 .. n - 1), pending: 0 .. 255, alpha: 1 .. FragMax,
            ears: 0 .. EarSendMax, alive: BOOLEAN, expecting_ack: BOOLEAN,
            ear_pending: BOOLEAN, ear_ev: BOOLEAN, iterate_ev: BOOLEAN,
            cautious: BOOLEAN, lingering: BOOLEAN]

ASSUME TagsAssumption ==
    /\ Unborn \notin {Sent, Dropped} /\ Null \notin UFrag
    /\ \A tag \in {Unborn, Sent, Dropped}, n \in 1 .. FragMax : tag \notin UMsg(n)

Alive(m) == msgs[m] \notin {Unborn, Sent, Dropped}
LiveMids == {m \in Mid : Alive(m)}

Fragcnt(um) == Cardinality(DOMAIN um.fragments)
LiveFrags(um) == {f \in DOMAIN um.fragments : um.fragments[f] # Null}
Unsent(um) == {f \in LiveFrags(um) : um.fragments[f].txcnt = 0}
\* um->fragsent: it is incremented as the fragment is freed.
Fragsent(um) == Fragcnt(um) - Cardinality(LiveFrags(um))

Saturated(n, max) == IF n < max THEN n + 1 ELSE max
Decr(byte) == (byte - 1) % 256

\* The elements of a set of numbers in increasing order
Ascending(S) ==
    CHOOSE s \in [1 .. Cardinality(S) -> S] : \A i, j \in DOMAIN s : i < j => s[i] < s[j]

\* The bag of the elements of a sequence
BagOf(s) == [x \in Range(s) |-> Cardinality({i \in DOMAIN s : s[i] = x})]

Frag(m, f) == [kind |-> "frag", mid |-> m, fragno |-> f]
Ear(seqno, n) == [kind |-> "ear", seqno |-> seqno, attempts |-> n]

----------------------------------------------------------------------------
(* The routines working on one message: each yields the message it leaves. *)

\* ut_resend_async()
ut_resend_async(um) == [um EXCEPT !.iterate_ev = @ \/ um.resend # <<>>]

\* Fault: the count of pending fragments is not updated.
FragFreeUncounted(um, f) ==
    IF um.fragments[f] = Null THEN um
    ELSE [um EXCEPT !.fragments[f] = Null,
                    !.resend = IF um.fragments[f].resend THEN RemoveFirst(@, f) ELSE @]

\* ut_frag_free(), for a fragment that was not freed already.
ut_frag_free(um, f) ==
    LET uf   == um.fragments[f]
        gone == [um EXCEPT !.fragments[f] = Null,
                           !.resend = IF uf.resend THEN RemoveFirst(@, f) ELSE @]
    IN  IF uf = Null THEN um
        ELSE IF uf.pending THEN ut_resend_async([gone EXCEPT !.pending = Decr(@)])
        ELSE gone

\* ut_send_remaining(): the fragments are then given to ut_frag_send().
ut_send_remaining(um) ==
    [um EXCEPT !.cautious = FALSE,
               !.resend = <<>>,
               !.fragments = [f \in DOMAIN @ |->
                    IF @[f] = Null THEN Null
                    ELSE [@[f] EXCEPT !.resend = FALSE, !.resend_ev = FALSE]]]

\* ut_send_unacknowleged(): each fragment is put at the head of the list.
ut_send_unacknowleged(um) ==
    LET added == {f \in LiveFrags(um) : ~um.fragments[f].resend}
        n     == Cardinality({f \in added : um.fragments[f].pending})
    IN  ut_resend_async(
          [um EXCEPT !.resend = Reverse(Ascending(added)) \o @,
                     !.pending = (@ - n) % 256,
                     !.fragments = [f \in DOMAIN @ |->
                         IF @[f] = Null THEN Null
                         ELSE [@[f] EXCEPT !.resend = TRUE, !.resend_ev = FALSE,
                                   !.pending = um.fragments[f].pending /\ f \notin added]]])

\* ut_resend_iterate() once the fragments may be resent: the list is emptied
\* up to the parallelism, which grows by one.
Parallelism(um) == IF um.alpha < Fragcnt(um) THEN um.alpha + 1 ELSE um.alpha
Batch(um) ==
    IF um.pending >= um.alpha THEN <<>>
    ELSE SubSeq(um.resend, 1, Min({Len(um.resend), Parallelism(um) - um.pending}))
ResendBatch(um) ==
    LET n == Len(Batch(um))
    IN  [um EXCEPT !.alpha = IF um.pending >= @ THEN @ ELSE Parallelism(um),
                   !.resend = SubSeq(@, n + 1, Len(@)),
                   !.pending = (@ + n) % 256,
                   !.fragments = [f \in DOMAIN @ |->
                        IF f \in Range(Batch(um))
                          THEN [@[f] EXCEPT !.resend = FALSE, !.pending = TRUE]
                          ELSE @[f]]]

\* ut_frag_resend(): the fragment was resent and no ACK came in time.
AckTimeout(um, f) ==
    LET uf == um.fragments[f]
    IN  [um EXCEPT !.fragments[f].resend_ev = FALSE,
                   !.pending = IF uf.pending THEN Decr(@) ELSE @,
                   !.alpha = IF uf.pending /\ ~um.lingering /\ @ > 1 THEN @ - 1 ELSE @]

\* Fault: no iteration is scheduled.
EnqueueOnly(um, f) ==
    [um EXCEPT !.resend = Append(@, f),
               !.fragments[f] = [@ EXCEPT !.resend = TRUE, !.pending = FALSE]]

\* ut_frag_resend(): the fragment is enqueued for retransmission.
EnqueueResend(um, f) ==
    ut_resend_async([um EXCEPT !.resend = Append(@, f),
                               !.fragments[f] = [@ EXCEPT !.resend = TRUE, !.pending = FALSE]])

\* ut_got_ack(): the fragments named by an ACK, in three stages each of which
\* must not name a fragment that was never sent.
Stages(um, ack) ==
    <<{ack.fragno},
      IF ack.cumulative THEN 0 .. ack.fragno - 1 ELSE {},
      IF ack.received # 0
        THEN WindowReceived(ack, Fragcnt(um)) \cup ImpliedReceived(ack, Fragcnt(um))
        ELSE {}>>
StageValid(um, ack, i) ==
    \A j \in 1 .. i : Stages(um, ack)[j] \cap Unsent(um) = {}
AckedFrags(um, ack) ==
    UNION {Stages(um, ack)[i] : i \in {j \in 1 .. 3 : StageValid(um, ack, j)}}

\* ... are freed, the fragment of the ACK first.
FreeAcked(um, ack) ==
    LET acked == AckedFrags(um, ack)
        first == IF ack.fragno \in acked THEN <<ack.fragno>> ELSE <<>>
        order == first \o Ascending(acked \ {ack.fragno})
        freed[i \in 0 .. Len(order)] ==
            IF i = 0 THEN um ELSE ut_frag_free(freed[i - 1], order[i])
    IN  freed[Len(order)]

\* ut_got_ack(): validation of the ACK against the message.
AckAccepted(um, ack) ==
    /\ ack.fragno < Fragcnt(um) /\ ack.received <= Fragcnt(um)
    /\ um.reliable
    /\ ack.ear => um.expecting_ack

\* ut_got_ack(): the ACK shows that the remote host is there.
SignOfLife(um) == [um EXCEPT !.alive = TRUE, !.ear_ev = FALSE]

\* The new message of ut_msg_create()
ut_msg_create(req, seqno) ==
    [to |-> req.to, seqno |-> seqno, reliable |-> req.reliable,
     fragments |-> [f \in 0 .. req.fragcnt - 1 |-> NewFrag],
     resend |-> <<>>, pending |-> 0, alpha |-> Alpha, ears |-> 0, alive |-> FALSE,
     expecting_ack |-> FALSE, ear_pending |-> FALSE, ear_ev |-> FALSE,
     iterate_ev |-> FALSE, cautious |-> FALSE, lingering |-> FALSE]

----------------------------------------------------------------------------
(* The routines working on the layer.                                      *)

\* tx_ut_upper_service(): the upper layer may send again.
tx_ut_upper_service(a) == [a EXCEPT !.upper_flowc = FALSE]

ut_to_ban(a, to) == [a EXCEPT !.ban = @ \cup {to}, !.good = @ \ {to}]
ut_to_flag_good(a, to) == [a EXCEPT !.good = @ \cup {to}]

\* Faults: the ID is not released, the upper layer is not told.
ReleaseNothing(a, seqno) == a
ReleaseQuietly(a, seqno) ==
    LET b == [a EXCEPT !.seq = idtable_free_id(@, seqno)]
    IN  IF ~a.out_of_seqno THEN b
        ELSE IF a.seqno_freed + 1 < SeqnoThresh THEN [b EXCEPT !.seqno_freed = @ + 1]
        ELSE [b EXCEPT !.seqno_freed = 0, !.out_of_seqno = FALSE]

\* ut_msg_free(): the sequence ID is released, with the hysteresis on running
\* out of IDs.
ReleaseSeqno(a, seqno) ==
    LET b == [a EXCEPT !.seq = idtable_free_id(@, seqno)]
    IN  IF ~a.out_of_seqno THEN b
        ELSE IF a.seqno_freed + 1 < SeqnoThresh THEN [b EXCEPT !.seqno_freed = @ + 1]
        ELSE tx_ut_upper_service([b EXCEPT !.seqno_freed = 0, !.out_of_seqno = FALSE])

ut_msg_free(m, sent, a) ==
    LET um == msgs[m]
        b  == IF sent /\ um.reliable THEN ut_to_flag_good(a, um.to) ELSE a
    IN  /\ msgs' = [msgs EXCEPT ![m] = IF sent THEN Sent ELSE Dropped]
        /\ attr' = ReleaseSeqno(b, um.seqno)

\* ut_frag_send() of several fragments in a row: as soon as the lower layer
\* refuses one, it and those that follow are put at the head of the queue.
ut_frag_send(out, a) ==
    \E k \in IF a.pending # <<>> THEN {0}
             ELSE IF LowerRefuses THEN 0 .. Len(out) ELSE {Len(out)} :
        LET refused == SubSeq(out, k + 1, Len(out))
        IN  /\ BagCardinality(lower) + Len(a.pending) + Len(out) <= MaxLower
            /\ lower' = lower (+) SetToBag(Range(SubSeq(out, 1, k)))
            /\ attr' = [a EXCEPT !.pending = Reverse(refused) \o @,
                                 !.lower_flowc = @ \/ refused # <<>>]

FragSeq(m, fs) == [i \in 1 .. Len(fs) |-> Frag(m, fs[i])]

\* The message is left as um.
Leave(m, um) == msgs' = [msgs EXCEPT ![m] = um] /\ UNCHANGED attr

\* A fragment was freed with free_message set: is it the last one?
LeaveOrFree(m, um) ==
    \/ LiveFrags(um) = {} /\ ut_msg_free(m, TRUE, attr)
    \/ LiveFrags(um) # {} /\ Leave(m, um)

\* A failed g_assert()
Abort == aborted' = TRUE /\ UNCHANGED <<msgs, attr, lower>>

----------------------------------------------------------------------------
(* The upper layer.                                                        *)

\* tx_ut_sendto(), refused.  A message to a banned host is dropped at once,
\* which changes nothing.
SendToFlowControlled(req) ==
    /\ ~aborted
    /\ req.to \notin attr.ban /\ attr.lower_flowc
    /\ attr' = [attr EXCEPT !.upper_flowc = TRUE]
    /\ UNCHANGED <<msgs, lower, aborted>>

SendToOutOfSeqno(req) ==
    LET r == idtable_try_new_id(attr.seq)
    IN  /\ ~aborted
        /\ req.to \notin attr.ban /\ ~attr.lower_flowc /\ ~r.ok
        /\ attr' = [attr EXCEPT !.seq = r.tbl, !.out_of_seqno = TRUE, !.upper_flowc = TRUE]
        /\ UNCHANGED <<msgs, lower, aborted>>

\* tx_ut_sendto(), EMSGSIZE from ut_msg_create() after the ID was allocated.
\* Bound: too large a message is only sent after the MaxMsgs messages ended, where
\* the IDs it loses are seen until there are none left.
SendToTooLarge(req) ==
    LET r == idtable_try_new_id(attr.seq)
    IN  /\ ~aborted
        /\ req.to \notin attr.ban /\ ~attr.lower_flowc /\ r.ok
        /\ req.fragcnt = Oversize
        /\ \A k \in Mid : msgs[k] \in {Sent, Dropped}
        /\ attr' = [attr EXCEPT !.seq = r.tbl]
        /\ UNCHANGED <<msgs, lower, aborted>>

\* tx_ut_sendto(), accepted: all the fragments are sent, or only the last one
\* when the host is not known to be responsive.
SendTo(req) ==
    LET r    == idtable_try_new_id(attr.seq)
        m    == Min({k \in Mid : msgs[k] = Unborn})
        um   == ut_msg_create(req, r.id)
        a    == [attr EXCEPT !.seq = r.tbl]
        last == req.fragcnt - 1
    IN  /\ ~aborted
        /\ req.to \notin attr.ban /\ ~attr.lower_flowc /\ r.ok
        /\ req.fragcnt # Oversize
        /\ \E k \in Mid : msgs[k] = Unborn
        /\ \/ /\ ~req.reliable \/ req.to \in attr.good \/ req.fragcnt = 1
              /\ msgs' = [msgs EXCEPT ![m] = ut_send_remaining(um)]
              /\ ut_frag_send([i \in 1 .. req.fragcnt |-> Frag(m, i - 1)], a)
           \/ /\ req.reliable /\ req.to \notin attr.good /\ req.fragcnt > 1
              /\ msgs' = [msgs EXCEPT ![m] = [um EXCEPT !.cautious = TRUE]]
              /\ ut_frag_send(<<Frag(m, last)>>, a)
        /\ UNCHANGED aborted

\* ut_got_ack(), a valid ACK: the message is over, or fragments are freed and,
\* unless the ACK is rejected midway, what the ACK was awaited for is resumed.
GotAck(m, ack) ==
    LET um       == SignOfLife(msgs[m])
        freed    == FreeAcked(um, ack)
        whole    == AcksWholeMessage(ack, Fragcnt(um)) \/ LiveFrags(freed) = {}
        rejected == ~StageValid(um, ack, 3)
        rest     == FragSeq(m, Ascending(LiveFrags(freed)))
    IN  /\ ~aborted
        /\ Alive(m) /\ ~ack.ear /\ AckAccepted(msgs[m], ack)
        /\ \/ whole /\ ut_msg_free(m, TRUE, attr) /\ UNCHANGED lower
           \/ ~whole /\ rejected /\ Leave(m, freed) /\ UNCHANGED lower
           \/ /\ ~whole /\ ~rejected /\ um.cautious
              /\ msgs' = [msgs EXCEPT ![m] = ut_send_remaining(freed)]
              /\ ut_frag_send(rest, ut_to_flag_good(attr, um.to))
           \/ /\ ~whole /\ ~rejected /\ ~um.cautious
              /\ Leave(m, [(IF um.expecting_ack THEN ut_resend_async(freed) ELSE freed)
                             EXCEPT !.expecting_ack = FALSE])
              /\ UNCHANGED lower
        /\ UNCHANGED aborted

\* ut_got_ack(), an EAR NACK: the remote host is there and received nothing.
GotEarNack(m, ack) ==
    LET um == SignOfLife(msgs[m])
    IN  /\ ~aborted
        /\ Alive(m) /\ ack.ear /\ AckAccepted(msgs[m], ack)
        /\ msgs' = [msgs EXCEPT ![m] =
                [ut_send_unacknowleged([um EXCEPT !.alpha = Fragcnt(um)])
                    EXCEPT !.expecting_ack = FALSE]]
        /\ attr' = ut_to_flag_good(attr, um.to)
        /\ UNCHANGED <<lower, aborted>>

----------------------------------------------------------------------------
(* The lower layer.                                                        *)

Release(dg) == BagIn(dg, lower) /\ lower' = lower (-) SetToBag({dg})

\* ut_frag_hook(): is the fragment still to be sent?
ut_frag_hook(m, f) == Alive(m) /\ msgs[m].fragments[f] # Null

\* ut_frag_pmsg_free(), the fragment was sent
FragSent(m, f) ==
    LET um == msgs[m]
    IN  /\ ~aborted
        /\ Release(Frag(m, f)) /\ ut_frag_hook(m, f)
        /\ \/ /\ um.reliable
              /\ Leave(m, [um EXCEPT !.fragments[f] =
                    [@ EXCEPT !.txcnt = Saturated(um.fragments[f].txcnt, SendMax),
                              !.resend_ev = TRUE]])
           \/ /\ ~um.reliable
              /\ LeaveOrFree(m, ut_frag_free(um, f))
        /\ UNCHANGED aborted

\* Fault: a fragment that was dropped is forgotten.
FragForgotten(m, f) ==
    /\ ~aborted
    /\ Release(Frag(m, f)) /\ ut_frag_hook(m, f)
    /\ UNCHANGED <<msgs, attr, aborted>>

\* ut_frag_pmsg_free(), the fragment was dropped: it is kept for later.
FragDropped(m, f) ==
    /\ ~aborted
    /\ Release(Frag(m, f)) /\ ut_frag_hook(m, f)
    /\ Leave(m, [msgs[m] EXCEPT !.fragments[f].resend_ev = TRUE])
    /\ UNCHANGED aborted

\* ut_frag_pmsg_free(), the message or the fragment is gone
FragCancelled(m, f) ==
    /\ ~aborted
    /\ Release(Frag(m, f)) /\ ~ut_frag_hook(m, f)
    /\ UNCHANGED <<msgs, attr, aborted>>

\* ut_ack_pmsg_free(), an EAR was sent: the message is looked up again from
\* the sequence ID.
EarSent(seqno, n) ==
    LET owners == {m \in LiveMids : msgs[m].seqno = seqno}
        failed == \E m \in owners : msgs[m].ear_ev
    IN  /\ ~aborted
        /\ BagIn(Ear(seqno, n), lower)
        /\ \/ failed /\ Abort
           \/ /\ ~failed
              /\ msgs' = [m \in Mid |->
                    IF m \in owners
                      THEN [msgs[m] EXCEPT !.ears = Saturated(@, EarSendMax),
                                           !.ear_pending = FALSE, !.ear_ev = TRUE]
                      ELSE msgs[m]]
              /\ Release(Ear(seqno, n))
              /\ UNCHANGED <<attr, aborted>>

\* ut_ack_pmsg_free(), an EAR was dropped: it is given again to the lower
\* layer, a bounded number of times.
EarDropped(seqno, n) ==
    LET dg == Ear(seqno, n)
    IN  /\ ~aborted
        /\ BagIn(dg, lower)
        /\ lower' = (lower (-) SetToBag({dg})) (+)
                    (IF n < AckSendMax THEN SetToBag({Ear(seqno, n + 1)}) ELSE EmptyBag)
        /\ UNCHANGED <<msgs, attr, aborted>>

\* Fault: the datagram that is refused again is not put back.
ServiceLosesOne(k) ==
    LET q == attr.pending
        a == [attr EXCEPT !.pending = SubSeq(q, k + 1, Len(q)), !.lower_flowc = k < Len(q)]
    IN  /\ ~aborted /\ attr.lower_flowc
        /\ attr' = IF k = Len(q) THEN tx_ut_upper_service(a) ELSE a
        /\ UNCHANGED <<msgs, lower, aborted>>

\* tx_ut_service() and ut_pending_send(): the lower layer takes k datagrams.
Service(k) ==
    LET q == attr.pending
        a == [attr EXCEPT !.pending = SubSeq(q, k + 1, Len(q)), !.lower_flowc = k < Len(q)]
    IN  /\ ~aborted
        /\ attr.lower_flowc
        /\ lower' = lower (+) BagOf(SubSeq(q, 1, k))
        /\ attr' = IF k = Len(q) THEN tx_ut_upper_service(a) ELSE a
        /\ UNCHANGED <<msgs, aborted>>

----------------------------------------------------------------------------
(* The timers.                                                             *)

\* ut_resend_iterate()
ResendIterate(m) ==
    LET um     == [msgs[m] EXCEPT !.iterate_ev = FALSE]
        failed == \E f \in Range(Batch(um)) : um.fragments[f].resend_ev
    IN  /\ ~aborted
        /\ Alive(m) /\ msgs[m].iterate_ev
        /\ \/ /\ ~um.alive /\ EarSupport /\ ~um.ear_pending /\ ~um.ear_ev
              /\ Leave(m, [um EXCEPT !.expecting_ack = TRUE, !.ear_pending = TRUE])
              /\ BagCardinality(lower) < MaxLower
              /\ lower' = lower (+) SetToBag({Ear(um.seqno, 0)})
              /\ UNCHANGED aborted
           \/ /\ ~um.alive /\ EarSupport /\ (um.ear_pending \/ um.ear_ev)
              /\ Leave(m, um)
              /\ UNCHANGED <<lower, aborted>>
           \/ (um.alive \/ ~EarSupport) /\ failed /\ Abort
           \/ /\ (um.alive \/ ~EarSupport) /\ ~failed
              /\ msgs' = [msgs EXCEPT ![m] = ResendBatch(um)]
              /\ ut_frag_send(FragSeq(m, Batch(um)), attr)
              /\ UNCHANGED aborted

\* ut_ear_resend()
EarResend(m) ==
    LET um == [msgs[m] EXCEPT !.ear_ev = FALSE]
    IN  /\ ~aborted
        /\ Alive(m) /\ msgs[m].ear_ev
        /\ \/ um.to \in attr.ban /\ ut_msg_free(m, FALSE, attr)
           \/ um.to \notin attr.ban /\ um.lingering /\ Leave(m, um)
           \/ /\ um.to \notin attr.ban /\ ~um.lingering /\ um.ears >= EarSendMax
              /\ ut_msg_free(m, FALSE, ut_to_ban(attr, um.to))
           \/ /\ um.to \notin attr.ban /\ ~um.lingering /\ um.ears < EarSendMax
              /\ Leave(m, ut_resend_async(um))
        /\ UNCHANGED <<lower, aborted>>

\* ut_frag_resend()
FragResend(m, f) ==
    LET uf      == msgs[m].fragments[f]
        um      == AckTimeout(msgs[m], f)
        give_up == uf.txcnt >= SendMax /\ Fragsent(um) = 0
    IN  /\ ~aborted
        /\ f \in LiveFrags(msgs[m]) /\ uf.resend_ev
        /\ \/ /\ um.lingering
              /\ Leave(m, ut_resend_async(um)) /\ UNCHANGED <<lower, aborted>>
           \/ /\ ~um.lingering /\ (um.to \in attr.ban \/ give_up)
              /\ ut_msg_free(m, FALSE, attr) /\ UNCHANGED <<lower, aborted>>
           \/ /\ ~um.lingering /\ um.to \notin attr.ban /\ ~give_up /\ uf.resend
              /\ Abort
           \/ /\ ~um.lingering /\ um.to \notin attr.ban /\ ~give_up /\ ~uf.resend
              /\ Leave(m, EnqueueResend(um, f)) /\ UNCHANGED <<lower, aborted>>

\* Fault: the linger timer is not set.
ExpiredAgain(m) ==
    /\ ~aborted /\ Alive(m) /\ ~msgs[m].lingering
    /\ msgs' = [msgs EXCEPT ![m] = ut_send_unacknowleged(@)]
    /\ UNCHANGED <<attr, lower, aborted>>

\* ut_um_expired(): the host is banned when it acknowledged too little of what
\* was sent, and the message flushed when it acknowledged enough.
Expired(m) ==
    LET um   == msgs[m]
        half == Fragcnt(um) \div 2
        full == [um EXCEPT !.alpha = Fragcnt(um)]
        ban  == Unsent(um) = {} /\ um.reliable /\ Fragsent(um) < half
    IN  /\ ~aborted
        /\ Alive(m) /\ ~um.lingering
        /\ msgs' = [msgs EXCEPT ![m] =
                [(IF um.reliable /\ Fragsent(um) >= half
                    THEN ut_send_unacknowleged(full) ELSE full)
                   EXCEPT !.lingering = TRUE]]
        /\ attr' = IF ban THEN ut_to_ban(attr, um.to) ELSE attr
        /\ UNCHANGED <<lower, aborted>>

\* ut_um_lingered()
Lingered(m) ==
    /\ ~aborted
    /\ Alive(m) /\ msgs[m].lingering
    /\ ut_msg_free(m, FALSE, attr)
    /\ UNCHANGED <<lower, aborted>>

\* Entries of the aging tables expire.
Aged(h) ==
    /\ ~aborted
    /\ h \in attr.ban \cup attr.good
    /\ \E ban \in {attr.ban, attr.ban \ {h}}, good \in {attr.good, attr.good \ {h}} :
            attr' = [attr EXCEPT !.ban = ban, !.good = good]
    /\ UNCHANGED <<msgs, lower, aborted>>

----------------------------------------------------------------------------
\* tx_ut_init()
Init ==
    /\ msgs = [m \in Mid |-> Unborn]
    /\ \E last \in Id :
         attr = [seq |-> idtable_new(last), pending |-> <<>>, ban |-> {}, good |-> {},
                 seqno_freed |-> 0, out_of_seqno |-> FALSE, upper_flowc |-> FALSE,
                 lower_flowc |-> FALSE]
    /\ lower = EmptyBag
    /\ aborted = FALSE

Upper ==
    \E req \in Requests : \/ SendToFlowControlled(req)
                          \/ SendToOutOfSeqno(req)
                          \/ SendToTooLarge(req)
                          \/ SendTo(req)

\* A peer running RxUt acknowledges what it received: see RxUt!AckSound.
Plausible(um, ack) == Acknowledged(ack, Fragcnt(um)) \cap Unsent(um) = {}

Remote ==
    \E m \in LiveMids, ack \in AckInputs :
        /\ RoguePeers \/ Plausible(msgs[m], ack)
        /\ GotAck(m, ack) \/ GotEarNack(m, ack)

FragReleased(m, f) == FragSent(m, f) \/ FragDropped(m, f) \/ FragCancelled(m, f)
EarReleased(seqno, n) == EarSent(seqno, n) \/ EarDropped(seqno, n)
Released ==
    \E dg \in BagToSet(lower) :
        \/ dg.kind = "frag" /\ FragReleased(dg.mid, dg.fragno)
        \/ dg.kind = "ear" /\ EarReleased(dg.seqno, dg.attempts)

Timeout(m) ==
    \/ ResendIterate(m) \/ EarResend(m) \/ Expired(m) \/ Lingered(m)
    \/ Alive(m) /\ \E f \in DOMAIN msgs[m].fragments : FragResend(m, f)

Next ==
    \/ Upper
    \/ Remote
    \/ Released
    \/ \E k \in 1 .. Len(attr.pending) : Service(k)
    \/ \E m \in Mid : Timeout(m)
    \/ \E h \in Host : Aged(h)

Spec == Init /\ [][Next]_vars

\* The callout queue runs every event whose time has come, and the lower layer
\* services the users it flow-controlled until all they hold is accepted.
FairSpec ==
    /\ Spec
    /\ \A m \in Mid : WF_vars(Expired(m)) /\ WF_vars(Lingered(m))
    /\ WF_vars(attr.pending # <<>> /\ Service(Len(attr.pending)))

----------------------------------------------------------------------------
(* Properties.                                                             *)

\* The state has the types of struct ut_msg and of struct attr.
TypeOK ==
    /\ \A m \in Mid : Alive(m) => msgs[m] \in UMsg(Fragcnt(msgs[m]))
    /\ attr.seq \in IdTables
    /\ attr.ban \subseteq Host /\ attr.good \subseteq Host
    /\ attr.seqno_freed \in 0 .. SeqnoThresh - 1
    /\ {attr.out_of_seqno, attr.upper_flowc, attr.lower_flowc, aborted} \subseteq BOOLEAN

\* The list of fragments to resend holds exactly the fragments flagged so,
\* once each, and none of them waits for the ACK of a retransmission:
\* ut_resend_iterate() asserts both.
ResendListExact ==
    \A m \in LiveMids :
        LET um == msgs[m]
        IN  /\ Len(um.resend) = Cardinality(Range(um.resend))
            /\ Range(um.resend) = {f \in LiveFrags(um) : um.fragments[f].resend}
            /\ \A f \in Range(um.resend) : ~um.fragments[f].pending

\* um->pending counts the fragments that wait for the ACK of a retransmission.
PendingCount(um) ==
    um.pending = Cardinality({f \in LiveFrags(um) : um.fragments[f].pending})

\* Until the message expires, um->pending is exact through all retransmissions,
\* timeouts, drops and ACKs, so that the parallelism of resends is respected.
PendingExact == \A m \in LiveMids : ~msgs[m].lingering => PendingCount(msgs[m])

\* The books of retransmission agree, whatever ACKs, timeouts, drops and EARs
\* come: the resend list with the flags of the fragments, and um->pending, which
\* bounds the parallelism in ut_resend_iterate(), with the fragments waiting.
ResendInv == TypeOK /\ ResendListExact /\ PendingExact

Held(m, f) == \/ BagIn(Frag(m, f), lower)
              \/ Frag(m, f) \in Range(attr.pending)

\* No fragment is lost: until the message expires, a fragment that was not
\* acknowledged is held back by caution, or in the hands of the lower layer or
\* of its queue, or in the resend list, or has its resend timer armed.
FragmentAccounted ==
    \A m \in LiveMids : \A f \in LiveFrags(msgs[m]) :
        LET um == msgs[m]
            uf == um.fragments[f]
        IN  \/ um.lingering
            \/ um.cautious /\ f < Fragcnt(um) - 1
            \/ uf.resend \/ uf.resend_ev \/ Held(m, f)

\* The lower layer has an EAR of the message.
EarBelow(um) == \E dg \in BagToSet(lower) : dg.kind = "ear" /\ dg.seqno = um.seqno

\* Messages that wait for an EAR that is nowhere: ut_ack_pmsg_free() leaves
\* um->ear_pending set once the EAR was dropped for good, and that flag is what
\* keeps ut_resend_iterate() from sending another.
LostEar == {m \in LiveMids : msgs[m].ear_pending /\ ~EarBelow(msgs[m])}

\* The resend list sleeps in one case only.  Until the message expires, when the
\* list is not empty an iteration is scheduled, or the EAR timer is armed, or the
\* lower layer has the EAR whose fate leads to one, or a fragment waits for the
\* ACK of its retransmission; all this unless the EAR of the message was lost,
\* which takes AckSendMax + 1 drops by the lower layer and nothing less.  That
\* message only resumes with an ACK of the peer, and otherwise ends by expiring.
ResendDriven ==
    /\ [](\A m \in LiveMids \ LostEar :
            LET um == msgs[m]
            IN  um.resend # <<>> /\ ~um.lingering =>
                    \/ um.iterate_ev \/ um.ear_ev \/ EarBelow(um)
                    \/ \E f \in LiveFrags(um) : um.fragments[f].pending)
    /\ [][\A m \in LostEar' \ LostEar : EarDropped(msgs[m].seqno, AckSendMax)]_vars

\* The IDs in use are those of the messages, each its own: ut_destroy_msg()
\* asserts that there is a message behind each ID, and the lookup from the ID of
\* an ACK or of an EAR relies on there being one only.
SeqIdsOwned ==
    /\ attr.seq.ids = {msgs[m].seqno : m \in LiveMids}
    /\ \A m, n \in LiveMids : msgs[m].seqno = msgs[n].seqno => m = n

\* When the upper layer is flow-controlled someone will lift it: the lower
\* layer has datagrams of ours to drain, or we ran out of sequence IDs and
\* enough messages are there for their IDs to reach the threshold.
FlowControlLifted ==
    /\ attr.upper_flowc => attr.lower_flowc \/ attr.out_of_seqno
    /\ attr.lower_flowc <=> attr.pending # <<>>
    /\ attr.out_of_seqno =>
            attr.seqno_freed + Cardinality(LiveMids) >= SeqnoThresh

\* Sequence IDs and refused datagrams are what flow control of the upper layer
\* stands on: no ID leaks or is shared (ut_msg_free()), and there is always
\* something that will lift it (tx_ut_upper_service()).
FlowInv == SeqIdsOwned /\ FlowControlLifted

\* Every message accepted from the upper layer has an end, sent or dropped.
MessageEnds == \A m \in Mid : Alive(m) ~> (~Alive(m) \/ aborted)

\* Flow control of the upper layer does not last forever.
FlowControlEnds == attr.upper_flowc ~> (~attr.upper_flowc \/ aborted)
=============================================================================
