-------------------------------- MODULE RxUt --------------------------------
(***************************************************************************)
(* The receiving layer of the semi-reliable UDP transceiver                *)
(* (src/core/rx_ut.c).                                                     *)
(*                                                                         *)
(* mseq is the set attr->mseq: the messages being received or lingering,   *)
(* keyed by the sender's address and its sequence ID (a member of Rid).    *)
(* The handlers are the datagram entry point ut_got_message() and the      *)
(* callbacks of the two timers of a message, run one at a time by the      *)
(* main thread.  What a handler hands to the other layers is in acks (to   *)
(* the sibling TX layer) and in given (to the upper layer); both hold the  *)
(* output of the last handler only.                                        *)
(*                                                                         *)
(* The timers carry no time: a timer that is armed may fire at any moment. *)
(***************************************************************************)
EXTENDS UtAck

CONSTANTS
    Rid,            \* message IDs: sending host and 16-bit sequence ID
    NoMsg,          \* no message is known under that ID
    Payload,        \* payloads of fragments
    Empty,          \* the payload of zero bytes
    Headers,        \* headers the peers may put on a fragment
    ResentMod,      \* modulus of the resent_acks field, 2^9 in the code
    NativeImproved  \* attr->improved_acks: improved ACKs need no advertising

VARIABLES
    mseq,       \* attr->mseq
    if_enabled, \* attr->if_enabled
    acks,       \* ACKs sent by the last handler
    given       \* messages given to the upper layer by the last handler

rxvars == <<mseq, if_enabled, acks, given>>

\* The headers pass udp_check_semi_reliable(): part is zero-based here.
ASSUME HeadersAssumption ==
    \A h \in Headers :
        /\ h = [part |-> h.part, count |-> h.count, ackme |-> h.ackme,
                deflated |-> h.deflated, improved |-> h.improved]
        /\ h.part \in Part /\ h.count \in 1 .. FragMax /\ h.part < h.count
        /\ {h.ackme, h.deflated, h.improved} \subseteq BOOLEAN
ASSUME NativeAssumption == NativeImproved \in BOOLEAN
ASSUME ResentAssumption == ResentMod \in Nat \ {0}

\* struct ut_rmsg
RMsg == [fragcnt: 1 .. FragMax, fragrecv: 0 .. FragMax, acks_pending: 0 .. FragMax,
         fragments: SUBSET (Part \X Payload), fbits: SUBSET Part, facks: SUBSET Part,
         resent_acks: 0 .. ResentMod - 1, reliable: BOOLEAN, deflated: BOOLEAN,
         improved_acks: BOOLEAN, lingering: BOOLEAN,
         expire_ev: {"almost", "expire", "linger"}, acks_ev: BOOLEAN]

ASSUME NoMsgAssumption == NoMsg \notin RMsg

Frags(um) == 0 .. um.fragcnt - 1

----------------------------------------------------------------------------
(* Building acknowledgments.                                               *)

\* Faults: the first missing fragment is acknowledged instead of the one before,
\* the conversion from one-based numbers is made twice, or never.
CumulativeBaseTwice(um, last_unacked) ==
    LET missing == Frags(um) \ um.fbits
    IN  IF missing # {} THEN CumulativeAck(Min(missing) - 2)
        ELSE CumulativeAck(um.fragcnt - 1)
CumulativeOneBased(um, last_unacked) ==
    IF um.fbits = Frags(um) THEN CumulativeAck(um.fragcnt) ELSE PlainAck(last_unacked)
CumulativeOffByOne(um, last_unacked) ==
    LET missing == Frags(um) \ um.fbits
        first   == Min(missing)
    IN  IF missing = {} THEN CumulativeAck(um.fragcnt - 1)
        ELSE IF first > last_unacked THEN CumulativeAck(first)
        ELSE PlainAck(last_unacked)

\* ut_cumulative_ack(), with the fragments still missing and the highest
\* fragment to acknowledge.
ut_cumulative_ack(um, last_unacked) ==
    LET missing == Frags(um) \ um.fbits
        first   == Min(missing)
    IN  IF missing = {} THEN CumulativeAck(um.fragcnt - 1)
        ELSE IF first > last_unacked
          THEN [ZeroAck EXCEPT !.cumulative = first > 1, !.fragno = first - 1]
          ELSE PlainAck(last_unacked)

\* ut_upgrade_ack(): must the ACK be turned into an extended one?
Extendable(um, ack) ==
    /\ um.fragcnt > 2
    /\ ack.cumulative => \E f \in um.fbits : f > ack.fragno
    /\ um.fragrecv # 1

\* Fault: only the fragments of the window are counted as received.
UpgradeWindowOnly(um, ack) ==
    LET base == WindowBase(ack)
        end  == WindowEnd(base, um.fragcnt)
    IN  IF Extendable(um, ack)
          THEN [ack EXCEPT !.received = Cardinality(um.fbits \cap 0 .. end - 1),
                           !.missing = {f - base : f \in (base .. end - 1) \ um.fbits}]
          ELSE ack

\* ut_upgrade_ack(): the ACK it leaves...
ut_upgrade_ack(um, ack) ==
    LET base == WindowBase(ack)
        end  == WindowEnd(base, um.fragcnt)
    IN  IF Extendable(um, ack)
          THEN [ack EXCEPT !.received = um.fragrecv,
                           !.missing = {f - base : f \in (base .. end - 1) \ um.fbits}]
          ELSE ack

\* ... and the value it returns.  The comparison is "max <= um->fragcnt",
\* after max was bounded by um->fragcnt.
Exhaustive(um, ack) ==
    IF um.fragcnt <= 2 THEN ack.cumulative
    ELSE Extendable(um, ack) => WindowEnd(WindowBase(ack), um.fragcnt) <= um.fragcnt

\* ut_build_delayed_ack() for the pending fragment last_unacked.
BaseAck(um, last_unacked) == ut_cumulative_ack(um, last_unacked)
ut_build_delayed_ack(um, last_unacked) ==
    ut_upgrade_ack(um, BaseAck(um, last_unacked))

\* ut_build_extra_ack(), improved form.
ut_build_extra_ack(um) ==
    LET last_unacked == IF um.facks # {} THEN Max(um.facks) ELSE Max(um.fbits)
    IN  ut_upgrade_ack(um, BaseAck(um, last_unacked))

----------------------------------------------------------------------------
(* The routines working on one message: each yields the message it leaves  *)
(* and the ACKs it sends.                                                  *)

\* Fault: ACKs stay pending.
ClearNothing(um) == um

ut_rmsg_clear_acks(um) == [um EXCEPT !.facks = {}, !.acks_pending = 0]

\* ut_delayed_ack(): pending fragments are acknowledged from the highest
\* down, until an ACK is deemed exhaustive.
ut_delayed_ack(um) ==
    LET flushed == {i \in um.facks : \A j \in um.facks :
                        j > i => ~Exhaustive(um, BaseAck(um, j))}
    IN  [um   |-> ut_rmsg_clear_acks([um EXCEPT !.acks_ev = FALSE]),
         acks |-> {ut_build_delayed_ack(um, i) : i \in flushed}]

\* ut_rmsg_reack_improved(): one ACK states everything received so far.
ut_rmsg_reack_improved(um) ==
    [um   |-> ut_rmsg_clear_acks([um EXCEPT !.acks_ev = FALSE]),
     acks |-> {ut_build_extra_ack(um)}]

\* The full re-ACK of ut_rmsg_reack(): one ACK per fragment received.
ReackEachFragment(um) ==
    [um   |-> [um EXCEPT !.resent_acks = (@ + Cardinality(um.fbits)) % ResentMod],
     acks |-> {PlainAck(i) : i \in um.fbits}]

ut_rmsg_reack(um, reason) ==
    CASE um.improved_acks -> ut_rmsg_reack_improved(um)
      [] ~um.improved_acks /\ (reason = "almost" \/ um.resent_acks < 2 * um.fragcnt) ->
            ReackEachFragment(um)
      [] OTHER -> [um |-> um, acks |-> {}]

\* The fragment of header h joins the pending ACKs.
PendingAck(um, part) ==
    [um EXCEPT !.facks = @ \cup {part},
               !.acks_pending = IF part \in um.facks THEN @ ELSE @ + 1]

\* ut_acknowledge_fragment(), called before the fragment is accounted for.
ut_acknowledge_fragment(um, part) ==
    LET duplicate == part \in um.fbits
        improved  == um.improved_acks /\ um.fragcnt > 1
        all       == um.fragrecv + (IF duplicate THEN 0 ELSE 1) = um.fragcnt
        pending   == PendingAck(um, part)
    IN  CASE improved /\ all ->
               [um   |-> ut_rmsg_clear_acks([um EXCEPT !.acks_ev = FALSE]),
                acks |-> {CumulativeAck(um.fragcnt - 1)}]
          [] improved /\ ~all /\ ~duplicate ->
               [um |-> [pending EXCEPT !.acks_ev = TRUE], acks |-> {}]
          [] improved /\ ~all /\ duplicate /\ um.acks_ev -> ut_delayed_ack(pending)
          [] improved /\ ~all /\ duplicate /\ ~um.acks_ev -> ut_rmsg_reack(pending, "dup")
          [] ~improved /\ duplicate -> ut_rmsg_reack(um, "dup")
          [] OTHER -> [um |-> um, acks |-> {PlainAck(part)}]

\* ut_rmsg_linger(): cq_replace() keeps the trigger time of the timer.
ut_rmsg_linger(um) ==
    [um EXCEPT !.fragments = {}, !.lingering = TRUE, !.expire_ev = "linger"]

\* ut_handle_fragment() up to the re-assembly: the fragment is stored.
StoreFragment(um, part, data) ==
    [um EXCEPT !.fbits = @ \cup {part}, !.fragrecv = @ + 1,
               !.fragments = IF data = Empty THEN @ ELSE @ \cup {<<part, data>>}]

\* Fault: the fragment is not checked against those received.
HandleDuplicate(um, part, data) ==
    LET stored == StoreFragment(um, part, data)
    IN  IF stored.fragrecv = um.fragcnt THEN ut_rmsg_linger(stored) ELSE stored

\* ut_handle_fragment(), the message it leaves.
ut_handle_fragment(um, part, data) ==
    LET stored == StoreFragment(um, part, data)
    IN  CASE um.lingering \/ part \in um.fbits -> um
          [] OTHER -> IF stored.fragrecv = um.fragcnt THEN ut_rmsg_linger(stored)
                      ELSE stored

\* Fault: a lingering message is assembled again.
AssembleAgain(m, um, part, data, inflates) ==
    IF um.fbits \cup {part} = Frags(um) /\ if_enabled
      THEN {[mid |-> m, fragments |-> {}, compressed |-> FALSE]} ELSE {}

\* ut_assemble_message() and ut_received(): what reaches the upper layer
\* when the last fragment comes.  Whether the inflater accepts a deflated
\* message (inflates) is the choice of the environment.
ut_assemble_message(m, um, part, data, inflates) ==
    LET stored == StoreFragment(um, part, data)
        whole  == /\ ~um.lingering /\ part \notin um.fbits
                  /\ stored.fragrecv = um.fragcnt
        usable == IF um.deflated THEN inflates ELSE stored.fragments # {}
    IN  IF whole /\ usable /\ if_enabled
          THEN {[mid |-> m, fragments |-> stored.fragments, compressed |-> FALSE]}
          ELSE {}

\* ut_rmsg_create()
ut_rmsg_create(h) ==
    [fragcnt |-> h.count, fragrecv |-> 0, acks_pending |-> 0, fragments |-> {},
     fbits |-> {}, facks |-> {}, resent_acks |-> 0, reliable |-> h.ackme,
     deflated |-> h.deflated, improved_acks |-> NativeImproved \/ h.improved,
     lingering |-> FALSE, expire_ev |-> "almost", acks_ev |-> FALSE]

----------------------------------------------------------------------------
(* The handlers.                                                           *)

Known(m) == mseq[m] # NoMsg

Send(m, ackset) == acks' = {[mid |-> m, ack |-> a] : a \in ackset}

\* The message is left as r.um, and the ACKs r.acks are sent.
Respond(m, r) ==
    /\ mseq' = [mseq EXCEPT ![m] = r.um]
    /\ Send(m, r.acks)

Consistent(um, h) ==
    /\ h.count = um.fragcnt
    /\ h.deflated = um.deflated
    /\ h.ackme = um.reliable

\* ut_got_message(), special case: an unreliable message of one fragment is
\* handed over as it came, without being recorded.
Singleton(m, h) == ~Known(m) /\ h.count = 1 /\ ~h.ackme

GotSingleton(m, h, data) ==
    /\ Singleton(m, h)
    /\ given' = IF if_enabled
                  THEN {[mid |-> m, compressed |-> h.deflated,
                         fragments |-> IF data = Empty THEN {} ELSE {<<0, data>>}]}
                  ELSE {}
    /\ acks' = {}
    /\ UNCHANGED <<mseq, if_enabled>>

\* ut_got_message(), a fragment that contradicts what is known: dropped.
GotInconsistent(m, h) ==
    /\ Known(m) /\ ~Consistent(mseq[m], h)
    /\ acks' = {} /\ given' = {}
    /\ UNCHANGED <<mseq, if_enabled>>

\* ut_got_message(), a fragment of a new or known message.  It is
\* acknowledged first, if so requested, then processed.
GotFragment(m, h, data, inflates) ==
    LET um == IF Known(m) THEN mseq[m] ELSE ut_rmsg_create(h)
        r  == IF h.ackme THEN ut_acknowledge_fragment(um, h.part)
              ELSE [um |-> um, acks |-> {}]
    IN  /\ ~Singleton(m, h) /\ Consistent(um, h)
        /\ Respond(m, [r EXCEPT !.um = ut_handle_fragment(r.um, h.part, data)])
        /\ given' = ut_assemble_message(m, r.um, h.part, data, inflates)
        /\ UNCHANGED if_enabled

\* ut_handle_ear()
GotEAR(m) ==
    /\ \/ /\ ~Known(m)
          /\ Send(m, {EarNack})
          /\ UNCHANGED mseq
       \/ /\ Known(m)
          /\ Respond(m, ut_rmsg_reack(mseq[m], "ear"))
    /\ given' = {}
    /\ UNCHANGED if_enabled

\* The callback ut_delayed_ack() of the acks_ev timer.
DelayedAck(m) ==
    /\ Known(m) /\ mseq[m].acks_ev
    /\ Respond(m, ut_delayed_ack(mseq[m]))
    /\ given' = {}
    /\ UNCHANGED if_enabled

\* Fault: the same timer is armed again.
AlmostExpiredAgain(m) ==
    /\ Known(m) /\ mseq[m].expire_ev = "almost"
    /\ Respond(m, ut_rmsg_reack(mseq[m], "almost"))
    /\ given' = {}
    /\ UNCHANGED if_enabled

\* ut_rmsg_almost_expired(): the timer is armed again before the re-ACK.
AlmostExpired(m) ==
    /\ Known(m) /\ mseq[m].expire_ev = "almost"
    /\ Respond(m, ut_rmsg_reack([mseq[m] EXCEPT !.expire_ev = "expire"], "almost"))
    /\ given' = {}
    /\ UNCHANGED if_enabled

\* ut_rmsg_free(um, TRUE)
ut_rmsg_free(m) ==
    /\ mseq' = [mseq EXCEPT ![m] = NoMsg]
    /\ acks' = {} /\ given' = {}
    /\ UNCHANGED if_enabled

\* ut_rmsg_expired()
RxExpired(m) == Known(m) /\ mseq[m].expire_ev = "expire" /\ ut_rmsg_free(m)

\* ut_rmsg_lingered()
RxLingered(m) == Known(m) /\ mseq[m].expire_ev = "linger" /\ ut_rmsg_free(m)

\* rx_ut_enable() and rx_ut_disable()
SetEnabled(on) ==
    /\ if_enabled' = on
    /\ acks' = {} /\ given' = {}
    /\ UNCHANGED mseq

----------------------------------------------------------------------------
\* rx_ut_init()
RxInit ==
    /\ mseq = [m \in Rid |-> NoMsg]
    /\ if_enabled = FALSE
    /\ acks = {} /\ given = {}

\* rx_ut_destroy(), then rx_ut_init() when UDP is enabled again: the messages
\* being received are forgotten, their timers cancelled.
Renew ==
    /\ mseq' = [m \in Rid |-> NoMsg]
    /\ if_enabled' = FALSE
    /\ acks' = {} /\ given' = {}

Receive(m) ==
    \/ \E h \in Headers, data \in Payload : GotSingleton(m, h, data)
    \/ \E h \in Headers : GotInconsistent(m, h)
    \/ \E h \in Headers, data \in Payload, inflates \in BOOLEAN :
            GotFragment(m, h, data, inflates)
    \/ GotEAR(m)

RxTimeout(m) == DelayedAck(m) \/ AlmostExpired(m) \/ RxExpired(m) \/ RxLingered(m)

RxNext ==
    \/ \E m \in Rid : Receive(m) \/ RxTimeout(m)
    \/ \E on \in BOOLEAN : SetEnabled(on)
    \/ Renew

RxSpec == RxInit /\ [][RxNext]_rxvars

\* The callout queue runs every event whose time has come.
RxFairSpec ==
    RxSpec /\ \A m \in Rid : /\ WF_rxvars(DelayedAck(m))
                             /\ WF_rxvars(AlmostExpired(m))
                             /\ WF_rxvars(RxExpired(m))
                             /\ WF_rxvars(RxLingered(m))

----------------------------------------------------------------------------
(* Properties.                                                             *)

\* The state has the types of struct ut_rmsg and of the layer's attributes.
RxTypeOK ==
    /\ mseq \in [Rid -> RMsg \cup {NoMsg}]
    /\ if_enabled \in BOOLEAN
    /\ acks \subseteq [mid: Rid, ack: Acks]
    /\ given \subseteq [mid: Rid, fragments: SUBSET (Part \X Payload),
                        compressed: BOOLEAN]

\* The counters of a message agree with its bit arrays (fragrecv with fbits,
\* acks_pending with facks), and it lingers, its data released and its timer
\* replaced, exactly when no fragment is missing.  No message is recorded
\* without at least one fragment: ut_build_extra_ack() asserts it.
MessageConsistent(um) ==
    /\ um.fbits # {} /\ um.fbits \subseteq Frags(um)
    /\ um.facks \subseteq um.fbits
    /\ um.fragrecv = Cardinality(um.fbits)
    /\ um.acks_pending = Cardinality(um.facks)
    /\ um.lingering <=> um.fbits = Frags(um)
    /\ um.lingering <=> um.expire_ev = "linger"
    /\ um.lingering => um.fragments = {}
    /\ \A p \in um.fragments : p[1] \in um.fbits

Consistency == \A m \in Rid : Known(m) => MessageConsistent(mseq[m])

\* An acknowledgment that was delayed is not forgotten: as long as fragments
\* wait for their ACK the timer that sends it is armed, and the timer never
\* fires with nothing to send (ut_build_delayed_ack() asserts it).
DelayedAckArmed ==
    \A m \in Rid : Known(m) =>
        /\ mseq[m].acks_ev <=> mseq[m].facks # {}
        /\ mseq[m].acks_ev => mseq[m].reliable /\ mseq[m].improved_acks

\* Read the way ut_got_ack() reads it on the other side, no ACK that
\* ut_ack_sendback() sends acknowledges a fragment that was not received,
\* whatever its kind: plain, cumulative, extended, or extended with a
\* received count that implies fragments past the missing bits.
AckSound ==
    \A a \in acks : ~a.ack.ear =>
        /\ Known(a.mid)
        /\ Acknowledged(a.ack, mseq[a.mid].fragcnt) \subseteq mseq[a.mid].fbits

\* The ACKs sent are never discarded by the peer as malformed: neither by
\* udp_check_semi_reliable(), nor by the range checks of ut_got_ack().
AckAcceptable ==
    \A a \in acks :
        /\ AckHeaderValid(a.ack)
        /\ ~a.ack.ear => /\ a.ack.fragno < mseq[a.mid].fragcnt
                         /\ a.ack.received <= mseq[a.mid].fragcnt

\* A message is given to the upper layer by the fragment that completes it
\* and by no other: retransmissions reaching a lingering message give nothing.
GivenOnCompletion ==
    [][\A g \in given' : Known(g.mid) =>
            ~mseq[g.mid].lingering /\ mseq'[g.mid].lingering]_rxvars

\* The pending fragments whose ACK is sure to be sent.  ut_delayed_ack() stops at
\* an ACK that ut_upgrade_ack() calls exhaustive, and it so calls every extended
\* one ("max <= um->fragcnt"), then clears what is pending.  That is right when
\* the missing bits of the wire reach all the fragments but two, the one that is
\* acknowledged and one implied by the count: up to 26 fragments with 24 bits.
\* In a longer message, the ACK of a fragment past the bits may be lost there.
SureAcks(um) == {f \in um.facks : um.fragcnt <= MissingBits + 2 \/ f < MissingBits}

\* When pending ACKs are cleared (timer, duplicate, EAR, completion), each of the
\* fragments they were for is acknowledged by an ACK sent at that time, as long as
\* the missing bits reach it or the message is no longer than they allow for.
PendingAcksSent ==
    [][\A m \in Rid : Known(m) /\ mseq'[m] # NoMsg =>
            SureAcks(mseq[m]) \ mseq'[m].facks \subseteq
                UNION {Acknowledged(a.ack, mseq[m].fragcnt) : a \in acks'}]_rxvars

\* A message leaves the reception table, whatever its peer keeps sending: its
\* timer is re-armed at most twice, when it is almost expired
\* (ut_rmsg_almost_expired()) and when it is complete (ut_rmsg_linger()).
ReceptionEnds == \A m \in Rid : Known(m) ~> ~Known(m)
=============================================================================
