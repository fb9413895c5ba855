---------------------------- MODULE UtLinkProofs ----------------------------
(***************************************************************************)
(* The proof that the sending layer, the receiving layer and the network   *)
(* between them (UtLink) implement what the transceiver promises           *)
(* (UtAbstract), for any number of messages, fragments and sequence IDs.   *)
(*                                                                         *)
(* The invariants of the layers, TxIInv and IInv, are used as they are:    *)
(* the steps of a layer within the link are steps of the layer alone.      *)
(* What is added says how their states agree across the network.           *)
(***************************************************************************)
EXTENDS UtLink, TxUtProofs, RxUtProofs

----------------------------------------------------------------------------
(* The invariant.                                                          *)

\* What a message of the sending layer is made of.
DealOf(um) == [seqno |-> um.seqno, count |-> Fragcnt(um), reliable |-> um.reliable]
Owns(m, s) == accepted[m] # Null /\ accepted[m].seqno = s

\* A message is accepted once, with an ID of its own.
AcceptedInv ==
    /\ accepted \in [Mid -> Deal \cup {Null}]
    /\ \A m \in Mid : accepted[m] = Null <=> msgs[m] = Unborn
    /\ \A m \in LiveMids : accepted[m] = DealOf(msgs[m])
    /\ \A m, k \in Mid : accepted[m] # Null /\ accepted[k] # Null /\ m # k =>
            accepted[m].seqno # accepted[k].seqno

\* What the network holds: fragments of messages that were accepted, and ACKs
\* of fragments that arrived.
FragOK(dg) ==
    /\ dg.mid \in Mid /\ Owns(dg.mid, dg.seqno) /\ dg.head \in WireHeaders
    /\ dg.head.count = accepted[dg.mid].count /\ dg.head.ackme = accepted[dg.mid].reliable
AckOK(s, ack) ==
    /\ s \in Id /\ ack \in Acks
    /\ ~ack.ear => \E m \in Mid : /\ Owns(m, s)
                                  /\ Acknowledged(ack, accepted[m].count) \subseteq arrived[m]
NetInv ==
    \A dg \in net : /\ dg.kind = "frag" => FragOK(dg)
                    /\ dg.kind = "ack" => AckOK(dg.seqno, dg.ack)
                    /\ dg.kind = "ear" => dg.seqno \in Id

\* A message being received is one that was accepted.  All that is stored of it
\* is its own, and it was delivered when it lingers.
RecvOK(m, um) ==
    /\ um.fragcnt = accepted[m].count /\ um.reliable = accepted[m].reliable /\ ~um.deflated
    /\ um.fbits \subseteq arrived[m]
    /\ ~um.lingering => um.fragments = {<<f, m>> : f \in um.fbits}
    /\ um.lingering => m \in delivered
RecvInv == \A s \in Id : Known(s) => \E m \in Mid : Owns(m, s) /\ RecvOK(m, mseq[s])

\* Of a message that was neither delivered nor lost, the receiver has all that
\* arrived.
HasArrived(m) == IF Known(accepted[m].seqno) THEN mseq[accepted[m].seqno].fbits ELSE {}
HistInv ==
    /\ arrived \in [Mid -> SUBSET Part] /\ delivered \subseteq Mid /\ lost \subseteq Mid
    /\ \A m \in Mid : accepted[m] = Null => arrived[m] = {}
    /\ \A m \in Mid : accepted[m] # Null =>
            /\ arrived[m] \subseteq 0 .. accepted[m].count - 1
            /\ m \in delivered \cup lost \/ arrived[m] = HasArrived(m)

\* The fragments that the sender believes acknowledged have arrived.
SentInv ==
    \A m \in LiveMids : msgs[m].reliable =>
        (0 .. Fragcnt(msgs[m]) - 1) \ LiveFrags(msgs[m]) \subseteq arrived[m]

\* The inductive invariant.
LinkIInv ==
    /\ TxIInv /\ IInv /\ if_enabled = TRUE
    /\ AcceptedInv /\ NetInv /\ RecvInv /\ HistInv /\ SentInv

----------------------------------------------------------------------------
(* What the sender does to its messages.                                   *)

\* v is what is left of um when fragments were freed, all of them in K if the
\* message wants ACKs.
Renewed(um, v, K) ==
    /\ v \in Msg /\ SameIdent(um, v) /\ Fragcnt(v) = Fragcnt(um)
    /\ um.reliable => LiveFrags(um) \ K \subseteq LiveFrags(v)

\* The messages stay, or one of them ends.  The fragments that are taken for
\* acknowledged are among those that arrived.
Continues ==
    \A m \in Mid : \/ msgs'[m] = msgs[m]
                   \/ m \in LiveMids /\ Renewed(msgs[m], msgs'[m], arrived[m])
EndsAs(m, tag) ==
    /\ m \in LiveMids /\ msgs'[m] = tag
    /\ \A k \in Mid \ {m} : msgs'[k] = msgs[k]
SenderMoves ==
    \/ Continues
    \/ \E m \in Mid : EndsAs(m, Dropped)
    \/ \E m \in Mid : /\ EndsAs(m, Sent)
                      /\ msgs[m].reliable => LiveFrags(msgs[m]) \subseteq arrived[m]

\* A step that leaves one message with the fragments that did not arrive.
LEMMA LeftAs ==
    ASSUME TxIInv, NEW m \in LiveMids, NEW v \in UMsg(Fragcnt(msgs[m])),
           SameIdent(msgs[m], v), msgs' = [msgs EXCEPT ![m] = v],
           msgs[m].reliable => LiveFrags(msgs[m]) \ arrived[m] \subseteq LiveFrags(v)
    PROVE  SenderMoves
<1>1. Fragcnt(msgs[m]) \in 1 .. FragMax /\ m \in Mid /\ Types
  BY LiveMsg
<1>2. v \in Msg /\ Fragcnt(v) = Fragcnt(msgs[m])
  BY <1>1, MsgFields
<1>3. \A k \in Mid : msgs'[k] = IF k = m THEN v ELSE msgs[k]
  BY <1>1 DEF Types
<1>4. Renewed(msgs[m], v, arrived[m])
  BY <1>2 DEF Renewed
<1> QED BY <1>1, <1>3, <1>4 DEF SenderMoves, Continues

\* ut_msg_free() ends a message, as sent only when the rest of it arrived.
LEMMA FreedAs ==
    ASSUME TxIInv, NEW m \in LiveMids, NEW sent \in BOOLEAN, NEW a, ut_msg_free(m, sent, a),
           sent /\ msgs[m].reliable => LiveFrags(msgs[m]) \subseteq arrived[m]
    PROVE  SenderMoves
<1>1. m \in Mid /\ Types
  BY LiveMsg
<1>2. msgs' = [msgs EXCEPT ![m] = IF sent THEN Sent ELSE Dropped]
  BY DEF ut_msg_free
<1>3. \A k \in Mid : msgs'[k] = IF k = m THEN (IF sent THEN Sent ELSE Dropped) ELSE msgs[k]
  BY <1>1, <1>2 DEF Types
<1>4. CASE sent
  BY <1>1, <1>3, <1>4 DEF SenderMoves, EndsAs
<1>5. CASE ~sent
  BY <1>1, <1>3, <1>5 DEF SenderMoves, EndsAs
<1> QED BY <1>4, <1>5

\* A step that leaves the messages alone.
LEMMA UntouchedMoves ==
    ASSUME UNCHANGED msgs
    PROVE  SenderMoves
BY DEF SenderMoves, Continues

\* What ut_got_ack() frees is what the ACK acknowledges.
LEMMA AckRead ==
    ASSUME NEW n \in 1 .. FragMax, NEW um \in UMsg(n), NEW ack \in Acks, ack.fragno < n, ~ack.ear
    PROVE  /\ AckedFrags(um, ack) \subseteq Acknowledged(ack, n)
           /\ AcksWholeMessage(ack, n) => Acknowledged(ack, n) = 0 .. n - 1
<1>1. AckedFrags(um, ack) \subseteq 0 .. n - 1 /\ Fragcnt(um) = n
  BY AckedInMessage, MsgFields
<1>2. CASE AcksWholeMessage(ack, n)
  BY <1>1, <1>2 DEF Acknowledged
<1>3. CASE ~AcksWholeMessage(ack, n)
  <2> DEFINE S1 == {ack.fragno}
             S2 == IF ack.cumulative THEN 0 .. ack.fragno - 1 ELSE {}
             S3 == IF ack.received # 0 THEN WindowReceived(ack, n) \cup ImpliedReceived(ack, n) ELSE {}
  <2>1. Stages(um, ack) = <<S1, S2, S3>>
    BY <1>1 DEF Stages
  <2>2. Acknowledged(ack, n) = S1 \cup S2 \cup S3
    BY <1>3 DEF Acknowledged
  <2> HIDE DEF S1, S2, S3
  <2>3. \A i \in 1 .. 3 : Stages(um, ack)[i] \subseteq S1 \cup S2 \cup S3
    <3>1. \A i \in 1 .. 3 : i = 1 \/ i = 2 \/ i = 3
      OBVIOUS
    <3>2. Stages(um, ack)[1] = S1 /\ Stages(um, ack)[2] = S2 /\ Stages(um, ack)[3] = S3
      BY <2>1
    <3> QED BY <3>1, <3>2
  <2>4. AckedFrags(um, ack) \subseteq S1 \cup S2 \cup S3
    BY <2>3 DEF AckedFrags
  <2> QED BY <1>3, <2>2, <2>4
<1> QED BY <1>2, <1>3

\* An ACK frees the fragments that it acknowledges, and those arrived.
LEMMA GotAckMoves ==
    ASSUME TxIInv, NEW m \in LiveMids, NEW ack \in Acks, GotAck(m, ack),
           Acknowledged(ack, Fragcnt(msgs[m])) \subseteq arrived[m]
    PROVE  SenderMoves
<1> DEFINE n == Fragcnt(msgs[m])
           um == SignOfLife(msgs[m])
           freed == FreeAcked(um, ack)
           A1 == (AcksWholeMessage(ack, n) \/ LiveFrags(freed) = {}) /\ ut_msg_free(m, TRUE, attr)
           A2 == msgs' = [msgs EXCEPT ![m] = freed]
           A3 == msgs' = [msgs EXCEPT ![m] = ut_send_remaining(freed)]
           A4 == msgs' = [msgs EXCEPT ![m] = Resumed(um, freed)]
<1>1. n \in 1 .. FragMax /\ msgs[m] \in UMsg(n) /\ Books(msgs[m])
  BY LiveMsg
<1>2. ack.fragno < n /\ ~ack.ear
  BY DEF GotAck, AckAccepted
<1>3. /\ um \in UMsg(n) /\ Books(um) /\ SameIdent(msgs[m], um) /\ SameBooks(msgs[m], um)
  <2> HIDE DEF n
  <2> QED BY <1>1, SignOfLifeShape
<1>4. LiveFrags(um) = LiveFrags(msgs[m]) /\ Fragcnt(um) = n
  BY <1>3, SameBooksKeep
<1>5. A1 \/ A2 \/ A3 \/ A4
  <2>1. \/ (AcksWholeMessage(ack, Fragcnt(um)) \/ LiveFrags(freed) = {}) /\ ut_msg_free(m, TRUE, attr)
        \/ Leave(m, freed) \/ A3 \/ Leave(m, Resumed(um, freed))
    BY Zenon DEF GotAck, Resumed
  <2> HIDE DEF freed, um
  <2> QED BY <1>4, <2>1 DEF Leave
<1> HIDE DEF n, um
<1>6. /\ freed \in UMsg(n) /\ Books(freed) /\ FreedFrom(um, freed)
      /\ LiveFrags(um) \ AckedFrags(um, ack) \subseteq LiveFrags(freed)
  BY <1>1, <1>2, <1>3, FreeAckedShape
<1> HIDE DEF freed
<1>7. /\ AckedFrags(um, ack) \subseteq arrived[m]
      /\ AcksWholeMessage(ack, n) => LiveFrags(msgs[m]) \subseteq arrived[m]
  <2>1. Acknowledged(ack, n) \subseteq arrived[m]
    BY DEF n
  <2>2. LiveFrags(msgs[m]) \subseteq 0 .. n - 1
    BY <1>1, MsgFields
  <2>3. /\ AckedFrags(um, ack) \subseteq Acknowledged(ack, n)
        /\ AcksWholeMessage(ack, n) => Acknowledged(ack, n) = 0 .. n - 1
    BY <1>1, <1>2, <1>3, AckRead
  <2> QED BY <2>1, <2>2, <2>3
<1>8. SameIdent(msgs[m], freed) /\ LiveFrags(msgs[m]) \ arrived[m] \subseteq LiveFrags(freed)
  BY <1>3, <1>4, <1>6, <1>7 DEF FreedFrom, SameIdent
<1>9. CASE A1
  <2>1. LiveFrags(msgs[m]) \subseteq arrived[m]
    BY <1>7, <1>8, <1>9
  <2> QED BY <1>9, <2>1, FreedAs
<1>10. CASE A2
  BY <1>6, <1>8, <1>10, LeftAs DEF n
<1>11. CASE A3
  <2> DEFINE v == ut_send_remaining(freed)
  <2>1. v \in UMsg(n) /\ SameIdent(freed, v) /\ LiveFrags(v) = LiveFrags(freed)
    BY <1>1, <1>6, RemainingShape
  <2>2. msgs' = [msgs EXCEPT ![m] = v]
    BY <1>11
  <2> HIDE DEF v
  <2>3. SameIdent(msgs[m], v)
    BY <1>8, <2>1 DEF SameIdent
  <2> QED BY <1>8, <2>1, <2>2, <2>3, LeftAs DEF n
<1>12. CASE A4
  <2> DEFINE v == Resumed(um, freed)
  <2>1. v \in UMsg(n) /\ SameIdent(freed, v) /\ SameBooks(freed, v)
    BY <1>1, <1>6, ResumedShape
  <2>2. msgs' = [msgs EXCEPT ![m] = v]
    BY <1>12
  <2> HIDE DEF v
  <2>3. SameIdent(msgs[m], v) /\ LiveFrags(v) = LiveFrags(freed)
    BY <1>8, <2>1, SameBooksKeep DEF SameIdent
  <2> QED BY <1>8, <2>1, <2>2, <2>3, LeftAs DEF n
<1> QED BY <1>5, <1>9, <1>10, <1>11, <1>12

\* An EAR NACK flushes the fragments into the resend list and frees none.
LEMMA GotEarNackMoves ==
    ASSUME TxIInv, NEW m \in LiveMids, NEW ack, GotEarNack(m, ack)
    PROVE  SenderMoves
<1> DEFINE n == Fragcnt(msgs[m])
           um == SignOfLife(msgs[m])
           v == Flushed(um)
<1>1. n \in 1 .. FragMax /\ msgs[m] \in UMsg(n) /\ Books(msgs[m])
  BY LiveMsg
<1>2. msgs' = [msgs EXCEPT ![m] = v]
  BY DEF GotEarNack, Flushed, FullAlpha
<1> HIDE DEF n
<1>3. um \in UMsg(n) /\ Books(um) /\ SameIdent(msgs[m], um) /\ SameBooks(msgs[m], um)
  BY <1>1, SignOfLifeShape
<1> HIDE DEF um
<1>4. v \in UMsg(n) /\ SameIdent(um, v) /\ LiveFrags(v) = LiveFrags(um)
  BY <1>1, <1>3, FlushedShape
<1> HIDE DEF v
<1>5. SameIdent(msgs[m], v) /\ LiveFrags(v) = LiveFrags(msgs[m])
  BY <1>3, <1>4, SameBooksKeep DEF SameIdent
<1> QED BY <1>2, <1>4, <1>5, LeftAs DEF n

\* A message that expires lingers with its fragments.
LEMMA ExpiredMoves ==
    ASSUME TxIInv, NEW m \in Mid, Expired(m)
    PROVE  SenderMoves
<1> DEFINE n == Fragcnt(msgs[m])
           v == LingersOn(msgs[m])
<1>1. m \in LiveMids
  BY DEF Expired, LiveMids
<1>2. n \in 1 .. FragMax /\ msgs[m] \in UMsg(n) /\ Books(msgs[m])
  BY <1>1, LiveMsg
<1>3. msgs' = [msgs EXCEPT ![m] = v]
  BY DEF Expired, LingersOn, FullAlpha
<1> HIDE DEF n
<1>4. v \in UMsg(n) /\ SameIdent(msgs[m], v) /\ LiveFrags(v) = LiveFrags(msgs[m])
  BY <1>2, LingersOnShape
<1> HIDE DEF v
<1> QED BY <1>1, <1>3, <1>4, LeftAs DEF n

\* A message that lingered ends as dropped.
LEMMA LingeredMoves ==
    ASSUME TxIInv, NEW m \in Mid, Lingered(m)
    PROVE  SenderMoves
<1>1. m \in LiveMids /\ ut_msg_free(m, FALSE, attr)
  BY DEF Lingered, LiveMids
<1> QED BY <1>1, FreedAs

\* The datagram of a fragment is released.
LEMMA TouchedMoves ==
    ASSUME TxIInv, NEW m \in LiveMids, NEW f \in LiveFrags(msgs[m]), NEW uf \in UFrag,
           uf.resend = msgs[m].fragments[f].resend, uf.pending = msgs[m].fragments[f].pending,
           Leave(m, [msgs[m] EXCEPT !.fragments = WithFrag(msgs[m], f, uf)])
    PROVE  SenderMoves
<1> DEFINE n == Fragcnt(msgs[m])
           v == [msgs[m] EXCEPT !.fragments = WithFrag(msgs[m], f, uf)]
<1>1. n \in 1 .. FragMax /\ msgs[m] \in UMsg(n) /\ Books(msgs[m])
  BY LiveMsg
<1>2. msgs' = [msgs EXCEPT ![m] = v]
  BY DEF Leave
<1> HIDE DEF n
<1>3. v \in UMsg(n) /\ SameIdent(msgs[m], v) /\ LiveFrags(v) = LiveFrags(msgs[m])
  BY <1>1, TouchedShape
<1> HIDE DEF v
<1> QED BY <1>2, <1>3, LeftAs DEF n

\* A fragment dropped below stays with its message.
LEMMA FragDroppedMoves ==
    ASSUME TxIInv, NEW m \in Mid, NEW f, FragDropped(m, f)
    PROVE  SenderMoves
<1>1. m \in LiveMids /\ f \in LiveFrags(msgs[m])
  BY HookedFrag DEF FragDropped
<1>2. msgs[m] \in UMsg(Fragcnt(msgs[m])) /\ Fragcnt(msgs[m]) \in 1 .. FragMax
  BY <1>1, LiveMsg
<1> DEFINE uf == [msgs[m].fragments[f] EXCEPT !.resend_ev = TRUE]
<1>3. msgs[m].fragments[f] \in UFrag
  BY <1>1, <1>2, MsgFields
<1>4. /\ uf \in UFrag /\ uf.resend = msgs[m].fragments[f].resend
      /\ uf.pending = msgs[m].fragments[f].pending
  BY <1>3 DEF UFrag
<1>5. Leave(m, [msgs[m] EXCEPT !.fragments = WithFrag(msgs[m], f, uf)])
  BY DEF FragDropped, WithFrag
<1> HIDE DEF uf
<1> QED BY <1>1, <1>4, <1>5, TouchedMoves

\* An unreliable fragment that was sent is freed, and the message with the last
\* one.
LEMMA FragSentMoves ==
    ASSUME TxIInv, NEW m \in Mid, NEW f, FragSent(m, f)
    PROVE  SenderMoves
<1> DEFINE n == Fragcnt(msgs[m])
           um == msgs[m]
           uf == [um.fragments[f] EXCEPT !.txcnt = Saturated(um.fragments[f].txcnt, SendMax), !.resend_ev = TRUE]
           v == ut_frag_free(um, f)
<1>1. m \in LiveMids /\ f \in LiveFrags(um)
  BY HookedFrag DEF FragSent
<1>2. n \in 1 .. FragMax /\ um \in UMsg(n) /\ Books(um)
  BY <1>1, LiveMsg
<1>3. \/ Leave(m, [msgs[m] EXCEPT !.fragments = WithFrag(msgs[m], f, uf)])
      \/ ~um.reliable /\ Leave(m, v)
      \/ ~um.reliable /\ ut_msg_free(m, TRUE, attr)
  BY Zenon DEF FragSent, LeaveOrFree, WithFrag
<1>4. um.fragments[f] \in UFrag /\ f \in 0 .. n - 1
  <2> HIDE DEF n, um
  <2> QED BY <1>1, <1>2, MsgFields
<1>5. CASE Leave(m, [msgs[m] EXCEPT !.fragments = WithFrag(msgs[m], f, uf)])
  <2>1. Saturated(um.fragments[f].txcnt, SendMax) \in 0 .. SendMax
    <3>1. um.fragments[f].txcnt \in 0 .. SendMax /\ SendMax \in Nat
      BY <1>4, LimitsAssumption DEF UFrag
    <3> QED BY <3>1 DEF Saturated
  <2>2. /\ uf \in UFrag /\ uf.resend = msgs[m].fragments[f].resend
        /\ uf.pending = msgs[m].fragments[f].pending
    BY <1>4, <2>1 DEF UFrag
  <2> HIDE DEF uf
  <2> QED BY <1>1, <1>5, <2>2, TouchedMoves
<1> HIDE DEF n, uf, um
<1>6. v \in UMsg(n) /\ SameIdent(um, v)
  BY <1>2, <1>4, FragFreeShape DEF FreedFrom
<1> HIDE DEF v
<1>7. CASE ~um.reliable /\ Leave(m, v)
  <2>1. msgs' = [msgs EXCEPT ![m] = v]
    BY <1>7 DEF Leave
  <2> QED BY <1>1, <1>6, <1>7, <2>1, LeftAs DEF n, um
<1>8. CASE ~um.reliable /\ ut_msg_free(m, TRUE, attr)
  BY <1>1, <1>8, FreedAs DEF um
<1> QED BY <1>3, <1>5, <1>7, <1>8

\* The release of an EAR only touches timers.
LEMMA EarSentMoves ==
    ASSUME TxIInv, NEW seqno, NEW n, EarSent(seqno, n)
    PROVE  SenderMoves
<1> DEFINE owners == {m \in LiveMids : msgs[m].seqno = seqno}
<1>1. \/ msgs' = msgs
      \/ msgs' = [m \in Mid |-> IF m \in owners THEN EarGone(msgs[m]) ELSE msgs[m]]
  BY Zenon DEF EarSent, Abort, EarGone
<1>2. ASSUME NEW m \in LiveMids PROVE Renewed(msgs[m], EarGone(msgs[m]), arrived[m])
  <2> DEFINE k == Fragcnt(msgs[m])
  <2>1. k \in 1 .. FragMax /\ msgs[m] \in UMsg(k) /\ Books(msgs[m])
    BY LiveMsg
  <2> HIDE DEF k
  <2>2. LET v == EarGone(msgs[m]) IN v \in UMsg(k) /\ SameIdent(msgs[m], v) /\ SameBooks(msgs[m], v)
    BY <2>1, EarGoneShape
  <2>3. LET v == EarGone(msgs[m]) IN v \in Msg /\ LiveFrags(v) = LiveFrags(msgs[m]) /\ Fragcnt(v) = Fragcnt(msgs[m])
    BY <2>1, <2>2, MsgFields, SameBooksKeep
  <2> QED BY <2>2, <2>3 DEF Renewed
<1>3. CASE msgs' = msgs
  BY <1>3, UntouchedMoves
<1>4. CASE msgs' = [m \in Mid |-> IF m \in owners THEN EarGone(msgs[m]) ELSE msgs[m]]
  BY <1>2, <1>4 DEF SenderMoves, Continues
<1> QED BY <1>1, <1>3, <1>4

\* A batch of resends keeps the fragments of the message.
LEMMA ResendIterateMoves ==
    ASSUME TxIInv, NEW m \in Mid, ResendIterate(m)
    PROVE  SenderMoves
<1> DEFINE n == Fragcnt(msgs[m])
           u == Iterating(msgs[m])
           w == EarWanted(u)
           v == ResendBatch(u)
<1>1. m \in LiveMids
  BY DEF ResendIterate, LiveMids
<1>2. n \in 1 .. FragMax /\ msgs[m] \in UMsg(n) /\ Books(msgs[m])
  BY <1>1, LiveMsg
<1>3. Leave(m, w) \/ Leave(m, u) \/ Abort \/ msgs' = [msgs EXCEPT ![m] = v]
  BY Zenon DEF ResendIterate, Iterating, EarWanted
<1> HIDE DEF n
<1>4. /\ u \in UMsg(n) /\ Books(u) /\ SameIdent(msgs[m], u) /\ SameBooks(msgs[m], u)
      /\ w \in UMsg(n) /\ SameIdent(msgs[m], w) /\ SameBooks(msgs[m], w)
  BY <1>2, IteratingShape
<1> HIDE DEF u, w
<1>5. v \in UMsg(n) /\ SameIdent(u, v) /\ LiveFrags(v) = LiveFrags(u)
  BY <1>2, <1>4, ResendBatchShape
<1> HIDE DEF v
<1>6. /\ LiveFrags(u) = LiveFrags(msgs[m]) /\ LiveFrags(w) = LiveFrags(msgs[m])
      /\ LiveFrags(v) = LiveFrags(msgs[m]) /\ SameIdent(msgs[m], v)
  BY <1>4, <1>5, SameBooksKeep DEF SameIdent
<1>7. CASE Leave(m, w)
  BY <1>1, <1>4, <1>6, <1>7, LeftAs DEF n, Leave
<1>8. CASE Leave(m, u)
  BY <1>1, <1>4, <1>6, <1>8, LeftAs DEF n, Leave
<1>9. CASE msgs' = [msgs EXCEPT ![m] = v]
  BY <1>1, <1>5, <1>6, <1>9, LeftAs DEF n
<1>10. CASE Abort
  BY <1>10, UntouchedMoves DEF Abort
<1> QED BY <1>3, <1>7, <1>8, <1>9, <1>10

\* The EAR timer resumes the resends or drops the message.
LEMMA EarResendMoves ==
    ASSUME TxIInv, NEW m \in Mid, EarResend(m)
    PROVE  SenderMoves
<1> DEFINE n == Fragcnt(msgs[m])
           u == EarFired(msgs[m])
           v == ut_resend_async(u)
<1>1. m \in LiveMids
  BY DEF EarResend, LiveMids
<1>2. n \in 1 .. FragMax /\ msgs[m] \in UMsg(n) /\ Books(msgs[m])
  BY <1>1, LiveMsg
<1>3. \/ ut_msg_free(m, FALSE, attr) \/ ut_msg_free(m, FALSE, ut_to_ban(attr, u.to))
      \/ Leave(m, u) \/ Leave(m, v)
  BY Zenon DEF EarResend, EarFired
<1> HIDE DEF n
<1>4. /\ u \in UMsg(n) /\ SameIdent(msgs[m], u) /\ SameBooks(msgs[m], u)
      /\ v \in UMsg(n) /\ SameIdent(msgs[m], v) /\ SameBooks(msgs[m], v)
  BY <1>2, EarFiredShape
<1> HIDE DEF u, v
<1>5. LiveFrags(u) = LiveFrags(msgs[m]) /\ LiveFrags(v) = LiveFrags(msgs[m])
  BY <1>4, SameBooksKeep
<1>6. CASE Leave(m, u)
  BY <1>1, <1>4, <1>5, <1>6, LeftAs DEF n, Leave
<1>7. CASE Leave(m, v)
  BY <1>1, <1>4, <1>5, <1>7, LeftAs DEF n, Leave
<1>8. CASE ut_msg_free(m, FALSE, attr) \/ ut_msg_free(m, FALSE, ut_to_ban(attr, u.to))
  BY <1>1, <1>8, FreedAs
<1> QED BY <1>3, <1>6, <1>7, <1>8

\* The resend timer of a fragment queues it, or drops the message.
LEMMA FragResendMoves ==
    ASSUME TxIInv, NEW m \in LiveMids, NEW f, FragResend(m, f)
    PROVE  SenderMoves
<1> DEFINE n == Fragcnt(msgs[m])
           um == msgs[m]
           u == AckTimeout(um, f)
           v == ut_resend_async(u)
           w == EnqueueResend(u, f)
<1>1. n \in 1 .. FragMax /\ um \in UMsg(n) /\ Books(um)
  BY LiveMsg
<1>2. f \in LiveFrags(um)
  BY DEF FragResend
<1>3. \/ Leave(m, v) \/ ut_msg_free(m, FALSE, attr) \/ Abort
      \/ ~u.lingering /\ ~um.fragments[f].resend /\ Leave(m, w)
  BY Zenon DEF FragResend
<1> HIDE DEF n, um
<1>4. u.lingering = um.lingering
  BY <1>1, <1>2, AckTimeoutShape
<1>5. v \in UMsg(n) /\ SameIdent(um, v) /\ LiveFrags(v) = LiveFrags(um)
  BY <1>1, <1>2, LingerTimeoutShape
<1>6. CASE Leave(m, v)
  <2> HIDE DEF v
  <2> QED BY <1>5, <1>6, LeftAs DEF n, um, Leave
<1>7. CASE ut_msg_free(m, FALSE, attr)
  BY <1>7, FreedAs
<1>8. CASE ~u.lingering /\ ~um.fragments[f].resend /\ Leave(m, w)
  <2>1. w \in UMsg(n) /\ SameIdent(um, w) /\ LiveFrags(w) = LiveFrags(um)
    BY <1>1, <1>2, <1>4, <1>8, EnqueueShape
  <2> HIDE DEF w, u, v
  <2> QED BY <1>8, <2>1, LeftAs DEF n, um, Leave
<1>9. CASE Abort
  BY <1>9, UntouchedMoves DEF Abort
<1> QED BY <1>3, <1>6, <1>7, <1>8, <1>9

\* The steps of the sender that involve neither the upper layer nor the network.
LEMMA SenderStepMoves ==
    ASSUME TxIInv, SenderStep
    PROVE  TxIInv' /\ SenderMoves
<1>1. CASE \E dg \in BagToSet(lower) :
            \/ dg.kind = "frag" /\ (FragDropped(dg.mid, dg.fragno) \/ FragCancelled(dg.mid, dg.fragno))
            \/ dg.kind = "ear" /\ EarDropped(dg.seqno, dg.attempts)
  <2>1. PICK dg \in BagToSet(lower) :
            \/ dg.kind = "frag" /\ (FragDropped(dg.mid, dg.fragno) \/ FragCancelled(dg.mid, dg.fragno))
            \/ dg.kind = "ear" /\ EarDropped(dg.seqno, dg.attempts)
    BY <1>1
  <2>2. dg \in Dgram
    BY <2>1 DEF TxIInv, Types, BagToSet
  <2>3. CASE dg.kind = "frag"
    <3>1. dg.mid \in Mid
      BY <2>2, <2>3 DEF Dgram, FragDgram, EarDgram
    <3>2. CASE FragDropped(dg.mid, dg.fragno)
      BY <3>1, <3>2, FragDroppedKept, FragDroppedMoves DEF Kept
    <3>3. CASE FragCancelled(dg.mid, dg.fragno)
      <4>1. msgs' = msgs
        BY <3>3 DEF FragCancelled
      <4> QED BY <3>1, <3>3, <4>1, FragCancelledKept, UntouchedMoves DEF Kept
    <3> QED BY <2>1, <2>3, <3>2, <3>3
  <2>4. CASE dg.kind = "ear" /\ EarDropped(dg.seqno, dg.attempts)
    <3>1. msgs' = msgs
      BY <2>4 DEF EarDropped
    <3> QED BY <2>4, <3>1, EarDroppedKept, UntouchedMoves DEF Kept
  <2> QED BY <2>1, <2>3, <2>4
<1>2. CASE \E k \in 1 .. Len(attr.pending) : Service(k)
  <2>1. msgs' = msgs
    BY <1>2 DEF Service
  <2> QED BY <1>2, <2>1, ServiceKept, UntouchedMoves DEF Kept
<1>3. CASE \E m \in Mid : Timeout(m)
  <2>1. PICK m \in Mid : Timeout(m)
    BY <1>3
  <2>2. CASE ResendIterate(m)
    BY <2>2, ResendIterateKept, ResendIterateMoves DEF Kept
  <2>3. CASE EarResend(m)
    BY <2>3, EarResendKept, EarResendMoves DEF Kept
  <2>4. CASE Expired(m)
    BY <2>4, ExpiredKept, ExpiredMoves DEF Kept
  <2>5. CASE Lingered(m)
    BY <2>5, LingeredKept, LingeredMoves DEF Kept
  <2>6. CASE Alive(m) /\ \E f \in DOMAIN msgs[m].fragments : FragResend(m, f)
    <3>1. m \in LiveMids
      BY <2>6 DEF LiveMids
    <3> QED BY <2>6, <3>1, FragResendKept, FragResendMoves DEF Kept
  <2> QED BY <2>1, <2>2, <2>3, <2>4, <2>5, <2>6 DEF Timeout
<1>4. CASE \E h \in Host : Aged(h)
  <2>1. msgs' = msgs
    BY <1>4 DEF Aged
  <2> QED BY <1>4, <2>1, AgedKept, UntouchedMoves DEF Kept
<1> QED BY <1>1, <1>2, <1>3, <1>4 DEF SenderStep

----------------------------------------------------------------------------
(* The sender and the abstract specification.                              *)

\* What is reported of a message, by its state.
LEMMA ReportedIs ==
    /\ Reported(Unborn) = "none" /\ Reported(Sent) = "sent" /\ Reported(Dropped) = "dropped"
    /\ \A um \in Msg : Reported(um) = "pending"
<1>1. Unborn # Sent /\ Unborn # Dropped /\ Sent # Dropped
  BY TagsAssumption, LinkAssumption
<1>2. \A um \in Msg : um # Unborn /\ um # Sent /\ um # Dropped
  BY TagsApart
<1> QED BY <1>1, <1>2 DEF Reported

\* A sequence ID tells which message it is.
LEMMA OneOwner ==
    ASSUME AcceptedInv, NEW m \in Mid, NEW k \in Mid, NEW s, Owns(m, s), Owns(k, s)
    PROVE  m = k
BY DEF AcceptedInv, Owns

\* Nothing that the abstract specification talks about changed.
LEMMA AbsStutters ==
    ASSUME Status' = Status, Wanted' = Wanted, Remembered' = Remembered, UNCHANGED history
    PROVE  [Abs!ANext]_(Abs!avars)
BY DEF Abs!avars, history

\* What the receiver has told, and what it is told, stay when only the sender
\* moves.
LEMMA SenderLeaves ==
    ASSUME LinkIInv, UNCHANGED <<rxvars, accepted, history>>
    PROVE  /\ RecvInv' /\ HistInv' /\ if_enabled' = TRUE /\ IInv'
           /\ Wanted' = Wanted /\ Remembered' = Remembered
           /\ (\A dg \in net' : dg \in net
                    \/ /\ dg.kind = "frag" => FragOK(dg)
                       /\ dg.kind = "ack" => AckOK(dg.seqno, dg.ack)
                       /\ dg.kind = "ear" => dg.seqno \in Id)
              => NetInv'
<1>1. /\ mseq' = mseq /\ if_enabled' = if_enabled /\ acks' = acks /\ given' = given
      /\ accepted' = accepted /\ arrived' = arrived /\ delivered' = delivered /\ lost' = lost
  BY DEF rxvars, history
<1>2. RecvInv'
  BY <1>1 DEF LinkIInv, RecvInv, Known, Owns, RecvOK
<1>3. HistInv'
  BY <1>1 DEF LinkIInv, HistInv, HasArrived, Known
<1>4. IInv' /\ if_enabled' = TRUE
  BY <1>1, StepOK DEF LinkIInv, rxvars
<1>5. Wanted' = Wanted /\ Remembered' = Remembered
  BY <1>1 DEF Wanted, Remembered, Known
<1>6. ASSUME \A dg \in net' : dg \in net
                    \/ /\ dg.kind = "frag" => FragOK(dg)
                       /\ dg.kind = "ack" => AckOK(dg.seqno, dg.ack)
                       /\ dg.kind = "ear" => dg.seqno \in Id
      PROVE  NetInv'
  <2>1. \A dg : FragOK(dg)' = FragOK(dg)
    BY <1>1 DEF FragOK, Owns
  <2>2. \A s, ack : AckOK(s, ack)' = AckOK(s, ack)
    BY <1>1 DEF AckOK, Owns
  <2>3. NetInv
    BY DEF LinkIInv
  <2> QED BY <1>6, <2>1, <2>2, <2>3 DEF NetInv
<1> QED BY <1>2, <1>3, <1>4, <1>5, <1>6

\* A message all of which arrived was delivered, unless the receiver lost some.
LEMMA FullyArrived ==
    ASSUME LinkIInv, NEW m \in Mid, accepted[m] # Null,
           0 .. accepted[m].count - 1 \subseteq arrived[m]
    PROVE  arrived[m] = 0 .. accepted[m].count - 1 /\ m \in delivered \cup lost
<1> DEFINE s == accepted[m].seqno
           n == accepted[m].count
<1>1. s \in Id /\ n \in 1 .. MaxFrags /\ MaxFrags \in Nat
  BY LinkAssumption DEF LinkIInv, AcceptedInv, Deal, FragMax
<1>2. arrived[m] = 0 .. n - 1
  BY DEF LinkIInv, HistInv
<1>3. SUFFICES ASSUME m \notin delivered \cup lost PROVE FALSE
  BY <1>2
<1>4. arrived[m] = HasArrived(m)
  BY <1>3 DEF LinkIInv, HistInv
<1>5. 0 \in arrived[m]
  BY <1>1, <1>2
<1>6. Known(s) /\ mseq[s].fbits = 0 .. n - 1
  BY <1>2, <1>4, <1>5 DEF HasArrived
<1>7. PICK k \in Mid : Owns(k, s) /\ RecvOK(k, mseq[s])
  BY <1>1, <1>6 DEF LinkIInv, RecvInv
<1>8. k = m
  BY <1>7, OneOwner DEF LinkIInv, Owns
<1>9. MsgInv(mseq[s])
  BY <1>1, <1>6, PeerAssumption DEF LinkIInv, IInv
<1>10. mseq[s].fragcnt = n /\ (mseq[s].lingering => m \in delivered)
  BY <1>7, <1>8 DEF RecvOK
<1>11. mseq[s].lingering
  BY <1>6, <1>9, <1>10 DEF MsgInv, Core, Frags
<1> QED BY <1>3, <1>10, <1>11

\* Whatever the sender does to its messages, its promises are kept.
LEMMA SenderSimulates ==
    ASSUME LinkIInv, TxIInv', SenderMoves, UNCHANGED <<rxvars, accepted, history>>
    PROVE  AcceptedInv' /\ SentInv' /\ [Abs!ANext]_(Abs!avars)
<1>1. /\ accepted' = accepted /\ arrived' = arrived /\ delivered' = delivered /\ lost' = lost
      /\ UNCHANGED history /\ Wanted' = Wanted /\ Remembered' = Remembered
  BY SenderLeaves DEF history
<1>2. /\ Types /\ AcceptedInv /\ SentInv /\ LiveMids = {m \in Mid : msgs[m] \in Msg}
      /\ msgs' \in [Mid -> Msg \cup {Unborn, Sent, Dropped}]
  BY AliveMsg DEF LinkIInv, TxIInv, Types
<1>3. LiveMids' = {m \in Mid : msgs'[m] \in Msg}
  BY <1>2, TagsApart DEF LiveMids, Alive
<1>4. Unborn \notin Msg /\ Sent \notin Msg /\ Dropped \notin Msg /\ Unborn # Sent /\ Unborn # Dropped
  BY TagsApart, TagsAssumption
<1>5. CASE Continues
  <2>1. ASSUME NEW m \in Mid
        PROVE  /\ msgs'[m] \in Msg <=> msgs[m] \in Msg
               /\ msgs'[m] = Unborn <=> msgs[m] = Unborn
               /\ Reported(msgs'[m]) = Reported(msgs[m])
               /\ m \in LiveMids => /\ DealOf(msgs'[m]) = DealOf(msgs[m])
                                    /\ msgs'[m].reliable = msgs[m].reliable
                                    /\ Fragcnt(msgs'[m]) = Fragcnt(msgs[m])
                                    /\ msgs[m].reliable => LiveFrags(msgs[m]) \ arrived[m]
                                                              \subseteq LiveFrags(msgs'[m])
    <3>1. CASE msgs'[m] = msgs[m]
      BY <3>1
    <3>2. CASE m \in LiveMids /\ Renewed(msgs[m], msgs'[m], arrived[m])
      BY <1>2, <1>4, <3>2, ReportedIs DEF Renewed, SameIdent, DealOf
    <3> QED BY <1>5, <3>1, <3>2 DEF Continues
  <2>2. LiveMids' = LiveMids
    BY <1>2, <1>3, <2>1
  <2>3. AcceptedInv'
    BY <1>1, <1>2, <2>1, <2>2 DEF AcceptedInv
  <2>4. SentInv'
    <3> SUFFICES ASSUME NEW m \in LiveMids, msgs'[m].reliable
                 PROVE  (0 .. Fragcnt(msgs'[m]) - 1) \ LiveFrags(msgs'[m]) \subseteq arrived[m]
      BY <1>1, <2>2 DEF SentInv
    <3>1. m \in Mid
      BY <1>2
    <3>2. msgs[m].reliable => (0 .. Fragcnt(msgs[m]) - 1) \ LiveFrags(msgs[m]) \subseteq arrived[m]
      BY <1>2 DEF SentInv
    <3> QED BY <2>1, <3>1, <3>2
  <2>5. Status' = Status
    BY <2>1 DEF Status
  <2> QED BY <1>1, <2>3, <2>4, <2>5, AbsStutters
<1>6. ASSUME NEW m \in Mid, NEW tag \in {Sent, Dropped}, EndsAs(m, tag)
      PROVE  /\ AcceptedInv' /\ SentInv'
             /\ Status = [Status EXCEPT ![m] = "pending"]
             /\ Status' = [Status EXCEPT ![m] = Reported(tag)]
  <2>1. m \in LiveMids /\ msgs[m] \in Msg /\ \A k \in Mid : msgs'[k] = IF k = m THEN tag ELSE msgs[k]
    BY <1>2, <1>6 DEF EndsAs
  <2>2. LiveMids' = LiveMids \ {m}
    BY <1>2, <1>3, <1>4, <2>1
  <2>3. \A k \in Mid : msgs'[k] = Unborn <=> msgs[k] = Unborn
    BY <1>4, <2>1
  <2>4. \A k \in LiveMids' : k \in LiveMids /\ msgs'[k] = msgs[k]
    BY <1>2, <2>1, <2>2
  <2>5. AcceptedInv'
    BY <1>1, <1>2, <2>3, <2>4 DEF AcceptedInv
  <2>6. SentInv'
    BY <1>1, <1>2, <2>4 DEF SentInv
  <2>7. Status = [Status EXCEPT ![m] = "pending"]
    BY <2>1, ReportedIs DEF Status
  <2>8. Status' = [Status EXCEPT ![m] = Reported(tag)]
    BY <2>1 DEF Status
  <2> QED BY <2>5, <2>6, <2>7, <2>8
<1>7. ASSUME NEW m \in Mid, EndsAs(m, Dropped)
      PROVE  AcceptedInv' /\ SentInv' /\ Abs!ANext
  <2>1. /\ AcceptedInv' /\ SentInv' /\ Status = [Status EXCEPT ![m] = "pending"]
        /\ Status' = [Status EXCEPT ![m] = "dropped"]
    BY <1>6, <1>7, ReportedIs
  <2>2. Status[m] = "pending"
    BY <2>1 DEF Status
  <2>3. Abs!Discard(m)
    BY <1>1, <2>1, <2>2 DEF Abs!Discard
  <2> QED BY <2>1, <2>3 DEF Abs!ANext
<1>8. ASSUME NEW m \in Mid, EndsAs(m, Sent),
             msgs[m].reliable => LiveFrags(msgs[m]) \subseteq arrived[m]
      PROVE  AcceptedInv' /\ SentInv' /\ Abs!ANext
  <2>1. /\ AcceptedInv' /\ SentInv' /\ Status = [Status EXCEPT ![m] = "pending"]
        /\ Status' = [Status EXCEPT ![m] = "sent"]
    BY <1>6, <1>8, ReportedIs
  <2>2. Status[m] = "pending"
    BY <2>1 DEF Status
  <2>3. m \in LiveMids /\ accepted[m] # Null /\ accepted[m] = DealOf(msgs[m])
    BY <1>2, <1>4, <1>8 DEF EndsAs, AcceptedInv
  <2>4. Wanted[m].reliable = msgs[m].reliable /\ Wanted[m].count = accepted[m].count
        /\ accepted[m].count = Fragcnt(msgs[m])
    <3>1. accepted[m].count = Fragcnt(msgs[m]) /\ accepted[m].reliable = msgs[m].reliable
      BY <2>3 DEF DealOf
    <3>2. Wanted[m] = Agreed(accepted[m])
      BY DEF Wanted
    <3>3. Agreed(accepted[m]) = [count |-> accepted[m].count, reliable |-> accepted[m].reliable]
      BY <2>3 DEF Agreed
    <3> QED BY <3>1, <3>2, <3>3
  <2>5. ASSUME Wanted[m].reliable
        PROVE  arrived[m] = 0 .. Wanted[m].count - 1 /\ m \in delivered \cup lost
    <3>1. (0 .. Fragcnt(msgs[m]) - 1) \ LiveFrags(msgs[m]) \subseteq arrived[m]
      BY <1>2, <2>3, <2>4, <2>5 DEF SentInv
    <3>2. 0 .. accepted[m].count - 1 \subseteq arrived[m]
      BY <1>8, <2>4, <2>5, <3>1
    <3> QED BY <2>3, <2>4, <3>2, FullyArrived
  <2>6. Abs!Confirm(m)
    BY <1>1, <2>1, <2>2, <2>5 DEF Abs!Confirm
  <2> QED BY <2>1, <2>6 DEF Abs!ANext
<1> QED BY <1>5, <1>7, <1>8 DEF SenderMoves

\* A step of the link keeps the invariant, and is a step that is promised or
\* one that does not show.
Simulated == LinkIInv' /\ [Abs!ANext]_(Abs!avars)

\* A step of the sender that puts nothing on the network but what it should.
LEMMA SenderOK ==
    ASSUME LinkIInv, TxIInv', SenderMoves, UNCHANGED <<rxvars, accepted, history>>,
           \A dg \in net' : dg \in net
                    \/ /\ dg.kind = "frag" => FragOK(dg)
                       /\ dg.kind = "ack" => AckOK(dg.seqno, dg.ack)
                       /\ dg.kind = "ear" => dg.seqno \in Id
    PROVE  Simulated
<1>1. RecvInv' /\ HistInv' /\ if_enabled' = TRUE /\ IInv' /\ NetInv'
  BY SenderLeaves
<1>2. AcceptedInv' /\ SentInv' /\ [Abs!ANext]_(Abs!avars)
  BY SenderSimulates
<1> QED BY <1>1, <1>2 DEF Simulated, LinkIInv

\* The other steps of the sender.
LEMMA LinkSenderOK ==
    ASSUME LinkIInv, LinkSender
    PROVE  Simulated
<1>1. SenderStep /\ net' = net /\ UNCHANGED <<rxvars, accepted, history>>
  BY DEF LinkSender
<1>2. TxIInv' /\ SenderMoves
  BY <1>1, SenderStepMoves DEF LinkIInv
<1> QED BY <1>1, <1>2, SenderOK

\* The fragment put on the network is one of a message that is there.
LEMMA LinkFragSentOK ==
    ASSUME LinkIInv, NEW m \in Mid, NEW f, LinkFragSent(m, f)
    PROVE  Simulated
<1> DEFINE n == Fragcnt(msgs[m])
           h == [part |-> f, count |-> n, ackme |-> msgs[m].reliable,
                 deflated |-> FALSE, improved |-> ImprovedAcks]
           dg == OnWire(m, f)
<1>1. /\ TxIInv /\ AcceptedInv /\ FragSent(m, f)
      /\ net' = net \cup {dg} /\ UNCHANGED <<rxvars, accepted, history>>
  BY DEF LinkIInv, LinkFragSent
<1>2. m \in LiveMids /\ f \in LiveFrags(msgs[m])
  BY <1>1, HookedFrag DEF FragSent
<1>3. /\ n \in 1 .. FragMax /\ msgs[m] \in UMsg(n) /\ accepted[m] = DealOf(msgs[m])
      /\ accepted[m] \in Deal /\ accepted[m] # Null
  <2>1. n \in 1 .. FragMax /\ msgs[m] \in UMsg(n) /\ accepted[m] = DealOf(msgs[m])
    BY <1>1, <1>2, LiveMsg DEF AcceptedInv
  <2>2. msgs[m] # Unborn
    BY <1>2 DEF LiveMids, Alive
  <2> QED BY <1>1, <2>1, <2>2 DEF AcceptedInv
<1>4. /\ accepted[m].seqno = msgs[m].seqno /\ accepted[m].count = n
      /\ accepted[m].reliable = msgs[m].reliable
  BY <1>3 DEF DealOf
<1>5. n \in 1 .. MaxFrags /\ msgs[m].reliable \in BOOLEAN /\ MaxFrags \in Nat
  BY <1>3, <1>4, LinkAssumption DEF Deal, FragMax
<1>6. f \in 0 .. n - 1
  <2> HIDE DEF n
  <2> QED BY <1>2, <1>3, MsgFields
<1> HIDE DEF n
<1>7. h \in WireHeaders
  <2>1. f \in 0 .. MaxFrags - 1 /\ f < n
    BY <1>5, <1>6
  <2> QED BY <1>5, <2>1, LinkAssumption DEF WireHeaders
<1>8. dg.kind = "frag" /\ dg.mid = m /\ dg.seqno = msgs[m].seqno /\ dg.head = h
  BY DEF OnWire, n
<1>9. h.count = n /\ h.ackme = msgs[m].reliable
  OBVIOUS
<1> HIDE DEF dg, h
<1>10. FragOK(dg)
  BY <1>3, <1>4, <1>7, <1>8, <1>9 DEF FragOK, Owns
<1>11. TxIInv' /\ SenderMoves
  BY <1>1, FragSentKept, FragSentMoves DEF Kept
<1> QED BY <1>1, <1>8, <1>10, <1>11, SenderOK

\* An EAR is put on the network.
LEMMA LinkEarSentOK ==
    ASSUME LinkIInv, NEW seqno \in Id, NEW n, LinkEarSent(seqno, n)
    PROVE  Simulated
<1> DEFINE dg == EarOnWire(seqno)
<1>1. /\ TxIInv /\ EarSent(seqno, n)
      /\ net' = net \cup {dg} /\ UNCHANGED <<rxvars, accepted, history>>
  BY DEF LinkIInv, LinkEarSent
<1>2. dg.kind = "ear" /\ dg.seqno = seqno
  BY DEF EarOnWire
<1> HIDE DEF dg
<1>3. TxIInv' /\ SenderMoves
  BY <1>1, EarSentKept, EarSentMoves DEF Kept
<1> QED BY <1>1, <1>2, <1>3, SenderOK

\* An ACK from the network acknowledges what arrived, of the message that its
\* sequence ID is still that of.
LEMMA LinkGotAckOK ==
    ASSUME LinkIInv, NEW dg \in net, dg.kind = "ack", LinkGotAck(dg)
    PROVE  Simulated
<1>1. PICK m \in LiveMids : /\ msgs[m].seqno = dg.seqno
                            /\ GotAck(m, dg.ack) \/ GotEarNack(m, dg.ack)
                            /\ net' = net /\ UNCHANGED <<rxvars, accepted, history>>
  BY DEF LinkGotAck
<1>2. TxIInv /\ AcceptedInv /\ AckOK(dg.seqno, dg.ack)
  BY DEF LinkIInv, NetInv
<1>3. m \in Mid /\ msgs[m] # Unborn /\ dg.ack \in Acks
  BY <1>2, LiveMsg DEF AckOK, LiveMids, Alive
<1>4. accepted[m] # Null /\ accepted[m] = DealOf(msgs[m])
  BY <1>2, <1>3 DEF AcceptedInv
<1>5. accepted[m].seqno = dg.seqno /\ accepted[m].count = Fragcnt(msgs[m])
  BY <1>1, <1>4 DEF DealOf
<1>6. TxIInv' /\ SenderMoves
  <2>1. CASE GotAck(m, dg.ack)
    <3>1. ~dg.ack.ear
      BY <2>1 DEF GotAck
    <3>2. PICK k \in Mid : /\ Owns(k, dg.seqno)
                           /\ Acknowledged(dg.ack, accepted[k].count) \subseteq arrived[k]
      BY <1>2, <3>1 DEF AckOK
    <3>3. k = m
      BY <1>2, <1>3, <1>4, <1>5, <3>2 DEF AcceptedInv, Owns
    <3>4. Acknowledged(dg.ack, Fragcnt(msgs[m])) \subseteq arrived[m]
      BY <1>5, <3>2, <3>3
    <3> QED BY <1>2, <1>3, <2>1, <3>4, GotAckKept, GotAckMoves DEF Kept
  <2>2. CASE GotEarNack(m, dg.ack)
    BY <1>2, <2>2, GotEarNackKept, GotEarNackMoves DEF Kept
  <2> QED BY <1>1, <2>1, <2>2
<1> QED BY <1>1, <1>6, SenderOK

----------------------------------------------------------------------------
(* A message is accepted.                                                  *)

\* tx_ut_sendto() creates one message at most, with all its fragments.
LEMMA SendToBegins ==
    ASSUME TxIInv, NEW req \in Requests, SendTo(req)
    PROVE  \E m \in Mid, v \in Msg :
              /\ msgs[m] = Unborn /\ msgs' = [msgs EXCEPT ![m] = v]
              /\ LiveFrags(v) = 0 .. Fragcnt(v) - 1
              /\ DealOf(v) \in Deal
<1> DEFINE r == idtable_try_new_id(attr.seq)
           S == {k \in Mid : msgs[k] = Unborn}
           m == Min(S)
           um == ut_msg_create(req, r.id)
           n == req.fragcnt
           v1 == ut_send_remaining(um)
           v2 == [um EXCEPT !.cautious = TRUE]
<1>1. /\ r.ok /\ n # Oversize /\ S # {}
      /\ msgs' = [msgs EXCEPT ![m] = v1] \/ msgs' = [msgs EXCEPT ![m] = v2]
  BY DEF SendTo
<1>2. attr \in Attr
  BY DEF TxIInv, Types
<1>3. attr.seq \in IdTables
  BY <1>2, AttrFields
<1>4. r.id \in Id
  BY <1>1, <1>3, TryNewIdProperty
<1>5. m \in Mid /\ msgs[m] = Unborn
  <2>1. S \subseteq Nat
    BY DEF Mid
  <2>2. m \in S
    <3> HIDE DEF S
    <3> QED BY <1>1, <2>1, MinProperty
  <2> QED BY <2>2
<1> HIDE DEF r, m
<1>6. /\ n \in 1 .. FragMax /\ um \in UMsg(n) /\ Books(um) /\ um.seqno = r.id
      /\ LiveFrags(um) = 0 .. n - 1
      /\ v2 \in UMsg(n) /\ SameBooks(um, v2) /\ SameIdent(um, v2)
  BY <1>1, <1>4, CreateShape
<1>7. um.reliable \in BOOLEAN /\ n <= MaxFrags /\ MaxFrags \in Nat
  <2>1. n <= MaxFrags /\ MaxFrags \in Nat
    BY LinkAssumption DEF FragMax
  <2> QED BY <1>6, <2>1 DEF UMsg
<1> HIDE DEF n, um
<1>8. v1 \in UMsg(n) /\ SameIdent(um, v1) /\ LiveFrags(v1) = LiveFrags(um)
  BY <1>6, RemainingShape
<1>9. LiveFrags(v2) = LiveFrags(um)
  BY <1>6, SameBooksKeep
<1> HIDE DEF v1, v2
<1>10. ASSUME NEW v \in UMsg(n), SameIdent(um, v), LiveFrags(v) = LiveFrags(um)
       PROVE  v \in Msg /\ LiveFrags(v) = 0 .. Fragcnt(v) - 1 /\ DealOf(v) \in Deal
  <2>1. v \in Msg /\ Fragcnt(v) = n
    BY <1>6, MsgFields
  <2>2. v.seqno \in Id /\ v.reliable \in BOOLEAN
    BY <1>4, <1>6, <1>7, <1>10 DEF SameIdent
  <2>3. n \in 1 .. MaxFrags
    BY <1>6, <1>7 DEF FragMax
  <2> QED BY <1>6, <1>10, <2>1, <2>2, <2>3 DEF DealOf, Deal
<1> QED BY <1>1, <1>5, <1>6, <1>8, <1>9, <1>10

\* Accepting a message is Accept of UtAbstract.
LEMMA LinkSendOK ==
    ASSUME LinkIInv, LinkSend
    PROVE  Simulated
<1>1. /\ TxIInv /\ AcceptedInv /\ NetInv /\ RecvInv /\ HistInv /\ SentInv
      /\ Upper /\ net' = net /\ UNCHANGED <<rxvars, history>> /\ FreshSeqno
  BY DEF LinkIInv, LinkSend
<1>2. accepted' = [m \in Mid |-> IF msgs[m] = Unborn /\ msgs'[m] # Unborn
                                   THEN DealOf(msgs'[m]) ELSE accepted[m]]
  BY DEF LinkSend, DealOf
<1>3. PICK req \in Requests : \/ SendToFlowControlled(req) \/ SendToOutOfSeqno(req)
                              \/ SendToTooLarge(req) \/ SendTo(req)
  BY <1>1 DEF Upper
<1>4. TxIInv'
  BY <1>1, <1>3, SendToFlowControlledKept, SendToOutOfSeqnoKept, SendToTooLargeKept, SendToKept DEF Kept
<1>5. CASE msgs' = msgs
  <2>1. accepted' = accepted
    BY <1>1, <1>2, <1>5 DEF AcceptedInv
  <2> QED BY <1>1, <1>4, <1>5, <2>1, UntouchedMoves, SenderOK
<1>6. CASE SendTo(req)
  <2>1. PICK m \in Mid, v \in Msg :
              /\ msgs[m] = Unborn /\ msgs' = [msgs EXCEPT ![m] = v]
              /\ LiveFrags(v) = 0 .. Fragcnt(v) - 1
              /\ DealOf(v) \in Deal
    BY <1>1, <1>6, SendToBegins
  <2> DEFINE d == DealOf(v)
  <2>2. Types /\ v # Unborn
    BY <1>1, TagsApart DEF TxIInv
  <2>3. \A k \in Mid : msgs'[k] = IF k = m THEN v ELSE msgs[k]
    BY <2>1, <2>2 DEF Types
  <2>4. \A k \in Mid : accepted'[k] = IF k = m THEN d ELSE accepted[k]
    BY <1>2, <2>1, <2>2, <2>3
  <2>5. accepted[m] = Null /\ d # Null /\ accepted' \in [Mid -> Deal \cup {Null}]
    BY <1>1, <1>2, <2>1, <2>4, LinkAssumption DEF AcceptedInv
  <2>6. LiveMids' = LiveMids \cup {m}
    <3>1. LiveMids = {k \in Mid : msgs[k] \in Msg}
      BY <2>2, AliveMsg
    <3>2. LiveMids' = {k \in Mid : msgs'[k] \in Msg}
      BY <1>4, TagsApart DEF LiveMids, Alive, TxIInv, Types
    <3> QED BY <2>1, <2>3, <3>1, <3>2
  <2>7. m \notin LiveMids
    BY <2>1 DEF LiveMids, Alive
  <2>8. /\ mseq' = mseq /\ if_enabled' = if_enabled
        /\ arrived' = arrived /\ delivered' = delivered /\ lost' = lost
    BY <1>1 DEF rxvars, history
  <2>9. AcceptedInv'
    <3>1. \A k \in Mid : accepted'[k] = Null <=> msgs'[k] = Unborn
      BY <1>1, <2>2, <2>3, <2>4, <2>5 DEF AcceptedInv
    <3>2. \A k \in LiveMids' : accepted'[k] = DealOf(msgs'[k])
      <4>1. LiveMids \subseteq Mid
        BY DEF LiveMids
      <4> QED BY <1>1, <2>3, <2>4, <2>6, <4>1 DEF AcceptedInv
    <3>3. \A i, k \in Mid : accepted'[i] # Null /\ accepted'[k] # Null /\ i # k =>
                accepted'[i].seqno # accepted'[k].seqno
      BY <1>1 DEF FreshSeqno
    <3> QED BY <2>5, <3>1, <3>2, <3>3 DEF AcceptedInv
  <2>10. \A k \in Mid : \A s : Owns(k, s) => Owns(k, s)' /\ accepted'[k] = accepted[k] /\ k # m
    BY <2>4, <2>5 DEF Owns
  \* The receiver knows nothing under the new ID.
  <2>11. d.seqno \in Id /\ ~Known(d.seqno)
    <3>1. d.seqno \in Id
      BY <2>1 DEF Deal
    <3>2. SUFFICES ASSUME Known(d.seqno) PROVE FALSE
      BY <3>1
    <3>3. PICK k \in Mid : Owns(k, d.seqno)
      BY <1>1, <3>1, <3>2 DEF RecvInv
    <3>4. k # m /\ accepted'[k] # Null /\ accepted'[k].seqno = d.seqno
      BY <2>10, <3>3 DEF Owns
    <3>5. accepted'[m] = d
      BY <2>4
    <3> QED BY <2>5, <2>9, <3>4, <3>5 DEF AcceptedInv
  <2> HIDE DEF d
  <2>12. NetInv'
    <3>1. \A dg : FragOK(dg) => FragOK(dg)'
      BY <2>10 DEF FragOK
    <3>2. \A s, ack : AckOK(s, ack) => AckOK(s, ack)'
      BY <2>8, <2>10 DEF AckOK
    <3> QED BY <1>1, <3>1, <3>2 DEF NetInv
  <2>13. RecvInv'
    <3> SUFFICES ASSUME NEW s \in Id, Known(s) PROVE \E k \in Mid : Owns(k, s)' /\ RecvOK(k, mseq[s])'
      BY <2>8 DEF RecvInv, Known
    <3>1. PICK k \in Mid : Owns(k, s) /\ RecvOK(k, mseq[s])
      BY <1>1 DEF RecvInv
    <3> QED BY <2>8, <2>10, <3>1 DEF RecvOK
  <2>14. HistInv'
    <3>1. arrived[m] = {}
      BY <1>1, <2>5 DEF HistInv
    <3>2. HasArrived(m)' = {}
      BY <2>4, <2>8, <2>11 DEF HasArrived, Known
    <3>3. \A k \in Mid \ {m} : HasArrived(k)' = HasArrived(k)
      BY <2>4, <2>8 DEF HasArrived, Known
    <3> QED BY <1>1, <2>4, <2>8, <3>1, <3>2, <3>3 DEF HistInv
  <2>15. SentInv'
    <3> SUFFICES ASSUME NEW k \in LiveMids', msgs'[k].reliable
                 PROVE  (0 .. Fragcnt(msgs'[k]) - 1) \ LiveFrags(msgs'[k]) \subseteq arrived[k]
      BY <2>8 DEF SentInv
    <3>1. CASE k = m
      BY <2>1, <2>3, <3>1
    <3>2. CASE k # m
      <4>1. k \in LiveMids /\ k \in Mid
        BY <2>6, <3>2 DEF LiveMids
      <4> QED BY <1>1, <2>3, <3>2, <4>1 DEF SentInv
    <3> QED BY <3>1, <3>2
  <2>16. IInv' /\ if_enabled' = TRUE
    BY <1>1, <2>8, StepOK DEF LinkIInv
  <2>17. Remembered' = Remembered
    BY <2>4, <2>5, <2>8, <2>11 DEF Remembered, Known
  <2>18. Abs!Accept(m)
    <3>1. Status[m] = "none" /\ Status' = [Status EXCEPT ![m] = "pending"]
      <4>1. Reported(msgs[m]) = "none" /\ Reported(v) = "pending"
        BY <2>1, ReportedIs
      <4>2. Status = [k \in Mid |-> Reported(msgs[k])]
            /\ Status' = [k \in Mid |-> Reported(msgs'[k])]
        BY DEF Status
      <4> QED BY <2>3, <4>1, <4>2
    <3> DEFINE c == Agreed(d)
    <3>2. Wanted' = [Wanted EXCEPT ![m] = c]
      BY <2>4 DEF Wanted
    <3>3. c \in Abs!Contract
      BY <2>1, <2>5 DEF Agreed, Deal, d, Abs!Contract
    <3> HIDE DEF c
    <3> QED BY <2>8, <2>17, <3>1, <3>2, <3>3 DEF Abs!Accept
  <2> QED BY <1>4, <2>9, <2>12, <2>13, <2>14, <2>15, <2>16, <2>18 DEF Simulated, LinkIInv, Abs!ANext
<1> QED BY <1>3, <1>5, <1>6 DEF SendToFlowControlled, SendToOutOfSeqno, SendToTooLarge

----------------------------------------------------------------------------
(* The receiver and the abstract specification.                            *)

\* What the sender knows stays when only the receiver moves.
LEMMA ReceiverLeaves ==
    ASSUME LinkIInv, UNCHANGED <<vars, accepted>>, \A m \in Mid : arrived[m] \subseteq arrived'[m]
    PROVE  TxIInv' /\ AcceptedInv' /\ SentInv' /\ Status' = Status /\ Wanted' = Wanted
<1>1. msgs' = msgs /\ accepted' = accepted /\ LiveMids \subseteq Mid
  BY DEF vars, LiveMids
<1>2. LiveMids' = LiveMids
  BY <1>1 DEF LiveMids, Alive
<1>3. TxIInv'
  BY TxStepOK DEF LinkIInv
<1>4. AcceptedInv'
  BY <1>1, <1>2 DEF LinkIInv, AcceptedInv
<1>5. SentInv'
  <2>1. SentInv
    BY DEF LinkIInv
  <2> QED BY <1>1, <1>2, <2>1 DEF SentInv
<1>6. Status' = Status /\ Wanted' = Wanted
  BY <1>1 DEF Status, Wanted
<1> QED BY <1>3, <1>4, <1>5, <1>6

\* The ACKs of a receiver that holds what arrived acknowledge what arrived.
LEMMA ReceiverNet ==
    ASSUME LinkIInv, UNCHANGED accepted, \A m \in Mid : arrived[m] \subseteq arrived'[m],
           IInv', RecvInv', net' = net \/ AcksSent
    PROVE  NetInv'
<1>1. NetInv /\ accepted' = accepted
  BY DEF LinkIInv
<1>2. \A dg : FragOK(dg)' = FragOK(dg)
  BY <1>1 DEF FragOK, Owns
<1>3. \A s, ack : AckOK(s, ack) => AckOK(s, ack)'
  <2> SUFFICES ASSUME NEW s, NEW ack, AckOK(s, ack) PROVE AckOK(s, ack)'
    OBVIOUS
  <2> QED BY <1>1 DEF AckOK, Owns
<1>4. ASSUME NEW a \in acks' PROVE AckOK(a.mid, a.ack)'
  <2>1. a.mid \in Id /\ a.ack \in Acks
    BY <1>4, PeerAssumption DEF IInv, RxTypeOK
  <2> SUFFICES ASSUME ~a.ack.ear
               PROVE  \E m \in Mid : /\ Owns(m, a.mid)'
                                     /\ Acknowledged(a.ack, accepted'[m].count) \subseteq arrived'[m]
    BY <2>1 DEF AckOK
  <2>2. Known(a.mid)' /\ Sound(a.ack, mseq'[a.mid].fragcnt, mseq'[a.mid].fbits)
    BY <1>4 DEF IInv, AcksOK
  <2>3. PICK m \in Mid : Owns(m, a.mid)' /\ RecvOK(m, mseq[a.mid])'
    BY <2>1, <2>2 DEF RecvInv
  <2>4. mseq'[a.mid].fragcnt = accepted'[m].count /\ mseq'[a.mid].fbits \subseteq arrived'[m]
    BY <2>3 DEF RecvOK
  <2>5. Acknowledged(a.ack, mseq'[a.mid].fragcnt) \subseteq mseq'[a.mid].fbits
    BY <2>2 DEF Sound
  <2> QED BY <2>3, <2>4, <2>5
<1>5. ASSUME NEW dg \in net'
      PROVE  \/ dg \in net
             \/ dg.kind = "ack" /\ AckOK(dg.seqno, dg.ack)'
  <2>1. CASE dg \notin net
    <3>1. PICK a \in acks' : dg = AckOnWire(a.mid, a.ack)
      BY <1>5, <2>1 DEF AcksSent
    <3>2. dg.kind = "ack" /\ dg.seqno = a.mid /\ dg.ack = a.ack
      BY <3>1 DEF AckOnWire
    <3> QED BY <1>4, <3>1, <3>2
  <2> QED BY <2>1
<1>6. ASSUME NEW dg \in net'
      PROVE  /\ dg.kind = "frag" => FragOK(dg)'
             /\ dg.kind = "ack" => AckOK(dg.seqno, dg.ack)'
             /\ dg.kind = "ear" => dg.seqno \in Id
  <2>1. CASE dg \in net
    BY <1>1, <1>2, <1>3, <2>1 DEF NetInv
  <2>2. CASE dg.kind = "ack" /\ AckOK(dg.seqno, dg.ack)'
    BY <2>2
  <2> QED BY <1>5, <2>1, <2>2
<1> QED BY <1>6 DEF NetInv

\* A step of the receiver that keeps its part of the invariant, and simulates.
LEMMA ReceiverOK ==
    ASSUME LinkIInv, UNCHANGED <<vars, accepted>>, \A m \in Mid : arrived[m] \subseteq arrived'[m],
           IInv', if_enabled' = TRUE, RecvInv', HistInv', net' = net \/ AcksSent,
           [Abs!ANext]_(Abs!avars)
    PROVE  Simulated
<1>1. TxIInv' /\ AcceptedInv' /\ SentInv'
  BY ReceiverLeaves
<1>2. NetInv'
  BY ReceiverNet
<1> QED BY <1>1, <1>2 DEF Simulated, LinkIInv

\* The message that is known under the ID of a message is that message.
LEMMA ReceivedIs ==
    ASSUME LinkIInv, NEW m \in Mid, NEW s \in Id, Owns(m, s), Known(s)
    PROVE  RecvOK(m, mseq[s]) /\ MsgInv(mseq[s])
<1>1. PICK k \in Mid : Owns(k, s) /\ RecvOK(k, mseq[s])
  BY DEF LinkIInv, RecvInv
<1>2. k = m
  BY <1>1, OneOwner DEF LinkIInv
<1> QED BY <1>1, <1>2, PeerAssumption DEF LinkIInv, IInv

\* Only the state of the acknowledgments, or the timer, of messages changes.
Alike(um, v) ==
    /\ v.fragcnt = um.fragcnt /\ v.reliable = um.reliable /\ v.deflated = um.deflated
    /\ v.fbits = um.fbits /\ v.fragments = um.fragments /\ v.lingering = um.lingering

\* A handler of the receiver that stores nothing is a stuttering step.
LEMMA QuietOK ==
    ASSUME LinkIInv, UNCHANGED <<vars, accepted, history>>, AcksSent, IInv', if_enabled' = TRUE,
           \A s \in Id : (Known(s)' <=> Known(s)) /\ (Known(s) => Alike(mseq[s], mseq'[s]))
    PROVE  Simulated
<1>1. accepted' = accepted /\ arrived' = arrived /\ delivered' = delivered /\ lost' = lost
  BY DEF history
<1>2. RecvInv'
  <2> SUFFICES ASSUME NEW s \in Id, Known(s)' PROVE \E m \in Mid : Owns(m, s)' /\ RecvOK(m, mseq[s])'
    BY DEF RecvInv
  <2>1. Known(s) /\ Alike(mseq[s], mseq'[s])
    OBVIOUS
  <2>2. PICK m \in Mid : Owns(m, s) /\ RecvOK(m, mseq[s])
    BY <2>1 DEF LinkIInv, RecvInv
  <2>3. Owns(m, s)' /\ RecvOK(m, mseq[s])'
    BY <1>1, <2>1, <2>2 DEF Owns, RecvOK, Alike
  <2> QED BY <2>3
<1>3. \A m \in Mid : accepted[m] # Null => accepted[m].seqno \in Id
  BY DEF LinkIInv, AcceptedInv, Deal
<1>4. \A m \in Mid : accepted[m] # Null => HasArrived(m)' = HasArrived(m)
  BY <1>1, <1>3 DEF HasArrived, Alike
<1>5. HistInv'
  BY <1>1, <1>4 DEF LinkIInv, HistInv
<1>6. Remembered' = Remembered
  BY <1>1, <1>3 DEF Remembered, Alike
<1>7. Status' = Status /\ Wanted' = Wanted
  BY <1>1, ReceiverLeaves
<1>8. [Abs!ANext]_(Abs!avars)
  BY <1>6, <1>7, AbsStutters
<1> QED BY <1>1, <1>2, <1>5, <1>8, ReceiverOK

\* The message of ID s is left as r.um, where only ACKs changed.
LEMMA RespondQuiet ==
    ASSUME LinkIInv, UNCHANGED <<vars, accepted, history>>, AcksSent, IInv', if_enabled' = TRUE,
           NEW s \in Id, Known(s), NEW r, Respond(s, r), NEW S, NEW um,
           Alike(mseq[s], um), um \in RMsg, Acked(um, r, S)
    PROVE  Simulated
<1>1. mseq \in [Id -> RMsg \cup {NoMsg}]
  BY PeerAssumption DEF LinkIInv, IInv, RxTypeOK
<1>2. \A t \in Id : mseq'[t] = IF t = s THEN r.um ELSE mseq[t]
  BY <1>1 DEF Respond
<1>3. r.um \in RMsg /\ r.um # NoMsg
  BY NoMsgAssumption DEF Acked, Core
<1>4. Alike(um, r.um)
  BY DEF Acked, Acknowledging, RMsg, Alike
<1>5. Alike(mseq[s], r.um)
  BY <1>4 DEF Alike
<1>6. ASSUME NEW t \in Id
      PROVE  (Known(t)' <=> Known(t)) /\ (Known(t) => Alike(mseq[t], mseq'[t]))
  <2>1. CASE t = s
    BY <1>2, <1>3, <1>5, <2>1 DEF Known
  <2>2. CASE t # s
    BY <1>2, <2>2 DEF Known, Alike
  <2> QED BY <2>1, <2>2
<1> QED BY <1>6, QuietOK

\* The receiver forgets the messages of the IDs in S.
LEMMA ForgetOK ==
    ASSUME LinkIInv, UNCHANGED <<vars, accepted, arrived, delivered>>, net' = net,
           IInv', if_enabled' = TRUE, NEW S \in SUBSET Id,
           \A s \in Id : mseq'[s] = IF s \in S THEN Null ELSE mseq[s],
           lost' = lost \cup PartlyReceived(S)
    PROVE  Simulated
<1>1. accepted' = accepted /\ arrived' = arrived /\ delivered' = delivered
  OBVIOUS
<1>2. \A s \in Id : Known(s)' <=> s \notin S /\ Known(s)
  BY PeerAssumption DEF Known
<1>3. RecvInv'
  <2> SUFFICES ASSUME NEW s \in Id, Known(s)' PROVE \E m \in Mid : Owns(m, s)' /\ RecvOK(m, mseq[s])'
    BY DEF RecvInv
  <2>1. Known(s) /\ mseq'[s] = mseq[s]
    BY <1>2
  <2>2. PICK m \in Mid : Owns(m, s) /\ RecvOK(m, mseq[s])
    BY <2>1 DEF LinkIInv, RecvInv
  <2>3. Owns(m, s)' /\ RecvOK(m, mseq[s])'
    BY <1>1, <2>1, <2>2 DEF Owns, RecvOK
  <2> QED BY <2>3
<1>4. ASSUME NEW m \in Mid, accepted[m] # Null
      PROVE  /\ accepted[m].seqno \in Id
             /\ Known(accepted[m].seqno) => /\ RecvOK(m, mseq[accepted[m].seqno])
                                            /\ MsgInv(mseq[accepted[m].seqno])
  <2>1. accepted[m].seqno \in Id
    BY <1>4 DEF LinkIInv, AcceptedInv, Deal
  <2> QED BY <1>4, <2>1, ReceivedIs DEF Owns
<1>5. HistInv
  BY DEF LinkIInv
<1>6. ASSUME NEW m \in Mid, accepted[m] # Null
      PROVE  m \in delivered \cup lost' \/ arrived[m] = HasArrived(m)'
  <2> DEFINE s == accepted[m].seqno
  <2>1. CASE s \notin S
    <3>1. mseq'[s] = mseq[s] /\ (Known(s)' <=> Known(s))
      BY <1>2, <1>4, <1>6, <2>1
    <3>2. HasArrived(m)' = HasArrived(m)
      BY <1>1, <3>1 DEF HasArrived
    <3> QED BY <1>5, <1>6, <3>2 DEF HistInv
  <2>2. CASE s \in S /\ Known(s)
    <3>1. CASE mseq[s].lingering
      BY <1>4, <1>6, <2>2, <3>1 DEF RecvOK
    <3>2. CASE ~mseq[s].lingering
      BY <1>6, <2>2, <3>2 DEF PartlyReceived
    <3> QED BY <3>1, <3>2
  <2>3. CASE ~Known(s)
    <3>1. HasArrived(m) = {} /\ HasArrived(m)' = {}
      BY <1>1, <1>2, <1>4, <1>6, <2>3 DEF HasArrived
    <3> QED BY <1>5, <1>6, <3>1 DEF HistInv
  <2> QED BY <2>1, <2>2, <2>3
<1>7. PartlyReceived(S) \subseteq {m \in Mid : arrived[m] # {}}
  <2> SUFFICES ASSUME NEW m \in PartlyReceived(S) PROVE m \in Mid /\ arrived[m] # {}
    OBVIOUS
  <2>1. m \in Mid /\ accepted[m] # Null /\ Known(accepted[m].seqno)
    BY DEF PartlyReceived
  <2> QED BY <1>4, <2>1 DEF RecvOK, MsgInv
<1>8. HistInv'
  <2>1. lost' \subseteq Mid
    BY <1>5, <1>7 DEF HistInv
  <2> QED BY <1>1, <1>5, <1>6, <2>1 DEF HistInv
<1>9. Remembered' \subseteq Remembered
  BY <1>1, <1>2, <1>4 DEF Remembered
<1>10. Status' = Status /\ Wanted' = Wanted
  BY <1>1, ReceiverLeaves
<1>11. Abs!Forget
  <2>1. \E kept \in SUBSET Remembered : Remembered' = kept
    BY <1>9
  <2>2. \E gone \in SUBSET {m \in Mid : arrived[m] # {}} : lost' = lost \cup gone
    BY <1>7
  <2> QED BY <1>1, <1>10, <2>1, <2>2 DEF Abs!Forget
<1>12. [Abs!ANext]_(Abs!avars)
  BY <1>11 DEF Abs!ANext
<1> QED BY <1>1, <1>3, <1>8, <1>12, ReceiverOK

\* A fragment for one ID does not touch the messages of the others.
LEMMA AgreeElsewhere ==
    ASSUME NEW M, NEW A \in SUBSET M, NEW B \in SUBSET M, NEW x \in M,
           \A k \in M \ {x} : k \in B <=> k \in A
    PROVE  /\ (x \in B <=> x \in A) => B = A
           /\ x \in B => B = A \cup {x}
OBVIOUS

\* A fragment arrives: what is known under the ID of its message may change,
\* and the message may be delivered.
LEMMA ArrivalOK ==
    ASSUME LinkIInv, NEW m \in Mid, NEW s \in Id, Owns(m, s), NEW f \in 0 .. accepted[m].count - 1,
           UNCHANGED <<vars, accepted, lost>>, AcksSent, IInv', if_enabled' = TRUE,
           arrived' = [arrived EXCEPT ![m] = @ \cup {f}],
           \A t \in Id \ {s} : mseq'[t] = mseq[t],
           Known(s)' => RecvOK(m, mseq[s])',
           \/ delivered' = delivered /\ (Known(s)' /\ mseq'[s].lingering <=> Known(s) /\ mseq[s].lingering)
           \/ /\ delivered' = delivered \cup {m}
              /\ arrived[m] \cup {f} = 0 .. accepted[m].count - 1
              /\ ~(Known(s) /\ mseq[s].lingering)
              /\ Known(s)' /\ mseq'[s].lingering <=> accepted[m].count # 1 \/ accepted[m].reliable,
           m \in delivered' \/ arrived[m] # HasArrived(m) \/ arrived[m] \cup {f} = HasArrived(m)'
    PROVE  Simulated
<1>1. /\ accepted' = accepted /\ lost' = lost /\ HistInv /\ AcceptedInv /\ RecvInv
      /\ delivered \subseteq delivered' /\ delivered' \subseteq Mid
  BY DEF LinkIInv, HistInv
<1>2. \A k \in Mid : arrived'[k] = IF k = m THEN arrived[m] \cup {f} ELSE arrived[k]
  BY <1>1 DEF HistInv
<1>3. accepted[m] # Null /\ accepted[m].seqno = s /\ accepted[m] \in Deal
  BY <1>1 DEF Owns, AcceptedInv
<1>4. \A k \in Mid \ {m} : accepted[k] # Null => accepted[k].seqno \in Id \ {s}
  BY <1>1, <1>3 DEF AcceptedInv, Deal
<1>5. accepted[m].count \in 1 .. MaxFrags /\ MaxFrags \in 1 .. FragMax
  BY <1>3, LinkAssumption DEF Deal
<1>6. RecvInv'
  <2> SUFFICES ASSUME NEW t \in Id, Known(t)' PROVE \E k \in Mid : Owns(k, t)' /\ RecvOK(k, mseq[t])'
    BY DEF RecvInv
  <2>1. CASE t = s
    <3>1. Owns(m, s)' /\ RecvOK(m, mseq[s])'
      BY <1>1, <2>1 DEF Owns
    <3> QED BY <2>1, <3>1
  <2>2. CASE t # s
    <3>1. mseq'[t] = mseq[t] /\ Known(t)
      BY <2>2 DEF Known
    <3>2. PICK k \in Mid : Owns(k, t) /\ RecvOK(k, mseq[t])
      BY <1>1, <3>1 DEF RecvInv
    <3>3. Owns(k, t)' /\ RecvOK(k, mseq[t])'
      BY <1>1, <1>2, <3>1, <3>2 DEF Owns, RecvOK
    <3> QED BY <3>3
  <2> QED BY <2>1, <2>2
<1>7. \A k \in Mid \ {m} : accepted[k] # Null => HasArrived(k)' = HasArrived(k)
  BY <1>1, <1>4 DEF HasArrived, Known
<1>8. HistInv'
  <2>1. f \in Part
    BY <1>5 DEF Part, FragMax
  <2>2. arrived' \in [Mid -> SUBSET Part]
    BY <1>1, <2>1 DEF HistInv
  <2>3. ASSUME NEW k \in Mid, accepted[k] # Null
        PROVE  /\ arrived'[k] \subseteq 0 .. accepted[k].count - 1
               /\ k \in delivered' \cup lost \/ arrived'[k] = HasArrived(k)'
    <3>1. CASE k = m
      BY <1>1, <1>2, <2>3, <3>1 DEF HistInv
    <3>2. CASE k # m
      BY <1>1, <1>2, <1>7, <2>3, <3>2 DEF HistInv
    <3> QED BY <3>1, <3>2
  <2>4. \A k \in Mid : accepted[k] = Null => arrived'[k] = {}
    BY <1>1, <1>2, <1>3 DEF HistInv
  <2> QED BY <1>1, <2>2, <2>3, <2>4 DEF HistInv
<1>9. m \in Remembered <=> Known(s) /\ mseq[s].lingering
  BY <1>3 DEF Remembered
<1>10. m \in Remembered' <=> Known(s)' /\ mseq'[s].lingering
  BY <1>1, <1>3 DEF Remembered
<1>11. \A k \in Mid \ {m} : k \in Remembered' <=> k \in Remembered
  BY <1>1, <1>4 DEF Remembered, Known
<1>12. Remembered \subseteq Mid /\ Remembered' \subseteq Mid
  BY DEF Remembered
<1>13. /\ Status' = Status /\ Wanted' = Wanted
       /\ \A k \in Mid : arrived[k] \subseteq arrived'[k]
  BY <1>2, ReceiverLeaves
<1>14. /\ Status[m] # "none"
       /\ Wanted[m].count = accepted[m].count /\ Wanted[m].reliable = accepted[m].reliable
  <2>1. msgs[m] # Unborn /\ msgs[m] \in Msg \cup {Unborn, Sent, Dropped}
    BY <1>1, <1>3 DEF AcceptedInv, LinkIInv, TxIInv, Types
  <2>2. Reported(msgs[m]) # "none"
    BY <2>1, ReportedIs
  <2>3. Status[m] = Reported(msgs[m]) /\ Wanted[m] = Agreed(accepted[m])
    BY DEF Status, Wanted
  <2>4. Agreed(accepted[m]) = [count |-> accepted[m].count, reliable |-> accepted[m].reliable]
    BY <1>3 DEF Agreed
  <2> QED BY <2>2, <2>3, <2>4
<1>15. f < Wanted[m].count /\ f \in 0 .. MaxFrags - 1
  BY <1>5, <1>14
<1> HIDE DEF Wanted, Status, Remembered
<1>16. Abs!Arrive(m, f)
  <2> DEFINE got == arrived[m] \cup {f}
             single == Wanted[m].count = 1 /\ ~Wanted[m].reliable
  <2>1. CASE delivered' = delivered /\ (Known(s)' /\ mseq'[s].lingering <=> Known(s) /\ mseq[s].lingering)
    <3>1. Remembered' = Remembered
      <4>1. m \in Remembered' <=> m \in Remembered
        BY <1>9, <1>10, <2>1
      <4> QED BY <1>11, <1>12, <4>1, AgreeElsewhere
    <3> QED BY <1>1, <1>13, <1>14, <1>15, <2>1, <3>1 DEF Abs!Arrive
  <2>2. CASE /\ delivered' = delivered \cup {m}
             /\ arrived[m] \cup {f} = 0 .. accepted[m].count - 1
             /\ ~(Known(s) /\ mseq[s].lingering)
             /\ Known(s)' /\ mseq'[s].lingering <=> accepted[m].count # 1 \/ accepted[m].reliable
    <3>1. got = 0 .. Wanted[m].count - 1 /\ m \notin Remembered
      BY <1>9, <1>14, <2>2
    <3>2. Remembered' = IF single THEN Remembered ELSE Remembered \cup {m}
      <4>1. m \in Remembered' <=> ~single
        BY <1>10, <1>14, <2>2
      <4> HIDE DEF single
      <4>2. ~single => Remembered' = Remembered \cup {m}
        BY <1>11, <1>12, <4>1, AgreeElsewhere
      <4>3. single => Remembered' = Remembered
        BY <1>11, <1>12, <3>1, <4>1, AgreeElsewhere
      <4> QED BY <4>2, <4>3
    <3>3. /\ Status[m] # "none" /\ f < Wanted[m].count
          /\ arrived' = [arrived EXCEPT ![m] = got]
          /\ delivered' = delivered \cup {m}
          /\ Status' = Status /\ Wanted' = Wanted /\ lost' = lost
      BY <1>1, <1>13, <1>14, <1>15, <2>2
    <3> QED BY <3>1, <3>2, <3>3 DEF Abs!Arrive
  <2> QED BY <2>1, <2>2
<1>17. [Abs!ANext]_(Abs!avars)
  BY <1>15, <1>16 DEF Abs!ANext
<1> QED BY <1>1, <1>6, <1>8, <1>13, <1>17, ReceiverOK

\* An unreliable message of one fragment.
LEMMA SingletonOK ==
    ASSUME LinkIInv, NEW m \in Mid, NEW s \in Id, NEW h \in WireHeaders, Owns(m, s),
           h.count = accepted[m].count, h.ackme = accepted[m].reliable,
           GotSingleton(s, h, m), AcksSent, IInv', UNCHANGED <<vars, accepted, lost>>,
           arrived' = [arrived EXCEPT ![m] = @ \cup {h.part}],
           delivered' = delivered \cup GivenMids
    PROVE  Simulated
<1>1. h.count = 1 /\ ~h.ackme /\ ~Known(s) /\ mseq' = mseq /\ if_enabled' = if_enabled
  BY DEF GotSingleton, Singleton
<1>2. h.part = 0 /\ m # Empty /\ if_enabled = TRUE
  BY <1>1, PeerAssumption DEF WireHeaders, LinkIInv
<1> DEFINE g == [mid |-> s, compressed |-> h.deflated, fragments |-> {<<0, m>>}]
<1>3. given' = {g} /\ g.fragments = {<<0, m>>}
  BY <1>2 DEF GotSingleton
<1> HIDE DEF g
<1>4. GivenMids = {m}
  <2>1. {p[2] : p \in g.fragments} = {m}
    BY <1>3
  <2> QED BY <1>3, <2>1 DEF GivenMids
<1>5. accepted[m].count = 1 /\ accepted[m].reliable = FALSE
  BY <1>1 DEF LinkIInv, AcceptedInv, Owns, Deal
<1>6. arrived[m] \cup {0} = 0 .. accepted[m].count - 1
  <2>1. arrived[m] \subseteq 0 .. accepted[m].count - 1
    BY DEF LinkIInv, HistInv, Owns
  <2>2. 0 .. 1 - 1 = {0}
    OBVIOUS
  <2> QED BY <1>5, <2>1, <2>2
<1>7. ~Known(s)'
  BY <1>1 DEF Known
<1>8. 0 \in 0 .. accepted[m].count - 1
  BY <1>5
<1>9. delivered' = delivered \cup {m} /\ arrived' = [arrived EXCEPT ![m] = @ \cup {0}]
  BY <1>2, <1>4
<1> QED BY <1>1, <1>2, <1>5, <1>6, <1>7, <1>8, <1>9, ArrivalOK

\* ut_handle_fragment() of a fragment that was not received: the message is
\* stored, or given when it is complete.
LEMMA NewFragment ==
    ASSUME NEW s, NEW um, Core(um), NEW f \in Frags(um), f \notin um.fbits, NEW m, m # Empty,
           PendingOK(um, um.fbits \cup {f}), m \in Payload, ~um.deflated, if_enabled = TRUE
    PROVE  LET v == ut_handle_fragment(um, f, m)
               stored == um.fragments \cup {<<f, m>>}
           IN  /\ v \in RMsg /\ v.fbits = um.fbits \cup {f} /\ v.fragcnt = um.fragcnt
               /\ v.reliable = um.reliable /\ v.deflated = um.deflated /\ ~um.lingering
               /\ v.lingering <=> v.fbits = Frags(um)
               /\ ~v.lingering => v.fragments = stored
               /\ ut_assemble_message(s, um, f, m, TRUE) =
                    IF v.lingering THEN {[mid |-> s, fragments |-> stored, compressed |-> FALSE]}
                    ELSE {}
<1> DEFINE v == ut_handle_fragment(um, f, m)
           w == StoreFragment(um, f, m)
           stored == um.fragments \cup {<<f, m>>}
<1>1. MsgInv(v) /\ v.fbits = um.fbits \cup {f} /\ v.fragcnt = um.fragcnt
  BY HandleFragment
<1>2. um \in RMsg /\ ~um.lingering
  BY DEF Core
<1>3. /\ w.fragments = stored /\ w.reliable = um.reliable /\ w.deflated = um.deflated
      /\ w.lingering = um.lingering /\ w = [w EXCEPT !.fragrecv = w.fragrecv]
      /\ w.expire_ev = um.expire_ev
  BY <1>2 DEF StoreFragment, RMsg
<1>4. v = IF w.fragrecv = um.fragcnt THEN ut_rmsg_linger(w) ELSE w
  BY <1>2 DEF ut_handle_fragment
<1>5. LET u == ut_rmsg_linger(w)
      IN  u.lingering = TRUE /\ u.reliable = um.reliable /\ u.deflated = um.deflated
  BY <1>2 DEF ut_rmsg_linger, StoreFragment, RMsg
<1>6. ut_assemble_message(s, um, f, m, TRUE) =
         IF w.fragrecv = um.fragcnt THEN {[mid |-> s, fragments |-> stored, compressed |-> FALSE]}
         ELSE {}
  BY <1>2, <1>3 DEF ut_assemble_message
<1> HIDE DEF w
<1>7. v.lingering <=> w.fragrecv = um.fragcnt
  <2>1. CASE w.fragrecv = um.fragcnt
    BY <1>4, <1>5, <2>1
  <2>2. CASE w.fragrecv # um.fragcnt
    BY <1>2, <1>3, <1>4, <2>2
  <2> QED BY <2>1, <2>2
<1>8. v.reliable = um.reliable /\ v.deflated = um.deflated
  BY <1>3, <1>4, <1>5
<1>9. ~v.lingering => v.fragments = stored
  BY <1>3, <1>4, <1>7
<1>10. v \in RMsg /\ (v.lingering <=> v.fbits = Frags(um))
  <2> HIDE DEF v
  <2> QED BY <1>1 DEF MsgInv, Core, Frags
<1> HIDE DEF v, stored
<1> QED BY <1>1, <1>2, <1>6, <1>7, <1>8, <1>9, <1>10 DEF v, stored

\* A fragment is stored, or completes its message, which is then delivered.
LEMMA FragmentOK ==
    ASSUME LinkIInv, NEW m \in Mid, NEW s \in Id, NEW h \in WireHeaders, Owns(m, s),
           h.count = accepted[m].count, h.ackme = accepted[m].reliable,
           GotFragment(s, h, m, TRUE), AcksSent, IInv', UNCHANGED <<vars, accepted, lost>>,
           arrived' = [arrived EXCEPT ![m] = @ \cup {h.part}],
           delivered' = delivered \cup GivenMids
    PROVE  Simulated
<1> DEFINE um == IF Known(s) THEN mseq[s] ELSE ut_rmsg_create(h)
           r  == IF h.ackme THEN ut_acknowledge_fragment(um, h.part)
                 ELSE [um |-> um, acks |-> {}]
           q  == [r EXCEPT !.um = ut_handle_fragment(r.um, h.part, m)]
           v  == ut_handle_fragment(r.um, h.part, m)
           c  == accepted[m].count
<1>1. /\ Consistent(um, h) /\ Respond(s, q) /\ if_enabled' = if_enabled /\ ~Singleton(s, h)
      /\ given' = ut_assemble_message(s, r.um, h.part, m, TRUE)
  BY DEF GotFragment
<1>2. /\ IInv /\ if_enabled = TRUE /\ if_enabled' = TRUE /\ h \in Headers /\ s \in Rid
      /\ m \in Payload /\ m # Empty /\ mseq \in [Id -> RMsg \cup {NoMsg}]
  BY <1>1, PeerAssumption DEF LinkIInv, IInv, RxTypeOK
<1>3. /\ Core(um) /\ PendingOK(um, um.fbits) /\ h.part \in Frags(um)
      /\ um.reliable = h.ackme
  BY <1>1, <1>2, FragmentTarget
<1>4. /\ um.fragcnt = c /\ um.reliable = accepted[m].reliable /\ ~um.deflated
      /\ um.fbits \subseteq arrived[m]
      /\ ~um.lingering => um.fragments = {<<f, m>> : f \in um.fbits}
      /\ um.lingering => m \in delivered
      /\ um.fbits = HasArrived(m)
      /\ ~Known(s) => ~um.lingering
      /\ Known(s) => um.fbits # {}
  <2>1. accepted[m].seqno = s
    BY DEF Owns
  <2>2. CASE Known(s)
    <3>1. RecvOK(m, mseq[s]) /\ MsgInv(mseq[s]) /\ um = mseq[s]
      BY <2>2, ReceivedIs
    <3> HIDE DEF um
    <3> QED BY <2>1, <2>2, <3>1 DEF RecvOK, HasArrived, MsgInv
  <2>3. CASE ~Known(s)
    <3>1. um = ut_rmsg_create(h)
      BY <2>3
    <3>2. /\ um.fragcnt = h.count /\ um.reliable = h.ackme /\ um.deflated = h.deflated
          /\ um.fbits = {} /\ um.fragments = {} /\ um.lingering = FALSE
      BY <3>1 DEF ut_rmsg_create
    <3>3. h.deflated = FALSE
      BY DEF WireHeaders
    <3> HIDE DEF um
    <3> QED BY <2>1, <2>3, <3>2, <3>3 DEF HasArrived
  <2> QED BY <2>2, <2>3
<1>5. um.lingering <=> Known(s) /\ mseq[s].lingering
  BY <1>4
<1> HIDE DEF um
<1>6. Acked(um, r, um.fbits \cup {h.part})
  <2>1. CASE h.ackme
    BY <1>3, <2>1, AckFragment
  <2>2. CASE ~h.ackme
    <3>1. r = [um |-> um, acks |-> {}]
      BY <2>2
    <3>2. Acknowledging(um, um)
      BY <1>3 DEF Acknowledging, Core, RMsg
    <3> QED BY <1>3, <3>1, <3>2 DEF Acked, PendingOK
  <2> QED BY <2>1, <2>2
<1>7. q.um = v
  BY DEF ut_acknowledge_fragment, ut_rmsg_reack, ut_rmsg_reack_improved,
         ReackEachFragment, ut_delayed_ack
<1> HIDE DEF r
<1>8. Core(r.um) /\ PendingOK(r.um, um.fbits \cup {h.part}) /\ Alike(um, r.um)
      /\ Frags(r.um) = Frags(um)
  BY <1>3, <1>6 DEF Acked, Acknowledging, Core, RMsg, Alike, Frags
<1>9. \A t \in Id : mseq'[t] = IF t = s THEN v ELSE mseq[t]
  BY <1>1, <1>2, <1>7 DEF Respond
<1> HIDE DEF q
<1>10. h.part \in 0 .. c - 1 /\ Frags(um) = 0 .. c - 1
  BY <1>3, <1>4 DEF Frags
<1>11. /\ arrived[m] \subseteq 0 .. c - 1 /\ accepted[m].seqno = s
       /\ \A k \in Mid : arrived'[k] = IF k = m THEN arrived[m] \cup {h.part} ELSE arrived[k]
  BY DEF LinkIInv, HistInv, Owns
<1>12. CASE h.part \in um.fbits
  <2>1. v = r.um /\ given' = {}
    BY <1>1, <1>8, <1>12 DEF ut_handle_fragment, ut_assemble_message, Alike
  <2>2. v # NoMsg /\ v.fbits = um.fbits /\ v.lingering = um.lingering
    BY <1>8, <2>1, NoMsgAssumption DEF Core, Alike
  <2>3. Known(s)' /\ mseq'[s] = v /\ accepted' = accepted
    BY <1>9, <2>2 DEF Known
  <2>4. delivered' = delivered
    BY <2>1 DEF GivenMids
  <2>5. RecvOK(m, mseq[s])'
    BY <1>4, <1>8, <1>11, <2>1, <2>3, <2>4 DEF RecvOK, Alike
  <2>6. Known(s)' /\ mseq'[s].lingering <=> Known(s) /\ mseq[s].lingering
    BY <1>5, <2>2, <2>3
  <2>7. arrived[m] # HasArrived(m) \/ arrived[m] \cup {h.part} = HasArrived(m)'
    BY <1>4, <1>11, <1>12, <2>2, <2>3 DEF HasArrived
  <2> QED BY <1>2, <1>9, <1>10, <2>4, <2>5, <2>6, <2>7, ArrivalOK
<1>13. CASE h.part \notin um.fbits
  <2> DEFINE stored == r.um.fragments \cup {<<h.part, m>>}
  <2>1. /\ v \in RMsg /\ v.fbits = um.fbits \cup {h.part} /\ v.fragcnt = um.fragcnt
        /\ v.reliable = um.reliable /\ v.deflated = um.deflated /\ ~um.lingering
        /\ v.lingering <=> v.fbits = Frags(um)
        /\ ~v.lingering => v.fragments = stored
        /\ given' = IF v.lingering THEN {[mid |-> s, fragments |-> stored, compressed |-> FALSE]}
                    ELSE {}
    <3>1. /\ r.um.fbits = um.fbits /\ r.um.fragcnt = um.fragcnt /\ r.um.reliable = um.reliable
          /\ r.um.deflated = um.deflated /\ r.um.lingering = um.lingering
      BY <1>8 DEF Alike
    <3>2. h.part \in Frags(r.um) /\ h.part \notin r.um.fbits /\ ~r.um.deflated
      BY <1>3, <1>4, <1>8, <1>13, <3>1
    <3>3. Core(r.um) /\ PendingOK(r.um, r.um.fbits \cup {h.part})
      BY <1>8, <3>1
    <3>4. /\ v \in RMsg /\ v.fbits = r.um.fbits \cup {h.part} /\ v.fragcnt = r.um.fragcnt
          /\ v.reliable = r.um.reliable /\ v.deflated = r.um.deflated /\ ~r.um.lingering
          /\ v.lingering <=> v.fbits = Frags(r.um)
          /\ ~v.lingering => v.fragments = stored
          /\ ut_assemble_message(s, r.um, h.part, m, TRUE) =
                IF v.lingering THEN {[mid |-> s, fragments |-> stored, compressed |-> FALSE]}
                ELSE {}
      BY <1>2, <3>2, <3>3, NewFragment
    <3> HIDE DEF v, stored
    <3> QED BY <1>1, <1>8, <3>1, <3>4
  <2>2. stored = {<<f, m>> : f \in um.fbits \cup {h.part}}
    <3>1. r.um.fragments = {<<f, m>> : f \in um.fbits}
      BY <1>4, <1>8, <2>1 DEF Alike
    <3> QED BY <3>1
  <2> HIDE DEF v, stored
  <2>3. Known(s)' /\ mseq'[s] = v /\ accepted' = accepted
    BY <1>9, <2>1, NoMsgAssumption DEF Known
  <2>4. ~(Known(s) /\ mseq[s].lingering)
    BY <1>5, <2>1
  <2>5. arrived[m] # HasArrived(m) \/ arrived[m] \cup {h.part} = HasArrived(m)'
    BY <1>4, <1>11, <2>1, <2>3 DEF HasArrived
  <2>6. CASE ~v.lingering
    <3>1. delivered' = delivered
      BY <2>1, <2>6 DEF GivenMids
    <3>2. RecvOK(m, mseq[s])'
      BY <1>4, <1>11, <2>1, <2>2, <2>3, <2>6 DEF RecvOK
    <3> QED BY <1>2, <1>9, <1>10, <2>3, <2>4, <2>5, <2>6, <3>1, <3>2, ArrivalOK
  <2>7. CASE v.lingering
    <3> DEFINE g == [mid |-> s, fragments |-> stored, compressed |-> FALSE]
    <3>1. given' = {g} /\ g.fragments = stored
      BY <2>1, <2>7
    <3> HIDE DEF g
    <3>2. GivenMids = {m}
      <4>1. {p[2] : p \in g.fragments} = {m}
        <5>1. \A p \in g.fragments : p[2] = m
          BY <2>2, <3>1
        <5>2. <<h.part, m>> \in g.fragments /\ <<h.part, m>>[2] = m
          BY <2>2, <3>1
        <5> QED BY <5>1, <5>2
      <4> QED BY <3>1, <4>1 DEF GivenMids
    <3>3. delivered' = delivered \cup {m}
      BY <3>2
    <3>4. arrived[m] \cup {h.part} = 0 .. c - 1
      BY <1>4, <1>10, <1>11, <2>1, <2>7
    <3>5. RecvOK(m, mseq[s])'
      BY <1>4, <1>11, <2>1, <2>3, <2>7, <3>3 DEF RecvOK
    <3>6. c # 1 \/ accepted[m].reliable
      <4>1. SUFFICES ASSUME c = 1, ~accepted[m].reliable PROVE FALSE
        OBVIOUS
      <4>2. Known(s)
        BY <1>1, <4>1 DEF Singleton
      <4>3. um.fbits # {} /\ um.fbits \subseteq 0 .. 0 /\ h.part \in 0 .. 0
        BY <1>3, <1>4, <1>10, <4>1, <4>2 DEF Core
      <4>4. 0 .. 0 = {0}
        OBVIOUS
      <4> QED BY <1>13, <4>3, <4>4
    <3>7. m \in delivered'
      BY <3>3
    <3> QED BY <1>2, <1>9, <1>10, <2>3, <2>4, <2>7, <3>3, <3>4, <3>5, <3>6, <3>7, ArrivalOK
  <2> QED BY <2>6, <2>7
<1> QED BY <1>12, <1>13

\* The three cases of ut_got_message().
LEMMA LinkGotFragmentOK ==
    ASSUME LinkIInv, NEW dg \in net, dg.kind = "frag", LinkGotFragment(dg)
    PROVE  Simulated
<1> DEFINE m == dg.mid
           s == dg.seqno
           h == dg.head
<1>1. FragOK(dg)
  BY DEF LinkIInv, NetInv
<1>2. /\ m \in Mid /\ Owns(m, s) /\ h \in WireHeaders /\ h.count = accepted[m].count
      /\ h.ackme = accepted[m].reliable
  BY <1>1 DEF FragOK
<1>3. s \in Id
  BY <1>2 DEF Owns, LinkIInv, AcceptedInv, Deal
<1>4. /\ GotSingleton(s, h, m) \/ GotInconsistent(s, h) \/ GotFragment(s, h, m, TRUE)
      /\ AcksSent /\ arrived' = [arrived EXCEPT ![m] = @ \cup {h.part}]
      /\ delivered' = delivered \cup GivenMids /\ UNCHANGED <<vars, accepted, lost>>
  BY DEF LinkGotFragment
<1> HIDE DEF m, s, h
<1>5. IInv'
  <2>1. s \in Rid /\ h \in Headers /\ m \in Payload
    BY <1>2, <1>3, PeerAssumption
  <2>2. Receive(s)
    BY <1>4, <2>1 DEF Receive
  <2> QED BY <2>1, <2>2, StepOK DEF LinkIInv, RxNext
<1>6. CASE GotSingleton(s, h, m)
  BY <1>2, <1>3, <1>4, <1>5, <1>6, SingletonOK
<1>7. CASE GotFragment(s, h, m, TRUE)
  BY <1>2, <1>3, <1>4, <1>5, <1>7, FragmentOK
<1>8. ~GotInconsistent(s, h)
  <2>1. SUFFICES ASSUME Known(s) PROVE Consistent(mseq[s], h)
    BY DEF GotInconsistent
  <2>2. RecvOK(m, mseq[s]) /\ MsgInv(mseq[s])
    BY <1>2, <1>3, <2>1, ReceivedIs
  <2>3. mseq[s].deflated \in BOOLEAN /\ h.deflated = FALSE
    BY <1>2, <2>2 DEF MsgInv, Core, RMsg, WireHeaders
  <2> QED BY <1>2, <2>2, <2>3 DEF RecvOK, Consistent
<1> QED BY <1>4, <1>6, <1>7, <1>8

\* An EAR is answered.
LEMMA LinkGotEarOK ==
    ASSUME LinkIInv, NEW dg \in net, dg.kind = "ear", LinkGotEar(dg)
    PROVE  Simulated
<1> DEFINE s == dg.seqno
           r == ut_rmsg_reack(mseq[s], "ear")
<1>1. s \in Id /\ s \in Rid /\ if_enabled = TRUE /\ IInv
  BY PeerAssumption DEF LinkIInv, NetInv
<1>2. GotEAR(s) /\ AcksSent /\ UNCHANGED <<vars, accepted, history>>
  BY DEF LinkGotEar
<1> HIDE DEF s
<1>3. IInv' /\ if_enabled' = TRUE
  <2>1. Receive(s)
    BY <1>2 DEF Receive
  <2>2. if_enabled' = if_enabled
    BY <1>2 DEF GotEAR
  <2> QED BY <1>1, <2>1, <2>2, StepOK DEF RxNext
<1>4. CASE Known(s)
  <2>1. Respond(s, r)
    BY <1>2, <1>4 DEF GotEAR
  <2>2. MsgInv(mseq[s])
    BY <1>1, <1>4 DEF IInv
  <2>3. Acked(mseq[s], r, mseq[s].fbits)
    BY <2>2, Reack DEF MsgInv, PendingOK
  <2>4. mseq[s] \in RMsg /\ Alike(mseq[s], mseq[s])
    BY <2>2 DEF MsgInv, Core, Alike
  <2> HIDE DEF r
  <2> QED BY <1>1, <1>2, <1>3, <1>4, <2>1, <2>3, <2>4, RespondQuiet
<1>5. CASE ~Known(s)
  <2>1. mseq' = mseq
    BY <1>2, <1>5 DEF GotEAR
  <2>2. \A t \in Id : (Known(t)' <=> Known(t)) /\ (Known(t) => Alike(mseq[t], mseq'[t]))
    BY <2>1 DEF Known, Alike
  <2> QED BY <1>2, <1>3, <2>2, QuietOK
<1> QED BY <1>4, <1>5

\* A timer of the receiver: ACKs are sent, or the message is forgotten.
LEMMA LinkReceiverOK ==
    ASSUME LinkIInv, NEW s \in Id, LinkReceiver(s)
    PROVE  Simulated
<1>1. /\ RxTimeout(s) /\ AcksSent /\ UNCHANGED <<vars, accepted, arrived, delivered>>
      /\ lost' = IF mseq'[s] = Null THEN lost \cup PartlyReceived({s}) ELSE lost
  BY DEF LinkReceiver
<1>2. /\ s \in Rid /\ if_enabled = TRUE /\ IInv /\ mseq \in [Id -> RMsg \cup {NoMsg}]
  BY PeerAssumption DEF LinkIInv, IInv, RxTypeOK
<1>3. Known(s) /\ MsgInv(mseq[s]) /\ if_enabled' = TRUE
  BY <1>1, <1>2
     DEF RxTimeout, DelayedAck, AlmostExpired, RxExpired, RxLingered, ut_rmsg_free, IInv
<1>4. IInv'
  BY <1>1, <1>2, StepOK DEF RxNext
<1>5. mseq[s] \in RMsg /\ mseq[s].facks \subseteq mseq[s].fbits /\ Alike(mseq[s], mseq[s])
  BY <1>3 DEF MsgInv, Core, PendingOK, Alike
<1>6. ASSUME NEW um, MsgInv(um), um \in RMsg, Alike(mseq[s], um), NEW r, Respond(s, r),
             Acked(um, r, um.fbits)
      PROVE  Simulated
  <2>1. mseq'[s] = r.um
    BY <1>2, <1>6 DEF Respond
  <2>2. r.um # Null
    BY <1>6, NoMsgAssumption, PeerAssumption DEF Acked, Core
  <2>3. UNCHANGED <<vars, accepted, history>>
    BY <1>1, <2>1, <2>2 DEF history
  <2> QED BY <1>1, <1>3, <1>4, <1>6, <2>3, RespondQuiet
<1>7. CASE DelayedAck(s)
  <2> DEFINE r == ut_delayed_ack(mseq[s])
  <2>1. Respond(s, r)
    BY <1>7 DEF DelayedAck
  <2>2. Acked(mseq[s], r, mseq[s].fbits)
    BY <1>3, <1>5, FlushAcks DEF MsgInv
  <2> HIDE DEF r
  <2> QED BY <1>3, <1>5, <1>6, <2>1, <2>2
<1>8. CASE AlmostExpired(s)
  <2> DEFINE um == [mseq[s] EXCEPT !.expire_ev = "expire"]
             r  == ut_rmsg_reack(um, "almost")
  <2>1. mseq[s].expire_ev = "almost" /\ Respond(s, r)
    BY <1>8 DEF AlmostExpired
  <2>2. /\ um \in RMsg /\ Alike(mseq[s], um) /\ um.facks = mseq[s].facks
        /\ um.fragrecv = mseq[s].fragrecv
        /\ um.acks_pending = mseq[s].acks_pending /\ um.acks_ev = mseq[s].acks_ev
        /\ um.improved_acks = mseq[s].improved_acks
        /\ um.expire_ev = "expire"
    BY <1>5 DEF RMsg, Alike
  <2> HIDE DEF um
  <2>3. Frags(um) = Frags(mseq[s])
    BY <2>2 DEF Frags, Alike
  <2>4. MsgInv(um)
    BY <1>3, <2>1, <2>2, <2>3 DEF MsgInv, Core, PendingOK, Alike
  <2>5. um.facks \subseteq um.fbits
    BY <2>4 DEF MsgInv, PendingOK
  <2>6. Acked(um, r, um.fbits)
    BY <2>4, <2>5, Reack DEF MsgInv
  <2> HIDE DEF r
  <2> QED BY <1>6, <2>1, <2>2, <2>4, <2>6
<1>9. CASE ut_rmsg_free(s)
  <2>1. mseq' = [mseq EXCEPT ![s] = NoMsg] /\ acks' = {}
    BY <1>9 DEF ut_rmsg_free
  <2>2. net' = net
    BY <1>1, <2>1 DEF AcksSent
  <2>3. \A t \in Id : mseq'[t] = IF t \in {s} THEN Null ELSE mseq[t]
    BY <1>2, <2>1, PeerAssumption
  <2>4. lost' = lost \cup PartlyReceived({s}) /\ {s} \in SUBSET Id
    BY <1>1, <2>3
  <2> QED BY <1>1, <1>3, <1>4, <2>2, <2>3, <2>4, ForgetOK
<1> QED BY <1>1, <1>7, <1>8, <1>9 DEF RxTimeout, RxExpired, RxLingered

\* A restart forgets all the messages: those received in part are lost.
LEMMA LinkRestartOK ==
    ASSUME LinkIInv, LinkRestart
    PROVE  Simulated
<1>1. /\ mseq' = [s \in Id |-> Null] /\ if_enabled' = TRUE /\ acks' = {} /\ given' = {}
      /\ lost' = lost \cup PartlyReceived(Id) /\ net' = net
      /\ UNCHANGED <<vars, accepted, arrived, delivered>>
  BY DEF LinkRestart
<1>2. IInv'
  <2>1. if_enabled' \in BOOLEAN
    BY <1>1, Zenon
  <2>2. /\ mseq' \in [Rid -> RMsg \cup {NoMsg}]
        /\ \A n \in Rid : mseq'[n] = NoMsg \/ mseq'[n] = mseq[n]
    BY <1>1, PeerAssumption
  <2>3. /\ acks' \subseteq [mid: Rid, ack: Acks] /\ \A a \in acks' : a.ack = EarNack
        /\ given' \subseteq [mid: Rid, fragments: SUBSET (Part \X Payload), compressed: BOOLEAN]
    BY <1>1
  <2>4. IInv
    BY DEF LinkIInv
  <2> QED BY <2>1, <2>2, <2>3, <2>4, RemoveOK
<1>3. \A s \in Id : mseq'[s] = IF s \in Id THEN Null ELSE mseq[s]
  BY <1>1
<1>4. Id \in SUBSET Id
  OBVIOUS
<1> QED BY <1>1, <1>2, <1>3, <1>4, ForgetOK

----------------------------------------------------------------------------
(* The theorems.                                                           *)

\* Initially nothing was accepted, and nothing is on the network.
LEMMA LinkInitOK ==
    ASSUME LinkInit
    PROVE  LinkIInv /\ Abs!AInit
<1>1. /\ Init /\ mseq = [s \in Id |-> Null] /\ if_enabled = TRUE /\ acks = {} /\ given = {}
      /\ net = {} /\ accepted = [m \in Mid |-> Null] /\ arrived = [m \in Mid |-> {}]
      /\ delivered = {} /\ lost = {}
  BY DEF LinkInit
<1>2. TxIInv /\ msgs = [m \in Mid |-> Unborn] /\ LiveMids = {}
  BY <1>1, TxInitOK DEF Init, LiveMids, Alive
<1>3. ~\E s \in Id : Known(s)
  BY <1>1, PeerAssumption DEF Known
<1>4. IInv
  <2>1. if_enabled \in BOOLEAN
    BY <1>1, Zenon
  <2>2. mseq \in [Rid -> RMsg \cup {NoMsg}]
    BY <1>1, PeerAssumption
  <2>3. RxTypeOK
    BY <1>1, <2>1, <2>2 DEF RxTypeOK
  <2> QED BY <1>1, <1>3, <2>3, PeerAssumption DEF IInv, AcksOK
<1>5. AcceptedInv
  BY <1>1, <1>2 DEF AcceptedInv
<1>6. NetInv /\ SentInv /\ RecvInv
  BY <1>1, <1>2, <1>3 DEF NetInv, SentInv, RecvInv
<1>7. HistInv
  BY <1>1 DEF HistInv
<1>8. Status = [m \in Mid |-> "none"]
  BY <1>2, ReportedIs DEF Status
<1>9. Wanted = [m \in Mid |-> Abs!NoContract] /\ Remembered = {}
  BY <1>1 DEF Wanted, Agreed, Remembered, Abs!NoContract
<1>10. Abs!AInit
  BY <1>1, <1>8, <1>9 DEF Abs!AInit
<1> QED BY <1>1, <1>2, <1>4, <1>5, <1>6, <1>7, <1>10 DEF LinkIInv

\* Every step keeps the invariant and simulates a step of UtAbstract.
LEMMA LinkStepOK ==
    ASSUME LinkIInv, [LinkNext]_linkvars
    PROVE  Simulated
<1>1. CASE LinkSend
  BY <1>1, LinkSendOK
<1>2. ASSUME NEW dg \in BagToSet(lower),
             \/ dg.kind = "frag" /\ LinkFragSent(dg.mid, dg.fragno)
             \/ dg.kind = "ear" /\ LinkEarSent(dg.seqno, dg.attempts)
      PROVE  Simulated
  <2>1. dg \in Dgram
    BY DEF LinkIInv, TxIInv, Types, BagToSet
  <2>2. /\ dg.kind = "frag" => dg.mid \in Mid
        /\ dg.kind = "ear" => dg.seqno \in Id
    BY <2>1 DEF Dgram, FragDgram, EarDgram
  <2> QED BY <1>2, <2>2, LinkFragSentOK, LinkEarSentOK
<1>3. CASE LinkSender
  BY <1>3, LinkSenderOK
<1>4. ASSUME NEW dg \in net,
             \/ dg.kind = "ack" /\ LinkGotAck(dg)
             \/ dg.kind = "frag" /\ LinkGotFragment(dg)
             \/ dg.kind = "ear" /\ LinkGotEar(dg)
      PROVE  Simulated
  BY <1>4, LinkGotAckOK, LinkGotFragmentOK, LinkGotEarOK
<1>5. CASE \E s \in Id : LinkReceiver(s)
  BY <1>5, LinkReceiverOK
<1>6. CASE LinkRestart
  BY <1>6, LinkRestartOK
<1>7. CASE UNCHANGED linkvars
  <2>1. UNCHANGED <<vars, rxvars, net, accepted, history>>
    BY <1>7 DEF linkvars
  <2>2. msgs' = msgs /\ net' = net
    BY <2>1 DEF vars
  <2>3. TxIInv' /\ SenderMoves
    BY <2>1, <2>2, TxStepOK, UntouchedMoves DEF LinkIInv
  <2> QED BY <2>1, <2>2, <2>3, SenderOK
<1> QED BY <1>1, <1>2, <1>3, <1>4, <1>5, <1>6, <1>7 DEF LinkNext

\* The states of the two layers agree across the network: an ACK on its way,
\* however old, acknowledges fragments that did arrive; what is re-assembled
\* belongs to one message; what arrived of a message that was neither delivered
\* nor lost is all there.
THEOREM LinkInvariance == LinkSpec => []LinkIInv
<1>1. LinkIInv /\ [LinkNext]_linkvars => LinkIInv'
  BY LinkStepOK DEF Simulated
<1>2. LinkInit => LinkIInv
  BY LinkInitOK
<1> QED BY <1>1, <1>2, PTL DEF LinkSpec

\* The two layers and the network implement UtAbstract: whatever the network
\* loses, duplicates, delays and reorders, and wherever the receiver restarts,
\* ut_assemble_message() delivers a message only when it has all of it and
\* once as long as it remembers it, and ut_msg_free() reports a reliable
\* message as sent only when all of it arrived.
THEOREM LinkImplements == LinkSpec => Implements
<1>1. LinkIInv /\ [LinkNext]_linkvars => [Abs!ANext]_(Abs!avars)
  BY LinkStepOK DEF Simulated
<1>2. LinkInit => Abs!AInit
  BY LinkInitOK
<1> QED BY <1>1, <1>2, LinkInvariance, PTL DEF LinkSpec, Implements, Abs!ASpec
=============================================================================
