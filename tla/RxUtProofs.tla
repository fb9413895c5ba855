----------------------------- MODULE RxUtProofs -----------------------------
(***************************************************************************)
(* Proofs about the receiving layer: RxUt.                                 *)
(***************************************************************************)
EXTENDS RxUt, CollectionLemmas

----------------------------------------------------------------------------
(* What an ACK built from the set of fragments received tells the sender.  *)
(*                                                                         *)
(* The receiver fills an ACK from the set S of the fragments it has, the   *)
(* sender reads it back with the number n of fragments of the message only *)
(* (UtAck!Acknowledged).  The lemmas show that reading never yields more   *)
(* than S, the inference from the "received" count included.               *)

\* The sender accepts the ACK and learns from it about fragments of S only.
Sound(ack, n, S) ==
    /\ ~ack.ear /\ AckHeaderValid(ack)
    /\ ack.fragno < n /\ ack.received <= n
    /\ Acknowledged(ack, n) \subseteq S

\* The fragments the ACK names without its extension are in S.
Backed(ack, n, S) ==
    /\ ack \in Acks /\ ~ack.ear
    /\ ack.fragno \in S /\ ack.fragno < n
    /\ ack.cumulative => 0 .. ack.fragno \subseteq S

\* More fragments received: still sound.
LEMMA SoundMonotonic ==
    ASSUME NEW ack, NEW n, NEW S, NEW T, Sound(ack, n, S), S \subseteq T
    PROVE  Sound(ack, n, T)
BY DEF Sound

\* Plain and cumulative ACKs are sound.
LEMMA SimpleSound ==
    ASSUME NEW n \in 1 .. FragMax, NEW S, NEW ack, Backed(ack, n, S), ack.received = 0
    PROVE  Sound(ack, n, S)
<1>1. ack.fragno \in Nat /\ ack.fragno < n /\ ack.received # n /\ n \in Nat
  BY DEF Backed, Acks, Part, FragMax
<1>2. AckHeaderValid(ack) /\ ack.received <= n
  BY <1>1 DEF AckHeaderValid
<1>3. CASE AcksWholeMessage(ack, n)
  <2>1. ack.cumulative /\ ack.fragno + 1 = n
    BY <1>1, <1>3 DEF AcksWholeMessage
  <2>2. 0 .. n - 1 = 0 .. ack.fragno
    BY <1>1, <2>1
  <2>3. Acknowledged(ack, n) = 0 .. n - 1
    BY <1>3 DEF Acknowledged, Backed
  <2> QED BY <1>1, <1>2, <2>1, <2>2, <2>3 DEF Sound, Backed
<1>4. CASE ~AcksWholeMessage(ack, n)
  <2>1. Acknowledged(ack, n) = {ack.fragno} \cup
                               (IF ack.cumulative THEN 0 .. ack.fragno - 1 ELSE {})
    BY <1>4 DEF Acknowledged, Backed
  <2>2. 0 .. ack.fragno - 1 \subseteq 0 .. ack.fragno
    BY <1>1
  <2>3. Acknowledged(ack, n) \subseteq S
    BY <2>1, <2>2 DEF Backed
  <2> QED BY <1>1, <1>2, <2>3 DEF Sound, Backed
<1> QED BY <1>3, <1>4

\* The size of an interval.
LEMMA IntervalSize ==
    ASSUME NEW a \in Nat, NEW b \in Nat, a <= b
    PROVE  IsFiniteSet(a .. b - 1) /\ Cardinality(a .. b - 1) = b - a
<1>1. a \in Int /\ b - 1 \in Int
  OBVIOUS
<1>2. /\ IsFiniteSet(a .. b - 1)
      /\ Cardinality(a .. b - 1) = IF a > b - 1 THEN 0 ELSE (b - 1) - a + 1
  BY <1>1, FS_Interval
<1> QED BY <1>2

\* The size of a disjoint union.
LEMMA DisjointUnion ==
    ASSUME NEW A, NEW B, IsFiniteSet(A), IsFiniteSet(B), A \cap B = {}
    PROVE  IsFiniteSet(A \cup B) /\ Cardinality(A \cup B) = Cardinality(A) + Cardinality(B)
<1>1. /\ IsFiniteSet(A \cup B)
      /\ Cardinality(A \cup B) = Cardinality(A) + Cardinality(B) - Cardinality(A \cap B)
  BY FS_Union
<1>2. Cardinality(A \cap B) = 0
  BY FS_EmptySet
<1>3. Cardinality(A) \in Nat /\ Cardinality(B) \in Nat
  BY FS_CardinalityType
<1> QED BY <1>1, <1>2, <1>3

\* Counting: if S, a subset of 0..n-1, has as many members as there are numbers
\* below base, members of S in base..end-1, and numbers in end..n-1, then S holds
\* all of end..n-1.
LEMMA TailReceived ==
    ASSUME NEW n \in Nat, NEW base \in Nat, NEW end \in Nat, base <= end, end <= n,
           NEW S, S \subseteq 0 .. n - 1,
           Cardinality(S) = base + Cardinality(S \cap (base .. end - 1)) + (n - end)
    PROVE  end .. n - 1 \subseteq S
<1> DEFINE L == S \cap (0 .. base - 1)
           W == S \cap (base .. end - 1)
           H == S \cap (end .. n - 1)
<1>1. IsFiniteSet(0 .. base - 1) /\ Cardinality(0 .. base - 1) = base
  <2>1. 0 \in Nat /\ 0 <= base
    OBVIOUS
  <2> QED BY <2>1, IntervalSize
<1>2. IsFiniteSet(end .. n - 1) /\ Cardinality(end .. n - 1) = n - end
  BY IntervalSize
<1>3. IsFiniteSet(base .. end - 1)
  BY IntervalSize
<1>4. /\ IsFiniteSet(L) /\ Cardinality(L) <= base /\ Cardinality(L) \in Nat
  BY <1>1, FS_Subset, FS_CardinalityType
<1>5. /\ IsFiniteSet(H) /\ Cardinality(H) <= n - end /\ Cardinality(H) \in Nat
      /\ Cardinality(H) = n - end => H = end .. n - 1
  BY <1>2, FS_Subset, FS_CardinalityType
<1>6. IsFiniteSet(W) /\ Cardinality(W) \in Nat
  BY <1>3, FS_Subset, FS_CardinalityType
<1>7. S = (L \cup W) \cup H
  <2>1. 0 .. n - 1 = ((0 .. base - 1) \cup (base .. end - 1)) \cup (end .. n - 1)
    OBVIOUS
  <2> QED BY <2>1
<1>8. L \cap W = {} /\ (L \cup W) \cap H = {}
  OBVIOUS
<1> HIDE DEF L, W, H
<1>9. IsFiniteSet(L \cup W) /\ Cardinality(L \cup W) = Cardinality(L) + Cardinality(W)
  BY <1>4, <1>6, <1>8, DisjointUnion
<1>10. Cardinality(S) = Cardinality(L) + Cardinality(W) + Cardinality(H)
  <2>1. Cardinality((L \cup W) \cup H) = Cardinality(L \cup W) + Cardinality(H)
    BY <1>5, <1>8, <1>9, DisjointUnion
  <2> QED BY <1>7, <1>9, <2>1
<1>11. Cardinality(S) = base + Cardinality(W) + (n - end)
  BY DEF W
<1>12. Cardinality(H) = n - end
  BY <1>4, <1>5, <1>6, <1>10, <1>11
<1> QED BY <1>5, <1>12 DEF H

\* Extended ACKs are sound, when "received" counts S and "missing" is the
\* complement of S within the window.
LEMMA ExtendedSound ==
    ASSUME NEW n \in 1 .. FragMax, NEW S, S \subseteq 0 .. n - 1, NEW ack, Backed(ack, n, S),
           ack.received = Cardinality(S),
           ack.missing = {f - WindowBase(ack) :
                f \in (WindowBase(ack) .. WindowEnd(WindowBase(ack), n) - 1) \ S}
    PROVE  Sound(ack, n, S)
<1> DEFINE base == WindowBase(ack)
           end  == WindowEnd(base, n)
<1>1. n \in Nat /\ ack.fragno \in Nat /\ ack.fragno < n
  BY DEF Backed, Acks, Part, FragMax
<1>2. base \in Nat /\ base <= n
  BY <1>1 DEF WindowBase
<1>3. end \in Nat /\ base <= end /\ end <= n
  <2> HIDE DEF base
  <2> QED BY <1>1, <1>2, MissingBitsAssumption DEF WindowEnd
<1>4. /\ IsFiniteSet(0 .. n - 1) /\ Cardinality(0 .. n - 1) = n
  <2>1. 0 \in Nat /\ 0 <= n
    BY <1>1
  <2>2. IsFiniteSet(0 .. n - 1) /\ Cardinality(0 .. n - 1) = n - 0
    BY <1>1, <2>1, IntervalSize
  <2> QED BY <1>1, <2>2
<1>5. /\ IsFiniteSet(S) /\ Cardinality(S) <= n /\ Cardinality(S) \in Nat
      /\ Cardinality(S) = n => S = 0 .. n - 1
  BY <1>4, FS_Subset, FS_CardinalityType
<1>6. ack.cumulative => ack.fragno + 1 <= Cardinality(S)
  <2> SUFFICES ASSUME ack.cumulative PROVE ack.fragno + 1 <= Cardinality(S)
    OBVIOUS
  <2> DEFINE k == ack.fragno + 1
  <2>1. 0 \in Nat /\ k \in Nat /\ 0 <= k /\ k - 1 = ack.fragno
    BY <1>1
  <2>2. Cardinality(0 .. k - 1) = k - 0
    <3> HIDE DEF k
    <3> QED BY <2>1, IntervalSize
  <2>3. 0 .. ack.fragno \subseteq S
    BY DEF Backed
  <2>4. Cardinality(0 .. ack.fragno) <= Cardinality(S)
    BY <1>5, <2>3, FS_Subset
  <2> QED BY <1>1, <2>1, <2>2, <2>4
<1>7. AckHeaderValid(ack) /\ ack.received <= n
  BY <1>1, <1>5, <1>6 DEF AckHeaderValid, Backed
<1>8. CASE AcksWholeMessage(ack, n)
  <2>1. Acknowledged(ack, n) = 0 .. n - 1
    BY <1>8 DEF Acknowledged, Backed
  <2>2. 0 .. n - 1 \subseteq S
    <3>1. CASE ack.received = n
      BY <1>5, <3>1
    <3>2. CASE ack.cumulative /\ ack.fragno + 1 = n
      <4>1. 0 .. n - 1 = 0 .. ack.fragno
        BY <1>1, <3>2
      <4> QED BY <3>2, <4>1 DEF Backed
    <3> QED BY <1>8, <3>1, <3>2 DEF AcksWholeMessage
  <2> QED BY <1>1, <1>7, <2>1, <2>2 DEF Sound, Backed
<1>9. CASE ~AcksWholeMessage(ack, n)
  <2>1. WindowReceived(ack, n) = S \cap (base .. end - 1)
    <3>1. ASSUME NEW f \in base .. end - 1
          PROVE  f - base \notin ack.missing <=> f \in S
      <4> HIDE DEF base, end
      <4>1. ack.missing = {g - base : g \in (base .. end - 1) \ S}
        BY DEF base, end
      <4>2. ASSUME f \notin S PROVE f - base \in ack.missing
        BY <4>1, <4>2, <3>1
      <4>3. ASSUME f - base \in ack.missing PROVE f \notin S
        <5>1. PICK g \in (base .. end - 1) \ S : f - base = g - base
          BY <4>1, <4>3
        <5>2. f = g
          BY <1>2, <1>3, <3>1, <5>1
        <5> QED BY <5>1, <5>2
      <4> QED BY <4>2, <4>3
    <3>2. WindowReceived(ack, n) = {f \in base .. end - 1 : f - base \notin ack.missing}
      BY DEF WindowReceived
    <3> HIDE DEF base, end
    <3> QED BY <3>1, <3>2
  <2>2. ImpliedReceived(ack, n) \subseteq S
    <3> DEFINE frags == base + Cardinality(WindowReceived(ack, n))
    <3>1. CASE end < n /\ ack.received = frags + n - end
      <4>1. Cardinality(S) = base + Cardinality(S \cap (base .. end - 1)) + n - end
        <5> HIDE DEF base, end
        <5> QED BY <2>1, <3>1
      <4>2. IsFiniteSet(S \cap (base .. end - 1))
        BY <1>5, FS_Subset
      <4>3. Cardinality(S \cap (base .. end - 1)) \in Nat
        BY <4>2, FS_CardinalityType
      <4> HIDE DEF base, end
      <4>4. Cardinality(S) = base + Cardinality(S \cap (base .. end - 1)) + (n - end)
        BY <1>1, <1>2, <1>3, <4>1, <4>3
      <4>5. end .. n - 1 \subseteq S
        BY <1>1, <1>2, <1>3, <4>4, TailReceived
      <4> QED BY <3>1, <4>5 DEF ImpliedReceived, base, end
    <3>2. CASE ~(end < n /\ ack.received = frags + n - end)
      BY <3>2 DEF ImpliedReceived
    <3> QED BY <3>1, <3>2
  <2>3. 0 .. ack.fragno - 1 \subseteq 0 .. ack.fragno
    BY <1>1
  <2>4. Acknowledged(ack, n) \subseteq S
    <3> HIDE DEF base, end
    <3> QED BY <1>9, <2>1, <2>2, <2>3 DEF Acknowledged, Backed
  <2> QED BY <1>1, <1>7, <2>4 DEF Sound, Backed
<1> QED BY <1>8, <1>9

\* A set of fragment numbers that is not empty has a maximum, which Max()
\* yields: the last_unacked of ut_build_extra_ack() exists.
LEMMA LastFragment ==
    ASSUME NEW S, S \subseteq Part, S # {}
    PROVE  Max(S) \in S /\ \A x \in S : x <= Max(S)
<1>1. S \subseteq 0 .. 254 /\ 254 \in Nat
  BY DEF Part, FragMax
<1> QED BY <1>1, MaxProperty

----------------------------------------------------------------------------
(* The ACKs that are built fit the wire format.                            *)

\* What every routine building an ACK relies on: a fragment count and a bit
\* array that fit, a count of received fragments that fits in a byte.
Sized(um) ==
    /\ um.fragcnt \in 1 .. FragMax
    /\ um.fbits \subseteq Frags(um)
    /\ um.fragrecv \in 0 .. FragMax

\* The elementary ACKs fit the wire format.
LEMMA SimpleAckType ==
    /\ ZeroAck \in Acks
    /\ EarNack \in Acks
    /\ \A i \in Part : PlainAck(i) \in Acks /\ CumulativeAck(i) \in Acks
<1>1. ZeroAck \in Acks
  BY DEF ZeroAck, Acks, Part, FragMax
<1> QED BY <1>1 DEF EarNack, PlainAck, CumulativeAck, Acks

\* ut_cumulative_ack() yields an ACK that fits the wire format.
LEMMA CumulativeAckType ==
    ASSUME NEW um, Sized(um), NEW i \in Frags(um)
    PROVE  ut_cumulative_ack(um, i) \in Acks
<1> DEFINE missing == Frags(um) \ um.fbits
           first   == Min(missing)
<1>1. i \in Part /\ um.fragcnt - 1 \in Part
  BY DEF Sized, Frags, Part, FragMax
<1>2. CASE missing = {}
  BY <1>1, <1>2, SimpleAckType DEF ut_cumulative_ack
<1>3. CASE missing # {}
  <2>1. missing \subseteq Nat
    BY DEF Sized, Frags
  <2>2. first \in missing
    <3> HIDE DEF missing
    <3> QED BY <1>3, <2>1, MinProperty
  <2>3. first \in Part
    BY <2>2 DEF Sized, Frags, Part, FragMax
  <2> HIDE DEF missing, first
  <2>4. CASE first > i
    <3>1. first - 1 \in Part /\ (first > 1) \in BOOLEAN
      BY <1>1, <2>3, <2>4 DEF Part, FragMax
    <3>2. [ZeroAck EXCEPT !.cumulative = first > 1, !.fragno = first - 1] \in Acks
      BY <3>1, SimpleAckType DEF Acks
    <3> QED BY <1>3, <2>4, <3>2 DEF ut_cumulative_ack, missing, first
  <2>5. CASE ~(first > i)
    BY <1>1, <1>3, <2>5, SimpleAckType DEF ut_cumulative_ack, missing, first
  <2> QED BY <2>4, <2>5
<1> QED BY <1>2, <1>3

\* ut_upgrade_ack() keeps the ACK within the wire format.
LEMMA UpgradeAckType ==
    ASSUME NEW um, Sized(um), NEW ack \in Acks
    PROVE  ut_upgrade_ack(um, ack) \in Acks
<1> DEFINE base == WindowBase(ack)
           end  == WindowEnd(base, um.fragcnt)
           bits == {f - base : f \in (base .. end - 1) \ um.fbits}
<1>1. base \in Nat
  BY DEF WindowBase, Acks, Part, FragMax
<1>2. end \in Int /\ end <= base + MissingBits
  <2> HIDE DEF base
  <2> QED BY <1>1, MissingBitsAssumption DEF WindowEnd, Sized
<1>3. bits \subseteq 0 .. MissingBits - 1
  <2> HIDE DEF base, end
  <2> QED BY <1>1, <1>2, MissingBitsAssumption
<1> HIDE DEF base, end, bits
<1>4. [ack EXCEPT !.received = um.fragrecv, !.missing = bits] \in Acks
  BY <1>3 DEF Acks, Sized
<1> QED BY <1>4 DEF ut_upgrade_ack, base, end, bits

\* The ACKs of ut_build_delayed_ack() and ut_build_extra_ack() fit the wire
\* format, the latter provided a fragment was received.
LEMMA BuiltAckType ==
    ASSUME NEW um, Sized(um)
    PROVE  /\ \A i \in Frags(um) : ut_build_delayed_ack(um, i) \in Acks
           /\ um.fbits # {} /\ um.facks \subseteq Frags(um) => ut_build_extra_ack(um) \in Acks
<1>1. \A i \in Frags(um) : ut_build_delayed_ack(um, i) \in Acks
  BY CumulativeAckType, UpgradeAckType DEF ut_build_delayed_ack, BaseAck
<1>2. ASSUME um.fbits # {}, um.facks \subseteq Frags(um)
      PROVE  ut_build_extra_ack(um) \in Acks
  <2> DEFINE last == IF um.facks # {} THEN Max(um.facks) ELSE Max(um.fbits)
  <2>1. Frags(um) \subseteq Part
    BY DEF Sized, Frags, Part, FragMax
  <2>2. last \in Frags(um)
    BY <1>2, <2>1, LastFragment DEF Sized
  <2> HIDE DEF last
  <2>3. ut_upgrade_ack(um, ut_cumulative_ack(um, last)) \in Acks
    BY <2>2, CumulativeAckType, UpgradeAckType
  <2> QED BY <2>3 DEF ut_build_extra_ack, BaseAck, last
<1> QED BY <1>1, <1>2

----------------------------------------------------------------------------
(* The invariant of one message, and the routines that work on it.         *)

\* What is stored of a message.
Core(um) ==
    /\ um \in RMsg
    /\ um.fbits \subseteq Frags(um)
    /\ um.fragrecv = Cardinality(um.fbits)
    /\ um.lingering <=> um.fbits = Frags(um)
    /\ um.lingering <=> um.expire_ev = "linger"
    /\ um.lingering => um.fragments = {}
    /\ \A p \in um.fragments : p[1] \in um.fbits

\* The pending ACKs of a message are for fragments of S.
PendingOK(um, S) ==
    /\ um.facks \subseteq S
    /\ um.acks_pending = Cardinality(um.facks)
    /\ um.acks_ev <=> um.facks # {}
    /\ um.acks_ev => um.reliable /\ um.improved_acks

\* Only the state of the acknowledgments differs between um and v.
Acknowledging(um, v) ==
    v = [um EXCEPT !.facks = v.facks, !.acks_pending = v.acks_pending,
                   !.acks_ev = v.acks_ev, !.resent_acks = v.resent_acks]

\* The invariant of a message in the reception table.
MsgInv(um) == Core(um) /\ PendingOK(um, um.fbits) /\ um.fbits # {}

\* Bit arrays are finite and counted by the number of fragments at most.
LEMMA FragsFinite ==
    ASSUME NEW um, um.fragcnt \in 1 .. FragMax
    PROVE  /\ IsFiniteSet(Frags(um)) /\ Cardinality(Frags(um)) = um.fragcnt
           /\ Frags(um) \subseteq Part
           /\ \A S \in SUBSET Frags(um) :
                /\ IsFiniteSet(S) /\ Cardinality(S) \in 0 .. um.fragcnt
                /\ Cardinality(S) = um.fragcnt <=> S = Frags(um)
<1>1. IsFiniteSet(Frags(um)) /\ Cardinality(Frags(um)) = um.fragcnt
  <2>1. 0 \in Int /\ um.fragcnt - 1 \in Int /\ um.fragcnt \in Int /\ um.fragcnt >= 1
    BY DEF FragMax
  <2>2. /\ IsFiniteSet(0 .. um.fragcnt - 1)
        /\ Cardinality(0 .. um.fragcnt - 1) =
                IF 0 > um.fragcnt - 1 THEN 0 ELSE (um.fragcnt - 1) - 0 + 1
    BY <2>1, FS_Interval
  <2> QED BY <2>1, <2>2 DEF Frags
<1>2. Frags(um) \subseteq Part
  BY DEF Frags, Part, FragMax
<1>3. ASSUME NEW S \in SUBSET Frags(um)
      PROVE  /\ IsFiniteSet(S) /\ Cardinality(S) \in 0 .. um.fragcnt
             /\ Cardinality(S) = um.fragcnt <=> S = Frags(um)
  <2>1. /\ IsFiniteSet(S) /\ Cardinality(S) <= Cardinality(Frags(um))
        /\ Cardinality(Frags(um)) = Cardinality(S) => Frags(um) = S
    BY <1>1, FS_Subset
  <2>2. Cardinality(S) \in Nat
    BY <2>1, FS_CardinalityType
  <2> QED BY <1>1, <2>1, <2>2 DEF FragMax
<1> QED BY <1>1, <1>2, <1>3

\* A message whose acknowledgment state alone changed keeps what is stored.
LEMMA CoreKept ==
    ASSUME NEW um, Core(um), NEW v, Acknowledging(um, v),
           v.facks \subseteq Part, v.acks_pending \in 0 .. FragMax,
           v.acks_ev \in BOOLEAN, v.resent_acks \in 0 .. ResentMod - 1
    PROVE  Core(v) /\ Frags(v) = Frags(um)
<1>1. v \in RMsg
  BY DEF Core, RMsg, Acknowledging
<1>2. /\ v.fragcnt = um.fragcnt /\ v.fbits = um.fbits /\ v.fragrecv = um.fragrecv
      /\ v.lingering = um.lingering /\ v.expire_ev = um.expire_ev
      /\ v.fragments = um.fragments
  BY DEF Core, RMsg, Acknowledging
<1> QED BY <1>1, <1>2 DEF Core, Frags

\* ut_rmsg_clear_acks() after the cancellation of the timer.
LEMMA ClearAcks ==
    ASSUME NEW um, Core(um), NEW v, NEW S,
           v = ut_rmsg_clear_acks([um EXCEPT !.acks_ev = FALSE])
    PROVE  Core(v) /\ PendingOK(v, S) /\ Acknowledging(um, v)
<1>1. /\ v.facks = {} /\ v.acks_pending = 0 /\ v.acks_ev = FALSE
      /\ v.resent_acks = um.resent_acks /\ Acknowledging(um, v)
  BY DEF ut_rmsg_clear_acks, Core, RMsg, Acknowledging
<1>2. um.resent_acks \in 0 .. ResentMod - 1
  BY DEF Core, RMsg
<1>3. v.facks \subseteq Part /\ v.acks_ev \in BOOLEAN
  BY <1>1, Zenon
<1>4. v.acks_pending \in 0 .. FragMax /\ v.resent_acks \in 0 .. ResentMod - 1
  BY <1>1, <1>2 DEF FragMax
<1>5. Core(v)
  BY <1>1, <1>3, <1>4, CoreKept
<1> QED BY <1>1, <1>5, FS_EmptySet DEF PendingOK

\* A fragment joins the pending ACKs, which are counted exactly.
LEMMA PendingAckOK ==
    ASSUME NEW um, Core(um), PendingOK(um, um.fbits), NEW part \in Frags(um),
           NEW v, v = PendingAck(um, part)
    PROVE  /\ Core(v) /\ Acknowledging(um, v)
           /\ v.facks = um.facks \cup {part} /\ v.acks_ev = um.acks_ev
           /\ v.acks_pending = Cardinality(v.facks)
<1>1. um \in RMsg /\ um.fragcnt \in 1 .. FragMax
  BY DEF Core, RMsg
<1>2. /\ v.facks = um.facks \cup {part} /\ v.acks_ev = um.acks_ev
      /\ v.resent_acks = um.resent_acks
      /\ v.acks_pending = IF part \in um.facks THEN um.acks_pending ELSE um.acks_pending + 1
      /\ Acknowledging(um, v)
  BY <1>1 DEF PendingAck, RMsg, Acknowledging
<1>3. um.facks \subseteq Frags(um) /\ v.facks \subseteq Frags(um)
  BY <1>2 DEF Core, PendingOK
<1>4. v.acks_pending = Cardinality(v.facks)
  BY <1>1, <1>2, <1>3, FragsFinite, FS_AddElement DEF PendingOK
<1>5. v.acks_pending \in 0 .. FragMax /\ v.facks \subseteq Part
  BY <1>1, <1>3, <1>4, FragsFinite DEF FragMax
<1>6. v.acks_ev \in BOOLEAN /\ v.resent_acks \in 0 .. ResentMod - 1
  BY <1>1, <1>2 DEF RMsg
<1> QED BY <1>2, <1>4, <1>5, <1>6, CoreKept

\* What a routine that acknowledges fragments of message um may do: r.um differs
\* by its pending ACKs only, which are for fragments of S, and r.acks are for those too.
Acked(um, r, S) ==
    /\ Core(r.um) /\ Acknowledging(um, r.um) /\ PendingOK(r.um, S)
    /\ \A a \in r.acks : a \in Acks /\ Sound(a, um.fragcnt, S)

\* A message that is stored properly meets the needs of the ACK routines.
LEMMA CoreSized ==
    ASSUME NEW um, Core(um)
    PROVE  Sized(um)
<1>1. um \in RMsg
  BY DEF Core
<1>2. um.fragcnt \in 1 .. FragMax /\ um.fragrecv \in 0 .. FragMax
  BY <1>1 DEF RMsg
<1> QED BY <1>2 DEF Core, Sized

\* ut_cumulative_ack() names fragments that were received only.
LEMMA BaseBacked ==
    ASSUME NEW um, Core(um), NEW i \in um.fbits, NEW ack, ack = ut_cumulative_ack(um, i)
    PROVE  Backed(ack, um.fragcnt, um.fbits) /\ ack.received = 0
<1> DEFINE missing == Frags(um) \ um.fbits
           first   == Min(missing)
<1>1. /\ Sized(um) /\ um.fragcnt \in 1 .. FragMax /\ um.fbits \subseteq Frags(um)
      /\ i \in Frags(um)
  BY CoreSized DEF Core, Sized
<1>2. ack \in Acks
  BY <1>1, CumulativeAckType
<1>3. i \in Nat /\ i < um.fragcnt /\ um.fragcnt \in Nat /\ um.fragcnt >= 1
  BY <1>1 DEF Frags, FragMax
<1>4. CASE missing = {}
  <2>1. ack = CumulativeAck(um.fragcnt - 1)
    BY <1>4 DEF ut_cumulative_ack
  <2>2. /\ ack.fragno = um.fragcnt - 1 /\ ack.ear = FALSE /\ ack.received = 0
    BY <2>1 DEF CumulativeAck, ZeroAck
  <2>3. um.fbits = 0 .. um.fragcnt - 1
    BY <1>1, <1>4 DEF Frags
  <2>4. um.fragcnt - 1 \in um.fbits /\ um.fragcnt - 1 < um.fragcnt
    BY <1>3, <2>3
  <2> QED BY <1>2, <2>2, <2>3, <2>4 DEF Backed
<1>5. CASE missing # {} /\ first > i
  <2>1. ack = [ZeroAck EXCEPT !.cumulative = first > 1, !.fragno = first - 1]
    BY <1>5 DEF ut_cumulative_ack
  <2>2. /\ ack.fragno = first - 1 /\ ack.ear = FALSE /\ ack.received = 0
    BY <2>1 DEF ZeroAck
  <2>3. missing \subseteq Nat
    BY <1>3 DEF Frags
  <2>4. first \in missing /\ \A f \in missing : first <= f
    <3> HIDE DEF missing
    <3> QED BY <1>5, <2>3, MinProperty
  <2>5. first \in Nat /\ first < um.fragcnt /\ first >= 1
    BY <1>3, <1>5, <2>4 DEF Frags
  <2>6. ASSUME NEW f \in 0 .. first - 1 PROVE f \in um.fbits
    <3>1. f \in Frags(um) /\ ~(first <= f)
      <4> HIDE DEF first
      <4> QED BY <1>3, <2>5 DEF Frags
    <3> QED BY <2>4, <3>1
  <2> HIDE DEF first
  <2>7. first - 1 \in um.fbits /\ first - 1 < um.fragcnt
    BY <1>3, <2>5, <2>6
  <2> QED BY <1>2, <2>2, <2>6, <2>7 DEF Backed
<1>6. CASE missing # {} /\ ~(first > i)
  <2>1. ack = PlainAck(i)
    BY <1>6 DEF ut_cumulative_ack
  <2>2. /\ ack.fragno = i /\ ack.ear = FALSE /\ ack.received = 0
        /\ ack.cumulative = FALSE
    BY <2>1 DEF PlainAck, ZeroAck
  <2> QED BY <1>2, <1>3, <2>2 DEF Backed
<1> QED BY <1>4, <1>5, <1>6

\* ut_upgrade_ack() makes sound ACKs, extended or not.
LEMMA UpgradeSound ==
    ASSUME NEW um, Core(um), NEW ack, Backed(ack, um.fragcnt, um.fbits), ack.received = 0
    PROVE  Sound(ut_upgrade_ack(um, ack), um.fragcnt, um.fbits)
<1> DEFINE n    == um.fragcnt
           base == WindowBase(ack)
           end  == WindowEnd(base, n)
           bits == {f - base : f \in (base .. end - 1) \ um.fbits}
           x    == [ack EXCEPT !.received = um.fragrecv, !.missing = bits]
<1>1. n \in 1 .. FragMax /\ um.fbits \subseteq 0 .. n - 1 /\ Sized(um)
  BY CoreSized DEF Core, Sized, Frags
<1>2. CASE ~Extendable(um, ack)
  <2>1. ut_upgrade_ack(um, ack) = ack
    BY <1>2 DEF ut_upgrade_ack
  <2> QED BY <1>1, <2>1, SimpleSound
<1>3. CASE Extendable(um, ack)
  <2>1. ack \in Acks
    BY DEF Backed
  <2> HIDE DEF base, end, bits
  <2>2. /\ x.ear = ack.ear /\ x.cumulative = ack.cumulative /\ x.fragno = ack.fragno
        /\ x.received = um.fragrecv /\ x.missing = bits
    BY <2>1 DEF Acks
  <2>3. ut_upgrade_ack(um, ack) = x
    BY <1>3 DEF ut_upgrade_ack, base, end, bits
  <2>4. x \in Acks
    BY <1>1, <2>1, <2>3, UpgradeAckType
  <2> HIDE DEF x
  <2>5. Backed(x, n, um.fbits)
    BY <2>2, <2>4 DEF Backed
  <2>6. WindowBase(x) = base
    BY <2>2 DEF WindowBase, base
  <2>7. x.received = Cardinality(um.fbits)
    BY <2>2 DEF Core
  <2>8. x.missing = {f - WindowBase(x) :
            f \in (WindowBase(x) .. WindowEnd(WindowBase(x), n) - 1) \ um.fbits}
    BY <2>2, <2>6 DEF bits, end
  <2> HIDE DEF n
  <2>9. Sound(x, n, um.fbits)
    BY <1>1, <2>5, <2>7, <2>8, ExtendedSound
  <2> QED BY <2>3, <2>9 DEF n
<1> QED BY <1>2, <1>3

\* The ACKs of ut_build_delayed_ack() and ut_build_extra_ack() are sound.
LEMMA BuiltAckSound ==
    ASSUME NEW um, Core(um)
    PROVE  /\ \A i \in um.fbits :
                Sound(ut_build_delayed_ack(um, i), um.fragcnt, um.fbits)
           /\ um.fbits # {} /\ um.facks \subseteq um.fbits =>
                Sound(ut_build_extra_ack(um), um.fragcnt, um.fbits)
<1>1. ASSUME NEW i \in um.fbits
      PROVE  Sound(ut_upgrade_ack(um, ut_cumulative_ack(um, i)), um.fragcnt, um.fbits)
  BY BaseBacked, UpgradeSound
<1>2. ASSUME um.fbits # {}, um.facks \subseteq um.fbits
      PROVE  Sound(ut_build_extra_ack(um), um.fragcnt, um.fbits)
  <2> DEFINE last == IF um.facks # {} THEN Max(um.facks) ELSE Max(um.fbits)
  <2>1. um.fbits \subseteq Part
    BY DEF Core, RMsg
  <2>2. last \in um.fbits
    BY <1>2, <2>1, LastFragment
  <2> HIDE DEF last
  <2>3. Sound(ut_upgrade_ack(um, ut_cumulative_ack(um, last)), um.fragcnt, um.fbits)
    BY <1>1, <2>2
  <2> QED BY <2>3 DEF ut_build_extra_ack, BaseAck, last
<1> QED BY <1>1, <1>2 DEF ut_build_delayed_ack, BaseAck

\* ut_rmsg_reack_improved() and ut_delayed_ack() leave no ACK pending.
LEMMA FlushAcks ==
    ASSUME NEW um, Core(um), um.facks \subseteq um.fbits, NEW S, um.fbits \subseteq S
    PROVE  /\ um.fbits # {} => Acked(um, ut_rmsg_reack_improved(um), S)
           /\ Acked(um, ut_delayed_ack(um), S)
<1> DEFINE v == ut_rmsg_clear_acks([um EXCEPT !.acks_ev = FALSE])
<1>1. Core(v) /\ PendingOK(v, S) /\ Acknowledging(um, v)
  <2> HIDE DEF v
  <2>1. v = ut_rmsg_clear_acks([um EXCEPT !.acks_ev = FALSE])
    BY DEF v
  <2> QED BY <2>1, ClearAcks
<1>2. Sized(um) /\ um.fbits \subseteq Frags(um)
  BY CoreSized DEF Core
<1> HIDE DEF v
<1>3. ASSUME um.fbits # {} PROVE Acked(um, ut_rmsg_reack_improved(um), S)
  <2> DEFINE a == ut_build_extra_ack(um)
  <2>1. a \in Acks
    BY <1>2, <1>3, BuiltAckType
  <2>2. Sound(a, um.fragcnt, S)
    BY <1>3, BuiltAckSound, SoundMonotonic
  <2> HIDE DEF a
  <2>3. ut_rmsg_reack_improved(um) = [um |-> v, acks |-> {a}]
    BY DEF ut_rmsg_reack_improved, v, a
  <2> QED BY <1>1, <2>1, <2>2, <2>3 DEF Acked
<1>4. \A i \in um.facks : /\ ut_build_delayed_ack(um, i) \in Acks
                          /\ Sound(ut_build_delayed_ack(um, i), um.fragcnt, S)
  <2> TAKE i \in um.facks
  <2>1. i \in um.fbits /\ i \in Frags(um)
    BY <1>2
  <2> QED BY <1>2, <2>1, BuiltAckType, BuiltAckSound, SoundMonotonic
<1>5. Acked(um, ut_delayed_ack(um), S)
  BY <1>1, <1>4 DEF ut_delayed_ack, Acked, v
<1> QED BY <1>3, <1>5

\* An ACK for one fragment that was received is sound.
LEMMA PlainSound ==
    ASSUME NEW n \in 1 .. FragMax, NEW S, NEW i \in S, i \in 0 .. n - 1
    PROVE  PlainAck(i) \in Acks /\ Sound(PlainAck(i), n, S)
<1>1. i \in Part /\ i < n
  BY DEF Part, FragMax
<1>2. PlainAck(i) \in Acks
  BY <1>1, SimpleAckType
<1>3. /\ PlainAck(i).ear = FALSE /\ PlainAck(i).fragno = i
      /\ PlainAck(i).cumulative = FALSE /\ PlainAck(i).received = 0
  BY DEF PlainAck, ZeroAck
<1>4. Backed(PlainAck(i), n, S)
  BY <1>1, <1>2, <1>3 DEF Backed
<1> QED BY <1>2, <1>3, <1>4, SimpleSound

\* The full re-ACK leaves the pending ACKs alone.
LEMMA FullReack ==
    ASSUME NEW um, Core(um), NEW S, PendingOK(um, S), um.fbits \subseteq S
    PROVE  Acked(um, ReackEachFragment(um), S)
<1> DEFINE n == (um.resent_acks + Cardinality(um.fbits)) % ResentMod
           v == [um EXCEPT !.resent_acks = n]
<1>1. um \in RMsg /\ um.fragcnt \in 1 .. FragMax /\ um.fbits \subseteq Frags(um)
  BY DEF Core, RMsg
<1>2. um.resent_acks \in Nat /\ Cardinality(um.fbits) \in Nat
  <2>1. um.resent_acks \in 0 .. ResentMod - 1
    BY <1>1 DEF RMsg
  <2>2. Cardinality(um.fbits) \in 0 .. um.fragcnt
    BY <1>1, FragsFinite
  <2> QED BY <2>1, <2>2
<1>3. n \in 0 .. ResentMod - 1
  BY <1>2, ResentAssumption
<1> HIDE DEF n
<1>4. /\ v.resent_acks = n /\ v.facks = um.facks /\ v.acks_ev = um.acks_ev
      /\ v.acks_pending = um.acks_pending /\ v.reliable = um.reliable
      /\ v.improved_acks = um.improved_acks
      /\ Acknowledging(um, v)
  BY <1>1 DEF RMsg, Acknowledging
<1> HIDE DEF v
<1>5. /\ um.facks \subseteq Part /\ um.acks_pending \in 0 .. FragMax
      /\ um.acks_ev \in BOOLEAN
  BY <1>1 DEF RMsg
<1>6. Core(v)
  BY <1>3, <1>4, <1>5, CoreKept
<1>7. PendingOK(v, S)
  BY <1>4 DEF PendingOK
<1>8. \A i \in um.fbits : PlainAck(i) \in Acks /\ Sound(PlainAck(i), um.fragcnt, S)
  <2> TAKE i \in um.fbits
  <2>1. i \in S /\ i \in 0 .. um.fragcnt - 1
    BY <1>1 DEF Frags
  <2> QED BY <1>1, <2>1, PlainSound
<1> QED BY <1>4, <1>6, <1>7, <1>8 DEF ReackEachFragment, Acked, v, n

\* ut_rmsg_reack(): the pending ACKs are either flushed or left alone.
LEMMA Reack ==
    ASSUME NEW um, Core(um), um.fbits # {}, um.facks \subseteq um.fbits,
           NEW S, um.fbits \subseteq S, um.improved_acks \/ PendingOK(um, S), NEW reason
    PROVE  Acked(um, ut_rmsg_reack(um, reason), S)
<1>1. CASE um.improved_acks
  BY <1>1, FlushAcks DEF ut_rmsg_reack
<1>2. CASE ~um.improved_acks /\ (reason = "almost" \/ um.resent_acks < 2 * um.fragcnt)
  BY <1>2, FullReack DEF ut_rmsg_reack
<1>3. CASE ~um.improved_acks /\ ~(reason = "almost" \/ um.resent_acks < 2 * um.fragcnt)
  <2>1. um = [um EXCEPT !.facks = um.facks, !.acks_pending = um.acks_pending,
                   !.acks_ev = um.acks_ev, !.resent_acks = um.resent_acks]
    BY DEF Core, RMsg
  <2>2. ut_rmsg_reack(um, reason) = [um |-> um, acks |-> {}]
    BY <1>3 DEF ut_rmsg_reack
  <2> QED BY <1>3, <2>1, <2>2 DEF Acked, Acknowledging
<1> QED BY <1>1, <1>2, <1>3

\* ut_acknowledge_fragment(): afterwards the pending ACKs are for fragments
\* that are received once the fragment at hand is counted.
LEMMA AckFragment ==
    ASSUME NEW um, Core(um), PendingOK(um, um.fbits), NEW part \in Frags(um),
           um.reliable
    PROVE  Acked(um, ut_acknowledge_fragment(um, part), um.fbits \cup {part})
<1> DEFINE S == um.fbits \cup {part}
           duplicate == part \in um.fbits
           improved  == um.improved_acks /\ um.fragcnt > 1
           all       == um.fragrecv + (IF duplicate THEN 0 ELSE 1) = um.fragcnt
           pending   == PendingAck(um, part)
           r         == ut_acknowledge_fragment(um, part)
<1>1. um \in RMsg /\ um.fragcnt \in 1 .. FragMax /\ um.fbits \subseteq Frags(um)
  BY DEF Core, RMsg
<1>2. /\ Core(pending) /\ Acknowledging(um, pending)
      /\ pending.facks = um.facks \cup {part} /\ pending.acks_ev = um.acks_ev
      /\ pending.acks_pending = Cardinality(pending.facks)
  BY PendingAckOK
<1>3. /\ pending.fragcnt = um.fragcnt /\ pending.fbits = um.fbits
      /\ pending.improved_acks = um.improved_acks /\ pending.reliable = um.reliable
  BY <1>1, <1>2 DEF Acknowledging, RMsg
<1>4. um.facks \subseteq S /\ PendingOK(um, S)
  BY DEF PendingOK
<1>5. /\ um.facks \subseteq um.fbits /\ um.fbits \subseteq S
      /\ duplicate => pending.facks \subseteq pending.fbits
  BY <1>2, <1>3 DEF PendingOK
<1> HIDE DEF pending
<1>6. ASSUME NEW q, Acked(pending, q, S) PROVE Acked(um, q, S)
  <2>1. Acknowledging(um, q.um)
    BY <1>1, <1>2, <1>6 DEF Acked, Acknowledging, RMsg
  <2> QED BY <1>3, <1>6, <2>1 DEF Acked
<1>7. CASE improved /\ all
  <2> DEFINE v == ut_rmsg_clear_acks([um EXCEPT !.acks_ev = FALSE])
  <2>1. Core(v) /\ PendingOK(v, S) /\ Acknowledging(um, v)
    <3>1. v = ut_rmsg_clear_acks([um EXCEPT !.acks_ev = FALSE])
      OBVIOUS
    <3> HIDE DEF v
    <3> QED BY <3>1, ClearAcks
  <2>2. um.fragcnt - 1 \in Part
    BY <1>1 DEF Part, FragMax
  <2> DEFINE a == CumulativeAck(um.fragcnt - 1)
  <2>3. a \in Acks /\ Sound(a, um.fragcnt, S)
    <3>1. a \in Acks
      BY <2>2, SimpleAckType
    <3>2. a.ear = FALSE /\ a.received = 0 /\ a.fragno = um.fragcnt - 1
      BY DEF CumulativeAck, ZeroAck
    <3>3. S \subseteq Frags(um) /\ IsFiniteSet(um.fbits)
      BY <1>1, FragsFinite
    <3>4. Cardinality(S) = um.fragrecv + (IF duplicate THEN 0 ELSE 1)
      <4>1. Cardinality(S) = IF duplicate THEN Cardinality(um.fbits)
                                          ELSE Cardinality(um.fbits) + 1
        BY <3>3, FS_AddElement
      <4>2. Cardinality(um.fbits) = um.fragrecv /\ um.fragrecv \in Nat
        BY <1>1, <3>3, FS_CardinalityType DEF Core
      <4> QED BY <4>1, <4>2
    <3>5. S = Frags(um)
      BY <1>1, <1>7, <3>3, <3>4, FragsFinite
    <3> HIDE DEF a, S
    <3>6. S = 0 .. um.fragcnt - 1
      BY <3>5 DEF Frags
    <3>7. um.fragcnt - 1 \in 0 .. um.fragcnt - 1 /\ um.fragcnt - 1 < um.fragcnt
      BY <1>1 DEF FragMax
    <3>8. Backed(a, um.fragcnt, S)
      BY <3>1, <3>2, <3>6, <3>7 DEF Backed
    <3> QED BY <1>1, <3>1, <3>2, <3>8, SimpleSound
  <2> HIDE DEF v
  <2>4. r = [um |-> v, acks |-> {CumulativeAck(um.fragcnt - 1)}]
    BY <1>7 DEF ut_acknowledge_fragment, v
  <2> QED BY <2>1, <2>3, <2>4 DEF Acked
<1>8. CASE improved /\ ~all /\ ~duplicate
  <2> DEFINE v == [pending EXCEPT !.acks_ev = TRUE]
  <2>1. pending \in RMsg
    BY <1>2 DEF Core
  <2>2. /\ v.facks = pending.facks /\ v.acks_pending = pending.acks_pending
        /\ v.acks_ev = TRUE /\ v.resent_acks = pending.resent_acks
        /\ v.reliable = um.reliable /\ v.improved_acks = um.improved_acks
        /\ Acknowledging(pending, v) /\ Acknowledging(um, v)
    BY <1>1, <1>2, <1>3, <2>1 DEF Acknowledging, RMsg
  <2>3. /\ v.facks \subseteq Part /\ v.acks_pending \in 0 .. FragMax
        /\ v.resent_acks \in 0 .. ResentMod - 1
    BY <2>1, <2>2 DEF RMsg
  <2>4. v.acks_ev \in BOOLEAN
    BY <2>2, Zenon
  <2> HIDE DEF v
  <2>5. Core(v)
    BY <1>2, <2>2, <2>3, <2>4, CoreKept
  <2>6. PendingOK(v, S)
    BY <1>2, <1>4, <1>8, <2>2 DEF PendingOK
  <2>7. r = [um |-> v, acks |-> {}]
    BY <1>8 DEF ut_acknowledge_fragment, v, pending
  <2> QED BY <2>2, <2>5, <2>6, <2>7 DEF Acked
<1>9. CASE improved /\ ~all /\ duplicate /\ um.acks_ev
  <2>1. r = ut_delayed_ack(pending)
    BY <1>9 DEF ut_acknowledge_fragment, pending
  <2> QED BY <1>2, <1>3, <1>5, <1>6, <1>9, <2>1, FlushAcks
<1>10. CASE improved /\ ~all /\ duplicate /\ ~um.acks_ev
  <2>1. r = ut_rmsg_reack(pending, "dup")
    BY <1>10 DEF ut_acknowledge_fragment, pending
  <2>2. pending.fbits # {} /\ pending.improved_acks
    BY <1>3, <1>10
  <2> QED BY <1>2, <1>3, <1>5, <1>6, <1>10, <2>1, <2>2, Reack
<1>11. CASE ~improved /\ duplicate
  <2>1. r = ut_rmsg_reack(um, "dup")
    BY <1>11 DEF ut_acknowledge_fragment
  <2>2. um.fbits # {}
    BY <1>11
  <2> QED BY <1>4, <1>5, <2>1, <2>2, Reack
<1>12. CASE ~improved /\ ~duplicate
  <2>1. r = [um |-> um, acks |-> {PlainAck(part)}]
    BY <1>12 DEF ut_acknowledge_fragment
  <2>2. Acknowledging(um, um)
    BY <1>1 DEF Acknowledging, RMsg
  <2>3. part \in S /\ part \in 0 .. um.fragcnt - 1
    BY DEF Frags
  <2>4. PlainAck(part) \in Acks /\ Sound(PlainAck(part), um.fragcnt, S)
    BY <1>1, <2>3, PlainSound
  <2> QED BY <1>4, <2>1, <2>2, <2>4 DEF Acked
<1> QED BY <1>7, <1>8, <1>9, <1>10, <1>11, <1>12

\* ut_handle_fragment(): the fragment is counted, and the invariant of the
\* message is restored.
LEMMA HandleFragment ==
    ASSUME NEW um, Core(um), NEW part \in Frags(um), NEW data \in Payload,
           PendingOK(um, um.fbits \cup {part})
    PROVE  /\ MsgInv(ut_handle_fragment(um, part, data))
           /\ ut_handle_fragment(um, part, data).fbits = um.fbits \cup {part}
           /\ ut_handle_fragment(um, part, data).fragcnt = um.fragcnt
<1> DEFINE v == StoreFragment(um, part, data)
<1>1. um \in RMsg /\ um.fragcnt \in 1 .. FragMax /\ um.fbits \subseteq Frags(um)
  BY DEF Core, RMsg
<1>2. CASE part \in um.fbits
  <2>1. um.fbits \cup {part} = um.fbits /\ um.fbits # {}
    BY <1>2
  <2> QED BY <1>2, <2>1 DEF ut_handle_fragment, MsgInv
<1>3. CASE part \notin um.fbits
  <2>1. ~um.lingering /\ um.expire_ev # "linger"
    BY <1>3 DEF Core
  <2>2. um.fbits \cup {part} \subseteq Frags(um)
    BY <1>1
  <2>3. IsFiniteSet(um.fbits)
    BY <1>1, FragsFinite
  <2>4. Cardinality(um.fbits \cup {part}) = Cardinality(um.fbits) + 1
    BY <1>3, <2>3, FS_AddElement
  <2>5. /\ Cardinality(um.fbits \cup {part}) \in 0 .. um.fragcnt
        /\ Cardinality(um.fbits \cup {part}) = um.fragcnt
                <=> um.fbits \cup {part} = Frags(um)
    BY <1>1, <2>2, FragsFinite
  <2>6. part \in Part
    BY <1>1, FragsFinite
  <2>7. /\ v.fbits = um.fbits \cup {part} /\ v.fragrecv = um.fragrecv + 1
        /\ v.fragments = IF data = Empty THEN um.fragments
                                         ELSE um.fragments \cup {<<part, data>>}
        /\ v.fragcnt = um.fragcnt /\ v.lingering = um.lingering
        /\ v.expire_ev = um.expire_ev /\ v.facks = um.facks
        /\ v.acks_pending = um.acks_pending /\ v.acks_ev = um.acks_ev
        /\ v.reliable = um.reliable /\ v.improved_acks = um.improved_acks
    BY <1>1 DEF StoreFragment, RMsg
  <2>8. v.fragrecv = Cardinality(v.fbits) /\ v.fragrecv \in 0 .. FragMax
    BY <1>1, <2>4, <2>5, <2>7 DEF Core, FragMax
  <2>9. v.fbits \subseteq Part
    BY <1>1, <2>2, <2>7, FragsFinite
  <2>10. v.fragments \subseteq Part \X Payload
    <3>1. um.fragments \subseteq Part \X Payload
      BY <1>1 DEF RMsg
    <3> QED BY <2>6, <2>7, <3>1
  <2>11. v \in RMsg
    <3> DEFINE f == v.fbits
               n == v.fragrecv
               g == v.fragments
    <3>1. v = [um EXCEPT !.fbits = f, !.fragrecv = n, !.fragments = g]
      BY <1>1, <2>7 DEF StoreFragment, RMsg
    <3>2. f \subseteq Part /\ n \in 0 .. FragMax /\ g \subseteq Part \X Payload
      BY <2>8, <2>9, <2>10
    <3> HIDE DEF f, n, g, v
    <3> QED BY <1>1, <3>1, <3>2 DEF RMsg
  <2>12. \A p \in v.fragments : p[1] \in v.fbits
    <3> TAKE p \in v.fragments
    <3>1. p \in um.fragments \/ p = <<part, data>>
      BY <2>7
    <3>2. p \in um.fragments => p[1] \in um.fbits
      BY DEF Core
    <3> QED BY <2>7, <3>1, <3>2
  <2>13. PendingOK(v, v.fbits) /\ v.fbits # {}
    BY <2>7 DEF PendingOK
  <2>14. v.fragrecv = um.fragcnt <=> v.fbits = Frags(v)
    BY <2>5, <2>7, <2>8 DEF Frags
  <2>15. v.fbits \subseteq Frags(v)
    BY <2>2, <2>7 DEF Frags
  <2> HIDE DEF v
  <2>16. CASE v.fragrecv # um.fragcnt
    <3>1. ut_handle_fragment(um, part, data) = v
      BY <1>3, <2>1, <2>16 DEF ut_handle_fragment, v
    <3>2. Core(v)
      BY <2>1, <2>7, <2>8, <2>11, <2>12, <2>14, <2>15, <2>16 DEF Core
    <3> QED BY <2>7, <2>13, <3>1, <3>2 DEF MsgInv
  <2>17. CASE v.fragrecv = um.fragcnt
    <3> DEFINE w == ut_rmsg_linger(v)
    <3>1. ut_handle_fragment(um, part, data) = w
      BY <1>3, <2>1, <2>17 DEF ut_handle_fragment, v
    <3>2. /\ w.fragments = {} /\ w.lingering = TRUE /\ w.expire_ev = "linger"
          /\ w.fbits = v.fbits /\ w.fragrecv = v.fragrecv /\ w.fragcnt = v.fragcnt
          /\ w.facks = v.facks /\ w.acks_pending = v.acks_pending
          /\ w.acks_ev = v.acks_ev /\ w.reliable = v.reliable
          /\ w.improved_acks = v.improved_acks
      BY <2>11 DEF ut_rmsg_linger, RMsg
    <3>3. w \in RMsg
      BY <2>11 DEF ut_rmsg_linger, RMsg
    <3> HIDE DEF w
    <3>4. Frags(w) = Frags(v) /\ w.fbits = Frags(w)
      BY <2>14, <2>17, <3>2 DEF Frags
    <3>5. Core(w)
      BY <2>8, <3>2, <3>3, <3>4 DEF Core
    <3>6. PendingOK(w, w.fbits) /\ w.fbits # {}
      BY <2>13, <3>2 DEF PendingOK
    <3> QED BY <2>7, <3>1, <3>2, <3>5, <3>6 DEF MsgInv
  <2> QED BY <2>16, <2>17
<1> QED BY <1>2, <1>3

\* ut_rmsg_create() yields a message that is stored properly.
LEMMA CreateOK ==
    ASSUME NEW h \in Headers, NEW v, v = ut_rmsg_create(h)
    PROVE  /\ Core(v) /\ PendingOK(v, v.fbits) /\ v.reliable = h.ackme
           /\ v.fragcnt = h.count
<1>1. /\ h.count \in 1 .. FragMax /\ h.ackme \in BOOLEAN
      /\ h.deflated \in BOOLEAN /\ h.improved \in BOOLEAN
  BY HeadersAssumption
<1>2. (NativeImproved \/ h.improved) \in BOOLEAN
  BY Zenon
<1>3. 0 \in 0 .. ResentMod - 1 /\ 0 \in 0 .. FragMax
  BY ResentAssumption DEF FragMax
<1>4. /\ v.fbits = {} /\ v.facks = {} /\ v.fragments = {} /\ v.fragrecv = 0
      /\ v.acks_pending = 0 /\ v.lingering = FALSE /\ v.expire_ev = "almost"
      /\ v.acks_ev = FALSE /\ v.fragcnt = h.count /\ v.reliable = h.ackme
  BY DEF ut_rmsg_create
<1>5. v \in RMsg
  BY <1>1, <1>2, <1>3 DEF ut_rmsg_create, RMsg
<1>6. 0 \in Frags(v)
  BY <1>1, <1>4 DEF Frags, FragMax
<1>7. Core(v)
  BY <1>4, <1>5, <1>6, FS_EmptySet DEF Core
<1> QED BY <1>4, <1>7, FS_EmptySet DEF PendingOK

----------------------------------------------------------------------------
(* The inductive invariant of the layer.                                   *)

\* The ACKs just sent are sound for the fragments that were received.
AcksOK ==
    \A a \in acks :
        /\ a.ack.ear => AckHeaderValid(a.ack)
        /\ ~a.ack.ear => /\ Known(a.mid)
                         /\ Sound(a.ack, mseq[a.mid].fragcnt, mseq[a.mid].fbits)

\* The types, the invariant of each message of the reception table, and the
\* soundness of the ACKs.
IInv ==
    /\ RxTypeOK
    /\ \A m \in Rid : Known(m) => MsgInv(mseq[m])
    /\ AcksOK

\* Leaving message m as a proper message, with ACKs that fit, and giving
\* messages that fit, preserves the invariant.
LEMMA RespondOK ==
    ASSUME IInv, NEW m \in Rid, NEW r, Respond(m, r), MsgInv(r.um),
           \A a \in r.acks : a \in Acks /\ Sound(a, r.um.fragcnt, r.um.fbits),
           UNCHANGED if_enabled,
           given' \subseteq [mid: Rid, fragments: SUBSET (Part \X Payload), compressed: BOOLEAN]
    PROVE  IInv'
<1>1. mseq \in [Rid -> RMsg \cup {NoMsg}] /\ if_enabled \in BOOLEAN
  BY DEF IInv, RxTypeOK
<1>2. r.um \in RMsg
  BY DEF MsgInv, Core
<1>3. mseq' = [mseq EXCEPT ![m] = r.um]
  BY DEF Respond
<1>4. mseq' \in [Rid -> RMsg \cup {NoMsg}]
  BY <1>1, <1>2, <1>3
<1>5. acks' \subseteq [mid: Rid, ack: Acks]
  BY DEF Respond, Send
<1>6. if_enabled' \in BOOLEAN
  BY <1>1
<1>7. RxTypeOK'
  BY <1>4, <1>5, <1>6 DEF RxTypeOK
<1>8. \A n \in Rid : mseq'[n] = IF n = m THEN r.um ELSE mseq[n]
  BY <1>1, <1>3
<1>9. ASSUME NEW n \in Rid, mseq'[n] # NoMsg PROVE MsgInv(mseq'[n])
  <2>1. CASE n = m
    BY <1>8, <2>1
  <2>2. CASE n # m
    BY <1>8, <1>9, <2>2 DEF IInv, Known
  <2> QED BY <2>1, <2>2
<1>10. mseq'[m] = r.um /\ r.um # NoMsg
  BY <1>2, <1>8, NoMsgAssumption
<1>11. AcksOK'
  <2> SUFFICES ASSUME NEW a \in acks'
               PROVE  /\ ~a.ack.ear /\ mseq'[a.mid] # NoMsg
                      /\ Sound(a.ack, mseq'[a.mid].fragcnt, mseq'[a.mid].fbits)
    BY DEF AcksOK, Known
  <2>1. PICK b \in r.acks : a = [mid |-> m, ack |-> b]
    BY DEF Respond, Send
  <2>2. a.mid = m /\ a.ack = b
    BY <2>1
  <2>3. Sound(b, r.um.fragcnt, r.um.fbits) /\ ~b.ear
    BY <2>1 DEF Sound
  <2> QED BY <1>10, <2>2, <2>3
<1> QED BY <1>7, <1>9, <1>11 DEF IInv, Known

\* A message that is removed, or left alone, preserves the invariant.
LEMMA RemoveOK ==
    ASSUME IInv, mseq' \in [Rid -> RMsg \cup {NoMsg}],
           \A n \in Rid : mseq'[n] = NoMsg \/ mseq'[n] = mseq[n],
           if_enabled' \in BOOLEAN, acks' \subseteq [mid: Rid, ack: Acks],
           \A a \in acks' : a.ack = EarNack,
           given' \subseteq [mid: Rid, fragments: SUBSET (Part \X Payload), compressed: BOOLEAN]
    PROVE  IInv'
<1>1. RxTypeOK'
  BY DEF RxTypeOK
<1>2. ASSUME NEW n \in Rid, mseq'[n] # NoMsg PROVE MsgInv(mseq'[n])
  BY <1>2 DEF IInv, Known
<1>3. EarNack.ear = TRUE /\ AckHeaderValid(EarNack)
  BY DEF EarNack, ZeroAck, AckHeaderValid
<1>4. AcksOK'
  BY <1>3 DEF AcksOK
<1> QED BY <1>1, <1>2, <1>4 DEF IInv, Known

\* The message GotFragment works on, known or just created.
LEMMA FragmentTarget ==
    ASSUME IInv, NEW m \in Rid, NEW h \in Headers, NEW um,
           um = IF Known(m) THEN mseq[m] ELSE ut_rmsg_create(h),
           Consistent(um, h)
    PROVE  /\ Core(um) /\ PendingOK(um, um.fbits) /\ h.part \in Frags(um)
           /\ um.reliable = h.ackme
<1>1. um.fragcnt = h.count /\ um.reliable = h.ackme
  BY DEF Consistent
<1>2. h.part \in Frags(um)
  <2>1. h.part \in Part /\ h.count \in 1 .. FragMax /\ h.part < h.count
    BY HeadersAssumption, Zenon
  <2>2. \A p \in Part, c \in 1 .. FragMax : p < c => p \in 0 .. c - 1
    BY DEF Part, FragMax
  <2>3. h.part \in 0 .. h.count - 1
    BY <2>1, <2>2, Zenon
  <2> QED BY <1>1, <2>3 DEF Frags
<1>3. CASE Known(m)
  BY <1>1, <1>2, <1>3 DEF IInv, MsgInv
<1>4. CASE ~Known(m)
  BY <1>1, <1>2, <1>4, CreateOK
<1> QED BY <1>3, <1>4

\* What is given to the upper layer fits.
LEMMA GivenType ==
    ASSUME NEW m \in Rid, NEW um, Core(um), NEW part \in Part, NEW data \in Payload,
           NEW inflates
    PROVE  ut_assemble_message(m, um, part, data, inflates)
              \subseteq [mid: Rid, fragments: SUBSET (Part \X Payload), compressed: BOOLEAN]
<1> DEFINE v == StoreFragment(um, part, data)
<1>1. um \in RMsg
  BY DEF Core
<1>2. um.fragments \subseteq Part \X Payload
  BY <1>1 DEF RMsg
<1>3. v.fragments = IF data = Empty THEN um.fragments
                                    ELSE um.fragments \cup {<<part, data>>}
  BY <1>1 DEF StoreFragment, RMsg
<1>4. v.fragments \subseteq Part \X Payload
  BY <1>2, <1>3
<1>5. FALSE \in BOOLEAN
  OBVIOUS
<1> HIDE DEF v
<1>6. [mid |-> m, fragments |-> v.fragments, compressed |-> FALSE]
        \in [mid: Rid, fragments: SUBSET (Part \X Payload), compressed: BOOLEAN]
  BY <1>4, <1>5
<1> QED BY <1>6 DEF ut_assemble_message, v

\* GotFragment preserves the invariant.
LEMMA GotFragmentOK ==
    ASSUME IInv, NEW m \in Rid, NEW h \in Headers, NEW data \in Payload, NEW inflates,
           GotFragment(m, h, data, inflates)
    PROVE  IInv'
<1> DEFINE um == IF Known(m) THEN mseq[m] ELSE ut_rmsg_create(h)
           r  == IF h.ackme THEN ut_acknowledge_fragment(um, h.part)
                 ELSE [um |-> um, acks |-> {}]
           q  == [r EXCEPT !.um = ut_handle_fragment(r.um, h.part, data)]
<1>1. /\ Consistent(um, h) /\ Respond(m, q) /\ UNCHANGED if_enabled
      /\ given' = ut_assemble_message(m, r.um, h.part, data, inflates)
  BY DEF GotFragment
<1>2. /\ Core(um) /\ PendingOK(um, um.fbits) /\ h.part \in Frags(um)
      /\ um.reliable = h.ackme
  BY <1>1, FragmentTarget
<1> HIDE DEF um
<1>3. Acked(um, r, um.fbits \cup {h.part})
  <2>1. CASE h.ackme
    BY <1>2, <2>1, AckFragment
  <2>2. CASE ~h.ackme
    <3>1. r = [um |-> um, acks |-> {}]
      BY <2>2
    <3>2. Acknowledging(um, um)
      BY <1>2 DEF Acknowledging, Core, RMsg
    <3> QED BY <1>2, <3>1, <3>2 DEF Acked, PendingOK
  <2> QED BY <2>1, <2>2
<1>4. /\ Core(r.um) /\ Frags(r.um) = Frags(um) /\ r.um.fbits = um.fbits
      /\ r.um.fragcnt = um.fragcnt
  BY <1>2, <1>3 DEF Acked, Acknowledging, Core, RMsg, Frags
<1>5. q.um = ut_handle_fragment(r.um, h.part, data) /\ q.acks = r.acks
  BY DEF ut_acknowledge_fragment, ut_rmsg_reack, ut_rmsg_reack_improved,
         ReackEachFragment, ut_delayed_ack
<1>6. h.part \in Part
  BY HeadersAssumption
<1> HIDE DEF r, q
<1>7. /\ MsgInv(q.um) /\ q.um.fbits = um.fbits \cup {h.part}
      /\ q.um.fragcnt = um.fragcnt
  BY <1>2, <1>3, <1>4, <1>5, HandleFragment DEF Acked
<1>8. \A a \in q.acks : a \in Acks /\ Sound(a, q.um.fragcnt, q.um.fbits)
  BY <1>3, <1>5, <1>7 DEF Acked
<1>9. given' \subseteq [mid: Rid, fragments: SUBSET (Part \X Payload), compressed: BOOLEAN]
  BY <1>1, <1>4, <1>6, GivenType
<1> QED BY <1>1, <1>7, <1>8, <1>9, RespondOK

\* Every step preserves the invariant.
LEMMA StepOK ==
    ASSUME IInv, [RxNext]_rxvars
    PROVE  IInv'
<1> DEFINE Gifts == [mid: Rid, fragments: SUBSET (Part \X Payload), compressed: BOOLEAN]
<1>1. /\ mseq \in [Rid -> RMsg \cup {NoMsg}] /\ if_enabled \in BOOLEAN
      /\ acks \subseteq [mid: Rid, ack: Acks] /\ given \subseteq Gifts
  BY DEF IInv, RxTypeOK
<1>2. {} \subseteq Gifts /\ {} \subseteq [mid: Rid, ack: Acks]
  OBVIOUS
<1>3. ASSUME NEW m \in Rid, Known(m)
      PROVE  /\ MsgInv(mseq[m]) /\ mseq[m].facks \subseteq mseq[m].fbits
             /\ mseq[m] \in RMsg
  BY <1>3 DEF IInv, MsgInv, Core, PendingOK
\* A message whose ACKs alone changed is a proper message.
<1>4. ASSUME NEW um, MsgInv(um), NEW r, Acked(um, r, um.fbits)
      PROVE  /\ MsgInv(r.um)
             /\ \A a \in r.acks : a \in Acks /\ Sound(a, r.um.fragcnt, r.um.fbits)
  <2>1. r.um.fbits = um.fbits /\ r.um.fragcnt = um.fragcnt
    BY <1>4 DEF MsgInv, Core, RMsg, Acked, Acknowledging
  <2> QED BY <1>4, <2>1 DEF MsgInv, Acked
<1>5. ASSUME NEW m \in Rid, NEW h \in Headers, NEW data \in Payload, GotSingleton(m, h, data)
      PROVE  IInv'
  <2>1. UNCHANGED <<mseq, if_enabled>> /\ acks' = {}
    BY <1>5 DEF GotSingleton
  <2>2. h.deflated \in BOOLEAN
    BY HeadersAssumption, Zenon
  <2>3. 0 \in Part
    BY DEF Part, FragMax
  <2> DEFINE g == IF data = Empty THEN {} ELSE {<<0, data>>}
  <2>4. g \subseteq Part \X Payload
    BY <2>3
  <2>5. given' = IF if_enabled THEN {[mid |-> m, compressed |-> h.deflated, fragments |-> g]}
                 ELSE {}
    BY <1>5 DEF GotSingleton
  <2> HIDE DEF g
  <2>6. given' \subseteq Gifts
    BY <2>2, <2>4, <2>5
  <2> QED BY <1>1, <1>2, <2>1, <2>6, RemoveOK
<1>6. ASSUME NEW m \in Rid, NEW h \in Headers, GotInconsistent(m, h)
      PROVE  IInv'
  <2> HIDE DEF Gifts
  <2>1. UNCHANGED <<mseq, if_enabled>> /\ acks' = {} /\ given' = {}
    BY <1>6 DEF GotInconsistent
  <2> QED BY <1>1, <1>2, <2>1, RemoveOK DEF Gifts
<1>7. ASSUME NEW m \in Rid, GotEAR(m)
      PROVE  IInv'
  <2>1. given' = {} /\ UNCHANGED if_enabled
    BY <1>7 DEF GotEAR
  <2>2. CASE ~Known(m)
    <3>1. Send(m, {EarNack}) /\ UNCHANGED mseq
      BY <1>7, <2>2 DEF GotEAR
    <3>2. acks' \subseteq [mid: Rid, ack: Acks] /\ \A a \in acks' : a.ack = EarNack
      BY <3>1, SimpleAckType DEF Send
    <3> QED BY <1>1, <1>2, <2>1, <3>1, <3>2, RemoveOK
  <2>3. CASE Known(m)
    <3> DEFINE r == ut_rmsg_reack(mseq[m], "ear")
    <3>1. Respond(m, r)
      BY <1>7, <2>3 DEF GotEAR
    <3>2. Acked(mseq[m], r, mseq[m].fbits)
      BY <1>3, <2>3, Reack DEF MsgInv
    <3> HIDE DEF r
    <3>3. /\ MsgInv(r.um)
          /\ \A a \in r.acks : a \in Acks /\ Sound(a, r.um.fragcnt, r.um.fbits)
      BY <1>3, <1>4, <2>3, <3>2
    <3> QED BY <1>2, <2>1, <3>1, <3>3, RespondOK
  <2> QED BY <2>2, <2>3
<1>8. ASSUME NEW m \in Rid, DelayedAck(m)
      PROVE  IInv'
  <2> DEFINE r == ut_delayed_ack(mseq[m])
  <2>1. Known(m) /\ Respond(m, r) /\ given' = {} /\ UNCHANGED if_enabled
    BY <1>8 DEF DelayedAck
  <2>2. Acked(mseq[m], r, mseq[m].fbits)
    BY <1>3, <2>1, FlushAcks DEF MsgInv
  <2> HIDE DEF r
  <2>3. /\ MsgInv(r.um)
        /\ \A a \in r.acks : a \in Acks /\ Sound(a, r.um.fragcnt, r.um.fbits)
    BY <1>3, <1>4, <2>1, <2>2
  <2> QED BY <1>2, <2>1, <2>3, RespondOK
<1>9. ASSUME NEW m \in Rid, AlmostExpired(m)
      PROVE  IInv'
  <2> DEFINE um == [mseq[m] EXCEPT !.expire_ev = "expire"]
             r  == ut_rmsg_reack(um, "almost")
  <2>1. /\ Known(m) /\ mseq[m].expire_ev = "almost"
        /\ Respond(m, r) /\ given' = {} /\ UNCHANGED if_enabled
    BY <1>9 DEF AlmostExpired
  <2>2. mseq[m] \in RMsg /\ MsgInv(mseq[m])
    BY <1>3, <2>1
  <2>3. /\ um \in RMsg /\ um.fbits = mseq[m].fbits /\ um.facks = mseq[m].facks
        /\ um.fragcnt = mseq[m].fragcnt /\ um.fragrecv = mseq[m].fragrecv
        /\ um.lingering = mseq[m].lingering /\ um.fragments = mseq[m].fragments
        /\ um.acks_pending = mseq[m].acks_pending /\ um.acks_ev = mseq[m].acks_ev
        /\ um.reliable = mseq[m].reliable /\ um.improved_acks = mseq[m].improved_acks
        /\ um.expire_ev = "expire"
    BY <2>2 DEF RMsg
  <2> HIDE DEF um
  <2>4. Frags(um) = Frags(mseq[m])
    BY <2>3 DEF Frags
  <2>5. MsgInv(um)
    BY <2>1, <2>2, <2>3, <2>4 DEF MsgInv, Core, PendingOK
  <2>6. um.facks \subseteq um.fbits
    BY <2>5 DEF MsgInv, PendingOK
  <2>7. Acked(um, r, um.fbits)
    BY <2>5, <2>6, Reack DEF MsgInv
  <2> HIDE DEF r
  <2>8. /\ MsgInv(r.um)
        /\ \A a \in r.acks : a \in Acks /\ Sound(a, r.um.fragcnt, r.um.fbits)
    BY <1>4, <2>5, <2>7
  <2> QED BY <1>2, <2>1, <2>8, RespondOK
<1>10. ASSUME NEW m \in Rid, ut_rmsg_free(m)
       PROVE  IInv'
  <2>1. /\ mseq' = [mseq EXCEPT ![m] = NoMsg] /\ acks' = {} /\ given' = {}
        /\ UNCHANGED if_enabled
    BY <1>10 DEF ut_rmsg_free
  <2>2. mseq' \in [Rid -> RMsg \cup {NoMsg}]
    BY <1>1, <2>1
  <2>3. \A n \in Rid : mseq'[n] = NoMsg \/ mseq'[n] = mseq[n]
    BY <1>1, <2>1
  <2> QED BY <1>1, <1>2, <2>1, <2>2, <2>3, RemoveOK
<1>11. ASSUME NEW on \in BOOLEAN, SetEnabled(on)
       PROVE  IInv'
  <2>1. /\ mseq' = mseq /\ acks' = {} /\ given' = {} /\ if_enabled' \in BOOLEAN
    BY <1>11, Zenon DEF SetEnabled
  <2> QED BY <1>1, <1>2, <2>1, RemoveOK
<1>12. CASE Renew
  <2>1. /\ mseq' = [m \in Rid |-> NoMsg] /\ if_enabled' = FALSE
        /\ acks' = {} /\ given' = {}
    BY <1>12 DEF Renew
  <2>2. if_enabled' \in BOOLEAN
    BY <2>1, Zenon
  <2>3. /\ mseq' \in [Rid -> RMsg \cup {NoMsg}]
        /\ \A n \in Rid : mseq'[n] = NoMsg \/ mseq'[n] = mseq[n]
    BY <2>1
  <2> QED BY <1>2, <2>1, <2>2, <2>3, RemoveOK
<1>13. CASE UNCHANGED rxvars
  BY <1>13 DEF rxvars, IInv, RxTypeOK, Known, AcksOK
<1>14. CASE RxNext
  <2>1. CASE \E m \in Rid : Receive(m)
    BY <1>5, <1>6, <1>7, <2>1, GotFragmentOK DEF Receive
  <2>2. CASE \E m \in Rid : RxTimeout(m)
    BY <1>8, <1>9, <1>10, <2>2 DEF RxTimeout, RxExpired, RxLingered
  <2>3. CASE \E on \in BOOLEAN : SetEnabled(on)
    BY <1>11, <2>3
  <2> QED BY <1>12, <1>14, <2>1, <2>2, <2>3 DEF RxNext
<1> QED BY <1>13, <1>14

\* The reception table is empty when rx_ut_init() returns.
LEMMA InitOK == RxInit => IInv
<1> SUFFICES ASSUME RxInit PROVE IInv
  OBVIOUS
<1>1. \A m \in Rid : mseq[m] = NoMsg
  BY DEF RxInit
<1>2. mseq \in [Rid -> RMsg \cup {NoMsg}]
  BY DEF RxInit
<1>3. if_enabled \in BOOLEAN
  BY Zenon DEF RxInit
<1>4. RxTypeOK
  BY <1>2, <1>3 DEF RxInit, RxTypeOK
<1>5. AcksOK
  BY DEF RxInit, AcksOK
<1> QED BY <1>1, <1>4, <1>5 DEF IInv, Known

\* The invariant holds in every reachable state.
THEOREM Invariance == RxSpec => []IInv
<1>1. IInv /\ [RxNext]_rxvars => IInv'
  BY StepOK
<1> QED BY <1>1, InitOK, PTL DEF RxSpec

\* Whatever the peers send, the fields of a message keep their types, and the
\* ACKs sent their place on the wire: no fragment number, counter or "missing"
\* bit overflows, for messages of up to 255 fragments.
THEOREM TypeCorrect == RxSpec => []RxTypeOK
<1>1. IInv => RxTypeOK
  BY DEF IInv
<1> QED BY <1>1, Invariance, PTL

\* The counters of a message always agree with its bit arrays, and a message
\* lingers, with its data released, exactly when it is complete.
THEOREM ConsistencyHolds == RxSpec => []Consistency
<1>1. IInv => Consistency
  BY DEF IInv, Consistency, MsgInv, Core, PendingOK, MessageConsistent
<1> QED BY <1>1, Invariance, PTL

\* A delayed acknowledgment always has its timer armed, and an armed timer
\* always has an acknowledgment to send.
THEOREM DelayedAckHolds == RxSpec => []DelayedAckArmed
<1>1. IInv => DelayedAckArmed
  BY DEF IInv, DelayedAckArmed, MsgInv, PendingOK
<1> QED BY <1>1, Invariance, PTL

\* No ACK ever acknowledges a fragment that was not received, in the eyes of
\* the sending layer that reads it: plain, cumulative and extended ACKs, with
\* the fragments implied past the "missing" bits, for any width of that field.
THEOREM AcksAreSound == RxSpec => []AckSound
<1>1. IInv => AckSound
  BY DEF IInv, AcksOK, AckSound, Sound
<1> QED BY <1>1, Invariance, PTL

\* Every ACK is well-formed for the peer: none is discarded on reception.
THEOREM AcksAreAcceptable == RxSpec => []AckAcceptable
<1>1. IInv => AckAcceptable
  BY DEF IInv, AcksOK, AckAcceptable, Sound
<1> QED BY <1>1, Invariance, PTL

----------------------------------------------------------------------------
(* Messages are given on completion.                                       *)

\* GotFragment gives a message only when it moves it to lingering.
LEMMA FragmentGives ==
    ASSUME IInv, NEW m \in Rid, NEW h \in Headers, NEW data \in Payload, NEW inflates,
           GotFragment(m, h, data, inflates), NEW g \in given', Known(g.mid)
    PROVE  ~mseq[g.mid].lingering /\ mseq'[g.mid].lingering
<1> DEFINE um == IF Known(m) THEN mseq[m] ELSE ut_rmsg_create(h)
           r  == IF h.ackme THEN ut_acknowledge_fragment(um, h.part)
                 ELSE [um |-> um, acks |-> {}]
           q  == [r EXCEPT !.um = ut_handle_fragment(r.um, h.part, data)]
<1>1. /\ Consistent(um, h) /\ Respond(m, q)
      /\ given' = ut_assemble_message(m, r.um, h.part, data, inflates)
  BY DEF GotFragment
<1>2. /\ Core(um) /\ PendingOK(um, um.fbits) /\ h.part \in Frags(um)
      /\ um.reliable = h.ackme
  BY <1>1, FragmentTarget
<1> HIDE DEF um
<1>3. Core(r.um) /\ Acknowledging(um, r.um)
  <2>1. CASE h.ackme
    BY <1>2, <2>1, AckFragment DEF Acked
  <2>2. CASE ~h.ackme
    BY <1>2, <2>2 DEF Acknowledging, Core, RMsg
  <2> QED BY <2>1, <2>2
<1>4. r.um \in RMsg /\ r.um.lingering = um.lingering
  BY <1>2, <1>3 DEF Acknowledging, Core, RMsg
<1>5. q.um = ut_handle_fragment(r.um, h.part, data)
  BY DEF ut_acknowledge_fragment, ut_rmsg_reack, ut_rmsg_reack_improved,
         ReackEachFragment, ut_delayed_ack
<1> HIDE DEF r, q
<1>6. /\ g.mid = m /\ ~r.um.lingering /\ h.part \notin r.um.fbits
      /\ StoreFragment(r.um, h.part, data).fragrecv = r.um.fragcnt
  BY <1>1 DEF ut_assemble_message
<1>7. um = mseq[m]
  BY <1>6 DEF um
<1>8. ut_handle_fragment(r.um, h.part, data)
        = ut_rmsg_linger(StoreFragment(r.um, h.part, data))
  BY <1>6 DEF ut_handle_fragment
<1>9. ut_rmsg_linger(StoreFragment(r.um, h.part, data)).lingering
  BY <1>4 DEF ut_rmsg_linger, StoreFragment, RMsg
<1>10. mseq'[m] = q.um
  BY <1>1 DEF Respond, IInv, RxTypeOK
<1> QED BY <1>4, <1>5, <1>6, <1>7, <1>8, <1>9, <1>10

\* A known message is given to the upper layer by the fragment that completes
\* it and by no other step: late duplicates and timers give nothing.
THEOREM GivenOnce == RxSpec => GivenOnCompletion
<1> DEFINE A == \A g \in given' : Known(g.mid) =>
                    ~mseq[g.mid].lingering /\ mseq'[g.mid].lingering
<1>1. ASSUME IInv, [RxNext]_rxvars PROVE [A]_rxvars
  <2>1. CASE given' = {}
    BY <2>1
  <2>2. CASE \E m \in Rid, h \in Headers, data \in Payload : GotSingleton(m, h, data)
    BY <2>2 DEF GotSingleton, Singleton
  <2>3. CASE \E m \in Rid, h \in Headers, data \in Payload, inflates \in BOOLEAN :
                GotFragment(m, h, data, inflates)
    BY <1>1, <2>3, FragmentGives
  <2>4. CASE UNCHANGED rxvars
    BY <2>4
  <2>5. CASE RxNext
    <3>1. CASE \E m \in Rid : Receive(m)
      BY <2>1, <2>2, <2>3, <3>1 DEF Receive, GotInconsistent, GotEAR
    <3>2. CASE \E m \in Rid : RxTimeout(m)
      BY <2>1, <3>2 DEF RxTimeout, DelayedAck, AlmostExpired, RxExpired, RxLingered, ut_rmsg_free
    <3>3. CASE \E on \in BOOLEAN : SetEnabled(on)
      BY <2>1, <3>3 DEF SetEnabled
    <3>4. CASE Renew
      BY <2>1, <3>4 DEF Renew
    <3> QED BY <2>5, <3>1, <3>2, <3>3, <3>4 DEF RxNext
  <2> QED BY <1>1, <2>4, <2>5
<1>2. IInv /\ [RxNext]_rxvars => [A]_rxvars
  BY <1>1
<1> QED BY <1>2, Invariance, PTL DEF RxSpec, GivenOnCompletion

----------------------------------------------------------------------------
(* Pending ACKs are sent.                                                  *)
(*                                                                         *)
(* ut_delayed_ack() stops at the first ACK, the one for the highest of the *)
(* pending fragments when there are more than two, and clears them all.    *)
(* The others must be in the window of that ACK, or implied by its count.  *)

\* The sure ones are: those that the bits reach, and all those of a message with
\* at most two fragments past the bits of an ACK that is not cumulative.
Sure(um, f) == um.fragcnt <= MissingBits + 2 \/ f < MissingBits

\* The pending ACKs of um that are sure, and that r.um has no more, are sent.
Covers(um, r) ==
    SureAcks(um) \ r.um.facks \subseteq UNION {Acknowledged(a, um.fragcnt) : a \in r.acks}

\* What an ACK names without its extension is acknowledged.
LEMMA NamedAcknowledged ==
    ASSUME NEW n \in 1 .. FragMax, NEW ack, ack.ear = FALSE, ack.fragno \in Nat,
           NEW f \in 0 .. n - 1, f = ack.fragno \/ (ack.cumulative /\ f <= ack.fragno)
    PROVE  f \in Acknowledged(ack, n)
<1>1. CASE AcksWholeMessage(ack, n)
  <2>1. Acknowledged(ack, n) = 0 .. n - 1
    BY <1>1 DEF Acknowledged
  <2> QED BY <2>1
<1>2. CASE ~AcksWholeMessage(ack, n)
  <2>1. {ack.fragno} \cup (IF ack.cumulative THEN 0 .. ack.fragno - 1 ELSE {})
          \subseteq Acknowledged(ack, n)
    BY <1>2 DEF Acknowledged
  <2>2. f = ack.fragno \/ (ack.cumulative /\ f \in 0 .. ack.fragno - 1)
    BY DEF FragMax
  <2> QED BY <2>1, <2>2
<1> QED BY <1>1, <1>2

\* Two different fragments are two.
LEMMA PairSize ==
    ASSUME NEW x, NEW y, x # y
    PROVE  IsFiniteSet({x, y}) /\ Cardinality({x, y}) = 2
<1>1. IsFiniteSet({x}) /\ Cardinality({x}) = 1
  BY FS_Singleton
<1>2. {x} \cup {y} = {x, y} /\ y \notin {x}
  OBVIOUS
<1>3. IsFiniteSet({x} \cup {y}) /\ Cardinality({x} \cup {y}) = Cardinality({x}) + 1
  BY <1>1, <1>2, FS_AddElement
<1> QED BY <1>1, <1>2, <1>3

\* An extended ACK for fragment i that is not cumulative acknowledges the sure
\* fragments of S before i: they are in its window, or all but two of the n
\* fragments are, and when those two are i and the one before, the count implies them.
LEMMA WindowCovers ==
    ASSUME NEW n \in 1 .. FragMax, NEW S, S \subseteq 0 .. n - 1,
           NEW i \in S, NEW f \in S, f < i, n <= MissingBits + 2 \/ f < MissingBits,
           NEW ack, ack.ear = FALSE, ack.cumulative = FALSE, ack.received = Cardinality(S),
           ack.missing = {k - 0 : k \in (0 .. WindowEnd(0, n) - 1) \ S}
    PROVE  f \in Acknowledged(ack, n)
<1> DEFINE end == WindowEnd(0, n)
           W   == S \cap (0 .. end - 1)
<1>1. /\ n \in Nat /\ end \in Nat /\ end <= n /\ end <= MissingBits
      /\ end = n \/ end = MissingBits
  BY MissingBitsAssumption DEF FragMax, WindowEnd
<1>2. /\ i \in Nat /\ f \in Nat /\ i < n /\ f < n
  OBVIOUS
<1>3. WindowBase(ack) = 0
  BY DEF WindowBase
<1> HIDE DEF end
<1>4. WindowReceived(ack, n) = W
  <2>1. WindowReceived(ack, n) = {k \in 0 .. end - 1 : k - 0 \notin ack.missing}
    BY <1>3 DEF WindowReceived, end
  <2>2. \A k \in 0 .. end - 1 : k - 0 \in ack.missing <=> k \notin S
    BY <1>1 DEF end
  <2> QED BY <2>1, <2>2
<1>5. IsFiniteSet(0 .. n - 1)
  <2>1. 0 \in Nat /\ 0 <= n
    BY <1>1
  <2> QED BY <1>1, <2>1, IntervalSize
<1>6. /\ IsFiniteSet(S) /\ IsFiniteSet(W) /\ Cardinality(S) \in Nat /\ Cardinality(W) \in Nat
  BY <1>5, FS_Subset, FS_CardinalityType
<1>7. Cardinality(S) # 0
  BY <1>6, FS_EmptySet
<1>8. CASE AcksWholeMessage(ack, n)
  <2>1. Acknowledged(ack, n) = 0 .. n - 1
    BY <1>8 DEF Acknowledged
  <2> QED BY <1>2, <2>1
<1>9. CASE ~AcksWholeMessage(ack, n)
  <2>1. WindowReceived(ack, n) \cup ImpliedReceived(ack, n) \subseteq Acknowledged(ack, n)
    BY <1>7, <1>9 DEF Acknowledged
  <2>2. CASE f < end
    <3>1. f \in W
      BY <1>1, <1>2, <2>2
    <3> QED BY <1>4, <2>1, <3>1
  <2>3. CASE ~(f < end)
    <3>1. f = end /\ i = end + 1 /\ n = end + 2
      BY <1>1, <1>2, <2>3, MissingBitsAssumption
    <3>2. S = W \cup {f, i} /\ W \cap {f, i} = {}
      <4>1. \A k \in 0 .. n - 1 : k \in 0 .. end - 1 \/ k = f \/ k = i
        BY <1>1, <3>1
      <4>2. f \notin 0 .. end - 1 /\ i \notin 0 .. end - 1
        BY <1>1, <3>1
      <4> QED BY <4>1, <4>2
    <3>3. IsFiniteSet({f, i}) /\ Cardinality({f, i}) = 2
      <4>1. f # i
        BY <1>2
      <4> QED BY <4>1, PairSize
    <3> HIDE DEF W
    <3>4. Cardinality(S) = Cardinality(W) + 2
      BY <1>6, <3>2, <3>3, DisjointUnion
    <3>5. end < n /\ ack.received = 0 + Cardinality(W) + n - end
      BY <1>1, <1>6, <3>1, <3>4
    <3>6. ImpliedReceived(ack, n) = end .. n - 1
      BY <1>3, <1>4, <3>5 DEF ImpliedReceived, end
    <3>7. f \in end .. n - 1
      BY <1>1, <1>2, <3>1
    <3> QED BY <2>1, <3>6, <3>7
  <2> QED BY <2>2, <2>3
<1> QED BY <1>8, <1>9

\* The ACK built for fragment i acknowledges the sure fragments received up to i.
LEMMA BuiltAckCovers ==
    ASSUME NEW um, Core(um), NEW i \in um.fbits, NEW f \in um.fbits, f <= i, Sure(um, f)
    PROVE  f \in Acknowledged(ut_upgrade_ack(um, ut_cumulative_ack(um, i)), um.fragcnt)
<1> DEFINE missing == Frags(um) \ um.fbits
           first   == Min(missing)
           n       == um.fragcnt
           c       == ut_cumulative_ack(um, i)
           a       == ut_upgrade_ack(um, c)
<1>1. /\ Sized(um) /\ n \in 1 .. FragMax /\ um.fbits \subseteq 0 .. n - 1 /\ i \in Frags(um)
  BY CoreSized DEF Core, Sized, Frags
<1>2. i \in Nat /\ f \in Nat /\ n \in Nat /\ i < n /\ f < n /\ f \in 0 .. n - 1
  BY <1>1 DEF FragMax
<1>3. c \in Acks
  BY <1>1, CumulativeAckType
<1> HIDE DEF c
<1>4. a.ear = c.ear /\ a.cumulative = c.cumulative /\ a.fragno = c.fragno
  BY <1>3 DEF ut_upgrade_ack, Acks
<1> HIDE DEF n
<1>5. CASE missing = {}
  <2>1. c = CumulativeAck(n - 1)
    BY <1>5 DEF ut_cumulative_ack, c, n
  <2>2. c.fragno = n - 1 /\ c.ear = FALSE /\ c.cumulative = TRUE
    BY <2>1 DEF CumulativeAck, ZeroAck
  <2>3. n - 1 \in Nat /\ f <= n - 1
    BY <1>1, <1>2 DEF FragMax
  <2> HIDE DEF a
  <2>4. a.fragno \in Nat /\ f <= a.fragno /\ a.ear = FALSE /\ a.cumulative
    BY <1>4, <2>2, <2>3
  <2>5. f \in Acknowledged(a, n)
    BY <1>1, <1>2, <2>4, NamedAcknowledged
  <2> QED BY <2>5 DEF a, c, n
<1>6. CASE missing # {} /\ first > i
  <2>1. c = [ZeroAck EXCEPT !.cumulative = first > 1, !.fragno = first - 1]
    BY <1>6 DEF ut_cumulative_ack, c
  <2>2. c.fragno = first - 1 /\ c.ear = FALSE /\ c.cumulative = (first > 1)
    BY <2>1 DEF ZeroAck
  <2>3. missing \subseteq Nat
    BY <1>2 DEF Frags, n
  <2>4. first \in Nat
    <3> HIDE DEF missing
    <3> QED BY <1>6, <2>3, MinProperty
  <2> HIDE DEF a, first
  <2>5. a.fragno \in Nat /\ a.ear = FALSE
    BY <1>2, <1>4, <1>6, <2>2, <2>4
  <2>6. f = a.fragno \/ (a.cumulative /\ f <= a.fragno)
    <3>1. CASE first > 1
      <4>1. a.cumulative
        BY <1>4, <2>2, <3>1, Zenon
      <4>2. f <= a.fragno
        BY <1>2, <1>4, <1>6, <2>2, <2>4
      <4> QED BY <4>1, <4>2
    <3>2. CASE ~(first > 1)
      BY <1>2, <1>4, <1>6, <2>2, <2>4, <3>2
    <3> QED BY <3>1, <3>2
  <2>7. f \in Acknowledged(a, n)
    BY <1>1, <1>2, <2>5, <2>6, NamedAcknowledged
  <2> QED BY <2>7 DEF a, c, n
<1>7. CASE missing # {} /\ ~(first > i)
  <2>1. c = PlainAck(i)
    BY <1>7 DEF ut_cumulative_ack, c
  <2>2. c.fragno = i /\ c.ear = FALSE /\ c.cumulative = FALSE
    BY <2>1 DEF PlainAck, ZeroAck
  <2>3. CASE f = i
    <3> HIDE DEF a
    <3>1. a.fragno \in Nat /\ a.ear = FALSE /\ f = a.fragno
      BY <1>2, <1>4, <2>2, <2>3
    <3>2. f \in Acknowledged(a, n)
      BY <1>1, <1>2, <3>1, NamedAcknowledged
    <3> QED BY <3>2 DEF a, c, n
  <2>4. CASE f # i
    <3>1. f < i
      BY <1>2, <2>4
    <3>2. um.fragrecv = Cardinality(um.fbits) /\ um.fragrecv \in Nat
      BY <1>1 DEF Core, Sized, FragMax
    <3>3. IsFiniteSet(um.fbits) /\ Cardinality({f, i}) = 2
      <4>1. IsFiniteSet(um.fbits)
        BY <1>1, FragsFinite DEF Frags, n
      <4> QED BY <2>4, <4>1, PairSize
    <3>4. um.fragrecv >= 2
      BY <3>2, <3>3, FS_Subset
    <3>5. n > 2
      <4>1. um.fbits \in SUBSET Frags(um) /\ um.fbits # Frags(um)
        BY <1>7 DEF Core
      <4>2. Cardinality(um.fbits) \in 0 .. n /\ Cardinality(um.fbits) # n
        BY <1>1, <4>1, FragsFinite DEF n
      <4> QED BY <1>2, <3>2, <3>4, <4>2
    <3>6. Extendable(um, c)
      BY <2>2, <3>2, <3>4, <3>5 DEF Extendable, n
    <3>7. WindowBase(c) = 0
      BY <2>2 DEF WindowBase
    <3>8. a = [c EXCEPT !.received = um.fragrecv,
                        !.missing = {k - 0 : k \in (0 .. WindowEnd(0, n) - 1) \ um.fbits}]
      BY <3>6, <3>7 DEF ut_upgrade_ack, n
    <3>9. /\ a.received = Cardinality(um.fbits)
          /\ a.missing = {k - 0 : k \in (0 .. WindowEnd(0, n) - 1) \ um.fbits}
      BY <1>3, <3>2, <3>8 DEF Acks
    <3> HIDE DEF a
    <3>10. a.ear = FALSE /\ a.cumulative = FALSE
      BY <1>4, <2>2
    <3>11. n <= MissingBits + 2 \/ f < MissingBits
      BY DEF Sure, n
    <3>12. f \in Acknowledged(a, n)
      BY <1>1, <3>1, <3>9, <3>10, <3>11, WindowCovers
    <3> QED BY <3>12 DEF a, c, n
  <2> QED BY <2>3, <2>4
<1> QED BY <1>5, <1>6, <1>7

\* ut_delayed_ack() and ut_rmsg_reack_improved(): the ACK for the highest of the
\* pending fragments covers the sure ones.
LEMMA FlushCovers ==
    ASSUME NEW um, Core(um), um.facks \subseteq um.fbits
    PROVE  Covers(um, ut_delayed_ack(um)) /\ Covers(um, ut_rmsg_reack_improved(um))
<1>1. CASE um.facks = {}
  BY <1>1 DEF Covers, SureAcks
<1>2. CASE um.facks # {}
  <2> DEFINE i == Max(um.facks)
             a == ut_upgrade_ack(um, ut_cumulative_ack(um, i))
             flushed == {k \in um.facks : \A j \in um.facks :
                            j > k => ~Exhaustive(um, BaseAck(um, j))}
  <2>1. um.facks \subseteq Part
    BY DEF Core, RMsg
  <2>2. i \in um.facks /\ \A f \in um.facks : f <= i
    BY <1>2, <2>1, LastFragment
  <2> HIDE DEF i
  <2>3. SureAcks(um) \subseteq Acknowledged(a, um.fragcnt)
    <3>1. \A f \in SureAcks(um) : f \in um.facks /\ Sure(um, f)
      BY DEF SureAcks, Sure
    <3> QED BY <2>2, <3>1, BuiltAckCovers
  <2>4. i \in flushed
    <3>1. \A j \in um.facks : ~(j > i)
      BY <2>1, <2>2 DEF Part
    <3> QED BY <2>2, <3>1
  <2>5. a \in ut_delayed_ack(um).acks
    <3>1. ut_delayed_ack(um).acks = {ut_build_delayed_ack(um, k) : k \in flushed}
      BY DEF ut_delayed_ack
    <3>2. a = ut_build_delayed_ack(um, i)
      BY DEF ut_build_delayed_ack, BaseAck
    <3> QED BY <2>4, <3>1, <3>2
  <2>6. a \in ut_rmsg_reack_improved(um).acks
    BY <1>2 DEF ut_rmsg_reack_improved, ut_build_extra_ack, BaseAck, i
  <2> HIDE DEF a
  <2> QED BY <2>3, <2>5, <2>6 DEF Covers
<1> QED BY <1>1, <1>2

\* ut_rmsg_reack() either flushes the pending ACKs or leaves them alone.
LEMMA ReackCovers ==
    ASSUME NEW um, Core(um), um.facks \subseteq um.fbits, NEW reason
    PROVE  Covers(um, ut_rmsg_reack(um, reason))
<1>1. CASE um.improved_acks
  BY <1>1, FlushCovers DEF ut_rmsg_reack
<1>2. CASE ~um.improved_acks
  <2>1. um \in RMsg
    BY DEF Core
  <2>2. ReackEachFragment(um).um.facks = um.facks
    BY <2>1 DEF ReackEachFragment, RMsg
  <2>3. ut_rmsg_reack(um, reason).um.facks = um.facks
    BY <1>2, <2>2 DEF ut_rmsg_reack
  <2> QED BY <2>3 DEF Covers, SureAcks
<1> QED BY <1>1, <1>2

\* ut_acknowledge_fragment(): a complete message is acknowledged as a whole, and
\* a duplicate flushes the pending ACKs that its own has joined.
LEMMA AckFragmentCovers ==
    ASSUME NEW um, Core(um), PendingOK(um, um.fbits), NEW part \in Frags(um)
    PROVE  Covers(um, ut_acknowledge_fragment(um, part))
<1> DEFINE duplicate == part \in um.fbits
           improved  == um.improved_acks /\ um.fragcnt > 1
           all       == um.fragrecv + (IF duplicate THEN 0 ELSE 1) = um.fragcnt
           pending   == PendingAck(um, part)
           r         == ut_acknowledge_fragment(um, part)
<1>1. um \in RMsg /\ um.fragcnt \in 1 .. FragMax /\ um.fbits \subseteq Frags(um)
      /\ um.facks \subseteq um.fbits
  BY DEF Core, RMsg, PendingOK
<1>2. /\ Core(pending) /\ Acknowledging(um, pending) /\ pending.facks = um.facks \cup {part}
  BY PendingAckOK
<1>3. pending.fragcnt = um.fragcnt /\ pending.fbits = um.fbits
  BY <1>1, <1>2 DEF Acknowledging, RMsg
<1>4. SureAcks(um) \subseteq SureAcks(pending)
  BY <1>2, <1>3 DEF SureAcks
<1> HIDE DEF pending
<1>5. ASSUME NEW q, Covers(pending, q) PROVE Covers(um, q)
  BY <1>3, <1>4, <1>5 DEF Covers
<1>6. CASE improved /\ all
  <2> DEFINE a == CumulativeAck(um.fragcnt - 1)
  <2>1. r.acks = {a}
    BY <1>6 DEF ut_acknowledge_fragment
  <2>2. a.ear = FALSE /\ a.cumulative = TRUE /\ a.fragno = um.fragcnt - 1
    BY DEF CumulativeAck, ZeroAck
  <2> HIDE DEF a, r
  <2>3. ASSUME NEW f \in um.facks PROVE f \in Acknowledged(a, um.fragcnt)
    <3>1. f \in 0 .. um.fragcnt - 1
      BY <1>1, <2>3 DEF Frags
    <3>2. a.fragno \in Nat /\ f <= a.fragno
      BY <1>1, <2>2, <3>1 DEF FragMax
    <3> QED BY <1>1, <2>2, <3>1, <3>2, NamedAcknowledged
  <2>4. Covers(um, r)
    BY <2>1, <2>3 DEF Covers, SureAcks
  <2> QED BY <2>4 DEF r
<1>7. CASE improved /\ ~all /\ ~duplicate
  <2>1. r.um = [pending EXCEPT !.acks_ev = TRUE]
    BY <1>7 DEF ut_acknowledge_fragment, pending
  <2>2. r.um.facks = um.facks \cup {part}
    BY <1>2, <2>1 DEF Core, RMsg
  <2> QED BY <2>2 DEF Covers, SureAcks
<1>8. CASE improved /\ ~all /\ duplicate /\ um.acks_ev
  <2>1. r = ut_delayed_ack(pending)
    BY <1>8 DEF ut_acknowledge_fragment, pending
  <2>2. pending.facks \subseteq pending.fbits
    BY <1>1, <1>2, <1>3, <1>8
  <2> QED BY <1>2, <1>5, <2>1, <2>2, FlushCovers
<1>9. CASE improved /\ ~all /\ duplicate /\ ~um.acks_ev
  <2>1. r = ut_rmsg_reack(pending, "dup")
    BY <1>9 DEF ut_acknowledge_fragment, pending
  <2>2. pending.facks \subseteq pending.fbits
    BY <1>1, <1>2, <1>3, <1>9
  <2> QED BY <1>2, <1>5, <2>1, <2>2, ReackCovers
<1>10. CASE ~improved /\ duplicate
  <2>1. r = ut_rmsg_reack(um, "dup")
    BY <1>10 DEF ut_acknowledge_fragment
  <2> QED BY <1>1, <2>1, ReackCovers
<1>11. CASE ~improved /\ ~duplicate
  <2>1. r.um = um
    BY <1>11 DEF ut_acknowledge_fragment
  <2> QED BY <2>1 DEF Covers, SureAcks
<1> QED BY <1>6, <1>7, <1>8, <1>9, <1>10, <1>11

\* The pending ACKs of a known message that are cleared by a step are sent by it.
ClearedAcksSent ==
    \A m \in Rid : Known(m) /\ mseq'[m] # NoMsg =>
        SureAcks(mseq[m]) \ mseq'[m].facks \subseteq
            UNION {Acknowledged(a.ack, mseq[m].fragcnt) : a \in acks'}

\* A handler that leaves message m as r.um and sends r.acks.
LEMMA RespondCovers ==
    ASSUME IInv, NEW m \in Rid, NEW r, Respond(m, r), Known(m) => Covers(mseq[m], r)
    PROVE  ClearedAcksSent
<1>1. \A n \in Rid : mseq'[n] = IF n = m THEN r.um ELSE mseq[n]
  BY DEF Respond, IInv, RxTypeOK
<1>2. ASSUME NEW n \in Rid, Known(n), NEW f \in SureAcks(mseq[n]), f \notin mseq'[n].facks
      PROVE  \E a \in acks' : f \in Acknowledged(a.ack, mseq[n].fragcnt)
  <2>1. n = m /\ mseq'[m] = r.um
    BY <1>1, <1>2 DEF SureAcks
  <2>2. PICK b \in r.acks : f \in Acknowledged(b, mseq[m].fragcnt)
    BY <1>2, <2>1 DEF Covers
  <2>3. [mid |-> m, ack |-> b] \in acks'
    BY DEF Respond, Send
  <2> QED BY <2>1, <2>2, <2>3
<1> QED BY <1>2 DEF ClearedAcksSent

\* A step that removes messages, or leaves them alone.
LEMMA RemoveCovers ==
    ASSUME \A n \in Rid : mseq'[n] = NoMsg \/ mseq'[n] = mseq[n]
    PROVE  ClearedAcksSent
BY DEF ClearedAcksSent, SureAcks

\* The handler of fragments.
LEMMA FragmentCovers ==
    ASSUME IInv, NEW m \in Rid, NEW h \in Headers,
           NEW data \in Payload, NEW inflates, GotFragment(m, h, data, inflates)
    PROVE  ClearedAcksSent
<1> DEFINE um == IF Known(m) THEN mseq[m] ELSE ut_rmsg_create(h)
           r  == IF h.ackme THEN ut_acknowledge_fragment(um, h.part)
                 ELSE [um |-> um, acks |-> {}]
           q  == [r EXCEPT !.um = ut_handle_fragment(r.um, h.part, data)]
<1>1. Consistent(um, h) /\ Respond(m, q)
  BY DEF GotFragment
<1>2. /\ Core(um) /\ PendingOK(um, um.fbits) /\ h.part \in Frags(um)
      /\ um.reliable = h.ackme
  BY <1>1, FragmentTarget
<1>3. Known(m) => um = mseq[m]
  OBVIOUS
<1> HIDE DEF um
<1>4. Core(r.um) /\ Acknowledging(um, r.um) /\ Covers(um, r)
  <2>1. CASE h.ackme
    BY <1>2, <2>1, AckFragment, AckFragmentCovers DEF Acked
  <2>2. CASE ~h.ackme
    BY <1>2, <2>2 DEF Acknowledging, Core, RMsg, Covers, SureAcks
  <2> QED BY <2>1, <2>2
<1>5. q.um = ut_handle_fragment(r.um, h.part, data) /\ q.acks = r.acks
  BY DEF ut_acknowledge_fragment, ut_rmsg_reack, ut_rmsg_reack_improved,
         ReackEachFragment, ut_delayed_ack
<1> HIDE DEF r, q
<1>6. r.um \in RMsg
  BY <1>4 DEF Core
<1>7. q.um.facks = r.um.facks
  BY <1>5, <1>6 DEF ut_handle_fragment, StoreFragment, ut_rmsg_linger, RMsg
<1>8. Known(m) => Covers(mseq[m], q)
  BY <1>3, <1>4, <1>5, <1>7 DEF Covers
<1> QED BY <1>1, <1>8, RespondCovers

\* Every step sends the pending ACKs that it clears.
LEMMA StepCovers ==
    ASSUME IInv, [RxNext]_rxvars
    PROVE  ClearedAcksSent
<1>1. ASSUME NEW m \in Rid, Known(m)
      PROVE  Core(mseq[m]) /\ mseq[m].facks \subseteq mseq[m].fbits
  BY <1>1 DEF IInv, MsgInv, PendingOK
<1>2. ASSUME UNCHANGED mseq PROVE ClearedAcksSent
  BY <1>2, RemoveCovers
<1>3. ASSUME NEW m \in Rid, GotEAR(m) PROVE ClearedAcksSent
  <2>1. CASE ~Known(m)
    BY <1>2, <1>3, <2>1 DEF GotEAR
  <2>2. CASE Known(m)
    <3>1. Respond(m, ut_rmsg_reack(mseq[m], "ear"))
      BY <1>3, <2>2 DEF GotEAR
    <3>2. Covers(mseq[m], ut_rmsg_reack(mseq[m], "ear"))
      BY <1>1, <2>2, ReackCovers
    <3> QED BY <3>1, <3>2, RespondCovers
  <2> QED BY <2>1, <2>2
<1>4. ASSUME NEW m \in Rid, DelayedAck(m) PROVE ClearedAcksSent
  <2>1. Known(m) /\ Respond(m, ut_delayed_ack(mseq[m]))
    BY <1>4 DEF DelayedAck
  <2>2. Covers(mseq[m], ut_delayed_ack(mseq[m]))
    BY <1>1, <2>1, FlushCovers
  <2> QED BY <2>1, <2>2, RespondCovers
<1>5. ASSUME NEW m \in Rid, AlmostExpired(m) PROVE ClearedAcksSent
  <2> DEFINE um == [mseq[m] EXCEPT !.expire_ev = "expire"]
             r  == ut_rmsg_reack(um, "almost")
  <2>1. Known(m) /\ mseq[m].expire_ev = "almost" /\ Respond(m, r)
    BY <1>5 DEF AlmostExpired
  <2>2. mseq[m] \in RMsg
    BY <1>1, <2>1 DEF Core
  <2>3. /\ um \in RMsg /\ um.fbits = mseq[m].fbits /\ um.facks = mseq[m].facks
        /\ um.fragcnt = mseq[m].fragcnt /\ um.fragrecv = mseq[m].fragrecv
        /\ um.lingering = mseq[m].lingering /\ um.fragments = mseq[m].fragments
        /\ um.acks_pending = mseq[m].acks_pending /\ um.acks_ev = mseq[m].acks_ev
        /\ um.reliable = mseq[m].reliable /\ um.improved_acks = mseq[m].improved_acks
        /\ um.expire_ev = "expire"
    BY <2>2 DEF RMsg
  <2> HIDE DEF um
  <2>4. Frags(um) = Frags(mseq[m])
    BY <2>3 DEF Frags
  <2>5. Core(um) /\ um.facks \subseteq um.fbits
    BY <1>1, <2>1, <2>3, <2>4 DEF Core
  <2>6. Covers(um, r)
    BY <2>5, ReackCovers
  <2> HIDE DEF r
  <2>7. Covers(mseq[m], r)
    BY <2>3, <2>6 DEF Covers, SureAcks
  <2> QED BY <2>1, <2>7, RespondCovers
<1>6. ASSUME NEW m \in Rid, ut_rmsg_free(m) PROVE ClearedAcksSent
  <2>1. \A n \in Rid : mseq'[n] = NoMsg \/ mseq'[n] = mseq[n]
    BY <1>6 DEF ut_rmsg_free, IInv, RxTypeOK
  <2> QED BY <2>1, RemoveCovers
<1>7. CASE Renew
  <2>1. \A n \in Rid : mseq'[n] = NoMsg \/ mseq'[n] = mseq[n]
    BY <1>7 DEF Renew
  <2> QED BY <2>1, RemoveCovers
<1>8. CASE UNCHANGED rxvars
  BY <1>2, <1>8 DEF rxvars
<1>9. CASE RxNext
  <2>1. CASE \E m \in Rid : Receive(m)
    BY <1>2, <1>3, <2>1, FragmentCovers DEF Receive, GotSingleton, GotInconsistent
  <2>2. CASE \E m \in Rid : RxTimeout(m)
    BY <1>4, <1>5, <1>6, <2>2 DEF RxTimeout, RxExpired, RxLingered
  <2>3. CASE \E on \in BOOLEAN : SetEnabled(on)
    BY <1>2, <2>3 DEF SetEnabled
  <2> QED BY <1>7, <1>9, <2>1, <2>2, <2>3 DEF RxNext
<1> QED BY <1>8, <1>9

\* Whatever clears pending ACKs (the timer, a duplicate, an EAR, the completion of
\* the message), each fragment they were for is acknowledged by an ACK sent at
\* that time, although ut_delayed_ack() stops at the first ACK: all of them in a
\* message of 26 fragments at most, and in a longer one those that the 24 missing
\* bits of an ACK reach.
THEOREM PendingAcksAreSent ==
    RxSpec => PendingAcksSent
<1>1. IInv /\ [RxNext]_rxvars => [ClearedAcksSent]_rxvars
  BY StepCovers
<1>2. PendingAcksSent <=> [][ClearedAcksSent]_rxvars
  BY DEF PendingAcksSent, ClearedAcksSent
<1> QED BY <1>1, <1>2, Invariance, PTL DEF RxSpec
=============================================================================
