----------------------------- MODULE TxUtProofs -----------------------------
(***************************************************************************)
(* Proofs about the sending layer of semi-reliable UDP (TxUt), for any     *)
(* number of messages, fragments, hosts and sequence IDs, and about the    *)
(* ID tables (IdTable, IdAlloc) its sequence IDs come from.                *)
(*                                                                         *)
(* The parts: ID tables; the invariant of the sending layer; sequences and *)
(* bags; what each routine working on one message leaves (Shape lemmas);   *)
(* how a step that changes one message keeps the invariant; one lemma per  *)
(* action (Kept); the theorems; and the resend list being driven, again    *)
(* with one lemma per action (Drives).                                     *)
(***************************************************************************)
EXTENDS TxUt, IdAlloc, CollectionLemmas

----------------------------------------------------------------------------
(* ID tables.                                                              *)

\* How many slots are probed before y is.
Ahead(t, y) == IF y > t.last_id THEN y - t.last_id - 1 ELSE y + IdMask - t.last_id

\* Probing visits each slot of the table once, in IdMask + 1 moves: the i-th
\* probe looks at the slot that has i others ahead of it.
LEMMA SlotAhead ==
    ASSUME NEW t \in IdTables
    PROVE  /\ \A i \in Id : Slot(t, i) \in Id /\ Ahead(t, Slot(t, i)) = i
           /\ \A y \in Id : Ahead(t, y) \in Id /\ Slot(t, Ahead(t, y)) = y
<1>1. IdMask \in Nat /\ t.last_id \in 0 .. IdMask
  BY IdMaskAssumption DEF IdTables, Id
<1>2. ASSUME NEW i \in Id
      PROVE Slot(t, i) = IF t.last_id + 1 + i <= IdMask THEN t.last_id + 1 + i
                         ELSE t.last_id + i - IdMask
  BY <1>1 DEF Slot, Id
<1>3. ASSUME NEW i \in Id PROVE Slot(t, i) \in Id /\ Ahead(t, Slot(t, i)) = i
  <2>1. CASE t.last_id + 1 + i <= IdMask
    <3>1. Slot(t, i) = t.last_id + 1 + i
      BY <1>2, <2>1
    <3> QED BY <1>1, <2>1, <3>1 DEF Ahead, Id
  <2>2. CASE ~(t.last_id + 1 + i <= IdMask)
    <3>1. Slot(t, i) = t.last_id + i - IdMask
      BY <1>2, <2>2
    <3> QED BY <1>1, <2>2, <3>1 DEF Ahead, Id
  <2> QED BY <2>1, <2>2
<1>4. ASSUME NEW y \in Id PROVE Ahead(t, y) \in Id
  BY <1>1 DEF Ahead, Id
<1>5. ASSUME NEW y \in Id PROVE Slot(t, Ahead(t, y)) = y
  <2>1. Ahead(t, y) \in Id
    BY <1>4
  <2>2. Slot(t, Ahead(t, y)) = IF t.last_id + 1 + Ahead(t, y) <= IdMask THEN t.last_id + 1 + Ahead(t, y)
                         ELSE t.last_id + Ahead(t, y) - IdMask
    BY <2>1, <1>2
  <2> QED BY <1>1, <2>2 DEF Ahead, Id
<1> QED BY <1>3, <1>4, <1>5

\* The probing loop of idtable_try_new_id() passes over no free slot.
LEMMA MovesProperty ==
    ASSUME NEW t \in IdTables
    PROVE  /\ Moves(t) \in Id
           /\ \A i \in Id : i < Moves(t) => Slot(t, i) \in t.ids
           /\ Moves(t) # IdMask => Slot(t, Moves(t)) \notin t.ids
<1> DEFINE S == {i \in Id : Slot(t, i) \notin t.ids} \cup {IdMask}
<1>1. IdMask \in Nat /\ Id \subseteq Nat /\ IdMask \in Id
  BY IdMaskAssumption DEF Id
<1>2. S \subseteq Nat /\ S # {} /\ S \subseteq Id
  BY <1>1
<1>3. Min(S) \in S /\ \A x \in S : Min(S) <= x
  <2> HIDE DEF S
  <2> QED BY <1>2, MinProperty
<1>4. Moves(t) = Min(S)
  BY DEF Moves
<1>5. Moves(t) \in S /\ \A x \in S : Moves(t) <= x
  BY <1>3, <1>4
<1>6. Moves(t) \in Nat
  BY <1>5, <1>2
<1>7. ASSUME NEW i \in Id, i < Moves(t) PROVE Slot(t, i) \in t.ids
  <2>1. i \in Nat
    BY <1>1
  <2>2. i \notin S
    <3> HIDE DEF S
    <3> QED BY <1>5, <1>6, <2>1, <1>7
  <2> QED BY <2>2
<1> QED BY <1>5, <1>2, <1>7

----------------------------------------------------------------------------
(* The invariant.                                                          *)

\* The reason why IDs rotate: what stayed free since x was issued is ahead of
\* x, hence will be probed before it.
Rotation ==
    \A x \in Id : \A y \in idle[x] : y \notin tbl.ids /\ Ahead(tbl, y) < Ahead(tbl, x)

IdIInv == IdTypeOK /\ RoomMeansIssued /\ Rotation

\* What idtable_try_new_id() leaves: on success a free ID is taken, and it is
\* the first one ahead; on failure the table is unchanged.
LEMMA TryNewIdProperty ==
    ASSUME NEW t \in IdTables
    PROVE  LET r == idtable_try_new_id(t)
           IN  /\ r.tbl \in IdTables
               /\ r.ok \in BOOLEAN
               /\ r.ok => /\ r.id \in Id \ t.ids
                          /\ r.tbl.ids = t.ids \cup {r.id}
                          /\ r.tbl.last_id = r.id
                          /\ \A y \in Id : Ahead(t, y) < Ahead(t, r.id) => y \in t.ids
               /\ ~r.ok => /\ r.tbl = t
                           /\ \A i \in Id : i < IdMask => Slot(t, i) \in t.ids
<1> DEFINE r == idtable_try_new_id(t)
           i == Moves(t)
           id == Slot(t, i)
<1>1. /\ r.ok = (i # IdMask)
      /\ r.id = id
      /\ r.tbl = [ids |-> IF i # IdMask THEN t.ids \cup {id} ELSE t.ids, last_id |-> id]
  BY DEF idtable_try_new_id
<1>2. /\ i \in Id
      /\ \A j \in Id : j < i => Slot(t, j) \in t.ids
      /\ i # IdMask => id \notin t.ids
  BY MovesProperty
<1>3. id \in Id /\ Ahead(t, id) = i
  BY <1>2, SlotAhead
<1>4. t.ids \subseteq Id /\ t.last_id \in Id /\ t = [ids |-> t.ids, last_id |-> t.last_id]
  BY DEF IdTables
<1>5. r.tbl \in IdTables
  BY <1>1, <1>3, <1>4 DEF IdTables
<1>6. ASSUME NEW y \in Id, Ahead(t, y) < Ahead(t, id)
      PROVE  y \in t.ids
  <2>1. Ahead(t, y) \in Id /\ Slot(t, Ahead(t, y)) = y
    BY SlotAhead
  <2>2. Slot(t, Ahead(t, y)) \in t.ids
    BY <1>2, <1>3, <1>6, <2>1
  <2> QED BY <2>1, <2>2
<1>7. ASSUME i = IdMask PROVE id = t.last_id
  <2>1. Ahead(t, t.last_id) = IdMask
    BY <1>4, IdMaskAssumption DEF Ahead, Id
  <2> QED BY <1>4, <1>7, <2>1, SlotAhead
<1>8. r.ok \in BOOLEAN
  BY <1>1, Zenon
<1>9. CASE i # IdMask
  <2>1. r.tbl.ids = t.ids \cup {id} /\ r.tbl.last_id = id /\ r.id = id
    <3> HIDE DEF id, i, r
    <3> QED BY <1>1, <1>9
  <2>2. r.ok
    BY <1>1, <1>9, Zenon
  <2> HIDE DEF r, id, i
  <2> QED BY <1>2, <1>3, <1>5, <1>6, <1>8, <1>9, <2>1, <2>2, Zenon DEF r
<1>10. CASE i = IdMask
  <2>1. r.tbl = t
    <3> HIDE DEF id, i, r
    <3> QED BY <1>1, <1>4, <1>7, <1>10
  <2>2. ~r.ok
    BY <1>1, <1>10, Zenon
  <2>3. \A j \in Id : j < IdMask => Slot(t, j) \in t.ids
    BY <1>2, <1>10
  <2> HIDE DEF r, id, i
  <2> QED BY <1>5, <1>8, <2>1, <2>2, <2>3, Zenon DEF r
<1> QED BY <1>9, <1>10

\* Once z was issued it is the last of the table, and what is ahead of it is in
\* the same order as before.
LEMMA AheadOfIssued ==
    ASSUME NEW t \in IdTables, NEW u \in IdTables
    PROVE  /\ \A y \in Id \ {u.last_id} : Ahead(u, y) < Ahead(u, u.last_id)
           /\ \A x, y \in Id :
                 Ahead(t, y) < Ahead(t, x) /\ Ahead(t, y) > Ahead(t, u.last_id)
                    => Ahead(u, y) < Ahead(u, x)
<1>1. /\ IdMask \in Nat /\ Id = 0 .. IdMask
      /\ t.last_id \in Id /\ u.last_id \in Id
  BY IdMaskAssumption DEF IdTables, Id
<1>2. ASSUME NEW y \in Id \ {u.last_id} PROVE Ahead(u, y) < Ahead(u, u.last_id)
  BY <1>1 DEF Ahead
<1>3. ASSUME NEW x \in Id, NEW y \in Id,
             Ahead(t, y) < Ahead(t, x), Ahead(t, y) > Ahead(t, u.last_id)
      PROVE  Ahead(u, y) < Ahead(u, x)
  <2>1. \A w \in Id : Ahead(t, w) \in Int /\ Ahead(u, w) \in Int
    BY <1>1 DEF Ahead
  <2>2. ASSUME NEW w \in Id, Ahead(t, w) > Ahead(t, u.last_id)
        PROVE  Ahead(u, w) = Ahead(t, w) - Ahead(t, u.last_id) - 1
    <3>1. CASE u.last_id > t.last_id
      BY <1>1, <2>2, <3>1 DEF Ahead
    <3>2. CASE u.last_id <= t.last_id
      BY <1>1, <2>2, <3>2 DEF Ahead
    <3> QED BY <1>1, <3>1, <3>2
  <2>3. Ahead(t, x) > Ahead(t, u.last_id)
    BY <1>1, <1>3, <2>1
  <2> QED BY <1>1, <1>3, <2>1, <2>2, <2>3, SMTT(60)
<1> QED BY <1>2, <1>3

\* A table refused an ID: at most one is free.
LEMMA RefusedFull ==
    ASSUME NEW t \in IdTables, \A i \in Id : i < IdMask => Slot(t, i) \in t.ids
    PROVE  Cardinality(t.ids) >= IdMask
<1> DEFINE D == 0 .. IdMask - 1
           f == [i \in D |-> Slot(t, i)]
<1>1. IdMask \in Nat /\ D \subseteq Id /\ \A i \in D : i \in Id /\ i < IdMask
  BY IdMaskAssumption DEF Id
<1>2. f \in [D -> t.ids]
  BY <1>1
<1>3. IsInjective(f)
  <2> SUFFICES ASSUME NEW a \in D, NEW b \in D, f[a] = f[b]
               PROVE  a = b
    BY DEF IsInjective
  <2>1. Ahead(t, Slot(t, a)) = a /\ Ahead(t, Slot(t, b)) = b
    BY <1>1, SlotAhead
  <2> QED BY <2>1
<1>4. f \in Injection(D, t.ids)
  BY <1>2, <1>3 DEF Injection
<1>5. IsFiniteSet(t.ids)
  <2>1. IsFiniteSet(Id)
    BY <1>1, FS_Interval DEF Id
  <2>2. t.ids \in SUBSET Id
    BY DEF IdTables
  <2> QED BY <2>1, <2>2, FS_Subset
<1>6. Cardinality(D) <= Cardinality(t.ids)
  <2> HIDE DEF D, f
  <2> QED BY <1>4, <1>5, FS_Injection
<1>7. Cardinality(D) = IdMask
  BY <1>1, FS_Interval
<1>8. Cardinality(t.ids) \in Nat
  BY <1>5, FS_CardinalityType
<1> QED BY <1>1, <1>6, <1>7, <1>8

\* A table that was just made is empty.
LEMMA IdInitOK == IdInit => IdIInv
<1> SUFFICES ASSUME IdInit PROVE IdIInv
  OBVIOUS
<1>1. IdTypeOK
  <2>1. tbl \in IdTables
    BY DEF IdInit, idtable_new, IdTables
  <2>2. idle \in [Id -> SUBSET Id] /\ full \in BOOLEAN
    BY DEF IdInit
  <2> QED BY <2>1, <2>2 DEF IdTypeOK
<1>2. ~full
  BY DEF IdInit
<1>3. Rotation
  BY DEF IdInit, Rotation
<1> QED BY <1>1, <1>2, <1>3 DEF IdIInv, RoomMeansIssued

\* idtable_try_new_id() keeps the invariant, and issues an ID only if no other
\* stayed free since it was issued before.
LEMMA TryNewIdOK ==
    ASSUME IdIInv, TryNewId
    PROVE  IdIInv' /\ \A x \in Id : x \in tbl'.ids \ tbl.ids => idle[x] \subseteq {x}
<1> DEFINE r == idtable_try_new_id(tbl)
<1>1. tbl \in IdTables /\ full \in BOOLEAN /\ idle \in [Id -> SUBSET Id]
  BY DEF IdIInv, IdTypeOK
<1>2. /\ r.tbl \in IdTables /\ r.ok \in BOOLEAN
      /\ r.ok => /\ r.id \in Id \ tbl.ids
                 /\ r.tbl.ids = tbl.ids \cup {r.id}
                 /\ r.tbl.last_id = r.id
                 /\ \A y \in Id : Ahead(tbl, y) < Ahead(tbl, r.id) => y \in tbl.ids
      /\ ~r.ok => /\ r.tbl = tbl
                  /\ \A i \in Id : i < IdMask => Slot(tbl, i) \in tbl.ids
  BY <1>1, TryNewIdProperty
<1>3. /\ tbl' = r.tbl /\ full' = ~r.ok
      /\ r.ok => idle' = [x \in Id |-> IF x = r.id THEN Id \ r.tbl.ids ELSE idle[x] \ {r.id}]
      /\ ~r.ok => idle' = idle
  BY Zenon DEF TryNewId
<1> HIDE DEF r
<1>4. CASE ~r.ok
  <2>1. tbl' = tbl /\ idle' = idle /\ full'
    BY <1>2, <1>3, <1>4, Zenon
  <2>2. RoomMeansIssued'
    <3>1. Cardinality(tbl.ids) >= IdMask
      BY <1>1, <1>2, <1>4, RefusedFull
    <3> QED BY <2>1, <3>1 DEF RoomMeansIssued
  <2>3. IdTypeOK' /\ Rotation'
    BY <2>1 DEF IdIInv, IdTypeOK, Rotation
  <2> QED BY <2>1, <2>2, <2>3 DEF IdIInv
<1>5. CASE r.ok
  <2> DEFINE z == r.id
  <2>1. /\ z \in Id \ tbl.ids /\ tbl'.ids = tbl.ids \cup {z} /\ tbl'.last_id = z
        /\ \A y \in Id : Ahead(tbl, y) < Ahead(tbl, z) => y \in tbl.ids
        /\ idle' = [x \in Id |-> IF x = z THEN Id \ tbl'.ids ELSE idle[x] \ {z}]
        /\ tbl' \in IdTables /\ full' \in BOOLEAN /\ ~full'
    BY <1>2, <1>3, <1>5, Zenon
  <2> HIDE DEF z
  <2>2. IdTypeOK'
    BY <1>1, <2>1 DEF IdTypeOK
  <2>3. RoomMeansIssued'
    BY <2>1 DEF RoomMeansIssued
  <2>4. \A y \in Id : Ahead(tbl, y) \in Nat /\ (y \notin tbl.ids /\ y # z => Ahead(tbl, y) > Ahead(tbl, z))
    <3> SUFFICES ASSUME NEW y \in Id
                 PROVE  Ahead(tbl, y) \in Nat /\ (y \notin tbl.ids /\ y # z => Ahead(tbl, y) > Ahead(tbl, z))
      OBVIOUS
    <3>1. /\ Ahead(tbl, y) \in Id /\ Slot(tbl, Ahead(tbl, y)) = y
          /\ Ahead(tbl, z) \in Id /\ Slot(tbl, Ahead(tbl, z)) = z
      BY <1>1, <2>1, SlotAhead
    <3>2. Id \subseteq Nat
      BY IdMaskAssumption DEF Id
    <3>3. ASSUME y \notin tbl.ids, y # z PROVE Ahead(tbl, y) > Ahead(tbl, z)
      <4>1. Ahead(tbl, y) # Ahead(tbl, z)
        BY <3>1, <3>3
      <4>2. ~(Ahead(tbl, y) < Ahead(tbl, z))
        BY <2>1, <3>3
      <4>3. Ahead(tbl, y) \in Nat /\ Ahead(tbl, z) \in Nat
        BY <3>1, <3>2
      <4> QED BY <4>1, <4>2, <4>3
    <3> QED BY <3>1, <3>2, <3>3
  <2>5. Rotation'
    <3> SUFFICES ASSUME NEW x \in Id, NEW y \in idle'[x]
                 PROVE  y \notin tbl'.ids /\ Ahead(tbl', y) < Ahead(tbl', x)
      BY DEF Rotation, Ahead
    <3>1. CASE x = z
      <4>1. y \in Id \ tbl'.ids /\ y # z
        BY <2>1, <3>1
      <4> QED BY <2>1, <3>1, <4>1, AheadOfIssued
    <3>2. CASE x # z
      <4>1. y \in idle[x] /\ y # z
        BY <2>1, <3>2
      <4>2. y \in Id /\ y \notin tbl.ids /\ Ahead(tbl, y) < Ahead(tbl, x)
        BY <1>1, <4>1 DEF IdIInv, Rotation
      <4>3. Ahead(tbl, y) > Ahead(tbl, z)
        BY <2>4, <4>1, <4>2
      <4>4. Ahead(tbl', y) < Ahead(tbl', x)
        BY <1>1, <2>1, <4>2, <4>3, AheadOfIssued
      <4> QED BY <2>1, <4>1, <4>2, <4>4
    <3> QED BY <3>1, <3>2
  <2>6. ASSUME NEW x \in Id, x \in tbl'.ids \ tbl.ids
        PROVE  idle[x] \subseteq {x}
    <3>1. x = z
      BY <2>1, <2>6
    <3>2. ASSUME NEW y \in idle[x] PROVE FALSE
      <4>1. y \in Id /\ y \notin tbl.ids /\ Ahead(tbl, y) < Ahead(tbl, z)
        BY <1>1, <3>1 DEF IdIInv, Rotation
      <4> QED BY <2>1, <4>1
    <3> QED BY <3>2
  <2> QED BY <2>2, <2>3, <2>5, <2>6 DEF IdIInv
<1> QED BY <1>2, <1>4, <1>5, Zenon

\* idtable_free_id() keeps the invariant: a slot freed is free and no longer held.
LEMMA FreeIdOK ==
    ASSUME IdIInv, NEW id \in Id, FreeId(id)
    PROVE  IdIInv' /\ tbl'.ids \subseteq tbl.ids
<1>1. /\ tbl \in IdTables /\ tbl' = [tbl EXCEPT !.ids = @ \ {id}]
      /\ idle' = idle /\ full' = FALSE
  BY DEF FreeId, idtable_free_id, IdIInv, IdTypeOK
<1>2. tbl'.ids = tbl.ids \ {id} /\ tbl'.last_id = tbl.last_id /\ tbl' \in IdTables
  BY <1>1 DEF IdTables
<1>3. IdTypeOK' /\ RoomMeansIssued'
  BY <1>1, <1>2 DEF IdTypeOK, IdIInv, RoomMeansIssued
<1>4. Rotation'
  BY <1>1, <1>2 DEF Rotation, Ahead, IdIInv
<1> QED BY <1>2, <1>3, <1>4 DEF IdIInv

\* Each step of the users of a table keeps the invariant.
LEMMA IdStepOK ==
    ASSUME IdIInv, [IdNext]_idvars
    PROVE  IdIInv' /\ \A x \in Id : x \in tbl'.ids \ tbl.ids => idle[x] \subseteq {x}
<1>1. CASE TryNewId
  BY <1>1, TryNewIdOK
<1>2. CASE \E id \in Id : FreeId(id)
  BY <1>2, FreeIdOK
<1>3. CASE UNCHANGED idvars
  BY <1>3 DEF idvars, IdIInv, IdTypeOK, RoomMeansIssued, Rotation, Ahead
<1> QED BY <1>1, <1>2, <1>3 DEF IdNext

\* The inductive invariant holds of every behaviour of the ID table.
THEOREM IdInvariance == IdSpec => []IdIInv
<1>1. IdIInv /\ [IdNext]_idvars => IdIInv'
  BY IdStepOK
<1> QED BY <1>1, IdInitOK, PTL DEF IdSpec

\* A table of any size keeps its types, and idtable_try_new_id() refuses an ID
\* only when at most one is free, however IDs were allocated and freed.
THEOREM IdTableHolds == IdSpec => []IdInv
<1>1. IdIInv => IdInv
  BY DEF IdIInv, IdInv
<1> QED BY <1>1, IdInvariance, PTL

\* In a table of any size, an ID is not issued again by idtable_try_new_id() as
\* long as another one stayed free since it was issued.
THEOREM IdsRotate == IdSpec => TemporallyUnique
<1>1. IdIInv /\ [IdNext]_idvars =>
        [\A x \in Id : x \in tbl'.ids \ tbl.ids => idle[x] \subseteq {x}]_idvars
  BY IdStepOK
<1> QED BY <1>1, IdInvariance, PTL DEF IdSpec, TemporallyUnique

----------------------------------------------------------------------------
(* The sending layer: the invariant.                                       *)

\* The messages, of any number of fragments, and the datagrams.
Msg == UNION {UMsg(n) : n \in 1 .. FragMax}
FragDgram == [kind: {"frag"}, mid: Mid, fragno: Part]
EarDgram == [kind: {"ear"}, seqno: Id, attempts: 0 .. AckSendMax]
Dgram == FragDgram \cup EarDgram

Attr == [seq: IdTables, pending: Seq(Dgram), ban: SUBSET Host, good: SUBSET Host,
         seqno_freed: 0 .. SeqnoThresh - 1, out_of_seqno: BOOLEAN, upper_flowc: BOOLEAN,
         lower_flowc: BOOLEAN]

Types ==
    /\ msgs \in [Mid -> Msg \cup {Unborn, Sent, Dropped}]
    /\ attr \in Attr
    /\ IsABag(lower) /\ DOMAIN lower \subseteq Dgram
    /\ aborted \in BOOLEAN

\* The books of one message: the resend list against the flags, and um->pending.
Flagged(um) == {f \in LiveFrags(um) : um.fragments[f].resend}
Waiting(um) == {f \in LiveFrags(um) : um.fragments[f].pending}
ListExact(um) ==
    IsInjective(um.resend) /\ Range(um.resend) = Flagged(um) /\ Flagged(um) \cap Waiting(um) = {}
Books(um) == ListExact(um) /\ (~um.lingering => um.pending = Cardinality(Waiting(um)))

\* A datagram held is that of a message that was accepted, and of one of its
\* fragments.
Queued == DOMAIN lower \cup Range(attr.pending)
OwnedDgram(dg) ==
    dg.kind = "frag" =>
        /\ msgs[dg.mid] # Unborn
        /\ Alive(dg.mid) => dg.fragno \in DOMAIN msgs[dg.mid].fragments

\* A fragment of a message that has not expired is somewhere.
Somewhere(um, f, held) ==
    LET uf == um.fragments[f]
    IN  \/ um.lingering
        \/ um.cautious /\ f < Fragcnt(um) - 1
        \/ uf.resend \/ uf.resend_ev \/ held

BookInv == \A m \in LiveMids : Books(msgs[m])
KnownInv == \A dg \in Queued : OwnedDgram(dg)
HeldInv == \A m \in LiveMids : \A f \in LiveFrags(msgs[m]) : Somewhere(msgs[m], f, Frag(m, f) \in Queued)

\* The inductive invariant.
TxIInv == Types /\ BookInv /\ KnownInv /\ HeldInv

----------------------------------------------------------------------------
(* Sequences and bags.                                                     *)

\* The numbers of a finite set in increasing order: all of them, once each.
LEMMA AscendingExists ==
    ASSUME NEW n \in Nat, NEW S \in SUBSET (0 .. n - 1)
    PROVE  \E s \in [1 .. Cardinality(S) -> S] : \A i, j \in DOMAIN s : i < j => s[i] < s[j]
<1> DEFINE Is(T, s) == /\ s \in [1 .. Cardinality(T) -> T]
                       /\ \A i, j \in DOMAIN s : i < j => s[i] < s[j]
           N == {k \in Nat : \A T \in SUBSET (0 .. k - 1) : \E s : Is(T, s)}
<1>1. 0 \in N
  <2> SUFFICES ASSUME NEW T \in SUBSET (0 .. 0 - 1) PROVE \E s : Is(T, s)
    OBVIOUS
  <2>0. T = {}
    OBVIOUS
  <2>1. T = {} /\ Cardinality(T) = 0
    BY <2>0, FS_EmptySet, Zenon
  <2>2. Is(T, [i \in 1 .. 0 |-> 0])
    BY <2>1
  <2> QED BY <2>2
<1>2. ASSUME NEW k \in N PROVE k + 1 \in N
  <2>0. k \in Nat /\ k + 1 \in Nat
    OBVIOUS
  <2> SUFFICES ASSUME NEW T \in SUBSET (0 .. (k + 1) - 1) PROVE \E s : Is(T, s)
    BY <2>0
  <2> DEFINE U == T \ {k}
  <2>1. U \in SUBSET (0 .. k - 1)
    BY <2>0
  <2>2. PICK s : Is(U, s)
    BY <2>1
  <2>3. IsFiniteSet(U) /\ Cardinality(U) \in Nat
    <3>1. IsFiniteSet(0 .. k - 1)
      BY <2>0, FS_Interval
    <3> HIDE DEF U
    <3>2. IsFiniteSet(U)
      BY <2>1, <3>1, FS_Subset
    <3> QED BY <3>2, FS_CardinalityType
  <2>4. CASE k \notin T
    <3>1. T = U
      BY <2>4
    <3> QED BY <2>2, <3>1
  <2>5. CASE k \in T
    <3> DEFINE c == Cardinality(U)
               t == [i \in 1 .. c + 1 |-> IF i = c + 1 THEN k ELSE s[i]]
    <3>1. Cardinality(T) = c + 1
      <4>1. T = U \cup {k} /\ k \notin U
        BY <2>5
      <4> HIDE DEF U
      <4> QED BY <2>3, <4>1, FS_AddElement
    <3>2. \A i \in 1 .. c : s[i] \in U /\ s[i] < k /\ s[i] \in Nat
      <4>1. \A x \in U : x < k /\ x \in Nat
        BY <2>0, <2>1
      <4> HIDE DEF U
      <4> QED BY <2>2, <4>1
    <3> HIDE DEF c
    <3>3. c \in Nat
      BY <2>3 DEF c
    <3>4. t \in [1 .. c + 1 -> T]
      BY <2>5, <3>2, <3>3
    <3>5. ASSUME NEW i \in 1 .. c + 1, NEW j \in 1 .. c + 1, i < j PROVE t[i] < t[j]
      <4>1. i \in 1 .. c /\ t[i] = s[i]
        BY <3>3, <3>5
      <4>2. CASE j = c + 1
        BY <3>2, <4>1, <4>2
      <4>3. CASE j # c + 1
        <5>1. j \in 1 .. c /\ t[j] = s[j]
          BY <3>3, <4>3
        <5> QED BY <2>2, <3>5, <4>1, <5>1 DEF c
      <4> QED BY <4>2, <4>3
    <3>6. Is(T, t)
      BY <3>1, <3>4, <3>5
    <3> QED BY <3>6
  <2> QED BY <2>4, <2>5
<1>3. N = Nat
  <2> HIDE DEF N
  <2>1. N \subseteq Nat
    BY DEF N
  <2> QED BY <1>1, <1>2, <2>1, SetInduction
<1>4. \E s : Is(S, s)
  <2>1. n \in N
    BY <1>3
  <2> QED BY <2>1
<1> QED BY <1>4

\* Ascending(S) lists the fragments of S, each of them once.
LEMMA AscendingRange ==
    ASSUME NEW n \in Nat, NEW S \in SUBSET (0 .. n - 1)
    PROVE  /\ Ascending(S) \in Seq(S) /\ IsInjective(Ascending(S))
           /\ Range(Ascending(S)) = S /\ Len(Ascending(S)) = Cardinality(S)
<1> DEFINE s == Ascending(S)
           c == Cardinality(S)
<1>1. s \in [1 .. c -> S] /\ \A i, j \in DOMAIN s : i < j => s[i] < s[j]
  BY AscendingExists DEF Ascending
<1>2. IsFiniteSet(S) /\ c \in Nat
  <2>1. IsFiniteSet(0 .. n - 1)
    BY FS_Interval
  <2>2. IsFiniteSet(S)
    BY <2>1, FS_Subset
  <2> QED BY <2>2, FS_CardinalityType
<1> HIDE DEF s, c
<1>3. s \in Seq(S) /\ Len(s) = c /\ DOMAIN s = 1 .. c
  BY <1>1, <1>2
<1>4. IsInjective(s)
  <2> SUFFICES ASSUME NEW i \in DOMAIN s, NEW j \in DOMAIN s, s[i] = s[j]
               PROVE  i = j
    BY DEF IsInjective
  <2>1. s[i] \in Nat /\ s[j] \in Nat
    <3>1. S \subseteq Nat
      OBVIOUS
    <3> QED BY <1>1, <3>1
  <2>2. ~(i < j) /\ ~(j < i)
    BY <1>1, <2>1
  <2> QED BY <1>1, <1>2, <2>2
<1>5. Range(s) = S
  <2>1. s \in Injection(1 .. c, S)
    BY <1>1, <1>3, <1>4 DEF Injection
  <2>2. Cardinality(1 .. c) = c /\ IsFiniteSet(1 .. c)
    BY <1>2, FS_Interval
  <2>3. Range(s) \subseteq S
    BY <1>1 DEF Range
  <2>4. Cardinality(Range(s)) = c
    <3>1. s \in Bijection(1 .. c, Range(s))
      <4>1. s \in Surjection(1 .. c, Range(s))
        BY <1>1 DEF Surjection, Range
      <4>2. s \in Injection(1 .. c, Range(s))
        BY <1>1, <1>4 DEF Injection, Range
      <4> QED BY <4>1, <4>2 DEF Bijection
    <3> QED BY <2>2, <3>1, FS_Bijection DEF ExistsBijection
  <2> QED BY <1>2, <2>3, <2>4, FS_Subset DEF c
<1> QED BY <1>3, <1>4, <1>5 DEF s, c

\* A sequence read backwards.
LEMMA ReverseRange ==
    ASSUME NEW A, NEW s \in Seq(A)
    PROVE  /\ Reverse(s) \in Seq(A) /\ Range(Reverse(s)) = Range(s)
           /\ Reverse(s) = <<>> <=> s = <<>>
           /\ IsInjective(s) => IsInjective(Reverse(s))
<1>1. Len(s) \in Nat /\ DOMAIN s = 1 .. Len(s) /\ \A i \in 1 .. Len(s) : s[i] \in A
  BY LenProperties, ElementOfSeq
<1>2. Reverse(s) = [i \in 1 .. Len(s) |-> s[(Len(s) - i) + 1]]
  BY DEF Reverse
<1>3. \A i \in 1 .. Len(s) : (Len(s) - i) + 1 \in 1 .. Len(s)
  BY <1>1
<1>4. Reverse(s) \in Seq(A) /\ DOMAIN Reverse(s) = 1 .. Len(s)
  BY <1>1, <1>2, <1>3
<1>5. Range(Reverse(s)) = Range(s)
  <2>1. ASSUME NEW i \in 1 .. Len(s) PROVE s[i] \in Range(Reverse(s))
    <3>1. (Len(s) - i) + 1 \in 1 .. Len(s) /\ (Len(s) - ((Len(s) - i) + 1)) + 1 = i
      BY <1>1
    <3> QED BY <1>2, <3>1 DEF Range
  <2>2. Range(Reverse(s)) \subseteq Range(s)
    BY <1>1, <1>2, <1>3 DEF Range
  <2> QED BY <1>1, <2>1, <2>2 DEF Range
<1>6. ASSUME IsInjective(s) PROVE IsInjective(Reverse(s))
  <2> SUFFICES ASSUME NEW i \in 1 .. Len(s), NEW j \in 1 .. Len(s), Reverse(s)[i] = Reverse(s)[j]
               PROVE  i = j
    BY <1>2 DEF IsInjective
  <2>1. (Len(s) - i) + 1 = (Len(s) - j) + 1
    BY <1>1, <1>2, <1>3, <1>6 DEF IsInjective
  <2> QED BY <1>1, <2>1
<1>7. Reverse(s) = <<>> <=> s = <<>>
  BY <1>1, <1>2, EmptySeq
<1> QED BY <1>4, <1>5, <1>6, <1>7

\* Bags: what is added or taken away is what one expects of their elements.
LEMMA BagAddRange ==
    ASSUME NEW b, IsABag(b), NEW c, IsABag(c)
    PROVE  IsABag(b (+) c) /\ DOMAIN (b (+) c) = DOMAIN b \cup DOMAIN c
<1> DEFINE d == b (+) c
<1>1. d = [e \in DOMAIN b \cup DOMAIN c |->
              (IF e \in DOMAIN b THEN b[e] ELSE 0) + (IF e \in DOMAIN c THEN c[e] ELSE 0)]
  BY DEF (+)
<1>2. /\ \A e \in DOMAIN b : b[e] \in Nat /\ b[e] > 0
      /\ \A e \in DOMAIN c : c[e] \in Nat /\ c[e] > 0
  BY DEF IsABag
<1> HIDE DEF d
<1>3. DOMAIN d = DOMAIN b \cup DOMAIN c
  BY <1>1
<1>4. ASSUME NEW e \in DOMAIN d PROVE d[e] \in Nat /\ d[e] > 0
  <2>1. d[e] = (IF e \in DOMAIN b THEN b[e] ELSE 0) + (IF e \in DOMAIN c THEN c[e] ELSE 0)
    BY <1>1, <1>3
  <2> QED BY <1>2, <1>3, <2>1
<1>5. IsABag(d)
  BY <1>1, <1>3, <1>4 DEF IsABag
<1> QED BY <1>3, <1>5 DEF d

\* What a bag holds when one copy of x is taken.
LEMMA BagTakeRange ==
    ASSUME NEW b, IsABag(b), NEW x
    PROVE  /\ IsABag(b (-) SetToBag({x}))
           /\ DOMAIN (b (-) SetToBag({x})) \subseteq DOMAIN b
           /\ DOMAIN b \ {x} \subseteq DOMAIN (b (-) SetToBag({x}))
<1> DEFINE c == [e \in DOMAIN b |-> IF e \in {x} THEN b[e] - 1 ELSE b[e]]
           d == b (-) SetToBag({x})
<1>1. d = [e \in {g \in DOMAIN c : c[g] > 0} |-> c[e]]
  BY DEF (-), SetToBag
<1>2. \A e \in DOMAIN b : b[e] \in Nat /\ b[e] > 0
  BY DEF IsABag
<1>3. DOMAIN c = DOMAIN b /\ \A e \in DOMAIN b : c[e] \in Nat /\ (e # x => c[e] > 0)
  BY <1>2
<1> HIDE DEF c, d
<1>4. DOMAIN d = {g \in DOMAIN b : c[g] > 0} /\ \A e \in DOMAIN d : d[e] = c[e]
  BY <1>1, <1>3
<1>5. IsABag(d)
  BY <1>1, <1>3, <1>4 DEF IsABag
<1> QED BY <1>3, <1>4, <1>5 DEF d

\* The bag of a set.
LEMMA SetBagRange ==
    ASSUME NEW S
    PROVE  IsABag(SetToBag(S)) /\ DOMAIN SetToBag(S) = S
BY DEF SetToBag, IsABag

\* The bag of a sequence.
LEMMA SeqBagRange ==
    ASSUME NEW A, NEW s \in Seq(A)
    PROVE  IsABag(BagOf(s)) /\ DOMAIN BagOf(s) = Range(s)
<1> DEFINE at(x) == {i \in DOMAIN s : s[i] = x}
<1>1. DOMAIN s = 1 .. Len(s) /\ Len(s) \in Nat
  BY LenProperties
<1>2. IsFiniteSet(DOMAIN s)
  BY <1>1, FS_Interval
<1>3. ASSUME NEW x \in Range(s) PROVE Cardinality(at(x)) \in Nat /\ Cardinality(at(x)) > 0
  <2>1. at(x) \in SUBSET DOMAIN s /\ at(x) # {}
    BY DEF Range
  <2> HIDE DEF at
  <2>2. IsFiniteSet(at(x))
    BY <1>2, <2>1, FS_Subset
  <2>3. Cardinality(at(x)) \in Nat /\ Cardinality(at(x)) # 0
    BY <2>1, <2>2, FS_CardinalityType, FS_EmptySet
  <2> QED BY <2>3
<1>4. BagOf(s) = [x \in Range(s) |-> Cardinality(at(x))]
  BY DEF BagOf
<1> HIDE DEF at
<1> QED BY <1>3, <1>4 DEF IsABag

----------------------------------------------------------------------------
(* One message: what the routines working on it leave.                     *)

\* A message has the shape given by its number of fragments.
LEMMA MsgShape ==
    ASSUME NEW um \in Msg
    PROVE  LET n == Fragcnt(um)
           IN  n \in 1 .. FragMax /\ um \in UMsg(n) /\ DOMAIN um.fragments = 0 .. n - 1
<1>1. PICK n \in 1 .. FragMax : um \in UMsg(n)
  BY DEF Msg
<1>2. DOMAIN um.fragments = 0 .. n - 1 /\ n \in Nat
  BY <1>1 DEF UMsg, FragMax
<1>3. Cardinality(0 .. n - 1) = n
  BY <1>2, <1>1, FS_Interval DEF FragMax
<1>4. Fragcnt(um) = n
  BY <1>2, <1>3 DEF Fragcnt
<1> QED BY <1>1, <1>2, <1>4

\* The fields of a message of n fragments.
LEMMA MsgFields ==
    ASSUME NEW n \in 1 .. FragMax, NEW um \in UMsg(n)
    PROVE  /\ um \in Msg /\ Fragcnt(um) = n /\ n \in Nat /\ n <= 255
           /\ DOMAIN um.fragments = 0 .. n - 1
           /\ LiveFrags(um) = {f \in 0 .. n - 1 : um.fragments[f] # Null}
           /\ LiveFrags(um) \subseteq 0 .. n - 1
           /\ \A f \in LiveFrags(um) : um.fragments[f] \in UFrag
           /\ um.resend \in Seq(0 .. n - 1)
           /\ Waiting(um) \subseteq 0 .. n - 1 /\ Flagged(um) \subseteq 0 .. n - 1
           /\ IsFiniteSet(Waiting(um)) /\ Cardinality(Waiting(um)) \in Nat
           /\ Cardinality(Waiting(um)) <= n
<1>1. um \in Msg
  BY DEF Msg
<1>2. DOMAIN um.fragments = 0 .. n - 1 /\ um.resend \in Seq(0 .. n - 1)
      /\ \A f \in 0 .. n - 1 : um.fragments[f] \in UFrag \cup {Null}
  BY DEF UMsg
<1>3. n \in Nat /\ n <= 255 /\ 1 <= n
  BY DEF FragMax
<1>4. Cardinality(0 .. n - 1) = n /\ IsFiniteSet(0 .. n - 1)
  BY <1>3, FS_Interval
<1>5. Fragcnt(um) = n
  BY <1>2, <1>4 DEF Fragcnt
<1>6. LiveFrags(um) = {f \in 0 .. n - 1 : um.fragments[f] # Null}
  BY <1>2 DEF LiveFrags
<1>7. Waiting(um) \subseteq 0 .. n - 1 /\ Flagged(um) \subseteq 0 .. n - 1
  BY <1>6 DEF Waiting, Flagged
<1>8. IsFiniteSet(Waiting(um)) /\ Cardinality(Waiting(um)) <= n
  BY <1>4, <1>7, FS_Subset
<1>9. Cardinality(Waiting(um)) \in Nat
  BY <1>8, FS_CardinalityType
<1> QED BY <1>1, <1>2, <1>3, <1>5, <1>6, <1>7, <1>8, <1>9

\* What a routine leaves alone: who the message is for, the books, what is known
\* of the remote host.
SameIdent(um, v) == v.to = um.to /\ v.seqno = um.seqno /\ v.reliable = um.reliable
SameBooks(um, v) ==
    /\ v.fragments = um.fragments /\ v.resend = um.resend
    /\ v.pending = um.pending /\ v.lingering = um.lingering
SameSignals(um, v) ==
    /\ v.alive = um.alive /\ v.expecting_ack = um.expecting_ack
    /\ v.ear_pending = um.ear_pending /\ v.ear_ev = um.ear_ev

\* The books only depend on the fragments, the resend list and the counts.
LEMMA SameBooksKeep ==
    ASSUME NEW um, NEW v, SameBooks(um, v)
    PROVE  /\ LiveFrags(v) = LiveFrags(um) /\ Flagged(v) = Flagged(um) /\ Waiting(v) = Waiting(um)
           /\ Fragcnt(v) = Fragcnt(um)
           /\ Books(um) => Books(v)
<1>1. LiveFrags(v) = LiveFrags(um) /\ Fragcnt(v) = Fragcnt(um)
  BY DEF LiveFrags, SameBooks, Fragcnt
<1>2. Flagged(v) = Flagged(um) /\ Waiting(v) = Waiting(um)
  BY <1>1 DEF Flagged, Waiting, SameBooks
<1>3. Books(um) => Books(v)
  BY <1>2 DEF Books, ListExact, SameBooks
<1> QED BY <1>1, <1>2, <1>3

\* ut_resend_async()
LEMMA AsyncShape ==
    ASSUME NEW n \in 1 .. FragMax, NEW um \in UMsg(n)
    PROVE  LET v == ut_resend_async(um)
           IN  /\ v \in UMsg(n)
               /\ SameIdent(um, v) /\ SameBooks(um, v) /\ SameSignals(um, v)
               /\ v.cautious = um.cautious /\ v.alpha = um.alpha
               /\ v.iterate_ev = (um.iterate_ev \/ um.resend # <<>>)
<1> DEFINE v == ut_resend_async(um)
<1>1. v = [um EXCEPT !.iterate_ev = um.iterate_ev \/ um.resend # <<>>]
  BY DEF ut_resend_async
<1>2. (um.iterate_ev \/ um.resend # <<>>) \in BOOLEAN
  BY DEF UMsg
<1>3. v \in UMsg(n)
  BY <1>1, <1>2, ZenonT(60) DEF UMsg
<1>4. SameIdent(um, v) /\ SameBooks(um, v) /\ SameSignals(um, v)
  BY <1>1 DEF UMsg, SameIdent, SameBooks, SameSignals
<1>5. v.cautious = um.cautious /\ v.alpha = um.alpha
      /\ v.iterate_ev = (um.iterate_ev \/ um.resend # <<>>)
  BY <1>1 DEF UMsg
<1> QED BY <1>3, <1>4, <1>5

\* The counter of pending fragments is a byte.
LEMMA ByteMinus ==
    ASSUME NEW b \in 0 .. 255, NEW k \in 0 .. 255
    PROVE  /\ (b - k) % 256 \in 0 .. 255 /\ (k <= b => (b - k) % 256 = b - k)
           /\ (b + k) % 256 \in 0 .. 255 /\ (b + k <= 255 => (b + k) % 256 = b + k)
<1>1. b - k \in Int /\ b + k \in Int
  OBVIOUS
<1>2. \A x \in Int : x % 256 \in 0 .. 255
  OBVIOUS
<1>3. \A x \in 0 .. 255 : x % 256 = x
  OBVIOUS
<1>4. k <= b => b - k \in 0 .. 255
  OBVIOUS
<1>5. b + k <= 255 => b + k \in 0 .. 255
  OBVIOUS
<1> QED BY <1>1, <1>2, <1>3, <1>4, <1>5, ZenonT(60)

\* The decrement of a byte that is not zero does not wrap.
LEMMA ByteDecr ==
    ASSUME NEW b \in 0 .. 255
    PROVE  Decr(b) \in 0 .. 255 /\ (b > 0 => Decr(b) = b - 1)
<1>1. 1 \in 0 .. 255 /\ (b > 0 => 1 <= b)
  OBVIOUS
<1>2. (b - 1) % 256 \in 0 .. 255 /\ (1 <= b => (b - 1) % 256 = b - 1)
  BY <1>1, ByteMinus, ZenonT(60)
<1> QED BY <1>1, <1>2 DEF Decr

\* Removing a member removes one.
LEMMA CardRemove ==
    ASSUME NEW S, IsFiniteSet(S), NEW x \in S
    PROVE  /\ Cardinality(S \ {x}) = Cardinality(S) - 1
           /\ Cardinality(S) \in Nat /\ Cardinality(S) > 0
<1>1. Cardinality(S) \in Nat
  BY FS_CardinalityType
<1>2. Cardinality(S) # 0
  BY FS_EmptySet
<1>3. Cardinality(S \ {x}) = Cardinality(S) - 1
  BY FS_RemoveElement
<1> QED BY <1>1, <1>2, <1>3

\* v is um less some fragments that were freed, the last one waited for leaving
\* an iteration scheduled.
FreedFrom(um, v) ==
    /\ SameIdent(um, v) /\ SameSignals(um, v)
    /\ v.cautious = um.cautious /\ v.lingering = um.lingering /\ v.alpha = um.alpha
    /\ LiveFrags(v) \subseteq LiveFrags(um)
    /\ \A f \in LiveFrags(v) : v.fragments[f] = um.fragments[f]
    /\ v.resend # <<>> => um.resend # <<>>
    /\ um.iterate_ev => v.iterate_ev
    /\ Waiting(um) # {} /\ v.resend # <<>> => v.iterate_ev \/ Waiting(v) # {}

\* ut_frag_free()
LEMMA FragFreeShape ==
    ASSUME NEW n \in 1 .. FragMax, NEW um \in UMsg(n), Books(um), NEW f \in 0 .. n - 1
    PROVE  LET v == ut_frag_free(um, f)
           IN  v \in UMsg(n) /\ Books(v) /\ FreedFrom(um, v) /\ LiveFrags(v) = LiveFrags(um) \ {f}
<1> DEFINE v == ut_frag_free(um, f)
           uf == um.fragments[f]
<1>0. /\ DOMAIN um.fragments = 0 .. n - 1
      /\ LiveFrags(um) = {g \in 0 .. n - 1 : um.fragments[g] # Null}
      /\ \A g \in LiveFrags(um) : um.fragments[g] \in UFrag
      /\ um.resend \in Seq(0 .. n - 1)
      /\ IsFiniteSet(Waiting(um)) /\ Cardinality(Waiting(um)) <= n /\ n <= 255 /\ n \in Nat
  BY MsgFields
<1>1. CASE uf = Null
  <2>1. v = um
    BY <1>1 DEF ut_frag_free
  <2>2. LiveFrags(um) = LiveFrags(um) \ {f}
    BY <1>0, <1>1
  <2>3. FreedFrom(um, um)
    BY DEF FreedFrom, SameIdent, SameSignals
  <2> QED BY <2>1, <2>2, <2>3
<1>2. CASE uf # Null
  <2> DEFINE list == IF uf.resend THEN RemoveFirst(um.resend, f) ELSE um.resend
             gone == [um EXCEPT !.fragments[f] = Null, !.resend = list]
             less == [gone EXCEPT !.pending = Decr(@)]
  <2>1. f \in LiveFrags(um) /\ uf \in UFrag /\ uf.resend \in BOOLEAN /\ uf.pending \in BOOLEAN
    BY <1>0, <1>2 DEF UFrag
  <2>2. v = IF uf.pending THEN ut_resend_async(less) ELSE gone
    BY <1>2 DEF ut_frag_free
  <2>3. /\ list \in Seq(0 .. n - 1) /\ IsInjective(list) /\ Range(list) = Flagged(um) \ {f}
        /\ list # <<>> => um.resend # <<>>
    <3>1. IsInjective(um.resend) /\ Range(um.resend) = Flagged(um)
      BY DEF Books, ListExact
    <3>2. CASE uf.resend
      <4>1. f \in Range(um.resend)
        BY <2>1, <3>1, <3>2 DEF Flagged
      <4>2. list = RemoveFirst(um.resend, f)
        BY <3>2
      <4> QED BY <1>0, <3>1, <4>1, <4>2, RemoveRange
    <3>3. CASE ~uf.resend
      <4>1. f \notin Flagged(um)
        BY <3>3 DEF Flagged
      <4>2. list = um.resend
        BY <3>3
      <4> QED BY <1>0, <3>1, <4>1, <4>2
    <3> QED BY <2>1, <3>2, <3>3
  <2> HIDE DEF list
  <2>4. gone \in UMsg(n) /\ gone.fragments = [um.fragments EXCEPT ![f] = Null] /\ gone.resend = list
        /\ gone.pending = um.pending /\ gone.lingering = um.lingering
        /\ gone.iterate_ev = um.iterate_ev
        /\ SameIdent(um, gone) /\ SameSignals(um, gone)
        /\ gone.cautious = um.cautious /\ gone.alpha = um.alpha
    <3>1. [um.fragments EXCEPT ![f] = Null] \in [0 .. n - 1 -> UFrag \cup {Null}]
      BY DEF UMsg
    <3>2. gone \in UMsg(n)
      BY <2>3, <3>1 DEF UMsg
    <3> QED BY <3>2 DEF UMsg, SameIdent, SameSignals
  <2>5. /\ LiveFrags(gone) = LiveFrags(um) \ {f}
        /\ \A g \in LiveFrags(gone) : gone.fragments[g] = um.fragments[g]
        /\ Flagged(gone) = Flagged(um) \ {f} /\ Waiting(gone) = Waiting(um) \ {f}
    <3> HIDE DEF gone
    <3>1. /\ LiveFrags(gone) = LiveFrags(um) \ {f}
          /\ \A g \in LiveFrags(gone) : gone.fragments[g] = um.fragments[g]
      BY <1>0, <2>4 DEF LiveFrags
    <3> QED BY <3>1 DEF Flagged, Waiting
  <2> HIDE DEF gone
  <2>6. ListExact(gone)
    BY <2>3, <2>4, <2>5 DEF ListExact, Books
  <2>7. CASE ~uf.pending
    <3>1. v = gone
      BY <2>1, <2>2, <2>7
    <3>2. Waiting(gone) = Waiting(um)
      BY <2>5, <2>7 DEF Waiting
    <3>3. Books(gone)
      BY <2>4, <2>6, <3>2 DEF Books
    <3>4. FreedFrom(um, gone)
      BY <2>3, <2>4, <2>5, <3>2 DEF FreedFrom
    <3> QED BY <2>4, <2>5, <3>1, <3>3, <3>4
  <2>8. CASE uf.pending
    <3>1. v = ut_resend_async(less)
      BY <2>1, <2>2, <2>8
    <3>2. um.pending \in 0 .. 255 /\ Decr(um.pending) \in 0 .. 255
      <4>1. um.pending \in 0 .. 255
        BY DEF UMsg
      <4> QED BY <4>1, ByteDecr
    <3>3. less \in UMsg(n) /\ less.fragments = gone.fragments /\ less.resend = list
          /\ less.pending = Decr(um.pending) /\ less.lingering = um.lingering
          /\ less.iterate_ev = um.iterate_ev
          /\ SameIdent(um, less) /\ SameSignals(um, less)
          /\ less.cautious = um.cautious /\ less.alpha = um.alpha
      <4>1. less \in UMsg(n)
        BY <2>4, <3>2 DEF UMsg
      <4> QED BY <2>4, <4>1 DEF UMsg, SameIdent, SameSignals
    <3> HIDE DEF less
    <3>4. /\ v \in UMsg(n)
          /\ SameIdent(less, v) /\ SameBooks(less, v) /\ SameSignals(less, v)
          /\ v.cautious = less.cautious /\ v.alpha = less.alpha
          /\ v.iterate_ev = (less.iterate_ev \/ less.resend # <<>>)
      BY <3>1, <3>3, AsyncShape
    <3> HIDE DEF v
    <3>5. v.fragments = gone.fragments /\ v.resend = gone.resend
      BY <2>4, <3>3, <3>4 DEF SameBooks
    <3>6. LiveFrags(v) = LiveFrags(gone) /\ Flagged(v) = Flagged(gone) /\ Waiting(v) = Waiting(gone)
      BY <3>5 DEF LiveFrags, Flagged, Waiting
    <3>7. ListExact(v)
      BY <2>6, <3>5, <3>6 DEF ListExact
    <3>8. ASSUME ~v.lingering PROVE v.pending = Cardinality(Waiting(v))
      <4>1. um.pending = Cardinality(Waiting(um))
        BY <3>3, <3>4, <3>8 DEF Books, SameBooks
      <4>2. f \in Waiting(um)
        BY <2>1, <2>8 DEF Waiting
      <4>3. Cardinality(Waiting(um) \ {f}) = Cardinality(Waiting(um)) - 1
            /\ Cardinality(Waiting(um)) > 0
        BY <1>0, <4>2, CardRemove
      <4>4. Decr(um.pending) = um.pending - 1
        BY <3>2, <4>1, <4>3, ByteDecr
      <4>5. v.pending = Decr(um.pending)
        BY <3>3, <3>4 DEF SameBooks
      <4> QED BY <2>5, <3>6, <4>1, <4>3, <4>4, <4>5
    <3>9. Books(v)
      BY <3>7, <3>8 DEF Books
    <3>10. FreedFrom(um, v)
      <4>1. SameIdent(um, v) /\ SameSignals(um, v) /\ v.lingering = um.lingering
        BY <3>3, <3>4 DEF SameIdent, SameSignals, SameBooks
      <4>2. v.resend # <<>> => v.iterate_ev
        BY <3>3, <3>4, <3>5, <2>4
      <4>3. um.iterate_ev => v.iterate_ev
        BY <3>3, <3>4
      <4>4. v.cautious = um.cautious /\ v.alpha = um.alpha
        BY <3>3, <3>4
      <4>5. LiveFrags(v) \subseteq LiveFrags(um) /\ \A g \in LiveFrags(v) : v.fragments[g] = um.fragments[g]
        BY <2>5, <3>5, <3>6
      <4> QED BY <2>3, <2>4, <3>5, <4>1, <4>2, <4>3, <4>4, <4>5 DEF FreedFrom
    <3> QED BY <2>5, <3>4, <3>6, <3>9, <3>10 DEF v
  <2> QED BY <2>1, <2>7, <2>8
<1> QED BY <1>1, <1>2

\* Freeing fragments in several stages.
LEMMA FreedTransitive ==
    ASSUME NEW u, NEW v, NEW w, FreedFrom(u, v), FreedFrom(v, w)
    PROVE  FreedFrom(u, w)
<1>1. SameIdent(u, w) /\ SameSignals(u, w)
  BY DEF FreedFrom, SameIdent, SameSignals
<1>2. w.cautious = u.cautious /\ w.lingering = u.lingering /\ w.alpha = u.alpha
  BY DEF FreedFrom
<1>3. LiveFrags(w) \subseteq LiveFrags(u) /\ \A f \in LiveFrags(w) : w.fragments[f] = u.fragments[f]
  BY DEF FreedFrom
<1>4. /\ w.resend # <<>> => u.resend # <<>>
      /\ u.iterate_ev => w.iterate_ev
      /\ Waiting(u) # {} /\ w.resend # <<>> => w.iterate_ev \/ Waiting(w) # {}
  BY DEF FreedFrom
<1> QED BY <1>1, <1>2, <1>3, <1>4 DEF FreedFrom

\* An ACK names fragments of the message.
LEMMA AckedInMessage ==
    ASSUME NEW n \in 1 .. FragMax, NEW um \in UMsg(n), NEW ack \in Acks, ack.fragno < n
    PROVE  AckedFrags(um, ack) \in SUBSET (0 .. n - 1) /\ ack.fragno \in 0 .. n - 1
<1>1. Fragcnt(um) = n /\ n \in Nat
  BY MsgFields
<1>2. ack.fragno \in Nat
  BY DEF Acks, Part, FragMax
<1>3. ack.fragno \in 0 .. n - 1
  BY <1>1, <1>2
<1>4. WindowBase(ack) \in Nat
  BY <1>2 DEF WindowBase
<1>5. WindowEnd(WindowBase(ack), n) \in Nat /\ WindowEnd(WindowBase(ack), n) <= n
  BY <1>1, <1>4, MissingBitsAssumption DEF WindowEnd
<1>6. WindowReceived(ack, n) \subseteq 0 .. n - 1
  BY <1>1, <1>4, <1>5 DEF WindowReceived
<1>7. ImpliedReceived(ack, n) \subseteq 0 .. n - 1
  BY <1>1, <1>5 DEF ImpliedReceived
<1>8. \A i \in 1 .. 3 : Stages(um, ack)[i] \subseteq 0 .. n - 1
  <2>1. {ack.fragno} \subseteq 0 .. n - 1
    BY <1>3
  <2>2. (IF ack.cumulative THEN 0 .. ack.fragno - 1 ELSE {}) \subseteq 0 .. n - 1
    BY <1>1, <1>3
  <2>3. (IF ack.received # 0 THEN WindowReceived(ack, n) \cup ImpliedReceived(ack, n) ELSE {})
          \subseteq 0 .. n - 1
    BY <1>6, <1>7
  <2>4. Stages(um, ack) =
          <<{ack.fragno}, IF ack.cumulative THEN 0 .. ack.fragno - 1 ELSE {},
            IF ack.received # 0 THEN WindowReceived(ack, n) \cup ImpliedReceived(ack, n) ELSE {}>>
    BY <1>1 DEF Stages
  <2>5. /\ Stages(um, ack)[1] = {ack.fragno}
        /\ Stages(um, ack)[2] = IF ack.cumulative THEN 0 .. ack.fragno - 1 ELSE {}
        /\ Stages(um, ack)[3] = IF ack.received # 0
                THEN WindowReceived(ack, n) \cup ImpliedReceived(ack, n) ELSE {}
    BY <2>4
  <2>6. \A i \in 1 .. 3 : i = 1 \/ i = 2 \/ i = 3
    OBVIOUS
  <2> QED BY <2>1, <2>2, <2>3, <2>5, <2>6
<1>9. AckedFrags(um, ack) \subseteq 0 .. n - 1
  BY <1>8 DEF AckedFrags
<1> QED BY <1>3, <1>9

\* ut_got_ack(): the fragments that an ACK names are freed one after the other.
LEMMA FreeAckedShape ==
    ASSUME NEW n \in 1 .. FragMax, NEW um \in UMsg(n), Books(um), NEW ack \in Acks, ack.fragno < n
    PROVE  LET v == FreeAcked(um, ack)
           IN  /\ v \in UMsg(n) /\ Books(v) /\ FreedFrom(um, v)
               /\ LiveFrags(um) \ AckedFrags(um, ack) \subseteq LiveFrags(v)
<1> DEFINE acked == AckedFrags(um, ack)
           first == IF ack.fragno \in acked THEN <<ack.fragno>> ELSE <<>>
           order == first \o Ascending(acked \ {ack.fragno})
           k == Len(order)
           Good == {v \in UMsg(n) : /\ Books(v) /\ FreedFrom(um, v)
                                    /\ LiveFrags(um) \ acked \subseteq LiveFrags(v)}
           S == [i \in 0 .. k |-> Good]
           f == [i \in 1 .. k |-> [v \in Good |-> ut_frag_free(v, order[i])]]
<1>1. acked \in SUBSET (0 .. n - 1) /\ ack.fragno \in 0 .. n - 1 /\ n \in Nat
  BY AckedInMessage, MsgFields
<1>2. order \in Seq(acked)
  <2>1. acked \ {ack.fragno} \in SUBSET (0 .. n - 1)
    BY <1>1
  <2>2. Ascending(acked \ {ack.fragno}) \in Seq(acked \ {ack.fragno})
    <3> HIDE DEF acked
    <3> QED BY <1>1, <2>1, AscendingRange
  <2>3. Ascending(acked \ {ack.fragno}) \in Seq(acked)
    <3> HIDE DEF acked
    <3> QED BY <2>1, <2>2
  <2>4. first \in Seq(acked)
    <3>1. ack.fragno \in acked => <<ack.fragno>> \in Seq(acked)
      OBVIOUS
    <3>2. <<>> \in Seq(acked)
      OBVIOUS
    <3> QED BY <3>1, <3>2, Zenon
  <2> HIDE DEF first, acked
  <2> QED BY <2>3, <2>4
<1> HIDE DEF order, acked
<1>3. k \in Nat /\ \A i \in 1 .. k : order[i] \in 0 .. n - 1 /\ order[i] \in acked
  <2>1. k \in Nat /\ \A i \in 1 .. k : order[i] \in acked
    BY <1>2
  <2> QED BY <1>1, <2>1
<1>4. um \in Good
  BY DEF FreedFrom, SameIdent, SameSignals
<1>5. ASSUME NEW v \in Good, NEW i \in 1 .. k PROVE ut_frag_free(v, order[i]) \in Good
  <2>1. /\ order[i] \in 0 .. n - 1 /\ v \in UMsg(n) /\ Books(v) /\ FreedFrom(um, v)
        /\ order[i] \in acked /\ LiveFrags(um) \ acked \subseteq LiveFrags(v)
    BY <1>3
  <2>2. LET w == ut_frag_free(v, order[i])
        IN  w \in UMsg(n) /\ Books(w) /\ FreedFrom(v, w) /\ LiveFrags(w) = LiveFrags(v) \ {order[i]}
    BY <2>1, FragFreeShape
  <2> QED BY <2>1, <2>2, FreedTransitive
<1> HIDE DEF Good
<1>6. \A i \in 1 .. k : \A v \in Good : f[i][v] \in Good /\ f[i][v] = ut_frag_free(v, order[i])
  BY <1>5
<1>7. \A i \in 0 .. k : S[i] = Good
  OBVIOUS
<1> HIDE DEF f, k, S
<1>8. \E r : r = [i \in 0 .. k |-> IF i = 0 THEN um ELSE ut_frag_free(r[i - 1], order[i])]
  <2>0. \A i \in 1 .. k : i \in 0 .. k /\ i - 1 \in 0 .. k
    BY <1>3
  <2>1. LoopRoundsKeep(k, S, f)
    BY <1>6, <1>7, <2>0 DEF LoopRoundsKeep
  <2>2. um \in S[0]
    BY <1>3, <1>4, <1>7
  <2>3. PICK r : LoopRounds(k, S, um, f, r)
    BY <1>3, <2>1, <2>2, LoopExists
  <2>4. /\ r = [i \in 0 .. k |-> IF i = 0 THEN um ELSE f[i][r[i - 1]]]
        /\ \A i \in 0 .. k : r[i] \in Good
    BY <1>7, <2>3 DEF LoopRounds
  <2>5. \A i \in 0 .. k : i # 0 => i \in 1 .. k /\ i - 1 \in 0 .. k
    BY <1>3
  <2>6. \A i \in 0 .. k : i # 0 => f[i][r[i - 1]] = ut_frag_free(r[i - 1], order[i])
    BY <1>6, <2>4, <2>5
  <2>7. r = [i \in 0 .. k |-> IF i = 0 THEN um ELSE ut_frag_free(r[i - 1], order[i])]
    BY <2>4, <2>6
  <2> QED BY <2>7
<1>9. PICK r : /\ r = [i \in 0 .. k |-> IF i = 0 THEN um ELSE ut_frag_free(r[i - 1], order[i])]
               /\ FreeAcked(um, ack) = r[k]
  BY <1>8, Zenon DEF FreeAcked, order, k, acked
<1>10. r[k] \in Good
  <2>1. r[0] = um /\ \A i \in 1 .. k : r[i] = ut_frag_free(r[i - 1], order[i])
    BY <1>3, <1>9
  <2>2. r[0] \in S[0]
    BY <1>3, <1>4, <1>7, <2>1
  <2>3. \A i \in 1 .. k : i \in 0 .. k /\ i - 1 \in 0 .. k
    BY <1>3
  <2>4. \A i \in 1 .. k : r[i - 1] \in S[i - 1] => r[i] \in S[i]
    BY <1>5, <1>7, <2>1, <2>3
  <2>5. \A i \in 0 .. k : r[i] \in S[i]
    BY <1>3, <2>2, <2>4, LoopInduction
  <2> QED BY <1>3, <1>7, <2>5
<1> QED BY <1>9, <1>10 DEF Good, acked

\* ut_send_remaining()
LEMMA RemainingShape ==
    ASSUME NEW n \in 1 .. FragMax, NEW um \in UMsg(n), Books(um)
    PROVE  LET v == ut_send_remaining(um)
           IN  /\ v \in UMsg(n) /\ Books(v)
               /\ SameIdent(um, v) /\ SameSignals(um, v) /\ LiveFrags(v) = LiveFrags(um)
               /\ v.resend = <<>> /\ ~v.cautious /\ v.lingering = um.lingering
<1> DEFINE v == ut_send_remaining(um)
           frags == [f \in DOMAIN um.fragments |->
                        IF um.fragments[f] = Null THEN Null
                        ELSE [um.fragments[f] EXCEPT !.resend = FALSE, !.resend_ev = FALSE]]
<1>0. /\ DOMAIN um.fragments = 0 .. n - 1
      /\ LiveFrags(um) = {g \in 0 .. n - 1 : um.fragments[g] # Null}
      /\ \A g \in LiveFrags(um) : um.fragments[g] \in UFrag
  BY MsgFields
<1>1. v = [um EXCEPT !.cautious = FALSE, !.resend = <<>>, !.fragments = frags]
  BY DEF ut_send_remaining
<1>2. ASSUME NEW f \in LiveFrags(um)
      PROVE  /\ frags[f] \in UFrag /\ frags[f] # Null
             /\ frags[f].resend = FALSE /\ frags[f].pending = um.fragments[f].pending
  <2>1. f \in 0 .. n - 1 /\ um.fragments[f] # Null /\ um.fragments[f] \in UFrag
    BY <1>0
  <2>2. frags[f] = [um.fragments[f] EXCEPT !.resend = FALSE, !.resend_ev = FALSE]
    BY <1>0, <2>1
  <2>3. frags[f] \in UFrag /\ frags[f].resend = FALSE /\ frags[f].pending = um.fragments[f].pending
    BY <2>1, <2>2 DEF UFrag
  <2> QED BY <2>3, TagsAssumption
<1>3. \A f \in 0 .. n - 1 : f \notin LiveFrags(um) => frags[f] = Null
  BY <1>0
<1>4. frags \in [0 .. n - 1 -> UFrag \cup {Null}]
  <2>1. DOMAIN frags = 0 .. n - 1 /\ \A f \in 0 .. n - 1 : frags[f] \in UFrag \cup {Null}
    BY <1>0, <1>2, <1>3
  <2> QED BY <2>1
<1> HIDE DEF frags
<1>5. v \in UMsg(n) /\ v.fragments = frags /\ v.resend = <<>> /\ v.cautious = FALSE
      /\ v.pending = um.pending /\ v.lingering = um.lingering
      /\ SameIdent(um, v) /\ SameSignals(um, v)
  <2>0. <<>> \in Seq(0 .. n - 1)
    OBVIOUS
  <2>1. v \in UMsg(n)
    BY <1>1, <1>4, <2>0, ZenonT(60) DEF UMsg
  <2> QED BY <1>1, <2>1 DEF UMsg, SameIdent, SameSignals
<1> HIDE DEF v
<1>6. LiveFrags(v) = LiveFrags(um)
  <2>1. LiveFrags(v) = {g \in 0 .. n - 1 : frags[g] # Null}
    BY <1>4, <1>5 DEF LiveFrags
  <2> QED BY <1>0, <1>2, <1>3, <2>1
<1>7. Flagged(v) = {} /\ Waiting(v) = Waiting(um)
  BY <1>2, <1>5, <1>6 DEF Flagged, Waiting
<1>8. Books(v)
  <2>1. IsInjective(<<>>) /\ Range(<<>>) = {}
    BY DEF IsInjective, Range
  <2>2. ListExact(v)
    BY <1>5, <1>7, <2>1 DEF ListExact
  <2> QED BY <1>5, <1>7, <2>2 DEF Books
<1> QED BY <1>5, <1>6, <1>8 DEF v

\* ut_send_unacknowleged()
LEMMA UnackedShape ==
    ASSUME NEW n \in 1 .. FragMax, NEW um \in UMsg(n), Books(um)
    PROVE  LET v == ut_send_unacknowleged(um)
           IN  /\ v \in UMsg(n) /\ Books(v)
               /\ SameIdent(um, v) /\ SameSignals(um, v) /\ LiveFrags(v) = LiveFrags(um)
               /\ v.lingering = um.lingering /\ v.cautious = um.cautious
               /\ \A f \in LiveFrags(v) : v.fragments[f].resend
               /\ v.resend # <<>> => v.iterate_ev
<1> DEFINE v == ut_send_unacknowleged(um)
           added == {f \in LiveFrags(um) : ~um.fragments[f].resend}
           k == Cardinality({f \in added : um.fragments[f].pending})
           list == Reverse(Ascending(added)) \o um.resend
           count == (um.pending - k) % 256
           frags == [f \in DOMAIN um.fragments |->
                        IF um.fragments[f] = Null THEN Null
                        ELSE [um.fragments[f] EXCEPT !.resend = TRUE, !.resend_ev = FALSE,
                                      !.pending = um.fragments[f].pending /\ f \notin added]]
           w == [um EXCEPT !.resend = list, !.pending = count, !.fragments = frags]
<1>0. /\ DOMAIN um.fragments = 0 .. n - 1
      /\ LiveFrags(um) = {g \in 0 .. n - 1 : um.fragments[g] # Null}
      /\ \A g \in LiveFrags(um) : um.fragments[g] \in UFrag
      /\ um.resend \in Seq(0 .. n - 1) /\ n \in Nat /\ n <= 255
      /\ IsFiniteSet(Waiting(um)) /\ Cardinality(Waiting(um)) \in Nat /\ Cardinality(Waiting(um)) <= n
      /\ um.pending \in 0 .. 255
  <2>1. um.pending \in 0 .. 255
    BY DEF UMsg
  <2> QED BY <2>1, MsgFields
<1>1. v = ut_resend_async(w)
  BY DEF ut_send_unacknowleged
<1>2. added = LiveFrags(um) \ Flagged(um) /\ added \in SUBSET (0 .. n - 1)
  BY <1>0 DEF Flagged
<1>3. {f \in added : um.fragments[f].pending} = Waiting(um)
  <2>1. Flagged(um) \cap Waiting(um) = {}
    BY DEF Books, ListExact
  <2>2. Waiting(um) \subseteq added
    BY <1>2, <2>1 DEF Waiting
  <2>3. Waiting(um) = {f \in LiveFrags(um) : um.fragments[f].pending} /\ added \subseteq LiveFrags(um)
    BY DEF Waiting
  <2> HIDE DEF added
  <2> QED BY <2>2, <2>3
<1>4. list \in Seq(0 .. n - 1) /\ IsInjective(list) /\ Range(list) = LiveFrags(um)
  <2> HIDE DEF added
  <2>1. /\ Ascending(added) \in Seq(added) /\ IsInjective(Ascending(added))
        /\ Range(Ascending(added)) = added
    BY <1>0, <1>2, AscendingRange
  <2>2. Ascending(added) \in Seq(0 .. n - 1)
    BY <1>2, <2>1
  <2>3. /\ Reverse(Ascending(added)) \in Seq(0 .. n - 1) /\ IsInjective(Reverse(Ascending(added)))
        /\ Range(Reverse(Ascending(added))) = added
    BY <2>1, <2>2, ReverseRange
  <2>4. IsInjective(um.resend) /\ Range(um.resend) = Flagged(um) /\ added \cap Flagged(um) = {}
    BY <1>2 DEF Books, ListExact
  <2>5. added \cup Flagged(um) = LiveFrags(um)
    BY <1>2 DEF Flagged
  <2> QED BY <1>0, <2>3, <2>4, <2>5, ConcatRange
<1>5. ASSUME NEW f \in LiveFrags(um)
      PROVE  frags[f] \in UFrag /\ frags[f] # Null /\ frags[f].resend = TRUE /\ frags[f].pending = FALSE
  <2>1. f \in 0 .. n - 1 /\ um.fragments[f] # Null /\ um.fragments[f] \in UFrag
    BY <1>0
  <2>2. (um.fragments[f].pending /\ f \notin added) = FALSE
    <3>1. um.fragments[f].pending \in BOOLEAN
      BY <2>1 DEF UFrag
    <3>2. um.fragments[f].pending => f \in added
      <4>1. um.fragments[f].pending => f \in Waiting(um)
        BY DEF Waiting
      <4> HIDE DEF added
      <4> QED BY <1>3, <4>1
    <3> QED BY <3>1, <3>2
  <2>3. frags[f] = [um.fragments[f] EXCEPT !.resend = TRUE, !.resend_ev = FALSE,
                                           !.pending = um.fragments[f].pending /\ f \notin added]
    BY <1>0, <2>1
  <2> HIDE DEF added, frags
  <2>4. frags[f] = [um.fragments[f] EXCEPT !.resend = TRUE, !.resend_ev = FALSE, !.pending = FALSE]
    BY <2>2, <2>3
  <2>5. frags[f] \in UFrag /\ frags[f].resend = TRUE /\ frags[f].pending = FALSE
    BY <2>1, <2>4 DEF UFrag
  <2> QED BY <2>5, TagsAssumption
<1>6. \A f \in 0 .. n - 1 : f \notin LiveFrags(um) => frags[f] = Null
  BY <1>0
<1>7. frags \in [0 .. n - 1 -> UFrag \cup {Null}]
  <2>1. DOMAIN frags = 0 .. n - 1 /\ \A f \in 0 .. n - 1 : frags[f] \in UFrag \cup {Null}
    BY <1>0, <1>5, <1>6
  <2> QED BY <2>1
<1>8. count \in 0 .. 255 /\ (um.pending = Cardinality(Waiting(um)) => count = 0)
  <2>1. k = Cardinality(Waiting(um)) /\ k \in 0 .. 255
    <3> HIDE DEF added
    <3>1. k = Cardinality(Waiting(um))
      BY <1>3, Zenon
    <3>2. Cardinality(Waiting(um)) \in 0 .. 255
      <4>1. Cardinality(Waiting(um)) \in Nat /\ Cardinality(Waiting(um)) <= n /\ n <= 255 /\ n \in Nat
        BY MsgFields
      <4> QED BY <4>1
    <3> HIDE DEF k
    <3> QED BY <3>1, <3>2
  <2> HIDE DEF k
  <2>2. count \in 0 .. 255 /\ (k <= um.pending => count = um.pending - k)
    BY <1>0, <2>1, ByteMinus, ZenonT(60)
  <2> HIDE DEF count
  <2> QED BY <1>0, <2>1, <2>2
<1> HIDE DEF frags, list, count
<1>9. w \in UMsg(n) /\ w.fragments = frags /\ w.resend = list /\ w.pending = count
      /\ w.lingering = um.lingering /\ w.cautious = um.cautious
      /\ SameIdent(um, w) /\ SameSignals(um, w)
  <2>1. w \in UMsg(n)
    BY <1>4, <1>7, <1>8 DEF UMsg
  <2> QED BY <2>1 DEF UMsg, SameIdent, SameSignals
<1> HIDE DEF w
<1>10. /\ v \in UMsg(n)
       /\ SameIdent(w, v) /\ SameBooks(w, v) /\ SameSignals(w, v)
       /\ v.cautious = w.cautious
       /\ v.iterate_ev = (w.iterate_ev \/ w.resend # <<>>)
  BY <1>1, <1>9, AsyncShape
<1> HIDE DEF v
<1>11. LiveFrags(v) = LiveFrags(um) /\ v.fragments = frags
  <2>1. v.fragments = frags
    BY <1>9, <1>10 DEF SameBooks
  <2>2. LiveFrags(v) = {g \in 0 .. n - 1 : frags[g] # Null}
    BY <1>7, <2>1 DEF LiveFrags
  <2> QED BY <1>0, <1>5, <1>6, <2>1, <2>2
<1>12. Flagged(v) = LiveFrags(v) /\ Waiting(v) = {}
  BY <1>5, <1>11 DEF Flagged, Waiting
<1>13. Books(v)
  <2>1. ListExact(v)
    BY <1>4, <1>9, <1>10, <1>11, <1>12 DEF ListExact, SameBooks
  <2>2. ASSUME ~v.lingering PROVE v.pending = Cardinality(Waiting(v))
    <3>1. um.pending = Cardinality(Waiting(um))
      BY <1>9, <1>10, <2>2 DEF Books, SameBooks
    <3>2. v.pending = 0
      BY <1>8, <1>9, <1>10, <3>1 DEF SameBooks
    <3> QED BY <1>12, <3>2, FS_EmptySet
  <2> QED BY <2>1, <2>2 DEF Books
<1>14. SameIdent(um, v) /\ SameSignals(um, v)
  BY <1>9, <1>10 DEF SameIdent, SameSignals
<1>15. v.resend # <<>> => v.iterate_ev
  BY <1>9, <1>10 DEF SameBooks
<1>16. v.lingering = um.lingering /\ v.cautious = um.cautious
  BY <1>9, <1>10 DEF SameBooks
<1>17. \A f \in LiveFrags(v) : v.fragments[f].resend
  BY <1>5, <1>11
<1> QED BY <1>10, <1>11, <1>13, <1>14, <1>15, <1>16, <1>17 DEF v

\* A sequence without repetition is as long as it has elements.
LEMMA InjectiveLen ==
    ASSUME NEW A, NEW s \in Seq(A), IsInjective(s)
    PROVE  Cardinality(Range(s)) = Len(s) /\ IsFiniteSet(Range(s))
<1>1. DOMAIN s = 1 .. Len(s) /\ Len(s) \in Nat
  BY LenProperties
<1>2. Cardinality(1 .. Len(s)) = Len(s) /\ IsFiniteSet(1 .. Len(s))
  BY <1>1, FS_Interval
<1>3. s \in [1 .. Len(s) -> Range(s)]
  BY <1>1 DEF Range
<1>4. s \in Bijection(1 .. Len(s), Range(s))
  <2>1. s \in Surjection(1 .. Len(s), Range(s))
    BY <1>1, <1>3 DEF Surjection, Range
  <2>2. s \in Injection(1 .. Len(s), Range(s))
    BY <1>1, <1>3 DEF Injection, IsInjective
  <2> QED BY <2>1, <2>2 DEF Bijection
<1> QED BY <1>2, <1>4, FS_Bijection DEF ExistsBijection

\* The tests of um->pending against um->alpha.
LEMMA ByteCompare ==
    ASSUME NEW p \in 0 .. 255, NEW a \in 1 .. 255
    PROVE  (p < a <=> ~(p >= a)) /\ (p >= a => p # 0)
OBVIOUS

\* The batch of ut_resend_iterate() is the head of the list, up to the
\* parallelism.
LEMMA BatchShape ==
    ASSUME NEW n \in 1 .. FragMax, NEW um \in UMsg(n)
    PROVE  /\ Parallelism(um) \in 1 .. FragMax
           /\ \E k \in 0 .. Len(um.resend) :
                 /\ Batch(um) = SubSeq(um.resend, 1, k) /\ Len(Batch(um)) = k
                 /\ um.pending < um.alpha /\ um.resend # <<>> => k > 0
<1>0. um.resend \in Seq(0 .. n - 1) /\ Len(um.resend) \in Nat
  <2>1. um.resend \in Seq(0 .. n - 1)
    BY DEF UMsg
  <2> QED BY <2>1, LenProperties
<1>1. um.pending \in 0 .. 255 /\ um.alpha \in 1 .. 255 /\ Fragcnt(um) = n /\ n \in 1 .. 255
  <2>1. um.pending \in 0 .. 255 /\ um.alpha \in 1 .. 255
    BY DEF UMsg, FragMax
  <2>2. Fragcnt(um) = n /\ n \in 1 .. 255
    BY MsgFields DEF FragMax
  <2> QED BY <2>1, <2>2
<1>2. Parallelism(um) \in 1 .. FragMax /\ Parallelism(um) >= um.alpha
  BY <1>1 DEF Parallelism, FragMax
<1>5. um.pending < um.alpha <=> ~(um.pending >= um.alpha)
  BY <1>1, ByteCompare
<1>3. CASE um.pending >= um.alpha
  <2>1. Batch(um) = <<>>
    BY <1>3 DEF Batch
  <2>2. SubSeq(um.resend, 1, 0) = <<>> /\ 0 \in 0 .. Len(um.resend) /\ Len(<<>>) = 0
    BY <1>0
  <2>3. ~(um.pending < um.alpha)
    BY <1>3, <1>5, Zenon
  <2> QED BY <1>2, <2>1, <2>2, <2>3
<1>4. CASE um.pending < um.alpha
  <2> DEFINE room == Parallelism(um) - um.pending
             k == Min({Len(um.resend), room})
  <2>1. room \in Nat /\ room > 0
    <3>1. \A p \in 0 .. 255, a \in 1 .. 255, b \in 1 .. 255 :
              p < a /\ b >= a => b - p \in Nat /\ b - p > 0
      OBVIOUS
    <3>2. Parallelism(um) \in 1 .. 255
      BY <1>2 DEF FragMax
    <3> QED BY <1>1, <1>2, <1>4, <3>1, <3>2, Zenon
  <2>2. k \in {Len(um.resend), room} /\ k <= Len(um.resend)
    <3> HIDE DEF room
    <3> DEFINE S == {Len(um.resend), room}
    <3>1. S \subseteq Nat /\ S # {} /\ Len(um.resend) \in S
      BY <1>0, <2>1
    <3> HIDE DEF S
    <3>2. Min(S) \in S /\ Min(S) <= Len(um.resend)
      BY <3>1, MinProperty
    <3> QED BY <3>2 DEF S
  <2>3. Batch(um) = SubSeq(um.resend, 1, k)
    <3>1. ~(um.pending >= um.alpha)
      BY <1>4, <1>5, Zenon
    <3> QED BY <3>1, Zenon DEF Batch
  <2> HIDE DEF room, k
  <2>4. k \in 0 .. Len(um.resend) /\ (Len(um.resend) > 0 => k > 0)
    BY <1>0, <2>1, <2>2
  <2>5. Len(SubSeq(um.resend, 1, k)) = k
    BY <1>0, <2>4
  <2>6. um.resend # <<>> => Len(um.resend) > 0
    BY <1>0
  <2> QED BY <1>2, <2>3, <2>4, <2>5, <2>6
<1> QED BY <1>3, <1>4, <1>5, Zenon

\* A batch of ut_resend_iterate(): fragments go from the list to the lower layer.
LEMMA ResendBatchShape ==
    ASSUME NEW n \in 1 .. FragMax, NEW um \in UMsg(n), Books(um)
    PROVE  LET v == ResendBatch(um)
           IN  /\ v \in UMsg(n) /\ Books(v)
               /\ SameIdent(um, v) /\ SameSignals(um, v) /\ LiveFrags(v) = LiveFrags(um)
               /\ v.lingering = um.lingering /\ v.cautious = um.cautious
               /\ Batch(um) \in Seq(0 .. n - 1) /\ Range(Batch(um)) \subseteq LiveFrags(um)
               /\ \A f \in LiveFrags(v) \ Range(Batch(um)) : v.fragments[f] = um.fragments[f]
               /\ v.resend # <<>> /\ ~v.lingering => Waiting(v) # {}
<1> DEFINE v == ResendBatch(um)
           B == Range(Batch(um))
           frags == [f \in DOMAIN um.fragments |->
                        IF f \in B THEN [um.fragments[f] EXCEPT !.resend = FALSE, !.pending = TRUE]
                        ELSE um.fragments[f]]
           alpha == IF um.pending >= um.alpha THEN um.alpha ELSE Parallelism(um)
           list == SubSeq(um.resend, Len(Batch(um)) + 1, Len(um.resend))
           count == (um.pending + Len(Batch(um))) % 256
<1>0. /\ DOMAIN um.fragments = 0 .. n - 1
      /\ LiveFrags(um) = {g \in 0 .. n - 1 : um.fragments[g] # Null}
      /\ \A g \in LiveFrags(um) : um.fragments[g] \in UFrag
      /\ Waiting(um) \subseteq 0 .. n - 1
      /\ um.resend \in Seq(0 .. n - 1) /\ n \in Nat
  BY MsgFields
<1>1. um.pending \in 0 .. 255 /\ um.alpha \in 1 .. FragMax
  BY DEF UMsg
<1>2. PICK k \in 0 .. Len(um.resend) :
         /\ Batch(um) = SubSeq(um.resend, 1, k) /\ Len(Batch(um)) = k
         /\ um.pending < um.alpha /\ um.resend # <<>> => k > 0
  BY BatchShape
<1>3. IsInjective(um.resend) /\ Range(um.resend) = Flagged(um) /\ Flagged(um) \cap Waiting(um) = {}
  BY DEF Books, ListExact
<1>4. Len(um.resend) \in Nat /\ k \in Nat
  BY <1>0, LenProperties
<1>5. /\ Batch(um) \in Seq(0 .. n - 1) /\ B \subseteq Flagged(um)
      /\ B \cup Range(list) = Flagged(um) /\ B \cap Range(list) = {}
      /\ IsInjective(Batch(um))
  <2>1. list = SubSeq(um.resend, k + 1, Len(um.resend))
    BY <1>2
  <2> HIDE DEF list
  <2>2. /\ SubSeq(um.resend, 1, k) \in Seq(0 .. n - 1)
        /\ Range(SubSeq(um.resend, 1, k)) \subseteq Range(um.resend)
        /\ Range(SubSeq(um.resend, 1, k)) \cup Range(SubSeq(um.resend, k + 1, Len(um.resend))) = Range(um.resend)
        /\ IsInjective(SubSeq(um.resend, 1, k))
        /\ Range(SubSeq(um.resend, 1, k)) \cap Range(SubSeq(um.resend, k + 1, Len(um.resend))) = {}
    BY <1>0, <1>3, PrefixRange
  <2> QED BY <1>2, <1>3, <2>1, <2>2
<1>6. list \in Seq(0 .. n - 1) /\ IsInjective(list)
  <2>1. k + 1 \in 1 .. Len(um.resend) + 1
    BY <1>4
  <2>2. /\ SubSeq(um.resend, k + 1, Len(um.resend)) \in Seq(0 .. n - 1)
        /\ Len(SubSeq(um.resend, k + 1, Len(um.resend))) = Len(um.resend) - (k + 1) + 1
        /\ \A i \in 1 .. Len(um.resend) - (k + 1) + 1 :
              SubSeq(um.resend, k + 1, Len(um.resend))[i] = um.resend[i + (k + 1) - 1]
    <3>1. um.resend \in Seq(0 .. n - 1)
      BY <1>0
    <3>2. PICK j \in 1 .. Len(um.resend) + 1 : j = k + 1
      BY <2>1
    <3>3. /\ SubSeq(um.resend, j, Len(um.resend)) \in Seq(0 .. n - 1)
          /\ Len(SubSeq(um.resend, j, Len(um.resend))) = Len(um.resend) - j + 1
          /\ \A i \in 1 .. Len(um.resend) - j + 1 :
                SubSeq(um.resend, j, Len(um.resend))[i] = um.resend[i + j - 1]
      BY <3>1, SliceShape
    <3> QED BY <3>2, <3>3
  <2>3. list = SubSeq(um.resend, k + 1, Len(um.resend))
    BY <1>2
  <2> HIDE DEF list
  <2>4. list \in Seq(0 .. n - 1) /\ Len(list) = Len(um.resend) - k
        /\ \A i \in 1 .. Len(um.resend) - k : list[i] = um.resend[i + k]
    BY <1>4, <2>2, <2>3
  <2>5. DOMAIN list = 1 .. Len(um.resend) - k /\ DOMAIN um.resend = 1 .. Len(um.resend)
    BY <1>0, <2>4, LenProperties
  <2>6. IsInjective(list)
    <3> SUFFICES ASSUME NEW i \in 1 .. Len(um.resend) - k, NEW j \in 1 .. Len(um.resend) - k,
                        list[i] = list[j]
                 PROVE  i = j
      BY <2>5 DEF IsInjective
    <3>1. i + k \in DOMAIN um.resend /\ j + k \in DOMAIN um.resend
      BY <1>4, <2>5
    <3>2. um.resend[i + k] = um.resend[j + k]
      BY <2>4
    <3>3. i + k = j + k
      BY <1>3, <3>1, <3>2 DEF IsInjective
    <3> QED BY <1>4, <3>3
  <2> QED BY <2>4, <2>6
<1>7. B \subseteq LiveFrags(um) /\ B \cap Waiting(um) = {}
  BY <1>3, <1>5 DEF Flagged
<1>8. alpha \in 1 .. FragMax
  BY <1>1, BatchShape
<1>9. count \in 0 .. 255 /\ (um.pending = Cardinality(Waiting(um)) => count = Cardinality(Waiting(um) \cup B))
  <2> HIDE DEF B
  <2>1. Cardinality(B) = k /\ IsFiniteSet(B)
    BY <1>2, <1>5, InjectiveLen DEF B
  <2>2. IsFiniteSet(Waiting(um)) /\ Cardinality(Waiting(um)) \in Nat
    BY MsgFields
  <2>3. Cardinality(Waiting(um) \cup B) = Cardinality(Waiting(um)) + k
    <3>1. Waiting(um) \cap B = {} /\ Cardinality({}) = 0
      BY <1>7, FS_EmptySet
    <3>2. Cardinality(Waiting(um) \cup B) = Cardinality(Waiting(um)) + Cardinality(B) - Cardinality(Waiting(um) \cap B)
      BY <2>1, <2>2, FS_Union
    <3>3. Cardinality(Waiting(um) \cap B) = 0 /\ k \in Nat
      BY <1>4, <3>1
    <3> QED BY <2>1, <2>2, <3>2, <3>3
  <2>4. Waiting(um) \cup B \in SUBSET (0 .. n - 1)
    BY <1>0, <1>7
  <2>5. IsFiniteSet(0 .. n - 1) /\ Cardinality(0 .. n - 1) = n /\ n <= 255 /\ n \in Nat
    <3>1. n \in Nat /\ 1 <= n /\ n <= 255
      BY DEF FragMax
    <3> QED BY <3>1, FS_Interval
  <2>6. Cardinality(Waiting(um) \cup B) <= n
    BY <2>4, <2>5, FS_Subset
  <2>7. k <= 255
    <3>1. k \in Nat
      BY <1>4
    <3> QED BY <3>1, <2>2, <2>3, <2>5, <2>6
  <2>8. count = (um.pending + k) % 256
    BY <1>2
  <2>9. k \in 0 .. 255
    <3>1. k \in Nat
      BY <1>4
    <3> QED BY <3>1, <2>7
  <2>10. (um.pending + k) % 256 \in 0 .. 255 /\ (um.pending + k <= 255 => (um.pending + k) % 256 = um.pending + k)
    BY <1>1, <2>9, ByteMinus, ZenonT(60)
  <2> HIDE DEF count
  <2> QED BY <1>1, <2>2, <2>3, <2>5, <2>6, <2>8, <2>9, <2>10
<1>10. ASSUME NEW f \in B
       PROVE  /\ f \in 0 .. n - 1 /\ frags[f] \in UFrag /\ frags[f] # Null
              /\ frags[f].resend = FALSE /\ frags[f].pending = TRUE
  <2>1. f \in 0 .. n - 1 /\ um.fragments[f] \in UFrag
    BY <1>0, <1>7
  <2> HIDE DEF B
  <2>2. frags[f] = [um.fragments[f] EXCEPT !.resend = FALSE, !.pending = TRUE]
    BY <1>0, <2>1
  <2> HIDE DEF frags
  <2>3. frags[f] \in UFrag /\ frags[f].resend = FALSE /\ frags[f].pending = TRUE
    BY <2>1, <2>2 DEF UFrag
  <2> QED BY <2>1, <2>3, TagsAssumption
<1> HIDE DEF B
<1>11. \A f \in 0 .. n - 1 : f \notin B => frags[f] = um.fragments[f]
  BY <1>0
<1>12. frags \in [0 .. n - 1 -> UFrag \cup {Null}]
  <2>1. \A f \in 0 .. n - 1 : um.fragments[f] \in UFrag \cup {Null}
    BY <1>0
  <2>2. DOMAIN frags = 0 .. n - 1 /\ \A f \in 0 .. n - 1 : frags[f] \in UFrag \cup {Null}
    BY <1>0, <1>10, <1>11, <2>1
  <2> QED BY <2>2
<1>13. v = [um EXCEPT !.alpha = alpha, !.resend = list, !.pending = count, !.fragments = frags]
  BY DEF ResendBatch, B
<1> HIDE DEF alpha, list, count, frags
<1>14. v \in UMsg(n) /\ v.fragments = frags /\ v.resend = list /\ v.pending = count
       /\ v.lingering = um.lingering /\ v.cautious = um.cautious
       /\ SameIdent(um, v) /\ SameSignals(um, v)
  <2>1. v \in UMsg(n)
    BY <1>6, <1>8, <1>9, <1>12, <1>13, ZenonT(60) DEF UMsg
  <2> QED BY <1>13, <2>1 DEF UMsg, SameIdent, SameSignals
<1> HIDE DEF v
<1>15. LiveFrags(v) = LiveFrags(um)
  <2>1. LiveFrags(v) = {g \in 0 .. n - 1 : frags[g] # Null}
    BY <1>12, <1>14 DEF LiveFrags
  <2> QED BY <1>0, <1>7, <1>10, <1>11, <2>1
<1>16. Flagged(v) = Flagged(um) \ B /\ Waiting(v) = Waiting(um) \cup B
  <2>1. \A f \in LiveFrags(um) : f \notin B => v.fragments[f] = um.fragments[f]
    BY <1>0, <1>11, <1>14
  <2>2. \A f \in B : f \in LiveFrags(um) /\ ~v.fragments[f].resend /\ v.fragments[f].pending
    BY <1>7, <1>10, <1>14
  <2> QED BY <1>15, <2>1, <2>2 DEF Flagged, Waiting
<1>17. Books(v)
  <2>1. Range(list) = Flagged(um) \ B
    BY <1>5
  <2>2. ListExact(v)
    BY <1>3, <1>6, <1>14, <1>16, <2>1 DEF ListExact
  <2>3. ~v.lingering => v.pending = Cardinality(Waiting(v))
    BY <1>9, <1>14, <1>16 DEF Books
  <2> QED BY <2>2, <2>3 DEF Books
<1>18. \A f \in LiveFrags(v) \ B : v.fragments[f] = um.fragments[f]
  BY <1>0, <1>11, <1>14, <1>15
<1>19. ASSUME v.resend # <<>>, ~v.lingering PROVE Waiting(v) # {}
  <2>1. CASE um.pending >= um.alpha
    <3>1. um.pending = Cardinality(Waiting(um))
      BY <1>14, <1>19 DEF Books
    <3>2. um.pending # 0
      BY <1>1, <2>1, ByteCompare DEF FragMax
    <3>3. Waiting(um) # {}
      BY <3>1, <3>2, FS_EmptySet, Zenon
    <3> QED BY <1>16, <3>3
  <2>2. CASE um.pending < um.alpha
    <3>1. um.resend # <<>>
      <4>1. Range(list) # {}
        <5>1. list \in Seq(0 .. n - 1) /\ list # <<>>
          BY <1>6, <1>14, <1>19
        <5> QED BY <5>1, TailRange
      <4>2. Range(um.resend) # {}
        BY <1>3, <1>5, <4>1
      <4> QED BY <4>2 DEF Range
    <3>2. k > 0
      BY <1>2, <2>2, <3>1
    <3>3. B # {}
      <4>1. Cardinality(B) = k
        BY <1>2, <1>5, InjectiveLen DEF B
      <4>2. k # 0
        BY <3>2
      <4> QED BY <4>1, <4>2, FS_EmptySet, Zenon
    <3> QED BY <1>16, <3>3
  <2>3. um.pending >= um.alpha \/ um.pending < um.alpha
    BY <1>1, ByteCompare DEF FragMax
  <2> QED BY <2>1, <2>2, <2>3, Zenon
<1> QED BY <1>5, <1>7, <1>14, <1>15, <1>17, <1>18, <1>19 DEF v, B

\* A fragment is replaced by another one, its resend timer is disarmed.
WithFrag(um, f, uf) == [um.fragments EXCEPT ![f] = uf]
Disarmed(uf) == [uf EXCEPT !.resend_ev = FALSE]

\* Changing one fragment.
LEMMA FragUpdate ==
    ASSUME NEW n \in 1 .. FragMax, NEW um \in UMsg(n), NEW f \in LiveFrags(um),
           NEW uf \in UFrag, NEW v, v.fragments = WithFrag(um, f, uf)
    PROVE  /\ v.fragments \in [0 .. n - 1 -> UFrag \cup {Null}]
           /\ LiveFrags(v) = LiveFrags(um) /\ Fragcnt(v) = n
           /\ v.fragments[f] = uf
           /\ \A g \in LiveFrags(um) \ {f} : v.fragments[g] = um.fragments[g]
           /\ Flagged(v) = IF uf.resend THEN Flagged(um) \cup {f} ELSE Flagged(um) \ {f}
           /\ Waiting(v) = IF uf.pending THEN Waiting(um) \cup {f} ELSE Waiting(um) \ {f}
<1>0. /\ um.fragments \in [0 .. n - 1 -> UFrag \cup {Null}]
      /\ LiveFrags(um) = {g \in 0 .. n - 1 : um.fragments[g] # Null}
      /\ Fragcnt(um) = n /\ DOMAIN um.fragments = 0 .. n - 1 /\ f \in 0 .. n - 1
  <2>1. um.fragments \in [0 .. n - 1 -> UFrag \cup {Null}]
    BY DEF UMsg
  <2> QED BY <2>1, MsgFields
<1>1. uf # Null
  BY TagsAssumption
<1>2. /\ v.fragments \in [0 .. n - 1 -> UFrag \cup {Null}]
      /\ v.fragments[f] = uf /\ DOMAIN v.fragments = 0 .. n - 1
      /\ \A g \in 0 .. n - 1 : g # f => v.fragments[g] = um.fragments[g]
  BY <1>0 DEF WithFrag
<1>3. LiveFrags(v) = LiveFrags(um) /\ \A g \in LiveFrags(um) \ {f} : v.fragments[g] = um.fragments[g]
  BY <1>0, <1>1, <1>2 DEF LiveFrags
<1>4. Fragcnt(v) = n
  BY <1>0, <1>2 DEF Fragcnt
<1>5. Flagged(v) = IF uf.resend THEN Flagged(um) \cup {f} ELSE Flagged(um) \ {f}
  BY <1>2, <1>3 DEF Flagged
<1>6. Waiting(v) = IF uf.pending THEN Waiting(um) \cup {f} ELSE Waiting(um) \ {f}
  BY <1>2, <1>3 DEF Waiting
<1> QED BY <1>2, <1>3, <1>4, <1>5, <1>6

\* ut_frag_resend(): no ACK came.
LEMMA AckTimeoutShape ==
    ASSUME NEW n \in 1 .. FragMax, NEW um \in UMsg(n), NEW f \in LiveFrags(um)
    PROVE  LET v == AckTimeout(um, f)
           IN  /\ v \in UMsg(n)
               /\ SameIdent(um, v) /\ SameSignals(um, v)
               /\ v.resend = um.resend /\ v.iterate_ev = um.iterate_ev
               /\ v.lingering = um.lingering /\ v.cautious = um.cautious
               /\ v.fragments = WithFrag(um, f, Disarmed(um.fragments[f]))
               /\ v.pending = IF um.fragments[f].pending THEN Decr(um.pending) ELSE um.pending
<1> DEFINE v == AckTimeout(um, f)
           uf == um.fragments[f]
           frags == WithFrag(um, f, Disarmed(uf))
           count == IF uf.pending THEN Decr(um.pending) ELSE um.pending
           alpha == IF uf.pending /\ ~um.lingering /\ um.alpha > 1 THEN um.alpha - 1 ELSE um.alpha
<1>1. v = [um EXCEPT !.fragments = frags, !.pending = count, !.alpha = alpha]
  BY DEF AckTimeout, WithFrag, Disarmed
<1>2. frags \in [0 .. n - 1 -> UFrag \cup {Null}]
  <2>1. uf \in UFrag
    BY MsgFields
  <2>2. Disarmed(uf) \in UFrag
    BY <2>1 DEF UFrag, Disarmed
  <2>3. um.fragments \in [0 .. n - 1 -> UFrag \cup {Null}]
    BY DEF UMsg
  <2> QED BY <2>2, <2>3 DEF WithFrag
<1>3. count \in 0 .. 255
  <2>1. um.pending \in 0 .. 255
    BY DEF UMsg
  <2> QED BY <2>1, ByteDecr
<1>4. alpha \in 1 .. FragMax
  <2>1. um.alpha \in 1 .. FragMax
    BY DEF UMsg
  <2>2. \A a \in 1 .. 255 : a > 1 => a - 1 \in 1 .. 255
    OBVIOUS
  <2> QED BY <2>1, <2>2, Zenon DEF FragMax
<1> HIDE DEF frags, count, alpha
<1>5. v \in UMsg(n)
  BY <1>1, <1>2, <1>3, <1>4 DEF UMsg
<1>6. /\ v.fragments = frags /\ v.pending = count /\ v.resend = um.resend /\ v.iterate_ev = um.iterate_ev
      /\ v.lingering = um.lingering /\ v.cautious = um.cautious
      /\ SameIdent(um, v) /\ SameSignals(um, v)
  BY <1>1 DEF UMsg, SameIdent, SameSignals
<1> QED BY <1>5, <1>6 DEF frags, count

\* ut_frag_resend() of a message that lingers.
LEMMA LingerTimeoutShape ==
    ASSUME NEW n \in 1 .. FragMax, NEW um \in UMsg(n), Books(um), NEW f \in LiveFrags(um)
    PROVE  LET v == ut_resend_async(AckTimeout(um, f))
           IN  /\ v \in UMsg(n) /\ SameIdent(um, v) /\ SameSignals(um, v)
               /\ LiveFrags(v) = LiveFrags(um) /\ v.lingering = um.lingering
               /\ um.lingering => Books(v)
<1> DEFINE t == AckTimeout(um, f)
           v == ut_resend_async(t)
           uf == um.fragments[f]
           new == Disarmed(uf)
<1>1. /\ t \in UMsg(n) /\ SameIdent(um, t) /\ SameSignals(um, t)
      /\ t.resend = um.resend /\ t.lingering = um.lingering /\ t.cautious = um.cautious
      /\ t.fragments = WithFrag(um, f, new)
      /\ t.pending = IF uf.pending THEN Decr(um.pending) ELSE um.pending
  BY AckTimeoutShape
<1> HIDE DEF t
<1>2. uf \in UFrag /\ new \in UFrag /\ new.resend = uf.resend /\ new.pending = uf.pending
  <2>1. uf \in UFrag
    BY MsgFields
  <2> HIDE DEF uf
  <2> QED BY <2>1 DEF UFrag, Disarmed
<1> HIDE DEF new
<1>3. /\ LiveFrags(t) = LiveFrags(um)
      /\ Flagged(t) = IF new.resend THEN Flagged(um) \cup {f} ELSE Flagged(um) \ {f}
      /\ Waiting(t) = IF new.pending THEN Waiting(um) \cup {f} ELSE Waiting(um) \ {f}
  BY <1>1, <1>2, FragUpdate
<1>4. Flagged(t) = Flagged(um) /\ Waiting(t) = Waiting(um)
  BY <1>2, <1>3 DEF Flagged, Waiting
<1>5. um.lingering => Books(t)
  BY <1>1, <1>4 DEF Books, ListExact
<1>6. v \in UMsg(n) /\ SameIdent(t, v) /\ SameBooks(t, v) /\ SameSignals(t, v)
  BY <1>1, AsyncShape
<1> HIDE DEF v
<1>7. LiveFrags(v) = LiveFrags(t) /\ (um.lingering => Books(v))
  BY <1>5, <1>6, SameBooksKeep
<1>8. SameIdent(um, v) /\ SameSignals(um, v) /\ v.lingering = um.lingering
  BY <1>1, <1>6 DEF SameIdent, SameSignals, SameBooks
<1> QED BY <1>3, <1>6, <1>7, <1>8 DEF v, t

\* ut_frag_resend(): the fragment is put in the list.
LEMMA EnqueueShape ==
    ASSUME NEW n \in 1 .. FragMax, NEW um \in UMsg(n), Books(um), NEW f \in LiveFrags(um),
           ~um.lingering, ~um.fragments[f].resend
    PROVE  LET v == EnqueueResend(AckTimeout(um, f), f)
           IN  /\ v \in UMsg(n) /\ Books(v) /\ SameIdent(um, v) /\ SameSignals(um, v)
               /\ LiveFrags(v) = LiveFrags(um) /\ v.lingering = um.lingering /\ v.cautious = um.cautious
               /\ v.fragments[f].resend
               /\ \A g \in LiveFrags(um) \ {f} : v.fragments[g] = um.fragments[g]
               /\ v.iterate_ev
<1> DEFINE t == AckTimeout(um, f)
           uf == um.fragments[f]
           new == Disarmed(uf)
           list == Append(um.resend, f)
           last == [new EXCEPT !.resend = TRUE, !.pending = FALSE]
           w == [t EXCEPT !.resend = list, !.fragments = [t.fragments EXCEPT ![f] = last]]
           v == EnqueueResend(t, f)
<1>1. /\ t \in UMsg(n) /\ SameIdent(um, t) /\ SameSignals(um, t)
      /\ t.resend = um.resend /\ t.lingering = um.lingering /\ t.cautious = um.cautious
      /\ t.fragments = WithFrag(um, f, new)
      /\ t.pending = IF uf.pending THEN Decr(um.pending) ELSE um.pending
  BY AckTimeoutShape
<1> HIDE DEF t
<1>2. uf \in UFrag /\ uf.pending \in BOOLEAN /\ new \in UFrag
  <2>1. uf \in UFrag
    BY MsgFields
  <2> HIDE DEF uf
  <2> QED BY <2>1 DEF UFrag, Disarmed
<1>3. /\ DOMAIN um.fragments = 0 .. n - 1 /\ um.resend \in Seq(0 .. n - 1) /\ f \in 0 .. n - 1
      /\ IsFiniteSet(Waiting(um))
  BY MsgFields
<1>4. t.fragments[f] = new /\ [t.fragments EXCEPT ![f] = last] = WithFrag(um, f, last)
  <2> HIDE DEF new, last
  <2>1. t.fragments[f] = new
    BY <1>1, <1>3 DEF WithFrag
  <2>2. [t.fragments EXCEPT ![f] = last] = WithFrag(um, f, last)
    BY <1>1, <1>3 DEF WithFrag
  <2> QED BY <2>1, <2>2
<1>5. last \in UFrag /\ last.resend = TRUE /\ last.pending = FALSE
  <2> HIDE DEF new
  <2> QED BY <1>2 DEF UFrag
<1>6. v = ut_resend_async(w)
  <2>1. w = [t EXCEPT !.resend = Append(t.resend, f),
                      !.fragments[f] = [t.fragments[f] EXCEPT !.resend = TRUE, !.pending = FALSE]]
    <3> HIDE DEF new
    <3> QED BY <1>1, <1>4
  <2> HIDE DEF w
  <2> QED BY <2>1 DEF EnqueueResend
<1> HIDE DEF last, new
<1>7. list \in Seq(0 .. n - 1) /\ IsInjective(list) /\ Range(list) = Flagged(um) \cup {f} /\ list # <<>>
  <2>1. IsInjective(um.resend) /\ Range(um.resend) = Flagged(um) /\ f \notin Flagged(um)
    BY DEF Books, ListExact, Flagged
  <2>2. list \in Seq(0 .. n - 1) /\ list # <<>>
    BY <1>3, AppendShape
  <2>3. Range(list) = Range(um.resend) \cup {f} /\ IsInjective(list)
    BY <1>3, <2>1, AppendRange
  <2> QED BY <2>1, <2>2, <2>3
<1> HIDE DEF list
<1>8. w \in UMsg(n) /\ w.fragments = WithFrag(um, f, last) /\ w.resend = list
      /\ w.pending = t.pending /\ w.lingering = t.lingering /\ w.cautious = t.cautious
      /\ SameIdent(t, w) /\ SameSignals(t, w)
  <2>1. WithFrag(um, f, last) \in [0 .. n - 1 -> UFrag \cup {Null}]
    <3>1. um.fragments \in [0 .. n - 1 -> UFrag \cup {Null}]
      BY DEF UMsg
    <3> QED BY <1>5, <3>1 DEF WithFrag
  <2>2. w = [t EXCEPT !.resend = list, !.fragments = WithFrag(um, f, last)]
    BY <1>4
  <2> HIDE DEF w
  <2>3. w \in UMsg(n)
    BY <1>1, <1>7, <2>1, <2>2 DEF UMsg
  <2>4. w.fragments = WithFrag(um, f, last) /\ w.resend = list
      /\ w.pending = t.pending /\ w.lingering = t.lingering /\ w.cautious = t.cautious
    BY <1>1, <2>2 DEF UMsg
  <2>5. SameIdent(t, w) /\ SameSignals(t, w)
    BY <1>1, <2>2 DEF UMsg, SameIdent, SameSignals
  <2> QED BY <2>3, <2>4, <2>5
<1> HIDE DEF w
<1>9. /\ LiveFrags(w) = LiveFrags(um) /\ w.fragments[f] = last
      /\ \A g \in LiveFrags(um) \ {f} : w.fragments[g] = um.fragments[g]
      /\ Flagged(w) = Flagged(um) \cup {f} /\ Waiting(w) = Waiting(um) \ {f}
  <2>1. /\ LiveFrags(w) = LiveFrags(um) /\ w.fragments[f] = last
        /\ \A g \in LiveFrags(um) \ {f} : w.fragments[g] = um.fragments[g]
        /\ Flagged(w) = IF last.resend THEN Flagged(um) \cup {f} ELSE Flagged(um) \ {f}
        /\ Waiting(w) = IF last.pending THEN Waiting(um) \cup {f} ELSE Waiting(um) \ {f}
    BY <1>5, <1>8, FragUpdate
  <2> QED BY <1>5, <2>1
<1>10. Books(w)
  <2>1. ListExact(w)
    <3>1. Flagged(um) \cap Waiting(um) = {}
      BY DEF Books, ListExact
    <3> QED BY <1>7, <1>8, <1>9, <3>1 DEF ListExact
  <2>2. w.pending = Cardinality(Waiting(w))
    <3>1. um.pending = Cardinality(Waiting(um))
      BY DEF Books
    <3>2. CASE uf.pending
      <4>1. f \in Waiting(um)
        BY <3>2 DEF Waiting
      <4>2. /\ Cardinality(Waiting(um) \ {f}) = Cardinality(Waiting(um)) - 1
            /\ Cardinality(Waiting(um)) > 0
        BY <1>3, <4>1, CardRemove
      <4>3. um.pending \in 0 .. 255
        BY DEF UMsg
      <4>4. Decr(um.pending) = um.pending - 1
        BY <3>1, <4>2, <4>3, ByteDecr
      <4>5. w.pending = Decr(um.pending)
        BY <1>1, <1>8, <3>2
      <4> QED BY <1>9, <3>1, <4>2, <4>4, <4>5
    <3>3. CASE ~uf.pending
      <4>1. Waiting(w) = Waiting(um)
        BY <1>9, <3>3 DEF Waiting
      <4>2. w.pending = um.pending
        BY <1>1, <1>8, <3>3
      <4> QED BY <3>1, <4>1, <4>2
    <3> QED BY <1>2, <3>2, <3>3
  <2> QED BY <2>1, <2>2 DEF Books
<1>11. /\ v \in UMsg(n) /\ SameIdent(w, v) /\ SameBooks(w, v) /\ SameSignals(w, v)
       /\ v.cautious = w.cautious /\ v.iterate_ev = (w.iterate_ev \/ w.resend # <<>>)
  BY <1>6, <1>8, AsyncShape
<1> HIDE DEF v
<1>12. Books(v) /\ LiveFrags(v) = LiveFrags(um)
  BY <1>9, <1>10, <1>11, SameBooksKeep
<1>13. SameIdent(um, v) /\ SameSignals(um, v)
  BY <1>1, <1>8, <1>11 DEF SameIdent, SameSignals
<1>14. v.lingering = um.lingering /\ v.cautious = um.cautious /\ v.fragments = w.fragments
  BY <1>1, <1>8, <1>11 DEF SameBooks
<1>15. v.iterate_ev
  BY <1>7, <1>8, <1>11
<1>16. v.fragments[f].resend /\ \A g \in LiveFrags(um) \ {f} : v.fragments[g] = um.fragments[g]
  BY <1>5, <1>9, <1>14
<1> QED BY <1>11, <1>12, <1>13, <1>14, <1>15, <1>16 DEF v, t

----------------------------------------------------------------------------
(* The layer: how a step that changes one message keeps the invariant.     *)

\* The states of a message that is not alive are no messages.
LEMMA TagsApart ==
    \A tag \in {Unborn, Sent, Dropped} : tag \notin Msg
BY TagsAssumption DEF Msg

\* The messages that are alive.
LEMMA AliveMsg ==
    ASSUME Types
    PROVE  /\ \A m \in Mid : Alive(m) <=> msgs[m] \in Msg
           /\ LiveMids = {m \in Mid : msgs[m] \in Msg}
           /\ \A m \in LiveMids : m \in Mid /\ msgs[m] \in Msg /\ Alive(m)
BY TagsApart DEF Types, Alive, LiveMids

\* The state beyond the messages has its types.
LayerTypes == /\ attr \in Attr /\ aborted \in BOOLEAN
              /\ IsABag(lower) /\ DOMAIN lower \subseteq Dgram

\* A message is replaced.
LEMMA MsgReplaced ==
    ASSUME Types, NEW m \in LiveMids, NEW v \in Msg \cup {Sent, Dropped},
           msgs' = [msgs EXCEPT ![m] = v], LayerTypes'
    PROVE  /\ Types'
           /\ LiveMids' = IF v \in Msg THEN LiveMids ELSE LiveMids \ {m}
           /\ \A k \in Mid : Alive(k)' <=> IF k = m THEN v \in Msg ELSE Alive(k)
           /\ \A k \in Mid : msgs'[k] = IF k = m THEN v ELSE msgs[k]
<1>1. m \in Mid /\ msgs[m] \in Msg /\ LiveMids = {k \in Mid : msgs[k] \in Msg}
  BY AliveMsg
<1>2. \A k \in Mid : msgs'[k] = IF k = m THEN v ELSE msgs[k]
  BY <1>1 DEF Types
<1>3. msgs' \in [Mid -> Msg \cup {Unborn, Sent, Dropped}]
  BY <1>1 DEF Types
<1>4. \A k \in Mid : Alive(k)' <=> msgs'[k] \in Msg
  BY <1>3, TagsApart DEF Alive
<1>5. Types'
  BY <1>3 DEF Types, LayerTypes
<1>6. \A k \in Mid : Alive(k)' <=> IF k = m THEN v \in Msg ELSE Alive(k)
  BY <1>2, <1>4, AliveMsg
<1>7. LiveMids' = IF v \in Msg THEN LiveMids ELSE LiveMids \ {m}
  BY <1>1, <1>6, AliveMsg DEF LiveMids
<1> QED BY <1>2, <1>5, <1>6, <1>7

\* A live message is updated: what is queued and what is released meanwhile are
\* fragments of its own, and its fragments remain accounted for.
LEMMA MsgUpdated ==
    ASSUME TxIInv, NEW m \in LiveMids, NEW v \in UMsg(Fragcnt(msgs[m])), Books(v),
           msgs' = [msgs EXCEPT ![m] = v], LayerTypes',
           \A dg \in Queued' : \/ dg \in Queued \/ dg.kind = "ear"
                               \/ dg.mid = m /\ dg.fragno \in DOMAIN v.fragments,
           \A dg \in Queued : dg \in Queued' \/ dg.kind = "ear" \/ dg.mid = m,
           \A f \in LiveFrags(v) : Somewhere(v, f, Frag(m, f) \in Queued')
    PROVE  /\ TxIInv' /\ LiveMids' = LiveMids
           /\ \A k \in LiveMids : msgs'[k] = IF k = m THEN v ELSE msgs[k]
<1> DEFINE n == Fragcnt(msgs[m])
<1>1. Types /\ m \in Mid /\ msgs[m] \in Msg
  BY AliveMsg DEF TxIInv
<1>2. n \in 1 .. FragMax /\ v \in UMsg(n) /\ DOMAIN msgs[m].fragments = 0 .. n - 1
  BY <1>1, MsgShape
<1>3. v \in Msg /\ DOMAIN v.fragments = 0 .. n - 1
  <2> HIDE DEF n
  <2> QED BY <1>2, MsgFields
<1> HIDE DEF n
<1>4. /\ Types' /\ LiveMids' = LiveMids
      /\ \A k \in Mid : Alive(k)' <=> Alive(k)
      /\ \A k \in Mid : msgs'[k] = IF k = m THEN v ELSE msgs[k]
  <2>1. Alive(m)
    BY AliveMsg, <1>1
  <2> QED BY <1>1, <1>3, <2>1, MsgReplaced
<1>5. BookInv'
  <2> SUFFICES ASSUME NEW k \in LiveMids PROVE Books(msgs'[k])
    BY <1>4 DEF BookInv
  <2>1. k \in Mid /\ Books(msgs[k])
    BY <1>1, AliveMsg DEF TxIInv, BookInv
  <2> QED BY <1>4, <2>1
<1>6. KnownInv'
  <2> SUFFICES ASSUME NEW dg \in Queued', dg.kind = "frag"
               PROVE  /\ msgs'[dg.mid] # Unborn
                      /\ Alive(dg.mid)' => dg.fragno \in DOMAIN msgs'[dg.mid].fragments
    BY DEF KnownInv, OwnedDgram
  <2>1. CASE dg \in Queued
    <3>1. OwnedDgram(dg)
      BY <2>1 DEF TxIInv, KnownInv
    <3>2. dg \in Dgram
      BY <2>1, <1>1, RangeFinite DEF Queued, Types, Attr
    <3>3. dg.mid \in Mid
      BY <3>2 DEF Dgram, FragDgram, EarDgram
    <3>4. CASE dg.mid = m
      BY <1>1, <1>2, <1>3, <1>4, <3>1, <3>3, <3>4, TagsApart, AliveMsg DEF OwnedDgram
    <3>5. CASE dg.mid # m
      BY <1>4, <3>1, <3>3, <3>5 DEF OwnedDgram
    <3> QED BY <3>4, <3>5
  <2>2. CASE dg.mid = m /\ dg.fragno \in DOMAIN v.fragments
    BY <1>1, <1>3, <1>4, <2>2, TagsApart
  <2> QED BY <2>1, <2>2
<1>7. HeldInv'
  <2> SUFFICES ASSUME NEW k \in LiveMids, NEW f \in LiveFrags(msgs'[k])
               PROVE  Somewhere(msgs'[k], f, Frag(k, f) \in Queued')
    BY <1>4 DEF HeldInv
  <2>1. k \in Mid
    BY <1>1, AliveMsg
  <2>2. CASE k = m
    BY <1>4, <2>1, <2>2
  <2>3. CASE k # m
    <3>1. msgs'[k] = msgs[k]
      BY <1>4, <2>1, <2>3
    <3>2. Somewhere(msgs[k], f, Frag(k, f) \in Queued)
      BY <3>1 DEF TxIInv, HeldInv
    <3>3. Frag(k, f) \in Queued => Frag(k, f) \in Queued'
      BY <2>3 DEF Frag
    <3> QED BY <3>1, <3>2, <3>3 DEF Somewhere
  <2> QED BY <2>2, <2>3
<1>8. \A k \in LiveMids : msgs'[k] = IF k = m THEN v ELSE msgs[k]
  BY <1>4 DEF LiveMids
<1> QED BY <1>4, <1>5, <1>6, <1>7, <1>8 DEF TxIInv

\* A message ends: nothing is queued, only its own fragments are released.
LEMMA MsgEnded ==
    ASSUME TxIInv, NEW m \in LiveMids, NEW tag \in {Sent, Dropped},
           msgs' = [msgs EXCEPT ![m] = tag], LayerTypes',
           \A dg \in Queued' : dg \in Queued,
           \A dg \in Queued : dg \in Queued' \/ dg.kind = "ear" \/ dg.mid = m
    PROVE  /\ TxIInv' /\ LiveMids' = LiveMids \ {m}
           /\ \A k \in LiveMids' : msgs'[k] = msgs[k]
<1>1. Types /\ m \in Mid /\ msgs[m] \in Msg /\ tag \notin Msg /\ tag # Unborn
  BY AliveMsg, TagsApart, TagsAssumption DEF TxIInv
<1>2. /\ Types' /\ LiveMids' = LiveMids \ {m}
      /\ \A k \in Mid : Alive(k)' <=> k # m /\ Alive(k)
      /\ \A k \in Mid : msgs'[k] = IF k = m THEN tag ELSE msgs[k]
  BY <1>1, MsgReplaced
<1>3. BookInv'
  <2> SUFFICES ASSUME NEW k \in LiveMids \ {m} PROVE Books(msgs'[k])
    BY <1>2 DEF BookInv
  <2>1. k \in Mid /\ Books(msgs[k])
    BY <1>1, AliveMsg DEF TxIInv, BookInv
  <2> QED BY <1>2, <2>1
<1>4. KnownInv'
  <2> SUFFICES ASSUME NEW dg \in Queued, dg.kind = "frag"
               PROVE  /\ msgs'[dg.mid] # Unborn
                      /\ Alive(dg.mid)' => dg.fragno \in DOMAIN msgs'[dg.mid].fragments
    BY DEF KnownInv, OwnedDgram
  <2>1. OwnedDgram(dg)
    BY DEF TxIInv, KnownInv
  <2>2. dg \in Dgram
    BY <1>1, RangeFinite DEF Queued, Types, Attr
  <2>3. dg.mid \in Mid
    BY <2>2 DEF Dgram, FragDgram, EarDgram
  <2> QED BY <1>1, <1>2, <2>1, <2>3 DEF OwnedDgram
<1>5. HeldInv'
  <2> SUFFICES ASSUME NEW k \in LiveMids \ {m}, NEW f \in LiveFrags(msgs'[k])
               PROVE  Somewhere(msgs'[k], f, Frag(k, f) \in Queued')
    BY <1>2 DEF HeldInv
  <2>1. msgs'[k] = msgs[k] /\ k # m
    BY <1>1, <1>2, AliveMsg
  <2>2. Somewhere(msgs[k], f, Frag(k, f) \in Queued)
    BY <2>1 DEF TxIInv, HeldInv
  <2>3. Frag(k, f) \in Queued => Frag(k, f) \in Queued'
    BY <2>1 DEF Frag
  <2> QED BY <2>1, <2>2, <2>3 DEF Somewhere
<1>6. \A k \in LiveMids' : msgs'[k] = msgs[k]
  BY <1>2 DEF LiveMids
<1> QED BY <1>2, <1>3, <1>4, <1>5, <1>6 DEF TxIInv

\* No message changes: at most an EAR or a fragment that is gone is released.
LEMMA MsgsSame ==
    ASSUME TxIInv, msgs' = msgs, LayerTypes',
           \A dg \in Queued' : dg \in Queued \/ dg.kind = "ear",
           \A dg \in Queued : \/ dg \in Queued' \/ dg.kind = "ear"
                              \/ ~ut_frag_hook(dg.mid, dg.fragno)
    PROVE  TxIInv' /\ LiveMids' = LiveMids
<1>1. Types' /\ LiveMids' = LiveMids /\ \A k \in Mid : Alive(k)' <=> Alive(k)
  BY DEF TxIInv, Types, LayerTypes, LiveMids, Alive
<1>2. BookInv'
  BY <1>1 DEF TxIInv, BookInv
<1>3. KnownInv'
  BY <1>1 DEF TxIInv, KnownInv, OwnedDgram, Alive
<1>4. HeldInv'
  <2> SUFFICES ASSUME NEW k \in LiveMids, NEW f \in LiveFrags(msgs[k])
               PROVE  Somewhere(msgs[k], f, Frag(k, f) \in Queued')
    BY <1>1 DEF HeldInv
  <2>1. Somewhere(msgs[k], f, Frag(k, f) \in Queued)
    BY DEF TxIInv, HeldInv
  <2>2. ut_frag_hook(k, f)
    BY DEF ut_frag_hook, LiveFrags, LiveMids
  <2>3. Frag(k, f) \in Queued => Frag(k, f) \in Queued'
    BY <2>2 DEF Frag
  <2> QED BY <2>1, <2>3 DEF Somewhere
<1> QED BY <1>1, <1>2, <1>3, <1>4 DEF TxIInv

----------------------------------------------------------------------------
(* The layer: what its routines leave.                                     *)

\* The fields of the attributes.
LEMMA AttrFields ==
    ASSUME NEW a \in Attr
    PROVE  /\ a.seq \in IdTables /\ a.pending \in Seq(Dgram) /\ a.ban \in SUBSET Host
           /\ a.good \in SUBSET Host /\ a.seqno_freed \in 0 .. SeqnoThresh - 1
           /\ a.out_of_seqno \in BOOLEAN /\ a.upper_flowc \in BOOLEAN /\ a.lower_flowc \in BOOLEAN
           /\ SeqnoThresh \in Nat \ {0}
BY LimitsAssumption DEF Attr

\* The tables of banned and of good hosts.
SameButHosts(a, b) ==
    /\ b.seq = a.seq /\ b.pending = a.pending /\ b.seqno_freed = a.seqno_freed
    /\ b.out_of_seqno = a.out_of_seqno /\ b.upper_flowc = a.upper_flowc
    /\ b.lower_flowc = a.lower_flowc

\* Banning and flagging hosts touches nothing else of the layer.
LEMMA HostsShape ==
    ASSUME NEW a \in Attr, NEW to \in Host
    PROVE  /\ ut_to_ban(a, to) \in Attr /\ SameButHosts(a, ut_to_ban(a, to))
           /\ ut_to_flag_good(a, to) \in Attr /\ SameButHosts(a, ut_to_flag_good(a, to))
<1>1. ut_to_ban(a, to) \in Attr /\ SameButHosts(a, ut_to_ban(a, to))
  BY DEF ut_to_ban, Attr, SameButHosts
<1>2. ut_to_flag_good(a, to) \in Attr /\ SameButHosts(a, ut_to_flag_good(a, to))
  BY DEF ut_to_flag_good, Attr, SameButHosts
<1> QED BY <1>1, <1>2

\* idtable_free_id() frees one ID.
LEMMA TableFree ==
    ASSUME NEW t \in IdTables, NEW id
    PROVE  idtable_free_id(t, id) \in IdTables /\ idtable_free_id(t, id).ids = t.ids \ {id}
BY DEF idtable_free_id, IdTables

\* A counter short of the threshold may be incremented.
LEMMA ThreshStep ==
    ASSUME NEW s \in Nat \ {0}, NEW x \in 0 .. s - 1
    PROVE  /\ 0 \in 0 .. s - 1 /\ (x + 1 < s => x + 1 \in 0 .. s - 1)
           /\ ~(x + 1 < s) => x + 1 = s
OBVIOUS

\* ut_msg_free(): the sequence ID is released.
LEMMA ReleaseSeqnoShape ==
    ASSUME NEW a \in Attr, NEW seqno
    PROVE  LET b == ReleaseSeqno(a, seqno)
           IN  /\ b \in Attr /\ b.seq.ids = a.seq.ids \ {seqno} /\ b.pending = a.pending
               /\ b.lower_flowc = a.lower_flowc
               /\ \/ /\ ~a.out_of_seqno /\ ~b.out_of_seqno /\ b.upper_flowc = a.upper_flowc
                  \/ /\ a.out_of_seqno /\ b.out_of_seqno /\ b.seqno_freed = a.seqno_freed + 1
                     /\ b.upper_flowc = a.upper_flowc
                  \/ a.out_of_seqno /\ ~b.out_of_seqno /\ ~b.upper_flowc
<1> DEFINE t == idtable_free_id(a.seq, seqno)
           c == [a EXCEPT !.seq = t]
           b == ReleaseSeqno(a, seqno)
<1>1. /\ a.seq \in IdTables /\ SeqnoThresh \in Nat \ {0}
      /\ a.seqno_freed \in 0 .. SeqnoThresh - 1 /\ a.out_of_seqno \in BOOLEAN
  BY AttrFields
<1>2. t \in IdTables /\ t.ids = a.seq.ids \ {seqno}
  BY <1>1, TableFree
<1>3. b = IF ~a.out_of_seqno THEN c
          ELSE IF a.seqno_freed + 1 < SeqnoThresh THEN [c EXCEPT !.seqno_freed = a.seqno_freed + 1]
          ELSE [c EXCEPT !.seqno_freed = 0, !.out_of_seqno = FALSE, !.upper_flowc = FALSE]
  BY DEF ReleaseSeqno, tx_ut_upper_service, Attr
<1> HIDE DEF t, b
<1>4. CASE ~a.out_of_seqno
  <2>1. b = [a EXCEPT !.seq = t]
    BY <1>3, <1>4
  <2>2. b \in Attr /\ b.seq = t /\ b.pending = a.pending /\ b.lower_flowc = a.lower_flowc
        /\ b.out_of_seqno = a.out_of_seqno /\ b.upper_flowc = a.upper_flowc
    BY <1>2, <2>1 DEF Attr
  <2> QED BY <1>2, <1>4, <2>2 DEF b
<1>5. CASE a.out_of_seqno /\ a.seqno_freed + 1 < SeqnoThresh
  <2>1. b = [a EXCEPT !.seq = t, !.seqno_freed = a.seqno_freed + 1]
    BY <1>3, <1>5 DEF Attr
  <2>0. a.seqno_freed + 1 \in 0 .. SeqnoThresh - 1
    BY <1>1, <1>5, ThreshStep
  <2>2. b \in Attr /\ b.seq = t /\ b.pending = a.pending /\ b.lower_flowc = a.lower_flowc
        /\ b.out_of_seqno = a.out_of_seqno /\ b.upper_flowc = a.upper_flowc
        /\ b.seqno_freed = a.seqno_freed + 1
    BY <1>2, <2>0, <2>1 DEF Attr
  <2> QED BY <1>2, <1>5, <2>2 DEF b
<1>6. CASE a.out_of_seqno /\ ~(a.seqno_freed + 1 < SeqnoThresh)
  <2>1. b = [a EXCEPT !.seq = t, !.seqno_freed = 0, !.out_of_seqno = FALSE, !.upper_flowc = FALSE]
    BY <1>3, <1>6 DEF Attr
  <2>0. 0 \in 0 .. SeqnoThresh - 1
    BY <1>1, ThreshStep
  <2>2. b \in Attr /\ b.seq = t /\ b.pending = a.pending /\ b.lower_flowc = a.lower_flowc
        /\ ~b.out_of_seqno /\ ~b.upper_flowc
    BY <1>2, <2>0, <2>1 DEF Attr
  <2> QED BY <1>2, <1>6, <2>2 DEF b
<1> QED BY <1>1, <1>4, <1>5, <1>6

\* A sequence of datagrams that is given to ut_frag_send() ends in the lower
\* layer or in the queue.
LEMMA FragSendShape ==
    ASSUME NEW a \in Attr, a.pending = attr.pending, IsABag(lower), DOMAIN lower \subseteq Dgram,
           NEW out \in Seq(Dgram), ut_frag_send(out, a)
    PROVE  /\ attr' \in Attr /\ IsABag(lower') /\ DOMAIN lower' \subseteq Dgram
           /\ Queued' = Queued \cup Range(out)
           /\ attr'.seq = a.seq /\ attr'.ban = a.ban /\ attr'.good = a.good
           /\ attr'.seqno_freed = a.seqno_freed /\ attr'.out_of_seqno = a.out_of_seqno
           /\ attr'.upper_flowc = a.upper_flowc
           /\ a.lower_flowc => attr'.lower_flowc
           /\ (a.lower_flowc <=> a.pending # <<>>) => (attr'.lower_flowc <=> attr'.pending # <<>>)
<1>1. PICK k \in 0 .. Len(out) :
        /\ lower' = lower (+) SetToBag(Range(SubSeq(out, 1, k)))
        /\ attr' = [a EXCEPT !.pending = Reverse(SubSeq(out, k + 1, Len(out))) \o a.pending,
                             !.lower_flowc = a.lower_flowc \/ SubSeq(out, k + 1, Len(out)) # <<>>]
  <2>1. Len(out) \in Nat
    OBVIOUS
  <2>2. PICK k \in (IF a.pending # <<>> THEN {0}
                    ELSE IF LowerRefuses THEN 0 .. Len(out) ELSE {Len(out)}) :
        /\ lower' = lower (+) SetToBag(Range(SubSeq(out, 1, k)))
        /\ attr' = [a EXCEPT !.pending = Reverse(SubSeq(out, k + 1, Len(out))) \o a.pending,
                             !.lower_flowc = a.lower_flowc \/ SubSeq(out, k + 1, Len(out)) # <<>>]
    BY Zenon DEF ut_frag_send
  <2>3. k \in 0 .. Len(out)
    BY <2>1, <2>2
  <2> QED BY <2>2, <2>3
<1> DEFINE sent == SubSeq(out, 1, k)
           refused == SubSeq(out, k + 1, Len(out))
<1>2. sent \in Seq(Dgram) /\ Range(sent) \cup Range(refused) = Range(out) /\ refused \in Seq(Dgram)
  <2>1. refused \in Seq(Dgram)
    BY <1>1
  <2> QED BY <2>1, PrefixRange
<1> HIDE DEF sent, refused
<1>3. /\ Reverse(refused) \in Seq(Dgram) /\ Range(Reverse(refused)) = Range(refused)
      /\ Reverse(refused) = <<>> <=> refused = <<>>
  BY <1>2, ReverseRange
<1> DEFINE q == Reverse(refused) \o a.pending
<1>4. a.pending \in Seq(Dgram) /\ a.lower_flowc \in BOOLEAN
  BY AttrFields
<1>5. q \in Seq(Dgram) /\ Range(q) = Range(refused) \cup Range(a.pending)
  BY <1>3, <1>4, ConcatRange
<1>6. q = <<>> <=> refused = <<>> /\ a.pending = <<>>
  <2>1. Range(q) = {} <=> Range(refused) = {} /\ Range(a.pending) = {}
    BY <1>5
  <2>2. ASSUME NEW s \in Seq(Dgram) PROVE Range(s) = {} <=> s = <<>>
    <3>1. Len(s) \in Nat /\ DOMAIN s = 1 .. Len(s) /\ (s # <<>> => Len(s) # 0)
      BY EmptySeq, LenProperties
    <3>2. CASE s = <<>>
      BY <3>2 DEF Range
    <3>3. CASE s # <<>>
      <4>1. 1 \in DOMAIN s
        BY <3>1, <3>3
      <4>2. s[1] \in Range(s)
        BY <4>1 DEF Range
      <4> QED BY <3>3, <4>2
    <3> QED BY <3>2, <3>3
  <2> QED BY <1>2, <1>4, <1>5, <2>1, <2>2
<1>7. attr' = [a EXCEPT !.pending = q, !.lower_flowc = a.lower_flowc \/ refused # <<>>]
  BY <1>1 DEF refused
<1> HIDE DEF q
<1>8. /\ attr' \in Attr /\ attr'.pending = q /\ attr'.lower_flowc = (a.lower_flowc \/ refused # <<>>)
      /\ attr'.seq = a.seq /\ attr'.ban = a.ban /\ attr'.good = a.good
      /\ attr'.seqno_freed = a.seqno_freed /\ attr'.out_of_seqno = a.out_of_seqno
      /\ attr'.upper_flowc = a.upper_flowc
  <2> DEFINE b == (a.lower_flowc \/ refused # <<>>)
  <2>1. b \in BOOLEAN
    OBVIOUS
  <2> HIDE DEF b
  <2>2. attr' = [a EXCEPT !.pending = q, !.lower_flowc = b]
    BY <1>7 DEF b
  <2> QED BY <1>5, <2>1, <2>2 DEF Attr, b
<1>9. /\ IsABag(lower') /\ DOMAIN lower' = DOMAIN lower \cup Range(sent)
  <2>1. IsABag(SetToBag(Range(sent))) /\ DOMAIN SetToBag(Range(sent)) = Range(sent)
    BY SetBagRange
  <2>2. lower' = lower (+) SetToBag(Range(sent))
    BY <1>1 DEF sent
  <2> HIDE DEF sent
  <2> QED BY <2>1, <2>2, BagAddRange
<1>10. Range(sent) \subseteq Dgram
  BY <1>2, RangeFinite
<1>11. Queued' = Queued \cup Range(out)
  BY <1>2, <1>5, <1>8, <1>9 DEF Queued
<1> QED BY <1>6, <1>8, <1>9, <1>10, <1>11

\* A datagram is released.
LEMMA ReleaseShape ==
    ASSUME IsABag(lower), DOMAIN lower \subseteq Dgram, NEW dg, Release(dg), attr'.pending = attr.pending
    PROVE  /\ IsABag(lower') /\ DOMAIN lower' \subseteq DOMAIN lower
           /\ Queued' \subseteq Queued /\ Queued \ {dg} \subseteq Queued' /\ dg \in DOMAIN lower
<1>1. IsABag(lower') /\ DOMAIN lower' \subseteq DOMAIN lower /\ DOMAIN lower \ {dg} \subseteq DOMAIN lower'
  BY BagTakeRange DEF Release
<1>2. dg \in DOMAIN lower
  BY DEF Release, BagIn, BagToSet
<1> QED BY <1>1, <1>2 DEF Queued

\* The fragments of a message as datagrams.
LEMMA FragSeqShape ==
    ASSUME NEW m \in Mid, NEW n \in 1 .. FragMax, NEW fs \in Seq(0 .. n - 1)
    PROVE  /\ FragSeq(m, fs) \in Seq(Dgram)
           /\ \A dg \in Range(FragSeq(m, fs)) : dg.kind = "frag" /\ dg.mid = m /\ dg.fragno \in 0 .. n - 1
           /\ \A f \in Range(fs) : Frag(m, f) \in Range(FragSeq(m, fs))
<1>1. \A f \in 0 .. n - 1 : Frag(m, f) \in Dgram
  BY DEF Frag, Dgram, FragDgram, Part, FragMax
<1>2. /\ FragSeq(m, fs) = [i \in 1 .. Len(fs) |-> Frag(m, fs[i])] /\ Len(fs) \in Nat
      /\ DOMAIN fs = 1 .. Len(fs) /\ \A i \in 1 .. Len(fs) : fs[i] \in 0 .. n - 1
  BY DEF FragSeq
<1>3. FragSeq(m, fs) \in Seq(Dgram)
  BY <1>1, <1>2
<1>4. DOMAIN FragSeq(m, fs) = 1 .. Len(fs)
  BY <1>2
<1>5. ASSUME NEW dg \in Range(FragSeq(m, fs)) PROVE dg.kind = "frag" /\ dg.mid = m /\ dg.fragno \in 0 .. n - 1
  <2>1. PICK i \in 1 .. Len(fs) : dg = Frag(m, fs[i])
    BY <1>2, <1>4 DEF Range
  <2> QED BY <1>2, <2>1 DEF Frag
<1>6. ASSUME NEW f \in Range(fs) PROVE Frag(m, f) \in Range(FragSeq(m, fs))
  <2>1. PICK i \in 1 .. Len(fs) : f = fs[i]
    BY <1>2 DEF Range
  <2>2. FragSeq(m, fs)[i] = Frag(m, f)
    BY <1>2, <2>1
  <2> QED BY <1>4, <2>2 DEF Range
<1> QED BY <1>3, <1>5, <1>6

----------------------------------------------------------------------------
(* The layer: sequence IDs and flow control.                               *)

\* What a step must keep for flow control when no message begins or ends.
FlowKept ==
    /\ attr'.seq.ids = attr.seq.ids
    /\ attr'.seqno_freed = attr.seqno_freed /\ attr'.out_of_seqno = attr.out_of_seqno
    /\ (attr.upper_flowc => attr.lower_flowc \/ attr.out_of_seqno)
            => (attr'.upper_flowc => attr'.lower_flowc \/ attr'.out_of_seqno)
    /\ (attr.lower_flowc <=> attr.pending # <<>>) => (attr'.lower_flowc <=> attr'.pending # <<>>)

\* A step that allocates and frees no ID keeps what flow control relies on.
LEMMA FlowQuiet ==
    ASSUME FlowInv, FlowKept, LiveMids' = LiveMids,
           \A m \in LiveMids : msgs'[m].seqno = msgs[m].seqno
    PROVE  FlowInv'
<1>1. SeqIdsOwned'
  BY DEF FlowInv, SeqIdsOwned, FlowKept
<1>2. FlowControlLifted'
  BY DEF FlowInv, FlowControlLifted, FlowKept
<1> QED BY <1>1, <1>2 DEF FlowInv

\* Only so many messages are alive.
LEMMA LiveFinite ==
    IsFiniteSet(LiveMids) /\ Cardinality(LiveMids) \in Nat
<1>1. IsFiniteSet(Mid)
  BY LimitsAssumption, FS_Interval DEF Mid
<1>2. LiveMids \in SUBSET Mid
  BY DEF LiveMids
<1>3. IsFiniteSet(LiveMids)
  BY <1>1, <1>2, FS_Subset
<1> QED BY <1>3, FS_CardinalityType

\* A message ends and its ID is released.
LEMMA FlowEnded ==
    ASSUME FlowInv, NEW m \in LiveMids, LiveMids' = LiveMids \ {m},
           \A k \in LiveMids' : msgs'[k] = msgs[k],
           attr \in Attr, NEW b \in Attr, SameButHosts(attr, b), attr' = ReleaseSeqno(b, msgs[m].seqno)
    PROVE  FlowInv'
<1>1. /\ attr'.seq.ids = b.seq.ids \ {msgs[m].seqno} /\ attr'.pending = b.pending
      /\ attr'.lower_flowc = b.lower_flowc
      /\ \/ /\ ~b.out_of_seqno /\ ~attr'.out_of_seqno /\ attr'.upper_flowc = b.upper_flowc
         \/ /\ b.out_of_seqno /\ attr'.out_of_seqno /\ attr'.seqno_freed = b.seqno_freed + 1
            /\ attr'.upper_flowc = b.upper_flowc
         \/ b.out_of_seqno /\ ~attr'.out_of_seqno /\ ~attr'.upper_flowc
  BY ReleaseSeqnoShape
<1>2. SeqIdsOwned'
  <2>1. attr'.seq.ids = attr.seq.ids \ {msgs[m].seqno}
    BY <1>1 DEF SameButHosts
  <2> QED BY <2>1 DEF FlowInv, SeqIdsOwned
<1>3. attr'.out_of_seqno => attr'.seqno_freed + Cardinality(LiveMids') >= SeqnoThresh
  <2> SUFFICES ASSUME attr'.out_of_seqno
               PROVE  attr'.seqno_freed + Cardinality(LiveMids') >= SeqnoThresh
    OBVIOUS
  <2>1. attr.out_of_seqno /\ attr'.seqno_freed = attr.seqno_freed + 1
    BY <1>1 DEF SameButHosts
  <2>2. attr.seqno_freed + Cardinality(LiveMids) >= SeqnoThresh
    BY <2>1 DEF FlowInv, FlowControlLifted
  <2>3. Cardinality(LiveMids') = Cardinality(LiveMids) - 1 /\ Cardinality(LiveMids) \in Nat
    BY LiveFinite, CardRemove
  <2>4. attr.seqno_freed \in 0 .. SeqnoThresh - 1 /\ SeqnoThresh \in Nat
    BY AttrFields
  <2> QED BY <2>1, <2>2, <2>3, <2>4
<1>4. FlowControlLifted'
  <2>1. /\ attr'.upper_flowc => attr'.lower_flowc \/ attr'.out_of_seqno
        /\ attr'.lower_flowc <=> attr'.pending # <<>>
    BY <1>1 DEF FlowInv, FlowControlLifted, SameButHosts
  <2> QED BY <1>3, <2>1 DEF FlowControlLifted
<1> QED BY <1>2, <1>4 DEF FlowInv

----------------------------------------------------------------------------
(* The layer: one lemma per action.                                        *)

\* Both invariants are kept.
Kept == TxIInv' /\ (FlowInv => FlowInv')

\* The message is updated and no ID is taken or released.
LEMMA UpdateKept ==
    ASSUME TxIInv, NEW m \in LiveMids, NEW v \in UMsg(Fragcnt(msgs[m])), Books(v),
           v.seqno = msgs[m].seqno,
           msgs' = [msgs EXCEPT ![m] = v], LayerTypes', FlowKept,
           \A dg \in Queued' : \/ dg \in Queued \/ dg.kind = "ear"
                               \/ dg.mid = m /\ dg.fragno \in DOMAIN v.fragments,
           \A dg \in Queued : dg \in Queued' \/ dg.kind = "ear" \/ dg.mid = m,
           \A f \in LiveFrags(v) : Somewhere(v, f, Frag(m, f) \in Queued')
    PROVE  Kept
<1>1. TxIInv' /\ LiveMids' = LiveMids /\ \A k \in LiveMids : msgs'[k] = IF k = m THEN v ELSE msgs[k]
  BY MsgUpdated
<1>2. \A k \in LiveMids : msgs'[k].seqno = msgs[k].seqno
  BY <1>1
<1> QED BY <1>1, <1>2, FlowQuiet DEF Kept

\* The message is updated, and nothing else: Leave().
LEMMA LeaveKept ==
    ASSUME TxIInv, NEW m \in LiveMids, NEW v \in UMsg(Fragcnt(msgs[m])), Books(v),
           v.seqno = msgs[m].seqno, Leave(m, v), UNCHANGED <<lower, aborted>>,
           \A f \in LiveFrags(v) : Somewhere(v, f, Frag(m, f) \in Queued)
    PROVE  Kept
<1>1. msgs' = [msgs EXCEPT ![m] = v] /\ attr' = attr
  BY DEF Leave
<1>2. LayerTypes'
  BY <1>1 DEF TxIInv, Types, LayerTypes
<1>3. Queued' = Queued /\ FlowKept
  BY <1>1 DEF Queued, FlowKept
<1>4. \A f \in LiveFrags(v) : Somewhere(v, f, Frag(m, f) \in Queued')
  BY <1>3
<1>5. /\ \A dg \in Queued' : \/ dg \in Queued \/ dg.kind = "ear"
                             \/ dg.mid = m /\ dg.fragno \in DOMAIN v.fragments
      /\ \A dg \in Queued : dg \in Queued' \/ dg.kind = "ear" \/ dg.mid = m
  BY <1>3
<1> QED BY <1>1, <1>2, <1>3, <1>4, <1>5, UpdateKept, Zenon

\* The message ends: ut_msg_free().
LEMMA MsgFreeKept ==
    ASSUME TxIInv, NEW m \in LiveMids, NEW sent \in BOOLEAN, NEW a \in Attr, SameButHosts(attr, a),
           ut_msg_free(m, sent, a), UNCHANGED aborted,
           IsABag(lower'), DOMAIN lower' \subseteq DOMAIN lower,
           \A dg \in DOMAIN lower : dg \in DOMAIN lower' \/ dg.kind = "ear" \/ dg.mid = m
    PROVE  Kept
<1> DEFINE um == msgs[m]
           b  == IF sent /\ um.reliable THEN ut_to_flag_good(a, um.to) ELSE a
           tag == IF sent THEN Sent ELSE Dropped
<1>1. Types /\ um \in Msg
  BY AliveMsg DEF TxIInv
<1>2. um.to \in Host
  BY <1>1 DEF Msg, UMsg
<1>3. b \in Attr /\ SameButHosts(a, b)
  BY <1>2, HostsShape DEF SameButHosts
<1>4. msgs' = [msgs EXCEPT ![m] = tag] /\ attr' = ReleaseSeqno(b, um.seqno)
  BY DEF ut_msg_free
<1> HIDE DEF b, um
<1>5. SameButHosts(attr, b)
  BY <1>3 DEF SameButHosts
<1>6. attr' \in Attr /\ attr'.pending = b.pending
  BY <1>3, <1>4, ReleaseSeqnoShape
<1>7. attr'.pending = attr.pending
  BY <1>5, <1>6 DEF SameButHosts
<1>8. LayerTypes' /\ attr \in Attr
  BY <1>1, <1>6 DEF LayerTypes, Types
<1>9. /\ \A dg \in Queued' : dg \in Queued
      /\ \A dg \in Queued : dg \in Queued' \/ dg.kind = "ear" \/ dg.mid = m
  BY <1>7 DEF Queued
<1>10. tag \in {Sent, Dropped}
  OBVIOUS
<1> HIDE DEF tag
<1>11. TxIInv' /\ LiveMids' = LiveMids \ {m} /\ \A k \in LiveMids' : msgs'[k] = msgs[k]
  BY <1>4, <1>8, <1>9, <1>10, MsgEnded
<1>12. FlowInv => FlowInv'
  BY <1>3, <1>4, <1>5, <1>8, <1>11, FlowEnded DEF um
<1> QED BY <1>11, <1>12 DEF Kept

\* What the invariant says of a message that is alive.
LEMMA LiveMsg ==
    ASSUME TxIInv, NEW m \in LiveMids
    PROVE  /\ Fragcnt(msgs[m]) \in 1 .. FragMax /\ msgs[m] \in UMsg(Fragcnt(msgs[m]))
           /\ Books(msgs[m]) /\ m \in Mid /\ Alive(m) /\ Types /\ LayerTypes /\ msgs[m].to \in Host
           /\ \A f \in LiveFrags(msgs[m]) : Somewhere(msgs[m], f, Frag(m, f) \in Queued)
<1>1. Types /\ LayerTypes /\ Books(msgs[m])
  BY DEF TxIInv, BookInv, Types, LayerTypes
<1>2. msgs[m] \in Msg /\ m \in Mid /\ Alive(m)
  BY <1>1, AliveMsg
<1>3. Fragcnt(msgs[m]) \in 1 .. FragMax /\ msgs[m] \in UMsg(Fragcnt(msgs[m]))
  BY <1>2, MsgShape
<1>4. msgs[m].to \in Host
  BY <1>2 DEF Msg, UMsg
<1> QED BY <1>1, <1>2, <1>3, <1>4 DEF TxIInv, HeldInv

\* Any ACK shows that the host is alive, and cancels the EAR timer.
LEMMA SignOfLifeShape ==
    ASSUME NEW n \in 1 .. FragMax, NEW um \in UMsg(n), Books(um)
    PROVE  LET v == SignOfLife(um)
           IN  /\ v \in UMsg(n) /\ Books(v) /\ SameIdent(um, v) /\ SameBooks(um, v)
               /\ v.cautious = um.cautious /\ v.alpha = um.alpha /\ v.iterate_ev = um.iterate_ev
               /\ v.expecting_ack = um.expecting_ack /\ v.ear_pending = um.ear_pending
               /\ v.alive /\ ~v.ear_ev
<1> DEFINE v == SignOfLife(um)
<1>1. /\ v \in UMsg(n) /\ SameIdent(um, v) /\ SameBooks(um, v)
      /\ v.cautious = um.cautious /\ v.alpha = um.alpha /\ v.iterate_ev = um.iterate_ev
      /\ v.expecting_ack = um.expecting_ack /\ v.ear_pending = um.ear_pending
      /\ v.alive /\ ~v.ear_ev
  BY DEF SignOfLife, UMsg, SameIdent, SameBooks
<1> HIDE DEF v
<1>2. Books(v)
  BY <1>1, SameBooksKeep
<1> QED BY <1>1, <1>2 DEF v

\* ut_got_ack(): what was awaited is resumed.
Resumed(um, freed) ==
    [(IF um.expecting_ack THEN ut_resend_async(freed) ELSE freed) EXCEPT !.expecting_ack = FALSE]

\* An expected ACK resumes the resends.
LEMMA ResumedShape ==
    ASSUME NEW n \in 1 .. FragMax, NEW um, NEW freed \in UMsg(n), Books(freed)
    PROVE  LET v == Resumed(um, freed)
           IN  /\ v \in UMsg(n) /\ Books(v) /\ SameIdent(freed, v) /\ SameBooks(freed, v)
               /\ v.cautious = freed.cautious /\ ~v.expecting_ack
               /\ v.alive = freed.alive /\ v.ear_pending = freed.ear_pending /\ v.ear_ev = freed.ear_ev
               /\ freed.iterate_ev => v.iterate_ev
               /\ um.expecting_ack /\ v.resend # <<>> => v.iterate_ev
<1> DEFINE w == IF um.expecting_ack THEN ut_resend_async(freed) ELSE freed
           v == [w EXCEPT !.expecting_ack = FALSE]
<1>1. /\ w \in UMsg(n)
      /\ SameIdent(freed, w) /\ SameBooks(freed, w) /\ SameSignals(freed, w)
      /\ w.cautious = freed.cautious /\ (freed.iterate_ev => w.iterate_ev)
      /\ um.expecting_ack /\ w.resend # <<>> => w.iterate_ev
  <2>1. CASE um.expecting_ack
    <3> DEFINE z == ut_resend_async(freed)
    <3>1. /\ z \in UMsg(n) /\ SameIdent(freed, z) /\ SameBooks(freed, z) /\ SameSignals(freed, z)
          /\ z.cautious = freed.cautious /\ z.iterate_ev = (freed.iterate_ev \/ freed.resend # <<>>)
      BY AsyncShape
    <3>2. w = z
      BY <2>1
    <3> HIDE DEF z, w
    <3> QED BY <3>1, <3>2 DEF SameBooks
  <2>2. CASE ~um.expecting_ack
    <3>1. w = freed
      BY <2>2
    <3> QED BY <3>1, <2>2 DEF SameIdent, SameBooks, SameSignals
  <2> QED BY <2>1, <2>2
<1> HIDE DEF w
<1>2. /\ v \in UMsg(n) /\ SameIdent(w, v) /\ SameBooks(w, v)
      /\ v.cautious = w.cautious /\ ~v.expecting_ack /\ v.alive = w.alive
      /\ v.ear_pending = w.ear_pending /\ v.ear_ev = w.ear_ev /\ v.iterate_ev = w.iterate_ev
      /\ v.resend = w.resend
  BY <1>1 DEF UMsg, SameIdent, SameBooks
<1>3. Resumed(um, freed) = v
  BY DEF Resumed, w
<1> HIDE DEF v
<1>4. SameIdent(freed, v) /\ SameBooks(freed, v)
  BY <1>1, <1>2 DEF SameIdent, SameBooks
<1>5. Books(v)
  BY <1>4, SameBooksKeep
<1>6. /\ v.cautious = freed.cautious /\ v.alive = freed.alive
      /\ v.ear_pending = freed.ear_pending /\ v.ear_ev = freed.ear_ev
      /\ freed.iterate_ev => v.iterate_ev
      /\ um.expecting_ack /\ v.resend # <<>> => v.iterate_ev
  BY <1>1, <1>2 DEF SameSignals
<1> QED BY <1>2, <1>3, <1>4, <1>5, <1>6

\* A valid ACK
LEMMA GotAckKept ==
    ASSUME TxIInv, NEW m \in LiveMids, NEW ack \in Acks, GotAck(m, ack)
    PROVE  Kept
<1> DEFINE n == Fragcnt(msgs[m])
           um == SignOfLife(msgs[m])
           freed == FreeAcked(um, ack)
           rest == FragSeq(m, Ascending(LiveFrags(freed)))
<1>1. /\ n \in 1 .. FragMax /\ msgs[m] \in UMsg(n) /\ Books(msgs[m]) /\ m \in Mid
      /\ Types /\ LayerTypes /\ msgs[m].to \in Host
      /\ \A f \in LiveFrags(msgs[m]) : Somewhere(msgs[m], f, Frag(m, f) \in Queued)
  BY LiveMsg
<1>2. ack.fragno < n
  BY DEF GotAck, AckAccepted
<1> DEFINE A1 == ut_msg_free(m, TRUE, attr) /\ UNCHANGED <<lower, aborted>>
           A2 == Leave(m, freed) /\ UNCHANGED <<lower, aborted>>
           A3 == /\ msgs' = [msgs EXCEPT ![m] = ut_send_remaining(freed)]
                 /\ ut_frag_send(rest, ut_to_flag_good(attr, um.to)) /\ UNCHANGED aborted
           A4 == Leave(m, Resumed(um, freed)) /\ UNCHANGED <<lower, aborted>>
<1>3. A1 \/ A2 \/ A3 \/ A4
  BY Zenon DEF GotAck, Resumed
<1> HIDE DEF n
<1>4. /\ um \in UMsg(n) /\ Books(um) /\ SameIdent(msgs[m], um) /\ SameBooks(msgs[m], um)
      /\ um.cautious = msgs[m].cautious
  BY <1>1, SignOfLifeShape
<1> HIDE DEF um
<1>5. freed \in UMsg(n) /\ Books(freed) /\ FreedFrom(um, freed)
  BY <1>1, <1>2, <1>4, FreeAckedShape
<1> HIDE DEF freed
<1>6. freed.seqno = msgs[m].seqno
  BY <1>4, <1>5 DEF FreedFrom, SameIdent
<1>7. \A f \in LiveFrags(freed) : Somewhere(freed, f, Frag(m, f) \in Queued)
  <2>1. Fragcnt(freed) = n /\ Fragcnt(msgs[m]) = n /\ Fragcnt(um) = n
    BY <1>1, <1>4, <1>5, MsgFields
  <2>2. LiveFrags(freed) \subseteq LiveFrags(msgs[m])
    BY <1>4, <1>5, SameBooksKeep DEF FreedFrom
  <2>3. /\ \A f \in LiveFrags(freed) : freed.fragments[f] = msgs[m].fragments[f]
        /\ freed.lingering = msgs[m].lingering /\ freed.cautious = msgs[m].cautious
    BY <1>4, <1>5 DEF FreedFrom, SameBooks
  <2> QED BY <1>1, <2>1, <2>2, <2>3 DEF Somewhere
<1>8. CASE A1
  <2>1. attr \in Attr /\ SameButHosts(attr, attr) /\ IsABag(lower') /\ DOMAIN lower' \subseteq DOMAIN lower
        /\ \A dg \in DOMAIN lower : dg \in DOMAIN lower'
    BY <1>1, <1>8 DEF LayerTypes, SameButHosts
  <2> QED BY <1>8, <2>1, MsgFreeKept
<1>9. CASE A2
  <2> QED BY <1>5, <1>6, <1>7, <1>9, LeaveKept DEF n
<1>10. CASE A4
  <2> DEFINE v == Resumed(um, freed)
  <2>1. v \in UMsg(n) /\ Books(v) /\ SameIdent(freed, v) /\ SameBooks(freed, v) /\ v.cautious = freed.cautious
    BY <1>1, <1>5, ResumedShape
  <2>2. Leave(m, v) /\ UNCHANGED <<lower, aborted>>
    BY <1>10
  <2> HIDE DEF v
  <2>3. v.seqno = msgs[m].seqno
    BY <1>6, <2>1 DEF SameIdent
  <2>4. LiveFrags(v) = LiveFrags(freed) /\ Fragcnt(v) = Fragcnt(freed)
    BY <2>1, SameBooksKeep
  <2>5. \A f \in LiveFrags(v) : Somewhere(v, f, Frag(m, f) \in Queued)
    BY <1>7, <2>1, <2>4 DEF Somewhere, SameBooks
  <2> QED BY <2>1, <2>2, <2>3, <2>5, LeaveKept DEF n
<1>11. CASE A3
  <2> DEFINE v == ut_send_remaining(freed)
             a == ut_to_flag_good(attr, um.to)
             fs == Ascending(LiveFrags(freed))
  <2>1. /\ v \in UMsg(n) /\ Books(v) /\ SameIdent(freed, v) /\ LiveFrags(v) = LiveFrags(freed)
    BY <1>1, <1>5, RemainingShape
  <2>2. um.to \in Host /\ attr \in Attr
    BY <1>1, <1>4 DEF SameIdent, LayerTypes
  <2>3. a \in Attr /\ SameButHosts(attr, a)
    BY <2>2, HostsShape
  <2>4. n \in Nat /\ LiveFrags(freed) \in SUBSET (0 .. n - 1) /\ DOMAIN v.fragments = 0 .. n - 1
    BY <1>1, <1>5, <2>1, MsgFields
  <2>5. fs \in Seq(LiveFrags(freed)) /\ Range(fs) = LiveFrags(freed)
    BY <2>4, AscendingRange
  <2>6. msgs' = [msgs EXCEPT ![m] = v] /\ ut_frag_send(rest, a) /\ aborted' = aborted
    BY <1>11
  <2>7. rest = FragSeq(m, fs)
    OBVIOUS
  <2> HIDE DEF v, a, fs, rest
  <2>8. fs \in Seq(0 .. n - 1)
    BY <2>4, <2>5
  <2>9. /\ rest \in Seq(Dgram)
        /\ \A dg \in Range(rest) : dg.kind = "frag" /\ dg.mid = m /\ dg.fragno \in 0 .. n - 1
        /\ \A f \in LiveFrags(freed) : Frag(m, f) \in Range(rest)
    BY <1>1, <2>5, <2>7, <2>8, FragSeqShape
  <2>10. a.pending = attr.pending
    BY <2>3 DEF SameButHosts
  <2>11. /\ attr' \in Attr /\ IsABag(lower') /\ DOMAIN lower' \subseteq Dgram
         /\ Queued' = Queued \cup Range(rest)
         /\ attr'.seq = a.seq /\ attr'.seqno_freed = a.seqno_freed /\ attr'.out_of_seqno = a.out_of_seqno
         /\ attr'.upper_flowc = a.upper_flowc
         /\ a.lower_flowc => attr'.lower_flowc
         /\ (a.lower_flowc <=> a.pending # <<>>) => (attr'.lower_flowc <=> attr'.pending # <<>>)
    BY <1>1, <2>3, <2>6, <2>9, <2>10, FragSendShape DEF LayerTypes
  <2>12. LayerTypes'
    BY <1>1, <2>6, <2>11 DEF LayerTypes
  <2>13. FlowKept
    BY <2>3, <2>11 DEF FlowKept, SameButHosts
  <2>14. v.seqno = msgs[m].seqno
    BY <1>6, <2>1 DEF SameIdent
  <2>15. \A f \in LiveFrags(v) : Somewhere(v, f, Frag(m, f) \in Queued')
    BY <2>1, <2>9, <2>11 DEF Somewhere
  <2> QED BY <2>1, <2>4, <2>6, <2>9, <2>11, <2>12, <2>13, <2>14, <2>15, UpdateKept DEF n
<1> QED BY <1>3, <1>8, <1>9, <1>10, <1>11

\* The parallelism is set to the number of fragments.
FullAlpha(um) == [um EXCEPT !.alpha = Fragcnt(um)]

\* The parallelism is raised within its bounds.
LEMMA FullAlphaShape ==
    ASSUME NEW n \in 1 .. FragMax, NEW um \in UMsg(n), Books(um)
    PROVE  LET v == FullAlpha(um)
           IN  /\ v \in UMsg(n) /\ Books(v) /\ SameIdent(um, v) /\ SameBooks(um, v) /\ SameSignals(um, v)
               /\ v.cautious = um.cautious /\ v.iterate_ev = um.iterate_ev
<1> DEFINE v == FullAlpha(um)
<1>1. Fragcnt(um) = n
  BY MsgFields
<1>2. v = [um EXCEPT !.alpha = n]
  BY <1>1 DEF FullAlpha
<1> HIDE DEF v
<1>3. /\ v \in UMsg(n) /\ SameIdent(um, v) /\ SameBooks(um, v) /\ SameSignals(um, v)
      /\ v.cautious = um.cautious /\ v.iterate_ev = um.iterate_ev
  BY <1>2 DEF UMsg, SameIdent, SameBooks, SameSignals
<1>4. Books(v)
  BY <1>3, SameBooksKeep
<1> QED BY <1>3, <1>4 DEF v

\* ut_got_ack(), an EAR NACK: all is to be resent.
Flushed(um) == [ut_send_unacknowleged(FullAlpha(um)) EXCEPT !.expecting_ack = FALSE]

\* Flushing puts all the fragments left in the resend list.
LEMMA FlushedShape ==
    ASSUME NEW n \in 1 .. FragMax, NEW um \in UMsg(n), Books(um)
    PROVE  LET v == Flushed(um)
           IN  /\ v \in UMsg(n) /\ Books(v) /\ SameIdent(um, v) /\ LiveFrags(v) = LiveFrags(um)
               /\ \A f \in LiveFrags(v) : v.fragments[f].resend
               /\ v.alive = um.alive /\ v.ear_pending = um.ear_pending /\ v.ear_ev = um.ear_ev
               /\ v.lingering = um.lingering /\ ~v.expecting_ack
               /\ v.resend # <<>> => v.iterate_ev
<1> DEFINE u == FullAlpha(um)
           w == ut_send_unacknowleged(u)
           v == [w EXCEPT !.expecting_ack = FALSE]
<1>1. u \in UMsg(n) /\ Books(u) /\ SameIdent(um, u) /\ SameBooks(um, u) /\ SameSignals(um, u)
  BY FullAlphaShape
<1>2. Flushed(um) = v
  BY DEF Flushed
<1> HIDE DEF u
<1>3. /\ w \in UMsg(n) /\ Books(w) /\ SameIdent(u, w) /\ SameSignals(u, w) /\ LiveFrags(w) = LiveFrags(u)
      /\ w.lingering = u.lingering /\ \A f \in LiveFrags(w) : w.fragments[f].resend
      /\ w.resend # <<>> => w.iterate_ev
  BY <1>1, UnackedShape
<1> HIDE DEF w
<1>4. /\ v \in UMsg(n) /\ SameIdent(w, v) /\ SameBooks(w, v) /\ ~v.expecting_ack /\ v.alive = w.alive
      /\ v.ear_pending = w.ear_pending /\ v.ear_ev = w.ear_ev /\ v.iterate_ev = w.iterate_ev
  BY <1>3, ZenonT(60) DEF UMsg, SameIdent, SameBooks
<1> HIDE DEF v
<1>5. Books(v) /\ LiveFrags(v) = LiveFrags(um)
  BY <1>1, <1>3, <1>4, SameBooksKeep
<1>6. SameIdent(um, v)
  BY <1>1, <1>3, <1>4 DEF SameIdent
<1>7. /\ \A f \in LiveFrags(v) : v.fragments[f].resend
      /\ v.resend # <<>> => v.iterate_ev
      /\ v.lingering = um.lingering
  BY <1>1, <1>3, <1>4, SameBooksKeep DEF SameBooks
<1>8. v.alive = um.alive /\ v.ear_pending = um.ear_pending /\ v.ear_ev = um.ear_ev
  BY <1>1, <1>3, <1>4 DEF SameSignals
<1> QED BY <1>2, <1>4, <1>5, <1>6, <1>7, <1>8

\* GotEarNack keeps the invariant: all fragments left are flushed.
LEMMA GotEarNackKept ==
    ASSUME TxIInv, NEW m \in LiveMids, NEW ack, GotEarNack(m, ack)
    PROVE  Kept
<1> DEFINE n == Fragcnt(msgs[m])
           um == SignOfLife(msgs[m])
           v == Flushed(um)
<1>1. /\ n \in 1 .. FragMax /\ msgs[m] \in UMsg(n) /\ Books(msgs[m]) /\ m \in Mid
      /\ Types /\ LayerTypes /\ msgs[m].to \in Host
  BY LiveMsg
<1>2. /\ msgs' = [msgs EXCEPT ![m] = v] /\ attr' = ut_to_flag_good(attr, um.to)
      /\ UNCHANGED <<lower, aborted>>
  BY DEF GotEarNack, Flushed, FullAlpha
<1> HIDE DEF n
<1>3. /\ um \in UMsg(n) /\ Books(um) /\ SameIdent(msgs[m], um)
  BY <1>1, SignOfLifeShape
<1> HIDE DEF um
<1>4. /\ v \in UMsg(n) /\ Books(v) /\ SameIdent(um, v) /\ \A f \in LiveFrags(v) : v.fragments[f].resend
  BY <1>1, <1>3, FlushedShape
<1> HIDE DEF v
<1>5. attr' \in Attr /\ SameButHosts(attr, attr')
  BY <1>1, <1>2, <1>3, HostsShape DEF SameIdent, LayerTypes
<1>6. LayerTypes' /\ FlowKept /\ Queued' = Queued
  BY <1>1, <1>2, <1>5 DEF LayerTypes, FlowKept, SameButHosts, Queued
<1>7. v.seqno = msgs[m].seqno
  BY <1>3, <1>4 DEF SameIdent
<1>8. \A f \in LiveFrags(v) : Somewhere(v, f, Frag(m, f) \in Queued')
  BY <1>4 DEF Somewhere
<1> QED BY <1>2, <1>4, <1>6, <1>7, <1>8, UpdateKept DEF n

\* A message expires: ut_um_expired().
LingersOn(um) ==
    [(IF um.reliable /\ Fragsent(um) >= Fragcnt(um) \div 2
        THEN ut_send_unacknowleged(FullAlpha(um)) ELSE FullAlpha(um)) EXCEPT !.lingering = TRUE]

\* A message that lingers keeps its fragments.
LEMMA LingersOnShape ==
    ASSUME NEW n \in 1 .. FragMax, NEW um \in UMsg(n), Books(um)
    PROVE  LET v == LingersOn(um)
           IN  /\ v \in UMsg(n) /\ Books(v) /\ SameIdent(um, v) /\ SameSignals(um, v) /\ v.lingering
               /\ LiveFrags(v) = LiveFrags(um)
<1> DEFINE u == FullAlpha(um)
           w == IF um.reliable /\ Fragsent(um) >= Fragcnt(um) \div 2 THEN ut_send_unacknowleged(u) ELSE u
           v == [w EXCEPT !.lingering = TRUE]
<1>1. u \in UMsg(n) /\ Books(u) /\ SameIdent(um, u) /\ SameBooks(um, u) /\ SameSignals(um, u)
  BY FullAlphaShape
<1>2. LingersOn(um) = v
  BY DEF LingersOn
<1> HIDE DEF u
<1>3. w \in UMsg(n) /\ Books(w) /\ SameIdent(u, w) /\ SameSignals(u, w) /\ LiveFrags(w) = LiveFrags(u)
  <2>1. LET z == ut_send_unacknowleged(u)
        IN  z \in UMsg(n) /\ Books(z) /\ SameIdent(u, z) /\ SameSignals(u, z) /\ LiveFrags(z) = LiveFrags(u)
    BY <1>1, UnackedShape
  <2>2. SameIdent(u, u) /\ SameSignals(u, u)
    BY DEF SameIdent, SameSignals
  <2> QED BY <1>1, <2>1, <2>2
<1> HIDE DEF w
<1>4. /\ v \in UMsg(n) /\ SameIdent(w, v) /\ SameSignals(w, v) /\ v.lingering
      /\ v.fragments = w.fragments /\ v.resend = w.resend
  BY <1>3 DEF UMsg, SameIdent, SameSignals
<1> HIDE DEF v
<1>5. Books(v)
  <2>1. LiveFrags(v) = LiveFrags(w) /\ Flagged(v) = Flagged(w) /\ Waiting(v) = Waiting(w)
    BY <1>4 DEF LiveFrags, Flagged, Waiting
  <2> QED BY <1>3, <1>4, <2>1 DEF Books, ListExact
<1>6. SameIdent(um, v) /\ SameSignals(um, v)
  BY <1>1, <1>3, <1>4 DEF SameIdent, SameSignals
<1>7. LiveFrags(v) = LiveFrags(um)
  BY <1>1, <1>3, <1>4, SameBooksKeep DEF LiveFrags
<1> QED BY <1>2, <1>4, <1>5, <1>6, <1>7

\* Expired keeps the invariant: the message lingers, its fragments flushed or not.
LEMMA ExpiredKept ==
    ASSUME TxIInv, NEW m \in Mid, Expired(m)
    PROVE  Kept
<1> DEFINE n == Fragcnt(msgs[m])
           um == msgs[m]
           v == LingersOn(um)
<1>0. m \in LiveMids
  BY DEF Expired, LiveMids
<1>1. /\ n \in 1 .. FragMax /\ um \in UMsg(n) /\ Books(um) /\ Types /\ LayerTypes /\ um.to \in Host
  BY <1>0, LiveMsg
<1>2. /\ msgs' = [msgs EXCEPT ![m] = v] /\ UNCHANGED <<lower, aborted>>
      /\ attr' \in {attr, ut_to_ban(attr, um.to)}
  BY DEF Expired, LingersOn, FullAlpha
<1> HIDE DEF n, um
<1>3. v \in UMsg(n) /\ Books(v) /\ SameIdent(um, v) /\ v.lingering
  BY <1>1, LingersOnShape
<1> HIDE DEF v
<1>4. attr' \in Attr /\ SameButHosts(attr, attr')
  BY <1>1, <1>2, HostsShape DEF LayerTypes, SameButHosts
<1>5. LayerTypes' /\ FlowKept /\ Queued' = Queued
  BY <1>1, <1>2, <1>4 DEF LayerTypes, FlowKept, SameButHosts, Queued
<1>6. v.seqno = msgs[m].seqno
  BY <1>3 DEF SameIdent, um
<1>7. \A f \in LiveFrags(v) : Somewhere(v, f, Frag(m, f) \in Queued')
  BY <1>3 DEF Somewhere
<1> QED BY <1>0, <1>2, <1>3, <1>5, <1>6, <1>7, UpdateKept DEF n, um

\* The message ends, all else being left alone.
LEMMA EndKept ==
    ASSUME TxIInv, NEW m \in LiveMids, NEW sent \in BOOLEAN, NEW a \in Attr, SameButHosts(attr, a),
           ut_msg_free(m, sent, a), UNCHANGED <<lower, aborted>>
    PROVE  Kept
<1>1. /\ IsABag(lower') /\ DOMAIN lower' \subseteq DOMAIN lower /\ aborted' = aborted
      /\ \A dg \in DOMAIN lower : dg \in DOMAIN lower' \/ dg.kind = "ear" \/ dg.mid = m
  BY DEF TxIInv, Types
<1> QED BY <1>1, MsgFreeKept

\* Lingered keeps the invariant: the message ends.
LEMMA LingeredKept ==
    ASSUME TxIInv, NEW m \in Mid, Lingered(m)
    PROVE  Kept
<1>1. m \in LiveMids /\ ut_msg_free(m, FALSE, attr) /\ UNCHANGED <<lower, aborted>>
  BY DEF Lingered, LiveMids
<1>2. attr \in Attr /\ SameButHosts(attr, attr)
  BY DEF TxIInv, Types, SameButHosts
<1> QED BY <1>1, <1>2, EndKept

\* A fragment whose datagram is released, and which is still there.
LEMMA HookedFrag ==
    ASSUME TxIInv, NEW m \in Mid, NEW f, Release(Frag(m, f)), ut_frag_hook(m, f)
    PROVE  m \in LiveMids /\ f \in LiveFrags(msgs[m])
<1>1. Frag(m, f) \in DOMAIN lower
  BY DEF Release, BagIn, BagToSet
<1>2. OwnedDgram(Frag(m, f))
  BY <1>1 DEF TxIInv, KnownInv, Queued
<1>3. f \in DOMAIN msgs[m].fragments
  BY <1>2 DEF OwnedDgram, Frag, ut_frag_hook
<1> QED BY <1>3 DEF ut_frag_hook, LiveMids, LiveFrags

\* The state of a message that leaves the books alone: only the timer and the
\* count of transmissions of a fragment change.
LEMMA TouchedShape ==
    ASSUME NEW n \in 1 .. FragMax, NEW um \in UMsg(n), Books(um), NEW f \in LiveFrags(um),
           NEW uf \in UFrag, uf.resend = um.fragments[f].resend, uf.pending = um.fragments[f].pending
    PROVE  LET v == [um EXCEPT !.fragments = WithFrag(um, f, uf)]
           IN  /\ v \in UMsg(n) /\ Books(v) /\ SameIdent(um, v) /\ SameSignals(um, v)
               /\ LiveFrags(v) = LiveFrags(um) /\ Waiting(v) = Waiting(um)
               /\ v.resend = um.resend /\ v.iterate_ev = um.iterate_ev
               /\ v.lingering = um.lingering /\ v.cautious = um.cautious
               /\ v.fragments[f] = uf
               /\ \A g \in LiveFrags(um) \ {f} : v.fragments[g] = um.fragments[g]
<1> DEFINE w == WithFrag(um, f, uf)
           v == [um EXCEPT !.fragments = w]
<1> HIDE DEF w
<1>1. v.fragments = w
  BY DEF UMsg
<1>2. /\ v.fragments \in [0 .. n - 1 -> UFrag \cup {Null}]
      /\ LiveFrags(v) = LiveFrags(um) /\ v.fragments[f] = uf
      /\ \A g \in LiveFrags(um) \ {f} : v.fragments[g] = um.fragments[g]
      /\ Flagged(v) = IF uf.resend THEN Flagged(um) \cup {f} ELSE Flagged(um) \ {f}
      /\ Waiting(v) = IF uf.pending THEN Waiting(um) \cup {f} ELSE Waiting(um) \ {f}
  <2>1. v.fragments = WithFrag(um, f, uf)
    BY <1>1 DEF w
  <2> HIDE DEF v
  <2> QED BY <2>1, FragUpdate
<1>3. /\ v \in UMsg(n) /\ SameIdent(um, v) /\ SameSignals(um, v)
      /\ v.resend = um.resend /\ v.iterate_ev = um.iterate_ev /\ v.pending = um.pending
      /\ v.lingering = um.lingering /\ v.cautious = um.cautious
  BY <1>1, <1>2 DEF UMsg, SameIdent, SameSignals
<1>4. v = [um EXCEPT !.fragments = WithFrag(um, f, uf)]
  BY DEF w
<1> HIDE DEF v
<1>5. Flagged(v) = Flagged(um) /\ Waiting(v) = Waiting(um)
  BY <1>2 DEF Flagged, Waiting
<1>6. Books(v)
  BY <1>3, <1>5 DEF Books, ListExact
<1> QED BY <1>2, <1>3, <1>4, <1>5, <1>6

\* A fragment whose datagram was released, the message being left with the
\* fragment changed into uf.
LEMMA TouchedKept ==
    ASSUME TxIInv, NEW m \in LiveMids, NEW f \in LiveFrags(msgs[m]), NEW uf \in UFrag,
           uf.resend = msgs[m].fragments[f].resend, uf.pending = msgs[m].fragments[f].pending,
           uf.resend_ev, Release(Frag(m, f)), UNCHANGED aborted,
           Leave(m, [msgs[m] EXCEPT !.fragments = WithFrag(msgs[m], f, uf)])
    PROVE  Kept
<1> DEFINE n == Fragcnt(msgs[m])
           um == msgs[m]
           v == [um EXCEPT !.fragments = WithFrag(um, f, uf)]
<1>1. /\ n \in 1 .. FragMax /\ um \in UMsg(n) /\ Books(um) /\ Types /\ LayerTypes /\ m \in Mid
      /\ \A g \in LiveFrags(um) : Somewhere(um, g, Frag(m, g) \in Queued)
  BY LiveMsg
<1>2. msgs' = [msgs EXCEPT ![m] = v] /\ attr' = attr
  BY DEF Leave
<1> HIDE DEF n
<1>3. /\ v \in UMsg(n) /\ Books(v) /\ SameIdent(um, v)
      /\ LiveFrags(v) = LiveFrags(um) /\ v.lingering = um.lingering /\ v.cautious = um.cautious
      /\ v.fragments[f] = uf /\ \A g \in LiveFrags(um) \ {f} : v.fragments[g] = um.fragments[g]
  BY <1>1, TouchedShape
<1> HIDE DEF v, um
<1>4. /\ IsABag(lower') /\ DOMAIN lower' \subseteq DOMAIN lower
      /\ Queued' \subseteq Queued /\ Queued \ {Frag(m, f)} \subseteq Queued'
  BY <1>1, <1>2, ReleaseShape DEF LayerTypes
<1>5. LayerTypes' /\ FlowKept
  BY <1>1, <1>2, <1>4 DEF LayerTypes, FlowKept
<1>6. v.seqno = msgs[m].seqno
  BY <1>3 DEF SameIdent, um
<1>7. \A g \in LiveFrags(v) : Somewhere(v, g, Frag(m, g) \in Queued')
  <2> SUFFICES ASSUME NEW g \in LiveFrags(um) PROVE Somewhere(v, g, Frag(m, g) \in Queued')
    BY <1>3
  <2>1. CASE g = f
    BY <1>3, <2>1 DEF Somewhere
  <2>2. CASE g # f
    <3>1. Frag(m, g) \in Queued => Frag(m, g) \in Queued'
      BY <1>4, <2>2 DEF Frag
    <3>2. Fragcnt(v) = Fragcnt(um)
      BY <1>1, <1>3, MsgFields
    <3> QED BY <1>1, <1>3, <2>2, <3>1, <3>2 DEF Somewhere
  <2> QED BY <2>1, <2>2
<1>8. Frag(m, f).mid = m
  BY DEF Frag
<1> QED BY <1>2, <1>3, <1>4, <1>5, <1>6, <1>7, <1>8, UpdateKept DEF n, um

\* FragDropped keeps the invariant: the fragment gets its timer.
LEMMA FragDroppedKept ==
    ASSUME TxIInv, NEW m \in Mid, NEW f, FragDropped(m, f)
    PROVE  Kept
<1>1. m \in LiveMids /\ f \in LiveFrags(msgs[m]) /\ Release(Frag(m, f)) /\ UNCHANGED aborted
  BY HookedFrag DEF FragDropped
<1>2. msgs[m] \in UMsg(Fragcnt(msgs[m])) /\ Fragcnt(msgs[m]) \in 1 .. FragMax
  BY <1>1, LiveMsg
<1> DEFINE uf == [msgs[m].fragments[f] EXCEPT !.resend_ev = TRUE]
<1>3. msgs[m].fragments[f] \in UFrag
  BY <1>1, <1>2, MsgFields
<1>4. /\ uf \in UFrag /\ uf.resend = msgs[m].fragments[f].resend
      /\ uf.pending = msgs[m].fragments[f].pending /\ uf.resend_ev
  BY <1>3 DEF UFrag
<1>5. Leave(m, [msgs[m] EXCEPT !.fragments = WithFrag(msgs[m], f, uf)])
  BY DEF FragDropped, WithFrag
<1> HIDE DEF uf
<1> QED BY <1>1, <1>4, <1>5, TouchedKept

\* FragCancelled keeps the invariant: no fragment waits for that datagram.
LEMMA FragCancelledKept ==
    ASSUME TxIInv, NEW m \in Mid, NEW f, FragCancelled(m, f)
    PROVE  Kept
<1>1. /\ Release(Frag(m, f)) /\ ~ut_frag_hook(m, f) /\ msgs' = msgs /\ attr' = attr /\ aborted' = aborted
  BY DEF FragCancelled
<1>2. LayerTypes
  BY DEF TxIInv, Types, LayerTypes
<1>3. /\ IsABag(lower') /\ DOMAIN lower' \subseteq DOMAIN lower
      /\ Queued' \subseteq Queued /\ Queued \ {Frag(m, f)} \subseteq Queued'
  BY <1>1, <1>2, ReleaseShape DEF LayerTypes
<1>4. LayerTypes' /\ FlowKept
  BY <1>1, <1>2, <1>3 DEF LayerTypes, FlowKept
<1>5. Frag(m, f).mid = m /\ Frag(m, f).fragno = f
  BY DEF Frag
<1>6. TxIInv' /\ LiveMids' = LiveMids
  BY <1>1, <1>3, <1>4, <1>5, MsgsSame
<1> QED BY <1>1, <1>4, <1>6, FlowQuiet DEF Kept

\* FragSent keeps the invariant: the fragment gets its timer, or is over.
LEMMA FragSentKept ==
    ASSUME TxIInv, NEW m \in Mid, NEW f, FragSent(m, f)
    PROVE  Kept
<1> DEFINE n == Fragcnt(msgs[m])
           um == msgs[m]
           uf == [um.fragments[f] EXCEPT !.txcnt = Saturated(um.fragments[f].txcnt, SendMax), !.resend_ev = TRUE]
           v == ut_frag_free(um, f)
<1>1. m \in LiveMids /\ f \in LiveFrags(um) /\ Release(Frag(m, f)) /\ aborted' = aborted
  BY HookedFrag DEF FragSent
<1>2. /\ n \in 1 .. FragMax /\ um \in UMsg(n) /\ Books(um) /\ Types /\ LayerTypes
      /\ \A g \in LiveFrags(um) : Somewhere(um, g, Frag(m, g) \in Queued)
  BY <1>1, LiveMsg
<1>3. \/ Leave(m, [msgs[m] EXCEPT !.fragments = WithFrag(msgs[m], f, uf)])
      \/ Leave(m, v)
      \/ ut_msg_free(m, TRUE, attr)
  BY Zenon DEF FragSent, LeaveOrFree, WithFrag
<1>4. um.fragments[f] \in UFrag /\ f \in 0 .. n - 1
  <2> HIDE DEF n, um
  <2> QED BY <1>1, <1>2, MsgFields
<1>5. CASE Leave(m, [msgs[m] EXCEPT !.fragments = WithFrag(msgs[m], f, uf)])
  <2>1. Saturated(um.fragments[f].txcnt, SendMax) \in 0 .. SendMax
    <3>1. um.fragments[f].txcnt \in 0 .. SendMax /\ SendMax \in Nat
      BY <1>4, LimitsAssumption DEF UFrag
    <3> QED BY <3>1 DEF Saturated
  <2>2. /\ uf \in UFrag /\ uf.resend = msgs[m].fragments[f].resend
        /\ uf.pending = msgs[m].fragments[f].pending /\ uf.resend_ev
    BY <1>4, <2>1 DEF UFrag
  <2> HIDE DEF uf
  <2> QED BY <1>1, <1>5, <2>2, TouchedKept
<1> HIDE DEF n, uf
<1>6. /\ v \in UMsg(n) /\ Books(v) /\ FreedFrom(um, v) /\ LiveFrags(v) = LiveFrags(um) \ {f}
  BY <1>2, <1>4, FragFreeShape
<1> HIDE DEF v
<1>7. CASE Leave(m, v)
  <2>1. msgs' = [msgs EXCEPT ![m] = v] /\ attr' = attr
    BY <1>7 DEF Leave
  <2>2. /\ IsABag(lower') /\ DOMAIN lower' \subseteq DOMAIN lower
        /\ Queued' \subseteq Queued /\ Queued \ {Frag(m, f)} \subseteq Queued'
    BY <1>1, <1>2, <2>1, ReleaseShape DEF LayerTypes
  <2>3. LayerTypes' /\ FlowKept
    BY <1>1, <1>2, <2>1, <2>2 DEF LayerTypes, FlowKept
  <2>4. v.seqno = msgs[m].seqno
    BY <1>6 DEF SameIdent, FreedFrom
  <2>5. \A g \in LiveFrags(v) : Somewhere(v, g, Frag(m, g) \in Queued')
    <3> SUFFICES ASSUME NEW g \in LiveFrags(v) PROVE Somewhere(v, g, Frag(m, g) \in Queued')
      OBVIOUS
    <3>1. g \in LiveFrags(um) /\ g # f
      BY <1>6
    <3>2. Frag(m, g) \in Queued => Frag(m, g) \in Queued'
      BY <2>2, <3>1 DEF Frag
    <3>3. Fragcnt(v) = Fragcnt(um)
      BY <1>2, <1>6, MsgFields
    <3>4. v.fragments[g] = um.fragments[g] /\ v.cautious = um.cautious /\ v.lingering = um.lingering
      BY <1>6 DEF FreedFrom
    <3> QED BY <1>2, <3>1, <3>2, <3>3, <3>4 DEF Somewhere
  <2>6. Frag(m, f).mid = m
    BY DEF Frag
  <2> QED BY <1>1, <1>6, <2>1, <2>2, <2>3, <2>4, <2>5, <2>6, UpdateKept DEF n
<1>8. CASE ut_msg_free(m, TRUE, attr)
  <2>1. attr \in Attr /\ SameButHosts(attr, attr) /\ Frag(m, f).mid = m
    BY <1>2 DEF LayerTypes, SameButHosts, Frag
  <2>2. /\ IsABag(lower') /\ DOMAIN lower' \subseteq DOMAIN lower
        /\ DOMAIN lower \ {Frag(m, f)} \subseteq DOMAIN lower'
    BY <1>1, <1>2, BagTakeRange DEF LayerTypes, Release
  <2> QED BY <1>1, <1>8, <2>1, <2>2, MsgFreeKept
<1> QED BY <1>3, <1>5, <1>7, <1>8

\* Only the signals of messages and their EARs change.
LEMMA SignalsKept ==
    ASSUME TxIInv, msgs' \in [Mid -> Msg \cup {Unborn, Sent, Dropped}], LayerTypes', FlowKept,
           \A k \in Mid : \/ msgs'[k] = msgs[k]
                          \/ /\ msgs[k] \in Msg /\ msgs'[k] \in Msg
                             /\ SameBooks(msgs[k], msgs'[k]) /\ SameIdent(msgs[k], msgs'[k])
                             /\ msgs'[k].cautious = msgs[k].cautious,
           \A dg \in Queued' : dg \in Queued \/ dg.kind = "ear",
           \A dg \in Queued : dg \in Queued' \/ dg.kind = "ear"
    PROVE  Kept
<1>1. Types' /\ Types
  BY DEF TxIInv, Types, LayerTypes
<1>2. \A k \in Mid : Alive(k)' <=> msgs'[k] \in Msg
  BY TagsApart DEF Alive
<1>3. \A k \in Mid : Alive(k)' <=> Alive(k)
  BY <1>1, <1>2, AliveMsg
<1>4. LiveMids' = LiveMids
  BY <1>3 DEF LiveMids
<1>5. \A k \in LiveMids :
        /\ LiveFrags(msgs'[k]) = LiveFrags(msgs[k]) /\ Fragcnt(msgs'[k]) = Fragcnt(msgs[k])
        /\ msgs'[k].fragments = msgs[k].fragments
        /\ msgs'[k].lingering = msgs[k].lingering /\ msgs'[k].cautious = msgs[k].cautious
        /\ msgs'[k].seqno = msgs[k].seqno
        /\ Books(msgs[k]) => Books(msgs'[k])
  <2> SUFFICES ASSUME NEW k \in LiveMids
               PROVE  /\ LiveFrags(msgs'[k]) = LiveFrags(msgs[k]) /\ Fragcnt(msgs'[k]) = Fragcnt(msgs[k])
                      /\ msgs'[k].fragments = msgs[k].fragments
                      /\ msgs'[k].lingering = msgs[k].lingering /\ msgs'[k].cautious = msgs[k].cautious
                      /\ msgs'[k].seqno = msgs[k].seqno
                      /\ Books(msgs[k]) => Books(msgs'[k])
    OBVIOUS
  <2>1. k \in Mid
    BY DEF LiveMids
  <2>2. CASE msgs'[k] = msgs[k]
    BY <2>2
  <2>3. CASE SameBooks(msgs[k], msgs'[k]) /\ SameIdent(msgs[k], msgs'[k]) /\ msgs'[k].cautious = msgs[k].cautious
    BY <2>3, SameBooksKeep DEF SameBooks, SameIdent
  <2> QED BY <2>1, <2>2, <2>3
<1>6. BookInv'
  BY <1>4, <1>5 DEF TxIInv, BookInv
<1>7. KnownInv'
  <2> SUFFICES ASSUME NEW dg \in Queued, dg.kind = "frag"
               PROVE  /\ msgs'[dg.mid] # Unborn
                      /\ Alive(dg.mid)' => dg.fragno \in DOMAIN msgs'[dg.mid].fragments
    BY DEF KnownInv, OwnedDgram
  <2>1. OwnedDgram(dg)
    BY DEF TxIInv, KnownInv
  <2>2. dg \in Dgram
    BY <1>1, RangeFinite DEF Queued, Types, Attr
  <2>3. dg.mid \in Mid
    BY <2>2 DEF Dgram, FragDgram, EarDgram
  <2>4. msgs'[dg.mid] # Unborn
    BY <2>1, <2>3, TagsApart DEF OwnedDgram
  <2>5. ASSUME Alive(dg.mid)' PROVE dg.fragno \in DOMAIN msgs'[dg.mid].fragments
    <3>1. Alive(dg.mid) /\ dg.mid \in LiveMids
      BY <1>3, <2>3, <2>5 DEF LiveMids
    <3> QED BY <1>5, <2>1, <3>1 DEF OwnedDgram
  <2> QED BY <2>4, <2>5
<1>8. HeldInv'
  <2> SUFFICES ASSUME NEW k \in LiveMids, NEW f \in LiveFrags(msgs[k])
               PROVE  Somewhere(msgs'[k], f, Frag(k, f) \in Queued')
    BY <1>4, <1>5 DEF HeldInv
  <2>1. Somewhere(msgs[k], f, Frag(k, f) \in Queued)
    BY DEF TxIInv, HeldInv
  <2>2. Frag(k, f) \in Queued => Frag(k, f) \in Queued'
    BY DEF Frag
  <2> QED BY <1>5, <2>1, <2>2 DEF Somewhere
<1>9. FlowInv => FlowInv'
  BY <1>4, <1>5, FlowQuiet
<1> QED BY <1>1, <1>6, <1>7, <1>8, <1>9 DEF Kept, TxIInv

\* Nothing but the failure of an assertion.
LEMMA AbortKept ==
    ASSUME TxIInv, Abort
    PROVE  Kept
<1>1. msgs' = msgs /\ attr' = attr /\ lower' = lower /\ aborted' = TRUE
  BY DEF Abort
<1>2. LayerTypes' /\ FlowKept /\ Queued' = Queued
  BY <1>1 DEF TxIInv, Types, LayerTypes, FlowKept, Queued
<1>3. TxIInv' /\ LiveMids' = LiveMids
  BY <1>1, <1>2, MsgsSame
<1> QED BY <1>1, <1>2, <1>3, FlowQuiet DEF Kept

\* An EAR was sent.
EarGone(um) == [um EXCEPT !.ears = Saturated(@, EarSendMax), !.ear_pending = FALSE, !.ear_ev = TRUE]

\* An EAR that was sent gives way to its timer.
LEMMA EarGoneShape ==
    ASSUME NEW n \in 1 .. FragMax, NEW um \in UMsg(n)
    PROVE  LET v == EarGone(um)
           IN  /\ v \in UMsg(n) /\ SameBooks(um, v) /\ SameIdent(um, v) /\ v.cautious = um.cautious
               /\ ~v.ear_pending /\ v.ear_ev
               /\ v.alive = um.alive /\ v.expecting_ack = um.expecting_ack /\ v.iterate_ev = um.iterate_ev
<1>1. Saturated(um.ears, EarSendMax) \in 0 .. EarSendMax
  <2>1. um.ears \in 0 .. EarSendMax /\ EarSendMax \in Nat
    BY LimitsAssumption DEF UMsg
  <2> QED BY <2>1 DEF Saturated
<1> DEFINE e == Saturated(um.ears, EarSendMax)
           v == [um EXCEPT !.ears = e, !.ear_pending = FALSE, !.ear_ev = TRUE]
<1>2. EarGone(um) = v
  BY DEF EarGone
<1> HIDE DEF e
<1>3. e \in 0 .. EarSendMax
  BY <1>1 DEF e
<1>4. /\ v \in UMsg(n) /\ SameBooks(um, v) /\ SameIdent(um, v) /\ v.cautious = um.cautious
      /\ ~v.ear_pending /\ v.ear_ev
      /\ v.alive = um.alive /\ v.expecting_ack = um.expecting_ack /\ v.iterate_ev = um.iterate_ev
  BY <1>3 DEF UMsg, SameBooks, SameIdent
<1> QED BY <1>2, <1>4

\* EarSent keeps the invariant.
LEMMA EarSentKept ==
    ASSUME TxIInv, NEW seqno, NEW n, EarSent(seqno, n)
    PROVE  Kept
<1> DEFINE owners == {m \in LiveMids : msgs[m].seqno = seqno}
           sent == /\ msgs' = [m \in Mid |-> IF m \in owners THEN EarGone(msgs[m]) ELSE msgs[m]]
                   /\ Release(Ear(seqno, n)) /\ UNCHANGED <<attr, aborted>>
<1>1. Abort \/ sent
  BY Zenon DEF EarSent, EarGone
<1>2. CASE sent
  <2>1. Types /\ LayerTypes
    BY DEF TxIInv, Types, LayerTypes
  <2>2. \A k \in LiveMids : /\ msgs[k] \in Msg /\ EarGone(msgs[k]) \in Msg
                            /\ SameBooks(msgs[k], EarGone(msgs[k])) /\ SameIdent(msgs[k], EarGone(msgs[k]))
                            /\ EarGone(msgs[k]).cautious = msgs[k].cautious
    <3> SUFFICES ASSUME NEW k \in LiveMids
                 PROVE  /\ msgs[k] \in Msg /\ EarGone(msgs[k]) \in Msg
                        /\ SameBooks(msgs[k], EarGone(msgs[k])) /\ SameIdent(msgs[k], EarGone(msgs[k]))
                        /\ EarGone(msgs[k]).cautious = msgs[k].cautious
      OBVIOUS
    <3>1. Fragcnt(msgs[k]) \in 1 .. FragMax /\ msgs[k] \in UMsg(Fragcnt(msgs[k])) /\ msgs[k] \in Msg
      BY <2>1, LiveMsg, AliveMsg
    <3>2. /\ EarGone(msgs[k]) \in UMsg(Fragcnt(msgs[k]))
          /\ SameBooks(msgs[k], EarGone(msgs[k])) /\ SameIdent(msgs[k], EarGone(msgs[k]))
          /\ EarGone(msgs[k]).cautious = msgs[k].cautious
      BY <3>1, EarGoneShape
    <3> QED BY <3>1, <3>2 DEF Msg
  <2>3. \A k \in Mid : \/ msgs'[k] = msgs[k]
                       \/ /\ msgs[k] \in Msg /\ msgs'[k] \in Msg
                          /\ SameBooks(msgs[k], msgs'[k]) /\ SameIdent(msgs[k], msgs'[k])
                          /\ msgs'[k].cautious = msgs[k].cautious
    BY <1>2, <2>2
  <2>4. msgs' \in [Mid -> Msg \cup {Unborn, Sent, Dropped}]
    BY <1>2, <2>1, <2>2 DEF Types
  <2>5. attr' = attr /\ aborted' = aborted /\ Release(Ear(seqno, n))
    BY <1>2
  <2>6. /\ IsABag(lower') /\ DOMAIN lower' \subseteq DOMAIN lower
        /\ Queued' \subseteq Queued /\ Queued \ {Ear(seqno, n)} \subseteq Queued'
    BY <2>1, <2>5, ReleaseShape DEF LayerTypes
  <2>7. LayerTypes' /\ FlowKept
    BY <2>1, <2>5, <2>6 DEF LayerTypes, FlowKept
  <2>8. Ear(seqno, n).kind = "ear"
    BY DEF Ear
  <2> QED BY <2>3, <2>4, <2>6, <2>7, <2>8, SignalsKept
<1> QED BY <1>1, <1>2, AbortKept

\* EarDropped keeps the invariant.
LEMMA EarDroppedKept ==
    ASSUME TxIInv, NEW seqno, NEW n, EarDropped(seqno, n)
    PROVE  Kept
<1> DEFINE dg == Ear(seqno, n)
           again == IF n < AckSendMax THEN SetToBag({Ear(seqno, n + 1)}) ELSE EmptyBag
           left == lower (-) SetToBag({dg})
<1>1. Types /\ LayerTypes
  BY DEF TxIInv, Types, LayerTypes
<1>2. /\ dg \in DOMAIN lower /\ lower' = left (+) again
      /\ msgs' = msgs /\ attr' = attr /\ aborted' = aborted
  BY DEF EarDropped, BagIn, BagToSet
<1>3. seqno \in Id /\ n \in 0 .. AckSendMax
  <2>1. Ear(seqno, n) \in Dgram
    BY <1>1, <1>2 DEF LayerTypes
  <2> QED BY <2>1 DEF Ear, Dgram, FragDgram, EarDgram
<1>4. /\ n < AckSendMax => Ear(seqno, n + 1) \in Dgram
      /\ Ear(seqno, n + 1).kind = "ear" /\ dg.kind = "ear"
  <2>1. n < AckSendMax => n + 1 \in 0 .. AckSendMax
    BY <1>3, LimitsAssumption
  <2> QED BY <1>3, <2>1 DEF Ear, Dgram, EarDgram
<1>5. IsABag(again) /\ DOMAIN again \subseteq {Ear(seqno, n + 1)} /\ DOMAIN again \subseteq Dgram
  <2>1. IsABag(EmptyBag) /\ DOMAIN EmptyBag = {}
    BY SetBagRange DEF EmptyBag
  <2>2. IsABag(SetToBag({Ear(seqno, n + 1)})) /\ DOMAIN SetToBag({Ear(seqno, n + 1)}) = {Ear(seqno, n + 1)}
    BY SetBagRange
  <2> QED BY <1>4, <2>1, <2>2
<1>6. IsABag(left) /\ DOMAIN left \subseteq DOMAIN lower /\ DOMAIN lower \ {dg} \subseteq DOMAIN left
  BY <1>1, BagTakeRange DEF LayerTypes
<1> HIDE DEF dg, again, left
<1>7. IsABag(lower') /\ DOMAIN lower' = DOMAIN left \cup DOMAIN again
  BY <1>2, <1>5, <1>6, BagAddRange
<1>8. LayerTypes' /\ FlowKept
  BY <1>1, <1>2, <1>4, <1>5, <1>6, <1>7 DEF LayerTypes, FlowKept
<1>9. /\ \A x \in Queued' : x \in Queued \/ x.kind = "ear"
      /\ \A x \in Queued : x \in Queued' \/ x.kind = "ear"
  BY <1>2, <1>4, <1>5, <1>6, <1>7 DEF Queued
<1>10. TxIInv' /\ LiveMids' = LiveMids
  BY <1>2, <1>8, <1>9, MsgsSame
<1> QED BY <1>2, <1>8, <1>10, FlowQuiet DEF Kept

\* Service keeps the invariant: datagrams go from the queue to the lower layer.
LEMMA ServiceKept ==
    ASSUME TxIInv, NEW k \in 1 .. Len(attr.pending), Service(k)
    PROVE  Kept
<1> DEFINE q == attr.pending
           rest == SubSeq(q, k + 1, Len(q))
           sent == SubSeq(q, 1, k)
           a == [attr EXCEPT !.pending = rest, !.lower_flowc = k < Len(q)]
<1>1. Types /\ LayerTypes /\ attr \in Attr /\ q \in Seq(Dgram)
  BY AttrFields DEF TxIInv, Types, LayerTypes
<1>2. /\ lower' = lower (+) BagOf(sent) /\ msgs' = msgs /\ aborted' = aborted
      /\ attr' = IF k = Len(q) THEN [a EXCEPT !.upper_flowc = FALSE] ELSE a
  BY DEF Service, tx_ut_upper_service
<1>3. k \in 0 .. Len(q) /\ rest \in Seq(Dgram) /\ Len(rest) = Len(q) - k /\ Len(q) \in Nat /\ k \in Nat
  BY <1>1
<1>4. sent \in Seq(Dgram) /\ Range(sent) \cup Range(rest) = Range(q)
  BY <1>1, <1>3, PrefixRange
<1>5. rest # <<>> <=> k < Len(q)
  <2>1. rest # <<>> <=> Len(rest) # 0
    BY <1>3, EmptySeq
  <2> HIDE DEF q, rest
  <2> QED BY <1>3, <2>1
<1> HIDE DEF q, rest, sent
<1> DEFINE b == k < Len(q)
<1>6. b \in BOOLEAN
  OBVIOUS
<1>7. /\ attr' \in Attr /\ attr'.pending = rest /\ attr'.lower_flowc = b /\ attr'.seq = attr.seq
      /\ attr'.seqno_freed = attr.seqno_freed /\ attr'.out_of_seqno = attr.out_of_seqno
      /\ ~attr'.upper_flowc \/ k # Len(q)
  <2> DEFINE c == [attr EXCEPT !.pending = rest, !.lower_flowc = b]
  <2>1. attr' = IF k = Len(q) THEN [c EXCEPT !.upper_flowc = FALSE] ELSE c
    BY <1>2
  <2> HIDE DEF b
  <2>2. /\ c \in Attr /\ c.pending = rest /\ c.lower_flowc = b /\ c.seq = attr.seq
        /\ c.seqno_freed = attr.seqno_freed /\ c.out_of_seqno = attr.out_of_seqno
    BY <1>1, <1>3, <1>6 DEF Attr
  <2> HIDE DEF c
  <2>3. CASE k = Len(q)
    BY <2>1, <2>2, <2>3 DEF Attr
  <2>4. CASE k # Len(q)
    BY <2>1, <2>2, <2>4
  <2> QED BY <2>3, <2>4
<1>8. IsABag(BagOf(sent)) /\ DOMAIN BagOf(sent) = Range(sent)
  BY <1>4, SeqBagRange
<1>9. IsABag(lower') /\ DOMAIN lower' = DOMAIN lower \cup Range(sent)
  <2>1. IsABag(lower)
    BY <1>1 DEF LayerTypes
  <2> QED BY <1>2, <1>8, <2>1, BagAddRange
<1>10. Range(sent) \subseteq Dgram
  BY <1>4, RangeFinite
<1>11. LayerTypes'
  BY <1>1, <1>2, <1>7, <1>9, <1>10 DEF LayerTypes
<1>12. Queued' = Queued
  <2>1. Range(attr.pending) = Range(sent) \cup Range(rest)
    BY <1>4 DEF q
  <2> QED BY <1>7, <1>9, <2>1 DEF Queued
<1>13. FlowKept
  <2>1. k # Len(q) => b
    BY <1>3
  <2> HIDE DEF b
  <2> QED BY <1>5, <1>7, <2>1 DEF FlowKept, b
<1>14. TxIInv' /\ LiveMids' = LiveMids
  BY <1>2, <1>11, <1>12, MsgsSame
<1> QED BY <1>2, <1>13, <1>14, FlowQuiet DEF Kept

\* Aged keeps the invariant.
LEMMA AgedKept ==
    ASSUME TxIInv, NEW h \in Host, Aged(h)
    PROVE  Kept
<1>1. msgs' = msgs /\ lower' = lower /\ aborted' = aborted
  BY DEF Aged
<1>2. PICK ban \in {attr.ban, attr.ban \ {h}}, good \in {attr.good, attr.good \ {h}} :
        attr' = [attr EXCEPT !.ban = ban, !.good = good]
  BY DEF Aged
<1>3. Types /\ LayerTypes /\ attr \in Attr
  BY DEF TxIInv, Types, LayerTypes
<1>4. ban \in SUBSET Host /\ good \in SUBSET Host
  BY <1>2, <1>3, AttrFields
<1>5. attr' \in Attr /\ SameButHosts(attr, attr')
  BY <1>2, <1>3, <1>4 DEF Attr, SameButHosts
<1>6. LayerTypes' /\ FlowKept /\ Queued' = Queued
  BY <1>1, <1>3, <1>5 DEF LayerTypes, FlowKept, SameButHosts, Queued
<1>7. TxIInv' /\ LiveMids' = LiveMids
  BY <1>1, <1>6, MsgsSame
<1> QED BY <1>1, <1>6, <1>7, FlowQuiet DEF Kept

\* ut_resend_iterate(): the timer of the iteration fired.
Iterating(um) == [um EXCEPT !.iterate_ev = FALSE]
EarWanted(um) == [um EXCEPT !.expecting_ack = TRUE, !.ear_pending = TRUE]

\* The start of an iteration, and an EAR that is wanted before it.
LEMMA IteratingShape ==
    ASSUME NEW n \in 1 .. FragMax, NEW um \in UMsg(n), Books(um)
    PROVE  LET u == Iterating(um)
               v == EarWanted(u)
           IN  /\ u \in UMsg(n) /\ Books(u) /\ SameIdent(um, u) /\ SameBooks(um, u) /\ SameSignals(um, u)
               /\ u.cautious = um.cautious
               /\ v \in UMsg(n) /\ Books(v) /\ SameIdent(um, v) /\ SameBooks(um, v) /\ v.cautious = um.cautious
               /\ v.expecting_ack /\ v.ear_pending /\ v.alive = um.alive
<1> DEFINE u == Iterating(um)
           v == EarWanted(u)
<1>1. /\ u \in UMsg(n) /\ SameIdent(um, u) /\ SameBooks(um, u) /\ SameSignals(um, u)
      /\ u.cautious = um.cautious
  BY DEF Iterating, UMsg, SameIdent, SameBooks, SameSignals
<1> HIDE DEF u
<1>2. /\ v \in UMsg(n) /\ SameIdent(u, v) /\ SameBooks(u, v) /\ v.cautious = u.cautious
      /\ v.expecting_ack /\ v.ear_pending /\ v.alive = u.alive
  BY <1>1 DEF EarWanted, UMsg, SameIdent, SameBooks
<1> HIDE DEF v
<1>3. SameIdent(um, v) /\ SameBooks(um, v) /\ v.cautious = um.cautious /\ v.alive = um.alive
  BY <1>1, <1>2 DEF SameIdent, SameBooks, SameSignals
<1>4. Books(u) /\ Books(v)
  BY <1>1, <1>3, SameBooksKeep
<1> QED BY <1>1, <1>2, <1>3, <1>4 DEF u, v

\* ResendIterate keeps the invariant: a batch is sent, or an EAR.
LEMMA ResendIterateKept ==
    ASSUME TxIInv, NEW m \in Mid, ResendIterate(m)
    PROVE  Kept
<1> DEFINE n == Fragcnt(msgs[m])
           um == msgs[m]
           u == Iterating(um)
           w == EarWanted(u)
           v == ResendBatch(u)
           out == FragSeq(m, Batch(u))
           A1 == /\ Leave(m, w) /\ lower' = lower (+) SetToBag({Ear(u.seqno, 0)}) /\ UNCHANGED aborted
           A2 == Leave(m, u) /\ UNCHANGED <<lower, aborted>>
           A4 == /\ msgs' = [msgs EXCEPT ![m] = v] /\ ut_frag_send(out, attr) /\ UNCHANGED aborted
<1>0. m \in LiveMids
  BY DEF ResendIterate, LiveMids
<1>1. /\ n \in 1 .. FragMax /\ um \in UMsg(n) /\ Books(um) /\ Types /\ LayerTypes
      /\ \A g \in LiveFrags(um) : Somewhere(um, g, Frag(m, g) \in Queued)
  BY <1>0, LiveMsg
<1>2. A1 \/ A2 \/ Abort \/ A4
  BY Zenon DEF ResendIterate, Iterating, EarWanted
<1> HIDE DEF n
<1>3. /\ u \in UMsg(n) /\ Books(u) /\ SameIdent(um, u) /\ SameBooks(um, u) /\ u.cautious = um.cautious
      /\ w \in UMsg(n) /\ Books(w) /\ SameIdent(um, w) /\ SameBooks(um, w) /\ w.cautious = um.cautious
  BY <1>1, IteratingShape
<1>4. \A z : SameBooks(um, z) /\ z.cautious = um.cautious =>
        \A g \in LiveFrags(z) : Somewhere(z, g, Frag(m, g) \in Queued)
  <2> SUFFICES ASSUME NEW z, SameBooks(um, z), z.cautious = um.cautious, NEW g \in LiveFrags(z)
               PROVE  Somewhere(z, g, Frag(m, g) \in Queued)
    OBVIOUS
  <2>1. LiveFrags(z) = LiveFrags(um) /\ Fragcnt(z) = Fragcnt(um)
    BY SameBooksKeep
  <2>2. Somewhere(um, g, Frag(m, g) \in Queued)
    BY <1>1, <2>1
  <2> QED BY <2>1, <2>2 DEF Somewhere, SameBooks
<1> HIDE DEF u, w, v, um
<1>5. u.seqno = msgs[m].seqno /\ w.seqno = msgs[m].seqno /\ u.seqno \in Id
  BY <1>3 DEF SameIdent, um, UMsg
<1>6. CASE A1
  <2> DEFINE dg == Ear(u.seqno, 0)
  <2>1. msgs' = [msgs EXCEPT ![m] = w] /\ attr' = attr /\ lower' = lower (+) SetToBag({dg}) /\ aborted' = aborted
    BY <1>6 DEF Leave
  <2>2. dg \in Dgram /\ dg.kind = "ear"
    <3>1. 0 \in 0 .. AckSendMax
      BY LimitsAssumption
    <3> QED BY <1>5, <3>1 DEF Ear, Dgram, EarDgram
  <2> HIDE DEF dg
  <2>3. IsABag(SetToBag({dg})) /\ DOMAIN SetToBag({dg}) = {dg}
    BY SetBagRange
  <2>4. IsABag(lower') /\ DOMAIN lower' = DOMAIN lower \cup {dg}
    <3>1. IsABag(lower)
      BY <1>1 DEF LayerTypes
    <3> QED BY <2>1, <2>3, <3>1, BagAddRange
  <2>5. LayerTypes' /\ FlowKept
    BY <1>1, <2>1, <2>2, <2>4 DEF LayerTypes, FlowKept
  <2>6. Queued' = Queued \cup {dg}
    BY <2>1, <2>4 DEF Queued
  <2>7. \A g \in LiveFrags(w) : Somewhere(w, g, Frag(m, g) \in Queued')
    <3> SUFFICES ASSUME NEW g \in LiveFrags(w) PROVE Somewhere(w, g, Frag(m, g) \in Queued')
      OBVIOUS
    <3>1. Somewhere(w, g, Frag(m, g) \in Queued)
      BY <1>3, <1>4
    <3> QED BY <2>6, <3>1 DEF Somewhere
  <2> QED BY <1>0, <1>3, <1>5, <2>1, <2>2, <2>5, <2>6, <2>7, UpdateKept DEF n, um
<1>7. CASE A2
  <2>1. \A g \in LiveFrags(u) : Somewhere(u, g, Frag(m, g) \in Queued)
    BY <1>3, <1>4
  <2> QED BY <1>0, <1>3, <1>5, <1>7, <2>1, LeaveKept DEF n, um
<1>8. CASE A4
  <2>1. /\ v \in UMsg(n) /\ Books(v) /\ SameIdent(u, v) /\ LiveFrags(v) = LiveFrags(u)
        /\ v.lingering = u.lingering /\ v.cautious = u.cautious
        /\ Batch(u) \in Seq(0 .. n - 1)
        /\ \A f \in LiveFrags(v) \ Range(Batch(u)) : v.fragments[f] = u.fragments[f]
    BY <1>1, <1>3, ResendBatchShape DEF v
  <2>2. /\ out \in Seq(Dgram)
        /\ \A dg \in Range(out) : dg.kind = "frag" /\ dg.mid = m /\ dg.fragno \in 0 .. n - 1
        /\ \A f \in Range(Batch(u)) : Frag(m, f) \in Range(out)
    BY <1>1, <2>1, FragSeqShape
  <2>3. msgs' = [msgs EXCEPT ![m] = v] /\ ut_frag_send(out, attr) /\ aborted' = aborted
    BY <1>8
  <2> HIDE DEF out
  <2>4. /\ attr' \in Attr /\ IsABag(lower') /\ DOMAIN lower' \subseteq Dgram
        /\ Queued' = Queued \cup Range(out)
        /\ attr'.seq = attr.seq /\ attr'.seqno_freed = attr.seqno_freed
        /\ attr'.out_of_seqno = attr.out_of_seqno
        /\ attr'.upper_flowc = attr.upper_flowc
        /\ attr.lower_flowc => attr'.lower_flowc
        /\ (attr.lower_flowc <=> attr.pending # <<>>) => (attr'.lower_flowc <=> attr'.pending # <<>>)
    BY <1>1, <2>2, <2>3, FragSendShape DEF LayerTypes
  <2>5. LayerTypes' /\ FlowKept
    BY <1>1, <2>3, <2>4 DEF LayerTypes, FlowKept
  <2>6. v.seqno = msgs[m].seqno /\ DOMAIN v.fragments = 0 .. n - 1
    BY <1>1, <1>5, <2>1, MsgFields DEF SameIdent
  <2>7. \A g \in LiveFrags(v) : Somewhere(v, g, Frag(m, g) \in Queued')
    <3> SUFFICES ASSUME NEW g \in LiveFrags(v) PROVE Somewhere(v, g, Frag(m, g) \in Queued')
      OBVIOUS
    <3>1. CASE g \in Range(Batch(u))
      BY <2>2, <2>4, <3>1 DEF Somewhere
    <3>2. CASE g \notin Range(Batch(u))
      <4>1. Somewhere(u, g, Frag(m, g) \in Queued)
        BY <1>3, <1>4, <2>1
      <4>2. Fragcnt(v) = Fragcnt(u)
        BY <1>1, <1>3, <2>1, MsgFields
      <4> QED BY <2>1, <2>4, <3>2, <4>1, <4>2 DEF Somewhere
    <3> QED BY <3>1, <3>2
  <2> QED BY <1>0, <2>1, <2>2, <2>3, <2>4, <2>5, <2>6, <2>7, UpdateKept DEF n, um
<1> QED BY <1>2, <1>6, <1>7, <1>8, AbortKept

\* ut_ear_resend(): the timer of the EAR fired.
EarFired(um) == [um EXCEPT !.ear_ev = FALSE]

\* The EAR timer fires, and the resends may be resumed.
LEMMA EarFiredShape ==
    ASSUME NEW n \in 1 .. FragMax, NEW um \in UMsg(n), Books(um)
    PROVE  LET u == EarFired(um)
               v == ut_resend_async(u)
           IN  /\ u \in UMsg(n) /\ Books(u) /\ SameIdent(um, u) /\ SameBooks(um, u) /\ u.cautious = um.cautious
               /\ v \in UMsg(n) /\ Books(v) /\ SameIdent(um, v) /\ SameBooks(um, v) /\ v.cautious = um.cautious
               /\ u.alive = um.alive /\ u.expecting_ack = um.expecting_ack /\ u.ear_pending = um.ear_pending
               /\ ~u.ear_ev /\ SameSignals(u, v) /\ (v.resend # <<>> => v.iterate_ev)
<1> DEFINE u == EarFired(um)
           v == ut_resend_async(u)
<1>1. /\ u \in UMsg(n) /\ SameIdent(um, u) /\ SameBooks(um, u) /\ u.cautious = um.cautious
      /\ u.alive = um.alive /\ u.expecting_ack = um.expecting_ack /\ u.ear_pending = um.ear_pending
      /\ ~u.ear_ev
  BY DEF EarFired, UMsg, SameIdent, SameBooks
<1> HIDE DEF u
<1>2. /\ v \in UMsg(n) /\ SameIdent(u, v) /\ SameBooks(u, v) /\ SameSignals(u, v)
      /\ v.cautious = u.cautious /\ v.iterate_ev = (u.iterate_ev \/ u.resend # <<>>)
  BY <1>1, AsyncShape
<1> HIDE DEF v
<1>3. SameIdent(um, v) /\ SameBooks(um, v) /\ v.cautious = um.cautious /\ (v.resend # <<>> => v.iterate_ev)
  BY <1>1, <1>2 DEF SameIdent, SameBooks
<1>4. Books(u) /\ Books(v)
  BY <1>1, <1>3, SameBooksKeep
<1> QED BY <1>1, <1>2, <1>3, <1>4 DEF u, v

\* EarResend keeps the invariant.
LEMMA EarResendKept ==
    ASSUME TxIInv, NEW m \in Mid, EarResend(m)
    PROVE  Kept
<1> DEFINE n == Fragcnt(msgs[m])
           um == msgs[m]
           u == EarFired(um)
           v == ut_resend_async(u)
<1>0. m \in LiveMids
  BY DEF EarResend, LiveMids
<1>1. /\ n \in 1 .. FragMax /\ um \in UMsg(n) /\ Books(um) /\ Types /\ LayerTypes /\ um.to \in Host
      /\ \A g \in LiveFrags(um) : Somewhere(um, g, Frag(m, g) \in Queued)
  BY <1>0, LiveMsg
<1>2. /\ UNCHANGED <<lower, aborted>>
      /\ \/ ut_msg_free(m, FALSE, attr) \/ ut_msg_free(m, FALSE, ut_to_ban(attr, u.to))
         \/ Leave(m, u) \/ Leave(m, v)
  BY Zenon DEF EarResend, EarFired
<1> HIDE DEF n
<1>3. /\ u \in UMsg(n) /\ Books(u) /\ SameIdent(um, u) /\ SameBooks(um, u) /\ u.cautious = um.cautious
      /\ v \in UMsg(n) /\ Books(v) /\ SameIdent(um, v) /\ SameBooks(um, v) /\ v.cautious = um.cautious
  BY <1>1, EarFiredShape
<1>4. \A z : SameBooks(um, z) /\ z.cautious = um.cautious =>
        \A g \in LiveFrags(z) : Somewhere(z, g, Frag(m, g) \in Queued)
  <2> SUFFICES ASSUME NEW z, SameBooks(um, z), z.cautious = um.cautious, NEW g \in LiveFrags(z)
               PROVE  Somewhere(z, g, Frag(m, g) \in Queued)
    OBVIOUS
  <2>1. LiveFrags(z) = LiveFrags(um) /\ Fragcnt(z) = Fragcnt(um)
    BY SameBooksKeep
  <2>2. Somewhere(um, g, Frag(m, g) \in Queued)
    BY <1>1, <2>1
  <2> QED BY <2>1, <2>2 DEF Somewhere, SameBooks
<1> HIDE DEF u, v, um
<1>5. u.seqno = msgs[m].seqno /\ v.seqno = msgs[m].seqno /\ u.to \in Host
  BY <1>1, <1>3 DEF SameIdent, um
<1>6. /\ attr \in Attr /\ SameButHosts(attr, attr)
      /\ ut_to_ban(attr, u.to) \in Attr /\ SameButHosts(attr, ut_to_ban(attr, u.to))
  BY <1>1, <1>5, HostsShape DEF LayerTypes, SameButHosts
<1>7. CASE ut_msg_free(m, FALSE, attr)
  BY <1>0, <1>2, <1>6, <1>7, EndKept
<1>8. CASE ut_msg_free(m, FALSE, ut_to_ban(attr, u.to))
  BY <1>0, <1>2, <1>6, <1>8, EndKept
<1>9. CASE Leave(m, u)
  <2>1. \A g \in LiveFrags(u) : Somewhere(u, g, Frag(m, g) \in Queued)
    BY <1>3, <1>4
  <2> QED BY <1>0, <1>2, <1>3, <1>5, <1>9, <2>1, LeaveKept DEF n, um
<1>10. CASE Leave(m, v)
  <2>1. \A g \in LiveFrags(v) : Somewhere(v, g, Frag(m, g) \in Queued)
    BY <1>3, <1>4
  <2> QED BY <1>0, <1>2, <1>3, <1>5, <1>10, <2>1, LeaveKept DEF n, um
<1> QED BY <1>2, <1>7, <1>8, <1>9, <1>10

\* ut_frag_resend(): the timer of a fragment fired.
LEMMA FragResendKept ==
    ASSUME TxIInv, NEW m \in LiveMids, NEW f, FragResend(m, f)
    PROVE  Kept
<1> DEFINE n == Fragcnt(msgs[m])
           um == msgs[m]
           u == AckTimeout(um, f)
           v == ut_resend_async(u)
           w == EnqueueResend(u, f)
<1>1. /\ n \in 1 .. FragMax /\ um \in UMsg(n) /\ Books(um) /\ Types /\ LayerTypes
      /\ \A g \in LiveFrags(um) : Somewhere(um, g, Frag(m, g) \in Queued)
  BY LiveMsg
<1>2. f \in LiveFrags(um)
  BY DEF FragResend
<1>3. \/ u.lingering /\ Leave(m, v) /\ UNCHANGED <<lower, aborted>>
      \/ ut_msg_free(m, FALSE, attr) /\ UNCHANGED <<lower, aborted>>
      \/ Abort
      \/ ~u.lingering /\ ~um.fragments[f].resend /\ Leave(m, w) /\ UNCHANGED <<lower, aborted>>
  BY Zenon DEF FragResend
<1> HIDE DEF n
<1>4. u.lingering = um.lingering
  BY <1>1, <1>2, AckTimeoutShape
<1>5. /\ v \in UMsg(n) /\ SameIdent(um, v) /\ v.lingering = um.lingering /\ (um.lingering => Books(v))
  BY <1>1, <1>2, LingerTimeoutShape
<1>6. CASE u.lingering /\ Leave(m, v) /\ UNCHANGED <<lower, aborted>>
  <2>1. \A g \in LiveFrags(v) : Somewhere(v, g, Frag(m, g) \in Queued)
    BY <1>4, <1>5, <1>6 DEF Somewhere
  <2>2. v.seqno = msgs[m].seqno /\ Books(v)
    BY <1>4, <1>5, <1>6 DEF SameIdent
  <2> HIDE DEF v
  <2> QED BY <1>5, <1>6, <2>1, <2>2, LeaveKept DEF n
<1>7. CASE ut_msg_free(m, FALSE, attr) /\ UNCHANGED <<lower, aborted>>
  <2>1. attr \in Attr /\ SameButHosts(attr, attr)
    BY <1>1 DEF LayerTypes, SameButHosts
  <2> QED BY <1>7, <2>1, EndKept
<1>8. CASE ~u.lingering /\ ~um.fragments[f].resend /\ Leave(m, w) /\ UNCHANGED <<lower, aborted>>
  <2>0. ~um.lingering /\ ~um.fragments[f].resend
    BY <1>4, <1>8
  <2>1. /\ w \in UMsg(n) /\ Books(w) /\ SameIdent(um, w)
        /\ LiveFrags(w) = LiveFrags(um) /\ w.lingering = um.lingering /\ w.cautious = um.cautious
        /\ w.fragments[f].resend
        /\ \A g \in LiveFrags(um) \ {f} : w.fragments[g] = um.fragments[g]
    BY <1>1, <1>2, <2>0, EnqueueShape
  <2> HIDE DEF w, u, v
  <2>2. \A g \in LiveFrags(w) : Somewhere(w, g, Frag(m, g) \in Queued)
    <3> SUFFICES ASSUME NEW g \in LiveFrags(w) PROVE Somewhere(w, g, Frag(m, g) \in Queued)
      OBVIOUS
    <3>1. CASE g = f
      BY <2>1, <3>1 DEF Somewhere
    <3>2. CASE g # f
      <4>1. Fragcnt(w) = Fragcnt(um)
        BY <1>1, <2>1, MsgFields
      <4> QED BY <1>1, <2>1, <3>2, <4>1 DEF Somewhere
    <3> QED BY <3>1, <3>2
  <2>3. w.seqno = msgs[m].seqno
    BY <2>1 DEF SameIdent
  <2> QED BY <1>8, <2>1, <2>2, <2>3, LeaveKept DEF n
<1> QED BY <1>3, <1>6, <1>7, <1>8, AbortKept

----------------------------------------------------------------------------
(* The layer: what the upper layer asks for.                               *)

\* A message begins: what is queued meanwhile are fragments of its own.
LEMMA MsgBegun ==
    ASSUME TxIInv, NEW m \in Mid, msgs[m] = Unborn, NEW v \in Msg, Books(v),
           msgs' = [msgs EXCEPT ![m] = v], LayerTypes',
           \A dg \in Queued' : dg \in Queued \/ (dg.mid = m /\ dg.fragno \in DOMAIN v.fragments),
           Queued \subseteq Queued',
           \A f \in LiveFrags(v) : Somewhere(v, f, Frag(m, f) \in Queued')
    PROVE  /\ TxIInv' /\ LiveMids' = LiveMids \cup {m} /\ m \notin LiveMids
           /\ \A k \in LiveMids : msgs'[k] = msgs[k]
           /\ msgs'[m] = v
<1>1. Types /\ v \in Msg /\ m \notin LiveMids
  BY DEF TxIInv, LiveMids, Alive
<1>2. /\ msgs' \in [Mid -> Msg \cup {Unborn, Sent, Dropped}]
      /\ \A k \in Mid : msgs'[k] = IF k = m THEN v ELSE msgs[k]
  BY <1>1 DEF Types
<1>3. \A k \in Mid : Alive(k)' <=> msgs'[k] \in Msg
  BY <1>2, TagsApart DEF Alive
<1>4. Types'
  BY <1>2 DEF Types, LayerTypes
<1>5. \A k \in Mid : Alive(k)' <=> k = m \/ Alive(k)
  BY <1>1, <1>2, <1>3, AliveMsg
<1>6. LiveMids' = LiveMids \cup {m}
  BY <1>5 DEF LiveMids
<1>7. \A k \in LiveMids : msgs'[k] = msgs[k] /\ k \in Mid
  BY <1>1, <1>2 DEF LiveMids
<1>8. BookInv'
  <2> SUFFICES ASSUME NEW k \in LiveMids \cup {m} PROVE Books(msgs'[k])
    BY <1>6 DEF BookInv
  <2> QED BY <1>2, <1>7 DEF TxIInv, BookInv
<1>9. KnownInv'
  <2> SUFFICES ASSUME NEW dg \in Queued', dg.kind = "frag"
               PROVE  /\ msgs'[dg.mid] # Unborn
                      /\ Alive(dg.mid)' => dg.fragno \in DOMAIN msgs'[dg.mid].fragments
    BY DEF KnownInv, OwnedDgram
  <2>1. CASE dg \in Queued
    <3>1. OwnedDgram(dg)
      BY <2>1 DEF TxIInv, KnownInv
    <3>2. dg \in Dgram
      BY <2>1, <1>1, RangeFinite DEF Queued, Types, Attr
    <3>3. dg.mid \in Mid
      BY <3>2 DEF Dgram, FragDgram, EarDgram
    <3>4. dg.mid # m
      BY <3>1 DEF OwnedDgram
    <3> QED BY <1>2, <1>5, <3>1, <3>3, <3>4 DEF OwnedDgram
  <2>2. CASE dg.mid = m /\ dg.fragno \in DOMAIN v.fragments
    BY <1>1, <1>2, <2>2, TagsApart
  <2> QED BY <2>1, <2>2
<1>10. HeldInv'
  <2> SUFFICES ASSUME NEW k \in LiveMids \cup {m}, NEW f \in LiveFrags(msgs'[k])
               PROVE  Somewhere(msgs'[k], f, Frag(k, f) \in Queued')
    BY <1>6 DEF HeldInv
  <2>1. CASE k = m
    BY <1>2, <2>1
  <2>2. CASE k # m
    <3>1. msgs'[k] = msgs[k] /\ k \in LiveMids
      BY <1>7, <2>2
    <3>2. Somewhere(msgs[k], f, Frag(k, f) \in Queued)
      BY <3>1 DEF TxIInv, HeldInv
    <3> QED BY <3>1, <3>2 DEF Somewhere
  <2> QED BY <2>1, <2>2
<1> QED BY <1>1, <1>2, <1>4, <1>6, <1>7, <1>8, <1>9, <1>10 DEF TxIInv

\* It takes an ID that no other message has.
LEMMA FlowBegun ==
    ASSUME TxIInv, FlowInv, NEW m, m \notin LiveMids, LiveMids' = LiveMids \cup {m},
           \A k \in LiveMids : msgs'[k] = msgs[k],
           msgs'[m].seqno \notin attr.seq.ids, attr'.seq.ids = attr.seq.ids \cup {msgs'[m].seqno},
           attr'.seqno_freed = attr.seqno_freed, attr'.out_of_seqno = attr.out_of_seqno,
           attr'.upper_flowc => attr'.lower_flowc \/ attr'.out_of_seqno,
           attr'.lower_flowc <=> attr'.pending # <<>>
    PROVE  FlowInv'
<1>1. SeqIdsOwned'
  <2>1. attr.seq.ids = {msgs[k].seqno : k \in LiveMids}
    BY DEF FlowInv, SeqIdsOwned
  <2>2. attr'.seq.ids = {msgs'[k].seqno : k \in LiveMids'}
    BY <2>1
  <2>3. ASSUME NEW j \in LiveMids', NEW k \in LiveMids', msgs'[j].seqno = msgs'[k].seqno
        PROVE  j = k
    <3>1. \A i \in LiveMids : msgs'[i].seqno # msgs'[m].seqno
      BY <2>1
    <3> QED BY <2>3, <3>1 DEF FlowInv, SeqIdsOwned
  <2> QED BY <2>2, <2>3 DEF SeqIdsOwned
<1>2. attr'.out_of_seqno => attr'.seqno_freed + Cardinality(LiveMids') >= SeqnoThresh
  <2> SUFFICES ASSUME attr.out_of_seqno
               PROVE  attr.seqno_freed + Cardinality(LiveMids') >= SeqnoThresh
    OBVIOUS
  <2>1. Cardinality(LiveMids') = Cardinality(LiveMids) + 1 /\ Cardinality(LiveMids) \in Nat
    BY LiveFinite, FS_AddElement
  <2>2. attr.seqno_freed + Cardinality(LiveMids) >= SeqnoThresh
    BY DEF FlowInv, FlowControlLifted
  <2>3. attr \in Attr
    BY DEF TxIInv, Types
  <2>4. attr.seqno_freed \in 0 .. SeqnoThresh - 1 /\ SeqnoThresh \in Nat
    BY <2>3, AttrFields
  <2> QED BY <2>1, <2>2, <2>4
<1> QED BY <1>1, <1>2 DEF FlowInv, FlowControlLifted

\* ut_msg_create()
LEMMA CreateShape ==
    ASSUME NEW req \in Requests, req.fragcnt # Oversize, NEW seqno \in Id
    PROVE  LET n == req.fragcnt
               um == ut_msg_create(req, seqno)
               v == [um EXCEPT !.cautious = TRUE]
           IN  /\ n \in 1 .. FragMax /\ n \in Nat /\ n > 0
               /\ um \in UMsg(n) /\ Books(um) /\ um.seqno = seqno /\ um.resend = <<>> /\ ~um.lingering
               /\ um.fragments = [f \in 0 .. n - 1 |-> NewFrag] /\ LiveFrags(um) = 0 .. n - 1
               /\ ~um.ear_pending /\ ~um.ear_ev
               /\ v \in UMsg(n) /\ SameBooks(um, v) /\ SameIdent(um, v) /\ SameSignals(um, v) /\ v.cautious
<1> DEFINE n == req.fragcnt
           um == ut_msg_create(req, seqno)
           v == [um EXCEPT !.cautious = TRUE]
<1>1. n \in 1 .. FragMax /\ req.to \in Host /\ req.reliable \in BOOLEAN
  BY RequestsAssumption
<1>2. n \in Nat /\ n > 0
  BY <1>1 DEF FragMax
<1>3. Alpha \in 1 .. FragMax /\ 0 \in 0 .. EarSendMax /\ 0 \in 0 .. SendMax
  BY LimitsAssumption DEF FragMax
<1>4. NewFrag \in UFrag /\ NewFrag # Null /\ ~NewFrag.resend /\ ~NewFrag.pending
  <2>1. NewFrag \in UFrag /\ ~NewFrag.resend /\ ~NewFrag.pending
    BY <1>3 DEF NewFrag, UFrag
  <2> QED BY <2>1, TagsAssumption
<1>5. /\ um.fragments = [f \in 0 .. n - 1 |-> NewFrag] /\ um.resend = <<>> /\ um.pending = 0
      /\ um.seqno = seqno /\ ~um.lingering /\ ~um.ear_pending /\ ~um.ear_ev
  BY DEF ut_msg_create
<1> HIDE DEF n
<1>6. um \in UMsg(n)
  <2> DEFINE frags == [f \in 0 .. n - 1 |-> NewFrag]
  <2>1. frags \in [0 .. n - 1 -> UFrag \cup {Null}]
    BY <1>4
  <2>2. um = [to |-> req.to, seqno |-> seqno, reliable |-> req.reliable, fragments |-> frags,
              resend |-> <<>>, pending |-> 0, alpha |-> Alpha, ears |-> 0, alive |-> FALSE,
              expecting_ack |-> FALSE, ear_pending |-> FALSE, ear_ev |-> FALSE,
              iterate_ev |-> FALSE, cautious |-> FALSE, lingering |-> FALSE]
    BY DEF ut_msg_create, n
  <2> HIDE DEF frags, um
  <2> QED BY <1>1, <1>3, <2>1, <2>2 DEF UMsg
<1> HIDE DEF um
<1>7. LiveFrags(um) = 0 .. n - 1 /\ Flagged(um) = {} /\ Waiting(um) = {}
  BY <1>4, <1>5 DEF LiveFrags, Flagged, Waiting
<1>8. Books(um)
  <2>1. IsInjective(<<>>) /\ Range(<<>>) = {}
    BY DEF IsInjective, Range
  <2>2. Cardinality({}) = 0
    BY FS_EmptySet
  <2> QED BY <1>5, <1>7, <2>1, <2>2 DEF Books, ListExact
<1>9. v \in UMsg(n) /\ SameBooks(um, v) /\ SameIdent(um, v) /\ SameSignals(um, v) /\ v.cautious
  BY <1>6 DEF UMsg, SameBooks, SameIdent, SameSignals
<1> QED BY <1>1, <1>2, <1>5, <1>6, <1>7, <1>8, <1>9 DEF um, n

\* A message refused by flow control changes nothing else.
LEMMA SendToFlowControlledKept ==
    ASSUME TxIInv, NEW req, SendToFlowControlled(req)
    PROVE  Kept
<1>1. /\ msgs' = msgs /\ lower' = lower /\ aborted' = aborted /\ attr.lower_flowc
      /\ attr' = [attr EXCEPT !.upper_flowc = TRUE]
  BY DEF SendToFlowControlled
<1>2. attr \in Attr /\ LayerTypes
  BY DEF TxIInv, Types, LayerTypes
<1>3. /\ attr' \in Attr /\ attr'.seq = attr.seq /\ attr'.pending = attr.pending
      /\ attr'.seqno_freed = attr.seqno_freed /\ attr'.out_of_seqno = attr.out_of_seqno
      /\ attr'.lower_flowc = attr.lower_flowc
  BY <1>1, <1>2 DEF Attr
<1>4. LayerTypes' /\ FlowKept /\ Queued' = Queued
  BY <1>1, <1>2, <1>3 DEF LayerTypes, FlowKept, Queued
<1>5. TxIInv' /\ LiveMids' = LiveMids
  BY <1>1, <1>4, MsgsSame
<1> QED BY <1>1, <1>4, <1>5, FlowQuiet DEF Kept

\* The table is full: as many messages are there to release their ID.
LEMMA SendToOutOfSeqnoKept ==
    ASSUME TxIInv, NEW req, SendToOutOfSeqno(req)
    PROVE  Kept
<1> DEFINE r == idtable_try_new_id(attr.seq)
<1>1. /\ msgs' = msgs /\ lower' = lower /\ aborted' = aborted /\ ~r.ok
      /\ attr' = [attr EXCEPT !.seq = r.tbl, !.out_of_seqno = TRUE, !.upper_flowc = TRUE]
  BY DEF SendToOutOfSeqno
<1>2. attr \in Attr /\ LayerTypes
  BY DEF TxIInv, Types, LayerTypes
<1>3. attr.seq \in IdTables
  BY <1>2, AttrFields
<1>4. r.tbl = attr.seq /\ \A i \in Id : i < IdMask => Slot(attr.seq, i) \in attr.seq.ids
  BY <1>1, <1>3, TryNewIdProperty
<1> HIDE DEF r
<1>5. /\ attr' \in Attr /\ attr'.seq = attr.seq /\ attr'.pending = attr.pending
      /\ attr'.seqno_freed = attr.seqno_freed /\ attr'.out_of_seqno
      /\ attr'.lower_flowc = attr.lower_flowc
  BY <1>1, <1>2, <1>3, <1>4 DEF Attr
<1>6. LayerTypes' /\ Queued' = Queued
  BY <1>1, <1>2, <1>5 DEF LayerTypes, Queued
<1>7. TxIInv' /\ LiveMids' = LiveMids
  BY <1>1, <1>6, MsgsSame
<1>8. ASSUME FlowInv PROVE FlowInv'
  <2>1. SeqIdsOwned'
    BY <1>1, <1>5, <1>7, <1>8 DEF FlowInv, SeqIdsOwned
  <2>2. Cardinality(attr.seq.ids) >= IdMask
    BY <1>3, <1>4, RefusedFull
  <2>3. Cardinality(attr.seq.ids) <= Cardinality(LiveMids) /\ Cardinality(attr.seq.ids) \in Nat
    <3> DEFINE f == [k \in LiveMids |-> msgs[k].seqno]
    <3>1. f \in Surjection(LiveMids, attr.seq.ids)
      BY <1>8 DEF FlowInv, SeqIdsOwned, Surjection
    <3>2. IsFiniteSet(attr.seq.ids) /\ Cardinality(attr.seq.ids) <= Cardinality(LiveMids)
      BY <3>1, LiveFinite, FS_Surjection
    <3> QED BY <3>2, FS_CardinalityType
  <2>4. attr.seqno_freed + Cardinality(LiveMids) >= SeqnoThresh
    <3>1. attr.seqno_freed \in 0 .. SeqnoThresh - 1 /\ SeqnoThresh \in Nat /\ Cardinality(LiveMids) \in Nat
      BY <1>2, AttrFields, LiveFinite
    <3>2. SeqnoThresh <= IdMask /\ IdMask \in Nat
      BY LimitsAssumption, IdMaskAssumption
    <3> QED BY <2>2, <2>3, <3>1, <3>2
  <2>5. FlowControlLifted'
    BY <1>5, <1>7, <1>8, <2>4 DEF FlowInv, FlowControlLifted
  <2> QED BY <2>1, <2>5 DEF FlowInv
<1> QED BY <1>7, <1>8 DEF Kept

\* A message that is too large ends at once, and its ID leaks.
LEMMA SendToTooLargeKept ==
    ASSUME TxIInv, NEW req, SendToTooLarge(req)
    PROVE  TxIInv'
<1> DEFINE r == idtable_try_new_id(attr.seq)
<1>1. /\ msgs' = msgs /\ lower' = lower /\ aborted' = aborted
      /\ attr' = [attr EXCEPT !.seq = r.tbl]
  BY DEF SendToTooLarge
<1>2. attr \in Attr /\ LayerTypes
  BY DEF TxIInv, Types, LayerTypes
<1>3. attr.seq \in IdTables
  BY <1>2, AttrFields
<1>4. r.tbl \in IdTables
  BY <1>3, TryNewIdProperty
<1> HIDE DEF r
<1>5. attr' \in Attr /\ attr'.pending = attr.pending
  BY <1>1, <1>2, <1>4 DEF Attr
<1>6. LayerTypes' /\ Queued' = Queued
  BY <1>1, <1>2, <1>5 DEF LayerTypes, Queued
<1> QED BY <1>1, <1>6, MsgsSame

\* SendTo keeps the invariant: all the fragments sent or held back are accounted.
LEMMA SendToKept ==
    ASSUME TxIInv, NEW req \in Requests, SendTo(req)
    PROVE  Kept
<1> DEFINE r == idtable_try_new_id(attr.seq)
           S == {k \in Mid : msgs[k] = Unborn}
           m == Min(S)
           um == ut_msg_create(req, r.id)
           a == [attr EXCEPT !.seq = r.tbl]
           n == req.fragcnt
           out1 == [i \in 1 .. n |-> Frag(m, i - 1)]
           out2 == <<Frag(m, n - 1)>>
           v1 == ut_send_remaining(um)
           v2 == [um EXCEPT !.cautious = TRUE]
<1>1. /\ r.ok /\ n # Oversize /\ S # {} /\ aborted' = aborted /\ ~attr.lower_flowc
      /\ \/ msgs' = [msgs EXCEPT ![m] = v1] /\ ut_frag_send(out1, a)
         \/ msgs' = [msgs EXCEPT ![m] = v2] /\ ut_frag_send(out2, a)
  BY DEF SendTo
<1>2. attr \in Attr /\ LayerTypes
  BY DEF TxIInv, Types, LayerTypes
<1>3. attr.seq \in IdTables
  BY <1>2, AttrFields
<1>4. r.tbl \in IdTables /\ r.id \in Id \ attr.seq.ids /\ r.tbl.ids = attr.seq.ids \cup {r.id}
  BY <1>1, <1>3, TryNewIdProperty
<1>5. m \in Mid /\ msgs[m] = Unborn
  <2>1. S \subseteq Nat
    BY DEF Mid
  <2>2. m \in S
    <3> HIDE DEF S
    <3> QED BY <1>1, <2>1, MinProperty
  <2> QED BY <2>2
<1> HIDE DEF r, m
<1>6. /\ n \in 1 .. FragMax /\ n \in Nat /\ n > 0
      /\ um \in UMsg(n) /\ Books(um) /\ um.seqno = r.id
      /\ LiveFrags(um) = 0 .. n - 1
      /\ v2 \in UMsg(n) /\ SameBooks(um, v2) /\ SameIdent(um, v2) /\ v2.cautious
  BY <1>1, <1>4, CreateShape
<1> HIDE DEF n, um
<1>7. /\ v1 \in UMsg(n) /\ Books(v1) /\ SameIdent(um, v1) /\ LiveFrags(v1) = LiveFrags(um)
  BY <1>6, RemainingShape
<1>8. Books(v2) /\ LiveFrags(v2) = LiveFrags(um)
  BY <1>6, SameBooksKeep
<1>9. \A f \in 0 .. n - 1 : /\ Frag(m, f) \in Dgram /\ Frag(m, f).mid = m /\ Frag(m, f).fragno = f
  <2>1. n \in 1 .. FragMax /\ m \in Mid
    BY <1>5, <1>6
  <2>2. \A f \in 0 .. n - 1 : f \in Part
    BY <2>1 DEF Part, FragMax
  <2> QED BY <2>1, <2>2 DEF Frag, Dgram, FragDgram
<1>10. /\ out1 \in Seq(Dgram) /\ out2 \in Seq(Dgram)
       /\ Range(out1) = {Frag(m, f) : f \in 0 .. n - 1} /\ Range(out2) = {Frag(m, n - 1)}
  <2>1. \A i \in 1 .. n : i - 1 \in 0 .. n - 1
    BY <1>6
  <2>2. out1 \in Seq(Dgram)
    BY <1>6, <1>9, <2>1
  <2>3. n - 1 \in 0 .. n - 1
    BY <1>6
  <2>4. out2 \in Seq(Dgram)
    BY <1>9, <2>3
  <2>5. Range(out2) = {Frag(m, n - 1)}
    BY DEF Range
  <2>6. Range(out1) = {Frag(m, i - 1) : i \in 1 .. n}
    BY DEF Range
  <2>7. {Frag(m, i - 1) : i \in 1 .. n} = {Frag(m, f) : f \in 0 .. n - 1}
    <3>1. \A f \in 0 .. n - 1 : f + 1 \in 1 .. n /\ (f + 1) - 1 = f
      BY <1>6
    <3>2. ASSUME NEW f \in 0 .. n - 1 PROVE \E i \in 1 .. n : Frag(m, f) = Frag(m, i - 1)
      BY <3>1
    <3> QED BY <2>1, <3>2
  <2> QED BY <2>2, <2>4, <2>5, <2>6, <2>7
<1>11. /\ a \in Attr /\ a.seq = r.tbl /\ a.pending = attr.pending /\ a.seqno_freed = attr.seqno_freed
       /\ a.out_of_seqno = attr.out_of_seqno /\ a.upper_flowc = attr.upper_flowc
       /\ a.lower_flowc = attr.lower_flowc
  BY <1>2, <1>4 DEF Attr
<1> HIDE DEF a, out1, out2, v1, v2
<1>12. ASSUME NEW out \in Seq(Dgram), NEW v \in UMsg(n), Books(v), v.seqno = r.id,
              msgs' = [msgs EXCEPT ![m] = v], ut_frag_send(out, a),
              \A dg \in Range(out) : dg.mid = m /\ dg.fragno \in 0 .. n - 1,
              \A f \in LiveFrags(v) : Somewhere(v, f, Frag(m, f) \in Range(out))
       PROVE  Kept
  <2>1. /\ attr' \in Attr /\ IsABag(lower') /\ DOMAIN lower' \subseteq Dgram
        /\ Queued' = Queued \cup Range(out)
        /\ attr'.seq = a.seq /\ attr'.seqno_freed = a.seqno_freed /\ attr'.out_of_seqno = a.out_of_seqno
        /\ attr'.upper_flowc = a.upper_flowc
        /\ a.lower_flowc => attr'.lower_flowc
        /\ (a.lower_flowc <=> a.pending # <<>>) => (attr'.lower_flowc <=> attr'.pending # <<>>)
    BY <1>2, <1>11, <1>12, FragSendShape DEF LayerTypes
  <2>2. LayerTypes'
    BY <1>1, <1>2, <2>1 DEF LayerTypes
  <2>3. DOMAIN v.fragments = 0 .. n - 1
    BY <1>6, <1>12, MsgFields
  <2>4. \A f \in LiveFrags(v) : Somewhere(v, f, Frag(m, f) \in Queued')
    BY <1>12, <2>1 DEF Somewhere
  <2>5. /\ TxIInv' /\ LiveMids' = LiveMids \cup {m} /\ m \notin LiveMids
        /\ \A k \in LiveMids : msgs'[k] = msgs[k]
        /\ msgs'[m] = v
    <3>1. \A dg \in Queued' : dg \in Queued \/ (dg.mid = m /\ dg.fragno \in DOMAIN v.fragments)
      BY <1>12, <2>1, <2>3
    <3>2. Queued \subseteq Queued' /\ v \in Msg
      BY <1>6, <1>12, <2>1, MsgFields
    <3>3. m \in Mid /\ msgs[m] = Unborn /\ Books(v) /\ msgs' = [msgs EXCEPT ![m] = v]
      BY <1>5, <1>12
    <3> QED BY <2>2, <2>4, <3>1, <3>2, <3>3, MsgBegun
  <2>6. ASSUME FlowInv PROVE FlowInv'
    <3>1. /\ msgs'[m].seqno \notin attr.seq.ids
          /\ attr'.seq.ids = attr.seq.ids \cup {msgs'[m].seqno}
          /\ attr'.seqno_freed = attr.seqno_freed /\ attr'.out_of_seqno = attr.out_of_seqno
      BY <1>4, <1>11, <1>12, <2>1, <2>5
    <3>2. /\ attr'.upper_flowc => attr'.lower_flowc \/ attr'.out_of_seqno
          /\ attr'.lower_flowc <=> attr'.pending # <<>>
      BY <1>11, <2>1, <2>6 DEF FlowInv, FlowControlLifted
    <3> QED BY <2>5, <2>6, <3>1, <3>2, FlowBegun
  <2> QED BY <2>5, <2>6 DEF Kept
<1>13. CASE msgs' = [msgs EXCEPT ![m] = v1] /\ ut_frag_send(out1, a)
  <2>1. v1.seqno = r.id
    BY <1>6, <1>7 DEF SameIdent
  <2>2. \A f \in LiveFrags(v1) : Somewhere(v1, f, Frag(m, f) \in Range(out1))
    BY <1>6, <1>7, <1>10 DEF Somewhere
  <2>3. \A dg \in Range(out1) : dg.mid = m /\ dg.fragno \in 0 .. n - 1
    BY <1>9, <1>10
  <2> QED BY <1>7, <1>10, <1>12, <1>13, <2>1, <2>2, <2>3
<1>14. CASE msgs' = [msgs EXCEPT ![m] = v2] /\ ut_frag_send(out2, a)
  <2>1. v2.seqno = r.id
    BY <1>6 DEF SameIdent
  <2>2. \A f \in LiveFrags(v2) : Somewhere(v2, f, Frag(m, f) \in Range(out2))
    <3> SUFFICES ASSUME NEW f \in LiveFrags(v2) PROVE Somewhere(v2, f, Frag(m, f) \in Range(out2))
      OBVIOUS
    <3>1. f \in 0 .. n - 1 /\ Fragcnt(v2) = n
      BY <1>6, <1>8, MsgFields
    <3>2. CASE f = n - 1
      BY <1>10, <3>2 DEF Somewhere
    <3>3. CASE f # n - 1
      <4>1. f < Fragcnt(v2) - 1
        BY <1>6, <3>1, <3>3
      <4> QED BY <1>6, <4>1 DEF Somewhere
    <3> QED BY <3>2, <3>3
  <2>3. \A dg \in Range(out2) : dg.mid = m /\ dg.fragno \in 0 .. n - 1
    BY <1>6, <1>9, <1>10
  <2> QED BY <1>6, <1>8, <1>10, <1>12, <1>14, <2>1, <2>2, <2>3
<1> QED BY <1>1, <1>13, <1>14

----------------------------------------------------------------------------
(* The layer: the theorems.                                                *)

\* Initially there is no message.
LEMMA TxInitOK ==
    ASSUME Init
    PROVE  TxIInv /\ FlowInv
<1>1. LiveMids = {}
  BY DEF Init, LiveMids, Alive
<1>2. lower = EmptyBag /\ aborted = FALSE /\ msgs = [m \in Mid |-> Unborn]
  BY DEF Init
<1>3. IsABag(lower) /\ DOMAIN lower = {}
  BY <1>2, SetBagRange DEF EmptyBag
<1>4. PICK last \in Id :
         attr = [seq |-> idtable_new(last), pending |-> <<>>, ban |-> {}, good |-> {},
                 seqno_freed |-> 0, out_of_seqno |-> FALSE, upper_flowc |-> FALSE,
                 lower_flowc |-> FALSE]
  BY DEF Init
<1>5. idtable_new(last) \in IdTables /\ idtable_new(last).ids = {}
  BY DEF idtable_new, IdTables
<1>6. 0 \in 0 .. SeqnoThresh - 1
  BY LimitsAssumption
<1>7. attr \in Attr /\ attr.pending = <<>> /\ attr.seq.ids = {}
      /\ ~attr.out_of_seqno /\ ~attr.upper_flowc /\ ~attr.lower_flowc
  BY <1>4, <1>5, <1>6 DEF Attr
<1>8. Range(attr.pending) = {}
  BY <1>7 DEF Range
<1>9. Types
  BY <1>2, <1>3, <1>7 DEF Types
<1>10. TxIInv
  BY <1>1, <1>3, <1>8, <1>9 DEF TxIInv, BookInv, KnownInv, HeldInv, Queued
<1>11. SeqIdsOwned /\ FlowControlLifted
  BY <1>1, <1>7 DEF SeqIdsOwned, FlowControlLifted
<1> QED BY <1>10, <1>11 DEF FlowInv

\* No message of the upper layer is too large for one message of the protocol.
AllFit == \A req \in Requests : req.fragcnt # Oversize

\* The stuttering step, and each of the actions.
LEMMA TxStepOK ==
    ASSUME TxIInv, [Next]_vars
    PROVE  TxIInv' /\ (AllFit /\ FlowInv => FlowInv')
<1>1. CASE UNCHANGED vars
  <2>1. msgs' = msgs /\ attr' = attr /\ lower' = lower /\ aborted' = aborted
    BY <1>1 DEF vars
  <2>2. LayerTypes' /\ FlowKept /\ Queued' = Queued
    BY <2>1 DEF TxIInv, Types, LayerTypes, FlowKept, Queued
  <2>3. TxIInv' /\ LiveMids' = LiveMids
    BY <2>1, <2>2, MsgsSame
  <2> QED BY <2>1, <2>2, <2>3, FlowQuiet
<1>2. CASE Upper
  <2>1. PICK req \in Requests : \/ SendToFlowControlled(req) \/ SendToOutOfSeqno(req)
                                \/ SendToTooLarge(req) \/ SendTo(req)
    BY <1>2 DEF Upper
  <2>2. CASE SendToTooLarge(req)
    <3>1. req.fragcnt = Oversize
      BY <2>2 DEF SendToTooLarge
    <3> QED BY <2>2, <3>1, SendToTooLargeKept DEF AllFit
  <2>3. CASE SendToFlowControlled(req) \/ SendToOutOfSeqno(req) \/ SendTo(req)
    <3>1. Kept
      BY <2>3, SendToFlowControlledKept, SendToOutOfSeqnoKept, SendToKept
    <3> QED BY <3>1 DEF Kept
  <2> QED BY <2>1, <2>2, <2>3
<1>3. CASE Remote
  <2>1. PICK m \in LiveMids, ack \in AckInputs : GotAck(m, ack) \/ GotEarNack(m, ack)
    BY <1>3 DEF Remote
  <2>2. ack \in Acks
    BY <2>1, AckInputsAssumption
  <2>3. Kept
    BY <2>1, <2>2, GotAckKept, GotEarNackKept
  <2> QED BY <2>3 DEF Kept
<1>4. CASE Released
  <2>1. PICK dg \in BagToSet(lower) : \/ dg.kind = "frag" /\ FragReleased(dg.mid, dg.fragno)
                                      \/ dg.kind = "ear" /\ EarReleased(dg.seqno, dg.attempts)
    BY <1>4 DEF Released
  <2>2. dg \in Dgram
    BY <2>1 DEF TxIInv, Types, BagToSet
  <2>3. CASE dg.kind = "frag" /\ FragReleased(dg.mid, dg.fragno)
    <3>1. dg.mid \in Mid
      BY <2>2, <2>3 DEF Dgram, FragDgram, EarDgram
    <3>2. Kept
      BY <2>3, <3>1, FragSentKept, FragDroppedKept, FragCancelledKept DEF FragReleased
    <3> QED BY <3>2 DEF Kept
  <2>4. CASE dg.kind = "ear" /\ EarReleased(dg.seqno, dg.attempts)
    <3>1. Kept
      BY <2>4, EarSentKept, EarDroppedKept DEF EarReleased
    <3> QED BY <3>1 DEF Kept
  <2> QED BY <2>1, <2>3, <2>4
<1>5. CASE \E k \in 1 .. Len(attr.pending) : Service(k)
  BY <1>5, ServiceKept DEF Kept
<1>6. CASE \E m \in Mid : Timeout(m)
  <2>1. PICK m \in Mid : Timeout(m)
    BY <1>6
  <2>2. CASE ResendIterate(m) \/ EarResend(m) \/ Expired(m) \/ Lingered(m)
    <3>1. Kept
      BY <2>2, ResendIterateKept, EarResendKept, ExpiredKept, LingeredKept
    <3> QED BY <3>1 DEF Kept
  <2>3. CASE Alive(m) /\ \E f \in DOMAIN msgs[m].fragments : FragResend(m, f)
    <3>1. m \in LiveMids
      BY <2>3 DEF LiveMids
    <3>2. Kept
      BY <2>3, <3>1, FragResendKept
    <3> QED BY <3>2 DEF Kept
  <2> QED BY <2>1, <2>2, <2>3 DEF Timeout
<1>7. CASE \E h \in Host : Aged(h)
  BY <1>7, AgedKept DEF Kept
<1> QED BY <1>1, <1>2, <1>3, <1>4, <1>5, <1>6, <1>7 DEF Next

\* The inductive invariant holds of every behaviour of the sending layer.
THEOREM TxInvariance == Spec => []TxIInv
<1>1. Init => TxIInv
  BY TxInitOK
<1>2. TxIInv /\ [Next]_vars => TxIInv'
  BY TxStepOK
<1> QED BY <1>1, <1>2, PTL DEF Spec

\* Whatever is sent, acknowledged, dropped or timed out, for messages of any
\* number of fragments: the resend list of a message and the flags of its
\* fragments agree, and um->pending is the number of fragments that wait for the
\* ACK of their retransmission until the message expires, without underflow of
\* the byte.
THEOREM TxResendBooks == Spec => []ResendInv
<1>1. TxIInv => ResendInv
  <2> SUFFICES ASSUME TxIInv PROVE ResendInv
    OBVIOUS
  <2>1. \A m \in LiveMids : /\ Fragcnt(msgs[m]) \in 1 .. FragMax /\ msgs[m] \in UMsg(Fragcnt(msgs[m]))
                            /\ Books(msgs[m]) /\ m \in Mid
    BY LiveMsg
  <2>2. TypeOK
    <3>1. attr \in Attr /\ aborted \in BOOLEAN
      BY DEF TxIInv, Types
    <3>2. \A m \in Mid : Alive(m) => msgs[m] \in UMsg(Fragcnt(msgs[m]))
      BY <2>1 DEF LiveMids
    <3>3. /\ attr.seq \in IdTables /\ attr.ban \in SUBSET Host /\ attr.good \in SUBSET Host
          /\ attr.seqno_freed \in 0 .. SeqnoThresh - 1
          /\ attr.out_of_seqno \in BOOLEAN /\ attr.upper_flowc \in BOOLEAN /\ attr.lower_flowc \in BOOLEAN
      BY <3>1, AttrFields
    <3> QED BY <3>1, <3>2, <3>3 DEF TypeOK
  <2>3. ResendListExact
    <3> SUFFICES ASSUME NEW m \in LiveMids
                 PROVE  /\ Len(msgs[m].resend) = Cardinality(Range(msgs[m].resend))
                        /\ Range(msgs[m].resend) = {f \in LiveFrags(msgs[m]) : msgs[m].fragments[f].resend}
                        /\ \A f \in Range(msgs[m].resend) : ~msgs[m].fragments[f].pending
      BY DEF ResendListExact
    <3> DEFINE um == msgs[m]
               n == Fragcnt(msgs[m])
    <3>1. n \in 1 .. FragMax /\ um \in UMsg(n) /\ ListExact(um)
      BY <2>1 DEF Books
    <3> HIDE DEF um, n
    <3>2. um.resend \in Seq(0 .. n - 1)
      BY <3>1, MsgFields
    <3>3. Len(um.resend) = Cardinality(Range(um.resend))
      BY <3>1, <3>2, InjectiveLen DEF ListExact
    <3>4. /\ Range(um.resend) = {f \in LiveFrags(um) : um.fragments[f].resend}
          /\ \A f \in Range(um.resend) : ~um.fragments[f].pending
      BY <3>1 DEF ListExact, Flagged, Waiting
    <3> QED BY <3>3, <3>4 DEF um
  <2>4. PendingExact
    BY <2>1 DEF PendingExact, PendingCount, Books, Waiting
  <2> QED BY <2>2, <2>3, <2>4 DEF ResendInv
<1> QED BY <1>1, TxInvariance, PTL

\* No fragment of a message is lost before the message expires, whatever the
\* lower layer refuses or drops and whenever the timers fire.
THEOREM TxFragmentAccounted == Spec => []FragmentAccounted
<1>1. TxIInv => FragmentAccounted
  <2> SUFFICES ASSUME TxIInv, NEW m \in LiveMids, NEW f \in LiveFrags(msgs[m])
               PROVE  \/ msgs[m].lingering
                      \/ msgs[m].cautious /\ f < Fragcnt(msgs[m]) - 1
                      \/ msgs[m].fragments[f].resend \/ msgs[m].fragments[f].resend_ev \/ Held(m, f)
    BY DEF FragmentAccounted
  <2>1. Somewhere(msgs[m], f, Frag(m, f) \in Queued)
    BY DEF TxIInv, HeldInv
  <2>2. Frag(m, f) \in Queued => Held(m, f)
    BY DEF Queued, Held, BagIn, BagToSet
  <2> QED BY <2>1, <2>2 DEF Somewhere
<1> QED BY <1>1, TxInvariance, PTL

\* When no message is too large, each sequence ID in use is that of one message,
\* and a flow control of the upper layer always has something that will lift it.
THEOREM TxFlowControl ==
    ASSUME AllFit
    PROVE  Spec => []FlowInv
<1>1. Init => TxIInv /\ FlowInv
  BY TxInitOK
<1>2. TxIInv /\ FlowInv /\ [Next]_vars => FlowInv'
  BY TxStepOK
<1> QED BY <1>1, <1>2, TxInvariance, PTL DEF Spec

----------------------------------------------------------------------------
(* The resend list is driven.                                              *)

EarsIn(b) == [dg \in {x \in DOMAIN b : x.kind = "ear"} |-> b[dg]]

\* Live messages have an ID of the table each.
OwnIds ==
    \A m \in LiveMids : /\ msgs[m].seqno \in attr.seq.ids
                        /\ \A k \in LiveMids : msgs[k].seqno = msgs[m].seqno => k = m

\* The lower layer has one EAR per ID at most, and it alone has EARs.
OneEar ==
    \A d \in DOMAIN EarsIn(lower) :
        /\ EarsIn(lower)[d] = 1
        /\ \A e \in DOMAIN EarsIn(lower) : e.seqno = d.seqno => e = d
OnlyFrags == \A dg \in Range(attr.pending) : dg.kind = "frag"

\* The EAR that the lower layer has is the one that its message waits for.
EarsTimely ==
    \A dg \in DOMAIN EarsIn(lower) :
        \A m \in LiveMids : msgs[m].seqno = dg.seqno => msgs[m].ear_pending

\* An EAR that is under way or was sent is one whose answer resumes the list.
EarAwaited(um) == ~um.alive /\ (um.ear_pending \/ um.ear_ev) => um.expecting_ack
Driven(um) ==
    um.resend # <<>> /\ ~um.lingering =>
        \/ um.iterate_ev \/ Waiting(um) # {}
        \/ ~um.alive /\ um.expecting_ack /\ (um.ear_ev \/ um.ear_pending)

EarInv == OwnIds /\ OneEar /\ OnlyFrags /\ EarsTimely
DriveInv == \A m \in LiveMids : EarAwaited(msgs[m]) /\ Driven(msgs[m])
DriveIInv == EarInv /\ DriveInv

\* Bags: their EARs.
LEMMA EarsShape ==
    ASSUME NEW b
    PROVE  /\ DOMAIN EarsIn(b) = {x \in DOMAIN b : x.kind = "ear"}
           /\ \A d \in DOMAIN EarsIn(b) : EarsIn(b)[d] = b[d]
BY DEF EarsIn

\* The EARs of two bags that differ by fragments.
LEMMA EarsSame ==
    ASSUME NEW b, NEW c, \A x : x.kind = "ear" => (x \in DOMAIN b <=> x \in DOMAIN c),
           \A x \in DOMAIN b : x.kind = "ear" => c[x] = b[x]
    PROVE  EarsIn(c) = EarsIn(b)
<1>1. {x \in DOMAIN c : x.kind = "ear"} = {x \in DOMAIN b : x.kind = "ear"}
  OBVIOUS
<1> QED BY <1>1 DEF EarsIn

\* Adding fragments to a bag leaves its EARs.
LEMMA EarsAdd ==
    ASSUME NEW b, IsABag(b), NEW c, IsABag(c), \A x \in DOMAIN c : x.kind = "frag"
    PROVE  EarsIn(b (+) c) = EarsIn(b)
<1> DEFINE d == b (+) c
<1>1. d = [e \in DOMAIN b \cup DOMAIN c |->
              (IF e \in DOMAIN b THEN b[e] ELSE 0) + (IF e \in DOMAIN c THEN c[e] ELSE 0)]
  BY DEF (+)
<1> HIDE DEF d
<1>2. DOMAIN d = DOMAIN b \cup DOMAIN c
  BY <1>1
<1>3. ASSUME NEW x \in DOMAIN b, x.kind = "ear" PROVE d[x] = b[x]
  <2>1. x \notin DOMAIN c
    BY <1>3
  <2>2. d[x] = b[x] + 0
    BY <1>1, <1>2, <2>1
  <2>3. b[x] \in Nat
    BY DEF IsABag
  <2> QED BY <2>2, <2>3
<1>4. \A x : x.kind = "ear" => (x \in DOMAIN b <=> x \in DOMAIN d)
  BY <1>2
<1> QED BY <1>3, <1>4, EarsSame DEF d

\* Taking a datagram from a bag leaves the other EARs.
LEMMA EarsTake ==
    ASSUME NEW b, IsABag(b), NEW x
    PROVE  LET d == b (-) SetToBag({x})
           IN  /\ x.kind = "frag" => EarsIn(d) = EarsIn(b)
               /\ x.kind = "ear" /\ x \in DOMAIN b /\ b[x] = 1 =>
                    /\ DOMAIN EarsIn(d) = DOMAIN EarsIn(b) \ {x}
                    /\ \A e \in DOMAIN EarsIn(d) : EarsIn(d)[e] = EarsIn(b)[e]
<1> DEFINE c == [e \in DOMAIN b |-> IF e \in {x} THEN b[e] - 1 ELSE b[e]]
           d == b (-) SetToBag({x})
<1>1. d = [e \in {g \in DOMAIN c : c[g] > 0} |-> c[e]]
  BY DEF (-), SetToBag
<1>2. \A e \in DOMAIN b : b[e] \in Nat /\ b[e] > 0
  BY DEF IsABag
<1>3. DOMAIN c = DOMAIN b /\ \A e \in DOMAIN b : c[e] = IF e = x THEN b[e] - 1 ELSE b[e]
  OBVIOUS
<1> HIDE DEF c, d
<1>4. DOMAIN d = {g \in DOMAIN b : c[g] > 0} /\ \A e \in DOMAIN d : d[e] = c[e]
  BY <1>1, <1>3
<1>5. \A e \in DOMAIN b : e # x => e \in DOMAIN d /\ d[e] = b[e]
  BY <1>2, <1>3, <1>4
<1>6. DOMAIN d \subseteq DOMAIN b
  BY <1>4
<1>7. ASSUME x.kind = "frag" PROVE EarsIn(d) = EarsIn(b)
  <2>1. /\ \A e : e.kind = "ear" => (e \in DOMAIN b <=> e \in DOMAIN d)
        /\ \A e \in DOMAIN b : e.kind = "ear" => d[e] = b[e]
    BY <1>5, <1>6, <1>7
  <2> QED BY <2>1, EarsSame
<1>8. ASSUME x.kind = "ear", x \in DOMAIN b, b[x] = 1
      PROVE  /\ DOMAIN EarsIn(d) = DOMAIN EarsIn(b) \ {x}
             /\ \A e \in DOMAIN EarsIn(d) : EarsIn(d)[e] = EarsIn(b)[e]
  <2>1. x \notin DOMAIN d
    BY <1>3, <1>4, <1>8
  <2>2. DOMAIN d = DOMAIN b \ {x}
    BY <1>5, <1>6, <2>1
  <2>3. DOMAIN EarsIn(d) = DOMAIN EarsIn(b) \ {x}
    BY <2>2, EarsShape
  <2>4. \A e \in DOMAIN EarsIn(d) : e \in DOMAIN b /\ e # x /\ EarsIn(d)[e] = d[e] /\ EarsIn(b)[e] = b[e]
    BY <2>2, <2>3, EarsShape
  <2> QED BY <1>5, <2>3, <2>4
<1> QED BY <1>7, <1>8 DEF d

\* Adding an EAR to a bag leaves the other ones.
LEMMA EarsPut ==
    ASSUME NEW b, IsABag(b), NEW x, x.kind = "ear", x \notin DOMAIN b
    PROVE  LET d == b (+) SetToBag({x})
           IN  /\ DOMAIN EarsIn(d) = DOMAIN EarsIn(b) \cup {x} /\ EarsIn(d)[x] = 1
               /\ \A e \in DOMAIN EarsIn(b) : EarsIn(d)[e] = EarsIn(b)[e]
<1> DEFINE c == SetToBag({x})
           d == b (+) c
<1>1. d = [e \in DOMAIN b \cup DOMAIN c |->
              (IF e \in DOMAIN b THEN b[e] ELSE 0) + (IF e \in DOMAIN c THEN c[e] ELSE 0)]
  BY DEF (+)
<1>2. DOMAIN c = {x} /\ c[x] = 1
  BY DEF SetToBag
<1> HIDE DEF c, d
<1>3. DOMAIN d = DOMAIN b \cup {x}
  BY <1>1, <1>2
<1>4. d[x] = 1
  BY <1>1, <1>2
<1>5. ASSUME NEW e \in DOMAIN b PROVE d[e] = b[e]
  <2>1. e \notin DOMAIN c /\ b[e] \in Nat
    BY <1>2 DEF IsABag
  <2>2. d[e] = b[e] + 0
    BY <1>1, <1>3, <2>1
  <2> QED BY <2>1, <2>2
<1>6. DOMAIN EarsIn(d) = DOMAIN EarsIn(b) \cup {x}
  <2>1. DOMAIN EarsIn(d) = {y \in DOMAIN d : y.kind = "ear"}
    BY EarsShape
  <2>2. DOMAIN EarsIn(b) = {y \in DOMAIN b : y.kind = "ear"}
    BY EarsShape
  <2> QED BY <1>3, <2>1, <2>2
<1>7. EarsIn(d)[x] = 1
  BY <1>4, <1>6, EarsShape
<1>8. \A e \in DOMAIN EarsIn(b) : EarsIn(d)[e] = EarsIn(b)[e]
  BY <1>5, <1>6, EarsShape
<1> QED BY <1>6, <1>7, <1>8 DEF c, d

\* What a step must keep for EARs when none of them comes or goes.
EarsKept == EarsIn(lower') = EarsIn(lower) /\ (OnlyFrags => OnlyFrags')

\* No message loses its EAR, or only by the last of its drops.
EarsHeld == LostEar' \subseteq LostEar
EarsLost == \A m \in LostEar' \ LostEar : EarDropped(msgs[m].seqno, AckSendMax)

\* The EAR of a message, as one of the EARs of the lower layer.
LEMMA EarBelowShape ==
    ASSUME NEW um
    PROVE  EarBelow(um) <=> \E dg \in DOMAIN EarsIn(lower) : dg.seqno = um.seqno
BY EarsShape DEF EarBelow, BagToSet

\* The same, of the next state.
LEMMA EarBelowNext ==
    ASSUME NEW k
    PROVE  EarBelow(msgs[k])' <=> \E dg \in DOMAIN EarsIn(lower') : dg.seqno = msgs'[k].seqno
<1>1. DOMAIN EarsIn(lower') = {x \in DOMAIN lower' : x.kind = "ear"}
  BY EarsShape
<1> QED BY <1>1 DEF EarBelow, BagToSet

\* No EAR goes, and no message starts to wait for one.
LEMMA EarsStay ==
    ASSUME DOMAIN EarsIn(lower) \subseteq DOMAIN EarsIn(lower'),
           \A k \in LiveMids' : msgs'[k].ear_pending =>
                k \in LiveMids /\ msgs[k].ear_pending /\ msgs[k].seqno = msgs'[k].seqno
    PROVE  EarsHeld
<1> SUFFICES ASSUME NEW k \in LostEar' PROVE k \in LostEar
  BY DEF EarsHeld
<1>1. k \in LiveMids' /\ msgs'[k].ear_pending /\ ~EarBelow(msgs[k])'
  BY DEF LostEar
<1>2. k \in LiveMids /\ msgs[k].ear_pending /\ msgs[k].seqno = msgs'[k].seqno
  BY <1>1
<1>3. ~EarBelow(msgs[k])
  BY <1>1, <1>2, EarBelowShape, EarBelowNext
<1> QED BY <1>2, <1>3 DEF LostEar

\* No message changes.
LEMMA DriveSame ==
    ASSUME DriveIInv, msgs' = msgs, attr.seq.ids \subseteq attr'.seq.ids, EarsKept
    PROVE  DriveIInv' /\ EarsHeld
<1>1. LiveMids' = LiveMids
  BY DEF LiveMids, Alive
<1>2. EarInv'
  BY <1>1 DEF DriveIInv, EarInv, EarsKept, OwnIds, OneEar, EarsTimely
<1>3. DriveInv'
  BY <1>1 DEF DriveIInv, DriveInv
<1>4. EarsHeld
  BY <1>1, EarsStay DEF EarsKept
<1> QED BY <1>2, <1>3, <1>4 DEF DriveIInv

\* A message is updated.
LEMMA DriveUpdated ==
    ASSUME TxIInv, DriveIInv, NEW m \in LiveMids, NEW v \in Msg, msgs' = [msgs EXCEPT ![m] = v],
           v.seqno = msgs[m].seqno, v.ear_pending = msgs[m].ear_pending,
           attr'.seq.ids = attr.seq.ids, LayerTypes', EarsKept, EarAwaited(v), Driven(v)
    PROVE  DriveIInv' /\ EarsHeld
<1>1. Types /\ LiveMids' = LiveMids /\ \A k \in Mid : msgs'[k] = IF k = m THEN v ELSE msgs[k]
  BY MsgReplaced DEF TxIInv
<1>2. \A k \in LiveMids : /\ msgs'[k].seqno = msgs[k].seqno
                          /\ msgs'[k].ear_pending = msgs[k].ear_pending
                          /\ EarAwaited(msgs'[k]) /\ Driven(msgs'[k])
  BY <1>1 DEF LiveMids, DriveIInv, DriveInv
<1>3. OwnIds'
  BY <1>1, <1>2 DEF DriveIInv, EarInv, OwnIds
<1>4. EarsTimely'
  BY <1>1, <1>2 DEF DriveIInv, EarInv, EarsTimely, EarsKept
<1>5. OneEar' /\ OnlyFrags'
  BY DEF DriveIInv, EarInv, EarsKept, OneEar
<1>6. EarsHeld
  BY <1>1, <1>2, EarsStay DEF EarsKept
<1> QED BY <1>1, <1>2, <1>3, <1>4, <1>5, <1>6 DEF DriveIInv, EarInv, DriveInv

\* A message ends.
LEMMA DriveFreed ==
    ASSUME TxIInv, DriveIInv, NEW m \in LiveMids, NEW sent \in BOOLEAN, NEW a \in Attr,
           SameButHosts(attr, a), ut_msg_free(m, sent, a), EarsIn(lower') = EarsIn(lower),
           TxIInv'
    PROVE  DriveIInv' /\ EarsHeld
<1> DEFINE tag == IF sent THEN Sent ELSE Dropped
           b == IF sent /\ msgs[m].reliable THEN ut_to_flag_good(a, msgs[m].to) ELSE a
<1>1. msgs' = [msgs EXCEPT ![m] = tag] /\ attr' = ReleaseSeqno(b, msgs[m].seqno)
  BY DEF ut_msg_free
<1>2. msgs[m].to \in Host /\ Types
  BY LiveMsg
<1>3. b \in Attr /\ SameButHosts(attr, b)
  BY <1>2, HostsShape DEF SameButHosts
<1> HIDE DEF b
<1>4. attr'.seq.ids = attr.seq.ids \ {msgs[m].seqno} /\ attr'.pending = attr.pending
  <2>1. attr'.seq.ids = b.seq.ids \ {msgs[m].seqno} /\ attr'.pending = b.pending
    BY <1>1, <1>3, ReleaseSeqnoShape
  <2> QED BY <1>3, <2>1 DEF SameButHosts
<1>5. tag \in {Sent, Dropped} /\ tag \notin Msg
  BY TagsApart
<1> HIDE DEF tag
<1>6. LayerTypes'
  BY DEF TxIInv, Types, LayerTypes
<1>7. LiveMids' = LiveMids \ {m} /\ \A k \in Mid : msgs'[k] = IF k = m THEN tag ELSE msgs[k]
  BY <1>1, <1>2, <1>5, <1>6, MsgReplaced
<1>8. \A k \in LiveMids' : msgs'[k] = msgs[k] /\ k \in LiveMids /\ k # m
  BY <1>7 DEF LiveMids
<1>9. OwnIds'
  BY <1>4, <1>8 DEF DriveIInv, EarInv, OwnIds
<1>10. EarsTimely' /\ OneEar' /\ OnlyFrags'
  BY <1>4, <1>8 DEF DriveIInv, EarInv, EarsTimely, OneEar, OnlyFrags
<1>11. DriveInv'
  BY <1>8 DEF DriveIInv, DriveInv
<1>12. EarsHeld
  BY <1>8, EarsStay
<1> QED BY <1>9, <1>10, <1>11, <1>12 DEF DriveIInv, EarInv

\* Only fragments are given to the lower layer or queued.
LEMMA FragSendEars ==
    ASSUME NEW a, a.pending = attr.pending, a \in Attr, IsABag(lower), NEW out \in Seq(Dgram), ut_frag_send(out, a),
           \A dg \in Range(out) : dg.kind = "frag"
    PROVE  EarsKept
<1>1. PICK k \in 0 .. Len(out) :
        /\ lower' = lower (+) SetToBag(Range(SubSeq(out, 1, k)))
        /\ attr' = [a EXCEPT !.pending = Reverse(SubSeq(out, k + 1, Len(out))) \o a.pending,
                             !.lower_flowc = a.lower_flowc \/ SubSeq(out, k + 1, Len(out)) # <<>>]
  <2>1. Len(out) \in Nat
    OBVIOUS
  <2>2. PICK k \in (IF a.pending # <<>> THEN {0}
                    ELSE IF LowerRefuses THEN 0 .. Len(out) ELSE {Len(out)}) :
        /\ lower' = lower (+) SetToBag(Range(SubSeq(out, 1, k)))
        /\ attr' = [a EXCEPT !.pending = Reverse(SubSeq(out, k + 1, Len(out))) \o a.pending,
                             !.lower_flowc = a.lower_flowc \/ SubSeq(out, k + 1, Len(out)) # <<>>]
    BY Zenon DEF ut_frag_send
  <2>3. k \in 0 .. Len(out)
    BY <2>1, <2>2
  <2> QED BY <2>2, <2>3
<1> DEFINE sent == SubSeq(out, 1, k)
           refused == SubSeq(out, k + 1, Len(out))
           q == Reverse(refused) \o a.pending
<1>2. /\ sent \in Seq(Dgram) /\ Range(sent) \cup Range(refused) = Range(out) /\ refused \in Seq(Dgram)
  <2>1. refused \in Seq(Dgram)
    BY <1>1
  <2> QED BY <2>1, PrefixRange
<1>3. attr'.pending = q /\ lower' = lower (+) SetToBag(Range(sent))
  BY <1>1 DEF Attr
<1> HIDE DEF sent, refused
<1>4. Reverse(refused) \in Seq(Dgram) /\ Range(Reverse(refused)) = Range(refused)
  BY <1>2, ReverseRange
<1>5. a.pending \in Seq(Dgram)
  BY AttrFields
<1>6. Range(q) = Range(refused) \cup Range(a.pending)
  BY <1>4, <1>5, ConcatRange
<1> HIDE DEF q
<1>7. IsABag(SetToBag(Range(sent))) /\ DOMAIN SetToBag(Range(sent)) = Range(sent)
  BY SetBagRange
<1>8. \A x \in Range(sent) : x.kind = "frag"
  BY <1>2
<1>9. EarsIn(lower') = EarsIn(lower)
  BY <1>3, <1>7, <1>8, EarsAdd
<1>10. OnlyFrags => OnlyFrags'
  BY <1>2, <1>3, <1>6 DEF OnlyFrags
<1> QED BY <1>9, <1>10 DEF EarsKept

\* No datagram is given, none is released.
LEMMA StayEars ==
    ASSUME UNCHANGED <<attr, lower>>
    PROVE  EarsKept
BY DEF EarsKept, OnlyFrags

\* Releasing a fragment leaves the EARs.
LEMMA ReleaseEars ==
    ASSUME IsABag(lower), NEW m, NEW f, Release(Frag(m, f)), attr'.pending = attr.pending
    PROVE  EarsKept
<1>1. Frag(m, f).kind = "frag"
  BY DEF Frag
<1>2. EarsIn(lower') = EarsIn(lower)
  BY <1>1, EarsTake DEF Release
<1> QED BY <1>2 DEF EarsKept, OnlyFrags

\* A message is updated, and nothing else: Leave().
LEMMA DriveLeft ==
    ASSUME TxIInv, TxIInv', DriveIInv, NEW m \in LiveMids, NEW v \in Msg, Leave(m, v),
           v.seqno = msgs[m].seqno, v.ear_pending = msgs[m].ear_pending,
           UNCHANGED lower, EarAwaited(v), Driven(v)
    PROVE  DriveIInv' /\ EarsHeld
<1>1. msgs' = [msgs EXCEPT ![m] = v] /\ attr' = attr
  BY DEF Leave
<1>2. EarsKept /\ attr'.seq.ids = attr.seq.ids
  BY <1>1, StayEars
<1>3. LayerTypes'
  BY DEF TxIInv, Types, LayerTypes
<1> QED BY <1>1, <1>2, <1>3, DriveUpdated

\* The message ends, and the lower layer is left alone.
LEMMA DriveEnded ==
    ASSUME TxIInv, TxIInv', DriveIInv, NEW m \in LiveMids, NEW sent \in BOOLEAN, NEW a \in Attr,
           SameButHosts(attr, a), ut_msg_free(m, sent, a), UNCHANGED lower
    PROVE  DriveIInv' /\ EarsHeld
BY DriveFreed

\* An ACK that only names fragments that were sent is not rejected midway.
LEMMA PlausibleValid ==
    ASSUME NEW um, NEW ack, Plausible(um, ack), ~ack.ear, ~AcksWholeMessage(ack, Fragcnt(um))
    PROVE  StageValid(SignOfLife(um), ack, 3)
<1> DEFINE u == SignOfLife(um)
           n == Fragcnt(um)
           s1 == {ack.fragno}
           s2 == IF ack.cumulative THEN 0 .. ack.fragno - 1 ELSE {}
           s3 == IF ack.received # 0 THEN WindowReceived(ack, n) \cup ImpliedReceived(ack, n) ELSE {}
<1>1. u.fragments = um.fragments
  BY DEF SignOfLife
<1>2. Fragcnt(u) = n /\ Unsent(u) = Unsent(um)
  BY <1>1 DEF Fragcnt, Unsent, LiveFrags
<1>3. Acknowledged(ack, n) = s1 \cup s2 \cup s3
  BY DEF Acknowledged
<1>4. Stages(u, ack) = <<s1, s2, s3>>
  BY <1>2 DEF Stages
<1> HIDE DEF u, n, s1, s2, s3
<1>5. s1 \cap Unsent(u) = {} /\ s2 \cap Unsent(u) = {} /\ s3 \cap Unsent(u) = {}
  BY <1>2, <1>3 DEF Plausible, n
<1>6. \A j \in 1 .. 3 : j = 1 \/ j = 2 \/ j = 3
  OBVIOUS
<1>7. /\ Stages(u, ack)[1] = s1 /\ Stages(u, ack)[2] = s2 /\ Stages(u, ack)[3] = s3
  BY <1>4
<1>8. \A j \in 1 .. 3 : Stages(u, ack)[j] \cap Unsent(u) = {}
  BY <1>5, <1>6, <1>7
<1> QED BY <1>8 DEF StageValid, u

\* GotAck resumes the resends that waited for an ACK.
LEMMA GotAckDrives ==
    ASSUME TxIInv, TxIInv', DriveIInv, NEW m \in LiveMids, NEW ack \in Acks, GotAck(m, ack),
           Plausible(msgs[m], ack)
    PROVE  DriveIInv' /\ EarsHeld
<1> DEFINE n == Fragcnt(msgs[m])
           um == SignOfLife(msgs[m])
           freed == FreeAcked(um, ack)
           rest == FragSeq(m, Ascending(LiveFrags(freed)))
<1>1. /\ n \in 1 .. FragMax /\ msgs[m] \in UMsg(n) /\ Books(msgs[m]) /\ m \in Mid
      /\ Types /\ LayerTypes /\ msgs[m].to \in Host
  BY LiveMsg
<1>2. ack.fragno < n /\ ~ack.ear
  BY DEF GotAck, AckAccepted
<1>4. /\ um \in UMsg(n) /\ Books(um) /\ SameIdent(msgs[m], um) /\ SameBooks(msgs[m], um)
      /\ um.cautious = msgs[m].cautious /\ um.iterate_ev = msgs[m].iterate_ev
      /\ um.expecting_ack = msgs[m].expecting_ack /\ um.ear_pending = msgs[m].ear_pending
      /\ um.alive /\ ~um.ear_ev
  <2> HIDE DEF n
  <2> QED BY <1>1, SignOfLifeShape
<1> DEFINE A1 == ut_msg_free(m, TRUE, attr) /\ UNCHANGED lower
           A2 == ~AcksWholeMessage(ack, Fragcnt(um)) /\ ~StageValid(um, ack, 3)
           A3 == /\ msgs' = [msgs EXCEPT ![m] = ut_send_remaining(freed)]
                 /\ ut_frag_send(rest, ut_to_flag_good(attr, um.to))
           A4 == Leave(m, Resumed(um, freed)) /\ UNCHANGED lower
<1>3. A1 \/ A2 \/ A3 \/ A4
  BY Zenon DEF GotAck, Resumed
<1>5. ~A2
  <2>1. Fragcnt(um) = Fragcnt(msgs[m])
    BY <1>4, SameBooksKeep
  <2> QED BY <1>2, <2>1, PlausibleValid
<1> HIDE DEF n, um, A2
<1>6. freed \in UMsg(n) /\ Books(freed) /\ FreedFrom(um, freed)
  BY <1>1, <1>2, <1>4, FreeAckedShape
<1> HIDE DEF freed
<1>7. /\ freed.seqno = msgs[m].seqno /\ freed.alive /\ freed.ear_pending = msgs[m].ear_pending
  BY <1>4, <1>6 DEF FreedFrom, SameIdent, SameSignals
<1>8. CASE A1
  <2>1. attr \in Attr /\ SameButHosts(attr, attr)
    BY <1>1 DEF LayerTypes, SameButHosts
  <2> QED BY <1>8, <2>1, DriveEnded
<1>9. CASE A4
  <2> DEFINE v == Resumed(um, freed)
  <2>1. /\ v \in UMsg(n) /\ SameIdent(freed, v) /\ SameBooks(freed, v)
        /\ v.alive = freed.alive /\ v.ear_pending = freed.ear_pending
        /\ freed.iterate_ev => v.iterate_ev
        /\ um.expecting_ack /\ v.resend # <<>> => v.iterate_ev
    BY <1>1, <1>6, ResumedShape
  <2>2. Leave(m, v) /\ lower' = lower
    BY <1>9
  <2> HIDE DEF v
  <2>3. v.seqno = msgs[m].seqno /\ v.alive /\ v.ear_pending = msgs[m].ear_pending /\ v \in Msg
    BY <1>1, <1>7, <2>1 DEF SameIdent, Msg
  <2>4. EarAwaited(v)
    BY <2>3 DEF EarAwaited
  <2>5. Driven(v)
    <3> SUFFICES ASSUME v.resend # <<>>, ~v.lingering PROVE v.iterate_ev \/ Waiting(v) # {}
      BY DEF Driven
    <3>1. freed.resend # <<>> /\ ~freed.lingering /\ Waiting(v) = Waiting(freed)
      BY <2>1, SameBooksKeep DEF SameBooks
    <3>2. um.resend # <<>> /\ ~um.lingering
      BY <1>6, <3>1 DEF FreedFrom
    <3>3. msgs[m].resend # <<>> /\ ~msgs[m].lingering /\ Waiting(um) = Waiting(msgs[m])
      BY <1>4, <3>2, SameBooksKeep DEF SameBooks
    <3>4. \/ um.iterate_ev \/ Waiting(um) # {} \/ um.expecting_ack
      BY <1>4, <3>3 DEF DriveIInv, DriveInv, Driven
    <3>5. um.iterate_ev \/ Waiting(um) # {} => freed.iterate_ev \/ Waiting(freed) # {}
      BY <1>6, <3>1 DEF FreedFrom
    <3> QED BY <2>1, <3>1, <3>4, <3>5
  <2> QED BY <2>2, <2>3, <2>4, <2>5, DriveLeft
<1>10. CASE A3
  <2> DEFINE v == ut_send_remaining(freed)
             a == ut_to_flag_good(attr, um.to)
             fs == Ascending(LiveFrags(freed))
  <2>1. /\ v \in UMsg(n) /\ SameIdent(freed, v) /\ SameSignals(freed, v) /\ v.resend = <<>>
    BY <1>1, <1>6, RemainingShape
  <2>2. um.to \in Host /\ attr \in Attr
    BY <1>1, <1>4 DEF SameIdent, LayerTypes
  <2>3. a \in Attr /\ SameButHosts(attr, a)
    BY <2>2, HostsShape
  <2>4. n \in Nat /\ LiveFrags(freed) \in SUBSET (0 .. n - 1)
    BY <1>1, <1>6, MsgFields
  <2>5. fs \in Seq(LiveFrags(freed))
    BY <2>4, AscendingRange
  <2>6. msgs' = [msgs EXCEPT ![m] = v] /\ ut_frag_send(rest, a)
    BY <1>10
  <2>7. rest = FragSeq(m, fs)
    OBVIOUS
  <2> HIDE DEF v, a, fs, rest
  <2>8. fs \in Seq(0 .. n - 1)
    BY <2>4, <2>5
  <2>9. /\ rest \in Seq(Dgram) /\ \A dg \in Range(rest) : dg.kind = "frag"
    BY <1>1, <2>7, <2>8, FragSeqShape
  <2>10. a.pending = attr.pending /\ IsABag(lower) /\ DOMAIN lower \subseteq Dgram
    BY <1>1, <2>3 DEF SameButHosts, LayerTypes
  <2>11. EarsKept
    BY <2>3, <2>6, <2>9, <2>10, FragSendEars
  <2>12. attr'.seq.ids = attr.seq.ids
    <3>1. attr'.seq = a.seq
      BY <2>3, <2>6, <2>9, <2>10, FragSendShape
    <3> QED BY <2>3, <3>1 DEF SameButHosts
  <2>13. LayerTypes'
    BY DEF TxIInv, Types, LayerTypes
  <2>14. v.seqno = msgs[m].seqno /\ v.ear_pending = msgs[m].ear_pending /\ v \in Msg
    BY <1>1, <1>7, <2>1 DEF SameIdent, SameSignals, Msg
  <2>15. EarAwaited(v) /\ Driven(v)
    BY <1>7, <2>1 DEF EarAwaited, Driven, SameSignals
  <2> QED BY <2>6, <2>11, <2>12, <2>13, <2>14, <2>15, DriveUpdated
<1> QED BY <1>3, <1>5, <1>8, <1>9, <1>10

\* GotEarNack resumes the resends.
LEMMA GotEarNackDrives ==
    ASSUME TxIInv, TxIInv', DriveIInv, NEW m \in LiveMids, NEW ack, GotEarNack(m, ack)
    PROVE  DriveIInv' /\ EarsHeld
<1> DEFINE n == Fragcnt(msgs[m])
           um == SignOfLife(msgs[m])
           v == Flushed(um)
<1>1. /\ n \in 1 .. FragMax /\ msgs[m] \in UMsg(n) /\ Books(msgs[m]) /\ LayerTypes /\ msgs[m].to \in Host
  BY LiveMsg
<1>2. /\ msgs' = [msgs EXCEPT ![m] = v] /\ attr' = ut_to_flag_good(attr, um.to) /\ lower' = lower
  BY DEF GotEarNack, Flushed, FullAlpha
<1> HIDE DEF n
<1>3. /\ um \in UMsg(n) /\ Books(um) /\ SameIdent(msgs[m], um) /\ um.alive
      /\ um.ear_pending = msgs[m].ear_pending
  BY <1>1, SignOfLifeShape
<1> HIDE DEF um
<1>4. /\ v \in UMsg(n) /\ SameIdent(um, v) /\ v.alive = um.alive /\ v.ear_pending = um.ear_pending
      /\ v.resend # <<>> => v.iterate_ev
  BY <1>1, <1>3, FlushedShape
<1> HIDE DEF v
<1>5. SameButHosts(attr, attr')
  BY <1>1, <1>2, <1>3, HostsShape DEF SameIdent, LayerTypes
<1>6. LayerTypes' /\ attr'.seq.ids = attr.seq.ids /\ EarsKept
  BY <1>2, <1>5 DEF TxIInv, Types, LayerTypes, SameButHosts, EarsKept, OnlyFrags
<1>7. v.seqno = msgs[m].seqno /\ v.alive /\ v.ear_pending = msgs[m].ear_pending /\ v \in Msg
  BY <1>1, <1>3, <1>4 DEF SameIdent, Msg
<1>8. EarAwaited(v) /\ Driven(v)
  BY <1>4, <1>7 DEF EarAwaited, Driven
<1> QED BY <1>2, <1>6, <1>7, <1>8, DriveUpdated

\* Nothing is claimed of a message that lingers.
LEMMA ExpiredDrives ==
    ASSUME TxIInv, TxIInv', DriveIInv, NEW m \in Mid, Expired(m)
    PROVE  DriveIInv' /\ EarsHeld
<1> DEFINE n == Fragcnt(msgs[m])
           um == msgs[m]
           v == LingersOn(um)
<1>0. m \in LiveMids
  BY DEF Expired, LiveMids
<1>1. /\ n \in 1 .. FragMax /\ um \in UMsg(n) /\ Books(um) /\ LayerTypes /\ um.to \in Host
  BY <1>0, LiveMsg
<1>2. /\ msgs' = [msgs EXCEPT ![m] = v] /\ lower' = lower
      /\ attr' \in {attr, ut_to_ban(attr, um.to)}
  BY DEF Expired, LingersOn, FullAlpha
<1> HIDE DEF n, um
<1>3. v \in UMsg(n) /\ SameIdent(um, v) /\ SameSignals(um, v) /\ v.lingering
  BY <1>1, LingersOnShape
<1> HIDE DEF v
<1>4. SameButHosts(attr, attr')
  BY <1>1, <1>2, HostsShape DEF LayerTypes, SameButHosts
<1>5. LayerTypes' /\ attr'.seq.ids = attr.seq.ids /\ EarsKept
  BY <1>2, <1>4 DEF TxIInv, Types, LayerTypes, SameButHosts, EarsKept, OnlyFrags
<1>6. v.seqno = msgs[m].seqno /\ v.ear_pending = msgs[m].ear_pending /\ v \in Msg
  BY <1>1, <1>3 DEF SameIdent, SameSignals, Msg, um
<1>7. EarAwaited(v) /\ Driven(v)
  <2>1. EarAwaited(um)
    BY <1>0 DEF DriveIInv, DriveInv, um
  <2> QED BY <1>3, <2>1 DEF EarAwaited, Driven, SameSignals
<1> QED BY <1>0, <1>2, <1>5, <1>6, <1>7, DriveUpdated

\* Nothing is claimed of a message that is over.
LEMMA LingeredDrives ==
    ASSUME TxIInv, TxIInv', DriveIInv, NEW m \in Mid, Lingered(m)
    PROVE  DriveIInv' /\ EarsHeld
<1>1. m \in LiveMids /\ ut_msg_free(m, FALSE, attr) /\ UNCHANGED lower
  BY DEF Lingered, LiveMids
<1>2. attr \in Attr /\ SameButHosts(attr, attr)
  BY DEF TxIInv, Types, SameButHosts
<1> QED BY <1>1, <1>2, DriveEnded

\* A fragment whose datagram was released, the message being left as v.
LEMMA ReleasedDrives ==
    ASSUME TxIInv, TxIInv', DriveIInv, NEW m \in LiveMids, NEW f, NEW v \in Msg, Leave(m, v),
           Release(Frag(m, f)), v.seqno = msgs[m].seqno, SameSignals(msgs[m], v), Driven(v)
    PROVE  DriveIInv' /\ EarsHeld
<1>1. msgs' = [msgs EXCEPT ![m] = v] /\ attr' = attr
  BY DEF Leave
<1>2. IsABag(lower) /\ LayerTypes'
  BY DEF TxIInv, Types, LayerTypes
<1>3. EarsKept /\ attr'.seq.ids = attr.seq.ids
  BY <1>1, <1>2, ReleaseEars
<1>4. EarAwaited(v) /\ v.ear_pending = msgs[m].ear_pending
  BY DEF DriveIInv, DriveInv, EarAwaited, SameSignals
<1> QED BY <1>1, <1>2, <1>3, <1>4, DriveUpdated

\* A change of a fragment that leaves it in the list, or out of it.
LEMMA TouchedDrives ==
    ASSUME TxIInv, TxIInv', DriveIInv, NEW m \in LiveMids, NEW f \in LiveFrags(msgs[m]), NEW uf \in UFrag,
           uf.resend = msgs[m].fragments[f].resend, uf.pending = msgs[m].fragments[f].pending,
           Release(Frag(m, f)),
           Leave(m, [msgs[m] EXCEPT !.fragments = WithFrag(msgs[m], f, uf)])
    PROVE  DriveIInv' /\ EarsHeld
<1> DEFINE n == Fragcnt(msgs[m])
           um == msgs[m]
           v == [um EXCEPT !.fragments = WithFrag(um, f, uf)]
<1>1. /\ n \in 1 .. FragMax /\ um \in UMsg(n) /\ Books(um)
  BY LiveMsg
<1>2. Leave(m, v)
  OBVIOUS
<1> HIDE DEF n
<1>3. /\ v \in UMsg(n) /\ SameIdent(um, v) /\ SameSignals(um, v) /\ Waiting(v) = Waiting(um)
      /\ v.resend = um.resend /\ v.iterate_ev = um.iterate_ev /\ v.lingering = um.lingering
  BY <1>1, TouchedShape
<1> HIDE DEF v, um
<1>4. v \in Msg /\ v.seqno = msgs[m].seqno /\ SameSignals(msgs[m], v)
  BY <1>1, <1>3 DEF Msg, SameIdent, um
<1>5. Driven(v)
  <2>1. Driven(um)
    BY DEF DriveIInv, DriveInv, um
  <2> QED BY <1>3, <2>1 DEF Driven, SameSignals
<1> QED BY <1>2, <1>4, <1>5, ReleasedDrives

\* The fate of a fragment resumes the resends that it was limiting.
LEMMA FragDroppedDrives ==
    ASSUME TxIInv, TxIInv', DriveIInv, NEW m \in Mid, NEW f, FragDropped(m, f)
    PROVE  DriveIInv' /\ EarsHeld
<1>1. m \in LiveMids /\ f \in LiveFrags(msgs[m]) /\ Release(Frag(m, f))
  BY HookedFrag DEF FragDropped
<1>2. msgs[m] \in UMsg(Fragcnt(msgs[m])) /\ Fragcnt(msgs[m]) \in 1 .. FragMax
  BY <1>1, LiveMsg
<1> DEFINE uf == [msgs[m].fragments[f] EXCEPT !.resend_ev = TRUE]
<1>3. msgs[m].fragments[f] \in UFrag
  BY <1>1, <1>2, MsgFields
<1>4. /\ uf \in UFrag /\ uf.resend = msgs[m].fragments[f].resend
      /\ uf.pending = msgs[m].fragments[f].pending
  BY <1>3 DEF UFrag
<1>5. Leave(m, [msgs[m] EXCEPT !.fragments = WithFrag(msgs[m], f, uf)])
  BY DEF FragDropped, WithFrag
<1> HIDE DEF uf
<1> QED BY <1>1, <1>4, <1>5, TouchedDrives

\* A datagram that nobody waits for drives nothing.
LEMMA FragCancelledDrives ==
    ASSUME TxIInv, DriveIInv, NEW m, NEW f, FragCancelled(m, f)
    PROVE  DriveIInv' /\ EarsHeld
<1>1. Release(Frag(m, f)) /\ msgs' = msgs /\ attr' = attr
  BY DEF FragCancelled
<1>2. IsABag(lower)
  BY DEF TxIInv, Types
<1>3. EarsKept
  BY <1>1, <1>2, ReleaseEars
<1> QED BY <1>1, <1>3, DriveSame

\* A fragment that was sent has its timer, which drives the resends.
LEMMA FragSentDrives ==
    ASSUME TxIInv, TxIInv', DriveIInv, NEW m \in Mid, NEW f, FragSent(m, f)
    PROVE  DriveIInv' /\ EarsHeld
<1> DEFINE n == Fragcnt(msgs[m])
           um == msgs[m]
           uf == [um.fragments[f] EXCEPT !.txcnt = Saturated(um.fragments[f].txcnt, SendMax), !.resend_ev = TRUE]
           v == ut_frag_free(um, f)
<1>1. m \in LiveMids /\ f \in LiveFrags(um) /\ Release(Frag(m, f))
  BY HookedFrag DEF FragSent
<1>2. /\ n \in 1 .. FragMax /\ um \in UMsg(n) /\ Books(um) /\ LayerTypes
  BY <1>1, LiveMsg
<1>3. \/ Leave(m, [msgs[m] EXCEPT !.fragments = WithFrag(msgs[m], f, uf)])
      \/ Leave(m, v)
      \/ ut_msg_free(m, TRUE, attr)
  BY Zenon DEF FragSent, LeaveOrFree, WithFrag
<1>4. um.fragments[f] \in UFrag /\ f \in 0 .. n - 1
  <2> HIDE DEF n, um
  <2> QED BY <1>1, <1>2, MsgFields
<1>5. CASE Leave(m, [msgs[m] EXCEPT !.fragments = WithFrag(msgs[m], f, uf)])
  <2>1. Saturated(um.fragments[f].txcnt, SendMax) \in 0 .. SendMax
    <3>1. um.fragments[f].txcnt \in 0 .. SendMax /\ SendMax \in Nat
      BY <1>4, LimitsAssumption DEF UFrag
    <3> QED BY <3>1 DEF Saturated
  <2>2. /\ uf \in UFrag /\ uf.resend = msgs[m].fragments[f].resend
        /\ uf.pending = msgs[m].fragments[f].pending
    BY <1>4, <2>1 DEF UFrag
  <2> HIDE DEF uf
  <2> QED BY <1>1, <1>5, <2>2, TouchedDrives
<1> HIDE DEF n, uf, um
<1>6. v \in UMsg(n) /\ FreedFrom(um, v)
  BY <1>2, <1>4, FragFreeShape
<1> HIDE DEF v
<1>7. CASE Leave(m, v)
  <2>1. v \in Msg /\ v.seqno = msgs[m].seqno /\ SameSignals(msgs[m], v)
    BY <1>2, <1>6 DEF Msg, SameIdent, FreedFrom, um
  <2>2. Driven(v)
    <3>1. Driven(um)
      BY <1>1 DEF DriveIInv, DriveInv, um
    <3>2. /\ v.lingering = um.lingering /\ SameSignals(um, v)
          /\ v.resend # <<>> => um.resend # <<>>
          /\ um.iterate_ev => v.iterate_ev
          /\ Waiting(um) # {} /\ v.resend # <<>> => v.iterate_ev \/ Waiting(v) # {}
      BY <1>6 DEF FreedFrom
    <3> QED BY <3>1, <3>2 DEF Driven, SameSignals
  <2> QED BY <1>1, <1>7, <2>1, <2>2, ReleasedDrives DEF um
<1>8. CASE ut_msg_free(m, TRUE, attr)
  <2>1. attr \in Attr /\ SameButHosts(attr, attr)
    BY <1>2 DEF LayerTypes, SameButHosts
  <2>2. EarsIn(lower') = EarsIn(lower)
    <3>1. IsABag(lower) /\ Frag(m, f).kind = "frag"
      BY <1>2 DEF LayerTypes, Frag
    <3> QED BY <1>1, <3>1, EarsTake DEF Release
  <2> QED BY <1>1, <1>8, <2>1, <2>2, DriveFreed
<1> QED BY <1>3, <1>5, <1>7, <1>8

\* A failed assertion stops everything.
LEMMA AbortDrives ==
    ASSUME DriveIInv, UNCHANGED <<msgs, attr, lower>>
    PROVE  DriveIInv' /\ EarsHeld
BY StayEars, DriveSame

\* The EAR of a message in the lower layer.
LEMMA EarHeld ==
    ASSUME DriveIInv, NEW seqno, NEW n, Ear(seqno, n) \in DOMAIN lower
    PROVE  LET dg == Ear(seqno, n)
           IN  /\ dg \in DOMAIN EarsIn(lower) /\ lower[dg] = 1
               /\ dg.kind = "ear" /\ dg.seqno = seqno /\ dg.attempts = n
               /\ \A e \in DOMAIN EarsIn(lower) : e.seqno = seqno => e = dg
               /\ \A m \in LiveMids : msgs[m].seqno = seqno => msgs[m].ear_pending
<1> DEFINE dg == Ear(seqno, n)
<1>1. dg.kind = "ear" /\ dg.seqno = seqno /\ dg.attempts = n
  BY DEF Ear
<1> HIDE DEF dg
<1>2. dg \in DOMAIN EarsIn(lower) /\ EarsIn(lower)[dg] = lower[dg]
  BY <1>1, EarsShape DEF dg
<1>3. lower[dg] = 1 /\ \A e \in DOMAIN EarsIn(lower) : e.seqno = seqno => e = dg
  BY <1>1, <1>2 DEF DriveIInv, EarInv, OneEar
<1>4. \A m \in LiveMids : msgs[m].seqno = seqno => msgs[m].ear_pending
  BY <1>1, <1>2 DEF DriveIInv, EarInv, EarsTimely
<1> QED BY <1>1, <1>2, <1>3, <1>4 DEF dg

\* An EAR that was sent has its timer, which drives the resends.
LEMMA EarSentDrives ==
    ASSUME TxIInv, TxIInv', DriveIInv, NEW seqno, NEW n, EarSent(seqno, n)
    PROVE  DriveIInv' /\ EarsHeld
<1> DEFINE owners == {m \in LiveMids : msgs[m].seqno = seqno}
           dg == Ear(seqno, n)
           sent == /\ msgs' = [m \in Mid |-> IF m \in owners THEN EarGone(msgs[m]) ELSE msgs[m]]
                   /\ Release(dg) /\ UNCHANGED attr
<1>1. Abort \/ sent
  BY Zenon DEF EarSent, EarGone
<1>2. CASE sent
  <2>1. Types /\ IsABag(lower) /\ dg \in DOMAIN lower /\ lower' = lower (-) SetToBag({dg}) /\ attr' = attr
    BY <1>2 DEF TxIInv, Types, Release, BagIn, BagToSet
  <2>2. /\ dg \in DOMAIN EarsIn(lower) /\ lower[dg] = 1 /\ dg.kind = "ear" /\ dg.seqno = seqno
        /\ \A e \in DOMAIN EarsIn(lower) : e.seqno = seqno => e = dg
        /\ \A m \in LiveMids : msgs[m].seqno = seqno => msgs[m].ear_pending
    BY <2>1, EarHeld
  <2> HIDE DEF dg
  <2>3. /\ DOMAIN EarsIn(lower') = DOMAIN EarsIn(lower) \ {dg}
        /\ \A e \in DOMAIN EarsIn(lower') : EarsIn(lower')[e] = EarsIn(lower)[e]
    BY <2>1, <2>2, EarsTake
  <2>4. ASSUME NEW k \in LiveMids, msgs[k].seqno = seqno
        PROVE  /\ EarGone(msgs[k]) \in Msg /\ EarGone(msgs[k]).seqno = msgs[k].seqno
               /\ EarAwaited(EarGone(msgs[k])) /\ Driven(EarGone(msgs[k]))
               /\ ~EarGone(msgs[k]).ear_pending
    <3> DEFINE um == msgs[k]
               v == EarGone(um)
    <3>1. Fragcnt(um) \in 1 .. FragMax /\ um \in UMsg(Fragcnt(um))
      BY LiveMsg
    <3>2. um.ear_pending /\ EarAwaited(um) /\ Driven(um)
      BY <2>2, <2>4 DEF DriveIInv, DriveInv
    <3> HIDE DEF um
    <3>3. /\ v \in UMsg(Fragcnt(um)) /\ SameBooks(um, v) /\ SameIdent(um, v)
          /\ ~v.ear_pending /\ v.ear_ev
          /\ v.alive = um.alive /\ v.expecting_ack = um.expecting_ack /\ v.iterate_ev = um.iterate_ev
      BY <3>1, EarGoneShape
    <3> HIDE DEF v
    <3>4. EarAwaited(v)
      BY <3>2, <3>3 DEF EarAwaited
    <3>5. Driven(v)
      <4>1. Waiting(v) = Waiting(um) /\ v.resend = um.resend /\ v.lingering = um.lingering
        BY <3>3, SameBooksKeep DEF SameBooks
      <4> QED BY <3>2, <3>3, <4>1 DEF Driven
    <3>6. v \in Msg /\ v.seqno = um.seqno
      BY <3>1, <3>3 DEF Msg, SameIdent
    <3> QED BY <3>3, <3>4, <3>5, <3>6 DEF v, um
  <2>5. /\ \A k \in Mid : msgs'[k] = IF k \in owners THEN EarGone(msgs[k]) ELSE msgs[k]
    BY <1>2
  <2>6. LiveMids' = LiveMids
    <3>1. \A k \in Mid : Alive(k)' <=> msgs'[k] \in Msg
      <4>1. Types'
        BY DEF TxIInv
      <4> QED BY <4>1, TagsApart DEF Types, Alive
    <3>2. \A k \in Mid : Alive(k)' <=> Alive(k)
      BY <2>1, <2>4, <2>5, <3>1, AliveMsg
    <3> QED BY <3>2 DEF LiveMids
  <2>7. \A k \in LiveMids : /\ msgs'[k].seqno = msgs[k].seqno
                            /\ EarAwaited(msgs'[k]) /\ Driven(msgs'[k])
                            /\ msgs[k].seqno # seqno => msgs'[k] = msgs[k]
                            /\ msgs[k].seqno = seqno => ~msgs'[k].ear_pending
    BY <2>4, <2>5 DEF DriveIInv, DriveInv, LiveMids
  <2>8. OwnIds'
    BY <2>1, <2>6, <2>7 DEF DriveIInv, EarInv, OwnIds
  <2>9. OneEar'
    BY <2>3 DEF DriveIInv, EarInv, OneEar
  <2>10. EarsTimely'
    BY <2>2, <2>3, <2>6, <2>7 DEF DriveIInv, EarInv, EarsTimely
  <2>11. OnlyFrags'
    BY <2>1 DEF DriveIInv, EarInv, OnlyFrags
  <2>12. DriveInv'
    BY <2>6, <2>7 DEF DriveInv
  <2>13. EarsHeld
    <3> SUFFICES ASSUME NEW k \in LostEar' PROVE k \in LostEar
      BY DEF EarsHeld
    <3>1. k \in LiveMids /\ msgs'[k].ear_pending /\ ~EarBelow(msgs[k])'
      BY <2>6 DEF LostEar
    <3>2. msgs[k].seqno # seqno /\ msgs'[k] = msgs[k]
      BY <2>7, <3>1
    <3>3. ~EarBelow(msgs[k])
      BY <2>2, <2>3, <3>1, <3>2, EarBelowShape, EarBelowNext
    <3> QED BY <3>1, <3>2, <3>3 DEF LostEar
  <2> QED BY <2>8, <2>9, <2>10, <2>11, <2>12, <2>13 DEF DriveIInv, EarInv
<1>3. CASE Abort
  BY <1>3, AbortDrives DEF Abort
<1> QED BY <1>1, <1>2, <1>3

\* An EAR that was dropped is sent again, within its attempts.
LEMMA EarDroppedDrives ==
    ASSUME TxIInv, DriveIInv, NEW seqno, NEW n, EarDropped(seqno, n)
    PROVE  DriveIInv' /\ EarsLost
<1> DEFINE dg == Ear(seqno, n)
           dg1 == Ear(seqno, n + 1)
           left == lower (-) SetToBag({dg})
<1>1. /\ IsABag(lower) /\ dg \in DOMAIN lower /\ msgs' = msgs /\ attr' = attr
      /\ lower' = left (+) (IF n < AckSendMax THEN SetToBag({dg1}) ELSE EmptyBag)
  BY DEF EarDropped, BagIn, BagToSet, TxIInv, Types
<1>2. /\ dg \in DOMAIN EarsIn(lower) /\ lower[dg] = 1 /\ dg.kind = "ear" /\ dg.seqno = seqno
      /\ dg.attempts = n
      /\ \A e \in DOMAIN EarsIn(lower) : e.seqno = seqno => e = dg
      /\ \A m \in LiveMids : msgs[m].seqno = seqno => msgs[m].ear_pending
  BY <1>1, EarHeld
<1>3. dg1.kind = "ear" /\ dg1.seqno = seqno
  BY DEF Ear
<1> HIDE DEF dg, dg1
<1>4. /\ DOMAIN EarsIn(left) = DOMAIN EarsIn(lower) \ {dg}
      /\ \A e \in DOMAIN EarsIn(left) : EarsIn(left)[e] = EarsIn(lower)[e]
  BY <1>1, <1>2, EarsTake
<1>5. IsABag(left)
  BY <1>1, BagTakeRange
<1> HIDE DEF left
<1>6. /\ DOMAIN EarsIn(lower') \subseteq (DOMAIN EarsIn(lower) \ {dg}) \cup {dg1}
      /\ \A e \in DOMAIN EarsIn(lower') : e # dg1 => EarsIn(lower')[e] = EarsIn(lower)[e]
      /\ dg1 \in DOMAIN EarsIn(lower') => EarsIn(lower')[dg1] = 1
      /\ DOMAIN EarsIn(lower) \ {dg} \subseteq DOMAIN EarsIn(lower')
      /\ n < AckSendMax => dg1 \in DOMAIN EarsIn(lower')
  <2>1. dg1 \notin DOMAIN EarsIn(left)
    BY <1>2, <1>3, <1>4
  <2>2. dg1 \notin DOMAIN left
    BY <1>3, <2>1, EarsShape
  <2>3. CASE n < AckSendMax
    <3>1. lower' = left (+) SetToBag({dg1})
      BY <1>1, <2>3
    <3>2. /\ DOMAIN EarsIn(lower') = DOMAIN EarsIn(left) \cup {dg1} /\ EarsIn(lower')[dg1] = 1
          /\ \A e \in DOMAIN EarsIn(left) : EarsIn(lower')[e] = EarsIn(left)[e]
      BY <1>3, <1>5, <2>2, <3>1, EarsPut
    <3> QED BY <1>4, <3>2
  <2>4. CASE ~(n < AckSendMax)
    <3>1. lower' = left (+) EmptyBag
      BY <1>1, <2>4
    <3>2. IsABag(EmptyBag) /\ DOMAIN EmptyBag = {}
      BY SetBagRange DEF EmptyBag
    <3>3. EarsIn(lower') = EarsIn(left)
      BY <1>5, <3>1, <3>2, EarsAdd
    <3> QED BY <1>4, <2>1, <2>4, <3>3
  <2> QED BY <2>3, <2>4
<1>7. OneEar'
  BY <1>2, <1>3, <1>6 DEF DriveIInv, EarInv, OneEar
<1>8. LiveMids' = LiveMids
  BY <1>1 DEF LiveMids, Alive
<1>9. EarsTimely'
  <2>1. ASSUME NEW e \in DOMAIN EarsIn(lower'), NEW m \in LiveMids, msgs[m].seqno = e.seqno
        PROVE  msgs[m].ear_pending
    BY <1>2, <1>3, <1>6, <2>1 DEF DriveIInv, EarInv, EarsTimely
  <2> QED BY <1>1, <1>8, <2>1 DEF EarsTimely
<1>10. OwnIds' /\ OnlyFrags' /\ DriveInv'
  BY <1>1, <1>8 DEF DriveIInv, EarInv, OwnIds, OnlyFrags, DriveInv
<1>11. EarsLost
  <2> SUFFICES ASSUME NEW m \in LostEar', m \notin LostEar PROVE EarDropped(msgs[m].seqno, AckSendMax)
    BY DEF EarsLost
  <2>1. m \in LiveMids /\ msgs[m].ear_pending /\ ~EarBelow(msgs[m])'
    BY <1>1, <1>8 DEF LostEar
  <2>2. EarBelow(msgs[m])
    BY <2>1 DEF LostEar
  <2>3. PICK e \in DOMAIN EarsIn(lower) : e.seqno = msgs[m].seqno
    BY <2>2, EarBelowShape
  <2>4. \A d \in DOMAIN EarsIn(lower') : d.seqno # msgs[m].seqno
    BY <1>1, <2>1, EarBelowNext
  <2>5. e = dg
    BY <1>6, <2>3, <2>4
  <2>6. ~(n < AckSendMax)
    BY <1>2, <1>3, <1>6, <2>3, <2>4, <2>5
  <2>7. n \in 0 .. AckSendMax
    <3>1. dg \in Dgram
      BY <1>1 DEF TxIInv, Types
    <3> QED BY <1>2, <3>1 DEF Dgram, FragDgram, EarDgram
  <2>8. n = AckSendMax
    BY <2>6, <2>7, LimitsAssumption
  <2> QED BY <1>2, <2>3, <2>5, <2>8
<1> QED BY <1>7, <1>9, <1>10, <1>11 DEF DriveIInv, EarInv

\* Datagrams that move to the lower layer are still held.
LEMMA ServiceDrives ==
    ASSUME TxIInv, DriveIInv, NEW k \in 1 .. Len(attr.pending), Service(k)
    PROVE  DriveIInv' /\ EarsHeld
<1> DEFINE q == attr.pending
           rest == SubSeq(q, k + 1, Len(q))
           sent == SubSeq(q, 1, k)
           a == [attr EXCEPT !.pending = rest, !.lower_flowc = k < Len(q)]
<1>1. attr \in Attr /\ q \in Seq(Dgram) /\ IsABag(lower)
  BY AttrFields DEF TxIInv, Types
<1>2. /\ lower' = lower (+) BagOf(sent) /\ msgs' = msgs
      /\ attr' = IF k = Len(q) THEN [a EXCEPT !.upper_flowc = FALSE] ELSE a
  BY DEF Service, tx_ut_upper_service
<1>3. k \in 0 .. Len(q)
  BY <1>1
<1>4. sent \in Seq(Dgram) /\ Range(sent) \cup Range(rest) = Range(q)
  BY <1>1, <1>3, PrefixRange
<1>5. attr'.pending = rest /\ attr'.seq = attr.seq
  <2> HIDE DEF rest
  <2> QED BY <1>1, <1>2 DEF Attr
<1> HIDE DEF q, rest, sent
<1>6. IsABag(BagOf(sent)) /\ DOMAIN BagOf(sent) = Range(sent)
  BY <1>4, SeqBagRange
<1>7. \A x \in Range(q) : x.kind = "frag"
  BY DEF DriveIInv, EarInv, OnlyFrags, q
<1>8. EarsIn(lower') = EarsIn(lower)
  BY <1>1, <1>2, <1>4, <1>6, <1>7, EarsAdd
<1>9. OnlyFrags'
  BY <1>4, <1>5, <1>7 DEF OnlyFrags
<1> QED BY <1>2, <1>5, <1>8, <1>9, DriveSame DEF EarsKept

\* Aging hosts does not touch messages.
LEMMA AgedDrives ==
    ASSUME TxIInv, DriveIInv, NEW h \in Host, Aged(h)
    PROVE  DriveIInv' /\ EarsHeld
<1>1. msgs' = msgs /\ lower' = lower
  BY DEF Aged
<1>2. PICK ban \in {attr.ban, attr.ban \ {h}}, good \in {attr.good, attr.good \ {h}} :
        attr' = [attr EXCEPT !.ban = ban, !.good = good]
  BY DEF Aged
<1>3. attr'.seq = attr.seq /\ attr'.pending = attr.pending
  BY <1>2 DEF TxIInv, Types, Attr
<1> QED BY <1>1, <1>3, DriveSame DEF EarsKept, OnlyFrags

\* An EAR is given to the lower layer.
LEMMA EarWantedDrives ==
    ASSUME TxIInv, TxIInv', DriveIInv, NEW m \in LiveMids, NEW v \in Msg, Leave(m, v),
           v.seqno = msgs[m].seqno, ~msgs[m].ear_pending, v.ear_pending, EarAwaited(v), Driven(v),
           lower' = lower (+) SetToBag({Ear(msgs[m].seqno, 0)})
    PROVE  DriveIInv' /\ EarsHeld
<1> DEFINE seqno == msgs[m].seqno
           dg == Ear(seqno, 0)
<1>1. msgs' = [msgs EXCEPT ![m] = v] /\ attr' = attr /\ Types /\ IsABag(lower) /\ LayerTypes'
  BY DEF Leave, TxIInv, Types, LayerTypes
<1>2. LiveMids' = LiveMids /\ \A k \in Mid : msgs'[k] = IF k = m THEN v ELSE msgs[k]
  BY <1>1, MsgReplaced
<1>3. \A k \in LiveMids : /\ msgs'[k].seqno = msgs[k].seqno
                          /\ msgs[k].ear_pending => msgs'[k].ear_pending
                          /\ EarAwaited(msgs'[k]) /\ Driven(msgs'[k])
  BY <1>2 DEF LiveMids, DriveIInv, DriveInv
<1>4. dg.kind = "ear" /\ dg.seqno = seqno
  BY DEF Ear
<1>5. lower' = lower (+) SetToBag({dg})
  OBVIOUS
<1>6. \A e \in DOMAIN EarsIn(lower) : e.seqno # seqno
  BY DEF DriveIInv, EarInv, EarsTimely
<1> HIDE DEF dg
<1>7. dg \notin DOMAIN lower
  BY <1>4, <1>6, EarsShape
<1>8. /\ DOMAIN EarsIn(lower') = DOMAIN EarsIn(lower) \cup {dg} /\ EarsIn(lower')[dg] = 1
      /\ \A e \in DOMAIN EarsIn(lower) : EarsIn(lower')[e] = EarsIn(lower)[e]
  <2> DEFINE d == lower (+) SetToBag({dg})
  <2>1. /\ DOMAIN EarsIn(d) = DOMAIN EarsIn(lower) \cup {dg} /\ EarsIn(d)[dg] = 1
        /\ \A e \in DOMAIN EarsIn(lower) : EarsIn(d)[e] = EarsIn(lower)[e]
    BY <1>1, <1>4, <1>7, EarsPut
  <2>2. lower' = d
    BY <1>5
  <2> HIDE DEF d
  <2> QED BY <2>1, <2>2
<1>9. OneEar'
  <2> DEFINE E == EarsIn(lower)
             F == EarsIn(lower')
  <2>1. \A d \in DOMAIN E : E[d] = 1 /\ \A e \in DOMAIN E : e.seqno = d.seqno => e = d
    BY DEF DriveIInv, EarInv, OneEar
  <2>2. /\ DOMAIN F = DOMAIN E \cup {dg} /\ F[dg] = 1 /\ \A e \in DOMAIN E : F[e] = E[e]
        /\ \A e \in DOMAIN E : e.seqno # dg.seqno
    BY <1>4, <1>6, <1>8
  <2> HIDE DEF E, F
  <2>3. \A d \in DOMAIN F : F[d] = 1 /\ \A e \in DOMAIN F : e.seqno = d.seqno => e = d
    BY <2>1, <2>2
  <2> QED BY <2>3 DEF OneEar, F
<1>10. EarsTimely'
  <2> SUFFICES ASSUME NEW e \in DOMAIN EarsIn(lower'), NEW k \in LiveMids, msgs'[k].seqno = e.seqno
               PROVE  msgs'[k].ear_pending
    BY <1>2 DEF EarsTimely
  <2>1. msgs[k].seqno = e.seqno
    BY <1>3
  <2>2. CASE e = dg
    <3>1. k = m
      BY <1>4, <2>1, <2>2 DEF DriveIInv, EarInv, OwnIds
    <3> QED BY <1>2, <3>1 DEF LiveMids
  <2>3. CASE e # dg
    <3>1. e \in DOMAIN EarsIn(lower)
      BY <1>8, <2>3
    <3> QED BY <1>3, <2>1, <3>1 DEF DriveIInv, EarInv, EarsTimely
  <2> QED BY <2>2, <2>3
<1>11. OwnIds'
  BY <1>1, <1>2, <1>3 DEF DriveIInv, EarInv, OwnIds
<1>12. OnlyFrags' /\ DriveInv'
  BY <1>1, <1>2, <1>3 DEF DriveIInv, EarInv, OnlyFrags, DriveInv
<1>13. EarsHeld
  <2> SUFFICES ASSUME NEW k \in LostEar' PROVE k \in LostEar
    BY DEF EarsHeld
  <2>1. k \in LiveMids /\ msgs'[k].ear_pending /\ ~EarBelow(msgs[k])'
    BY <1>2 DEF LostEar
  <2>2. \A d \in DOMAIN EarsIn(lower') : d.seqno # msgs[k].seqno
    BY <1>3, <2>1, EarBelowNext
  <2>3. k # m
    BY <1>4, <1>8, <2>2
  <2>4. msgs'[k] = msgs[k]
    BY <1>2, <2>1, <2>3 DEF LiveMids
  <2>5. ~EarBelow(msgs[k])
    BY <1>8, <2>2, EarBelowShape
  <2> QED BY <2>1, <2>4, <2>5 DEF LostEar
<1> QED BY <1>9, <1>10, <1>11, <1>12, <1>13 DEF DriveIInv, EarInv

\* An iteration leaves fragments or an EAR under way.
LEMMA ResendIterateDrives ==
    ASSUME TxIInv, TxIInv', DriveIInv, NEW m \in Mid, ResendIterate(m)
    PROVE  DriveIInv' /\ EarsHeld
<1> DEFINE n == Fragcnt(msgs[m])
           um == msgs[m]
           u == Iterating(um)
           w == EarWanted(u)
           v == ResendBatch(u)
           out == FragSeq(m, Batch(u))
           A1 == /\ ~u.alive /\ ~u.ear_pending
                 /\ Leave(m, w) /\ lower' = lower (+) SetToBag({Ear(u.seqno, 0)})
           A2 == /\ ~u.alive /\ (u.ear_pending \/ u.ear_ev) /\ Leave(m, u) /\ UNCHANGED lower
           A4 == /\ msgs' = [msgs EXCEPT ![m] = v] /\ ut_frag_send(out, attr)
<1>0. m \in LiveMids
  BY DEF ResendIterate, LiveMids
<1>1. /\ n \in 1 .. FragMax /\ um \in UMsg(n) /\ Books(um) /\ LayerTypes /\ m \in Mid
  BY <1>0, LiveMsg
<1>2. A1 \/ A2 \/ Abort \/ A4
  BY Zenon DEF ResendIterate, Iterating, EarWanted
<1> HIDE DEF n
<1>3. /\ u \in UMsg(n) /\ Books(u) /\ SameIdent(um, u) /\ SameBooks(um, u) /\ SameSignals(um, u)
      /\ w \in UMsg(n) /\ SameIdent(um, w) /\ w.expecting_ack /\ w.ear_pending /\ w.alive = um.alive
  BY <1>1, IteratingShape
<1>4. EarAwaited(um) /\ Driven(um)
  BY <1>0 DEF DriveIInv, DriveInv
<1> HIDE DEF u, w, v
<1>5. /\ u.seqno = msgs[m].seqno /\ w.seqno = msgs[m].seqno /\ u \in Msg /\ w \in Msg
      /\ u.ear_pending = msgs[m].ear_pending /\ EarAwaited(u)
  BY <1>1, <1>3, <1>4 DEF SameIdent, SameSignals, Msg, EarAwaited
<1>6. CASE A1
  <2>1. EarAwaited(w) /\ Driven(w)
    <3>1. ~w.alive
      BY <1>3, <1>6 DEF SameSignals
    <3> QED BY <1>3, <3>1 DEF EarAwaited, Driven
  <2>2. lower' = lower (+) SetToBag({Ear(msgs[m].seqno, 0)}) /\ ~msgs[m].ear_pending /\ Leave(m, w)
    BY <1>5, <1>6
  <2> QED BY <1>0, <1>3, <1>5, <2>1, <2>2, EarWantedDrives
<1>7. CASE A2
  <2>1. Driven(u)
    BY <1>5, <1>7 DEF EarAwaited, Driven
  <2> QED BY <1>0, <1>5, <1>7, <2>1, DriveLeft
<1>8. CASE A4
  <2>1. /\ v \in UMsg(n) /\ SameIdent(u, v) /\ SameSignals(u, v)
        /\ Batch(u) \in Seq(0 .. n - 1)
        /\ v.resend # <<>> /\ ~v.lingering => Waiting(v) # {}
    BY <1>1, <1>3, ResendBatchShape DEF v
  <2>2. out \in Seq(Dgram) /\ \A dg \in Range(out) : dg.kind = "frag"
    BY <1>1, <2>1, FragSeqShape
  <2>3. msgs' = [msgs EXCEPT ![m] = v] /\ ut_frag_send(out, attr)
    BY <1>8
  <2> HIDE DEF out
  <2>4. attr \in Attr /\ IsABag(lower) /\ DOMAIN lower \subseteq Dgram
    BY <1>1 DEF LayerTypes
  <2>5. EarsKept
    BY <2>2, <2>3, <2>4, FragSendEars
  <2>6. attr'.seq = attr.seq
    BY <2>2, <2>3, <2>4, FragSendShape
  <2>7. LayerTypes' /\ v \in Msg /\ v.seqno = msgs[m].seqno /\ v.ear_pending = msgs[m].ear_pending
    BY <1>1, <1>5, <2>1 DEF TxIInv, Types, LayerTypes, Msg, SameIdent, SameSignals
  <2>8. EarAwaited(v) /\ Driven(v)
    BY <1>5, <2>1 DEF EarAwaited, Driven, SameSignals
  <2> QED BY <1>0, <2>3, <2>5, <2>6, <2>7, <2>8, DriveUpdated
<1>9. CASE Abort
  BY <1>9, AbortDrives DEF Abort
<1> QED BY <1>2, <1>6, <1>7, <1>8, <1>9

\* The EAR timer is followed by an iteration, or the message ends.
LEMMA EarResendDrives ==
    ASSUME TxIInv, TxIInv', DriveIInv, NEW m \in Mid, EarResend(m)
    PROVE  DriveIInv' /\ EarsHeld
<1> DEFINE n == Fragcnt(msgs[m])
           um == msgs[m]
           u == EarFired(um)
           v == ut_resend_async(u)
<1>0. m \in LiveMids
  BY DEF EarResend, LiveMids
<1>1. /\ n \in 1 .. FragMax /\ um \in UMsg(n) /\ Books(um) /\ LayerTypes /\ um.to \in Host
  BY <1>0, LiveMsg
<1>2. /\ UNCHANGED lower
      /\ \/ ut_msg_free(m, FALSE, attr) \/ ut_msg_free(m, FALSE, ut_to_ban(attr, u.to))
         \/ u.lingering /\ Leave(m, u)
         \/ Leave(m, v)
  BY Zenon DEF EarResend, EarFired
<1> HIDE DEF n
<1>3. /\ u \in UMsg(n) /\ SameIdent(um, u) /\ SameBooks(um, u)
      /\ v \in UMsg(n) /\ SameIdent(um, v) /\ SameBooks(um, v)
      /\ u.alive = um.alive /\ u.expecting_ack = um.expecting_ack /\ u.ear_pending = um.ear_pending
      /\ ~u.ear_ev /\ SameSignals(u, v) /\ (v.resend # <<>> => v.iterate_ev)
  BY <1>1, EarFiredShape
<1>4. EarAwaited(um)
  BY <1>0 DEF DriveIInv, DriveInv
<1> HIDE DEF u, v, um
<1>5. /\ u.seqno = msgs[m].seqno /\ v.seqno = msgs[m].seqno /\ u.to \in Host /\ u \in Msg /\ v \in Msg
      /\ u.ear_pending = msgs[m].ear_pending /\ v.ear_pending = msgs[m].ear_pending
      /\ EarAwaited(u) /\ EarAwaited(v) /\ Driven(v)
  <2>1. u \in Msg /\ v \in Msg
    BY <1>1, <1>3 DEF Msg
  <2>2. /\ u.seqno = msgs[m].seqno /\ v.seqno = msgs[m].seqno /\ u.to \in Host
        /\ u.ear_pending = msgs[m].ear_pending /\ v.ear_pending = msgs[m].ear_pending
    BY <1>1, <1>3 DEF SameIdent, SameSignals, um
  <2>3. EarAwaited(u) /\ EarAwaited(v) /\ Driven(v)
    BY <1>3, <1>4 DEF EarAwaited, SameSignals, Driven
  <2> QED BY <2>1, <2>2, <2>3
<1>6. /\ attr \in Attr /\ SameButHosts(attr, attr)
      /\ ut_to_ban(attr, u.to) \in Attr /\ SameButHosts(attr, ut_to_ban(attr, u.to))
  BY <1>1, <1>5, HostsShape DEF LayerTypes, SameButHosts
<1>7. CASE ut_msg_free(m, FALSE, attr)
  BY <1>0, <1>2, <1>6, <1>7, DriveEnded
<1>8. CASE ut_msg_free(m, FALSE, ut_to_ban(attr, u.to))
  BY <1>0, <1>2, <1>6, <1>8, DriveEnded
<1>9. CASE u.lingering /\ Leave(m, u)
  <2>1. Driven(u)
    BY <1>9 DEF Driven
  <2> QED BY <1>0, <1>2, <1>5, <1>9, <2>1, DriveLeft
<1>10. CASE Leave(m, v)
  BY <1>0, <1>2, <1>5, <1>10, DriveLeft
<1> QED BY <1>2, <1>7, <1>8, <1>9, <1>10

\* A fragment that joins the resend list starts an iteration, unless one will come.
LEMMA FragResendDrives ==
    ASSUME TxIInv, TxIInv', DriveIInv, NEW m \in LiveMids, NEW f, FragResend(m, f)
    PROVE  DriveIInv' /\ EarsHeld
<1> DEFINE n == Fragcnt(msgs[m])
           um == msgs[m]
           u == AckTimeout(um, f)
           v == ut_resend_async(u)
           w == EnqueueResend(u, f)
<1>1. /\ n \in 1 .. FragMax /\ um \in UMsg(n) /\ Books(um) /\ LayerTypes
  BY LiveMsg
<1>2. f \in LiveFrags(um)
  BY DEF FragResend
<1>3. \/ u.lingering /\ Leave(m, v) /\ UNCHANGED lower
      \/ ut_msg_free(m, FALSE, attr) /\ UNCHANGED lower
      \/ Abort
      \/ ~u.lingering /\ ~um.fragments[f].resend /\ Leave(m, w) /\ UNCHANGED lower
  BY Zenon DEF FragResend
<1>0. EarAwaited(um)
  BY DEF DriveIInv, DriveInv
<1> HIDE DEF n
<1>4. u.lingering = um.lingering
  BY <1>1, <1>2, AckTimeoutShape
<1>5. /\ v \in UMsg(n) /\ SameIdent(um, v) /\ SameSignals(um, v) /\ v.lingering = um.lingering
  BY <1>1, <1>2, LingerTimeoutShape
<1>6. CASE u.lingering /\ Leave(m, v) /\ UNCHANGED lower
  <2> HIDE DEF v
  <2>1. v \in Msg /\ v.seqno = msgs[m].seqno /\ v.ear_pending = msgs[m].ear_pending
    BY <1>1, <1>5 DEF SameIdent, SameSignals, Msg
  <2>2. EarAwaited(v) /\ Driven(v)
    BY <1>0, <1>4, <1>5, <1>6 DEF EarAwaited, Driven, SameSignals
  <2> QED BY <1>6, <2>1, <2>2, DriveLeft
<1>7. CASE ut_msg_free(m, FALSE, attr) /\ UNCHANGED lower
  <2>1. attr \in Attr /\ SameButHosts(attr, attr)
    BY <1>1 DEF LayerTypes, SameButHosts
  <2> QED BY <1>7, <2>1, DriveEnded
<1>8. CASE ~u.lingering /\ ~um.fragments[f].resend /\ Leave(m, w) /\ UNCHANGED lower
  <2>0. ~um.lingering /\ ~um.fragments[f].resend
    BY <1>4, <1>8
  <2>1. w \in UMsg(n) /\ SameIdent(um, w) /\ SameSignals(um, w) /\ w.iterate_ev
    BY <1>1, <1>2, <2>0, EnqueueShape
  <2> HIDE DEF w, u, v
  <2>2. w \in Msg /\ w.seqno = msgs[m].seqno /\ w.ear_pending = msgs[m].ear_pending
    BY <1>1, <2>1 DEF SameIdent, SameSignals, Msg
  <2>3. EarAwaited(w) /\ Driven(w)
    BY <1>0, <2>1 DEF EarAwaited, Driven, SameSignals
  <2> QED BY <1>8, <2>2, <2>3, DriveLeft
<1>9. CASE Abort
  BY <1>9, AbortDrives DEF Abort
<1> QED BY <1>3, <1>6, <1>7, <1>8, <1>9

\* A message begins, with an ID that no EAR still names.
LEMMA DriveBegun ==
    ASSUME TxIInv, TxIInv', DriveIInv, NEW m \in Mid, msgs[m] = Unborn, NEW v \in Msg,
           msgs' = [msgs EXCEPT ![m] = v], v.resend = <<>>, ~v.ear_pending, ~v.ear_ev,
           v.seqno \notin attr.seq.ids, attr'.seq.ids = attr.seq.ids \cup {v.seqno}, EarsKept,
           \A dg \in DOMAIN EarsIn(lower) : dg.seqno # v.seqno
    PROVE  DriveIInv' /\ EarsHeld
<1>1. Types /\ Types'
  BY DEF TxIInv
<1>2. \A k \in Mid : msgs'[k] = IF k = m THEN v ELSE msgs[k]
  BY <1>1 DEF Types
<1>3. \A k \in Mid : Alive(k)' <=> msgs'[k] \in Msg
  BY <1>1, TagsApart DEF Types, Alive
<1>4. LiveMids' = LiveMids \cup {m} /\ m \notin LiveMids
  <2>1. \A k \in Mid : Alive(k)' <=> Alive(k) \/ k = m
    BY <1>1, <1>2, <1>3, AliveMsg
  <2> QED BY <2>1 DEF LiveMids, Alive
<1>5. msgs'[m] = v /\ \A k \in LiveMids : msgs'[k] = msgs[k]
  BY <1>2, <1>4 DEF LiveMids
<1>6. OwnIds'
  BY <1>4, <1>5 DEF DriveIInv, EarInv, OwnIds
<1>7. EarsTimely'
  <2> SUFFICES ASSUME NEW e \in DOMAIN EarsIn(lower), NEW k \in LiveMids \cup {m}, msgs'[k].seqno = e.seqno
               PROVE  msgs'[k].ear_pending
    BY <1>4 DEF EarsTimely, EarsKept
  <2>1. k \in LiveMids
    BY <1>5
  <2> QED BY <1>5, <2>1 DEF DriveIInv, EarInv, EarsTimely
<1>8. OneEar' /\ OnlyFrags'
  BY DEF DriveIInv, EarInv, EarsKept, OneEar
<1>9. EarAwaited(v) /\ Driven(v)
  BY DEF EarAwaited, Driven
<1>10. DriveInv'
  BY <1>4, <1>5, <1>9 DEF DriveIInv, DriveInv
<1>11. EarsHeld
  BY <1>4, <1>5, EarsStay DEF EarsKept
<1> QED BY <1>6, <1>7, <1>8, <1>10, <1>11 DEF DriveIInv, EarInv

\* No ID that a step takes is that of an EAR that the lower layer still has.
FreshStep == \A dg \in DOMAIN EarsIn(lower) : dg.seqno \notin attr'.seq.ids \ attr.seq.ids

\* A new message has no resend yet, and no EAR names its ID.
LEMMA SendToDrives ==
    ASSUME TxIInv, TxIInv', DriveIInv, NEW req \in Requests, SendTo(req), FreshStep
    PROVE  DriveIInv' /\ EarsHeld
<1> DEFINE r == idtable_try_new_id(attr.seq)
           S == {k \in Mid : msgs[k] = Unborn}
           m == Min(S)
           um == ut_msg_create(req, r.id)
           a == [attr EXCEPT !.seq = r.tbl]
           n == req.fragcnt
           out1 == [i \in 1 .. n |-> Frag(m, i - 1)]
           out2 == <<Frag(m, n - 1)>>
           v1 == ut_send_remaining(um)
           v2 == [um EXCEPT !.cautious = TRUE]
<1>1. /\ r.ok /\ n # Oversize /\ S # {}
      /\ \/ msgs' = [msgs EXCEPT ![m] = v1] /\ ut_frag_send(out1, a)
         \/ msgs' = [msgs EXCEPT ![m] = v2] /\ ut_frag_send(out2, a)
  BY DEF SendTo
<1>2. attr \in Attr /\ IsABag(lower) /\ DOMAIN lower \subseteq Dgram
  BY DEF TxIInv, Types
<1>3. attr.seq \in IdTables
  BY <1>2, AttrFields
<1>4. r.tbl \in IdTables /\ r.id \in Id \ attr.seq.ids /\ r.tbl.ids = attr.seq.ids \cup {r.id}
  BY <1>1, <1>3, TryNewIdProperty
<1>5. m \in Mid /\ msgs[m] = Unborn
  <2>1. S \subseteq Nat
    BY DEF Mid
  <2>2. m \in S
    <3> HIDE DEF S
    <3> QED BY <1>1, <2>1, MinProperty
  <2> QED BY <2>2
<1> HIDE DEF r, m
<1>6. /\ n \in 1 .. FragMax /\ n \in Nat /\ n > 0
      /\ um \in UMsg(n) /\ Books(um) /\ um.seqno = r.id /\ um.resend = <<>>
      /\ ~um.ear_pending /\ ~um.ear_ev
      /\ v2 \in UMsg(n) /\ SameBooks(um, v2) /\ SameIdent(um, v2) /\ SameSignals(um, v2)
  BY <1>1, <1>4, CreateShape
<1> HIDE DEF n, um
<1>7. /\ v1 \in UMsg(n) /\ SameIdent(um, v1) /\ SameSignals(um, v1) /\ v1.resend = <<>>
  BY <1>6, RemainingShape
<1>8. \A f \in 0 .. n - 1 : Frag(m, f) \in Dgram /\ Frag(m, f).kind = "frag"
  <2>1. n \in 1 .. FragMax /\ m \in Mid
    BY <1>5, <1>6
  <2>2. \A f \in 0 .. n - 1 : f \in Part
    BY <2>1 DEF Part, FragMax
  <2> QED BY <2>1, <2>2 DEF Frag, Dgram, FragDgram
<1>9. /\ out1 \in Seq(Dgram) /\ \A dg \in Range(out1) : dg.kind = "frag"
  <2>1. \A i \in 1 .. n : i - 1 \in 0 .. n - 1
    BY <1>6
  <2>2. out1 \in Seq(Dgram)
    BY <1>6, <1>8, <2>1
  <2>3. Range(out1) = {Frag(m, i - 1) : i \in 1 .. n}
    BY DEF Range
  <2> QED BY <1>8, <2>1, <2>2, <2>3
<1>10. /\ out2 \in Seq(Dgram) /\ \A dg \in Range(out2) : dg.kind = "frag"
  <2>1. n - 1 \in 0 .. n - 1
    BY <1>6
  <2>2. out2 \in Seq(Dgram)
    BY <1>8, <2>1
  <2>3. Range(out2) = {Frag(m, n - 1)}
    BY DEF Range
  <2> QED BY <1>8, <2>1, <2>2, <2>3
<1>11. a \in Attr /\ a.seq = r.tbl /\ a.pending = attr.pending
  BY <1>2, <1>4 DEF Attr
<1> HIDE DEF a, out1, out2, v1, v2
<1>12. ASSUME NEW out \in Seq(Dgram), NEW v \in UMsg(n), SameIdent(um, v), SameSignals(um, v),
              v.resend = <<>>, msgs' = [msgs EXCEPT ![m] = v], ut_frag_send(out, a),
              \A dg \in Range(out) : dg.kind = "frag"
       PROVE  DriveIInv' /\ EarsHeld
  <2>1. EarsKept
    BY <1>2, <1>11, <1>12, FragSendEars
  <2>2. attr'.seq = a.seq
    BY <1>2, <1>11, <1>12, FragSendShape
  <2>3. v \in Msg /\ v.seqno = r.id /\ ~v.ear_pending /\ ~v.ear_ev
    BY <1>6, <1>12 DEF Msg, SameIdent, SameSignals
  <2>4. v.seqno \notin attr.seq.ids /\ attr'.seq.ids = attr.seq.ids \cup {v.seqno}
    BY <1>4, <1>11, <2>2, <2>3
  <2>5. \A dg \in DOMAIN EarsIn(lower) : dg.seqno # v.seqno
    BY <2>4 DEF FreshStep
  <2> QED BY <1>5, <1>12, <2>1, <2>3, <2>4, <2>5, DriveBegun
<1>13. CASE msgs' = [msgs EXCEPT ![m] = v1] /\ ut_frag_send(out1, a)
  BY <1>7, <1>9, <1>12, <1>13
<1>14. CASE msgs' = [msgs EXCEPT ![m] = v2] /\ ut_frag_send(out2, a)
  <2>1. v2.resend = <<>>
    BY <1>6 DEF SameBooks
  <2> QED BY <1>6, <1>10, <1>12, <1>14, <2>1
<1> QED BY <1>1, <1>13, <1>14

\* A message that is refused: at most an ID is taken, and lost.
LEMMA RefusedDrives ==
    ASSUME TxIInv, DriveIInv, NEW req,
           SendToFlowControlled(req) \/ SendToOutOfSeqno(req) \/ SendToTooLarge(req)
    PROVE  DriveIInv' /\ EarsHeld
<1> DEFINE r == idtable_try_new_id(attr.seq)
<1>1. attr \in Attr /\ attr.seq \in IdTables
  BY AttrFields DEF TxIInv, Types
<1>2. attr.seq.ids \subseteq r.tbl.ids
  BY <1>1, TryNewIdProperty
<1>3. /\ msgs' = msgs /\ lower' = lower
      /\ \/ attr' = [attr EXCEPT !.upper_flowc = TRUE]
         \/ attr' = [attr EXCEPT !.seq = r.tbl, !.out_of_seqno = TRUE, !.upper_flowc = TRUE]
         \/ attr' = [attr EXCEPT !.seq = r.tbl]
  BY DEF SendToFlowControlled, SendToOutOfSeqno, SendToTooLarge
<1> HIDE DEF r
<1>4. attr'.pending = attr.pending /\ (attr'.seq = attr.seq \/ attr'.seq = r.tbl)
  BY <1>1, <1>3 DEF Attr
<1>5. EarsKept /\ attr.seq.ids \subseteq attr'.seq.ids
  BY <1>2, <1>3, <1>4 DEF EarsKept, OnlyFrags
<1> QED BY <1>3, <1>5, DriveSame

\* Initially there is no message to drive.
LEMMA DriveInit ==
    ASSUME Init
    PROVE  DriveIInv
<1>1. LiveMids = {}
  BY DEF Init, LiveMids, Alive
<1>2. DOMAIN lower = {}
  BY SetBagRange DEF Init, EmptyBag
<1>3. DOMAIN EarsIn(lower) = {}
  BY <1>2, EarsShape
<1>4. Range(attr.pending) = {}
  BY DEF Init, Range
<1> QED BY <1>1, <1>3, <1>4
        DEF DriveIInv, EarInv, DriveInv, OwnIds, OneEar, OnlyFrags, EarsTimely

\* Every step keeps the resends driven, and loses no EAR but by its last drop.
LEMMA DriveStep ==
    ASSUME ~RoguePeers, TxIInv, DriveIInv, [Next]_vars, [FreshStep]_vars
    PROVE  DriveIInv' /\ EarsLost
<1> USE DEF EarsHeld, EarsLost
<1>0. TxIInv'
  BY TxStepOK
<1>1. CASE UNCHANGED vars
  BY <1>1, AbortDrives DEF vars
<1>2. CASE Upper /\ ~UNCHANGED vars
  <2>1. PICK req \in Requests : \/ SendToFlowControlled(req) \/ SendToOutOfSeqno(req)
                                \/ SendToTooLarge(req) \/ SendTo(req)
    BY <1>2 DEF Upper
  <2>2. FreshStep
    BY <1>2
  <2> QED BY <1>0, <2>1, <2>2, RefusedDrives, SendToDrives
<1>3. CASE Remote
  <2>1. PICK m \in LiveMids, ack \in AckInputs : /\ Plausible(msgs[m], ack)
                                                 /\ GotAck(m, ack) \/ GotEarNack(m, ack)
    BY <1>3 DEF Remote
  <2>2. ack \in Acks
    BY <2>1, AckInputsAssumption
  <2> QED BY <1>0, <2>1, <2>2, GotAckDrives, GotEarNackDrives
<1>4. CASE Released
  <2>1. PICK dg \in BagToSet(lower) : \/ dg.kind = "frag" /\ FragReleased(dg.mid, dg.fragno)
                                      \/ dg.kind = "ear" /\ EarReleased(dg.seqno, dg.attempts)
    BY <1>4 DEF Released
  <2>2. dg \in Dgram
    BY <2>1 DEF TxIInv, Types, BagToSet
  <2>3. CASE dg.kind = "frag" /\ FragReleased(dg.mid, dg.fragno)
    <3>1. dg.mid \in Mid
      BY <2>2, <2>3 DEF Dgram, FragDgram, EarDgram
    <3> QED BY <1>0, <2>3, <3>1, FragSentDrives, FragDroppedDrives, FragCancelledDrives DEF FragReleased
  <2>4. CASE dg.kind = "ear" /\ EarReleased(dg.seqno, dg.attempts)
    BY <1>0, <2>4, EarSentDrives, EarDroppedDrives DEF EarReleased
  <2> QED BY <2>1, <2>3, <2>4
<1>5. CASE \E k \in 1 .. Len(attr.pending) : Service(k)
  BY <1>5, ServiceDrives
<1>6. CASE \E m \in Mid : Timeout(m)
  <2>1. PICK m \in Mid : Timeout(m)
    BY <1>6
  <2>2. CASE ResendIterate(m) \/ EarResend(m) \/ Expired(m) \/ Lingered(m)
    BY <1>0, <2>2, ResendIterateDrives, EarResendDrives, ExpiredDrives, LingeredDrives
  <2>3. CASE Alive(m) /\ \E f \in DOMAIN msgs[m].fragments : FragResend(m, f)
    <3>1. m \in LiveMids
      BY <2>3 DEF LiveMids
    <3> QED BY <1>0, <2>3, <3>1, FragResendDrives
  <2> QED BY <2>1, <2>2, <2>3 DEF Timeout
<1>7. CASE \E h \in Host : Aged(h)
  BY <1>7, AgedDrives
<1> QED BY <1>1, <1>2, <1>3, <1>4, <1>5, <1>6, <1>7 DEF Next

\* The IDs of a behaviour rotate slowly enough for the lower layer to be rid of
\* the EAR of a message before its ID is given to another.
FreshIds == [][FreshStep]_vars

\* When peers acknowledge only what was sent to them, and no ID is used again
\* while an EAR still names it, the resend list of a message that has not expired
\* sleeps only for want of an EAR that the lower layer dropped for good: else
\* ut_resend_iterate() will be called, or an EAR that is in the lower layer or was
\* sent, or the fate of a fragment that was resent, will have it called; and
\* ut_ack_pmsg_free() gives an EAR up by the last of its attempts only.
THEOREM TxResendDriven ==
    ASSUME ~RoguePeers
    PROVE  Spec /\ FreshIds => ResendDriven
<1> DEFINE P == \A m \in LiveMids \ LostEar :
                    LET um == msgs[m]
                    IN  um.resend # <<>> /\ ~um.lingering =>
                            \/ um.iterate_ev \/ um.ear_ev \/ EarBelow(um)
                            \/ \E f \in LiveFrags(um) : um.fragments[f].pending
<1>1. Init => TxIInv /\ DriveIInv
  BY TxInitOK, DriveInit
<1>2. TxIInv /\ DriveIInv /\ [Next]_vars /\ [FreshStep]_vars => DriveIInv' /\ [EarsLost]_vars
  BY DriveStep
<1>3. DriveIInv => P
  BY DEF DriveIInv, DriveInv, Driven, LostEar, Waiting
<1>4. ([]P /\ [][EarsLost]_vars) => ResendDriven
  BY Zenon DEF ResendDriven, EarsLost
<1> HIDE DEF P
<1> QED BY <1>1, <1>2, <1>3, <1>4, TxInvariance, PTL DEF Spec, FreshIds
=============================================================================
