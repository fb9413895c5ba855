------------------------------ MODULE IdAlloc ------------------------------
(***************************************************************************)
(* The life of one ID table: IDs are allocated and freed in any order.     *)
(***************************************************************************)
EXTENDS IdTable, FiniteSets

VARIABLES
    tbl,    \* the table
    full,   \* did the last allocation report a full table?
    idle    \* idle[x]: the IDs never in use since x was last issued

idvars == <<tbl, full, idle>>

IdInit ==
    /\ \E last \in Id : tbl = idtable_new(last)
    /\ full = FALSE
    /\ idle = [x \in Id |-> {}]

\* idtable_try_new_id(), successful or not
TryNewId ==
    LET r == idtable_try_new_id(tbl)
    IN  /\ tbl' = r.tbl
        /\ full' = ~r.ok
        /\ idle' = IF r.ok
                     THEN [x \in Id |-> IF x = r.id THEN Id \ r.tbl.ids
                                        ELSE idle[x] \ {r.id}]
                     ELSE idle

\* idtable_free_id() of an ID in use, as it asserts
FreeId(id) ==
    /\ id \in tbl.ids
    /\ tbl' = idtable_free_id(tbl, id)
    /\ full' = FALSE
    /\ UNCHANGED idle

IdNext == TryNewId \/ \E id \in Id : FreeId(id)

IdSpec == IdInit /\ [][IdNext]_idvars

----------------------------------------------------------------------------
(* Properties.                                                             *)

\* The table and the history have their types.
IdTypeOK ==
    /\ tbl \in IdTables
    /\ full \in BOOLEAN
    /\ idle \in [Id -> SUBSET Id]

\* Temporal uniqueness, the reason the comment in idtable_try_new_id() gives
\* for rotating through the ID space: an ID that was issued before is not
\* issued again while some other ID has been free ever since.
TemporallyUnique ==
    [][\A x \in Id : x \in tbl'.ids \ tbl.ids => idle[x] \subseteq {x}]_idvars

\* However IDs were allocated and freed, idtable_try_new_id() fails only when
\* at most one ID is free (idtable_new_id() aborts the program on a failure).
RoomMeansIssued == full => Cardinality(tbl.ids) >= IdMask

\* What holds of a table that idtable_try_new_id() and idtable_free_id() use in
\* any order: its types, and that it refuses an ID only when it is full but for
\* one.
IdInv == IdTypeOK /\ RoomMeansIssued
=============================================================================
