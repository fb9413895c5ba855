------------------------------ MODULE IdTable ------------------------------
(***************************************************************************)
(* ID tables (src/lib/idtable.c), which hand out the sequence IDs of the   *)
(* semi-reliable UDP layer and the handles of files and uploads.           *)
(*                                                                         *)
(* The operators below are the table operations: a table is a record with  *)
(* the IDs in use and the ID last looked at.  What the IDs stand for is    *)
(* known by the users of the table.                                        *)
(***************************************************************************)
EXTENDS Integers, FiniteSetsExt

CONSTANT IdMask     \* tbl->mask: IDs are in 0 .. IdMask, IdMask = 2^bits - 1

ASSUME IdMaskAssumption ==
    IdMask \in Nat \ {0} /\ \E bits \in 1 .. 32 : IdMask = 2 ^ bits - 1

Id == 0 .. IdMask

IdTables == [ids: SUBSET Id, last_id: Id]

\* idtable_new(), where last is the random starting point.
idtable_new(last) == [ids |-> {}, last_id |-> last]

\* Fault: probing starts on the last ID itself.
SlotFromLast(tbl, i) == (tbl.last_id + i) % (IdMask + 1)

\* The ID looked at by the i-th probe, starting one slot past the last ID.
Slot(tbl, i) == (tbl.last_id + 1 + i) % (IdMask + 1)

\* Fault: a single probe is made.
MovesOnce(tbl) == IF Slot(tbl, 0) \notin tbl.ids THEN 0 ELSE IdMask

\* How many times the probing loop moves on: it stops on a free slot, or
\* after IdMask moves.
Moves(tbl) == Min({i \in Id : Slot(tbl, i) \notin tbl.ids} \cup {IdMask})

\* idtable_try_new_id(): success, the ID, and the table left.  The test for a
\* full table is "i == tbl->mask".
idtable_try_new_id(tbl) ==
    LET i  == Moves(tbl)
        id == Slot(tbl, i)
    IN  [ok  |-> i # IdMask,
         id  |-> id,
         tbl |-> [ids     |-> IF i # IdMask THEN tbl.ids \cup {id} ELSE tbl.ids,
                  last_id |-> id]]

\* idtable_free_id()
idtable_free_id(tbl, id) == [tbl EXCEPT !.ids = @ \ {id}]
=============================================================================
