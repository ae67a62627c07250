----------------------------- MODULE WriteBehind -----------------------------
(***************************************************************************)
(* What internal/core/app_persist.go promises the rest of the App, with    *)
(* no writer, lock or flag in it: memory runs ahead of the disk, a save is *)
(* due from the moment a mutation is accepted, only a save that copies the *)
(* memory of that moment makes it no longer due, and a mutation that wants *)
(* durability is on disk when it returns.                                  *)
(***************************************************************************)
EXTENDS Naturals

CONSTANT MaxRevision   \* bound: mutations in a behaviour

VARIABLES
    mem,    \* version of the content in memory
    disk,   \* version of the content on disk
    owed,   \* newest version whose mutation was accepted
    due     \* a save is due

abstractVars == <<mem, disk, owed, due>>

AbstractInit == mem = 0 /\ disk = 0 /\ owed = 0 /\ due = FALSE

(* A mutation is accepted; saving it is left for later.                    *)
Accept ==
    \E v \in 0..MaxRevision :
        /\ v > mem /\ v > owed
        /\ mem' = v /\ owed' = v /\ due' = TRUE
        /\ UNCHANGED disk

(* A mutation is accepted and saved in one step.                           *)
AcceptDurably ==
    \E v \in 0..MaxRevision :
        /\ v > mem /\ v > owed
        /\ mem' = v /\ owed' = v /\ disk' = v
        /\ UNCHANGED due

(* A refused mutation may leave its change in memory, owing nothing.       *)
Refuse ==
    \E v \in 0..MaxRevision :
        /\ v > mem
        /\ mem' = v
        /\ UNCHANGED <<disk, owed, due>>

(* A save copies the memory of this moment; a save may remain due.         *)
Save ==
    /\ due
    /\ disk' = mem
    /\ due' \in BOOLEAN
    /\ UNCHANGED <<mem, owed>>

AbstractNext == Accept \/ AcceptDurably \/ Refuse \/ Save

AbstractSpec == AbstractInit /\ [][AbstractNext]_abstractVars
=============================================================================
