--------------------------- MODULE SharedAppState ---------------------------
(***************************************************************************)
(* The state all workspace windows share (workspacestate/shared.go): each  *)
(* window keeps a copy in memory and the baseline it last read, and a      *)
(* persist merges what differs between the two into what is on disk, behind*)
(* the cross-process guard, writes the result and reads it back as the new *)
(* copy and baseline (persistWorkspaceRuntimeLocked).                      *)
(*                                                                         *)
(* An entry stands for one cookie, notification, feature, environment      *)
(* variable or preference: MergeSharedDelta compares them one by one.      *)
(* Every edit writes a value of its own, so that a value names the edit.   *)
(* a.mu is held for the whole persist: its window edits nothing meanwhile. *)
(***************************************************************************)
EXTENDS Naturals

CONSTANTS
    Windows,
    Keys,      \* entries
    Values,    \* values edits give them
    None       \* no window; no such entry

ASSUME SharedAssumption == None \notin Windows \cup Values

VARIABLES
    disk,       \* shared-state.json
    guard,      \* the holder of workspace-shared-state.guard, or None
    pc,         \* where each window is
    base,       \* runtime.sharedBaseline
    cur,        \* the shared part of a.state
    merged,     \* what the persist is about to write
    used,       \* history: values given by edits
    unsettled,  \* history: windows that could not read back what they wrote
    replaced    \* history: values each entry no longer has

vars == <<disk, guard, pc, base, cur, merged, used, unsettled, replaced>>

Entries == [Keys -> Values \cup {None}]
NoEntries == [k \in Keys |-> None]

(* merging: holds the guard; merged: the merge is in memory; written: it   *)
(* is on disk; settled: it was read back.                                  *)
Persisting == {"merging", "merged", "written", "settled"}
Locations == Persisting \cup {"off", "running"}

TypeOK ==
    /\ disk \in Entries
    /\ guard \in Windows \cup {None}
    /\ pc \in [Windows -> Locations]
    /\ base \in [Windows -> Entries]
    /\ cur \in [Windows -> Entries]
    /\ merged \in [Windows -> Entries]
    /\ used \subseteq Values
    /\ unsettled \subseteq Windows
    /\ replaced \in [Keys -> SUBSET (Values \cup {None})]

Init ==
    /\ disk = NoEntries
    /\ guard = None
    /\ pc = [w \in Windows |-> "off"]
    /\ base = [w \in Windows |-> NoEntries]
    /\ cur = [w \in Windows |-> NoEntries]
    /\ merged = [w \in Windows |-> NoEntries]
    /\ used = {}
    /\ unsettled = {}
    /\ replaced = [k \in Keys |-> {}]

-----------------------------------------------------------------------------

(* A window opens: one read, without the guard.                            *)
Load(w) ==
    /\ pc[w] = "off"
    /\ base' = [base EXCEPT ![w] = disk]
    /\ cur' = [cur EXCEPT ![w] = disk]
    /\ pc' = [pc EXCEPT ![w] = "running"]
    /\ UNCHANGED <<disk, guard, merged, used, unsettled, replaced>>

(* The user, a script or a response changes an entry.                      *)
Set(w, k, v) ==
    /\ pc[w] = "running" /\ v \notin used
    /\ cur' = [cur EXCEPT ![w][k] = v]
    /\ used' = used \cup {v}
    /\ UNCHANGED <<disk, guard, pc, base, merged, unsettled, replaced>>

(* ... or deletes it.                                                      *)
Delete(w, k) ==
    /\ pc[w] = "running" /\ cur[w][k] # None
    /\ cur' = [cur EXCEPT ![w][k] = None]
    /\ UNCHANGED <<disk, guard, pc, base, merged, used, unsettled, replaced>>

-----------------------------------------------------------------------------

(* Fault: the window's whole copy is written, not its changes.             *)
MergeCopy(b, c, d) == c

(* MergeSharedDelta: what this window added, changed or deleted since its  *)
(* baseline; everything else as it is on disk.                             *)
Merge(b, c, d) == [k \in Keys |-> IF b[k] # c[k] THEN c[k] ELSE d[k]]

(* A persist takes the guard, once it is free.                             *)
BeginPersist(w) ==
    /\ pc[w] = "running" /\ guard = None
    /\ guard' = w
    /\ pc' = [pc EXCEPT ![w] = "merging"]
    /\ UNCHANGED <<disk, base, cur, merged, used, unsettled, replaced>>

ReadAndMerge(w) ==
    /\ pc[w] = "merging"
    /\ merged' = [merged EXCEPT ![w] = Merge(base[w], cur[w], disk)]
    /\ pc' = [pc EXCEPT ![w] = "merged"]
    /\ UNCHANGED <<disk, guard, base, cur, used, unsettled, replaced>>

WriteMerged(w) ==
    /\ pc[w] = "merged"
    /\ disk' = merged[w]
    /\ replaced' = [k \in Keys |-> IF disk[k] = merged[w][k] THEN replaced[k]
                                   ELSE replaced[k] \cup {disk[k]}]
    /\ pc' = [pc EXCEPT ![w] = "written"]
    /\ UNCHANGED <<guard, base, cur, merged, used, unsettled>>

(* Fault: the copy is refreshed and the baseline is not.                   *)
ReadBackCopyOnly(w) ==
    /\ pc[w] = "written"
    /\ cur' = [cur EXCEPT ![w] = disk]
    /\ unsettled' = unsettled \ {w}
    /\ pc' = [pc EXCEPT ![w] = "settled"]
    /\ UNCHANGED <<disk, guard, base, merged, used, replaced>>

(* The copy and the baseline are replaced by what is on disk.              *)
ReadBack(w) ==
    /\ pc[w] = "written"
    /\ base' = [base EXCEPT ![w] = disk]
    /\ cur' = [cur EXCEPT ![w] = disk]
    /\ unsettled' = unsettled \ {w}
    /\ pc' = [pc EXCEPT ![w] = "settled"]
    /\ UNCHANGED <<disk, guard, merged, used, replaced>>

Leave(w) ==
    /\ guard' = None
    /\ merged' = [merged EXCEPT ![w] = NoEntries]

(* The window session is written too, and the persist is over.             *)
FinishPersist(w) ==
    /\ pc[w] = "settled"
    /\ Leave(w)
    /\ pc' = [pc EXCEPT ![w] = "running"]
    /\ UNCHANGED <<disk, base, cur, used, unsettled, replaced>>

(* Any step fails.  If the state was written and could not be read back,   *)
(* the baseline stays the old one.                                         *)
FailPersist(w) ==
    /\ pc[w] \in Persisting
    /\ Leave(w)
    /\ unsettled' = IF pc[w] = "written" THEN unsettled \cup {w} ELSE unsettled
    /\ pc' = [pc EXCEPT ![w] = "running"]
    /\ UNCHANGED <<disk, base, cur, used, replaced>>

(* The window is closed or killed; the system frees the guard.             *)
Exit(w) ==
    /\ pc[w] # "off"
    /\ guard' = IF guard = w THEN None ELSE guard
    /\ merged' = [merged EXCEPT ![w] = NoEntries]
    /\ base' = [base EXCEPT ![w] = NoEntries]
    /\ cur' = [cur EXCEPT ![w] = NoEntries]
    /\ unsettled' = unsettled \ {w}
    /\ pc' = [pc EXCEPT ![w] = "off"]
    /\ UNCHANGED <<disk, used, replaced>>

Next ==
    \E w \in Windows :
        \/ Load(w) \/ BeginPersist(w) \/ ReadAndMerge(w) \/ WriteMerged(w)
        \/ ReadBack(w) \/ FinishPersist(w) \/ FailPersist(w) \/ Exit(w)
        \/ \E k \in Keys : Delete(w, k) \/ \E v \in Values : Set(w, k, v)

Spec == Init /\ [][Next]_vars

-----------------------------------------------------------------------------

Open == {w \in Windows : pc[w] # "off"}

Shared == INSTANCE SharedEntries
            WITH entries <- disk, alive <- Open, seen <- base, view <- cur

(* The windows' merges behave like edits published all at once: a persist  *)
(* changes exactly the entries its window has edited, never one that only  *)
(* another window changed, and while a window is open its edit is taken    *)
(* off its hands only once it is on disk, whatever step of whose persist   *)
(* fails and whoever else dies.                                            *)
PublishesOwnEdits == Shared!Spec

(* A value that another edit has replaced on disk never comes back, unless *)
(* the window that writes it could not read its own last write back.       *)
ReplacedStaysReplaced ==
    [][\A k \in Keys : disk'[k] # disk[k] /\ disk'[k] \in replaced[k] \ {None}
         => guard \in unsettled]_vars

(* A window whose persist has just settled sees what is on disk, and has   *)
(* nothing pending.                                                        *)
SettledSeesDisk ==
    \A w \in Windows : pc[w] = "settled" => base[w] = disk /\ cur[w] = disk
=============================================================================
