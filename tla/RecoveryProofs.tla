--------------------------- MODULE RecoveryProofs ---------------------------
(***************************************************************************)
(* Recoverable deletion for any number of requests, entries, edits and     *)
(* faults.                                                                 *)
(***************************************************************************)
EXTENDS Recovery, TLAPS

Deleting == {"files", "ignore", "save", "commit", "mark",
             "undo", "undoCopy", "undoState"}
Restoring == {"clear", "copy", "restored", "reopened"}

(* A directory holds one snapshot, and none before its entry is made.      *)
OneSnapshot ==
    /\ \A e \in Entries : \A s, t \in store[e] : s = t
    /\ \A e \in Entries : e > made => manifest[e] = "none" /\ store[e] = {}

(* An operation on an entry has its snapshot until it erases it.           *)
OpHasEntry ==
    /\ op.pc \in {"list"} \cup Deleting \cup Restoring =>
           /\ op.entry \in Entries /\ op.entry <= made
           /\ store[op.entry] # {}
           /\ op.kept # {}
    /\ op.pc \in {"unlist", "erase"} => op.entry \in Entries

(* How far the entry is while an operation works on it.                    *)
EntryFollowsOp ==
    /\ op.pc \in {"list", "erase"} => manifest[op.entry] = "none"
    /\ op.pc \in Deleting => manifest[op.entry] = "staged"
    /\ op.pc = "mark" => \A s \in store[op.entry] : s.after # {}

(* What a restore has put back so far.                                     *)
RestoreFollowsSnapshot ==
    /\ op.pc \in {"clear", "copy", "restored"} => \A s \in store[op.entry] : s.tree
    /\ op.pc = "restored" => \A s \in store[op.entry] : disk = s.before.disk
    /\ op.pc = "reopened" => \A s \in store[op.entry] : ~s.tree

Bookkeeping == OneSnapshot /\ OpHasEntry /\ EntryFollowsOp /\ RestoreFollowsSnapshot

HasContent(a) == a.draft \subseteq Present(a.items)

(* A draft is a request that is there, in memory and wherever a copy of    *)
(* memory is kept.                                                         *)
DraftsHaveContent ==
    /\ HasContent(app)
    /\ \A w \in op.kept : HasContent(w.app)
    /\ \A e \in Entries : \A s \in store[e] : HasContent(s.before.app)

(* What kind of snapshot a step works on, and that of a removal is without *)
(* files.                                                                  *)
PayloadByKind ==
    /\ \A e \in Entries : \A s \in store[e] : ~s.tree => s.before.disk = NoFiles
    /\ op.pc \in {"files", "undoCopy"} => \A s \in store[op.entry] : s.tree
    /\ op.pc = "ignore" => \A s \in store[op.entry] : ~s.tree

InPayload(r) ==
    \E e \in Entries : /\ manifest[e] # "none"
                       /\ \E s \in store[e] : r \in Present(s.before.disk)
InOtherPayload(r) ==
    \E e \in Entries \ {op.entry} : /\ manifest[e] # "none"
                                    /\ \E s \in store[e] : r \in Present(s.before.disk)

(* While files may be missing every request owed is in the payload of an   *)
(* entry the manifest names; before an entry may go it is not needed for   *)
(* any.                                                                    *)
SavedFollowsOp ==
    /\ op.pc \in {"files", "save", "commit", "mark", "undo", "undoCopy",
                  "clear", "copy", "restored"} =>
         \A s \in store[op.entry] : s.tree => \A r \in owed : InPayload(r)
    /\ op.pc = "list" =>
         \A s \in store[op.entry] : s.tree =>
            \A r \in owed : r \in Present(s.before.disk) \/ InOtherPayload(r)
    /\ op.pc \in {"list", "undoState", "unlist", "erase"} =>
         \A r \in owed : r \in Present(disk) \/ InOtherPayload(r)

(* The files a deletion has left so far, and those it committed.           *)
FilesFollowSnapshot ==
    /\ \A e \in Entries : \A s \in store[e] : \A w \in s.after : s.tree => PutsBack(s, w.disk)
    /\ op.pc \in {"list", "files", "save", "commit"} =>
         \A s \in store[op.entry] : s.tree => PutsBack(s, disk)
    /\ op.pc \in {"list", "files"} => \A s \in store[op.entry] : app = s.before.app

Safeguards ==
    DraftsHaveContent /\ PayloadByKind /\ SavedFollowsOp /\ FilesFollowSnapshot

IInv ==
    /\ RecoveryTypeOK /\ Bookkeeping /\ Safeguards
    /\ RestorableIsComplete /\ RestoredIsDurable /\ NothingVanishes

(* Numbers of entries, versions and faults are numbers.                    *)
LEMMA Numbers ==
    /\ Entries \subseteq Nat /\ None = 0 /\ None \notin Entries
    /\ Versions \subseteq Nat /\ None \in Versions /\ 1 \in Versions
    /\ NoFiles \in Files
  BY RecoveryAssumption DEF Entries, Versions, None, NoFiles, Files

LEMMA HeldTyped ==
    ASSUME RecoveryTypeOK, op.entry \in Entries, store[op.entry] # {}
    PROVE  /\ Held \in Snapshots /\ Held \in store[op.entry]
           /\ Held.tree \in BOOLEAN /\ Held.before \in Worlds
           /\ Held.before.disk \in Files /\ Held.before.app \in Apps
           /\ Held.before.ignored \in BOOLEAN /\ Held.after \in SUBSET Worlds
  <1>1. Held \in store[op.entry]
    BY DEF Held, Entry
  <1>2. store[op.entry] \in SUBSET Snapshots
    BY DEF RecoveryTypeOK
  <1>3. Held \in Snapshots
    BY <1>1, <1>2
  <1>4. Held.tree \in BOOLEAN /\ Held.before \in Worlds /\ Held.after \in SUBSET Worlds
    BY <1>3 DEF Snapshots
  <1> QED
    BY <1>1, <1>3, <1>4 DEF Worlds

LEMMA WorldTyped ==
    ASSUME RecoveryTypeOK PROVE World \in Worlds
  BY DEF RecoveryTypeOK, World, Worlds

LEMMA WrittenTyped ==
    ASSUME NEW f \in Files, NEW g \in Files PROVE Written(f, g) \in Files
  BY DEF Written, Files

LEMMA PartlyTyped ==
    ASSUME NEW f \in Files, NEW g \in Files, NEW h \in Partly(f, g) PROVE h \in Files
  BY DEF Partly, Files

LEMMA WithoutTyped ==
    ASSUME RecoveryTypeOK, NEW T
    PROVE  Without(T) \in Apps /\ Without(T).items \in Files
  <1>1. app \in Apps
    BY DEF RecoveryTypeOK
  <1>2. app.items \in Files /\ app.draft \in SUBSET Requests /\ app.tabs \in SUBSET Requests
    BY <1>1 DEF Apps
  <1>3. [r \in Requests |-> IF r \in T THEN None ELSE app.items[r]] \in Files
    BY <1>2, Numbers DEF Files
  <1> QED
    BY <1>1, <1>2, <1>3 DEF Without, Apps

LEMMA DurableTyped ==
    ASSUME NEW a \in Apps PROVE Durable(a) \in [listed : BOOLEAN, tabs : SUBSET Requests]
  BY DEF Durable, Apps

LEMMA GotoTyped ==
    ASSUME op \in Ops, NEW p \in PCs, Goto(p)
    PROVE  /\ op' \in Ops /\ op'.pc = p /\ op'.entry = op.entry
           /\ op'.targets = op.targets /\ op'.kept = op.kept
  BY DEF Ops, Goto

LEMMA IdleTyped ==
    /\ Idle \in Ops /\ Idle.pc = "idle" /\ Idle.entry = None /\ Idle.kept = {}
  BY DEF Ops, Idle, PCs, None

LEMMA IdleButTyped ==
    ASSUME NEW p \in PCs
    PROVE  /\ [Idle EXCEPT !.pc = p] \in Ops
           /\ \A e \in Entries : [Idle EXCEPT !.pc = p, !.entry = e] \in Ops
           /\ \A e \in Entries : \A k \in SUBSET Worlds :
                  [Idle EXCEPT !.pc = p, !.entry = e, !.kept = k] \in Ops
  BY DEF Ops, Idle

LEMMA AppTyped ==
    ASSUME RecoveryTypeOK
    PROVE  /\ app.items \in Files /\ app.draft \in SUBSET Requests
           /\ app.tabs \in SUBSET Requests /\ app.listed \in BOOLEAN
  BY DEF RecoveryTypeOK, Apps

LEMMA FaultTyped ==
    ASSUME RecoveryTypeOK, Fault PROVE faults' \in 0..MaxFaults
  BY RecoveryAssumption DEF RecoveryTypeOK, Fault

LEMMA StageTyped ==
    ASSUME RecoveryTypeOK, NEW tree \in BOOLEAN, NEW T \in SUBSET Requests, Stage(tree, T)
    PROVE  RecoveryTypeOK'
  <1> USE Numbers DEF RecoveryTypeOK
  <1>1. made' \in 0..MaxEntries /\ made' \in Entries /\ made' = made + 1
    BY RecoveryAssumption DEF Stage, Entries
  <1>2. op' \in Ops
    BY <1>1, WorldTyped DEF Stage, Ops, PCs
  <1>3. [World EXCEPT !.disk = NoFiles] \in Worlds
    BY WorldTyped DEF Worlds
  <1>4. [tree |-> tree, after |-> {},
         before |-> IF tree THEN World ELSE [World EXCEPT !.disk = NoFiles]] \in Snapshots
    BY <1>3, WorldTyped DEF Snapshots
  <1>5. store' \in [Entries -> SUBSET Snapshots]
    BY <1>1, <1>4 DEF Stage
  <1> QED
    BY <1>1, <1>2, <1>5 DEF Stage, worldVars, boundVars

(* Every step keeps the types.                                             *)
LEMMA TypeStep ==
    ASSUME IInv, [RecoveryNext]_vars PROVE RecoveryTypeOK'
PROOF
<1> USE IInv, Numbers DEF IInv, RecoveryTypeOK
<1>1. ASSUME NEW r \in Requests, UpdateRequest(r)
      PROVE  RecoveryTypeOK'
    <2>1. version' \in Versions
      BY <1>1, RecoveryAssumption DEF UpdateRequest, Versions
    <2>2. app' \in Apps
      BY <1>1, <2>1 DEF UpdateRequest, Apps, Files
    <2> QED
      BY <1>1, <2>1, <2>2 DEF UpdateRequest, storeVars
<1>2. ASSUME NEW r \in Requests, CreateRequest(r)
      PROVE  RecoveryTypeOK'
    <2>1. version' \in Versions
      BY <1>2, RecoveryAssumption DEF CreateRequest, Versions
    <2>2. app' \in Apps
      BY <1>2, <2>1 DEF CreateRequest, Apps, Files
    <2> QED
      BY <1>2, <2>1, <2>2 DEF CreateRequest, storeVars
<1>3. ASSUME NEW r \in Requests, SaveRequest(r)
      PROVE  RecoveryTypeOK'
    <2>1. app' \in Apps
      BY <1>3 DEF SaveRequest, Apps
    <2>2. disk' \in Files
      BY <1>3, AppTyped, WrittenTyped DEF SaveRequest
    <2> QED
      BY <1>3, <2>1, <2>2 DEF SaveRequest, storeVars, boundVars
<1>4. ASSUME NEW r \in Requests, CloseTab(r)
      PROVE  RecoveryTypeOK'
    <2>1. version' \in Versions
      BY <1>4, RecoveryAssumption DEF CloseTab, Versions
    <2>2. app' \in Apps
      BY <1>4, <2>1 DEF CloseTab, Apps, Files
    <2> QED
      BY <1>4, <2>1, <2>2 DEF CloseTab, storeVars
<1>5. ASSUME NEW r \in Requests, DeleteRequest(r)
      PROVE  RecoveryTypeOK'
    <2>1. Stage(TRUE, {r})
      BY <1>5 DEF DeleteRequest
    <2> QED
      BY <2>1, StageTyped
<1>6. ASSUME NEW r \in Requests, RemoveFile(r)
      PROVE  RecoveryTypeOK'
  BY <1>6 DEF RemoveFile, Files, storeVars, boundVars
<1>7. ASSUME NEW e \in Entries, Expire(e)
      PROVE  RecoveryTypeOK'
  BY <1>7 DEF Expire, worldVars, storeVars, boundVars
<1>8. ASSUME NEW e \in Entries, Discard(e)
      PROVE  RecoveryTypeOK'
  BY <1>8, IdleButTyped DEF Discard, GiveUp, PCs, worldVars, storeVars, boundVars
<1>9. ASSUME NEW e \in Entries, PurgeErase(e)
      PROVE  RecoveryTypeOK'
  BY <1>9, IdleButTyped DEF PurgeErase, GiveUp, PCs, worldVars, boundVars
<1>10. ASSUME NEW e \in Entries, RestoreTree(e)
      PROVE  RecoveryTypeOK'
    <2>1. op' \in Ops
      <3>1. {World} \in SUBSET Worlds /\ "clear" \in PCs
        BY WorldTyped DEF PCs
      <3>2. op' = [Idle EXCEPT !.pc = "clear", !.entry = e, !.kept = {World}]
        BY <1>10 DEF RestoreTree
      <3> QED
        BY ONLY <3>1, <3>2, IdleButTyped, e \in Entries
    <2> QED
      BY <1>10, <2>1 DEF RestoreTree, worldVars, storeVars, boundVars
<1>11. ASSUME NEW e \in Entries, RestoreCollection(e)
      PROVE  RecoveryTypeOK'
    <2>1. op' \in Ops
      <3>1. {World} \in SUBSET Worlds /\ "reopened" \in PCs
        BY WorldTyped DEF PCs
      <3>2. op' = [Idle EXCEPT !.pc = "reopened", !.entry = e, !.kept = {World}]
        BY <1>11 DEF RestoreCollection
      <3> QED
        BY ONLY <3>1, <3>2, IdleButTyped, e \in Entries
    <2>2. ignored' \in BOOLEAN
      <3>1. PICK s \in store[e] : ignored' = s.before.ignored
        BY <1>11 DEF RestoreCollection
      <3>2. s \in Snapshots
        OBVIOUS
      <3> QED
        BY <3>1, <3>2 DEF Snapshots, Worlds
    <2> QED
      BY <1>11, <2>1, <2>2 DEF RestoreCollection, storeVars, boundVars
<1>12. CASE DeleteFolder
    <2>1. Stage(TRUE, Folder)
      BY <1>12 DEF DeleteFolder
    <2> QED
      BY <2>1, RecoveryAssumption, StageTyped
<1>13. CASE RemoveCollection
    <2>1. Stage(FALSE, {})
      BY <1>13 DEF RemoveCollection
    <2> QED
      BY <2>1, StageTyped
<1>14. CASE OpenCollection
    <2>1. app' \in Apps
      BY <1>14 DEF OpenCollection, Apps
    <2>2. saved' \in [listed : BOOLEAN, tabs : SUBSET Requests]
      BY <1>14, <2>1, DurableTyped DEF OpenCollection
    <2> QED
      BY <1>14, <2>1, <2>2 DEF OpenCollection, storeVars, boundVars
<1>15. CASE Persist
  BY <1>15, DurableTyped DEF Persist, worldVars, storeVars, boundVars
<1>16. CASE List
    <2>1. op' \in Ops
      BY <1>16, GotoTyped DEF List, PCs
    <2> QED
      BY <1>16, <2>1 DEF List, worldVars, boundVars
<1>17. CASE ListFails
  BY <1>17, IdleTyped, FaultTyped DEF ListFails, worldVars
<1>18. CASE Drop
    <2>1. op' \in Ops
      BY <1>18, GotoTyped DEF Drop, PCs
    <2>2. app' \in Apps /\ app'.items \in Files
      BY <1>18, WithoutTyped DEF Drop
    <2>3. disk' \in Files
      BY <1>18, <2>2, WrittenTyped DEF Drop
    <2> QED
      BY <1>18, <2>1, <2>2, <2>3 DEF Drop, storeVars, boundVars
<1>19. CASE Unlist
    <2>1. op' \in Ops
      BY <1>19, GotoTyped DEF Unlist, PCs
    <2>2. app' \in Apps
      BY <1>19 DEF Unlist, Apps
    <2>3. store' \in [Entries -> SUBSET Snapshots]
      <3>1. op.entry \in Entries /\ store[op.entry] # {}
        BY <1>19 DEF Unlist, At, Bookkeeping, OpHasEntry, Deleting
      <3>2. [disk |-> disk, app |-> app', ignored |-> FALSE] \in Worlds
        BY <2>2 DEF Worlds
      <3>3. [Held EXCEPT !.after = {[disk |-> disk, app |-> app', ignored |-> FALSE]}] \in Snapshots
        BY <3>1, <3>2, HeldTyped DEF Snapshots
      <3> QED
        BY <1>19, <3>1, <3>3 DEF Unlist, Entry
    <2> QED
      BY <1>19, <2>1, <2>2, <2>3 DEF Unlist, boundVars
<1>20. CASE SaveState
    <2>1. op' \in Ops
      BY <1>20, GotoTyped DEF SaveState, PCs
    <2> QED
      BY <1>20, <2>1, DurableTyped DEF SaveState, worldVars, storeVars, boundVars
<1>21. CASE Commit
    <2>1. op' \in Ops
      BY <1>21, GotoTyped DEF Commit, PCs
    <2>2. store' \in [Entries -> SUBSET Snapshots]
      <3>1. op.entry \in Entries /\ store[op.entry] # {}
        BY <1>21 DEF Commit, At, Bookkeeping, OpHasEntry, Deleting
      <3>2. [Held EXCEPT !.after = {World}] \in Snapshots
        BY <3>1, WorldTyped, HeldTyped DEF Snapshots
      <3> QED
        BY <1>21, <3>1, <3>2 DEF Commit, Entry
    <2> QED
      BY <1>21, <2>1, <2>2 DEF Commit, worldVars, boundVars
<1>22. CASE Mark
  BY <1>22, IdleTyped DEF Mark, worldVars, boundVars
<1>23. CASE StepFails
    <2>1. op' \in Ops
      BY <1>23, GotoTyped DEF StepFails, PCs
    <2>2. disk' \in Files
      <3>1. Written(disk, Without(op.targets).items) \in Files
        BY WithoutTyped, WrittenTyped
      <3> QED
        BY <1>23, <3>1, PartlyTyped DEF StepFails
    <2>3. ignored' \in BOOLEAN
      BY <1>23 DEF StepFails
    <2> QED
      BY <1>23, <2>1, <2>2, <2>3, FaultTyped DEF StepFails, storeVars
<1>24. CASE Undo
    <2>a. op.entry \in Entries /\ store[op.entry] # {}
      BY <1>24 DEF Undo, At, Bookkeeping, OpHasEntry, Deleting, Restoring
    <2>1. op' \in Ops
      BY <1>24, GotoTyped DEF Undo, PCs
    <2>2. disk' \in Files /\ ignored' \in BOOLEAN
      BY <1>24, <2>a, HeldTyped DEF Undo
    <2> QED
      BY <1>24, <2>1, <2>2 DEF Undo, storeVars, boundVars
<1>25. CASE UndoCopy
    <2>a. op.entry \in Entries /\ store[op.entry] # {}
      BY <1>25 DEF UndoCopy, At, Bookkeeping, OpHasEntry, Deleting, Restoring
    <2>1. op' \in Ops
      BY <1>25, GotoTyped DEF UndoCopy, PCs
    <2> QED
      BY <1>25, <2>a, <2>1, HeldTyped DEF UndoCopy, storeVars, boundVars
<1>26. CASE UndoFails
    <2>a. op.entry \in Entries /\ store[op.entry] # {}
      BY <1>26 DEF UndoFails, At, Bookkeeping, OpHasEntry, Deleting, Restoring
    <2>1. op' \in Ops
      BY <1>26, GotoTyped DEF UndoFails, PCs
    <2>2. disk' \in Files
      BY <1>26, <2>a, HeldTyped, PartlyTyped DEF UndoFails
    <2> QED
      BY <1>26, <2>1, <2>2, FaultTyped DEF UndoFails, GiveUp, storeVars
<1>27. CASE UndoState
    <2>1. op' \in Ops
      BY <1>27, GotoTyped DEF UndoState, PCs
    <2>2. app' \in Apps
      <3>1. op.kept # {} /\ op.kept \in SUBSET Worlds
        BY <1>27 DEF UndoState, At, Bookkeeping, OpHasEntry, Deleting, Ops
      <3>2. (CHOOSE w \in op.kept : TRUE) \in Worlds
        BY <3>1
      <3> QED
        BY <1>27, <3>2 DEF UndoState, Worlds
    <2>3. saved' \in [listed : BOOLEAN, tabs : SUBSET Requests] /\ faults' \in 0..MaxFaults
      BY <1>27, <2>2, DurableTyped, FaultTyped DEF UndoState
    <2> QED
      BY <1>27, <2>1, <2>2, <2>3 DEF UndoState, storeVars
<1>28. CASE RemoveFromManifest
    <2>1. op' \in Ops
      BY <1>28, GotoTyped DEF RemoveFromManifest, PCs
    <2> QED
      BY <1>28, <2>1 DEF RemoveFromManifest, worldVars, boundVars
<1>29. CASE EraseEntry
  BY <1>29, IdleTyped DEF EraseEntry, worldVars, boundVars
<1>30. CASE RemoveEntryFails
  BY <1>30, IdleTyped, FaultTyped DEF RemoveEntryFails, worldVars, storeVars
<1>31. CASE PurgeManifest
    <2>1. manifest' \in [Entries -> {"none", "staged", "restorable"}]
      BY <1>31 DEF PurgeManifest
    <2>2. faults' \in 0..MaxFaults
      BY <1>31, FaultTyped DEF PurgeManifest
    <2> QED
      BY <1>31, <2>1, <2>2, IdleTyped DEF PurgeManifest, worldVars
<1>32. CASE RestoreClear
    <2>1. op' \in Ops
      BY <1>32, GotoTyped DEF RestoreClear, PCs
    <2> QED
      BY <1>32, <2>1 DEF RestoreClear, storeVars, boundVars
<1>33. CASE RestoreCopy
    <2>a. op.entry \in Entries /\ store[op.entry] # {}
      BY <1>33 DEF RestoreCopy, At, Bookkeeping, OpHasEntry, Deleting, Restoring
    <2>1. op' \in Ops
      BY <1>33, GotoTyped DEF RestoreCopy, PCs
    <2> QED
      BY <1>33, <2>a, <2>1, HeldTyped DEF RestoreCopy, storeVars, boundVars
<1>34. CASE RestoreFails
    <2>a. op.entry \in Entries /\ store[op.entry] # {}
      BY <1>34 DEF RestoreFails, At, Bookkeeping, OpHasEntry, Deleting, Restoring
    <2>2. disk' \in Files
      BY <1>34, <2>a, HeldTyped, PartlyTyped DEF RestoreFails
    <2> QED
      BY <1>34, <2>2, IdleTyped, FaultTyped DEF RestoreFails, storeVars
<1>35. CASE RestoreState
    <2>a. op.entry \in Entries /\ store[op.entry] # {}
      BY <1>35 DEF RestoreState, At, Bookkeeping, OpHasEntry, Deleting, Restoring
    <2>1. CASE app' = Held.before.app /\ saved' = Durable(app')
               /\ Goto("unlist") /\ UNCHANGED <<disk, faults>>
      <3>1. op' \in Ops
        BY <2>1, GotoTyped DEF PCs
      <3> QED
        BY <1>35, <2>a, <2>1, <3>1, HeldTyped, DurableTyped DEF RestoreState, storeVars
    <2>2. CASE /\ Fault /\ op' = Idle
               /\ \E w \in op.kept : disk' \in Partly(NoFiles, w.disk)
               /\ UNCHANGED <<app, saved>>
      <3>1. PICK w \in op.kept : disk' \in Partly(NoFiles, w.disk)
        BY <2>2
      <3>2. w.disk \in Files
        BY DEF Ops, Worlds
      <3>3. disk' \in Files
        BY <3>1, <3>2, PartlyTyped
      <3> QED
        BY <1>35, <2>2, <3>3, IdleTyped, FaultTyped DEF RestoreState, storeVars
    <2> QED
      BY <1>35, <2>1, <2>2 DEF RestoreState
<1>36. CASE ReopenCollection
    <2>a. op.entry \in Entries /\ store[op.entry] # {}
      BY <1>36 DEF ReopenCollection, At, Bookkeeping, OpHasEntry, Deleting, Restoring
    <2>1. CASE app' = Held.before.app /\ saved' = Durable(app')
               /\ Goto("unlist") /\ UNCHANGED <<ignored, faults>>
      <3>1. op' \in Ops
        BY <2>1, GotoTyped DEF PCs
      <3> QED
        BY <1>36, <2>a, <2>1, <3>1, HeldTyped, DurableTyped DEF ReopenCollection, storeVars
    <2>2. CASE /\ Fault /\ op' = Idle
               /\ ignored' \in {ignored, FALSE}
               /\ UNCHANGED <<app, saved>>
      BY <1>36, <2>2, IdleTyped, FaultTyped DEF ReopenCollection, storeVars
    <2> QED
      BY <1>36, <2>1, <2>2 DEF ReopenCollection
<1>37. CASE Crash
    <2>1. app' \in Apps
      BY <1>37 DEF Crash, Apps
    <2> QED
      BY <1>37, <2>1, IdleTyped, FaultTyped DEF Crash, storeVars
<1>38. CASE UNCHANGED vars
  BY <1>38 DEF vars, worldVars, storeVars, boundVars
<1>. QED
  BY <1>1, <1>2, <1>3, <1>4, <1>5, <1>6, <1>7, <1>8, <1>9, <1>10, <1>11,
       <1>12, <1>13, <1>14, <1>15, <1>16, <1>17, <1>18, <1>19, <1>20, <1>21,
       <1>22, <1>23, <1>24, <1>25, <1>26, <1>27, <1>28, <1>29, <1>30, <1>31,
       <1>32, <1>33, <1>34, <1>35, <1>36, <1>37, <1>38 DEF RecoveryNext

(* The functions and the operation, without the rest of the types.         *)
LEMMA StoreTyped ==
    ASSUME IInv
    PROVE  /\ store \in [Entries -> SUBSET Snapshots]
           /\ manifest \in [Entries -> {"none", "staged", "restorable"}]
           /\ op \in Ops /\ made \in Nat
           /\ OneSnapshot /\ OpHasEntry /\ EntryFollowsOp /\ RestoreFollowsSnapshot
  BY DEF IInv, RecoveryTypeOK, Bookkeeping

LEMMA WorkingEntry ==
    ASSUME IInv, op.pc \in {"list"} \cup Deleting \cup Restoring
    PROVE  /\ Entry \in Entries /\ op.entry = Entry /\ Entry <= made
           /\ store[Entry] = {Held} /\ Held \in Snapshots
  <1>1. op.entry \in Entries /\ op.entry <= made /\ store[op.entry] # {}
    BY StoreTyped DEF OpHasEntry
  <1>2. Held \in store[op.entry] /\ Held \in Snapshots
    BY <1>1, HeldTyped DEF IInv
  <1>3. store[op.entry] = {Held}
    BY <1>1, <1>2, StoreTyped DEF OneSnapshot
  <1> QED
    BY <1>1, <1>2, <1>3 DEF Entry

LEMMA StageOneSnapshot ==
    ASSUME IInv, NEW tree, NEW T, Stage(tree, T) PROVE OneSnapshot'
  <1>1. PICK x : store' = [store EXCEPT ![made'] = {x}]
    BY DEF Stage
  <1>2. made' = made + 1 /\ manifest' = manifest
    BY DEF Stage
  <1> QED
    BY <1>1, <1>2, StoreTyped, Numbers DEF OneSnapshot

(* A directory gets a snapshot when its entry is made, and loses it.       *)
LEMMA OneSnapshotStep ==
    ASSUME IInv, [RecoveryNext]_vars PROVE OneSnapshot'
PROOF
<1> USE IInv, StoreTyped, Numbers
<1>1. ASSUME NEW r \in Requests, UpdateRequest(r)
      PROVE  OneSnapshot'
  BY <1>1 DEF UpdateRequest, OneSnapshot, storeVars
<1>2. ASSUME NEW r \in Requests, CreateRequest(r)
      PROVE  OneSnapshot'
  BY <1>2 DEF CreateRequest, OneSnapshot, storeVars
<1>3. ASSUME NEW r \in Requests, SaveRequest(r)
      PROVE  OneSnapshot'
  BY <1>3 DEF SaveRequest, OneSnapshot, storeVars
<1>4. ASSUME NEW r \in Requests, CloseTab(r)
      PROVE  OneSnapshot'
  BY <1>4 DEF CloseTab, OneSnapshot, storeVars
<1>5. ASSUME NEW r \in Requests, DeleteRequest(r)
      PROVE  OneSnapshot'
  BY <1>5, StageOneSnapshot DEF DeleteRequest
<1>6. ASSUME NEW r \in Requests, RemoveFile(r)
      PROVE  OneSnapshot'
  BY <1>6 DEF RemoveFile, OneSnapshot, storeVars
<1>7. ASSUME NEW e \in Entries, Expire(e)
      PROVE  OneSnapshot'
  BY <1>7 DEF Expire, OneSnapshot, storeVars
<1>8. ASSUME NEW e \in Entries, Discard(e)
      PROVE  OneSnapshot'
  BY <1>8 DEF Discard, OneSnapshot, storeVars
<1>9. ASSUME NEW e \in Entries, PurgeErase(e)
      PROVE  OneSnapshot'
  BY <1>9 DEF PurgeErase, OneSnapshot
<1>10. ASSUME NEW e \in Entries, RestoreTree(e)
      PROVE  OneSnapshot'
  BY <1>10 DEF RestoreTree, OneSnapshot, storeVars
<1>11. ASSUME NEW e \in Entries, RestoreCollection(e)
      PROVE  OneSnapshot'
  BY <1>11 DEF RestoreCollection, OneSnapshot, storeVars
<1>12. CASE DeleteFolder
  BY <1>12, StageOneSnapshot DEF DeleteFolder
<1>13. CASE RemoveCollection
  BY <1>13, StageOneSnapshot DEF RemoveCollection
<1>14. CASE OpenCollection
  BY <1>14 DEF OpenCollection, OneSnapshot, storeVars
<1>15. CASE Persist
  BY <1>15 DEF Persist, OneSnapshot, storeVars
<1>16. CASE List
    <2>1. Entry \in Entries /\ Entry <= made
      BY <1>16, WorkingEntry DEF List, At, Deleting
    <2> QED
      BY <1>16, <2>1 DEF List, OneSnapshot
<1>17. CASE ListFails
    <2>1. Entry \in Entries /\ Entry <= made
      BY <1>17, WorkingEntry DEF ListFails, At, Deleting
    <2> QED
      BY <1>17, <2>1 DEF ListFails, OneSnapshot
<1>18. CASE Drop
  BY <1>18 DEF Drop, OneSnapshot, storeVars
<1>19. CASE Unlist
    <2>1. Entry \in Entries /\ Entry <= made
      BY <1>19, WorkingEntry DEF Unlist, At, Deleting
    <2>2. PICK x : store' = [store EXCEPT ![Entry] = {x}]
      <3>1. store' = [store EXCEPT ![Entry] = {[Held EXCEPT !.after = {
            [disk |-> disk, app |-> app', ignored |-> FALSE]}]}]
        BY <1>19 DEF Unlist
      <3> QED
        BY ONLY <3>1
    <2>3. UNCHANGED <<manifest, made>>
      BY <1>19 DEF Unlist
    <2> QED
      BY <2>1, <2>2, <2>3 DEF OneSnapshot
<1>20. CASE SaveState
  BY <1>20 DEF SaveState, OneSnapshot, storeVars
<1>21. CASE Commit
    <2>1. Entry \in Entries /\ Entry <= made
      BY <1>21, WorkingEntry DEF Commit, At, Deleting
    <2>2. PICK x : store' = [store EXCEPT ![Entry] = {x}]
      <3>1. store' = [store EXCEPT ![Entry] = {[Held EXCEPT !.after = {World}]}]
        BY <1>21 DEF Commit
      <3> QED
        BY ONLY <3>1
    <2>3. UNCHANGED <<manifest, made>>
      BY <1>21 DEF Commit
    <2> QED
      BY <2>1, <2>2, <2>3 DEF OneSnapshot
<1>22. CASE Mark
    <2>1. Entry \in Entries /\ Entry <= made
      BY <1>22, WorkingEntry DEF Mark, At, Deleting
    <2> QED
      BY <1>22, <2>1 DEF Mark, OneSnapshot
<1>23. CASE StepFails
  BY <1>23 DEF StepFails, OneSnapshot, storeVars
<1>24. CASE Undo
  BY <1>24 DEF Undo, OneSnapshot, storeVars
<1>25. CASE UndoCopy
  BY <1>25 DEF UndoCopy, OneSnapshot, storeVars
<1>26. CASE UndoFails
  BY <1>26 DEF UndoFails, OneSnapshot, storeVars
<1>27. CASE UndoState
  BY <1>27 DEF UndoState, OneSnapshot, storeVars
<1>28. CASE RemoveFromManifest
  BY <1>28 DEF RemoveFromManifest, OneSnapshot
<1>29. CASE EraseEntry
  BY <1>29 DEF EraseEntry, OneSnapshot
<1>30. CASE RemoveEntryFails
  BY <1>30 DEF RemoveEntryFails, OneSnapshot, storeVars
<1>31. CASE PurgeManifest
  BY <1>31 DEF PurgeManifest, OneSnapshot
<1>32. CASE RestoreClear
  BY <1>32 DEF RestoreClear, OneSnapshot, storeVars
<1>33. CASE RestoreCopy
  BY <1>33 DEF RestoreCopy, OneSnapshot, storeVars
<1>34. CASE RestoreFails
  BY <1>34 DEF RestoreFails, OneSnapshot, storeVars
<1>35. CASE RestoreState
  BY <1>35 DEF RestoreState, OneSnapshot, storeVars
<1>36. CASE ReopenCollection
  BY <1>36 DEF ReopenCollection, OneSnapshot, storeVars
<1>37. CASE Crash
  BY <1>37 DEF Crash, OneSnapshot, storeVars
<1>38. CASE UNCHANGED vars
  BY <1>38 DEF vars, storeVars, OneSnapshot
<1>. QED
  BY <1>1, <1>2, <1>3, <1>4, <1>5, <1>6, <1>7, <1>8, <1>9, <1>10, <1>11,
       <1>12, <1>13, <1>14, <1>15, <1>16, <1>17, <1>18, <1>19, <1>20, <1>21,
       <1>22, <1>23, <1>24, <1>25, <1>26, <1>27, <1>28, <1>29, <1>30, <1>31,
       <1>32, <1>33, <1>34, <1>35, <1>36, <1>37, <1>38 DEF RecoveryNext
LEMMA StageOpHasEntry ==
    ASSUME IInv, NEW tree, NEW T, Stage(tree, T) PROVE OpHasEntry'
  <1>1. PICK x : store' = [store EXCEPT ![made'] = {x}]
    BY DEF Stage
  <1>2. op'.pc = "list" /\ op'.entry = made' /\ op'.kept = {World}
    BY DEF Stage
  <1>3. made' = made + 1 /\ made < MaxEntries
    BY DEF Stage
  <1>4. made' \in Entries
    BY <1>3, RecoveryAssumption, StoreTyped DEF Entries
  <1> QED
    BY <1>1, <1>2, <1>4, StoreTyped, Numbers DEF OpHasEntry, Deleting, Restoring

(* The snapshot stays while the operation needs it.                        *)
LEMMA OpHasEntryStep ==
    ASSUME IInv, [RecoveryNext]_vars PROVE OpHasEntry'
PROOF
<1> USE IInv, StoreTyped, Numbers
<1>1. ASSUME NEW r \in Requests, UpdateRequest(r)
      PROVE  OpHasEntry'
    <2>1. UNCHANGED <<op, store, made>>
      BY <1>1 DEF UpdateRequest, storeVars
    <2> QED
      BY <2>1 DEF OpHasEntry
<1>2. ASSUME NEW r \in Requests, CreateRequest(r)
      PROVE  OpHasEntry'
    <2>1. UNCHANGED <<op, store, made>>
      BY <1>2 DEF CreateRequest, storeVars
    <2> QED
      BY <2>1 DEF OpHasEntry
<1>3. ASSUME NEW r \in Requests, SaveRequest(r)
      PROVE  OpHasEntry'
    <2>1. UNCHANGED <<op, store, made>>
      BY <1>3 DEF SaveRequest, storeVars
    <2> QED
      BY <2>1 DEF OpHasEntry
<1>4. ASSUME NEW r \in Requests, CloseTab(r)
      PROVE  OpHasEntry'
    <2>1. UNCHANGED <<op, store, made>>
      BY <1>4 DEF CloseTab, storeVars
    <2> QED
      BY <2>1 DEF OpHasEntry
<1>5. ASSUME NEW r \in Requests, DeleteRequest(r)
      PROVE  OpHasEntry'
  BY <1>5, StageOpHasEntry DEF DeleteRequest
<1>6. ASSUME NEW r \in Requests, RemoveFile(r)
      PROVE  OpHasEntry'
    <2>1. UNCHANGED <<op, store, made>>
      BY <1>6 DEF RemoveFile, storeVars
    <2> QED
      BY <2>1 DEF OpHasEntry
<1>7. ASSUME NEW e \in Entries, Expire(e)
      PROVE  OpHasEntry'
    <2>1. UNCHANGED <<op, store, made>>
      BY <1>7 DEF Expire, storeVars
    <2> QED
      BY <2>1 DEF OpHasEntry
<1>8. ASSUME NEW e \in Entries, Discard(e)
      PROVE  OpHasEntry'
    <2>1. op' = [Idle EXCEPT !.pc = "unlist", !.entry = e]
      BY <1>8 DEF Discard
    <2>2. op'.pc = "unlist" /\ op'.entry = e
      BY ONLY <2>1, IdleTyped DEF Idle
    <2> QED
      BY <2>2 DEF OpHasEntry, Deleting, Restoring
<1>9. ASSUME NEW e \in Entries, PurgeErase(e)
      PROVE  OpHasEntry'
    <2>1. op'.pc \in {"idle", "purge"}
      BY <1>9, IdleTyped DEF PurgeErase, Idle
    <2> QED
      BY <2>1 DEF OpHasEntry, Deleting, Restoring
<1>10. ASSUME NEW e \in Entries, RestoreTree(e)
      PROVE  OpHasEntry'
    <2>1. op' = [Idle EXCEPT !.pc = "clear", !.entry = e, !.kept = {World}]
      BY <1>10 DEF RestoreTree
    <2>2. op'.pc = "clear" /\ op'.entry = e /\ op'.kept # {}
      BY ONLY <2>1, IdleTyped DEF Idle
    <2>3. store[e] # {} /\ UNCHANGED <<store, made>>
      BY <1>10 DEF RestoreTree, storeVars
    <2>4. e <= made
      BY <2>3 DEF OneSnapshot, Entries
    <2> QED
      BY <2>2, <2>3, <2>4 DEF OpHasEntry
<1>11. ASSUME NEW e \in Entries, RestoreCollection(e)
      PROVE  OpHasEntry'
    <2>1. op' = [Idle EXCEPT !.pc = "reopened", !.entry = e, !.kept = {World}]
      BY <1>11 DEF RestoreCollection
    <2>2. op'.pc = "reopened" /\ op'.entry = e /\ op'.kept # {}
      BY ONLY <2>1, IdleTyped DEF Idle
    <2>3. store[e] # {} /\ UNCHANGED <<store, made>>
      BY <1>11 DEF RestoreCollection, storeVars
    <2>4. e <= made
      BY <2>3 DEF OneSnapshot, Entries
    <2> QED
      BY <2>2, <2>3, <2>4 DEF OpHasEntry
<1>12. CASE DeleteFolder
  BY <1>12, StageOpHasEntry DEF DeleteFolder
<1>13. CASE RemoveCollection
  BY <1>13, StageOpHasEntry DEF RemoveCollection
<1>14. CASE OpenCollection
    <2>1. UNCHANGED <<op, store, made>>
      BY <1>14 DEF OpenCollection, storeVars
    <2> QED
      BY <2>1 DEF OpHasEntry
<1>15. CASE Persist
    <2>1. UNCHANGED <<op, store, made>>
      BY <1>15 DEF Persist, storeVars
    <2> QED
      BY <2>1 DEF OpHasEntry
<1>16. CASE List
    <2>1. PICK p \in PCs : Goto(p) /\ p \in {"files", "ignore"}
      BY <1>16 DEF List, PCs
    <2>2. op'.pc \in {"files", "ignore"} /\ op'.entry = op.entry /\ op'.kept = op.kept
      BY ONLY <2>1, GotoTyped, StoreTyped, IInv
    <2>3. UNCHANGED <<store, made>> /\ op.pc \in {"list"} \cup Deleting \cup Restoring
      BY <1>16 DEF List, At, storeVars, Deleting, Restoring
    <2> QED
      BY <2>2, <2>3 DEF OpHasEntry, Deleting, Restoring
<1>17. CASE ListFails
    <2>1. op'.pc \in {"idle", "purge"}
      BY <1>17, IdleTyped DEF ListFails, Idle
    <2> QED
      BY <2>1 DEF OpHasEntry, Deleting, Restoring
<1>18. CASE Drop
    <2>1. PICK p \in PCs : Goto(p) /\ p \in {"save"}
      BY <1>18 DEF Drop, PCs
    <2>2. op'.pc \in {"save"} /\ op'.entry = op.entry /\ op'.kept = op.kept
      BY ONLY <2>1, GotoTyped, StoreTyped, IInv
    <2>3. UNCHANGED <<store, made>> /\ op.pc \in {"list"} \cup Deleting \cup Restoring
      BY <1>18 DEF Drop, At, storeVars, Deleting, Restoring
    <2> QED
      BY <2>2, <2>3 DEF OpHasEntry, Deleting, Restoring
<1>19. CASE Unlist
    <2>1. Goto("save") /\ "save" \in PCs /\ made' = made
      BY <1>19 DEF Unlist, PCs
    <2>2. op'.pc = "save" /\ op'.entry = op.entry /\ op'.kept = op.kept
      BY ONLY <2>1, GotoTyped, StoreTyped, IInv
    <2>3. op.pc \in Deleting
      BY <1>19 DEF Unlist, At, Deleting
    <2>4. Entry \in Entries /\ Entry = op.entry
      BY <2>3, WorkingEntry
    <2>5. store'[Entry] # {}
      <3>1. store' = [store EXCEPT ![Entry] = {[Held EXCEPT !.after = {
            [disk |-> disk, app |-> app', ignored |-> FALSE]}]}]
        BY <1>19 DEF Unlist
      <3> QED
        BY ONLY <3>1, <2>4, StoreTyped, IInv
    <2> QED
      BY <2>1, <2>2, <2>3, <2>4, <2>5 DEF OpHasEntry, Deleting
<1>20. CASE SaveState
    <2>1. PICK p \in PCs : Goto(p) /\ p \in {"commit"}
      BY <1>20 DEF SaveState, PCs
    <2>2. op'.pc \in {"commit"} /\ op'.entry = op.entry /\ op'.kept = op.kept
      BY ONLY <2>1, GotoTyped, StoreTyped, IInv
    <2>3. UNCHANGED <<store, made>> /\ op.pc \in {"list"} \cup Deleting \cup Restoring
      BY <1>20 DEF SaveState, At, storeVars, Deleting, Restoring
    <2> QED
      BY <2>2, <2>3 DEF OpHasEntry, Deleting, Restoring
<1>21. CASE Commit
    <2>1. Goto("mark") /\ "mark" \in PCs /\ made' = made
      BY <1>21 DEF Commit, PCs
    <2>2. op'.pc = "mark" /\ op'.entry = op.entry /\ op'.kept = op.kept
      BY ONLY <2>1, GotoTyped, StoreTyped, IInv
    <2>3. op.pc \in Deleting
      BY <1>21 DEF Commit, At, Deleting
    <2>4. Entry \in Entries /\ Entry = op.entry
      BY <2>3, WorkingEntry
    <2>5. store'[Entry] # {}
      <3>1. store' = [store EXCEPT ![Entry] = {[Held EXCEPT !.after = {World}]}]
        BY <1>21 DEF Commit
      <3> QED
        BY ONLY <3>1, <2>4, StoreTyped, IInv
    <2> QED
      BY <2>1, <2>2, <2>3, <2>4, <2>5 DEF OpHasEntry, Deleting
<1>22. CASE Mark
    <2>1. op'.pc \in {"idle", "purge"}
      BY <1>22, IdleTyped DEF Mark, Idle
    <2> QED
      BY <2>1 DEF OpHasEntry, Deleting, Restoring
<1>23. CASE StepFails
    <2>1. PICK p \in PCs : Goto(p) /\ p \in {"undo"}
      BY <1>23 DEF StepFails, PCs
    <2>2. op'.pc \in {"undo"} /\ op'.entry = op.entry /\ op'.kept = op.kept
      BY ONLY <2>1, GotoTyped, StoreTyped, IInv
    <2>3. UNCHANGED <<store, made>> /\ op.pc \in {"list"} \cup Deleting \cup Restoring
      BY <1>23 DEF StepFails, At, storeVars, Deleting, Restoring
    <2> QED
      BY <2>2, <2>3 DEF OpHasEntry, Deleting, Restoring
<1>24. CASE Undo
    <2>1. PICK p \in PCs : Goto(p) /\ p \in {"undoCopy", "undoState"}
      BY <1>24 DEF Undo, PCs
    <2>2. op'.pc \in {"undoCopy", "undoState"} /\ op'.entry = op.entry /\ op'.kept = op.kept
      BY ONLY <2>1, GotoTyped, StoreTyped, IInv
    <2>3. UNCHANGED <<store, made>> /\ op.pc \in {"list"} \cup Deleting \cup Restoring
      BY <1>24 DEF Undo, At, storeVars, Deleting, Restoring
    <2> QED
      BY <2>2, <2>3 DEF OpHasEntry, Deleting, Restoring
<1>25. CASE UndoCopy
    <2>1. PICK p \in PCs : Goto(p) /\ p \in {"undoState"}
      BY <1>25 DEF UndoCopy, PCs
    <2>2. op'.pc \in {"undoState"} /\ op'.entry = op.entry /\ op'.kept = op.kept
      BY ONLY <2>1, GotoTyped, StoreTyped, IInv
    <2>3. UNCHANGED <<store, made>> /\ op.pc \in {"list"} \cup Deleting \cup Restoring
      BY <1>25 DEF UndoCopy, At, storeVars, Deleting, Restoring
    <2> QED
      BY <2>2, <2>3 DEF OpHasEntry, Deleting, Restoring
<1>26. CASE UndoFails
    <2>1. PICK p \in PCs : Goto(p) /\ p \in {"undoState"}
      BY <1>26 DEF UndoFails, PCs
    <2>2. op'.pc \in {"undoState"} /\ op'.entry = op.entry /\ op'.kept = op.kept
      BY ONLY <2>1, GotoTyped, StoreTyped, IInv
    <2>3. UNCHANGED <<store, made>> /\ op.pc \in {"list"} \cup Deleting \cup Restoring
      BY <1>26 DEF UndoFails, At, storeVars, Deleting, Restoring
    <2> QED
      BY <2>2, <2>3 DEF OpHasEntry, Deleting, Restoring
<1>27. CASE UndoState
    <2>1. PICK p \in PCs : Goto(p) /\ p \in {"unlist"}
      BY <1>27 DEF UndoState, PCs
    <2>2. op'.pc \in {"unlist"} /\ op'.entry = op.entry /\ op'.kept = op.kept
      BY ONLY <2>1, GotoTyped, StoreTyped, IInv
    <2>3. UNCHANGED <<store, made>> /\ op.pc \in {"list"} \cup Deleting \cup Restoring
      BY <1>27 DEF UndoState, At, storeVars, Deleting, Restoring
    <2> QED
      BY <2>2, <2>3 DEF OpHasEntry, Deleting, Restoring
<1>28. CASE RemoveFromManifest
    <2>1. Goto("erase") /\ "erase" \in PCs /\ op.pc = "unlist"
      BY <1>28 DEF RemoveFromManifest, PCs, At
    <2>2. op'.pc = "erase" /\ op'.entry = op.entry
      BY ONLY <2>1, GotoTyped, StoreTyped, IInv
    <2> QED
      BY <2>1, <2>2 DEF OpHasEntry, Deleting, Restoring
<1>29. CASE EraseEntry
    <2>1. op'.pc \in {"idle", "purge"}
      BY <1>29, IdleTyped DEF EraseEntry, Idle
    <2> QED
      BY <2>1 DEF OpHasEntry, Deleting, Restoring
<1>30. CASE RemoveEntryFails
    <2>1. op'.pc \in {"idle", "purge"}
      BY <1>30, IdleTyped DEF RemoveEntryFails, Idle
    <2> QED
      BY <2>1 DEF OpHasEntry, Deleting, Restoring
<1>31. CASE PurgeManifest
    <2>1. op'.pc \in {"idle", "purge"}
      BY <1>31, IdleTyped DEF PurgeManifest, Idle
    <2> QED
      BY <2>1 DEF OpHasEntry, Deleting, Restoring
<1>32. CASE RestoreClear
    <2>1. PICK p \in PCs : Goto(p) /\ p \in {"copy"}
      BY <1>32 DEF RestoreClear, PCs
    <2>2. op'.pc \in {"copy"} /\ op'.entry = op.entry /\ op'.kept = op.kept
      BY ONLY <2>1, GotoTyped, StoreTyped, IInv
    <2>3. UNCHANGED <<store, made>> /\ op.pc \in {"list"} \cup Deleting \cup Restoring
      BY <1>32 DEF RestoreClear, At, storeVars, Deleting, Restoring
    <2> QED
      BY <2>2, <2>3 DEF OpHasEntry, Deleting, Restoring
<1>33. CASE RestoreCopy
    <2>1. PICK p \in PCs : Goto(p) /\ p \in {"restored"}
      BY <1>33 DEF RestoreCopy, PCs
    <2>2. op'.pc \in {"restored"} /\ op'.entry = op.entry /\ op'.kept = op.kept
      BY ONLY <2>1, GotoTyped, StoreTyped, IInv
    <2>3. UNCHANGED <<store, made>> /\ op.pc \in {"list"} \cup Deleting \cup Restoring
      BY <1>33 DEF RestoreCopy, At, storeVars, Deleting, Restoring
    <2> QED
      BY <2>2, <2>3 DEF OpHasEntry, Deleting, Restoring
<1>34. CASE RestoreFails
    <2>1. op'.pc \in {"idle", "purge"}
      BY <1>34, IdleTyped DEF RestoreFails, Idle
    <2> QED
      BY <2>1 DEF OpHasEntry, Deleting, Restoring
<1>35. CASE RestoreState
    <2>1. op' = Idle \/ Goto("unlist")
      BY <1>35 DEF RestoreState
    <2>2. op.entry \in Entries
      BY <1>35, WorkingEntry DEF RestoreState, At, Restoring
    <2>3. \/ op'.pc = "idle"
          \/ op'.pc = "unlist" /\ op'.entry = op.entry
      BY <2>1, GotoTyped, IdleTyped DEF PCs
    <2> QED
      BY <2>2, <2>3 DEF OpHasEntry, Deleting, Restoring
<1>36. CASE ReopenCollection
    <2>1. op' = Idle \/ Goto("unlist")
      BY <1>36 DEF ReopenCollection
    <2>2. op.entry \in Entries
      BY <1>36, WorkingEntry DEF ReopenCollection, At, Restoring
    <2>3. \/ op'.pc = "idle"
          \/ op'.pc = "unlist" /\ op'.entry = op.entry
      BY <2>1, GotoTyped, IdleTyped DEF PCs
    <2> QED
      BY <2>2, <2>3 DEF OpHasEntry, Deleting, Restoring
<1>37. CASE Crash
    <2>1. op'.pc \in {"idle", "purge"}
      BY <1>37, IdleTyped DEF Crash, Idle
    <2> QED
      BY <2>1 DEF OpHasEntry, Deleting, Restoring
<1>38. CASE UNCHANGED vars
  BY <1>38 DEF vars, storeVars, OpHasEntry
<1>. QED
  BY <1>1, <1>2, <1>3, <1>4, <1>5, <1>6, <1>7, <1>8, <1>9, <1>10, <1>11,
       <1>12, <1>13, <1>14, <1>15, <1>16, <1>17, <1>18, <1>19, <1>20, <1>21,
       <1>22, <1>23, <1>24, <1>25, <1>26, <1>27, <1>28, <1>29, <1>30, <1>31,
       <1>32, <1>33, <1>34, <1>35, <1>36, <1>37, <1>38 DEF RecoveryNext
(* Unlist and Commit write the snapshot of their entry again, with what    *)
(* the deletion left.                                                      *)
LEMMA WrittenAfter ==
    ASSUME IInv, Unlist \/ Commit
    PROVE  /\ Entry \in Entries /\ manifest[Entry] = "staged" /\ UNCHANGED manifest
           /\ \A s \in store'[Entry] : s.after # {}
           /\ \A e \in Entries \ {Entry} : store'[e] = store[e]
  <1>1. op.pc \in Deleting
    BY DEF Unlist, Commit, At, Deleting
  <1>2. Entry \in Entries /\ Entry = op.entry /\ Held \in Snapshots
    BY <1>1, WorkingEntry
  <1>3. PICK w : store' = [store EXCEPT ![Entry] = {[Held EXCEPT !.after = {w}]}]
    BY DEF Unlist, Commit
  <1>4. [Held EXCEPT !.after = {w}].after = {w}
    BY ONLY <1>2 DEF Snapshots
  <1>5. store'[Entry] = {[Held EXCEPT !.after = {w}]}
        /\ \A e \in Entries \ {Entry} : store'[e] = store[e]
    BY ONLY <1>2, <1>3, StoreTyped, IInv
  <1>6. UNCHANGED manifest
    BY DEF Unlist, Commit
  <1> QED
    BY <1>1, <1>2, <1>4, <1>5, <1>6, StoreTyped DEF EntryFollowsOp

LEMMA StageEntryFollowsOp ==
    ASSUME IInv, NEW tree, NEW T, Stage(tree, T) PROVE EntryFollowsOp'
  <1>1. op'.pc = "list" /\ op'.entry = made' /\ UNCHANGED manifest
    BY DEF Stage, storeVars
  <1>2. made' = made + 1 /\ made < MaxEntries
    BY DEF Stage
  <1>3. made' \in Entries
    BY <1>2, RecoveryAssumption, StoreTyped DEF Entries
  <1>4. manifest[made'] = "none"
    BY <1>2, <1>3, StoreTyped DEF OneSnapshot
  <1> QED
    BY <1>1, <1>4 DEF EntryFollowsOp, Deleting

(* The manifest follows the operation.                                     *)
LEMMA EntryFollowsOpStep ==
    ASSUME IInv, [RecoveryNext]_vars PROVE EntryFollowsOp'
PROOF
<1> USE IInv, StoreTyped, Numbers
<1>1. ASSUME NEW r \in Requests, UpdateRequest(r)
      PROVE  EntryFollowsOp'
    <2>1. UNCHANGED <<op, store, manifest>>
      BY <1>1 DEF UpdateRequest, storeVars
    <2> QED
      BY <2>1 DEF EntryFollowsOp
<1>2. ASSUME NEW r \in Requests, CreateRequest(r)
      PROVE  EntryFollowsOp'
    <2>1. UNCHANGED <<op, store, manifest>>
      BY <1>2 DEF CreateRequest, storeVars
    <2> QED
      BY <2>1 DEF EntryFollowsOp
<1>3. ASSUME NEW r \in Requests, SaveRequest(r)
      PROVE  EntryFollowsOp'
    <2>1. UNCHANGED <<op, store, manifest>>
      BY <1>3 DEF SaveRequest, storeVars
    <2> QED
      BY <2>1 DEF EntryFollowsOp
<1>4. ASSUME NEW r \in Requests, CloseTab(r)
      PROVE  EntryFollowsOp'
    <2>1. UNCHANGED <<op, store, manifest>>
      BY <1>4 DEF CloseTab, storeVars
    <2> QED
      BY <2>1 DEF EntryFollowsOp
<1>5. ASSUME NEW r \in Requests, DeleteRequest(r)
      PROVE  EntryFollowsOp'
    <2>1. Stage(TRUE, {r})
      BY <1>5 DEF DeleteRequest
    <2> QED
      BY ONLY <2>1, StageEntryFollowsOp, IInv
<1>6. ASSUME NEW r \in Requests, RemoveFile(r)
      PROVE  EntryFollowsOp'
    <2>1. UNCHANGED <<op, store, manifest>>
      BY <1>6 DEF RemoveFile, storeVars
    <2> QED
      BY <2>1 DEF EntryFollowsOp
<1>7. ASSUME NEW e \in Entries, Expire(e)
      PROVE  EntryFollowsOp'
    <2>1. UNCHANGED <<op, store, manifest>>
      BY <1>7 DEF Expire, storeVars
    <2> QED
      BY <2>1 DEF EntryFollowsOp
<1>8. ASSUME NEW e \in Entries, Discard(e)
      PROVE  EntryFollowsOp'
    <2>1. op' = [Idle EXCEPT !.pc = "unlist", !.entry = e]
      BY <1>8 DEF Discard
    <2>2. op'.pc = "unlist"
      BY ONLY <2>1, IdleTyped DEF Idle
    <2> QED
      BY <2>2 DEF EntryFollowsOp, Deleting
<1>9. ASSUME NEW e \in Entries, PurgeErase(e)
      PROVE  EntryFollowsOp'
    <2>1. op'.pc \in {"idle", "purge"}
      BY <1>9, IdleTyped DEF PurgeErase, Idle
    <2> QED
      BY <2>1 DEF EntryFollowsOp, Deleting
<1>10. ASSUME NEW e \in Entries, RestoreTree(e)
      PROVE  EntryFollowsOp'
    <2>1. op' = [Idle EXCEPT !.pc = "clear", !.entry = e, !.kept = {World}]
      BY <1>10 DEF RestoreTree
    <2>2. op'.pc = "clear"
      BY ONLY <2>1, IdleTyped DEF Idle
    <2> QED
      BY <2>2 DEF EntryFollowsOp, Deleting
<1>11. ASSUME NEW e \in Entries, RestoreCollection(e)
      PROVE  EntryFollowsOp'
    <2>1. op' = [Idle EXCEPT !.pc = "reopened", !.entry = e, !.kept = {World}]
      BY <1>11 DEF RestoreCollection
    <2>2. op'.pc = "reopened"
      BY ONLY <2>1, IdleTyped DEF Idle
    <2> QED
      BY <2>2 DEF EntryFollowsOp, Deleting
<1>12. CASE DeleteFolder
    <2>1. Stage(TRUE, Folder)
      BY <1>12 DEF DeleteFolder
    <2> QED
      BY ONLY <2>1, StageEntryFollowsOp, IInv
<1>13. CASE RemoveCollection
    <2>1. Stage(FALSE, {})
      BY <1>13 DEF RemoveCollection
    <2> QED
      BY ONLY <2>1, StageEntryFollowsOp, IInv
<1>14. CASE OpenCollection
    <2>1. UNCHANGED <<op, store, manifest>>
      BY <1>14 DEF OpenCollection, storeVars
    <2> QED
      BY <2>1 DEF EntryFollowsOp
<1>15. CASE Persist
    <2>1. UNCHANGED <<op, store, manifest>>
      BY <1>15 DEF Persist, storeVars
    <2> QED
      BY <2>1 DEF EntryFollowsOp
<1>16. CASE List
    <2>1. PICK p \in PCs : Goto(p) /\ p \in {"files", "ignore"}
      BY <1>16 DEF List, PCs
    <2>2. op'.pc \in {"files", "ignore"} /\ op'.entry = op.entry
      BY ONLY <2>1, GotoTyped, StoreTyped, IInv
    <2>3. Entry \in Entries /\ Entry = op.entry
      BY <1>16, WorkingEntry DEF List, At
    <2>4. manifest'[Entry] = "staged"
      BY <1>16, <2>3 DEF List
    <2> QED
      BY <2>2, <2>3, <2>4 DEF EntryFollowsOp
<1>17. CASE ListFails
    <2>1. op'.pc \in {"idle", "purge"}
      BY <1>17, IdleTyped DEF ListFails, Idle
    <2> QED
      BY <2>1 DEF EntryFollowsOp, Deleting
<1>18. CASE Drop
    <2>1. PICK p \in PCs : Goto(p) /\ p \in {"save"}
      BY <1>18 DEF Drop, PCs
    <2>2. op'.pc \in {"save"} /\ op'.entry = op.entry
      BY ONLY <2>1, GotoTyped, StoreTyped, IInv
    <2>3. UNCHANGED <<store, manifest>> /\ op.pc \in Deleting
      BY <1>18 DEF Drop, At, storeVars, Deleting
    <2> QED
      BY <2>2, <2>3 DEF EntryFollowsOp, Deleting
<1>19. CASE Unlist
    <2>1. Goto("save") /\ "save" \in PCs /\ manifest' = manifest
      BY <1>19 DEF Unlist, PCs
    <2>2. op'.pc = "save" /\ op'.entry = op.entry
      BY ONLY <2>1, GotoTyped, StoreTyped, IInv
    <2>3. op.pc \in Deleting
      BY <1>19 DEF Unlist, At, Deleting
    <2> QED
      BY <2>1, <2>2, <2>3 DEF EntryFollowsOp
<1>20. CASE SaveState
    <2>1. PICK p \in PCs : Goto(p) /\ p \in {"commit"}
      BY <1>20 DEF SaveState, PCs
    <2>2. op'.pc \in {"commit"} /\ op'.entry = op.entry
      BY ONLY <2>1, GotoTyped, StoreTyped, IInv
    <2>3. UNCHANGED <<store, manifest>> /\ op.pc \in Deleting
      BY <1>20 DEF SaveState, At, storeVars, Deleting
    <2> QED
      BY <2>2, <2>3 DEF EntryFollowsOp, Deleting
<1>21. CASE Commit
    <2>1. Goto("mark") /\ "mark" \in PCs /\ manifest' = manifest
      BY <1>21 DEF Commit, PCs
    <2>2. op'.pc = "mark" /\ op'.entry = op.entry
      BY ONLY <2>1, GotoTyped, StoreTyped, IInv
    <2>3. op.pc \in Deleting
      BY <1>21 DEF Commit, At, Deleting
    <2>4. Entry \in Entries /\ Entry = op.entry
      BY <2>3, WorkingEntry
    <2>5. \A s \in store'[Entry] : s.after # {}
      BY <1>21, WrittenAfter
    <2> QED
      BY <2>1, <2>2, <2>3, <2>4, <2>5 DEF EntryFollowsOp
<1>22. CASE Mark
    <2>1. op'.pc \in {"idle", "purge"}
      BY <1>22, IdleTyped DEF Mark, Idle
    <2> QED
      BY <2>1 DEF EntryFollowsOp, Deleting
<1>23. CASE StepFails
    <2>1. PICK p \in PCs : Goto(p) /\ p \in {"undo"}
      BY <1>23 DEF StepFails, PCs
    <2>2. op'.pc \in {"undo"} /\ op'.entry = op.entry
      BY ONLY <2>1, GotoTyped, StoreTyped, IInv
    <2>3. UNCHANGED <<store, manifest>> /\ op.pc \in Deleting
      BY <1>23 DEF StepFails, At, storeVars, Deleting
    <2> QED
      BY <2>2, <2>3 DEF EntryFollowsOp, Deleting
<1>24. CASE Undo
    <2>1. PICK p \in PCs : Goto(p) /\ p \in {"undoCopy", "undoState"}
      BY <1>24 DEF Undo, PCs
    <2>2. op'.pc \in {"undoCopy", "undoState"} /\ op'.entry = op.entry
      BY ONLY <2>1, GotoTyped, StoreTyped, IInv
    <2>3. UNCHANGED <<store, manifest>> /\ op.pc \in Deleting
      BY <1>24 DEF Undo, At, storeVars, Deleting
    <2> QED
      BY <2>2, <2>3 DEF EntryFollowsOp, Deleting
<1>25. CASE UndoCopy
    <2>1. PICK p \in PCs : Goto(p) /\ p \in {"undoState"}
      BY <1>25 DEF UndoCopy, PCs
    <2>2. op'.pc \in {"undoState"} /\ op'.entry = op.entry
      BY ONLY <2>1, GotoTyped, StoreTyped, IInv
    <2>3. UNCHANGED <<store, manifest>> /\ op.pc \in Deleting
      BY <1>25 DEF UndoCopy, At, storeVars, Deleting
    <2> QED
      BY <2>2, <2>3 DEF EntryFollowsOp, Deleting
<1>26. CASE UndoFails
    <2>1. PICK p \in PCs : Goto(p) /\ p \in {"undoState"}
      BY <1>26 DEF UndoFails, PCs
    <2>2. op'.pc \in {"undoState"} /\ op'.entry = op.entry
      BY ONLY <2>1, GotoTyped, StoreTyped, IInv
    <2>3. UNCHANGED <<store, manifest>> /\ op.pc \in Deleting
      BY <1>26 DEF UndoFails, At, storeVars, Deleting
    <2> QED
      BY <2>2, <2>3 DEF EntryFollowsOp, Deleting
<1>27. CASE UndoState
    <2>1. Goto("unlist") /\ "unlist" \in PCs
      BY <1>27 DEF UndoState, PCs
    <2>2. op'.pc = "unlist"
      BY ONLY <2>1, GotoTyped, StoreTyped, IInv
    <2> QED
      BY <2>2 DEF EntryFollowsOp, Deleting
<1>28. CASE RemoveFromManifest
    <2>1. Goto("erase") /\ "erase" \in PCs /\ op.pc = "unlist"
      BY <1>28 DEF RemoveFromManifest, PCs, At
    <2>2. op'.pc = "erase" /\ op'.entry = op.entry
      BY ONLY <2>1, GotoTyped, StoreTyped, IInv
    <2>3. manifest'[op.entry] = "none"
      BY <1>28, <2>1 DEF RemoveFromManifest, Entry, OpHasEntry
    <2> QED
      BY <2>2, <2>3 DEF EntryFollowsOp, Deleting
<1>29. CASE EraseEntry
    <2>1. op'.pc \in {"idle", "purge"}
      BY <1>29, IdleTyped DEF EraseEntry, Idle
    <2> QED
      BY <2>1 DEF EntryFollowsOp, Deleting
<1>30. CASE RemoveEntryFails
    <2>1. op'.pc \in {"idle", "purge"}
      BY <1>30, IdleTyped DEF RemoveEntryFails, Idle
    <2> QED
      BY <2>1 DEF EntryFollowsOp, Deleting
<1>31. CASE PurgeManifest
    <2>1. op'.pc \in {"idle", "purge"}
      BY <1>31, IdleTyped DEF PurgeManifest, Idle
    <2> QED
      BY <2>1 DEF EntryFollowsOp, Deleting
<1>32. CASE RestoreClear
    <2>1. Goto("copy") /\ "copy" \in PCs
      BY <1>32 DEF RestoreClear, PCs
    <2>2. op'.pc = "copy"
      BY ONLY <2>1, GotoTyped, StoreTyped, IInv
    <2> QED
      BY <2>2 DEF EntryFollowsOp, Deleting
<1>33. CASE RestoreCopy
    <2>1. Goto("restored") /\ "restored" \in PCs
      BY <1>33 DEF RestoreCopy, PCs
    <2>2. op'.pc = "restored"
      BY ONLY <2>1, GotoTyped, StoreTyped, IInv
    <2> QED
      BY <2>2 DEF EntryFollowsOp, Deleting
<1>34. CASE RestoreFails
    <2>1. op'.pc \in {"idle", "purge"}
      BY <1>34, IdleTyped DEF RestoreFails, Idle
    <2> QED
      BY <2>1 DEF EntryFollowsOp, Deleting
<1>35. CASE RestoreState
    <2>1. op' = Idle \/ Goto("unlist")
      BY <1>35 DEF RestoreState
    <2>2. op'.pc \in {"idle", "unlist"}
      BY <2>1, GotoTyped, IdleTyped DEF PCs
    <2> QED
      BY <2>2 DEF EntryFollowsOp, Deleting
<1>36. CASE ReopenCollection
    <2>1. op' = Idle \/ Goto("unlist")
      BY <1>36 DEF ReopenCollection
    <2>2. op'.pc \in {"idle", "unlist"}
      BY <2>1, GotoTyped, IdleTyped DEF PCs
    <2> QED
      BY <2>2 DEF EntryFollowsOp, Deleting
<1>37. CASE Crash
    <2>1. op'.pc \in {"idle", "purge"}
      BY <1>37, IdleTyped DEF Crash, Idle
    <2> QED
      BY <2>1 DEF EntryFollowsOp, Deleting
<1>38. CASE UNCHANGED vars
  BY <1>38 DEF vars, storeVars, EntryFollowsOp
<1>. QED
  BY <1>1, <1>2, <1>3, <1>4, <1>5, <1>6, <1>7, <1>8, <1>9, <1>10, <1>11,
       <1>12, <1>13, <1>14, <1>15, <1>16, <1>17, <1>18, <1>19, <1>20, <1>21,
       <1>22, <1>23, <1>24, <1>25, <1>26, <1>27, <1>28, <1>29, <1>30, <1>31,
       <1>32, <1>33, <1>34, <1>35, <1>36, <1>37, <1>38 DEF RecoveryNext
(* A restore puts back the files of its snapshot.                          *)
LEMMA RestoreFollowsSnapshotStep ==
    ASSUME IInv, [RecoveryNext]_vars PROVE RestoreFollowsSnapshot'
PROOF
<1> USE IInv, StoreTyped, Numbers
<1>1. ASSUME NEW r \in Requests, UpdateRequest(r)
      PROVE  RestoreFollowsSnapshot'
    <2>1. UNCHANGED <<op, store, disk>>
      BY <1>1 DEF UpdateRequest, storeVars
    <2> QED
      BY <2>1 DEF RestoreFollowsSnapshot
<1>2. ASSUME NEW r \in Requests, CreateRequest(r)
      PROVE  RestoreFollowsSnapshot'
    <2>1. UNCHANGED <<op, store, disk>>
      BY <1>2 DEF CreateRequest, storeVars
    <2> QED
      BY <2>1 DEF RestoreFollowsSnapshot
<1>3. ASSUME NEW r \in Requests, SaveRequest(r)
      PROVE  RestoreFollowsSnapshot'
    <2>1. UNCHANGED op /\ op.pc \in {"idle", "files"}
      BY <1>3 DEF SaveRequest, At
    <2> QED
      BY <2>1 DEF RestoreFollowsSnapshot
<1>4. ASSUME NEW r \in Requests, CloseTab(r)
      PROVE  RestoreFollowsSnapshot'
    <2>1. UNCHANGED <<op, store, disk>>
      BY <1>4 DEF CloseTab, storeVars
    <2> QED
      BY <2>1 DEF RestoreFollowsSnapshot
<1>5. ASSUME NEW r \in Requests, DeleteRequest(r)
      PROVE  RestoreFollowsSnapshot'
    <2>1. Stage(TRUE, {r})
      BY <1>5 DEF DeleteRequest
    <2>2. op'.pc = "list"
      BY ONLY <2>1 DEF Stage
    <2> QED
      BY <2>2 DEF RestoreFollowsSnapshot
<1>6. ASSUME NEW r \in Requests, RemoveFile(r)
      PROVE  RestoreFollowsSnapshot'
    <2>1. UNCHANGED op /\ op.pc \in {"idle", "files"}
      BY <1>6 DEF RemoveFile, At
    <2> QED
      BY <2>1 DEF RestoreFollowsSnapshot
<1>7. ASSUME NEW e \in Entries, Expire(e)
      PROVE  RestoreFollowsSnapshot'
    <2>1. UNCHANGED <<op, store, disk>>
      BY <1>7 DEF Expire, storeVars, worldVars
    <2> QED
      BY <2>1 DEF RestoreFollowsSnapshot
<1>8. ASSUME NEW e \in Entries, Discard(e)
      PROVE  RestoreFollowsSnapshot'
    <2>1. op' = [Idle EXCEPT !.pc = "unlist", !.entry = e]
      BY <1>8 DEF Discard
    <2>2. op'.pc = "unlist"
      BY ONLY <2>1, IdleTyped DEF Idle
    <2> QED
      BY <2>2 DEF RestoreFollowsSnapshot
<1>9. ASSUME NEW e \in Entries, PurgeErase(e)
      PROVE  RestoreFollowsSnapshot'
    <2>1. op'.pc \in {"idle", "purge"}
      BY <1>9, IdleTyped DEF PurgeErase, Idle
    <2> QED
      BY <2>1 DEF RestoreFollowsSnapshot
<1>10. ASSUME NEW e \in Entries, RestoreTree(e)
      PROVE  RestoreFollowsSnapshot'
    <2>1. op' = [Idle EXCEPT !.pc = "clear", !.entry = e, !.kept = {World}]
      BY <1>10 DEF RestoreTree
    <2>2. op'.pc = "clear" /\ op'.entry = e
      BY ONLY <2>1, IdleTyped DEF Idle
    <2>3. \E s \in store[e] : s.tree
      BY <1>10 DEF RestoreTree
    <2>4. \A s \in store[e] : s.tree
      BY <2>3 DEF OneSnapshot
    <2>5. UNCHANGED store
      BY <1>10 DEF RestoreTree, storeVars
    <2> QED
      BY <2>2, <2>4, <2>5 DEF RestoreFollowsSnapshot
<1>11. ASSUME NEW e \in Entries, RestoreCollection(e)
      PROVE  RestoreFollowsSnapshot'
    <2>1. op' = [Idle EXCEPT !.pc = "reopened", !.entry = e, !.kept = {World}]
      BY <1>11 DEF RestoreCollection
    <2>2. op'.pc = "reopened" /\ op'.entry = e
      BY ONLY <2>1, IdleTyped DEF Idle
    <2>3. \E s \in store[e] : ~s.tree
      BY <1>11 DEF RestoreCollection
    <2>4. \A s \in store[e] : ~s.tree
      BY <2>3 DEF OneSnapshot
    <2>5. UNCHANGED store
      BY <1>11 DEF RestoreCollection, storeVars
    <2> QED
      BY <2>2, <2>4, <2>5 DEF RestoreFollowsSnapshot
<1>12. CASE DeleteFolder
    <2>1. Stage(TRUE, Folder)
      BY <1>12 DEF DeleteFolder
    <2>2. op'.pc = "list"
      BY ONLY <2>1 DEF Stage
    <2> QED
      BY <2>2 DEF RestoreFollowsSnapshot
<1>13. CASE RemoveCollection
    <2>1. Stage(FALSE, {})
      BY <1>13 DEF RemoveCollection
    <2>2. op'.pc = "list"
      BY ONLY <2>1 DEF Stage
    <2> QED
      BY <2>2 DEF RestoreFollowsSnapshot
<1>14. CASE OpenCollection
    <2>1. UNCHANGED <<op, store, disk>>
      BY <1>14 DEF OpenCollection, storeVars
    <2> QED
      BY <2>1 DEF RestoreFollowsSnapshot
<1>15. CASE Persist
    <2>1. UNCHANGED <<op, store, disk>>
      BY <1>15 DEF Persist, storeVars, worldVars
    <2> QED
      BY <2>1 DEF RestoreFollowsSnapshot
<1>16. CASE List
    <2>1. PICK p \in PCs : Goto(p) /\ p \in {"files", "ignore"}
      BY <1>16 DEF List, PCs
    <2>2. op'.pc \in {"files", "ignore"}
      BY ONLY <2>1, GotoTyped, StoreTyped, IInv
    <2> QED
      BY <2>2 DEF RestoreFollowsSnapshot
<1>17. CASE ListFails
    <2>1. op'.pc \in {"idle", "purge"}
      BY <1>17, IdleTyped DEF ListFails, Idle
    <2> QED
      BY <2>1 DEF RestoreFollowsSnapshot
<1>18. CASE Drop
    <2>1. PICK p \in PCs : Goto(p) /\ p \in {"save"}
      BY <1>18 DEF Drop, PCs
    <2>2. op'.pc \in {"save"}
      BY ONLY <2>1, GotoTyped, StoreTyped, IInv
    <2> QED
      BY <2>2 DEF RestoreFollowsSnapshot
<1>19. CASE Unlist
    <2>1. PICK p \in PCs : Goto(p) /\ p \in {"save"}
      BY <1>19 DEF Unlist, PCs
    <2>2. op'.pc \in {"save"}
      BY ONLY <2>1, GotoTyped, StoreTyped, IInv
    <2> QED
      BY <2>2 DEF RestoreFollowsSnapshot
<1>20. CASE SaveState
    <2>1. PICK p \in PCs : Goto(p) /\ p \in {"commit"}
      BY <1>20 DEF SaveState, PCs
    <2>2. op'.pc \in {"commit"}
      BY ONLY <2>1, GotoTyped, StoreTyped, IInv
    <2> QED
      BY <2>2 DEF RestoreFollowsSnapshot
<1>21. CASE Commit
    <2>1. PICK p \in PCs : Goto(p) /\ p \in {"mark"}
      BY <1>21 DEF Commit, PCs
    <2>2. op'.pc \in {"mark"}
      BY ONLY <2>1, GotoTyped, StoreTyped, IInv
    <2> QED
      BY <2>2 DEF RestoreFollowsSnapshot
<1>22. CASE Mark
    <2>1. op'.pc \in {"idle", "purge"}
      BY <1>22, IdleTyped DEF Mark, Idle
    <2> QED
      BY <2>1 DEF RestoreFollowsSnapshot
<1>23. CASE StepFails
    <2>1. PICK p \in PCs : Goto(p) /\ p \in {"undo"}
      BY <1>23 DEF StepFails, PCs
    <2>2. op'.pc \in {"undo"}
      BY ONLY <2>1, GotoTyped, StoreTyped, IInv
    <2> QED
      BY <2>2 DEF RestoreFollowsSnapshot
<1>24. CASE Undo
    <2>1. PICK p \in PCs : Goto(p) /\ p \in {"undoCopy", "undoState"}
      BY <1>24 DEF Undo, PCs
    <2>2. op'.pc \in {"undoCopy", "undoState"}
      BY ONLY <2>1, GotoTyped, StoreTyped, IInv
    <2> QED
      BY <2>2 DEF RestoreFollowsSnapshot
<1>25. CASE UndoCopy
    <2>1. PICK p \in PCs : Goto(p) /\ p \in {"undoState"}
      BY <1>25 DEF UndoCopy, PCs
    <2>2. op'.pc \in {"undoState"}
      BY ONLY <2>1, GotoTyped, StoreTyped, IInv
    <2> QED
      BY <2>2 DEF RestoreFollowsSnapshot
<1>26. CASE UndoFails
    <2>1. PICK p \in PCs : Goto(p) /\ p \in {"undoState"}
      BY <1>26 DEF UndoFails, PCs
    <2>2. op'.pc \in {"undoState"}
      BY ONLY <2>1, GotoTyped, StoreTyped, IInv
    <2> QED
      BY <2>2 DEF RestoreFollowsSnapshot
<1>27. CASE UndoState
    <2>1. PICK p \in PCs : Goto(p) /\ p \in {"unlist"}
      BY <1>27 DEF UndoState, PCs
    <2>2. op'.pc \in {"unlist"}
      BY ONLY <2>1, GotoTyped, StoreTyped, IInv
    <2> QED
      BY <2>2 DEF RestoreFollowsSnapshot
<1>28. CASE RemoveFromManifest
    <2>1. PICK p \in PCs : Goto(p) /\ p \in {"erase"}
      BY <1>28 DEF RemoveFromManifest, PCs
    <2>2. op'.pc \in {"erase"}
      BY ONLY <2>1, GotoTyped, StoreTyped, IInv
    <2> QED
      BY <2>2 DEF RestoreFollowsSnapshot
<1>29. CASE EraseEntry
    <2>1. op'.pc \in {"idle", "purge"}
      BY <1>29, IdleTyped DEF EraseEntry, Idle
    <2> QED
      BY <2>1 DEF RestoreFollowsSnapshot
<1>30. CASE RemoveEntryFails
    <2>1. op'.pc \in {"idle", "purge"}
      BY <1>30, IdleTyped DEF RemoveEntryFails, Idle
    <2> QED
      BY <2>1 DEF RestoreFollowsSnapshot
<1>31. CASE PurgeManifest
    <2>1. op'.pc \in {"idle", "purge"}
      BY <1>31, IdleTyped DEF PurgeManifest, Idle
    <2> QED
      BY <2>1 DEF RestoreFollowsSnapshot
<1>32. CASE RestoreClear
    <2>1. Goto("copy") /\ "copy" \in PCs /\ UNCHANGED store /\ op.pc = "clear"
      BY <1>32 DEF RestoreClear, PCs, storeVars, At
    <2>2. op'.pc = "copy" /\ op'.entry = op.entry
      BY ONLY <2>1, GotoTyped, StoreTyped, IInv
    <2> QED
      BY <2>1, <2>2 DEF RestoreFollowsSnapshot
<1>33. CASE RestoreCopy
    <2>1. Goto("restored") /\ "restored" \in PCs /\ UNCHANGED store /\ op.pc = "copy"
      BY <1>33 DEF RestoreCopy, PCs, storeVars, At
    <2>2. op'.pc = "restored" /\ op'.entry = op.entry
      BY ONLY <2>1, GotoTyped, StoreTyped, IInv
    <2>3. store[op.entry] = {Held}
      BY <2>1, WorkingEntry DEF Restoring
    <2>4. disk' = Held.before.disk
      BY <1>33 DEF RestoreCopy
    <2> QED
      BY <2>1, <2>2, <2>3, <2>4 DEF RestoreFollowsSnapshot
<1>34. CASE RestoreFails
    <2>1. op'.pc \in {"idle", "purge"}
      BY <1>34, IdleTyped DEF RestoreFails, Idle
    <2> QED
      BY <2>1 DEF RestoreFollowsSnapshot
<1>35. CASE RestoreState
    <2>1. op' = Idle \/ Goto("unlist")
      BY <1>35 DEF RestoreState
    <2>2. op'.pc \in {"idle", "unlist"}
      BY <2>1, GotoTyped, IdleTyped DEF PCs
    <2> QED
      BY <2>2 DEF RestoreFollowsSnapshot
<1>36. CASE ReopenCollection
    <2>1. op' = Idle \/ Goto("unlist")
      BY <1>36 DEF ReopenCollection
    <2>2. op'.pc \in {"idle", "unlist"}
      BY <2>1, GotoTyped, IdleTyped DEF PCs
    <2> QED
      BY <2>2 DEF RestoreFollowsSnapshot
<1>37. CASE Crash
    <2>1. op'.pc \in {"idle", "purge"}
      BY <1>37, IdleTyped DEF Crash, Idle
    <2> QED
      BY <2>1 DEF RestoreFollowsSnapshot
<1>38. CASE UNCHANGED vars
  BY <1>38 DEF vars, storeVars, worldVars, RestoreFollowsSnapshot
<1>. QED
  BY <1>1, <1>2, <1>3, <1>4, <1>5, <1>6, <1>7, <1>8, <1>9, <1>10, <1>11,
       <1>12, <1>13, <1>14, <1>15, <1>16, <1>17, <1>18, <1>19, <1>20, <1>21,
       <1>22, <1>23, <1>24, <1>25, <1>26, <1>27, <1>28, <1>29, <1>30, <1>31,
       <1>32, <1>33, <1>34, <1>35, <1>36, <1>37, <1>38 DEF RecoveryNext
(* An entry that was restorable before a step, and whose snapshot the step *)
(* leaves alone, stays complete.                                           *)
LEMMA RestorableKept ==
    ASSUME IInv, expired \subseteq expired',
           \A e \in Entries : manifest'[e] = "restorable" => manifest[e] = "restorable",
           \A e \in Entries : manifest[e] = "restorable" /\ e \notin expired
                                  => store'[e] = store[e]
    PROVE  RestorableIsComplete'
  BY DEF IInv, RestorableIsComplete, Restorable

LEMMA StageComplete ==
    ASSUME IInv, NEW tree, NEW T, Stage(tree, T) PROVE RestorableIsComplete'
  <1>1. made' = made + 1 /\ made < MaxEntries
    BY DEF Stage
  <1>2. made' \in Entries
    BY <1>1, RecoveryAssumption, StoreTyped DEF Entries
  <1>3. manifest[made'] = "none"
    BY <1>1, <1>2, StoreTyped DEF OneSnapshot
  <1>4. PICK x : store' = [store EXCEPT ![made'] = {x}]
    BY DEF Stage
  <1>5. UNCHANGED <<manifest, expired>>
    BY DEF Stage
  <1> QED
    BY <1>3, <1>4, <1>5, StoreTyped, RestorableKept

(* Only a committed deletion makes an entry restorable.                    *)
LEMMA RestorableIsCompleteStep ==
    ASSUME IInv, [RecoveryNext]_vars PROVE RestorableIsComplete'
PROOF
<1> USE IInv, StoreTyped DEF IInv
<1>1. ASSUME NEW r \in Requests, UpdateRequest(r)
      PROVE  RestorableIsComplete'
    <2>1. UNCHANGED storeVars /\ expired \subseteq expired'
      BY <1>1 DEF UpdateRequest
    <2> QED
      BY <2>1, RestorableKept DEF storeVars
<1>2. ASSUME NEW r \in Requests, CreateRequest(r)
      PROVE  RestorableIsComplete'
    <2>1. UNCHANGED storeVars /\ expired \subseteq expired'
      BY <1>2 DEF CreateRequest
    <2> QED
      BY <2>1, RestorableKept DEF storeVars
<1>3. ASSUME NEW r \in Requests, SaveRequest(r)
      PROVE  RestorableIsComplete'
    <2>1. UNCHANGED storeVars /\ expired \subseteq expired'
      BY <1>3 DEF SaveRequest
    <2> QED
      BY <2>1, RestorableKept DEF storeVars
<1>4. ASSUME NEW r \in Requests, CloseTab(r)
      PROVE  RestorableIsComplete'
    <2>1. UNCHANGED storeVars /\ expired \subseteq expired'
      BY <1>4 DEF CloseTab
    <2> QED
      BY <2>1, RestorableKept DEF storeVars
<1>5. ASSUME NEW r \in Requests, DeleteRequest(r)
      PROVE  RestorableIsComplete'
    <2>1. Stage(TRUE, {r})
      BY <1>5 DEF DeleteRequest
    <2> QED
      BY ONLY <2>1, StageComplete, IInv
<1>6. ASSUME NEW r \in Requests, RemoveFile(r)
      PROVE  RestorableIsComplete'
    <2>1. UNCHANGED storeVars /\ expired \subseteq expired'
      BY <1>6 DEF RemoveFile
    <2> QED
      BY <2>1, RestorableKept DEF storeVars
<1>7. ASSUME NEW e \in Entries, Expire(e)
      PROVE  RestorableIsComplete'
    <2>1. UNCHANGED storeVars /\ expired \subseteq expired'
      BY <1>7 DEF Expire
    <2> QED
      BY <2>1, RestorableKept DEF storeVars
<1>8. ASSUME NEW e \in Entries, Discard(e)
      PROVE  RestorableIsComplete'
    <2>1. UNCHANGED storeVars /\ expired \subseteq expired'
      BY <1>8 DEF Discard
    <2> QED
      BY <2>1, RestorableKept DEF storeVars
<1>9. ASSUME NEW e \in Entries, PurgeErase(e)
      PROVE  RestorableIsComplete'
    <2>1. store' = [store EXCEPT ![e] = {}] /\ e \in expired
          /\ UNCHANGED <<manifest, expired>>
      BY <1>9 DEF PurgeErase
    <2> QED
      BY <2>1, RestorableKept
<1>10. ASSUME NEW e \in Entries, RestoreTree(e)
      PROVE  RestorableIsComplete'
    <2>1. UNCHANGED storeVars /\ expired \subseteq expired'
      BY <1>10 DEF RestoreTree
    <2> QED
      BY <2>1, RestorableKept DEF storeVars
<1>11. ASSUME NEW e \in Entries, RestoreCollection(e)
      PROVE  RestorableIsComplete'
    <2>1. UNCHANGED storeVars /\ expired \subseteq expired'
      BY <1>11 DEF RestoreCollection
    <2> QED
      BY <2>1, RestorableKept DEF storeVars
<1>12. CASE DeleteFolder
    <2>1. Stage(TRUE, Folder)
      BY <1>12 DEF DeleteFolder
    <2> QED
      BY ONLY <2>1, StageComplete, IInv
<1>13. CASE RemoveCollection
    <2>1. Stage(FALSE, {})
      BY <1>13 DEF RemoveCollection
    <2> QED
      BY ONLY <2>1, StageComplete, IInv
<1>14. CASE OpenCollection
    <2>1. UNCHANGED storeVars /\ expired \subseteq expired'
      BY <1>14 DEF OpenCollection
    <2> QED
      BY <2>1, RestorableKept DEF storeVars
<1>15. CASE Persist
    <2>1. UNCHANGED storeVars /\ expired \subseteq expired'
      BY <1>15 DEF Persist
    <2> QED
      BY <2>1, RestorableKept DEF storeVars
<1>16. CASE List
    <2>1. /\ manifest' = [manifest EXCEPT ![Entry] = "staged"]
          /\ UNCHANGED <<store, expired>>
      BY <1>16 DEF List
    <2>2. \A e \in Entries : manifest'[e] = "restorable" => manifest[e] = "restorable"
      BY <2>1
    <2> QED
      BY <2>1, <2>2, RestorableKept
<1>17. CASE ListFails
    <2>1. store' = [store EXCEPT ![Entry] = {}] /\ op.pc = "list"
          /\ UNCHANGED <<manifest, expired>>
      BY <1>17 DEF ListFails, At
    <2>2. manifest[Entry] = "none"
      BY <2>1 DEF EntryFollowsOp, Entry
    <2> QED
      BY <2>1, <2>2, RestorableKept
<1>18. CASE Drop
    <2>1. UNCHANGED storeVars /\ expired \subseteq expired'
      BY <1>18 DEF Drop
    <2> QED
      BY <2>1, RestorableKept DEF storeVars
<1>19. CASE Unlist
    <2>1. UNCHANGED expired
      BY <1>19 DEF Unlist
    <2>2. /\ Entry \in Entries /\ manifest[Entry] = "staged" /\ UNCHANGED manifest
          /\ \A e \in Entries \ {Entry} : store'[e] = store[e]
      BY <1>19, WrittenAfter
    <2>3. \A e \in Entries : manifest[e] = "restorable" => store'[e] = store[e]
      BY ONLY <2>2
    <2> QED
      BY <2>1, <2>2, <2>3, RestorableKept
<1>20. CASE SaveState
    <2>1. UNCHANGED storeVars /\ expired \subseteq expired'
      BY <1>20 DEF SaveState
    <2> QED
      BY <2>1, RestorableKept DEF storeVars
<1>21. CASE Commit
    <2>1. UNCHANGED expired
      BY <1>21 DEF Commit
    <2>2. /\ Entry \in Entries /\ manifest[Entry] = "staged" /\ UNCHANGED manifest
          /\ \A e \in Entries \ {Entry} : store'[e] = store[e]
      BY <1>21, WrittenAfter
    <2>3. \A e \in Entries : manifest[e] = "restorable" => store'[e] = store[e]
      BY ONLY <2>2
    <2> QED
      BY <2>1, <2>2, <2>3, RestorableKept
<1>22. CASE Mark
    <2>1. /\ manifest' = [manifest EXCEPT ![Entry] = "restorable"]
          /\ UNCHANGED <<store, expired>> /\ op.pc = "mark"
      BY <1>22 DEF Mark, At
    <2>2. Entry = op.entry /\ store[Entry] = {Held}
      BY <2>1, WorkingEntry DEF Deleting
    <2>3. \E s \in store[Entry] : s.after # {}
      BY <2>1, <2>2 DEF EntryFollowsOp
    <2> QED
      BY <2>1, <2>3 DEF RestorableIsComplete, Restorable
<1>23. CASE StepFails
    <2>1. UNCHANGED storeVars /\ expired \subseteq expired'
      BY <1>23 DEF StepFails
    <2> QED
      BY <2>1, RestorableKept DEF storeVars
<1>24. CASE Undo
    <2>1. UNCHANGED storeVars /\ expired \subseteq expired'
      BY <1>24 DEF Undo
    <2> QED
      BY <2>1, RestorableKept DEF storeVars
<1>25. CASE UndoCopy
    <2>1. UNCHANGED storeVars /\ expired \subseteq expired'
      BY <1>25 DEF UndoCopy
    <2> QED
      BY <2>1, RestorableKept DEF storeVars
<1>26. CASE UndoFails
    <2>1. UNCHANGED storeVars /\ expired \subseteq expired'
      BY <1>26 DEF UndoFails
    <2> QED
      BY <2>1, RestorableKept DEF storeVars
<1>27. CASE UndoState
    <2>1. UNCHANGED storeVars /\ expired \subseteq expired'
      BY <1>27 DEF UndoState
    <2> QED
      BY <2>1, RestorableKept DEF storeVars
<1>28. CASE RemoveFromManifest
    <2>1. /\ manifest' = [manifest EXCEPT ![Entry] = "none"]
          /\ UNCHANGED <<store, expired>>
      BY <1>28 DEF RemoveFromManifest
    <2>2. \A e \in Entries : manifest'[e] = "restorable" => manifest[e] = "restorable"
      BY <2>1
    <2> QED
      BY <2>1, <2>2, RestorableKept
<1>29. CASE EraseEntry
    <2>1. store' = [store EXCEPT ![Entry] = {}] /\ op.pc = "erase"
          /\ UNCHANGED <<manifest, expired>>
      BY <1>29 DEF EraseEntry, At
    <2>2. manifest[Entry] = "none"
      BY <2>1 DEF EntryFollowsOp, Entry
    <2> QED
      BY <2>1, <2>2, RestorableKept
<1>30. CASE RemoveEntryFails
    <2>1. UNCHANGED storeVars /\ expired \subseteq expired'
      BY <1>30 DEF RemoveEntryFails
    <2> QED
      BY <2>1, RestorableKept DEF storeVars
<1>31. CASE PurgeManifest
    <2>1. \A e \in Entries : manifest'[e] = "restorable" => manifest[e] = "restorable"
      BY <1>31 DEF PurgeManifest
    <2>2. UNCHANGED <<store, expired>>
      BY <1>31 DEF PurgeManifest
    <2> QED
      BY <2>1, <2>2, RestorableKept
<1>32. CASE RestoreClear
    <2>1. UNCHANGED storeVars /\ expired \subseteq expired'
      BY <1>32 DEF RestoreClear
    <2> QED
      BY <2>1, RestorableKept DEF storeVars
<1>33. CASE RestoreCopy
    <2>1. UNCHANGED storeVars /\ expired \subseteq expired'
      BY <1>33 DEF RestoreCopy
    <2> QED
      BY <2>1, RestorableKept DEF storeVars
<1>34. CASE RestoreFails
    <2>1. UNCHANGED storeVars /\ expired \subseteq expired'
      BY <1>34 DEF RestoreFails
    <2> QED
      BY <2>1, RestorableKept DEF storeVars
<1>35. CASE RestoreState
    <2>1. UNCHANGED storeVars /\ expired \subseteq expired'
      BY <1>35 DEF RestoreState
    <2> QED
      BY <2>1, RestorableKept DEF storeVars
<1>36. CASE ReopenCollection
    <2>1. UNCHANGED storeVars /\ expired \subseteq expired'
      BY <1>36 DEF ReopenCollection
    <2> QED
      BY <2>1, RestorableKept DEF storeVars
<1>37. CASE Crash
    <2>1. UNCHANGED storeVars /\ expired \subseteq expired'
      BY <1>37 DEF Crash
    <2> QED
      BY <2>1, RestorableKept DEF storeVars
<1>38. CASE UNCHANGED vars
  BY <1>38, RestorableKept DEF vars, storeVars
<1>. QED
  BY <1>1, <1>2, <1>3, <1>4, <1>5, <1>6, <1>7, <1>8, <1>9, <1>10, <1>11,
       <1>12, <1>13, <1>14, <1>15, <1>16, <1>17, <1>18, <1>19, <1>20, <1>21,
       <1>22, <1>23, <1>24, <1>25, <1>26, <1>27, <1>28, <1>29, <1>30, <1>31,
       <1>32, <1>33, <1>34, <1>35, <1>36, <1>37, <1>38 DEF RecoveryNext
(* A restore saves what it put back before it gives up its entry.          *)
LEMMA RestoredIsDurableStep ==
    ASSUME IInv, [RecoveryNext]_vars PROVE RestoredIsDurable'
PROOF
<1> USE IInv, StoreTyped DEF IInv
<1>1. ASSUME NEW r \in Requests, UpdateRequest(r)
      PROVE  RestoredIsDurable'
    <2>1. UNCHANGED op /\ op.pc \in {"idle", "files"}
      BY <1>1 DEF UpdateRequest, At
    <2> QED
      BY <2>1 DEF RestoredIsDurable
<1>2. ASSUME NEW r \in Requests, CreateRequest(r)
      PROVE  RestoredIsDurable'
    <2>1. UNCHANGED op /\ op.pc \in {"idle", "files"}
      BY <1>2 DEF CreateRequest, At
    <2> QED
      BY <2>1 DEF RestoredIsDurable
<1>3. ASSUME NEW r \in Requests, SaveRequest(r)
      PROVE  RestoredIsDurable'
    <2>1. UNCHANGED op /\ op.pc \in {"idle", "files"}
      BY <1>3 DEF SaveRequest, At
    <2> QED
      BY <2>1 DEF RestoredIsDurable
<1>4. ASSUME NEW r \in Requests, CloseTab(r)
      PROVE  RestoredIsDurable'
    <2>1. UNCHANGED op /\ op.pc \in {"idle", "files"}
      BY <1>4 DEF CloseTab, At
    <2> QED
      BY <2>1 DEF RestoredIsDurable
<1>5. ASSUME NEW r \in Requests, DeleteRequest(r)
      PROVE  RestoredIsDurable'
    <2>1. Stage(TRUE, {r})
      BY <1>5 DEF DeleteRequest
    <2>2. op'.pc = "list"
      BY ONLY <2>1 DEF Stage
    <2> QED
      BY <2>2 DEF RestoredIsDurable
<1>6. ASSUME NEW r \in Requests, RemoveFile(r)
      PROVE  RestoredIsDurable'
    <2>1. UNCHANGED op /\ op.pc \in {"idle", "files"}
      BY <1>6 DEF RemoveFile, At
    <2> QED
      BY <2>1 DEF RestoredIsDurable
<1>7. ASSUME NEW e \in Entries, Expire(e)
      PROVE  RestoredIsDurable'
    <2>1. UNCHANGED <<op, store, manifest, disk, saved>>
      BY <1>7 DEF Expire, storeVars, worldVars
    <2> QED
      BY <2>1 DEF RestoredIsDurable, Entry
<1>8. ASSUME NEW e \in Entries, Discard(e)
      PROVE  RestoredIsDurable'
    <2>1. op' = [Idle EXCEPT !.pc = "unlist", !.entry = e]
      BY <1>8 DEF Discard
    <2>2. op'.kept = {}
      BY ONLY <2>1, IdleTyped DEF Idle
    <2> QED
      BY <2>2 DEF RestoredIsDurable
<1>9. ASSUME NEW e \in Entries, PurgeErase(e)
      PROVE  RestoredIsDurable'
    <2>1. op'.pc \in {"idle", "purge"}
      BY <1>9, IdleTyped DEF PurgeErase, Idle
    <2> QED
      BY <2>1 DEF RestoredIsDurable, Entry
<1>10. ASSUME NEW e \in Entries, RestoreTree(e)
      PROVE  RestoredIsDurable'
    <2>1. op' = [Idle EXCEPT !.pc = "clear", !.entry = e, !.kept = {World}]
      BY <1>10 DEF RestoreTree
    <2>2. op'.pc = "clear"
      BY ONLY <2>1, IdleTyped DEF Idle
    <2> QED
      BY <2>2 DEF RestoredIsDurable
<1>11. ASSUME NEW e \in Entries, RestoreCollection(e)
      PROVE  RestoredIsDurable'
    <2>1. op' = [Idle EXCEPT !.pc = "reopened", !.entry = e, !.kept = {World}]
      BY <1>11 DEF RestoreCollection
    <2>2. op'.pc = "reopened"
      BY ONLY <2>1, IdleTyped DEF Idle
    <2> QED
      BY <2>2 DEF RestoredIsDurable
<1>12. CASE DeleteFolder
    <2>1. Stage(TRUE, Folder)
      BY <1>12 DEF DeleteFolder
    <2>2. op'.pc = "list"
      BY ONLY <2>1 DEF Stage
    <2> QED
      BY <2>2 DEF RestoredIsDurable
<1>13. CASE RemoveCollection
    <2>1. Stage(FALSE, {})
      BY <1>13 DEF RemoveCollection
    <2>2. op'.pc = "list"
      BY ONLY <2>1 DEF Stage
    <2> QED
      BY <2>2 DEF RestoredIsDurable
<1>14. CASE OpenCollection
    <2>1. UNCHANGED op /\ op.pc \in {"idle", "files"}
      BY <1>14 DEF OpenCollection, At
    <2> QED
      BY <2>1 DEF RestoredIsDurable
<1>15. CASE Persist
    <2>1. UNCHANGED op /\ op.pc \in {"idle", "files"}
      BY <1>15 DEF Persist, At
    <2> QED
      BY <2>1 DEF RestoredIsDurable
<1>16. CASE List
    <2>1. PICK p \in PCs : Goto(p) /\ p \in {"files", "ignore"}
      BY <1>16 DEF List, PCs
    <2>2. op'.pc \in {"files", "ignore"}
      BY ONLY <2>1, GotoTyped, StoreTyped, IInv
    <2> QED
      BY <2>2 DEF RestoredIsDurable
<1>17. CASE ListFails
    <2>1. op'.pc \in {"idle", "purge"}
      BY <1>17, IdleTyped DEF ListFails, Idle
    <2> QED
      BY <2>1 DEF RestoredIsDurable, Entry
<1>18. CASE Drop
    <2>1. PICK p \in PCs : Goto(p) /\ p \in {"save"}
      BY <1>18 DEF Drop, PCs
    <2>2. op'.pc \in {"save"}
      BY ONLY <2>1, GotoTyped, StoreTyped, IInv
    <2> QED
      BY <2>2 DEF RestoredIsDurable
<1>19. CASE Unlist
    <2>1. PICK p \in PCs : Goto(p) /\ p \in {"save"}
      BY <1>19 DEF Unlist, PCs
    <2>2. op'.pc \in {"save"}
      BY ONLY <2>1, GotoTyped, StoreTyped, IInv
    <2> QED
      BY <2>2 DEF RestoredIsDurable
<1>20. CASE SaveState
    <2>1. PICK p \in PCs : Goto(p) /\ p \in {"commit"}
      BY <1>20 DEF SaveState, PCs
    <2>2. op'.pc \in {"commit"}
      BY ONLY <2>1, GotoTyped, StoreTyped, IInv
    <2> QED
      BY <2>2 DEF RestoredIsDurable
<1>21. CASE Commit
    <2>1. PICK p \in PCs : Goto(p) /\ p \in {"mark"}
      BY <1>21 DEF Commit, PCs
    <2>2. op'.pc \in {"mark"}
      BY ONLY <2>1, GotoTyped, StoreTyped, IInv
    <2> QED
      BY <2>2 DEF RestoredIsDurable
<1>22. CASE Mark
    <2>1. op'.pc \in {"idle", "purge"}
      BY <1>22, IdleTyped DEF Mark, Idle
    <2> QED
      BY <2>1 DEF RestoredIsDurable, Entry
<1>23. CASE StepFails
    <2>1. PICK p \in PCs : Goto(p) /\ p \in {"undo"}
      BY <1>23 DEF StepFails, PCs
    <2>2. op'.pc \in {"undo"}
      BY ONLY <2>1, GotoTyped, StoreTyped, IInv
    <2> QED
      BY <2>2 DEF RestoredIsDurable
<1>24. CASE Undo
    <2>1. PICK p \in PCs : Goto(p) /\ p \in {"undoCopy", "undoState"}
      BY <1>24 DEF Undo, PCs
    <2>2. op'.pc \in {"undoCopy", "undoState"}
      BY ONLY <2>1, GotoTyped, StoreTyped, IInv
    <2> QED
      BY <2>2 DEF RestoredIsDurable
<1>25. CASE UndoCopy
    <2>1. PICK p \in PCs : Goto(p) /\ p \in {"undoState"}
      BY <1>25 DEF UndoCopy, PCs
    <2>2. op'.pc \in {"undoState"}
      BY ONLY <2>1, GotoTyped, StoreTyped, IInv
    <2> QED
      BY <2>2 DEF RestoredIsDurable
<1>26. CASE UndoFails
    <2>1. PICK p \in PCs : Goto(p) /\ p \in {"undoState"}
      BY <1>26 DEF UndoFails, PCs
    <2>2. op'.pc \in {"undoState"}
      BY ONLY <2>1, GotoTyped, StoreTyped, IInv
    <2> QED
      BY <2>2 DEF RestoredIsDurable
<1>27. CASE UndoState
    <2>1. Goto("unlist") /\ "unlist" \in PCs /\ op.pc = "undoState" /\ UNCHANGED manifest
      BY <1>27 DEF UndoState, PCs, At, storeVars
    <2>2. op'.entry = op.entry
      BY ONLY <2>1, GotoTyped, StoreTyped, IInv
    <2>3. manifest[op.entry] = "staged"
      BY <2>1 DEF EntryFollowsOp, Deleting
    <2> QED
      BY <2>1, <2>2, <2>3 DEF RestoredIsDurable, Entry
<1>28. CASE RemoveFromManifest
    <2>1. Goto("erase") /\ "erase" \in PCs /\ op.pc = "unlist"
      BY <1>28 DEF RemoveFromManifest, PCs, At
    <2>2. op'.entry = op.entry
      BY ONLY <2>1, GotoTyped, StoreTyped, IInv
    <2>3. manifest'[op.entry] = "none"
      BY <1>28, <2>1 DEF RemoveFromManifest, Entry, OpHasEntry
    <2> QED
      BY <2>2, <2>3 DEF RestoredIsDurable, Entry
<1>29. CASE EraseEntry
    <2>1. op'.pc \in {"idle", "purge"}
      BY <1>29, IdleTyped DEF EraseEntry, Idle
    <2> QED
      BY <2>1 DEF RestoredIsDurable, Entry
<1>30. CASE RemoveEntryFails
    <2>1. op'.pc \in {"idle", "purge"}
      BY <1>30, IdleTyped DEF RemoveEntryFails, Idle
    <2> QED
      BY <2>1 DEF RestoredIsDurable, Entry
<1>31. CASE PurgeManifest
    <2>1. op'.pc \in {"idle", "purge"}
      BY <1>31, IdleTyped DEF PurgeManifest, Idle
    <2> QED
      BY <2>1 DEF RestoredIsDurable, Entry
<1>32. CASE RestoreClear
    <2>1. Goto("copy") /\ "copy" \in PCs
      BY <1>32 DEF RestoreClear, PCs
    <2>2. op'.pc = "copy"
      BY ONLY <2>1, GotoTyped, StoreTyped, IInv
    <2> QED
      BY <2>2 DEF RestoredIsDurable
<1>33. CASE RestoreCopy
    <2>1. Goto("restored") /\ "restored" \in PCs
      BY <1>33 DEF RestoreCopy, PCs
    <2>2. op'.pc = "restored"
      BY ONLY <2>1, GotoTyped, StoreTyped, IInv
    <2> QED
      BY <2>2 DEF RestoredIsDurable
<1>34. CASE RestoreFails
    <2>1. op'.pc \in {"idle", "purge"}
      BY <1>34, IdleTyped DEF RestoreFails, Idle
    <2> QED
      BY <2>1 DEF RestoredIsDurable, Entry
<1>35. CASE RestoreState
    <2>1. op.pc = "restored" /\ UNCHANGED store
      BY <1>35 DEF RestoreState, At, storeVars
    <2>2. store[op.entry] = {Held} /\ disk = Held.before.disk
      BY <2>1, WorkingEntry DEF Restoring, RestoreFollowsSnapshot
    <2>3. CASE op' = Idle
      BY <2>3, IdleTyped DEF RestoredIsDurable
    <2>4. CASE /\ Goto("unlist") /\ app' = Held.before.app
               /\ saved' = Durable(app') /\ UNCHANGED disk
      <3>1. op'.entry = op.entry
        BY ONLY <2>4, GotoTyped, StoreTyped, IInv DEF PCs
      <3> QED
        BY <2>1, <2>2, <2>4, <3>1 DEF RestoredIsDurable, Entry
    <2> QED
      BY <1>35, <2>3, <2>4 DEF RestoreState
<1>36. CASE ReopenCollection
    <2>1. op.pc = "reopened" /\ UNCHANGED store
      BY <1>36 DEF ReopenCollection, At, storeVars
    <2>2. store[op.entry] = {Held} /\ ~Held.tree
      BY <2>1, WorkingEntry DEF Restoring, RestoreFollowsSnapshot
    <2>3. CASE op' = Idle
      BY <2>3, IdleTyped DEF RestoredIsDurable
    <2>4. CASE /\ Goto("unlist") /\ app' = Held.before.app
               /\ saved' = Durable(app')
      <3>1. op'.entry = op.entry
        BY ONLY <2>4, GotoTyped, StoreTyped, IInv DEF PCs
      <3> QED
        BY <2>1, <2>2, <2>4, <3>1 DEF RestoredIsDurable, Entry
    <2> QED
      BY <1>36, <2>3, <2>4 DEF ReopenCollection
<1>37. CASE Crash
    <2>1. op'.pc \in {"idle", "purge"}
      BY <1>37, IdleTyped DEF Crash, Idle
    <2> QED
      BY <2>1 DEF RestoredIsDurable, Entry
<1>38. CASE UNCHANGED vars
  BY <1>38 DEF vars, storeVars, worldVars, RestoredIsDurable, Entry
<1>. QED
  BY <1>1, <1>2, <1>3, <1>4, <1>5, <1>6, <1>7, <1>8, <1>9, <1>10, <1>11,
       <1>12, <1>13, <1>14, <1>15, <1>16, <1>17, <1>18, <1>19, <1>20, <1>21,
       <1>22, <1>23, <1>24, <1>25, <1>26, <1>27, <1>28, <1>29, <1>30, <1>31,
       <1>32, <1>33, <1>34, <1>35, <1>36, <1>37, <1>38 DEF RecoveryNext

(* Where a step finds the operation and where it leaves it.                *)
Goes(from, to) ==
    /\ op.pc = from /\ op'.pc = to
    /\ op'.entry = op.entry /\ op'.kept = op.kept

LEMMA Went ==
    ASSUME IInv
    PROVE  /\ List => IF Held.tree THEN Goes("list", "files") ELSE Goes("list", "ignore")
           /\ Drop => Goes("files", "save")
           /\ Unlist => Goes("ignore", "save")
           /\ SaveState => Goes("save", "commit")
           /\ Commit => Goes("commit", "mark")
           /\ StepFails => Goes(op.pc, "undo") /\ op.pc \in Deleting \ {"undo", "undoCopy", "undoState"}
           /\ Undo => IF Held.tree THEN Goes("undo", "undoCopy") ELSE Goes("undo", "undoState")
           /\ UndoCopy => Goes("undoCopy", "undoState")
           /\ UndoFails => Goes(op.pc, "undoState") /\ op.pc \in {"undo", "undoCopy"}
           /\ UndoState => Goes("undoState", "unlist")
           /\ RemoveFromManifest => Goes("unlist", "erase")
           /\ RestoreClear => Goes("clear", "copy")
           /\ RestoreCopy => Goes("copy", "restored")
  <1>1. ASSUME NEW p \in PCs, Goto(p) PROVE Goes(op.pc, p)
    BY <1>1, GotoTyped, StoreTyped DEF Goes
  <1>2. List => IF Held.tree THEN Goes("list", "files") ELSE Goes("list", "ignore")
    <2>1. CASE Held.tree
      BY <1>1, <2>1 DEF List, At, PCs
    <2>2. CASE ~Held.tree
      <3>1. List => At("list") /\ Goto("ignore")
        BY <2>2, Zenon DEF List
      <3> QED
        BY <1>1, <2>2, <3>1 DEF At, PCs
    <2> QED
      BY <2>1, <2>2
  <1>3. Drop => Goes("files", "save")
    BY <1>1 DEF Drop, At, PCs
  <1>4. Unlist => Goes("ignore", "save")
    BY <1>1 DEF Unlist, At, PCs
  <1>5. /\ SaveState => Goes("save", "commit")
        /\ Commit => Goes("commit", "mark")
    BY <1>1 DEF SaveState, Commit, At, PCs
  <1>6. StepFails => Goes(op.pc, "undo") /\ op.pc \in Deleting \ {"undo", "undoCopy", "undoState"}
    BY <1>1 DEF StepFails, Deleting, PCs
  <1>7. Undo => IF Held.tree THEN Goes("undo", "undoCopy") ELSE Goes("undo", "undoState")
    <2>1. CASE Held.tree
      BY <1>1, <2>1 DEF Undo, At, PCs
    <2>2. CASE ~Held.tree
      <3>1. Undo => At("undo") /\ Goto("undoState")
        BY <2>2, Zenon DEF Undo
      <3> QED
        BY <1>1, <2>2, <3>1 DEF At, PCs
    <2> QED
      BY <2>1, <2>2
  <1>8. UndoCopy => Goes("undoCopy", "undoState")
    BY <1>1 DEF UndoCopy, At, PCs
  <1>9. UndoFails => Goes(op.pc, "undoState") /\ op.pc \in {"undo", "undoCopy"}
    BY <1>1 DEF UndoFails, PCs
  <1>10. UndoState => Goes("undoState", "unlist")
    BY <1>1 DEF UndoState, At, PCs
  <1>11. RemoveFromManifest => Goes("unlist", "erase")
    BY <1>1 DEF RemoveFromManifest, At, PCs
  <1>12. /\ RestoreClear => Goes("clear", "copy")
         /\ RestoreCopy => Goes("copy", "restored")
    BY <1>1 DEF RestoreClear, RestoreCopy, At, PCs
  <1> QED
    BY <1>2, <1>3, <1>4, <1>5, <1>6, <1>7, <1>8, <1>9, <1>10, <1>11, <1>12

(* An operation that begins is at its first place; one that is over, idle. *)
LEMMA Began ==
    /\ \A e \in Entries : Discard(e) => op'.pc = "unlist" /\ op'.entry = e /\ op'.kept = {}
    /\ \A e \in Entries : RestoreTree(e) => op'.pc = "clear" /\ op'.entry = e /\ op'.kept = {World}
    /\ \A e \in Entries :
           RestoreCollection(e) => op'.pc = "reopened" /\ op'.entry = e /\ op'.kept = {World}
    /\ \A e \in Entries : PurgeErase(e) => op'.pc = "purge" /\ op'.kept = {}
    /\ ListFails \/ Mark \/ EraseEntry \/ RemoveEntryFails \/ PurgeManifest
           \/ RestoreFails \/ Crash => op'.pc = "idle" /\ op'.kept = {}
  <1>1. ASSUME NEW e \in Entries, Discard(e)
        PROVE  op'.pc = "unlist" /\ op'.entry = e /\ op'.kept = {}
    BY <1>1 DEF Discard, Idle
  <1>2. ASSUME NEW e \in Entries, RestoreTree(e)
        PROVE  op'.pc = "clear" /\ op'.entry = e /\ op'.kept = {World}
    BY <1>2 DEF RestoreTree, Idle
  <1>3. ASSUME NEW e \in Entries, RestoreCollection(e)
        PROVE  op'.pc = "reopened" /\ op'.entry = e /\ op'.kept = {World}
    BY <1>3 DEF RestoreCollection, Idle
  <1>4. ASSUME NEW e \in Entries, PurgeErase(e)
        PROVE  op'.pc = "purge" /\ op'.kept = {}
    BY <1>4 DEF PurgeErase, Idle
  <1>5. ListFails \/ Mark \/ EraseEntry \/ RemoveEntryFails \/ PurgeManifest
           \/ RestoreFails \/ Crash => op' = Idle
    BY DEF ListFails, Mark, EraseEntry, RemoveEntryFails, PurgeManifest, RestoreFails, Crash
  <1> QED
    BY <1>1, <1>2, <1>3, <1>4, <1>5, IdleTyped

(* A deletion that begins has a new directory for its snapshot.            *)
LEMMA Staged ==
    ASSUME IInv, NEW tree \in BOOLEAN, NEW T, Stage(tree, T)
    PROVE  /\ made' \in Entries /\ store[made'] = {}
           /\ op'.pc = "list" /\ op'.entry = made' /\ op'.kept = {World}
           /\ \A e \in Entries \ {made'} : store'[e] = store[e]
           /\ \E x \in Snapshots :
                 /\ store'[made'] = {x} /\ x.tree = tree /\ x.after = {}
                 /\ x.before.disk = (IF tree THEN disk ELSE NoFiles)
                 /\ x.before.app = app
           /\ UNCHANGED <<disk, app, manifest, owed>>
  <1> DEFINE x == [tree |-> tree, after |-> {},
                   before |-> IF tree THEN World ELSE [World EXCEPT !.disk = NoFiles]]
  <1>1. made' = made + 1 /\ made < MaxEntries
    BY DEF Stage
  <1>2. made' \in Entries /\ store[made'] = {}
    BY <1>1, RecoveryAssumption, StoreTyped DEF Entries, OneSnapshot
  <1>3. store' = [store EXCEPT ![made'] = {x}]
    BY DEF Stage
  <1>4. op' = [pc |-> "list", entry |-> made', targets |-> T, kept |-> {World}]
    BY DEF Stage
  <1>5. store'[made'] = {x} /\ \A e \in Entries \ {made'} : store'[e] = store[e]
    BY <1>2, <1>3, StoreTyped
  <1>6. World \in Worlds /\ [World EXCEPT !.disk = NoFiles] \in Worlds
    BY WorldTyped, Numbers DEF Worlds, IInv
  <1>7. x \in Snapshots
    BY <1>6 DEF Snapshots
  <1>8. /\ x.before.disk = (IF tree THEN disk ELSE NoFiles)
        /\ x.before.app = app
    BY DEF World
  <1>9. UNCHANGED <<disk, app, manifest, owed>>
    BY DEF Stage, worldVars
  <1> QED
    BY <1>2, <1>4, <1>5, <1>7, <1>8, <1>9

(* Writing a snapshot again changes what it says of the time after.        *)
LEMMA Rewritten ==
    ASSUME IInv, Unlist \/ Commit
    PROVE  /\ Entry \in Entries /\ op.entry = Entry /\ store[Entry] = {Held}
           /\ \A e \in Entries \ {Entry} : store'[e] = store[e]
           /\ store'[Entry] # {}
           /\ \A s \in store'[Entry] : /\ s.tree = Held.tree /\ s.before = Held.before
                                       /\ \A w \in s.after : w.disk = disk
  <1>1. Entry \in Entries /\ op.entry = Entry /\ store[Entry] = {Held} /\ Held \in Snapshots
    BY Went, WorkingEntry DEF Goes, Deleting
  <1>2. PICK w : /\ store' = [store EXCEPT ![Entry] = {[Held EXCEPT !.after = {w}]}]
                 /\ w.disk = disk
    <2>1. CASE Unlist
      <3> DEFINE w == [disk |-> disk, app |-> app', ignored |-> FALSE]
      <3>1. store' = [store EXCEPT ![Entry] = {[Held EXCEPT !.after = {w}]}]
        BY <2>1, Zenon DEF Unlist
      <3> HIDE DEF w
      <3>2. w.disk = disk
        BY DEF w
      <3> QED
        BY <3>1, <3>2
    <2>2. CASE Commit
      <3>1. store' = [store EXCEPT ![Entry] = {[Held EXCEPT !.after = {World}]}]
        BY <2>2, Zenon DEF Commit
      <3>2. World.disk = disk
        BY DEF World
      <3> QED
        BY <3>1, <3>2
    <2> QED
      BY <2>1, <2>2
  <1>3. /\ [Held EXCEPT !.after = {w}].after = {w}
        /\ [Held EXCEPT !.after = {w}].tree = Held.tree
        /\ [Held EXCEPT !.after = {w}].before = Held.before
    BY ONLY <1>1 DEF Snapshots
  <1>4. store'[Entry] = {[Held EXCEPT !.after = {w}]}
        /\ \A e \in Entries \ {Entry} : store'[e] = store[e]
    BY ONLY <1>1, <1>2, StoreTyped, IInv
  <1> QED
    BY <1>1, <1>2, <1>3, <1>4


(* Copies of memory that are taken or go.                                  *)
LEMMA ContentKept ==
    ASSUME IInv, HasContent(app'),
           \A w \in op'.kept : w \in op.kept \/ w.app = app,
           \A e \in Entries : \A s \in store'[e] :
               s.before.app = app \/ \E t \in store[e] : s.before = t.before
    PROVE  DraftsHaveContent'
  <1>1. DraftsHaveContent
    BY DEF IInv, Safeguards
  <1> QED
    BY <1>1 DEF DraftsHaveContent, HasContent, Present

LEMMA NowHasContent ==
    ASSUME IInv PROVE HasContent(app)
  BY DEF IInv, Safeguards, DraftsHaveContent

LEMMA StageDraftsHaveContent ==
    ASSUME IInv, NEW tree \in BOOLEAN, NEW T, Stage(tree, T) PROVE DraftsHaveContent'
  <1>1. op'.kept = {World} /\ UNCHANGED app
    BY Staged
  <1>2. \A e \in Entries : \A s \in store'[e] : s.before.app = app \/ s \in store[e]
    BY Staged
  <1>3. World.app = app
    BY DEF World
  <1>4. HasContent(app')
    BY <1>1, NowHasContent DEF HasContent, Present
  <1> QED
    BY <1>1, <1>2, <1>3, <1>4, ContentKept

LEMMA DraftsHaveContentStep ==
    ASSUME IInv, [RecoveryNext]_vars PROVE DraftsHaveContent'
PROOF
<1> USE IInv
<1>1. ASSUME NEW r \in Requests, UpdateRequest(r)
      PROVE  DraftsHaveContent'
    <2>1. UNCHANGED <<store, op>>
      BY <1>1 DEF UpdateRequest, storeVars
    <2>2. HasContent(app')
      <3>1. version' # None
        BY <1>1, RecoveryAssumption DEF UpdateRequest, IInv, RecoveryTypeOK, Versions, None
      <3>2. /\ app'.items = [app.items EXCEPT ![r] = version']
            /\ app'.draft = app.draft \cup {r}
        BY <1>1 DEF UpdateRequest, IInv, RecoveryTypeOK, Apps
      <3>3. app.items \in Files /\ app.draft \subseteq Requests
        BY AppTyped DEF IInv
      <3> QED
        BY <3>1, <3>2, <3>3, NowHasContent DEF HasContent, Present, Files
    <2> QED
      BY <2>1, <2>2, ContentKept
<1>2. ASSUME NEW r \in Requests, CreateRequest(r)
      PROVE  DraftsHaveContent'
    <2>1. UNCHANGED <<store, op>>
      BY <1>2 DEF CreateRequest, storeVars
    <2>2. HasContent(app')
      <3>1. version' # None
        BY <1>2, RecoveryAssumption DEF CreateRequest, IInv, RecoveryTypeOK, Versions, None
      <3>2. /\ app'.items = [app.items EXCEPT ![r] = version']
            /\ app'.draft = app.draft \cup {r}
        BY <1>2 DEF CreateRequest, IInv, RecoveryTypeOK, Apps
      <3>3. app.items \in Files /\ app.draft \subseteq Requests
        BY AppTyped DEF IInv
      <3> QED
        BY <3>1, <3>2, <3>3, NowHasContent DEF HasContent, Present, Files
    <2> QED
      BY <2>1, <2>2, ContentKept
<1>3. ASSUME NEW r \in Requests, SaveRequest(r)
      PROVE  DraftsHaveContent'
    <2>1. UNCHANGED <<store, op>>
      BY <1>3 DEF SaveRequest, storeVars
    <2>2. HasContent(app')
      BY <1>3, NowHasContent, AppTyped DEF SaveRequest, HasContent, Present, Files, Versions, None
    <2> QED
      BY <2>1, <2>2, ContentKept
<1>4. ASSUME NEW r \in Requests, CloseTab(r)
      PROVE  DraftsHaveContent'
    <2>1. UNCHANGED <<store, op>>
      BY <1>4 DEF CloseTab, storeVars
    <2>2. HasContent(app')
      BY <1>4, NowHasContent, AppTyped DEF CloseTab, HasContent, Present, Files, Versions, None
    <2> QED
      BY <2>1, <2>2, ContentKept
<1>5. ASSUME NEW r \in Requests, DeleteRequest(r)
      PROVE  DraftsHaveContent'
    <2>1. Stage(TRUE, {r})
      BY <1>5 DEF DeleteRequest
    <2> QED
      BY <2>1, StageDraftsHaveContent
<1>6. ASSUME NEW r \in Requests, RemoveFile(r)
      PROVE  DraftsHaveContent'
    <2>1. UNCHANGED <<app, store, op>>
      BY <1>6 DEF RemoveFile, storeVars
    <2> QED
      BY <2>1 DEF IInv, Safeguards, DraftsHaveContent, HasContent, Present
<1>7. ASSUME NEW e \in Entries, Expire(e)
      PROVE  DraftsHaveContent'
    <2>1. UNCHANGED <<app, store, op>>
      BY <1>7 DEF Expire, worldVars, storeVars
    <2> QED
      BY <2>1 DEF IInv, Safeguards, DraftsHaveContent, HasContent, Present
<1>8. ASSUME NEW e \in Entries, Discard(e)
      PROVE  DraftsHaveContent'
    <2>1. UNCHANGED <<app, store>>
      BY <1>8 DEF Discard, worldVars, storeVars
    <2>2. op'.kept = {}
      BY <1>8, Began
    <2>4. HasContent(app')
      BY <2>1, NowHasContent DEF HasContent, Present
    <2> QED
      BY <2>1, <2>2, <2>4, ContentKept
<1>9. ASSUME NEW e \in Entries, PurgeErase(e)
      PROVE  DraftsHaveContent'
    <2>1. UNCHANGED app /\ \A f \in Entries : store'[f] \subseteq store[f]
      BY <1>9, StoreTyped DEF PurgeErase, worldVars
    <2>2. op'.kept = {}
      BY <1>9, Began
    <2>3. HasContent(app')
      BY <2>1, NowHasContent DEF HasContent, Present
    <2> QED
      BY <2>1, <2>2, <2>3, ContentKept
<1>10. ASSUME NEW e \in Entries, RestoreTree(e)
      PROVE  DraftsHaveContent'
    <2>1. UNCHANGED <<app, store>>
      BY <1>10 DEF RestoreTree, worldVars, storeVars
    <2>2. op'.kept = {World}
      BY <1>10, Began
    <2>3. World.app = app
      BY DEF World
    <2>4. HasContent(app')
      BY <2>1, NowHasContent DEF HasContent, Present
    <2> QED
      BY <2>1, <2>2, <2>3, <2>4, ContentKept
<1>11. ASSUME NEW e \in Entries, RestoreCollection(e)
      PROVE  DraftsHaveContent'
    <2>1. UNCHANGED <<app, store>>
      BY <1>11 DEF RestoreCollection, storeVars
    <2>2. op'.kept = {World}
      BY <1>11, Began
    <2>3. World.app = app
      BY DEF World
    <2>4. HasContent(app')
      BY <2>1, NowHasContent DEF HasContent, Present
    <2> QED
      BY <2>1, <2>2, <2>3, <2>4, ContentKept
<1>12. CASE DeleteFolder
    <2>1. Stage(TRUE, Folder)
      BY <1>12 DEF DeleteFolder
    <2> QED
      BY <2>1, StageDraftsHaveContent
<1>13. CASE RemoveCollection
    <2>1. Stage(FALSE, {})
      BY <1>13 DEF RemoveCollection
    <2> QED
      BY <2>1, StageDraftsHaveContent
<1>14. CASE OpenCollection
    <2>1. UNCHANGED <<store, op>> /\ app'.draft = {}
      BY <1>14 DEF OpenCollection, storeVars
    <2> QED
      BY <2>1, ContentKept DEF HasContent
<1>15. CASE Persist
    <2>1. UNCHANGED <<app, store, op>>
      BY <1>15 DEF Persist, worldVars, storeVars
    <2> QED
      BY <2>1 DEF IInv, Safeguards, DraftsHaveContent, HasContent, Present
<1>16. CASE List
    <2>1. UNCHANGED <<app, store>>
      BY <1>16 DEF List, worldVars
    <2>2. op'.kept = op.kept
      BY <1>16, Went DEF Goes
    <2>3. HasContent(app')
      BY <2>1, NowHasContent DEF HasContent, Present
    <2> QED
      BY <2>1, <2>2, <2>3, ContentKept
<1>17. CASE ListFails
    <2>1. UNCHANGED app /\ \A e \in Entries : store'[e] \subseteq store[e]
      BY <1>17, StoreTyped DEF ListFails, worldVars
    <2>2. op'.kept = {}
      BY <1>17, Began
    <2>3. HasContent(app')
      BY <2>1, NowHasContent DEF HasContent, Present
    <2> QED
      BY <2>1, <2>2, <2>3, ContentKept
<1>18. CASE Drop
    <2>1. UNCHANGED store /\ app' = Without(op.targets)
      BY <1>18 DEF Drop, storeVars
    <2>2. op'.kept = op.kept
      BY <1>18, Went DEF Goes
    <2>3. HasContent(app')
      BY <2>1, NowHasContent, AppTyped DEF IInv, Without, HasContent, Present
    <2> QED
      BY <2>1, <2>2, <2>3, ContentKept
<1>19. CASE Unlist
    <2>1. op'.kept = op.kept /\ app'.draft = {}
      BY <1>19, Went DEF Goes, Unlist
    <2>2. \A e \in Entries : \A s \in store'[e] : \E t \in store[e] : s.before = t.before
      BY <1>19, Rewritten
    <2> QED
      BY <2>1, <2>2, ContentKept DEF HasContent
<1>20. CASE SaveState
    <2>1. UNCHANGED <<app, store>>
      BY <1>20 DEF SaveState, worldVars, storeVars
    <2>2. op'.kept = op.kept
      BY <1>20, Went DEF Goes
    <2>3. HasContent(app')
      BY <2>1, NowHasContent DEF HasContent, Present
    <2> QED
      BY <2>1, <2>2, <2>3, ContentKept
<1>21. CASE Commit
    <2>1. op'.kept = op.kept /\ UNCHANGED app
      BY <1>21, Went DEF Goes, Commit, worldVars
    <2>2. \A e \in Entries : \A s \in store'[e] : \E t \in store[e] : s.before = t.before
      BY <1>21, Rewritten
    <2>3. HasContent(app')
      BY <2>1, NowHasContent DEF HasContent, Present
    <2> QED
      BY <2>1, <2>2, <2>3, ContentKept
<1>22. CASE Mark
    <2>1. UNCHANGED app /\ \A e \in Entries : store'[e] \subseteq store[e]
      BY <1>22, StoreTyped DEF Mark, worldVars
    <2>2. op'.kept = {}
      BY <1>22, Began
    <2>3. HasContent(app')
      BY <2>1, NowHasContent DEF HasContent, Present
    <2> QED
      BY <2>1, <2>2, <2>3, ContentKept
<1>23. CASE StepFails
    <2>1. UNCHANGED <<app, store>>
      BY <1>23 DEF StepFails, storeVars
    <2>2. op'.kept = op.kept
      BY <1>23, Went DEF Goes
    <2>3. HasContent(app')
      BY <2>1, NowHasContent DEF HasContent, Present
    <2> QED
      BY <2>1, <2>2, <2>3, ContentKept
<1>24. CASE Undo
    <2>1. UNCHANGED <<app, store>>
      BY <1>24 DEF Undo, storeVars
    <2>2. op'.kept = op.kept
      BY <1>24, Went DEF Goes
    <2>3. HasContent(app')
      BY <2>1, NowHasContent DEF HasContent, Present
    <2> QED
      BY <2>1, <2>2, <2>3, ContentKept
<1>25. CASE UndoCopy
    <2>1. UNCHANGED <<app, store>>
      BY <1>25 DEF UndoCopy, storeVars
    <2>2. op'.kept = op.kept
      BY <1>25, Went DEF Goes
    <2>3. HasContent(app')
      BY <2>1, NowHasContent DEF HasContent, Present
    <2> QED
      BY <2>1, <2>2, <2>3, ContentKept
<1>26. CASE UndoFails
    <2>1. UNCHANGED <<app, store>>
      BY <1>26 DEF UndoFails, storeVars
    <2>2. op'.kept = op.kept
      BY <1>26, Went DEF Goes
    <2>3. HasContent(app')
      BY <2>1, NowHasContent DEF HasContent, Present
    <2> QED
      BY <2>1, <2>2, <2>3, ContentKept
<1>27. CASE UndoState
    <2>1. UNCHANGED store /\ app' = (CHOOSE w \in op.kept : TRUE).app
      BY <1>27 DEF UndoState, storeVars
    <2>2. op'.kept = op.kept /\ op.pc = "undoState"
      BY <1>27, Went DEF Goes
    <2>3. op.kept # {}
      BY <2>2, StoreTyped DEF OpHasEntry, Deleting
    <2>4. PICK w \in op.kept : app' = w.app
      BY <2>1, <2>3
    <2>5. HasContent(w.app)
      BY DEF IInv, Safeguards, DraftsHaveContent
    <2>6. HasContent(app')
      BY <2>4, <2>5 DEF HasContent, Present
    <2> QED
      BY <2>1, <2>2, <2>6, ContentKept
<1>28. CASE RemoveFromManifest
    <2>1. UNCHANGED <<app, store>>
      BY <1>28 DEF RemoveFromManifest, worldVars
    <2>2. op'.kept = op.kept
      BY <1>28, Went DEF Goes
    <2>3. HasContent(app')
      BY <2>1, NowHasContent DEF HasContent, Present
    <2> QED
      BY <2>1, <2>2, <2>3, ContentKept
<1>29. CASE EraseEntry
    <2>1. UNCHANGED app /\ \A e \in Entries : store'[e] \subseteq store[e]
      BY <1>29, StoreTyped DEF EraseEntry, worldVars
    <2>2. op'.kept = {}
      BY <1>29, Began
    <2>3. HasContent(app')
      BY <2>1, NowHasContent DEF HasContent, Present
    <2> QED
      BY <2>1, <2>2, <2>3, ContentKept
<1>30. CASE RemoveEntryFails
    <2>1. UNCHANGED app /\ \A e \in Entries : store'[e] \subseteq store[e]
      BY <1>30, StoreTyped DEF RemoveEntryFails, worldVars, storeVars
    <2>2. op'.kept = {}
      BY <1>30, Began
    <2>3. HasContent(app')
      BY <2>1, NowHasContent DEF HasContent, Present
    <2> QED
      BY <2>1, <2>2, <2>3, ContentKept
<1>31. CASE PurgeManifest
    <2>1. UNCHANGED app /\ \A e \in Entries : store'[e] \subseteq store[e]
      BY <1>31, StoreTyped DEF PurgeManifest, worldVars
    <2>2. op'.kept = {}
      BY <1>31, Began
    <2>3. HasContent(app')
      BY <2>1, NowHasContent DEF HasContent, Present
    <2> QED
      BY <2>1, <2>2, <2>3, ContentKept
<1>32. CASE RestoreClear
    <2>1. UNCHANGED <<app, store>>
      BY <1>32 DEF RestoreClear, storeVars
    <2>2. op'.kept = op.kept
      BY <1>32, Went DEF Goes
    <2>3. HasContent(app')
      BY <2>1, NowHasContent DEF HasContent, Present
    <2> QED
      BY <2>1, <2>2, <2>3, ContentKept
<1>33. CASE RestoreCopy
    <2>1. UNCHANGED <<app, store>>
      BY <1>33 DEF RestoreCopy, storeVars
    <2>2. op'.kept = op.kept
      BY <1>33, Went DEF Goes
    <2>3. HasContent(app')
      BY <2>1, NowHasContent DEF HasContent, Present
    <2> QED
      BY <2>1, <2>2, <2>3, ContentKept
<1>34. CASE RestoreFails
    <2>1. UNCHANGED app /\ \A e \in Entries : store'[e] \subseteq store[e]
      BY <1>34, StoreTyped DEF RestoreFails, storeVars
    <2>2. op'.kept = {}
      BY <1>34, Began
    <2>3. HasContent(app')
      BY <2>1, NowHasContent DEF HasContent, Present
    <2> QED
      BY <2>1, <2>2, <2>3, ContentKept
<1>35. CASE RestoreState
    <2>1. UNCHANGED store /\ op.pc = "restored"
      BY <1>35 DEF RestoreState, At, storeVars
    <2>2. Held \in store[Entry] /\ Entry \in Entries
      BY <2>1, WorkingEntry DEF Restoring
    <2>3. CASE app' = Held.before.app /\ Goto("unlist")
      <3>1. HasContent(app')
        BY <2>2, <2>3 DEF IInv, Safeguards, DraftsHaveContent, HasContent, Present
      <3>2. op'.kept = op.kept
        BY <2>3, GotoTyped, StoreTyped DEF PCs
      <3> QED
        BY <2>1, <3>1, <3>2, ContentKept
    <2>4. CASE UNCHANGED app /\ op' = Idle
      <3>1. HasContent(app')
        BY <2>4, NowHasContent DEF HasContent, Present
      <3>2. op'.kept = {}
        BY <2>4, IdleTyped
      <3> QED
        BY <2>1, <3>1, <3>2, ContentKept
    <2> QED
      BY <1>35, <2>3, <2>4 DEF RestoreState
<1>36. CASE ReopenCollection
    <2>1. UNCHANGED store /\ op.pc = "reopened"
      BY <1>36 DEF ReopenCollection, At, storeVars
    <2>2. Held \in store[Entry] /\ Entry \in Entries
      BY <2>1, WorkingEntry DEF Restoring
    <2>3. CASE app' = Held.before.app /\ Goto("unlist")
      <3>1. HasContent(app')
        BY <2>2, <2>3 DEF IInv, Safeguards, DraftsHaveContent, HasContent, Present
      <3>2. op'.kept = op.kept
        BY <2>3, GotoTyped, StoreTyped DEF PCs
      <3> QED
        BY <2>1, <3>1, <3>2, ContentKept
    <2>4. CASE UNCHANGED app /\ op' = Idle
      <3>1. HasContent(app')
        BY <2>4, NowHasContent DEF HasContent, Present
      <3>2. op'.kept = {}
        BY <2>4, IdleTyped
      <3> QED
        BY <2>1, <3>1, <3>2, ContentKept
    <2> QED
      BY <1>36, <2>3, <2>4 DEF ReopenCollection
<1>37. CASE Crash
    <2>1. UNCHANGED store /\ app'.draft = {}
      BY <1>37 DEF Crash, storeVars
    <2>2. op'.kept = {}
      BY <1>37, Began
    <2> QED
      BY <2>1, <2>2, ContentKept DEF HasContent
<1>38. CASE UNCHANGED vars
    <2>1. UNCHANGED <<app, store, op>>
      BY <1>38 DEF vars, worldVars, storeVars
    <2> QED
      BY <2>1 DEF IInv, Safeguards, DraftsHaveContent, HasContent, Present
<1> QED
  BY <1>1, <1>2, <1>3, <1>4, <1>5, <1>6, <1>7, <1>8, <1>9, <1>10, <1>11,
     <1>12, <1>13, <1>14, <1>15, <1>16, <1>17, <1>18, <1>19, <1>20, <1>21, <1>22,
     <1>23, <1>24, <1>25, <1>26, <1>27, <1>28, <1>29, <1>30, <1>31, <1>32, <1>33,
     <1>34, <1>35, <1>36, <1>37, <1>38 DEF RecoveryNext

(* Snapshots stay of their kind, and the operation goes somewhere else.    *)
LEMMA KindKept ==
    ASSUME IInv,
           \/ op'.pc \notin {"files", "undoCopy", "ignore"}
           \/ op'.pc = op.pc /\ op'.entry = op.entry,
           \A e \in Entries : \A s \in store'[e] :
               \E t \in store[e] : s.tree = t.tree /\ s.before = t.before
    PROVE  PayloadByKind'
  <1>1. PayloadByKind
    BY DEF IInv, Safeguards
  <1>2. op.pc \in {"files", "undoCopy", "ignore"} => op.entry \in Entries
    BY StoreTyped DEF OpHasEntry, Deleting
  <1> QED
    BY <1>1, <1>2 DEF PayloadByKind

LEMMA KindStays ==
    ASSUME IInv, op'.pc \notin {"files", "undoCopy", "ignore"},
           \A e \in Entries : store'[e] \subseteq store[e]
    PROVE  PayloadByKind'
  <1>1. \A e \in Entries : \A s \in store'[e] :
            \E t \in store[e] : s.tree = t.tree /\ s.before = t.before
    <2>1. ASSUME NEW e \in Entries, NEW s \in store'[e] PROVE s \in store[e]
      OBVIOUS
    <2> QED
      BY <2>1
  <1> QED
    BY <1>1, KindKept

LEMMA StagePayloadByKind ==
    ASSUME IInv, NEW tree \in BOOLEAN, NEW T, Stage(tree, T) PROVE PayloadByKind'
  <1>1. op'.pc = "list"
    BY Staged
  <1>2. PayloadByKind
    BY DEF IInv, Safeguards
  <1>3. ASSUME NEW e \in Entries, NEW s \in store'[e], ~s.tree
        PROVE  s.before.disk = NoFiles
    <2>1. CASE e = made'
      BY <1>3, <2>1, Staged
    <2>2. CASE e # made'
      BY <1>2, <1>3, <2>2, Staged DEF PayloadByKind
    <2> QED
      BY <2>1, <2>2
  <1> QED
    BY <1>1, <1>3 DEF PayloadByKind, NoFiles

LEMMA PayloadByKindStep ==
    ASSUME IInv, [RecoveryNext]_vars PROVE PayloadByKind'
PROOF
<1> USE IInv
<1>1. ASSUME NEW r \in Requests, UpdateRequest(r)
      PROVE  PayloadByKind'
    <2>1. UNCHANGED <<store, op>>
      BY <1>1 DEF UpdateRequest, storeVars
    <2> QED
      BY <2>1, KindKept
<1>2. ASSUME NEW r \in Requests, CreateRequest(r)
      PROVE  PayloadByKind'
    <2>1. UNCHANGED <<store, op>>
      BY <1>2 DEF CreateRequest, storeVars
    <2> QED
      BY <2>1, KindKept
<1>3. ASSUME NEW r \in Requests, SaveRequest(r)
      PROVE  PayloadByKind'
    <2>1. UNCHANGED <<store, op>>
      BY <1>3 DEF SaveRequest, storeVars
    <2> QED
      BY <2>1, KindKept
<1>4. ASSUME NEW r \in Requests, CloseTab(r)
      PROVE  PayloadByKind'
    <2>1. UNCHANGED <<store, op>>
      BY <1>4 DEF CloseTab, storeVars
    <2> QED
      BY <2>1, KindKept
<1>5. ASSUME NEW r \in Requests, DeleteRequest(r)
      PROVE  PayloadByKind'
    <2>1. Stage(TRUE, {r})
      BY <1>5 DEF DeleteRequest
    <2> QED
      BY <2>1, StagePayloadByKind
<1>6. ASSUME NEW r \in Requests, RemoveFile(r)
      PROVE  PayloadByKind'
    <2>1. UNCHANGED <<store, op>>
      BY <1>6 DEF RemoveFile, storeVars
    <2> QED
      BY <2>1, KindKept
<1>7. ASSUME NEW e \in Entries, Expire(e)
      PROVE  PayloadByKind'
    <2>1. UNCHANGED <<store, op>>
      BY <1>7 DEF Expire, storeVars
    <2> QED
      BY <2>1, KindKept
<1>8. ASSUME NEW e \in Entries, Discard(e)
      PROVE  PayloadByKind'
    <2>1. op'.pc = "unlist"
      BY <1>8, Began
    <2>2. \A f \in Entries : store'[f] \subseteq store[f]
      BY <1>8, StoreTyped DEF Discard, storeVars
    <2> QED
      BY <2>1, <2>2, KindStays
<1>9. ASSUME NEW e \in Entries, PurgeErase(e)
      PROVE  PayloadByKind'
    <2>1. op'.pc = "purge"
      BY <1>9, Began
    <2>2. \A f \in Entries : store'[f] \subseteq store[f]
      BY <1>9, StoreTyped DEF PurgeErase
    <2> QED
      BY <2>1, <2>2, KindStays
<1>10. ASSUME NEW e \in Entries, RestoreTree(e)
      PROVE  PayloadByKind'
    <2>1. op'.pc = "clear"
      BY <1>10, Began
    <2>2. \A f \in Entries : store'[f] \subseteq store[f]
      BY <1>10, StoreTyped DEF RestoreTree, storeVars
    <2> QED
      BY <2>1, <2>2, KindStays
<1>11. ASSUME NEW e \in Entries, RestoreCollection(e)
      PROVE  PayloadByKind'
    <2>1. op'.pc = "reopened"
      BY <1>11, Began
    <2>2. \A f \in Entries : store'[f] \subseteq store[f]
      BY <1>11, StoreTyped DEF RestoreCollection, storeVars
    <2> QED
      BY <2>1, <2>2, KindStays
<1>12. CASE DeleteFolder
    <2>1. Stage(TRUE, Folder)
      BY <1>12 DEF DeleteFolder
    <2> QED
      BY <2>1, StagePayloadByKind
<1>13. CASE RemoveCollection
    <2>1. Stage(FALSE, {})
      BY <1>13 DEF RemoveCollection
    <2> QED
      BY <2>1, StagePayloadByKind
<1>14. CASE OpenCollection
    <2>1. UNCHANGED <<store, op>>
      BY <1>14 DEF OpenCollection, storeVars
    <2> QED
      BY <2>1, KindKept
<1>15. CASE Persist
    <2>1. UNCHANGED <<store, op>>
      BY <1>15 DEF Persist, storeVars
    <2> QED
      BY <2>1, KindKept
<1>16. CASE List
    <2>1. UNCHANGED store
      BY <1>16 DEF List
    <2>2. op.pc = "list" /\ op'.pc = (IF Held.tree THEN "files" ELSE "ignore")
          /\ op'.entry = op.entry
      BY <1>16, Went DEF Goes
    <2>3. store[op.entry] = {Held}
      BY <2>2, WorkingEntry DEF Deleting
    <2>4. PayloadByKind
      BY DEF IInv, Safeguards
    <2> QED
      BY <2>1, <2>2, <2>3, <2>4 DEF PayloadByKind, NoFiles
<1>17. CASE ListFails
    <2>1. op'.pc = "idle"
      BY <1>17, Began
    <2>2. \A e \in Entries : store'[e] \subseteq store[e]
      BY <1>17, StoreTyped DEF ListFails
    <2> QED
      BY <2>1, <2>2, KindStays
<1>18. CASE Drop
    <2>1. op'.pc = "save"
      BY <1>18, Went DEF Goes
    <2>2. \A e \in Entries : store'[e] \subseteq store[e]
      BY <1>18, StoreTyped DEF Drop, storeVars
    <2> QED
      BY <2>1, <2>2, KindStays
<1>19. CASE Unlist
    <2>1. op'.pc = "save"
      BY <1>19, Went DEF Goes
    <2>2. \A e \in Entries : \A s \in store'[e] :
              \E t \in store[e] : s.tree = t.tree /\ s.before = t.before
      BY <1>19, Rewritten
    <2> QED
      BY <2>1, <2>2, KindKept
<1>20. CASE SaveState
    <2>1. op'.pc = "commit"
      BY <1>20, Went DEF Goes
    <2>2. \A e \in Entries : store'[e] \subseteq store[e]
      BY <1>20, StoreTyped DEF SaveState, storeVars
    <2> QED
      BY <2>1, <2>2, KindStays
<1>21. CASE Commit
    <2>1. op'.pc = "mark"
      BY <1>21, Went DEF Goes
    <2>2. \A e \in Entries : \A s \in store'[e] :
              \E t \in store[e] : s.tree = t.tree /\ s.before = t.before
      BY <1>21, Rewritten
    <2> QED
      BY <2>1, <2>2, KindKept
<1>22. CASE Mark
    <2>1. op'.pc = "idle"
      BY <1>22, Began
    <2>2. \A e \in Entries : store'[e] \subseteq store[e]
      BY <1>22, StoreTyped DEF Mark
    <2> QED
      BY <2>1, <2>2, KindStays
<1>23. CASE StepFails
    <2>1. op'.pc = "undo"
      BY <1>23, Went DEF Goes
    <2>2. \A e \in Entries : store'[e] \subseteq store[e]
      BY <1>23, StoreTyped DEF StepFails, storeVars
    <2> QED
      BY <2>1, <2>2, KindStays
<1>24. CASE Undo
    <2>1. UNCHANGED store
      BY <1>24 DEF Undo, storeVars
    <2>2. op.pc = "undo" /\ op'.pc = (IF Held.tree THEN "undoCopy" ELSE "undoState")
          /\ op'.entry = op.entry
      BY <1>24, Went DEF Goes
    <2>3. store[op.entry] = {Held}
      BY <2>2, WorkingEntry DEF Deleting
    <2>4. PayloadByKind
      BY DEF IInv, Safeguards
    <2> QED
      BY <2>1, <2>2, <2>3, <2>4 DEF PayloadByKind, NoFiles
<1>25. CASE UndoCopy
    <2>1. op'.pc = "undoState"
      BY <1>25, Went DEF Goes
    <2>2. \A e \in Entries : store'[e] \subseteq store[e]
      BY <1>25, StoreTyped DEF UndoCopy, storeVars
    <2> QED
      BY <2>1, <2>2, KindStays
<1>26. CASE UndoFails
    <2>1. op'.pc = "undoState"
      BY <1>26, Went DEF Goes
    <2>2. \A e \in Entries : store'[e] \subseteq store[e]
      BY <1>26, StoreTyped DEF UndoFails, storeVars
    <2> QED
      BY <2>1, <2>2, KindStays
<1>27. CASE UndoState
    <2>1. op'.pc = "unlist"
      BY <1>27, Went DEF Goes
    <2>2. \A e \in Entries : store'[e] \subseteq store[e]
      BY <1>27, StoreTyped DEF UndoState, storeVars
    <2> QED
      BY <2>1, <2>2, KindStays
<1>28. CASE RemoveFromManifest
    <2>1. op'.pc = "erase"
      BY <1>28, Went DEF Goes
    <2>2. \A e \in Entries : store'[e] \subseteq store[e]
      BY <1>28, StoreTyped DEF RemoveFromManifest
    <2> QED
      BY <2>1, <2>2, KindStays
<1>29. CASE EraseEntry
    <2>1. op'.pc = "idle"
      BY <1>29, Began
    <2>2. \A e \in Entries : store'[e] \subseteq store[e]
      BY <1>29, StoreTyped DEF EraseEntry
    <2> QED
      BY <2>1, <2>2, KindStays
<1>30. CASE RemoveEntryFails
    <2>1. op'.pc = "idle"
      BY <1>30, Began
    <2>2. \A e \in Entries : store'[e] \subseteq store[e]
      BY <1>30, StoreTyped DEF RemoveEntryFails, storeVars
    <2> QED
      BY <2>1, <2>2, KindStays
<1>31. CASE PurgeManifest
    <2>1. op'.pc = "idle"
      BY <1>31, Began
    <2>2. \A e \in Entries : store'[e] \subseteq store[e]
      BY <1>31, StoreTyped DEF PurgeManifest
    <2> QED
      BY <2>1, <2>2, KindStays
<1>32. CASE RestoreClear
    <2>1. op'.pc = "copy"
      BY <1>32, Went DEF Goes
    <2>2. \A e \in Entries : store'[e] \subseteq store[e]
      BY <1>32, StoreTyped DEF RestoreClear, storeVars
    <2> QED
      BY <2>1, <2>2, KindStays
<1>33. CASE RestoreCopy
    <2>1. op'.pc = "restored"
      BY <1>33, Went DEF Goes
    <2>2. \A e \in Entries : store'[e] \subseteq store[e]
      BY <1>33, StoreTyped DEF RestoreCopy, storeVars
    <2> QED
      BY <2>1, <2>2, KindStays
<1>34. CASE RestoreFails
    <2>1. op'.pc = "idle"
      BY <1>34, Began
    <2>2. \A e \in Entries : store'[e] \subseteq store[e]
      BY <1>34, StoreTyped DEF RestoreFails, storeVars
    <2> QED
      BY <2>1, <2>2, KindStays
<1>35. CASE RestoreState
    <2>1. UNCHANGED store
      BY <1>35 DEF RestoreState, storeVars
    <2>2. op'.pc \in {"unlist", "idle"}
      BY <1>35, GotoTyped, IdleTyped, StoreTyped DEF RestoreState, PCs
    <2> QED
      BY <2>1, <2>2, KindStays
<1>36. CASE ReopenCollection
    <2>1. UNCHANGED store
      BY <1>36 DEF ReopenCollection, storeVars
    <2>2. op'.pc \in {"unlist", "idle"}
      BY <1>36, GotoTyped, IdleTyped, StoreTyped DEF ReopenCollection, PCs
    <2> QED
      BY <2>1, <2>2, KindStays
<1>37. CASE Crash
    <2>1. op'.pc = "idle"
      BY <1>37, Began
    <2>2. \A e \in Entries : store'[e] \subseteq store[e]
      BY <1>37, StoreTyped DEF Crash, storeVars
    <2> QED
      BY <2>1, <2>2, KindStays
<1>38. CASE UNCHANGED vars
    <2>1. UNCHANGED <<store, op>>
      BY <1>38 DEF vars, storeVars, worldVars
    <2> QED
      BY <2>1, KindKept
<1> QED
  BY <1>1, <1>2, <1>3, <1>4, <1>5, <1>6, <1>7, <1>8, <1>9, <1>10, <1>11,
     <1>12, <1>13, <1>14, <1>15, <1>16, <1>17, <1>18, <1>19, <1>20, <1>21, <1>22,
     <1>23, <1>24, <1>25, <1>26, <1>27, <1>28, <1>29, <1>30, <1>31, <1>32, <1>33,
     <1>34, <1>35, <1>36, <1>37, <1>38 DEF RecoveryNext

(* An operation that is past its commit, or not a deletion.                *)
LEMMA FilesDone ==
    ASSUME IInv, op'.pc \notin {"list", "files", "save", "commit"},
           \A e \in Entries : store'[e] \subseteq store[e]
    PROVE  FilesFollowSnapshot'
  <1>1. FilesFollowSnapshot
    BY DEF IInv, Safeguards
  <1>2. ASSUME NEW e \in Entries, NEW s \in store'[e], NEW w \in s.after, s.tree
        PROVE  PutsBack(s, w.disk)
    <2>1. s \in store[e]
      OBVIOUS
    <2> QED
      BY <1>1, <1>2, <2>1 DEF FilesFollowSnapshot
  <1> QED
    BY <1>2 DEF FilesFollowSnapshot, PutsBack, Present

(* A deletion that goes on.                                                *)
LEMMA FilesGoOn ==
    ASSUME IInv, UNCHANGED store, op'.entry = op.entry,
           op.pc \in {"list", "files", "save", "commit"},
           op'.pc \in {"files", "save", "commit"},
           op'.pc = "files" => op.pc \in {"list", "files"} /\ UNCHANGED app,
           \A s \in store[op.entry] : s.tree /\ PutsBack(s, disk) => PutsBack(s, disk')
    PROVE  FilesFollowSnapshot'
  <1>1. FilesFollowSnapshot
    BY DEF IInv, Safeguards
  <1>2. \A s \in store'[op'.entry] : s.tree => PutsBack(s, disk')
    BY <1>1 DEF FilesFollowSnapshot
  <1>3. op'.pc = "files" => \A s \in store'[op'.entry] : app' = s.before.app
    BY <1>1 DEF FilesFollowSnapshot
  <1>4. \A e \in Entries : \A s \in store'[e] : \A w \in s.after :
            s.tree => PutsBack(s, w.disk)
    BY <1>1 DEF FilesFollowSnapshot
  <1> QED
    BY <1>2, <1>3, <1>4 DEF FilesFollowSnapshot, PutsBack, Present

LEMMA FilesSame ==
    ASSUME IInv, UNCHANGED <<disk, app, store, op>> PROVE FilesFollowSnapshot'
  BY DEF IInv, Safeguards, FilesFollowSnapshot, PutsBack, Present

LEMMA StageFilesFollowSnapshot ==
    ASSUME IInv, NEW tree \in BOOLEAN, NEW T, Stage(tree, T) PROVE FilesFollowSnapshot'
  <1>1. FilesFollowSnapshot
    BY DEF IInv, Safeguards
  <1>2. PICK x \in Snapshots : /\ store'[made'] = {x} /\ x.tree = tree /\ x.after = {}
                               /\ x.before.disk = (IF tree THEN disk ELSE NoFiles)
                               /\ x.before.app = app
    BY Staged
  <1>3. /\ made' \in Entries /\ op'.pc = "list" /\ op'.entry = made'
        /\ UNCHANGED <<disk, app>>
        /\ \A e \in Entries \ {made'} : store'[e] = store[e]
    BY Staged
  <1>4. ASSUME NEW e \in Entries, NEW s \in store'[e], NEW w \in s.after, s.tree
        PROVE  PutsBack(s, w.disk)
    <2>1. CASE e = made'
      BY <1>2, <2>1
    <2>2. CASE e # made'
      BY <1>1, <1>3, <1>4, <2>2 DEF FilesFollowSnapshot
    <2> QED
      BY <2>1, <2>2
  <1>5. \A s \in store'[op'.entry] : s.tree => PutsBack(s, disk')
    BY <1>2, <1>3 DEF PutsBack, Present
  <1>6. \A s \in store'[op'.entry] : app' = s.before.app
    BY <1>2, <1>3
  <1> QED
    BY <1>3, <1>4, <1>5, <1>6 DEF FilesFollowSnapshot, PutsBack, Present

(* Writing what memory had when the deletion began, without the requests   *)
(* that go, writes what the snapshot puts back.                            *)
LEMMA WritingPutsBack ==
    ASSUME IInv, op.pc = "files", NEW T,
           NEW s \in store[op.entry], s.tree, PutsBack(s, disk)
    PROVE  PutsBack(s, Written(disk, Without(T).items))
  <1>1. app = s.before.app
    BY DEF IInv, Safeguards, FilesFollowSnapshot
  <1>2. Without(T).items = [r \in Requests |-> IF r \in T THEN None ELSE app.items[r]]
    BY DEF Without, IInv, RecoveryTypeOK, Apps
  <1>3. \A r \in Requests : Without(T).items[r] \in {None, s.before.app.items[r]}
    BY <1>1, <1>2
  <1>4. \A r \in Requests : Written(disk, Without(T).items)[r]
                               \in {disk[r], s.before.app.items[r]}
    BY <1>3 DEF Written
  <1>5. \A r \in Requests : Written(disk, Without(T).items)[r] # None
            => disk[r] # None
               \/ Written(disk, Without(T).items)[r] = s.before.app.items[r]
    BY <1>4
  <1> QED
    BY <1>4, <1>5 DEF PutsBack, Present

LEMMA FilesFollowSnapshotStep ==
    ASSUME IInv, [RecoveryNext]_vars PROVE FilesFollowSnapshot'
PROOF
<1> USE IInv
<1>1. ASSUME NEW r \in Requests, UpdateRequest(r)
      PROVE  FilesFollowSnapshot'
    <2>1. op'.pc = "idle" /\ UNCHANGED store
      BY <1>1 DEF UpdateRequest, At, storeVars
    <2> QED
      BY <2>1, FilesDone
<1>2. ASSUME NEW r \in Requests, CreateRequest(r)
      PROVE  FilesFollowSnapshot'
    <2>1. op'.pc = "idle" /\ UNCHANGED store
      BY <1>2 DEF CreateRequest, At, storeVars
    <2> QED
      BY <2>1, FilesDone
<1>3. ASSUME NEW r \in Requests, SaveRequest(r)
      PROVE  FilesFollowSnapshot'
    <2>1. op'.pc = "idle" /\ UNCHANGED store
      BY <1>3 DEF SaveRequest, At, storeVars
    <2> QED
      BY <2>1, FilesDone
<1>4. ASSUME NEW r \in Requests, CloseTab(r)
      PROVE  FilesFollowSnapshot'
    <2>1. op'.pc = "idle" /\ UNCHANGED store
      BY <1>4 DEF CloseTab, At, storeVars
    <2> QED
      BY <2>1, FilesDone
<1>5. ASSUME NEW r \in Requests, DeleteRequest(r)
      PROVE  FilesFollowSnapshot'
    <2>1. Stage(TRUE, {r})
      BY <1>5 DEF DeleteRequest
    <2> QED
      BY <2>1, StageFilesFollowSnapshot
<1>6. ASSUME NEW r \in Requests, RemoveFile(r)
      PROVE  FilesFollowSnapshot'
    <2>1. UNCHANGED <<app, store, op>> /\ op.pc = "files"
      BY <1>6 DEF RemoveFile, At, storeVars
    <2>2. \A q \in Requests : disk'[q] # None => disk'[q] = disk[q]
      BY <1>6 DEF RemoveFile, IInv, RecoveryTypeOK, Files
    <2>3. \A s \in store[op.entry] : PutsBack(s, disk) => PutsBack(s, disk')
      BY <2>2 DEF PutsBack, Present
    <2> QED
      BY <2>1, <2>3, FilesGoOn
<1>7. ASSUME NEW e \in Entries, Expire(e)
      PROVE  FilesFollowSnapshot'
    <2>1. UNCHANGED <<disk, app, store, op>>
      BY <1>7 DEF Expire, worldVars, storeVars
    <2> QED
      BY <2>1, FilesSame
<1>8. ASSUME NEW e \in Entries, Discard(e)
      PROVE  FilesFollowSnapshot'
    <2>1. op'.pc = "unlist"
      BY <1>8, Began
    <2>2. \A f \in Entries : store'[f] \subseteq store[f]
      BY <1>8, StoreTyped DEF Discard, storeVars
    <2> QED
      BY <2>1, <2>2, FilesDone
<1>9. ASSUME NEW e \in Entries, PurgeErase(e)
      PROVE  FilesFollowSnapshot'
    <2>1. op'.pc = "purge"
      BY <1>9, Began
    <2>2. \A f \in Entries : store'[f] \subseteq store[f]
      BY <1>9, StoreTyped DEF PurgeErase
    <2> QED
      BY <2>1, <2>2, FilesDone
<1>10. ASSUME NEW e \in Entries, RestoreTree(e)
      PROVE  FilesFollowSnapshot'
    <2>1. op'.pc = "clear"
      BY <1>10, Began
    <2>2. \A f \in Entries : store'[f] \subseteq store[f]
      BY <1>10, StoreTyped DEF RestoreTree, storeVars
    <2> QED
      BY <2>1, <2>2, FilesDone
<1>11. ASSUME NEW e \in Entries, RestoreCollection(e)
      PROVE  FilesFollowSnapshot'
    <2>1. op'.pc = "reopened"
      BY <1>11, Began
    <2>2. \A f \in Entries : store'[f] \subseteq store[f]
      BY <1>11, StoreTyped DEF RestoreCollection, storeVars
    <2> QED
      BY <2>1, <2>2, FilesDone
<1>12. CASE DeleteFolder
    <2>1. Stage(TRUE, Folder)
      BY <1>12 DEF DeleteFolder
    <2> QED
      BY <2>1, StageFilesFollowSnapshot
<1>13. CASE RemoveCollection
    <2>1. Stage(FALSE, {})
      BY <1>13 DEF RemoveCollection
    <2> QED
      BY <2>1, StageFilesFollowSnapshot
<1>14. CASE OpenCollection
    <2>1. op'.pc = "idle" /\ UNCHANGED store
      BY <1>14 DEF OpenCollection, At, storeVars
    <2> QED
      BY <2>1, FilesDone
<1>15. CASE Persist
    <2>1. op'.pc = "idle" /\ UNCHANGED store
      BY <1>15 DEF Persist, At, storeVars
    <2> QED
      BY <2>1, FilesDone
<1>16. CASE List
    <2>1. UNCHANGED <<disk, app, store>>
      BY <1>16 DEF List, worldVars
    <2>2. op.pc = "list" /\ op'.pc \in {"files", "ignore"} /\ op'.entry = op.entry
      BY <1>16, Went DEF Goes
    <2>3. CASE op'.pc = "files"
      BY <2>1, <2>2, <2>3, FilesGoOn DEF PutsBack, Present
    <2>4. CASE op'.pc = "ignore"
      BY <2>1, <2>4, FilesDone
    <2> QED
      BY <2>2, <2>3, <2>4
<1>17. CASE ListFails
    <2>1. op'.pc = "idle"
      BY <1>17, Began
    <2>2. \A e \in Entries : store'[e] \subseteq store[e]
      BY <1>17, StoreTyped DEF ListFails
    <2> QED
      BY <2>1, <2>2, FilesDone
<1>18. CASE Drop
    <2>1. UNCHANGED store /\ disk' \in {disk, Written(disk, Without(op.targets).items)}
      BY <1>18 DEF Drop, storeVars
    <2>2. op.pc = "files" /\ op'.pc = "save" /\ op'.entry = op.entry
      BY <1>18, Went DEF Goes
    <2>3. ASSUME NEW s \in store[op.entry], s.tree, PutsBack(s, disk)
          PROVE  PutsBack(s, disk')
      BY <2>1, <2>2, <2>3, WritingPutsBack DEF PutsBack, Present
    <2> QED
      BY <2>1, <2>2, <2>3, FilesGoOn
<1>19. CASE Unlist
    <2>1. op.pc = "ignore" /\ op'.pc = "save" /\ op'.entry = op.entry
      BY <1>19, Went DEF Goes
    <2>2. ~Held.tree
      BY <1>19, <2>1, Rewritten DEF IInv, Safeguards, PayloadByKind
    <2>3. \A s \in store'[Entry] : ~s.tree
      BY <1>19, <2>2, Rewritten
    <2>4. /\ Entry \in Entries /\ op.entry = Entry
          /\ \A e \in Entries \ {Entry} : store'[e] = store[e]
      BY <1>19, Rewritten
    <2>5. FilesFollowSnapshot
      BY DEF IInv, Safeguards
    <2>6. ASSUME NEW e \in Entries, NEW s \in store'[e], NEW w \in s.after, s.tree
          PROVE  PutsBack(s, w.disk)
      <3>1. e # Entry
        BY <2>3, <2>6
      <3> QED
        BY <2>4, <2>5, <2>6, <3>1 DEF FilesFollowSnapshot
    <2> QED
      BY <2>1, <2>3, <2>4, <2>6 DEF FilesFollowSnapshot, PutsBack, Present
<1>20. CASE SaveState
    <2>1. UNCHANGED <<disk, store>>
      BY <1>20 DEF SaveState, worldVars, storeVars
    <2>2. op.pc = "save" /\ op'.pc = "commit" /\ op'.entry = op.entry
      BY <1>20, Went DEF Goes
    <2> QED
      BY <2>1, <2>2, FilesGoOn DEF PutsBack, Present
<1>21. CASE Commit
    <2>1. op.pc = "commit" /\ op'.pc = "mark"
      BY <1>21, Went DEF Goes
    <2>2. FilesFollowSnapshot
      BY DEF IInv, Safeguards
    <2>3. Held.tree => PutsBack(Held, disk)
      BY <1>21, <2>1, <2>2, Rewritten DEF FilesFollowSnapshot
    <2>4. ASSUME NEW e \in Entries, NEW s \in store'[e], NEW w \in s.after, s.tree
          PROVE  PutsBack(s, w.disk)
      <3>1. CASE e = Entry
        BY <1>21, <2>3, <2>4, <3>1, Rewritten DEF PutsBack
      <3>2. CASE e # Entry
        BY <1>21, <2>2, <2>4, <3>2, Rewritten DEF FilesFollowSnapshot
      <3> QED
        BY <3>1, <3>2
    <2> QED
      BY <2>1, <2>4 DEF FilesFollowSnapshot, PutsBack, Present
<1>22. CASE Mark
    <2>1. op'.pc = "idle"
      BY <1>22, Began
    <2>2. \A e \in Entries : store'[e] \subseteq store[e]
      BY <1>22, StoreTyped DEF Mark
    <2> QED
      BY <2>1, <2>2, FilesDone
<1>23. CASE StepFails
    <2>1. op'.pc = "undo"
      BY <1>23, Went DEF Goes
    <2>2. \A e \in Entries : store'[e] \subseteq store[e]
      BY <1>23, StoreTyped DEF StepFails, storeVars
    <2> QED
      BY <2>1, <2>2, FilesDone
<1>24. CASE Undo
    <2>1. UNCHANGED store
      BY <1>24 DEF Undo, storeVars
    <2>2. op'.pc \in {"undoCopy", "undoState"}
      BY <1>24, Went DEF Goes
    <2> QED
      BY <2>1, <2>2, FilesDone
<1>25. CASE UndoCopy
    <2>1. op'.pc = "undoState"
      BY <1>25, Went DEF Goes
    <2>2. \A e \in Entries : store'[e] \subseteq store[e]
      BY <1>25, StoreTyped DEF UndoCopy, storeVars
    <2> QED
      BY <2>1, <2>2, FilesDone
<1>26. CASE UndoFails
    <2>1. op'.pc = "undoState"
      BY <1>26, Went DEF Goes
    <2>2. \A e \in Entries : store'[e] \subseteq store[e]
      BY <1>26, StoreTyped DEF UndoFails, storeVars
    <2> QED
      BY <2>1, <2>2, FilesDone
<1>27. CASE UndoState
    <2>1. op'.pc = "unlist"
      BY <1>27, Went DEF Goes
    <2>2. \A e \in Entries : store'[e] \subseteq store[e]
      BY <1>27, StoreTyped DEF UndoState, storeVars
    <2> QED
      BY <2>1, <2>2, FilesDone
<1>28. CASE RemoveFromManifest
    <2>1. op'.pc = "erase"
      BY <1>28, Went DEF Goes
    <2>2. \A e \in Entries : store'[e] \subseteq store[e]
      BY <1>28, StoreTyped DEF RemoveFromManifest
    <2> QED
      BY <2>1, <2>2, FilesDone
<1>29. CASE EraseEntry
    <2>1. op'.pc = "idle"
      BY <1>29, Began
    <2>2. \A e \in Entries : store'[e] \subseteq store[e]
      BY <1>29, StoreTyped DEF EraseEntry
    <2> QED
      BY <2>1, <2>2, FilesDone
<1>30. CASE RemoveEntryFails
    <2>1. op'.pc = "idle"
      BY <1>30, Began
    <2>2. \A e \in Entries : store'[e] \subseteq store[e]
      BY <1>30, StoreTyped DEF RemoveEntryFails, storeVars
    <2> QED
      BY <2>1, <2>2, FilesDone
<1>31. CASE PurgeManifest
    <2>1. op'.pc = "idle"
      BY <1>31, Began
    <2>2. \A e \in Entries : store'[e] \subseteq store[e]
      BY <1>31, StoreTyped DEF PurgeManifest
    <2> QED
      BY <2>1, <2>2, FilesDone
<1>32. CASE RestoreClear
    <2>1. op'.pc = "copy"
      BY <1>32, Went DEF Goes
    <2>2. \A e \in Entries : store'[e] \subseteq store[e]
      BY <1>32, StoreTyped DEF RestoreClear, storeVars
    <2> QED
      BY <2>1, <2>2, FilesDone
<1>33. CASE RestoreCopy
    <2>1. op'.pc = "restored"
      BY <1>33, Went DEF Goes
    <2>2. \A e \in Entries : store'[e] \subseteq store[e]
      BY <1>33, StoreTyped DEF RestoreCopy, storeVars
    <2> QED
      BY <2>1, <2>2, FilesDone
<1>34. CASE RestoreFails
    <2>1. op'.pc = "idle"
      BY <1>34, Began
    <2>2. \A e \in Entries : store'[e] \subseteq store[e]
      BY <1>34, StoreTyped DEF RestoreFails, storeVars
    <2> QED
      BY <2>1, <2>2, FilesDone
<1>35. CASE RestoreState
    <2>1. UNCHANGED store
      BY <1>35 DEF RestoreState, storeVars
    <2>2. op'.pc \in {"unlist", "idle"}
      BY <1>35, GotoTyped, IdleTyped, StoreTyped DEF RestoreState, PCs
    <2> QED
      BY <2>1, <2>2, FilesDone
<1>36. CASE ReopenCollection
    <2>1. UNCHANGED store
      BY <1>36 DEF ReopenCollection, storeVars
    <2>2. op'.pc \in {"unlist", "idle"}
      BY <1>36, GotoTyped, IdleTyped, StoreTyped DEF ReopenCollection, PCs
    <2> QED
      BY <2>1, <2>2, FilesDone
<1>37. CASE Crash
    <2>1. op'.pc = "idle"
      BY <1>37, Began
    <2>2. \A e \in Entries : store'[e] \subseteq store[e]
      BY <1>37, StoreTyped DEF Crash, storeVars
    <2> QED
      BY <2>1, <2>2, FilesDone
<1>38. CASE UNCHANGED vars
    <2>1. UNCHANGED <<disk, app, store, op>>
      BY <1>38 DEF vars, storeVars, worldVars
    <2> QED
      BY <2>1, FilesSame
<1> QED
  BY <1>1, <1>2, <1>3, <1>4, <1>5, <1>6, <1>7, <1>8, <1>9, <1>10, <1>11,
     <1>12, <1>13, <1>14, <1>15, <1>16, <1>17, <1>18, <1>19, <1>20, <1>21, <1>22,
     <1>23, <1>24, <1>25, <1>26, <1>27, <1>28, <1>29, <1>30, <1>31, <1>32, <1>33,
     <1>34, <1>35, <1>36, <1>37, <1>38 DEF RecoveryNext

(* The operation is at a place where nothing is missing for it.            *)
LEMMA SavedFree ==
    ASSUME op'.pc \in {"idle", "purge", "ignore", "reopened"} PROVE SavedFollowsOp'
  BY DEF SavedFollowsOp

(* The places of an operation on an entry whose payload is needed.         *)
Working == {"files", "save", "commit", "mark", "undo", "undoCopy",
            "clear", "copy", "restored"}

(* What NothingVanishes says of one request.                               *)
LEMMA Vanishing ==
    /\ NothingVanishes <=> \A r \in owed : r \in Present(disk) \/ InPayload(r)
    /\ NothingVanishes' <=> \A r \in owed' : r \in Present(disk)' \/ InPayload(r)'
  <1>1. \A r \in Requests : r \in StoredIn(Entries) <=> InPayload(r)
    BY DEF StoredIn, Payload, InPayload
  <1>2. \A r : r \in Present(disk) \/ r \in StoredIn(Entries) \/ InPayload(r) => r \in Requests
    BY DEF StoredIn, InPayload, Present
  <1>3. NothingVanishes <=> \A r \in owed : r \in Present(disk) \/ InPayload(r)
    BY <1>1, <1>2 DEF NothingVanishes
  <1>4. \A r \in Requests : r \in StoredIn(Entries)' <=> InPayload(r)'
    BY DEF StoredIn, Payload, InPayload
  <1>5. \A r : r \in Present(disk)' \/ r \in StoredIn(Entries)' \/ InPayload(r)' => r \in Requests
    BY DEF StoredIn, InPayload, Present
  <1>6. NothingVanishes' <=> \A r \in owed' : r \in Present(disk)' \/ InPayload(r)'
    BY <1>4, <1>5 DEF NothingVanishes
  <1> QED
    BY <1>3, <1>6

LEMMA PayloadKept ==
    ASSUME UNCHANGED <<store, manifest>>
    PROVE  \A r : InPayload(r) => InPayload(r)'
  BY DEF InPayload, Present

(* What is given up with an entry is not owed; the rest is on disk or in   *)
(* another payload.                                                        *)
LEMMA GivenUp ==
    ASSUME IInv, NEW e \in Entries, NEW files, GiveUp(e, files),
           \A r \in owed : r \in Present(files) \/ InPayload(r)
    PROVE  /\ owed' \subseteq owed
           /\ \A r \in owed' : \/ r \in Present(files)
                               \/ \E d \in Entries \ {e} :
                                     /\ manifest[d] # "none"
                                     /\ \E s \in store[d] : r \in Present(s.before.disk)
  <1>1. owed' = owed \ (Payload(e) \ (Present(files) \cup StoredIn(Entries \ {e})))
    BY DEF GiveUp
  <1>2. ASSUME NEW r \in owed', r \notin Present(files)
        PROVE  \E d \in Entries \ {e} : /\ manifest[d] # "none"
                                        /\ \E s \in store[d] : r \in Present(s.before.disk)
    <2>1. PICK d \in Entries : /\ manifest[d] # "none"
                               /\ \E s \in store[d] : r \in Present(s.before.disk)
      BY <1>1, <1>2 DEF InPayload
    <2>2. CASE d = e
      <3>1. r \in Payload(e)
        BY <2>1, <2>2 DEF Payload, Present
      <3>2. r \in StoredIn(Entries \ {e})
        BY <1>1, <1>2, <3>1
      <3> QED
        BY <3>2 DEF StoredIn, Payload
    <2>3. CASE d # e
      BY <2>1, <2>3
    <2> QED
      BY <2>2, <2>3
  <1> QED
    BY <1>1, <1>2

(* A restore goes ahead only over files that it puts back.                 *)
LEMMA RestoresOver ==
    ASSUME IInv, NEW e \in Entries, RestoreTree(e), NEW s \in store[e]
    PROVE  PutsBack(s, disk)
  <1>1. PICK t \in store[e] : t.tree /\ NoConflict(t)
    BY DEF RestoreTree
  <1>2. s = t
    BY <1>1, StoreTyped DEF OneSnapshot
  <1>3. PICK w \in t.after : disk = w.disk
    BY <1>1 DEF NoConflict
  <1>4. PutsBack(t, w.disk)
    BY <1>1 DEF IInv, Safeguards, FilesFollowSnapshot
  <1> QED
    BY <1>2, <1>3, <1>4

(* What is owed when a restore begins is in a payload, of its own entry or *)
(* of another.                                                             *)
LEMMA RestoreNeedsNoFile ==
    ASSUME IInv, NEW e \in Entries, RestoreTree(e), NEW r \in owed'
    PROVE  r \in owed /\ InPayload(r)
  <1>1. PICK s \in store[e] :
            owed' = owed \ {q \in Present(disk) \ StoredIn(Entries) : disk[q] = s.before.app.items[q]}
    BY DEF RestoreTree
  <1>2. PutsBack(s, disk) /\ manifest[e] # "none"
    BY RestoresOver DEF RestoreTree, Restorable
  <1>3. SUFFICES ASSUME ~InPayload(r) PROVE FALSE
    BY <1>1
  <1>4. r \in Present(disk) /\ r \in Requests
    BY <1>1, <1>3, Vanishing DEF IInv, Present
  <1>5. r \notin StoredIn(Entries)
    BY <1>3 DEF StoredIn, Payload, InPayload
  <1>6. disk[r] = s.before.disk[r]
    BY <1>1, <1>2, <1>4, <1>5 DEF PutsBack
  <1>7. r \in Present(s.before.disk)
    BY <1>4, <1>6 DEF Present
  <1> QED
    BY <1>2, <1>3, <1>7 DEF InPayload

(* An operation that goes on with a payload.                               *)
LEMMA SavedGoesOn ==
    ASSUME IInv, op.pc \in Working, op'.pc \in Working,
           op'.entry = op.entry, owed' \subseteq owed, UNCHANGED <<store, manifest>>
    PROVE  SavedFollowsOp'
  <1>1. \A s \in store[op.entry] : s.tree => \A r \in owed : InPayload(r)
    BY DEF IInv, Safeguards, SavedFollowsOp, Working
  <1>2. \A r \in owed : InPayload(r) => InPayload(r)'
    BY PayloadKept
  <1>4. op'.pc \notin {"list", "undoState", "unlist", "erase"}
    BY DEF Working
  <1> QED
    BY <1>1, <1>2, <1>4 DEF SavedFollowsOp

(* The end of an operation without a payload, or with what it had there on *)
(* disk.                                                                   *)
LEMMA SavedWithoutEntry ==
    ASSUME IInv, op'.pc \in {"undoState", "unlist", "erase"},
           op'.entry = op.entry, op.entry \in Entries, UNCHANGED <<store, manifest>>,
           owed' \subseteq owed,
           \A r \in owed' : r \in Present(disk') \/ InPayload(r),
           \A s \in store[op.entry] : Present(s.before.disk) \subseteq Present(disk')
    PROVE  SavedFollowsOp'
  <1>1. ASSUME NEW r \in owed', r \notin Present(disk') PROVE InOtherPayload(r)'
    <2>1. PICK e \in Entries : /\ manifest[e] # "none"
                               /\ \E s \in store[e] : r \in Present(s.before.disk)
      BY <1>1 DEF InPayload
    <2>2. e # op.entry
      BY <1>1, <2>1
    <2>3. \E s \in store'[e] : r \in Present(s.before.disk)'
      BY <2>1 DEF Present
    <2> QED
      BY <2>1, <2>2, <2>3 DEF InOtherPayload
  <1> QED
    BY <1>1 DEF SavedFollowsOp, Working

(* The end of an operation goes on.                                        *)
LEMMA SavedStays ==
    ASSUME IInv, op.pc \in {"undoState", "unlist"}, op'.pc \in {"unlist", "erase"},
           op'.entry = op.entry, UNCHANGED <<disk, store, owed>>,
           \A e \in Entries \ {op.entry} : manifest'[e] = manifest[e]
    PROVE  SavedFollowsOp'
  <1>1. \A r \in owed : r \in Present(disk) \/ InOtherPayload(r)
    BY DEF IInv, Safeguards, SavedFollowsOp
  <1>2. \A r \in owed : InOtherPayload(r) => InOtherPayload(r)'
    BY DEF InOtherPayload, Present
  <1> QED
    BY <1>1, <1>2 DEF SavedFollowsOp, Present

(* An operation gives an entry up and goes on to its end.                  *)
LEMMA SavedGivenUp ==
    ASSUME IInv, NEW e \in Entries, op'.pc \in {"undoState", "unlist"}, op'.entry = e,
           GiveUp(e, disk'), UNCHANGED <<store, manifest>>,
           \A r \in owed : r \in Present(disk') \/ InPayload(r)
    PROVE  SavedFollowsOp'
  <1>1. ASSUME NEW r \in owed', r \notin Present(disk') PROVE InOtherPayload(r)'
    <2>1. PICK d \in Entries \ {e} : /\ manifest[d] # "none"
                                     /\ \E s \in store[d] : r \in Present(s.before.disk)
      BY <1>1, GivenUp
    <2>2. \E s \in store'[d] : r \in Present(s.before.disk)'
      BY <2>1 DEF Present
    <2> QED
      BY <2>1, <2>2 DEF InOtherPayload
  <1> QED
    BY <1>1 DEF SavedFollowsOp

LEMMA StageSavedFollowsOp ==
    ASSUME IInv, NEW tree \in BOOLEAN, NEW T, Stage(tree, T) PROVE SavedFollowsOp'
  <1>1. PICK x \in Snapshots : /\ store'[made'] = {x} /\ x.tree = tree
                               /\ x.before.disk = (IF tree THEN disk ELSE NoFiles)
    BY Staged
  <1>2. /\ made' \in Entries /\ store[made'] = {} /\ op'.pc = "list" /\ op'.entry = made'
        /\ UNCHANGED <<disk, manifest, owed>>
        /\ \A e \in Entries \ {made'} : store'[e] = store[e]
    BY Staged
  <1>3. ASSUME NEW r \in owed', r \notin Present(disk') PROVE InOtherPayload(r)'
    <2>1. InPayload(r)
      BY <1>2, <1>3, Vanishing DEF IInv, Present
    <2>2. PICK e \in Entries : /\ manifest[e] # "none"
                               /\ \E s \in store[e] : r \in Present(s.before.disk)
      BY <2>1 DEF InPayload
    <2>3. e # made'
      BY <1>2, <2>2
    <2>4. \E s \in store'[e] : r \in Present(s.before.disk)'
      BY <1>2, <2>2, <2>3 DEF Present
    <2> QED
      BY <1>2, <2>2, <2>3, <2>4 DEF InOtherPayload
  <1>4. ASSUME NEW s \in store'[op'.entry], s.tree, NEW r \in owed'
        PROVE  r \in Present(s.before.disk)' \/ InOtherPayload(r)'
    <2>1. s.before.disk = disk'
      BY <1>1, <1>2, <1>4
    <2> QED
      BY <1>3, <2>1 DEF Present
  <1> QED
    BY <1>2, <1>3, <1>4 DEF SavedFollowsOp, Present

(* Writing a snapshot again leaves its payload.                            *)
LEMMA RewrittenPayload ==
    ASSUME IInv, Unlist \/ Commit
    PROVE  \A r \in owed : InPayload(r) => InPayload(r)'
  <1>1. ASSUME NEW r \in owed, NEW e \in Entries, NEW s \in store[e],
               r \in Present(s.before.disk)
        PROVE  \E t \in store'[e] : r \in Present(t.before.disk)'
    <2>1. \E t \in store'[e] : t.before = s.before
      <3>1. CASE e = Entry
        <4>1. s = Held /\ store'[Entry] # {}
          BY <3>1, Rewritten
        <4> QED
          BY <3>1, <4>1, Rewritten
      <3>2. CASE e # Entry
        BY <3>2, Rewritten
      <3> QED
        BY <3>1, <3>2
    <2> QED
      BY <1>1, <2>1 DEF Present
  <1>2. UNCHANGED manifest
    BY DEF Unlist, Commit
  <1> QED
    BY <1>1, <1>2 DEF InPayload

(* A rollback that fails still leaves what it does not give up.            *)
LEMMA UndoneOwed ==
    ASSUME IInv, UndoFails
    PROVE  /\ op.entry \in Entries /\ GiveUp(op.entry, disk')
           /\ UNCHANGED <<store, manifest>>
           /\ \A r \in owed : r \in Present(disk') \/ InPayload(r)
  <1>1. op.pc \in {"undo", "undoCopy"} /\ op.entry \in Entries /\ store[op.entry] = {Held}
    BY WorkingEntry DEF UndoFails, Deleting
  <1>2. GiveUp(op.entry, disk') /\ UNCHANGED <<store, manifest>>
    BY DEF UndoFails, Entry, storeVars
  <1>3. ASSUME NEW r \in owed PROVE r \in Present(disk') \/ InPayload(r)
    <2>1. CASE Held.tree
      BY <1>1, <2>1 DEF IInv, Safeguards, SavedFollowsOp
    <2>2. CASE ~Held.tree
      <3>1. disk' = disk
        BY <2>2 DEF UndoFails
      <3> QED
        BY <3>1, Vanishing DEF IInv
    <2> QED
      BY <2>1, <2>2
  <1> QED
    BY <1>1, <1>2, <1>3

LEMMA SavedFollowsOpStep ==
    ASSUME IInv, [RecoveryNext]_vars PROVE SavedFollowsOp'
PROOF
<1> USE IInv
<1>1. ASSUME NEW r \in Requests, UpdateRequest(r)
      PROVE  SavedFollowsOp'
    <2>1. op'.pc = "idle"
      BY <1>1 DEF UpdateRequest, At
    <2> QED
      BY <2>1, SavedFree
<1>2. ASSUME NEW r \in Requests, CreateRequest(r)
      PROVE  SavedFollowsOp'
    <2>1. op'.pc = "idle"
      BY <1>2 DEF CreateRequest, At
    <2> QED
      BY <2>1, SavedFree
<1>3. ASSUME NEW r \in Requests, SaveRequest(r)
      PROVE  SavedFollowsOp'
    <2>1. op'.pc = "idle"
      BY <1>3 DEF SaveRequest, At
    <2> QED
      BY <2>1, SavedFree
<1>4. ASSUME NEW r \in Requests, CloseTab(r)
      PROVE  SavedFollowsOp'
    <2>1. op'.pc = "idle"
      BY <1>4 DEF CloseTab, At
    <2> QED
      BY <2>1, SavedFree
<1>5. ASSUME NEW r \in Requests, DeleteRequest(r)
      PROVE  SavedFollowsOp'
    <2>1. Stage(TRUE, {r})
      BY <1>5 DEF DeleteRequest
    <2> QED
      BY <2>1, StageSavedFollowsOp
<1>6. ASSUME NEW r \in Requests, RemoveFile(r)
      PROVE  SavedFollowsOp'
    <2>1. UNCHANGED <<store, manifest, op, owed>> /\ op.pc = "files"
      BY <1>6 DEF RemoveFile, At, storeVars
    <2> QED
      BY <2>1, SavedGoesOn DEF Working
<1>7. ASSUME NEW e \in Entries, Expire(e)
      PROVE  SavedFollowsOp'
    <2>1. UNCHANGED <<disk, store, manifest, op, owed>>
      BY <1>7 DEF Expire, worldVars, storeVars
    <2>2. SavedFollowsOp
      BY DEF IInv, Safeguards
    <2> QED
      BY <2>1, <2>2 DEF SavedFollowsOp, InPayload, InOtherPayload, Present
<1>8. ASSUME NEW e \in Entries, Discard(e)
      PROVE  SavedFollowsOp'
    <2>1. op'.pc = "unlist" /\ op'.entry = e
      BY <1>8, Began
    <2>2. GiveUp(e, disk') /\ UNCHANGED <<disk, store, manifest>>
      BY <1>8 DEF Discard, GiveUp, worldVars, storeVars
    <2>3. \A r \in owed : r \in Present(disk') \/ InPayload(r)
      BY <2>2, Vanishing DEF IInv
    <2> QED
      BY <2>1, <2>2, <2>3, SavedGivenUp
<1>9. ASSUME NEW e \in Entries, PurgeErase(e)
      PROVE  SavedFollowsOp'
    <2>1. op'.pc = "purge"
      BY <1>9, Began
    <2> QED
      BY <2>1, SavedFree
<1>10. ASSUME NEW e \in Entries, RestoreTree(e)
      PROVE  SavedFollowsOp'
    <2>1. op'.pc = "clear" /\ op'.entry = e
      BY <1>10, Began
    <2>2. UNCHANGED <<store, manifest>>
      BY <1>10 DEF RestoreTree, storeVars
    <2>3. \A r \in owed' : InPayload(r)'
      BY <1>10, <2>2, RestoreNeedsNoFile, PayloadKept
    <2> QED
      BY <2>1, <2>3 DEF SavedFollowsOp
<1>11. ASSUME NEW e \in Entries, RestoreCollection(e)
      PROVE  SavedFollowsOp'
    <2>1. op'.pc = "reopened"
      BY <1>11, Began
    <2> QED
      BY <2>1, SavedFree
<1>12. CASE DeleteFolder
    <2>1. Stage(TRUE, Folder)
      BY <1>12 DEF DeleteFolder
    <2> QED
      BY <2>1, StageSavedFollowsOp
<1>13. CASE RemoveCollection
    <2>1. Stage(FALSE, {})
      BY <1>13 DEF RemoveCollection
    <2> QED
      BY <2>1, StageSavedFollowsOp
<1>14. CASE OpenCollection
    <2>1. op'.pc = "idle"
      BY <1>14 DEF OpenCollection, At
    <2> QED
      BY <2>1, SavedFree
<1>15. CASE Persist
    <2>1. op'.pc = "idle"
      BY <1>15 DEF Persist, At
    <2> QED
      BY <2>1, SavedFree
<1>16. CASE List
    <2>1. UNCHANGED <<store, owed>> /\ op.entry \in Entries
          /\ manifest' = [manifest EXCEPT ![op.entry] = "staged"]
      BY <1>16, StoreTyped DEF List, Entry, At, OpHasEntry
    <2>2. op.pc = "list" /\ op'.pc \in {"files", "ignore"} /\ op'.entry = op.entry
      BY <1>16, Went DEF Goes
    <2>3. /\ manifest'[op.entry] # "none"
          /\ \A e \in Entries \ {op.entry} : manifest'[e] = manifest[e]
      BY <2>1 DEF IInv, RecoveryTypeOK
    <2>4. ASSUME NEW s \in store[op.entry], s.tree, NEW r \in owed
          PROVE  InPayload(r)'
      <3>1. r \in Present(s.before.disk) \/ InOtherPayload(r)
        BY <2>2, <2>4 DEF IInv, Safeguards, SavedFollowsOp
      <3>2. CASE r \in Present(s.before.disk)
        BY <2>1, <2>3, <3>2 DEF InPayload, Present
      <3>3. CASE InOtherPayload(r)
        BY <2>1, <2>3, <3>3 DEF InOtherPayload, InPayload, Present
      <3> QED
        BY <3>1, <3>2, <3>3
    <2> QED
      BY <2>1, <2>2, <2>4 DEF SavedFollowsOp
<1>17. CASE ListFails
    <2>1. op'.pc = "idle"
      BY <1>17, Began
    <2> QED
      BY <2>1, SavedFree
<1>18. CASE Drop
    <2>1. UNCHANGED <<store, manifest, owed>>
      BY <1>18 DEF Drop, storeVars
    <2>2. op.pc = "files" /\ op'.pc = "save" /\ op'.entry = op.entry
      BY <1>18, Went DEF Goes
    <2> QED
      BY <2>1, <2>2, SavedGoesOn DEF Working
<1>19. CASE Unlist
    <2>1. op.pc = "ignore" /\ op'.pc = "save" /\ op'.entry = op.entry
      BY <1>19, Went DEF Goes
    <2>2. ~Held.tree
      BY <1>19, <2>1, Rewritten DEF IInv, Safeguards, PayloadByKind
    <2>3. \A s \in store'[op'.entry] : ~s.tree
      BY <1>19, <2>1, <2>2, Rewritten
    <2> QED
      BY <2>1, <2>3 DEF SavedFollowsOp
<1>20. CASE SaveState
    <2>1. UNCHANGED <<store, manifest, owed>>
      BY <1>20 DEF SaveState, storeVars
    <2>2. op.pc = "save" /\ op'.pc = "commit" /\ op'.entry = op.entry
      BY <1>20, Went DEF Goes
    <2> QED
      BY <2>1, <2>2, SavedGoesOn DEF Working
<1>21. CASE Commit
    <2>1. op.pc = "commit" /\ op'.pc = "mark" /\ op'.entry = op.entry
      BY <1>21, Went DEF Goes
    <2>2. UNCHANGED owed
      BY <1>21 DEF Commit
    <2>3. Held.tree => \A r \in owed : InPayload(r)
      BY <1>21, <2>1, Rewritten DEF IInv, Safeguards, SavedFollowsOp
    <2>4. \A s \in store'[op'.entry] : s.tree => Held.tree
      BY <1>21, <2>1, Rewritten
    <2>5. \A r \in owed : InPayload(r) => InPayload(r)'
      BY <1>21, RewrittenPayload
    <2> QED
      BY <2>1, <2>2, <2>3, <2>4, <2>5 DEF SavedFollowsOp
<1>22. CASE Mark
    <2>1. op'.pc = "idle"
      BY <1>22, Began
    <2> QED
      BY <2>1, SavedFree
<1>23. CASE StepFails
    <2>1. UNCHANGED <<store, manifest, owed>>
      BY <1>23 DEF StepFails, storeVars
    <2>2. /\ op.pc \in {"files", "ignore", "save", "commit", "mark"}
          /\ op'.pc = "undo" /\ op'.entry = op.entry
      BY <1>23, Went DEF Goes, Deleting
    <2>3. CASE op.pc = "ignore"
      <3>1. \A s \in store'[op'.entry] : ~s.tree
        BY <2>1, <2>2, <2>3 DEF IInv, Safeguards, PayloadByKind
      <3> QED
        BY <2>2, <3>1 DEF SavedFollowsOp
    <2>4. CASE op.pc # "ignore"
      BY <2>1, <2>2, <2>4, SavedGoesOn DEF Working
    <2> QED
      BY <2>3, <2>4
<1>24. CASE Undo
    <2>1. UNCHANGED <<store, manifest, owed>>
      BY <1>24 DEF Undo, storeVars
    <2>2. /\ op.pc = "undo" /\ op'.entry = op.entry
          /\ op'.pc = (IF Held.tree THEN "undoCopy" ELSE "undoState")
      BY <1>24, Went DEF Goes
    <2>3. op.entry \in Entries /\ store[op.entry] = {Held}
      BY <2>2, WorkingEntry DEF Deleting
    <2>4. CASE Held.tree
      BY <2>1, <2>2, <2>4, SavedGoesOn DEF Working
    <2>5. CASE ~Held.tree
      <3>1. UNCHANGED disk
        BY <1>24, <2>5, Zenon DEF Undo
      <3>2. Present(Held.before.disk) = {}
        BY <2>3, <2>5 DEF IInv, Safeguards, PayloadByKind, Present, NoFiles
      <3>3. \A r \in owed' : r \in Present(disk') \/ InPayload(r)
        BY <2>1, <3>1, Vanishing DEF IInv
      <3>4. op'.pc = "undoState"
        BY <2>2, <2>5
      <3> QED
        BY <2>1, <2>2, <2>3, <3>2, <3>3, <3>4, SavedWithoutEntry
    <2> QED
      BY <2>4, <2>5
<1>25. CASE UndoCopy
    <2>1. UNCHANGED <<store, manifest, owed>> /\ disk' = Held.before.disk
      BY <1>25 DEF UndoCopy, storeVars
    <2>2. op.pc = "undoCopy" /\ op'.pc = "undoState" /\ op'.entry = op.entry
      BY <1>25, Went DEF Goes
    <2>3. op.entry \in Entries /\ store[op.entry] = {Held}
      BY <2>2, WorkingEntry DEF Deleting
    <2>4. Held.tree
      BY <2>2, <2>3 DEF IInv, Safeguards, PayloadByKind
    <2>5. \A r \in owed' : InPayload(r)
      BY <2>1, <2>2, <2>3, <2>4 DEF IInv, Safeguards, SavedFollowsOp
    <2>6. \A s \in store[op.entry] : Present(s.before.disk) \subseteq Present(disk')
      BY <2>1, <2>3
    <2> QED
      BY <2>1, <2>2, <2>3, <2>5, <2>6, SavedWithoutEntry
<1>26. CASE UndoFails
    <2>1. op'.pc = "undoState" /\ op'.entry = op.entry
      BY <1>26, Went DEF Goes
    <2>2. GiveUp(op.entry, disk') /\ UNCHANGED <<store, manifest>> /\ op.entry \in Entries
      BY <1>26, UndoneOwed
    <2>3. \A r \in owed : r \in Present(disk') \/ InPayload(r)
      BY <1>26, UndoneOwed
    <2> QED
      BY <2>1, <2>2, <2>3, SavedGivenUp
<1>27. CASE UndoState
    <2>1. UNCHANGED <<disk, store, manifest, owed>>
      BY <1>27 DEF UndoState, storeVars
    <2>2. op.pc = "undoState" /\ op'.pc = "unlist" /\ op'.entry = op.entry
      BY <1>27, Went DEF Goes
    <2> QED
      BY <2>1, <2>2, SavedStays
<1>28. CASE RemoveFromManifest
    <2>1. UNCHANGED <<disk, store, owed>>
      BY <1>28 DEF RemoveFromManifest, worldVars
    <2>2. op.pc = "unlist" /\ op'.pc = "erase" /\ op'.entry = op.entry
      BY <1>28, Went DEF Goes
    <2>3. \A e \in Entries \ {op.entry} : manifest'[e] = manifest[e]
      BY <1>28 DEF RemoveFromManifest, Entry, IInv, RecoveryTypeOK
    <2> QED
      BY <2>1, <2>2, <2>3, SavedStays
<1>29. CASE EraseEntry
    <2>1. op'.pc = "idle"
      BY <1>29, Began
    <2> QED
      BY <2>1, SavedFree
<1>30. CASE RemoveEntryFails
    <2>1. op'.pc = "idle"
      BY <1>30, Began
    <2> QED
      BY <2>1, SavedFree
<1>31. CASE PurgeManifest
    <2>1. op'.pc = "idle"
      BY <1>31, Began
    <2> QED
      BY <2>1, SavedFree
<1>32. CASE RestoreClear
    <2>1. UNCHANGED <<store, manifest, owed>>
      BY <1>32 DEF RestoreClear, storeVars
    <2>2. op.pc = "clear" /\ op'.pc = "copy" /\ op'.entry = op.entry
      BY <1>32, Went DEF Goes
    <2> QED
      BY <2>1, <2>2, SavedGoesOn DEF Working
<1>33. CASE RestoreCopy
    <2>1. UNCHANGED <<store, manifest, owed>>
      BY <1>33 DEF RestoreCopy, storeVars
    <2>2. op.pc = "copy" /\ op'.pc = "restored" /\ op'.entry = op.entry
      BY <1>33, Went DEF Goes
    <2> QED
      BY <2>1, <2>2, SavedGoesOn DEF Working
<1>34. CASE RestoreFails
    <2>1. op'.pc = "idle"
      BY <1>34, Began
    <2> QED
      BY <2>1, SavedFree
<1>35. CASE RestoreState
    <2>1. op.pc = "restored" /\ UNCHANGED <<store, manifest, owed>>
      BY <1>35 DEF RestoreState, At, storeVars
    <2>2. op.entry \in Entries /\ store[op.entry] = {Held}
      BY <2>1, WorkingEntry DEF Restoring
    <2>3. CASE Goto("unlist") /\ UNCHANGED disk
      <3>1. op'.pc = "unlist" /\ op'.entry = op.entry
        BY <2>3, GotoTyped, StoreTyped DEF PCs
      <3>2. Held.tree /\ disk = Held.before.disk
        BY <2>1, <2>2, StoreTyped DEF RestoreFollowsSnapshot
      <3>3. \A r \in owed' : InPayload(r)
        BY <2>1, <2>2, <2>3, <3>2 DEF IInv, Safeguards, SavedFollowsOp
      <3>4. \A s \in store[op.entry] : Present(s.before.disk) \subseteq Present(disk')
        BY <2>2, <2>3, <3>2
      <3> QED
        BY <2>1, <2>2, <2>3, <3>1, <3>3, <3>4, SavedWithoutEntry
    <2>4. CASE op' = Idle
      BY <2>4, IdleTyped, SavedFree
    <2> QED
      BY <1>35, <2>3, <2>4 DEF RestoreState
<1>36. CASE ReopenCollection
    <2>1. op.pc = "reopened" /\ UNCHANGED <<disk, store, manifest, owed>>
      BY <1>36 DEF ReopenCollection, At, storeVars
    <2>2. op.entry \in Entries /\ store[op.entry] = {Held}
      BY <2>1, WorkingEntry DEF Restoring
    <2>3. CASE Goto("unlist")
      <3>1. op'.pc = "unlist" /\ op'.entry = op.entry
        BY <2>3, GotoTyped, StoreTyped DEF PCs
      <3>2. Present(Held.before.disk) = {}
        BY <2>1, <2>2, StoreTyped
           DEF RestoreFollowsSnapshot, IInv, Safeguards, PayloadByKind, Present, NoFiles
      <3>3. \A r \in owed' : r \in Present(disk') \/ InPayload(r)
        BY <2>1, Vanishing DEF IInv
      <3> QED
        BY <2>1, <2>2, <3>1, <3>2, <3>3, SavedWithoutEntry
    <2>4. CASE op' = Idle
      BY <2>4, IdleTyped, SavedFree
    <2> QED
      BY <1>36, <2>3, <2>4 DEF ReopenCollection
<1>37. CASE Crash
    <2>1. op'.pc = "idle"
      BY <1>37, Began
    <2> QED
      BY <2>1, SavedFree
<1>38. CASE UNCHANGED vars
    <2>1. UNCHANGED <<disk, store, manifest, op, owed>>
      BY <1>38 DEF vars, storeVars, worldVars
    <2>2. SavedFollowsOp
      BY DEF IInv, Safeguards
    <2> QED
      BY <2>1, <2>2 DEF SavedFollowsOp, InPayload, InOtherPayload, Present
<1> QED
  BY <1>1, <1>2, <1>3, <1>4, <1>5, <1>6, <1>7, <1>8, <1>9, <1>10, <1>11,
     <1>12, <1>13, <1>14, <1>15, <1>16, <1>17, <1>18, <1>19, <1>20, <1>21, <1>22,
     <1>23, <1>24, <1>25, <1>26, <1>27, <1>28, <1>29, <1>30, <1>31, <1>32, <1>33,
     <1>34, <1>35, <1>36, <1>37, <1>38 DEF RecoveryNext

(* A step that takes neither files nor payloads away.                      *)
LEMMA VanishKept ==
    ASSUME IInv, owed' \subseteq owed, Present(disk) \subseteq Present(disk'),
           \A r \in owed : InPayload(r) => InPayload(r)'
    PROVE  NothingVanishes'
  <1>1. \A r \in owed : r \in Present(disk) \/ InPayload(r)
    BY Vanishing DEF IInv
  <1>2. \A r \in owed' : r \in Present(disk') \/ InPayload(r)'
    BY <1>1
  <1> QED
    BY <1>2, Vanishing DEF Present

(* A step that touches neither.                                            *)
LEMMA VanishSame ==
    ASSUME IInv, owed' \subseteq owed, UNCHANGED <<disk, store, manifest>>
    PROVE  NothingVanishes'
  BY PayloadKept, VanishKept DEF Present

(* A step that may take every file away: all that is owed is in a payload. *)
LEMMA VanishInPayload ==
    ASSUME IInv, owed' \subseteq owed, UNCHANGED <<store, manifest>>,
           op.pc \in {"files", "undoCopy", "clear", "copy", "restored"}
               \/ (op.pc = "undo" /\ Held.tree)
    PROVE  NothingVanishes'
  <1>1. op.entry \in Entries /\ store[op.entry] = {Held}
    BY WorkingEntry DEF Deleting, Restoring
  <1>2. Held.tree
    BY <1>1, StoreTyped DEF IInv, Safeguards, PayloadByKind, RestoreFollowsSnapshot
  <1>3. \A r \in owed : InPayload(r)
    BY <1>1, <1>2 DEF IInv, Safeguards, SavedFollowsOp
  <1>4. \A r \in owed' : InPayload(r)'
    BY <1>3, PayloadKept
  <1> QED
    BY <1>4, Vanishing

(* An entry goes that is not needed.                                       *)
LEMMA VanishErased ==
    ASSUME IInv, UNCHANGED <<disk, owed>>, op.pc \in {"list", "unlist", "erase"},
           \A e \in Entries \ {op.entry} : store'[e] = store[e] /\ manifest'[e] = manifest[e]
    PROVE  NothingVanishes'
  <1>1. \A r \in owed : r \in Present(disk) \/ InOtherPayload(r)
    BY DEF IInv, Safeguards, SavedFollowsOp
  <1>2. ASSUME NEW r \in owed, InOtherPayload(r) PROVE InPayload(r)'
    BY <1>2 DEF InOtherPayload, InPayload, Present
  <1>3. \A r \in owed' : r \in Present(disk)' \/ InPayload(r)'
    BY <1>1, <1>2 DEF Present
  <1> QED
    BY <1>3, Vanishing

(* An entry is given up: what only it had is not owed any more.            *)
LEMMA VanishGivenUp ==
    ASSUME IInv, NEW e \in Entries, GiveUp(e, disk'), UNCHANGED manifest,
           \A r \in owed : r \in Present(disk') \/ InPayload(r),
           \A d \in Entries \ {e} : store'[d] = store[d]
    PROVE  NothingVanishes'
  <1>1. ASSUME NEW r \in owed', r \notin Present(disk') PROVE InPayload(r)'
    <2>1. PICK d \in Entries \ {e} : /\ manifest[d] # "none"
                                     /\ \E s \in store[d] : r \in Present(s.before.disk)
      BY <1>1, GivenUp
    <2>2. \E s \in store'[d] : r \in Present(s.before.disk)'
      BY <2>1 DEF Present
    <2> QED
      BY <2>1, <2>2 DEF InPayload
  <1>2. \A r \in owed' : r \in Present(disk)' \/ InPayload(r)'
    BY <1>1 DEF Present
  <1> QED
    BY <1>2, Vanishing

LEMMA StageNothingVanishes ==
    ASSUME IInv, NEW tree \in BOOLEAN, NEW T, Stage(tree, T) PROVE NothingVanishes'
  <1>1. /\ store[made'] = {} /\ UNCHANGED <<disk, manifest, owed>>
        /\ \A e \in Entries \ {made'} : store'[e] = store[e]
    BY Staged
  <1>2. \A r \in owed : InPayload(r) => InPayload(r)'
    BY <1>1 DEF InPayload, Present
  <1> QED
    BY <1>1, <1>2, VanishKept DEF Present

LEMMA NothingVanishesStep ==
    ASSUME IInv, [RecoveryNext]_vars PROVE NothingVanishes'
PROOF
<1> USE IInv
<1>1. ASSUME NEW r \in Requests, UpdateRequest(r)
      PROVE  NothingVanishes'
    <2>1. UNCHANGED <<disk, store, manifest>> /\ owed' \subseteq owed
      BY <1>1 DEF UpdateRequest, storeVars
    <2> QED
      BY <2>1, VanishSame
<1>2. ASSUME NEW r \in Requests, CreateRequest(r)
      PROVE  NothingVanishes'
    <2>1. UNCHANGED <<disk, store, manifest>> /\ owed' \subseteq owed
      BY <1>2 DEF CreateRequest, storeVars
    <2> QED
      BY <2>1, VanishSame
<1>3. ASSUME NEW r \in Requests, SaveRequest(r)
      PROVE  NothingVanishes'
    <2>1. /\ UNCHANGED <<store, manifest>> /\ owed' = owed \cup {r}
          /\ disk' = Written(disk, app.items) /\ r \in app.draft
      BY <1>3 DEF SaveRequest, storeVars
    <2>2. app.items[r] # None
      BY <2>1, NowHasContent DEF HasContent, Present
    <2>3. r \in Present(disk') /\ Present(disk) \subseteq Present(disk')
      BY <2>1, <2>2 DEF Written, Present
    <2>4. \A q \in owed : q \in Present(disk) \/ InPayload(q)
      BY Vanishing DEF IInv
    <2>5. \A q \in owed' : q \in Present(disk') \/ InPayload(q)'
      BY <2>1, <2>3, <2>4, PayloadKept
    <2> QED
      BY <2>5, Vanishing DEF Present
<1>4. ASSUME NEW r \in Requests, CloseTab(r)
      PROVE  NothingVanishes'
    <2>1. UNCHANGED <<disk, store, manifest>> /\ owed' \subseteq owed
      BY <1>4 DEF CloseTab, storeVars
    <2> QED
      BY <2>1, VanishSame
<1>5. ASSUME NEW r \in Requests, DeleteRequest(r)
      PROVE  NothingVanishes'
    <2>1. Stage(TRUE, {r})
      BY <1>5 DEF DeleteRequest
    <2> QED
      BY <2>1, StageNothingVanishes
<1>6. ASSUME NEW r \in Requests, RemoveFile(r)
      PROVE  NothingVanishes'
    <2>1. UNCHANGED <<store, manifest, owed>> /\ op.pc = "files"
      BY <1>6 DEF RemoveFile, At, storeVars
    <2> QED
      BY <2>1, VanishInPayload
<1>7. ASSUME NEW e \in Entries, Expire(e)
      PROVE  NothingVanishes'
    <2>1. UNCHANGED <<disk, store, manifest>> /\ owed' \subseteq owed
      BY <1>7 DEF Expire, worldVars, storeVars
    <2> QED
      BY <2>1, VanishSame
<1>8. ASSUME NEW e \in Entries, Discard(e)
      PROVE  NothingVanishes'
    <2>1. GiveUp(e, disk') /\ UNCHANGED <<disk, store, manifest>>
      BY <1>8 DEF Discard, GiveUp, storeVars, worldVars
    <2>2. \A r \in owed : r \in Present(disk') \/ InPayload(r)
      BY <2>1, Vanishing DEF IInv
    <2> QED
      BY <2>1, <2>2, VanishGivenUp
<1>9. ASSUME NEW e \in Entries, PurgeErase(e)
      PROVE  NothingVanishes'
    <2>1. GiveUp(e, disk') /\ UNCHANGED <<disk, manifest>>
      BY <1>9 DEF PurgeErase, GiveUp, worldVars
    <2>2. \A r \in owed : r \in Present(disk') \/ InPayload(r)
      BY <2>1, Vanishing DEF IInv
    <2>3. \A d \in Entries \ {e} : store'[d] = store[d]
      BY <1>9, StoreTyped DEF PurgeErase
    <2> QED
      BY <2>1, <2>2, <2>3, VanishGivenUp
<1>10. ASSUME NEW e \in Entries, RestoreTree(e)
      PROVE  NothingVanishes'
    <2>1. UNCHANGED <<disk, store, manifest>>
      BY <1>10 DEF RestoreTree, worldVars, storeVars
    <2>2. owed' \subseteq owed
      BY <1>10, RestoreNeedsNoFile
    <2> QED
      BY <2>1, <2>2, VanishSame
<1>11. ASSUME NEW e \in Entries, RestoreCollection(e)
      PROVE  NothingVanishes'
    <2>1. UNCHANGED <<disk, store, manifest>> /\ owed' \subseteq owed
      BY <1>11 DEF RestoreCollection, worldVars, storeVars
    <2> QED
      BY <2>1, VanishSame
<1>12. CASE DeleteFolder
    <2>1. Stage(TRUE, Folder)
      BY <1>12 DEF DeleteFolder
    <2> QED
      BY <2>1, StageNothingVanishes
<1>13. CASE RemoveCollection
    <2>1. Stage(FALSE, {})
      BY <1>13 DEF RemoveCollection
    <2> QED
      BY <2>1, StageNothingVanishes
<1>14. CASE OpenCollection
    <2>1. UNCHANGED <<disk, store, manifest>> /\ owed' \subseteq owed
      BY <1>14 DEF OpenCollection, storeVars
    <2> QED
      BY <2>1, VanishSame
<1>15. CASE Persist
    <2>1. UNCHANGED <<disk, store, manifest>> /\ owed' \subseteq owed
      BY <1>15 DEF Persist, worldVars, storeVars
    <2> QED
      BY <2>1, VanishSame
<1>16. CASE List
    <2>1. UNCHANGED <<disk, store, owed>>
          /\ manifest' = [manifest EXCEPT ![Entry] = "staged"]
      BY <1>16 DEF List, worldVars
    <2>2. \A e \in Entries : manifest[e] # "none" => manifest'[e] # "none"
      BY <2>1 DEF IInv, RecoveryTypeOK
    <2>3. \A r \in owed : InPayload(r) => InPayload(r)'
      BY <2>1, <2>2 DEF InPayload, Present
    <2> QED
      BY <2>1, <2>3, VanishKept DEF Present
<1>17. CASE ListFails
    <2>1. UNCHANGED <<disk, owed>> /\ op.pc = "list"
      BY <1>17 DEF ListFails, At, worldVars
    <2>2. \A e \in Entries \ {op.entry} : store'[e] = store[e] /\ manifest'[e] = manifest[e]
      BY <1>17, StoreTyped DEF ListFails, Entry
    <2> QED
      BY <2>1, <2>2, VanishErased
<1>18. CASE Drop
    <2>1. /\ UNCHANGED <<store, manifest, owed>>
          /\ disk' \in {disk, Written(disk, app'.items)}
      BY <1>18 DEF Drop, storeVars
    <2>2. Present(disk) \subseteq Present(disk')
      BY <2>1 DEF Written, Present
    <2> QED
      BY <2>1, <2>2, PayloadKept, VanishKept
<1>19. CASE Unlist
    <2>1. UNCHANGED <<disk, owed>>
      BY <1>19 DEF Unlist
    <2>2. \A r \in owed : InPayload(r) => InPayload(r)'
      BY <1>19, RewrittenPayload
    <2> QED
      BY <2>1, <2>2, VanishKept DEF Present
<1>20. CASE SaveState
    <2>1. UNCHANGED <<disk, store, manifest>> /\ owed' \subseteq owed
      BY <1>20 DEF SaveState, worldVars, storeVars
    <2> QED
      BY <2>1, VanishSame
<1>21. CASE Commit
    <2>1. UNCHANGED <<disk, owed>>
      BY <1>21 DEF Commit, worldVars
    <2>2. \A r \in owed : InPayload(r) => InPayload(r)'
      BY <1>21, RewrittenPayload
    <2> QED
      BY <2>1, <2>2, VanishKept DEF Present
<1>22. CASE Mark
    <2>1. UNCHANGED <<disk, store, owed>>
          /\ manifest' = [manifest EXCEPT ![Entry] = "restorable"]
      BY <1>22 DEF Mark, worldVars
    <2>2. \A e \in Entries : manifest[e] # "none" => manifest'[e] # "none"
      BY <2>1 DEF IInv, RecoveryTypeOK
    <2>3. \A r \in owed : InPayload(r) => InPayload(r)'
      BY <2>1, <2>2 DEF InPayload, Present
    <2> QED
      BY <2>1, <2>3, VanishKept DEF Present
<1>23. CASE StepFails
    <2>1. UNCHANGED <<store, manifest, owed>>
      BY <1>23 DEF StepFails, storeVars
    <2>2. disk' = disk \/ disk' \in Partly(disk, Written(disk, Without(op.targets).items))
      BY <1>23 DEF StepFails
    <2>3. Present(disk) \subseteq Present(disk')
      BY <2>2 DEF Written, Partly, Present
    <2> QED
      BY <2>1, <2>3, PayloadKept, VanishKept
<1>24. CASE Undo
    <2>1. UNCHANGED <<store, manifest, owed>> /\ op.pc = "undo"
      BY <1>24 DEF Undo, At, storeVars
    <2>2. CASE Held.tree
      BY <2>1, <2>2, VanishInPayload
    <2>3. CASE ~Held.tree
      <3>1. UNCHANGED disk
        BY <1>24, <2>3, Zenon DEF Undo
      <3> QED
        BY <2>1, <3>1, PayloadKept, VanishKept DEF Present
    <2> QED
      BY <2>2, <2>3
<1>25. CASE UndoCopy
    <2>1. UNCHANGED <<store, manifest, owed>> /\ op.pc = "undoCopy"
      BY <1>25 DEF UndoCopy, At, storeVars
    <2> QED
      BY <2>1, VanishInPayload
<1>26. CASE UndoFails
  BY <1>26, UndoneOwed, VanishGivenUp
<1>27. CASE UndoState
    <2>1. UNCHANGED <<disk, store, manifest>> /\ owed' \subseteq owed
      BY <1>27 DEF UndoState, worldVars, storeVars
    <2> QED
      BY <2>1, VanishSame
<1>28. CASE RemoveFromManifest
    <2>1. UNCHANGED <<disk, store, owed>> /\ op.pc = "unlist"
      BY <1>28 DEF RemoveFromManifest, At, worldVars
    <2>2. \A e \in Entries \ {op.entry} : store'[e] = store[e] /\ manifest'[e] = manifest[e]
      BY <1>28 DEF RemoveFromManifest, Entry, IInv, RecoveryTypeOK
    <2> QED
      BY <2>1, <2>2, VanishErased
<1>29. CASE EraseEntry
    <2>1. UNCHANGED <<disk, owed>> /\ op.pc = "erase"
      BY <1>29 DEF EraseEntry, At, worldVars
    <2>2. \A e \in Entries \ {op.entry} : store'[e] = store[e] /\ manifest'[e] = manifest[e]
      BY <1>29, StoreTyped DEF EraseEntry, Entry
    <2> QED
      BY <2>1, <2>2, VanishErased
<1>30. CASE RemoveEntryFails
    <2>1. UNCHANGED <<disk, store, manifest>> /\ owed' \subseteq owed
      BY <1>30 DEF RemoveEntryFails, worldVars, storeVars
    <2> QED
      BY <2>1, VanishSame
<1>31. CASE PurgeManifest
    <2>1. UNCHANGED <<disk, store, owed>>
      BY <1>31 DEF PurgeManifest, worldVars
    <2>2. \A e \in Entries : manifest[e] # "none" /\ store[e] # {} => manifest'[e] # "none"
      BY <1>31 DEF PurgeManifest
    <2>3. \A r \in owed : InPayload(r) => InPayload(r)'
      BY <2>1, <2>2 DEF InPayload, Present
    <2> QED
      BY <2>1, <2>3, VanishKept DEF Present
<1>32. CASE RestoreClear
    <2>1. UNCHANGED <<store, manifest, owed>> /\ op.pc = "clear"
      BY <1>32 DEF RestoreClear, At, storeVars
    <2> QED
      BY <2>1, VanishInPayload
<1>33. CASE RestoreCopy
    <2>1. UNCHANGED <<store, manifest, owed>> /\ op.pc = "copy"
      BY <1>33 DEF RestoreCopy, At, storeVars
    <2> QED
      BY <2>1, VanishInPayload
<1>34. CASE RestoreFails
    <2>1. UNCHANGED <<store, manifest, owed>> /\ op.pc \in {"clear", "copy"}
      BY <1>34 DEF RestoreFails, storeVars
    <2> QED
      BY <2>1, VanishInPayload
<1>35. CASE RestoreState
    <2>1. UNCHANGED <<store, manifest, owed>> /\ op.pc = "restored"
      BY <1>35 DEF RestoreState, At, storeVars
    <2> QED
      BY <2>1, VanishInPayload
<1>36. CASE ReopenCollection
    <2>1. UNCHANGED <<disk, store, manifest>> /\ owed' \subseteq owed
      BY <1>36 DEF ReopenCollection, storeVars
    <2> QED
      BY <2>1, VanishSame
<1>37. CASE Crash
    <2>1. UNCHANGED <<disk, store, manifest>> /\ owed' \subseteq owed
      BY <1>37 DEF Crash, storeVars
    <2> QED
      BY <2>1, VanishSame
<1>38. CASE UNCHANGED vars
    <2>1. UNCHANGED <<disk, store, manifest>> /\ owed' \subseteq owed
      BY <1>38 DEF vars, storeVars, worldVars
    <2> QED
      BY <2>1, VanishSame
<1> QED
  BY <1>1, <1>2, <1>3, <1>4, <1>5, <1>6, <1>7, <1>8, <1>9, <1>10, <1>11,
     <1>12, <1>13, <1>14, <1>15, <1>16, <1>17, <1>18, <1>19, <1>20, <1>21, <1>22,
     <1>23, <1>24, <1>25, <1>26, <1>27, <1>28, <1>29, <1>30, <1>31, <1>32, <1>33,
     <1>34, <1>35, <1>36, <1>37, <1>38 DEF RecoveryNext

LEMMA InitIInv == ASSUME RecoveryInit PROVE IInv
  <1> USE Numbers, RecoveryAssumption
  <1>1. disk \in Files
    BY DEF RecoveryInit, Files
  <1>2. app \in Apps
    BY <1>1 DEF RecoveryInit, Apps
  <1>3. saved \in [listed : BOOLEAN, tabs : SUBSET Requests]
    BY <1>2, DurableTyped DEF RecoveryInit
  <1>a. /\ made \in 0..MaxEntries /\ version \in Versions /\ faults \in 0..MaxFaults
    BY DEF RecoveryInit
  <1>b. /\ manifest \in [Entries -> {"none", "staged", "restorable"}]
        /\ store \in [Entries -> SUBSET Snapshots]
        /\ expired \subseteq Entries /\ op \in Ops /\ ignored \in BOOLEAN
        /\ owed \subseteq Requests
    BY IdleTyped DEF RecoveryInit
  <1>4. RecoveryTypeOK
    BY <1>1, <1>2, <1>3, <1>a, <1>b DEF RecoveryTypeOK
  <1>5. Bookkeeping
    BY IdleTyped DEF RecoveryInit, Bookkeeping, OneSnapshot, OpHasEntry, EntryFollowsOp,
                     RestoreFollowsSnapshot, Deleting, Restoring
  <1>6. RestorableIsComplete /\ RestoredIsDurable
    BY IdleTyped DEF RecoveryInit, RestorableIsComplete, Restorable, RestoredIsDurable
  <1>7. DraftsHaveContent /\ PayloadByKind
    BY IdleTyped DEF RecoveryInit, DraftsHaveContent, HasContent, PayloadByKind
  <1>8. SavedFollowsOp /\ FilesFollowSnapshot
    BY IdleTyped DEF RecoveryInit, SavedFollowsOp, FilesFollowSnapshot
  <1>9. NothingVanishes
    BY Vanishing DEF RecoveryInit, Present, None
  <1> QED
    BY <1>4, <1>5, <1>6, <1>7, <1>8, <1>9 DEF IInv, Safeguards

LEMMA StepIInv == ASSUME IInv, [RecoveryNext]_vars PROVE IInv'
  <1>1. RecoveryTypeOK'
    BY TypeStep
  <1>2. Bookkeeping'
    BY OneSnapshotStep, OpHasEntryStep, EntryFollowsOpStep, RestoreFollowsSnapshotStep
       DEF Bookkeeping
  <1>3. RestorableIsComplete' /\ RestoredIsDurable'
    BY RestorableIsCompleteStep, RestoredIsDurableStep
  <1>4. Safeguards'
    BY DraftsHaveContentStep, PayloadByKindStep, SavedFollowsOpStep, FilesFollowSnapshotStep
       DEF Safeguards
  <1>5. NothingVanishes'
    BY NothingVanishesStep
  <1> QED
    BY <1>1, <1>2, <1>3, <1>4, <1>5 DEF IInv

THEOREM Inductive == RecoverySpec => []IInv
  BY InitIInv, StepIInv, PTL DEF RecoverySpec

(* The types of every state.                                               *)
THEOREM TypeCorrect == RecoverySpec => []RecoveryTypeOK
  <1>1. IInv => RecoveryTypeOK
    BY DEF IInv
  <1> QED
    BY <1>1, Inductive, PTL

(* An entry a user can choose is complete: its snapshot is stored with the *)
(* payload and with the state the deletion left, so a restore can compare  *)
(* and put back (MarkEntryRestorable comes last).                          *)
THEOREM AlwaysRestorableIsComplete == RecoverySpec => []RestorableIsComplete
  <1>1. IInv => RestorableIsComplete
    BY DEF IInv
  <1> QED
    BY <1>1, Inductive, PTL

(* A restore gives up its entry only after files, workspace and session    *)
(* are on disk as the snapshot has them (RemoveEntry comes last).          *)
THEOREM AlwaysRestoredIsDurable == RecoverySpec => []RestoredIsDurable
  <1>1. IInv => RestoredIsDurable
    BY DEF IInv
  <1> QED
    BY <1>1, Inductive, PTL

(* Whatever fails or crashes, a request the user has saved is on disk or   *)
(* in the payload of an entry the manifest names, until that very payload  *)
(* is given up (StageSnapshot comes first, RemoveEntry last; a restore     *)
(* that fails keeps its entry).                                            *)
THEOREM AlwaysNothingVanishes == RecoverySpec => []NothingVanishes
  <1>1. IInv => NothingVanishes
    BY DEF IInv
  <1> QED
    BY <1>1, Inductive, PTL

(* A restore goes ahead only over files that it puts back, in the files or *)
(* in memory: restoreCollectionTreeLocked compares before it writes.       *)
THEOREM NeverNewerOverwritten == RecoverySpec => NoNewerFileOverwritten
  <1>1. ASSUME IInv, NEW e \in Entries, RestoreTree(e), NEW s \in store[e]
        PROVE  PutsBack(s, disk)
    BY <1>1, RestoresOver
  <1>2. IInv => [\A e \in Entries : RestoreTree(e) => \A s \in store[e] : PutsBack(s, disk)]_vars
    BY <1>1
  <1> QED
    BY <1>2, Inductive, PTL DEF NoNewerFileOverwritten

=============================================================================
