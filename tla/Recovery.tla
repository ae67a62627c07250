------------------------------ MODULE Recovery ------------------------------
(***************************************************************************)
(* Recoverable deletion (collection_recovery.go, internal/recovery): a     *)
(* request, a folder or a collection is deleted only after a snapshot is   *)
(* stored, and a restore puts it back. Each operation holds a.mu from end  *)
(* to end, so one runs at a time; it writes file after file, and any write *)
(* may fail or be the last one before the process dies.                    *)
(*                                                                         *)
(* One collection. A request is a number, its place among its siblings;    *)
(* its content is a version. A world is what a snapshot keeps: the files,  *)
(* the state in memory and the managed lines of .gitignore.                *)
(***************************************************************************)
EXTENDS Naturals, FiniteSets

CONSTANTS
    Requests,      \* the requests there can be, in sibling order
    Folder,        \* those of them that live in the folder
    MaxEntries,    \* bound on the recovery entries made
    MaxVersion,    \* bound on the edits of the user, closed tabs among them
    MaxFaults      \* bound on failed writes and crashes

ASSUME RecoveryAssumption ==
    /\ Requests \subseteq Nat \ {0}
    /\ Folder \subseteq Requests
    /\ MaxEntries \in Nat
    /\ MaxVersion \in Nat \ {0}
    /\ MaxFaults \in Nat

VARIABLES
    disk,        \* the request files of the collection
    app,         \* the collection and the tabs in memory
    ignored,     \* .gitignore has the line of the collection
    saved,       \* workspace and session state on disk
    manifest,    \* the recovery manifest
    store,       \* the directory of each entry: none or one snapshot
    expired,     \* the entries past their time
    made,        \* NewEntry: how many entries there have been
    op,          \* the operation that holds a.mu
    version,     \* the last version made
    faults,      \* faults so far
    owed         \* history: requests saved and not given up since (NothingVanishes)

worldVars == <<disk, app, ignored>>
storeVars == <<manifest, store>>
boundVars == <<version, faults>>
vars == <<worldVars, saved, storeVars, expired, made, op, boundVars, owed>>

None == 0
Versions == 0..MaxVersion
Entries == 1..MaxEntries
Files == [Requests -> Versions]
NoFiles == [r \in Requests |-> None]
Present(files) == {r \in Requests : files[r] # None}

Apps == [items : Files, draft : SUBSET Requests, tabs : SUBSET Requests,
         listed : BOOLEAN]
Worlds == [disk : Files, app : Apps, ignored : BOOLEAN]
World == [disk |-> disk, app |-> app, ignored |-> ignored]
Snapshots == [tree : BOOLEAN, before : Worlds, after : SUBSET Worlds]

PCs == {"idle", "list", "files", "ignore", "save", "commit", "mark",
        "undo", "undoCopy", "undoState", "unlist", "erase", "purge",
        "clear", "copy", "restored", "reopened"}
Idle == [pc |-> "idle", entry |-> None, targets |-> {}, kept |-> {}]
Ops == [pc : PCs, entry : Entries \cup {None},
        targets : SUBSET Requests, kept : SUBSET Worlds]
At(pc) == op.pc = pc
Goto(pc) == op' = [op EXCEPT !.pc = pc]

RecoveryTypeOK ==
    /\ disk \in Files
    /\ app \in Apps
    /\ ignored \in BOOLEAN
    /\ saved \in [listed : BOOLEAN, tabs : SUBSET Requests]
    /\ manifest \in [Entries -> {"none", "staged", "restorable"}]
    /\ store \in [Entries -> SUBSET Snapshots]
    /\ expired \subseteq Entries
    /\ op \in Ops
    /\ made \in 0..MaxEntries
    /\ version \in Versions
    /\ faults \in 0..MaxFaults
    /\ owed \subseteq Requests

Durable(a) == [listed |-> a.listed, tabs |-> a.tabs]

RecoveryInit ==
    /\ disk = [r \in Requests |-> 1]
    /\ app = [items |-> disk, draft |-> {}, tabs |-> Requests, listed |-> TRUE]
    /\ ignored = TRUE
    /\ saved = Durable(app)
    /\ manifest = [e \in Entries |-> "none"]
    /\ store = [e \in Entries |-> {}]
    /\ expired = {}
    /\ made = 0
    /\ op = Idle
    /\ version = 1
    /\ faults = 0
    /\ owed = Requests

Fault == faults < MaxFaults /\ faults' = faults + 1

-----------------------------------------------------------------------------
(* What the user does between deletions.                                   *)

(* UpdateRequest: the request becomes a draft. *)
UpdateRequest(r) ==
    /\ At("idle") /\ app.listed /\ r \in Present(app.items)
    /\ version < MaxVersion /\ version' = version + 1
    /\ app' = [app EXCEPT !.items[r] = version', !.draft = @ \cup {r}]
    /\ UNCHANGED <<disk, ignored, saved, storeVars, expired, made, op, faults, owed>>

(* CreateRequest: a draft with a tab and, until a write, without a file.   *)
(* It may have the place of a request that was deleted; what is owed of    *)
(* that place stays owed.                                                  *)
CreateRequest(r) ==
    /\ At("idle") /\ app.listed /\ r \notin Present(app.items)
    /\ version < MaxVersion /\ version' = version + 1
    /\ app' = [app EXCEPT !.items[r] = version', !.draft = @ \cup {r},
                          !.tabs = @ \cup {r}]
    /\ UNCHANGED <<disk, ignored, saved, storeVars, expired, made, op, faults, owed>>

(* writeCollectionFilesLocked: the file of every request, drafts included. *)
(* The writer skips a file that is there if it remembers these bytes as    *)
(* the last it wrote at that path. That is left out: here a write always   *)
(* brings the file up to date. CollectionTree has it.                      *)
Written(files, items) == [r \in Requests |-> IF items[r] # None THEN items[r] ELSE files[r]]

(* SaveRequest clears one draft flag and writes the whole collection. *)
SaveRequest(r) ==
    /\ At("idle") /\ app.listed /\ r \in app.draft
    /\ disk' = Written(disk, app.items)
    /\ app' = [app EXCEPT !.draft = @ \ {r}]
    /\ owed' = owed \cup {r}
    /\ UNCHANGED <<ignored, saved, storeVars, expired, made, op, boundVars>>

(* CloseTab *)
CloseTab(r) ==
    /\ At("idle") /\ app.listed /\ r \in app.tabs
    /\ version < MaxVersion /\ version' = version + 1
    /\ app' = [app EXCEPT !.tabs = @ \ {r}]
    /\ UNCHANGED <<disk, ignored, saved, storeVars, expired, made, op, faults, owed>>

(* The collection is opened again from its directory. *)
OpenCollection ==
    /\ At("idle") /\ ~app.listed
    /\ app' = [items |-> disk, draft |-> {}, tabs |-> {}, listed |-> TRUE]
    /\ saved' = Durable(app')
    /\ UNCHANGED <<disk, ignored, storeVars, expired, made, op, boundVars, owed>>

(* The background writer. *)
Persist ==
    /\ At("idle") /\ saved # Durable(app)
    /\ saved' = Durable(app)
    /\ UNCHANGED <<worldVars, storeVars, expired, made, op, boundVars, owed>>

(* Seven days pass. *)
Expire(e) ==
    /\ manifest[e] # "none" /\ e \notin expired
    /\ expired' = expired \cup {e}
    /\ UNCHANGED <<worldVars, saved, storeVars, made, op, boundVars, owed>>

-----------------------------------------------------------------------------
(* What the entries hold.                                                  *)

Payload(e) == {r \in Requests : \E s \in store[e] : r \in Present(s.before.disk)}

(* Requests in the payload of an entry of E that the manifest names.       *)
StoredIn(E) == {r \in Requests : \E e \in E : manifest[e] # "none" /\ r \in Payload(e)}

(* The entry e is given up while the files are these: what only it holds   *)
(* is not owed any more.                                                   *)
GiveUp(e, files) ==
    owed' = owed \ (Payload(e) \ (Present(files) \cup StoredIn(Entries \ {e})))

-----------------------------------------------------------------------------
(* Staging.                                                                *)

(* StageSnapshot, first half: payload and snapshot are written. *)
Stage(tree, targets) ==
    /\ made < MaxEntries /\ made' = made + 1
    /\ store' = [store EXCEPT ![made'] =
         {[tree |-> tree, after |-> {},
           before |-> IF tree THEN World ELSE [World EXCEPT !.disk = NoFiles]]}]
    /\ op' = [pc |-> "list", entry |-> made', targets |-> targets, kept |-> {World}]
    /\ UNCHANGED <<worldVars, saved, manifest, expired, boundVars, owed>>

(* DeleteRequestRecoverable up to its snapshot: the file must exist. *)
DeleteRequest(r) ==
    /\ At("idle") /\ app.listed
    /\ r \in Present(app.items) \cap Present(disk)
    /\ Stage(TRUE, {r})

(* DeleteFolderRecoverable up to its snapshot: the directory must exist. *)
DeleteFolder ==
    /\ At("idle") /\ app.listed
    /\ Folder \cap Present(disk) # {}
    /\ Stage(TRUE, Folder)

(* RemoveCollectionRecoverable up to its snapshot, which has no payload. *)
RemoveCollection ==
    /\ At("idle") /\ app.listed
    /\ Stage(FALSE, {})

Entry == op.entry
Held == CHOOSE s \in store[Entry] : TRUE

(* StageSnapshot, second half: the manifest names the entry. *)
List ==
    /\ At("list") /\ Goto(IF Held.tree THEN "files" ELSE "ignore")
    /\ manifest' = [manifest EXCEPT ![Entry] = "staged"]
    /\ UNCHANGED <<worldVars, saved, store, expired, made, boundVars, owed>>

(* It cannot be written: the directory of the entry goes again. *)
ListFails ==
    /\ At("list") /\ Fault
    /\ store' = [store EXCEPT ![Entry] = {}]
    /\ op' = Idle
    /\ UNCHANGED <<worldVars, saved, manifest, expired, made, version, owed>>

-----------------------------------------------------------------------------
(* A deletion. Every step may fail and start the rollback.                 *)

(* os.Remove of the file, os.RemoveAll of the directory. *)
RemoveFile(r) ==
    /\ At("files") /\ r \in op.targets \cap Present(disk)
    /\ disk' = [disk EXCEPT ![r] = None]
    /\ UNCHANGED <<app, ignored, saved, storeVars, expired, made, op, boundVars, owed>>

Without(targets) ==
    [app EXCEPT !.items = [r \in Requests |-> IF r \in targets THEN None ELSE @[r]],
                !.draft = @ \ targets, !.tabs = @ \ targets]

(* A later sibling gets a new number, so all files are written again. *)
Renumbers(targets) ==
    \E r \in targets, q \in Present(app.items) \ targets : r < q

(* The requests and their tabs leave memory, siblings are resequenced. *)
Drop ==
    /\ At("files") /\ op.targets \cap Present(disk) = {}
    /\ app' = Without(op.targets)
    /\ disk' = IF Renumbers(op.targets) THEN Written(disk, app'.items) ELSE disk
    /\ Goto("save")
    /\ UNCHANGED <<ignored, saved, storeVars, expired, made, boundVars, owed>>

(* updateManagedGitIgnore, then the collection and its tabs leave memory;  *)
(* the snapshot is written with the new .gitignore.                        *)
Unlist ==
    /\ At("ignore")
    /\ ignored' = FALSE
    /\ app' = [items |-> NoFiles, draft |-> {}, tabs |-> {}, listed |-> FALSE]
    /\ store' = [store EXCEPT ![Entry] = {[Held EXCEPT !.after =
                    {[disk |-> disk, app |-> app', ignored |-> FALSE]}]}]
    /\ Goto("save")
    /\ UNCHANGED <<disk, saved, manifest, expired, made, boundVars, owed>>

(* persistLocked *)
SaveState ==
    /\ At("save") /\ Goto("commit")
    /\ saved' = Durable(app)
    /\ UNCHANGED <<worldVars, storeVars, expired, made, boundVars, owed>>

(* Fault: the snapshot is not written again. *)
CommitNothing ==
    /\ At("commit") /\ Goto("mark")
    /\ UNCHANGED <<worldVars, saved, storeVars, expired, made, boundVars, owed>>

(* commitCollectionRecoveryLocked: the world a restore expects to find. *)
Commit ==
    /\ At("commit") /\ Goto("mark")
    /\ store' = [store EXCEPT ![Entry] = {[Held EXCEPT !.after = {World}]}]
    /\ UNCHANGED <<worldVars, saved, manifest, expired, made, boundVars, owed>>

(* MarkEntryRestorable *)
Mark ==
    /\ At("mark") /\ op' = Idle
    /\ manifest' = [manifest EXCEPT ![Entry] = "restorable"]
    /\ UNCHANGED <<worldVars, saved, store, expired, made, boundVars, owed>>

(* Some of the files of "to" have been written over those of "from". *)
Partly(from, to) == {[r \in Requests |-> IF r \in W THEN to[r] ELSE from[r]] : W \in SUBSET Requests}

(* A step fails; resequencing may have written some of the files. *)
StepFails ==
    /\ op.pc \in {"files", "ignore", "save", "commit", "mark"} /\ Fault
    /\ IF At("files") /\ op.targets \cap Present(disk) = {}
       THEN disk' \in Partly(disk, Written(disk, Without(op.targets).items))
       ELSE disk' = disk
    /\ ignored' \in IF At("ignore") THEN {ignored, FALSE} ELSE {ignored}
    /\ Goto("undo")
    /\ UNCHANGED <<app, saved, storeVars, expired, made, version, owed>>

-----------------------------------------------------------------------------
(* rollbackCollectionRecoveryLocked, rollbackCollectionRemovalLocked.      *)

(* Fault: the files are not put back. *)
UndoMemoryOnly ==
    /\ At("undo") /\ Goto("undoState")
    /\ UNCHANGED <<worldVars, saved, storeVars, expired, made, boundVars, owed>>

(* ReplaceTree empties the directory. *)
Undo ==
    /\ At("undo")
    /\ IF Held.tree
       THEN disk' = NoFiles /\ Goto("undoCopy") /\ UNCHANGED ignored
       ELSE ignored' = Held.before.ignored /\ Goto("undoState") /\ UNCHANGED disk
    /\ UNCHANGED <<app, saved, storeVars, expired, made, boundVars, owed>>

UndoCopy ==
    /\ At("undoCopy") /\ Goto("undoState")
    /\ disk' = Held.before.disk
    /\ UNCHANGED <<app, ignored, saved, storeVars, expired, made, boundVars, owed>>

(* An error of either half is ignored, and the rollback goes on to drop    *)
(* the entry.                                                              *)
UndoFails ==
    /\ op.pc \in {"undo", "undoCopy"} /\ Fault
    /\ disk' \in IF ~Held.tree THEN {disk}
                 ELSE Partly(disk, IF At("undo") THEN NoFiles ELSE Held.before.disk)
    /\ GiveUp(Entry, disk')
    /\ Goto("undoState")
    /\ UNCHANGED <<app, ignored, saved, storeVars, expired, made, version>>

(* Memory is put back; whether the state is saved is not looked at. *)
UndoState ==
    /\ At("undoState") /\ Goto("unlist")
    /\ app' = (CHOOSE w \in op.kept : TRUE).app
    /\ \/ saved' = Durable(app') /\ UNCHANGED faults
       \/ Fault /\ UNCHANGED saved
    /\ UNCHANGED <<disk, ignored, storeVars, expired, made, version, owed>>

-----------------------------------------------------------------------------
(* Entries go.                                                             *)

(* RemoveEntry: out of the manifest, *)
RemoveFromManifest ==
    /\ At("unlist") /\ Goto("erase")
    /\ manifest' = [manifest EXCEPT ![Entry] = "none"]
    /\ UNCHANGED <<worldVars, saved, store, expired, made, boundVars, owed>>

(* and its directory with it. *)
EraseEntry ==
    /\ At("erase") /\ op' = Idle
    /\ store' = [store EXCEPT ![Entry] = {}]
    /\ UNCHANGED <<worldVars, saved, manifest, expired, made, boundVars, owed>>

(* An error leaves the entry, or a directory nobody names. *)
RemoveEntryFails ==
    /\ op.pc \in {"unlist", "erase"} /\ Fault
    /\ op' = Idle
    /\ UNCHANGED <<worldVars, saved, storeVars, expired, made, version, owed>>

(* DiscardRecoveryEntry, and RestoreRecoveryEntry of an expired entry. *)
Discard(e) ==
    /\ At("idle") /\ manifest[e] # "none"
    /\ op' = [Idle EXCEPT !.pc = "unlist", !.entry = e]
    /\ GiveUp(e, disk)
    /\ UNCHANGED <<worldVars, saved, storeVars, expired, made, boundVars>>

(* RemoveExpiredEntries, run by ListRecoveryEntries: first the directories, *)
PurgeErase(e) ==
    /\ manifest[e] # "none" /\ e \in expired
    /\ At("idle") \/ (At("purge") /\ store[e] # {})
    /\ store' = [store EXCEPT ![e] = {}]
    /\ GiveUp(e, disk)
    /\ op' = [Idle EXCEPT !.pc = "purge"]
    /\ UNCHANGED <<worldVars, saved, manifest, expired, made, boundVars>>

(* then the manifest; an error in between leaves entries without one. *)
PurgeManifest ==
    /\ At("purge") /\ op' = Idle
    /\ \/ /\ \A e \in expired : manifest[e] # "none" => store[e] = {}
          /\ manifest' = [e \in Entries |-> IF e \in expired THEN "none" ELSE manifest[e]]
          /\ UNCHANGED faults
       \/ Fault /\ UNCHANGED manifest
    /\ UNCHANGED <<worldVars, saved, store, expired, made, version, owed>>

-----------------------------------------------------------------------------
(* RestoreRecoveryEntry                                                    *)

(* recoveryCollectionSemanticEqual and recoveryTabsEqual: requests, draft  *)
(* flags and tabs, not the content of a draft.                             *)
SameState(a, b) ==
    /\ Present(a.items) = Present(b.items)
    /\ a.draft = b.draft
    /\ a.tabs = b.tabs

(* Fault: the fingerprint of the files is not compared. *)
NoConflictInState(s) == \E w \in s.after : app.listed /\ SameState(app, w.app)

(* restoreCollectionTreeLocked: what it compares before it touches a file. *)
NoConflict(s) ==
    \E w \in s.after : app.listed /\ SameState(app, w.app) /\ disk = w.disk

Restorable(e) == manifest[e] = "restorable" /\ e \notin expired

(* A file that the deletion itself has written, a draft's as a rule, goes  *)
(* again: what it has is then in memory alone, unless an entry holds it.   *)
RestoreTree(e) ==
    /\ At("idle") /\ Restorable(e)
    /\ \E s \in store[e] :
        /\ s.tree /\ NoConflict(s)
        /\ owed' = owed \ {r \in Present(disk) \ StoredIn(Entries) : disk[r] = s.before.app.items[r]}
    /\ op' = [Idle EXCEPT !.pc = "clear", !.entry = e, !.kept = {World}]
    /\ UNCHANGED <<worldVars, saved, storeVars, expired, made, boundVars>>

(* ReplaceTree in its two halves. *)
RestoreClear ==
    /\ At("clear") /\ Goto("copy")
    /\ disk' = NoFiles
    /\ UNCHANGED <<app, ignored, saved, storeVars, expired, made, boundVars, owed>>

RestoreCopy ==
    /\ At("copy") /\ Goto("restored")
    /\ disk' = Held.before.disk
    /\ UNCHANGED <<app, ignored, saved, storeVars, expired, made, boundVars, owed>>

(* Fault: a restore that fails gives up its entry all the same. *)
RestoreFailsForGood ==
    /\ op.pc \in {"clear", "copy"} /\ Fault
    /\ disk' \in Partly(disk, IF At("clear") THEN NoFiles ELSE Held.before.disk)
    /\ Goto("unlist")
    /\ UNCHANGED <<app, ignored, saved, storeVars, expired, made, version, owed>>

(* An error of either ends the restore and puts nothing back; the entry    *)
(* stays.                                                                  *)
RestoreFails ==
    /\ op.pc \in {"clear", "copy"} /\ Fault
    /\ disk' \in Partly(disk, IF At("clear") THEN NoFiles ELSE Held.before.disk)
    /\ op' = Idle
    /\ UNCHANGED <<app, ignored, saved, storeVars, expired, made, version, owed>>

(* Fault: the entry goes before the state is saved. *)
RestoreStateEarly ==
    /\ At("restored") /\ Goto("unlist")
    /\ app' = Held.before.app
    /\ UNCHANGED <<disk, ignored, saved, storeVars, expired, made, boundVars, owed>>

(* Memory, then the state is saved; if it cannot be, files and memory go   *)
(* back to what they were, as far as the disk lets them, and the entry     *)
(* stays.                                                                  *)
RestoreState ==
    /\ At("restored")
    /\ \/ /\ app' = Held.before.app
          /\ saved' = Durable(app')
          /\ Goto("unlist")
          /\ UNCHANGED <<disk, faults>>
       \/ /\ Fault /\ op' = Idle
          /\ \E w \in op.kept : disk' \in Partly(NoFiles, w.disk)
          /\ UNCHANGED <<app, saved>>
    /\ UNCHANGED <<ignored, storeVars, expired, made, version, owed>>

(* restoreCollectionRemovalLocked *)
RestoreCollection(e) ==
    /\ At("idle") /\ Restorable(e) /\ ~app.listed
    /\ \E s \in store[e] : /\ ~s.tree
                           /\ \E w \in s.after : w.ignored = ignored
                           /\ ignored' = s.before.ignored
    /\ op' = [Idle EXCEPT !.pc = "reopened", !.entry = e, !.kept = {World}]
    /\ UNCHANGED <<disk, app, saved, storeVars, expired, made, boundVars, owed>>

ReopenCollection ==
    /\ At("reopened")
    /\ \/ /\ app' = Held.before.app
          /\ saved' = Durable(app')
          /\ Goto("unlist")
          /\ UNCHANGED <<ignored, faults>>
       \/ /\ Fault /\ op' = Idle
          /\ ignored' \in {ignored, FALSE}
          /\ UNCHANGED <<app, saved>>
    /\ UNCHANGED <<disk, storeVars, expired, made, version, owed>>

-----------------------------------------------------------------------------
(* The process dies and starts again: requests come from the files, tabs   *)
(* of requests that are not there are pruned, drafts are gone.             *)
Crash ==
    /\ Fault
    /\ app' = IF saved.listed
              THEN [items |-> disk, draft |-> {},
                    tabs |-> saved.tabs \cap Present(disk), listed |-> TRUE]
              ELSE [items |-> NoFiles, draft |-> {}, tabs |-> {}, listed |-> FALSE]
    /\ op' = Idle
    /\ UNCHANGED <<disk, ignored, saved, storeVars, expired, made, version, owed>>

RecoveryNext ==
    \/ \E r \in Requests : \/ UpdateRequest(r) \/ CreateRequest(r) \/ SaveRequest(r)
                           \/ CloseTab(r) \/ DeleteRequest(r) \/ RemoveFile(r)
    \/ \E e \in Entries : \/ Expire(e) \/ Discard(e) \/ PurgeErase(e)
                          \/ RestoreTree(e) \/ RestoreCollection(e)
    \/ DeleteFolder \/ RemoveCollection \/ OpenCollection \/ Persist
    \/ List \/ ListFails \/ Drop \/ Unlist \/ SaveState \/ Commit \/ Mark \/ StepFails
    \/ Undo \/ UndoCopy \/ UndoFails \/ UndoState
    \/ RemoveFromManifest \/ EraseEntry \/ RemoveEntryFails \/ PurgeManifest
    \/ RestoreClear \/ RestoreCopy \/ RestoreFails \/ RestoreState \/ ReopenCollection
    \/ Crash

RecoverySpec == RecoveryInit /\ [][RecoveryNext]_vars

-----------------------------------------------------------------------------
(* An entry that a user can choose to restore has everything the restore   *)
(* needs: its snapshot, what the deletion left, and the deleted files.     *)
RestorableIsComplete ==
    \A e \in Entries : Restorable(e) =>
        \E s \in store[e] : s.after # {}

(* A request the user has saved is always on disk or in the payload of an  *)
(* entry that the manifest names, whatever fails or crashes; a restore     *)
(* that fails keeps it there. It is given up only                          *)
(*   - when the last entry that holds it is discarded or has expired and   *)
(*     it is not on disk;                                                  *)
(*   - when the rollback of a deletion fails to put its file back and no   *)
(*     other entry holds it;                                               *)
(*   - when no entry holds it and a restore takes its file away, but has   *)
(*     the same in memory (RestoreTree).                                   *)
NothingVanishes == owed \subseteq Present(disk) \cup StoredIn(Entries)

(* Files with nothing but what a snapshot puts back: as its files were, or  *)
(* as the requests in memory were, which a deletion that numbers the       *)
(* siblings anew has written.                                              *)
PutsBack(s, files) ==
    \A r \in Present(files) : files[r] \in {s.before.disk[r], s.before.app.items[r]}

(* A restore is refused if it would lose a file that was saved after the   *)
(* deletion: whatever it overwrites or takes away, it puts back.           *)
NoNewerFileOverwritten ==
    [][\A e \in Entries : RestoreTree(e) => \A s \in store[e] : PutsBack(s, disk)]_vars

(* A restore gives up its entry only when what it restored would survive a *)
(* crash.                                                                  *)
RestoredIsDurable ==
    op.pc \in {"unlist", "erase"} =>
        \A s \in store[Entry] : /\ manifest[Entry] = "restorable" /\ op.kept # {}
                             => /\ s.tree => disk = s.before.disk
                                /\ saved = Durable(s.before.app)

(* A restore is refused when a draft was edited after the deletion: the    *)
(* newer draft is not overwritten. The code does not keep this, and no run *)
(* checks it (README, observations).                                       *)
RestoreRefusesNewerDraft ==
    [][At("restored") /\ At("unlist")' => \A r \in Present(app.items) :
          app'.items[r] = app.items[r] \/ r \notin app.draft]_vars
=============================================================================
