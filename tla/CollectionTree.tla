---------------------------- MODULE CollectionTree ----------------------------
(***************************************************************************)
(* One collection of a workspace window: its requests in memory, their     *)
(* files, the record of what the writer wrote, the file watch, the tabs    *)
(* and the prompt of the close button (app_tree_crud.go,                   *)
(* app_collection_io.go, app_workspace_crud.go, draft_guard.go,            *)
(* app_tabs.go, native_close.go). Every handler holds a.mu from end to     *)
(* end and is one step; what interleaves is handlers, the watch's poll,    *)
(* other programs that edit the directory, failed writes and restarts.     *)
(*                                                                         *)
(* A path is 10 * directory + name. A request's id is the path it was      *)
(* created or read at, and stays when the request is renamed.              *)
(***************************************************************************)
EXTENDS Naturals, FiniteSets, Sequences, SequencesExt

CONSTANTS
    Paths,         \* the paths a request file can have
    Initial,       \* those with a file when the collection is opened
    Texts,         \* what a request can say: a small set, so edits can be undone
    MaxOps,        \* bound on edits, creations, renames, clones and deletions
    MaxFaults      \* bound on failed writes

ASSUME CollectionAssumption ==
    /\ Paths \subseteq Nat \ {0} /\ IsFiniteSet(Paths)
    /\ Initial \subseteq Paths
    /\ Texts \subseteq Nat \ {0}
    /\ MaxOps \in Nat /\ MaxFaults \in Nat

VARIABLES
    disk,      \* the request files
    items,     \* collection.Items
    wrote,     \* collectionFileFingerprints: what this process last wrote
    watch,     \* collectionWatchFingerprints against the directory
    tab,       \* open and closed tabs, the active one
    quit,      \* nativeClosePromptActive, or the process has gone
    asked,     \* the drafts the prompt was opened for
    ops, faults

counters == <<ops, faults>>
prompt == <<quit, asked>>
treeVars == <<disk, items, wrote, watch, tab, prompt, counters>>

Nil == 0
Dir(p) == p \div 10
Base(p) == p % 10
At(dir, name) == 10 * dir + name
Dirs == {Dir(p) : p \in Paths}
Names == {Base(p) : p \in Paths}

NewText == CHOOSE t \in Texts : TRUE
NoFile == [name |-> Nil, text |-> Nil, seq |-> 0]
Files == {NoFile} \cup [name : Names, text : Texts, seq : 1..Cardinality(Paths) + 1]
Requests == [id : Paths, path : Paths, name : Names, text : Texts, seq : 1..Cardinality(Paths) + 1,
             draft : BOOLEAN, fresh : BOOLEAN]

TreeTypeOK ==
    /\ disk \in [Paths -> Files]
    /\ \A k \in DOMAIN items : items[k] \in Requests
    /\ wrote \in [Paths -> Files]
    /\ watch \in {"unseen", "current", "changed"}
    /\ tab \in [open : SUBSET Paths, closed : SUBSET Paths, active : Paths \cup {Nil}]
    /\ quit \in {"no", "asking", "gone"}
    /\ \A k \in DOMAIN asked : asked[k] \in Paths
    /\ ops \in 0..MaxOps /\ faults \in 0..MaxFaults

-----------------------------------------------------------------------------
(* Requests, their ids and their files.                                    *)

Bytes(it) == [name |-> it.name, text |-> it.text, seq |-> it.seq]
Ids(its) == {its[k].id : k \in DOMAIN its}
Used(its) == {its[k].path : k \in DOMAIN its}
Drafts(its) == {k \in DOMAIN its : its[k].draft}
Present(files) == {p \in Paths : files[p] # NoFile}

(* The places of s that are not in ks, in their order. *)
Without(s, ks) ==
    LET left == DOMAIN s \ ks
    IN  [n \in 1..Cardinality(left) |->
            s[CHOOSE k \in left : Cardinality({j \in left : j < k}) = n - 1]]

(* findItem: the first with that id. *)
Find(its, id) == CHOOSE k \in DOMAIN its : its[k].id = id /\ \A j \in 1..k - 1 : its[j].id # id

(* readCollectionFromDisk: by number, then by name. *)
Before(files, p, q) ==
    \/ files[p].seq < files[q].seq
    \/ files[p].seq = files[q].seq /\ files[p].name < files[q].name
    \/ files[p].seq = files[q].seq /\ files[p].name = files[q].name /\ p < q
ReadFrom(files, p) ==
    [id |-> p, path |-> p, name |-> files[p].name, text |-> files[p].text,
     seq |-> files[p].seq, draft |-> FALSE, fresh |-> FALSE]
Loaded(files) ==
    [n \in 1..Cardinality(Present(files)) |->
        ReadFrom(files, CHOOSE p \in Present(files) :
                           Cardinality({q \in Present(files) : Before(files, q, p)}) = n - 1)]

(* uniqueRequestFilePath: the name, or, if that is used, one with a number. *)
UniquePath(dir, name, used) ==
    {p \in Paths \ used : p = At(dir, name) \/ (At(dir, name) \in used /\ Dir(p) = dir)}

(* Fault: paths are taken as they are. *)
PathsAsTheyAre(its) == {its}
(* EnsureRequestFilePaths: a request whose path an earlier one has used    *)
(* gets another.                                                           *)
EnsureRequestFilePaths(its) ==
    LET Ensured(f) ==
            \A k \in DOMAIN its :
               LET used == {f[j] : j \in {i \in DOMAIN its : i < k}}
               IN  IF its[k].path \in used
                   THEN f[k] \in UniquePath(Dir(its[k].path), its[k].name, used)
                   ELSE f[k] = its[k].path
    IN  {[k \in DOMAIN its |-> [its[k] EXCEPT !.path = f[k]]] :
            f \in {g \in [DOMAIN its -> Paths] : Ensured(g)}}

(* sortSequencedSiblingsLikeBruno: by number and name, then each in turn   *)
(* at the place its number says.                                           *)
Siblings(its, dir) == {k \in DOMAIN its : Dir(its[k].path) = dir}
SiblingOrder(its, dir) ==
    LET Earlier(j, k) ==
            \/ its[j].seq < its[k].seq
            \/ its[j].seq = its[k].seq /\ its[j].name < its[k].name
            \/ its[j].seq = its[k].seq /\ its[j].name = its[k].name /\ j < k
        Place(done, k) == IF its[k].seq > Len(done) THEN Append(done, k) ELSE InsertAt(done, its[k].seq, k)
    IN  FoldLeft(Place, <<>>, SetToSortSeq(Siblings(its, dir), Earlier))
(* resequenceCollectionSiblingsLocked: a directory's requests are numbered *)
(* from one in that order.                                                 *)
Resequenced(its, dir) ==
    LET order == SiblingOrder(its, dir)
    IN  [k \in DOMAIN its |->
            IF k \in Siblings(its, dir) THEN [its[k] EXCEPT !.seq = CHOOSE n \in DOMAIN order : order[n] = k]
                                        ELSE its[k]]

-----------------------------------------------------------------------------
(* Writing. "files" is the directory as the handler has left it.           *)

(* writeCollectionFileLocked writes nothing when it remembers these bytes  *)
(* and there is a file, or remembers nothing and the file has them.        *)
Skips(files, it) ==
    IF wrote[it.path] # NoFile
    THEN wrote[it.path] = Bytes(it) /\ files[it.path] # NoFile
    ELSE files[it.path] = Bytes(it)

(* The files, and what the writer remembers, after the first n requests. *)
Put(files, its, n) ==
    [p \in Paths |-> IF \E k \in 1..n : its[k].path = p /\ ~Skips(files, its[k])
                     THEN Bytes(its[CHOOSE k \in 1..n : its[k].path = p]) ELSE files[p]]
Remember(its, n) ==
    [p \in Paths |-> IF \E k \in 1..n : its[k].path = p
                     THEN Bytes(its[CHOOSE k \in 1..n : its[k].path = p]) ELSE wrote[p]]

(* writeCollectionFilesLocked: all requests, drafts too, then the watch is *)
(* told that the directory is as it should be.                             *)
WriteAll(files, its) ==
    /\ disk' = Put(files, its, Len(its))
    /\ wrote' = Remember(its, Len(its))
    /\ watch' = "current"
WriteCollection(files, its) == WriteAll(files, its) /\ UNCHANGED faults

Stale(files) == IF files = disk \/ watch = "unseen" THEN watch ELSE "changed"

(* A write fails: the files before it are written. *)
WriteFails(files, its) ==
    /\ faults < MaxFaults /\ faults' = faults + 1
    /\ \E n \in 0..Len(its) - 1 :
        /\ disk' = Put(files, its, n)
        /\ wrote' = Remember(its, n)
    /\ watch' = Stale(disk')

-----------------------------------------------------------------------------
(* Tabs. Their order is left out: when the active one goes, any other can  *)
(* become active.                                                          *)

Keep(t, open) ==
    {[t EXCEPT !.open = open, !.active = x] :
        x \in IF t.active \in open THEN {t.active} ELSE IF open = {} THEN {Nil} ELSE open}
(* pruneOrphanedOpenTabsLocked *)
Prune(t, its) == Keep(t, {id \in t.open : id \in Ids(its)})
(* removeOpenTabsForRequestIDsLocked *)
Drop(t, ids) == Keep([t EXCEPT !.closed = @ \ ids], t.open \ ids)
(* openTabLocked *)
Open(t, id) == [t EXCEPT !.open = @ \cup {id}, !.active = id]
OpenFirst(t, its) == IF its = <<>> THEN t ELSE Open(t, its[1].id)

TreeInit ==
    /\ disk = [p \in Paths |-> IF p \in Initial
                  THEN [name |-> Base(p), text |-> NewText,
                        seq |-> Cardinality({q \in Initial : Dir(q) = Dir(p) /\ q <= p})]
                  ELSE NoFile]
    /\ items = Loaded(disk)
    /\ wrote = [p \in Paths |-> NoFile]
    /\ watch = "current"
    /\ tab = OpenFirst([open |-> {}, closed |-> {}, active |-> Nil], items)
    /\ quit = "no" /\ asked = <<>>
    /\ ops = 0 /\ faults = 0

(* ensureReadyLocked, at the head of nearly every handler. *)
Ready(t) == quit # "gone" /\ t \in Prune(tab, items)
Op == ops < MaxOps /\ ops' = ops + 1

-----------------------------------------------------------------------------
(* What the user and the agents do.                                        *)

UpdateRequest(id, text) ==
    /\ Op /\ id \in Ids(items)
    /\ Ready(tab')
    /\ items' = [items EXCEPT ![Find(items, id)].text = text, ![Find(items, id)].draft = TRUE]
    /\ UNCHANGED <<disk, wrote, watch, prompt, faults>>

(* A draft without a file. *)
CreateRequestInFolder(dir, name) ==
    /\ Op
    /\ \E p \in UniquePath(dir, name, Used(items)) :
        /\ items' = Append(items, [id |-> p, path |-> p, name |-> name, text |-> NewText,
                                   seq |-> Len(items) + 1, draft |-> TRUE, fresh |-> TRUE])
        /\ \E ready \in Prune(tab, items) : Ready(ready) /\ tab' = Open(ready, p)
    /\ UNCHANGED <<disk, wrote, watch, prompt, faults>>

Saved(its, ks) ==
    [k \in DOMAIN its |-> IF k \in ks THEN [its[k] EXCEPT !.draft = FALSE, !.fresh = FALSE] ELSE its[k]]

(* SaveRequest and SaveAllTabs: the flags go before the write and come     *)
(* back when it fails.                                                     *)
SaveRequests(ks) ==
    /\ Ready(tab')
    /\ \E its \in EnsureRequestFilePaths(Saved(items, ks)) :
        \/ WriteCollection(disk, its) /\ items' = its
        \/ WriteFails(disk, its) /\ items' = [k \in DOMAIN its |-> [its[k] EXCEPT !.draft = items[k].draft, !.fresh = items[k].fresh]]
    /\ UNCHANGED <<prompt, ops>>
SaveRequest(id) == id \in Ids(items) /\ SaveRequests({Find(items, id)})
SaveAllTabs ==
    /\ \E t \in Prune(tab, items) : t.open # {} /\ SaveRequests({Find(items, id) : id \in t.open})

(* The writer of the handlers below: they do not undo what they did in     *)
(* memory when it fails.                                                   *)
WriteOrFail(files, its) ==
    \E ensured \in EnsureRequestFilePaths(its) :
        /\ items' = ensured
        /\ WriteCollection(files, ensured) \/ WriteFails(files, ensured)

(* collectionHasRequestFileSiblingExcept, and no such file. *)
Taken(p, except) == p \in {items[k].path : k \in {j \in DOMAIN items : items[j].id # except}} \cup Present(disk)

(* The id stays; the request is no draft after it. *)
RenameRequest(id, name) ==
    /\ Op /\ Ready(tab') /\ id \in Ids(items)
    /\ LET k == Find(items, id)
           old == items[k].path
           new == At(Dir(old), name)
           moved == [disk EXCEPT ![old] = NoFile, ![new] = disk[old]]
       IN  /\ new \in Paths
           /\ old \in Present(disk) \/ (items[k].draft /\ items[k].fresh)
           /\ old = new \/ ~Taken(new, id)
           /\ WriteOrFail(IF old \in Present(disk) /\ old # new THEN moved ELSE disk,
                          [items EXCEPT ![k] = [@ EXCEPT !.path = new, !.name = name,
                                                         !.draft = FALSE, !.fresh = FALSE]])
    /\ UNCHANGED prompt

CloneRequest(id, name) ==
    /\ Op /\ id \in Ids(items)
    /\ LET it == items[Find(items, id)]
           new == At(Dir(it.path), name)
           count == Cardinality({k \in DOMAIN items : Dir(items[k].path) = Dir(new)})
       IN  /\ new \in Paths /\ ~Taken(new, Nil)
           /\ WriteOrFail(disk, Append(items, [it EXCEPT !.id = new, !.path = new, !.name = name,
                                       !.seq = count + 1, !.draft = FALSE, !.fresh = FALSE]))
           /\ \E ready \in Prune(tab, items) :
                /\ Ready(ready)
                /\ tab' = IF faults' = faults THEN Open(ready, new) ELSE ready
    /\ UNCHANGED prompt

(* What is left is numbered again and written if a number changed. *)
Resequence(files, its, dir) ==
    IF Resequenced(its, dir) = its
    THEN items' = its /\ disk' = files /\ watch' = "current" /\ UNCHANGED <<wrote, faults>>
    ELSE WriteOrFail(files, Resequenced(its, dir))

DeleteRequest(id) ==
    /\ Op /\ id \in Ids(items)
    /\ LET k == Find(items, id) IN
       /\ items[k].path \in Present(disk)
       /\ Resequence([disk EXCEPT ![items[k].path] = NoFile], Without(items, {k}), Dir(items[k].path))
       /\ \E ready \in Prune(tab, items) :
            Ready(ready) /\ tab' \in IF faults' = faults THEN Drop(ready, {id}) ELSE {ready}
    /\ UNCHANGED prompt

InDir(dir) == Siblings(items, dir)
FilesIn(dir) == {p \in Present(disk) : Dir(p) = dir}

DeleteFolder(dir) ==
    /\ Op /\ FilesIn(dir) # {} /\ dir # Nil
    /\ items' = Without(items, InDir(dir))
    /\ disk' = [p \in Paths |-> IF Dir(p) = dir THEN NoFile ELSE disk[p]]
    /\ watch' = "current"
    /\ \E ready \in Prune(tab, items) : Ready(ready) /\ tab' \in Drop(ready, {items[k].id : k \in InDir(dir)})
    /\ UNCHANGED <<wrote, prompt, faults>>

(* The directory is moved with its files; ids and the writer's record stay. *)
RenameFolder(dir, new) ==
    /\ Op /\ Ready(tab')
    /\ dir # Nil /\ new # Nil /\ FilesIn(dir) # {} /\ FilesIn(new) = {} /\ InDir(new) = {}
    /\ \A p \in FilesIn(dir) \cup {items[k].path : k \in InDir(dir)} : At(new, Base(p)) \in Paths
    /\ items' = [k \in DOMAIN items |-> IF k \in InDir(dir)
                    THEN [items[k] EXCEPT !.path = At(new, Base(@))] ELSE items[k]]
    /\ disk' = [p \in Paths |-> IF Dir(p) = dir THEN NoFile
                                ELSE IF Dir(p) = new /\ At(dir, Base(p)) \in Paths
                                THEN disk[At(dir, Base(p))] ELSE disk[p]]
    /\ watch' = "current"
    /\ UNCHANGED <<wrote, prompt, faults>>

(* The copies get ids of their own and are written with everything else. *)
CloneFolder(dir, new) ==
    /\ Op /\ Ready(tab')
    /\ dir # Nil /\ new # Nil /\ FilesIn(dir) # {} /\ FilesIn(new) = {} /\ InDir(new) = {}
    /\ \A k \in InDir(dir) : At(new, Base(items[k].path)) \in Paths
    /\ LET Copy(it) == [it EXCEPT !.id = At(new, Base(it.path)), !.path = At(new, Base(it.path)), !.draft = FALSE]
           copies == Without(items, DOMAIN items \ InDir(dir))
       IN  WriteOrFail(disk, items \o [k \in DOMAIN copies |-> Copy(copies[k])])
    /\ UNCHANGED prompt

-----------------------------------------------------------------------------
(* Drafts: DiscardUnsavedDrafts and SaveUnsavedDrafts take them one by one *)
(* and stop at the first that fails.                                       *)

(* The saved file of a request, by its path or read under its id. *)
OnDisk(it) == {p \in Present(disk) : p = it.path \/ p = it.id}
SavedAs(it) ==
    ReadFrom(disk, CHOOSE p \in OnDisk(it) :
                      \A q \in OnDisk(it) : q = p \/ Before(disk, p, q))

(* A request that was never saved goes, any other is as its file says; its *)
(* id stays.                                                               *)
NeverSaved(it) == it.fresh /\ it.path \notin Present(disk)
Discarded(ks) ==
    Without([k \in DOMAIN items |->
                IF k \in ks /\ ~NeverSaved(items[k])
                THEN [SavedAs(items[k]) EXCEPT !.id = items[k].id, !.fresh = items[k].fresh]
                ELSE items[k]],
            {k \in ks : NeverSaved(items[k])})

Discardable(it) == NeverSaved(it) \/ OnDisk(it) # {}

(* uniqueUnsavedDrafts *)
Unique(ids) == Without(ids, {k \in DOMAIN ids : \E j \in 1..k - 1 : ids[j] = ids[k]})

(* validateUnsavedDraftsLocked *)
Valid(ids) == \A k \in DOMAIN ids : ids[k] \in Ids(items) /\ items[Find(items, ids[k])].draft

First(ids, n) == {Find(items, ids[k]) : k \in 1..n}

DiscardSome(ids, n) ==
    LET ks == First(ids, n) IN
    /\ \A k \in ks : Discardable(items[k])
    /\ items' = Discarded(ks)
    /\ \E ready \in Prune(tab, items) :
        /\ Ready(ready)
        /\ tab' \in Drop(ready, {items[k].id : k \in {j \in ks : NeverSaved(items[j])}})

(* persistLocked fails for the next one, or its file has gone. *)
DiscardStops(ids, n) ==
    \/ ~Discardable(items[Find(items, ids[n + 1])]) /\ UNCHANGED faults
    \/ faults < MaxFaults /\ faults' = faults + 1

DiscardUnsavedDrafts(ids, done) ==
    /\ Valid(ids)
    /\ \/ done /\ DiscardSome(ids, Len(ids)) /\ UNCHANGED faults
       \/ ~done /\ (\E n \in 0..Len(ids) - 1 : DiscardSome(ids, n) /\ DiscardStops(ids, n))
    /\ UNCHANGED <<disk, wrote, watch, ops>>

DiscardRequestDraft(id) ==
    /\ \E done \in BOOLEAN : DiscardUnsavedDrafts(<<id>>, done)
    /\ UNCHANGED prompt

(* A request whose save fails is put back as it was, path and all. *)
SaveUnsavedDrafts(ids) ==
    /\ Valid(ids) /\ Ready(tab')
    /\ \/ \E its \in EnsureRequestFilePaths(Saved(items, First(ids, Len(ids)))) :
            items' = its /\ WriteCollection(disk, its)
       \/ \E its \in EnsureRequestFilePaths(items) :
            LET k == Find(items, ids[1]) IN
            /\ ids # <<>> /\ items' = [its EXCEPT ![k] = items[k]]
            /\ \/ WriteFails(disk, its)
               \/ WriteAll(disk, its) /\ faults < MaxFaults /\ faults' = faults + 1
       \/ \E n \in 1..Len(ids) - 1 :
           \E its \in EnsureRequestFilePaths(Saved(items, First(ids, n))) :
            /\ items' = its /\ WriteAll(disk, its)
            /\ faults < MaxFaults /\ faults' = faults + 1
    /\ UNCHANGED <<ops>>

-----------------------------------------------------------------------------
(* The directory and its watch.                                            *)

(* Another program writes or removes a request file. *)
External(p, file) ==
    /\ Op
    /\ file # disk[p]
    /\ disk' = [disk EXCEPT ![p] = file]
    /\ watch' = Stale(disk')
    /\ UNCHANGED <<items, wrote, tab, prompt, faults>>

(* Fault: drafts do not stop the reading. *)
RefreshOverDrafts ==
    /\ quit # "gone" /\ watch # "current" /\ watch' = "current"
    /\ items' = IF watch = "changed" THEN Loaded(disk) ELSE items
    /\ \E ready \in Prune(tab, items) : \E left \in Drop(ready, Ids(items) \ Ids(items')) :
        tab' \in Prune(left, items')
    /\ UNCHANGED <<disk, wrote, prompt, counters>>
(* Fault: the tabs of what has gone are left. *)
RefreshLeavesTabs ==
    /\ quit # "gone" /\ watch # "current" /\ watch' = "current"
    /\ Ready(tab')
    /\ IF watch = "changed" THEN Drafts(items) = {} /\ items' = Loaded(disk) ELSE UNCHANGED items
    /\ UNCHANGED <<disk, wrote, prompt, counters>>
(* RefreshChangedCollections: the first look is a baseline; a changed      *)
(* directory is read, unless there are drafts.                             *)
RefreshChangedCollections ==
    /\ quit # "gone" /\ watch # "current" /\ watch' = "current"
    /\ IF watch = "changed"
       THEN /\ Drafts(items) = {}
            /\ items' = Loaded(disk)
            /\ \E ready \in Prune(tab, items) : \E left \in Drop(ready, Ids(items) \ Ids(items')) :
                tab' \in Prune(left, items')
       ELSE Ready(tab') /\ UNCHANGED items
    /\ UNCHANGED <<disk, wrote, prompt, counters>>

RefreshCollection ==
    /\ items' = Loaded(disk) /\ watch' = "current"
    /\ \E ready \in Prune(tab, items) : \E left \in Prune(ready, items') :
        Ready(ready) /\ tab' = OpenFirst(left, items')
    /\ UNCHANGED <<disk, wrote, prompt, counters>>

(* OpenCollection of one already open: its tabs are not looked at. *)
OpenCollection ==
    /\ items' = Loaded(disk) /\ watch' = "current"
    /\ \E ready \in Prune(tab, items) : Ready(ready) /\ tab' = OpenFirst(ready, items')
    /\ UNCHANGED <<disk, wrote, prompt, counters>>

-----------------------------------------------------------------------------
(* Tabs.                                                                   *)

OnlyTabs == Op /\ quit # "gone" /\ UNCHANGED <<disk, items, wrote, watch, prompt, faults>>
OpenRequestTab(id) ==
    /\ OnlyTabs /\ id \in Ids(items)
    /\ \E ready \in Prune(tab, items) : tab' = Open(ready, id)
SetActiveTab(id) == OnlyTabs /\ id \in tab.open /\ tab' = [tab EXCEPT !.active = id]
CloseTab(id) ==
    /\ OnlyTabs /\ id \in tab.open
    /\ tab' \in Keep([tab EXCEPT !.closed = @ \cup {id}], tab.open \ {id})
CloseAllTabs ==
    /\ OnlyTabs
    /\ tab' = [open |-> {}, closed |-> tab.closed \cup tab.open, active |-> Nil]
(* The closed tabs after it in the history no longer resolve. *)
ReopenLastClosedTab(id) ==
    /\ OnlyTabs /\ id \in tab.closed \cap Ids(items)
    /\ \E dead \in SUBSET (tab.closed \ Ids(items)) :
        tab' = Open([tab EXCEPT !.closed = @ \ (dead \cup {id})], id)

-----------------------------------------------------------------------------
(* native_close.go, and what a restart keeps: files and tabs, no drafts.   *)

BeforeClose ==
    /\ quit = "no" /\ Ready(tab')
    /\ LET drafts == Without(items, DOMAIN items \ Drafts(items)) IN
        /\ asked' = [k \in DOMAIN drafts |-> drafts[k].id]
        /\ quit' = IF drafts = <<>> THEN "gone" ELSE "asking"
    /\ UNCHANGED <<disk, items, wrote, watch, counters>>

(* Fault: an error does not keep the window open. *)
AlwaysGone(done) == asked' = <<>> /\ quit' = "gone"
Answered(done) == asked' = <<>> /\ quit' = IF done THEN "gone" ELSE "no"

CloseSave ==
    /\ quit = "asking"
    /\ \/ SaveUnsavedDrafts(Unique(asked)) /\ Answered(faults' = faults)
       \/ /\ ~Valid(asked) /\ Answered(FALSE) /\ Ready(tab')
          /\ UNCHANGED <<disk, items, wrote, watch, counters>>
CloseDiscard ==
    /\ quit = "asking"
    /\ \/ \E done \in BOOLEAN : DiscardUnsavedDrafts(Unique(asked), done) /\ Answered(done)
       \/ /\ ~Valid(asked) /\ Answered(FALSE) /\ Ready(tab')
          /\ UNCHANGED <<disk, items, wrote, watch, counters>>
CloseCancel ==
    /\ quit = "asking" /\ Answered(FALSE)
    /\ UNCHANGED <<disk, items, wrote, watch, tab, counters>>

(* loadWorkspaceWindow, hydrateWorkspaceReference, after a quit or a crash. *)
Restart ==
    /\ items' = Loaded(disk)
    /\ wrote' = [p \in Paths |-> NoFile] /\ watch' = "unseen"
    /\ tab' \in Prune(tab, items')
    /\ quit' = "no" /\ asked' = <<>>
    /\ UNCHANGED <<disk, counters>>

Edited(p) == {NoFile} \cup {[name |-> Base(p), text |-> t, seq |-> IF disk[p] = NoFile THEN 1 ELSE disk[p].seq] : t \in Texts}

TreeNext ==
    \/ \E id \in Ids(items), text \in Texts : UpdateRequest(id, text)
    \/ \E dir \in Dirs, name \in Names : CreateRequestInFolder(dir, name)
    \/ \E id \in Ids(items) : SaveRequest(id)
    \/ SaveAllTabs
    \/ \E id \in Ids(items), name \in Names : RenameRequest(id, name)
    \/ \E id \in Ids(items), name \in Names : CloneRequest(id, name)
    \/ \E id \in Ids(items) : DeleteRequest(id)
    \/ \E dir \in Dirs : DeleteFolder(dir)
    \/ \E dir, new \in Dirs : RenameFolder(dir, new)
    \/ \E dir, new \in Dirs : CloneFolder(dir, new)
    \/ \E id \in Ids(items) : DiscardRequestDraft(id)
    \/ \E p \in Paths : \E file \in Edited(p) : External(p, file)
    \/ RefreshChangedCollections
    \/ RefreshCollection
    \/ OpenCollection
    \/ \E id \in Ids(items) : OpenRequestTab(id)
    \/ \E id \in tab.open : SetActiveTab(id)
    \/ \E id \in tab.open : CloseTab(id)
    \/ CloseAllTabs
    \/ \E id \in tab.closed : ReopenLastClosedTab(id)
    \/ BeforeClose
    \/ CloseSave
    \/ CloseDiscard
    \/ CloseCancel
    \/ Restart

TreeSpec == TreeInit /\ [][TreeNext]_treeVars

-----------------------------------------------------------------------------
(* Properties.                                                             *)

(* No handler that succeeds leaves a tab without its request behind, the   *)
(* reopening of an open collection excepted.                               *)
Orphans == {id \in tab.open : id \notin Ids(items)}
NoNewOrphans ==
    [][OpenCollection \/ faults' # faults \/ Orphans' \subseteq Orphans]_treeVars

(* An unsaved edit stays an unsaved edit or is written, until its user     *)
(* edits it again, discards or deletes it, the collection is read again on *)
(* request, or the process restarts. A poll of the watch, another          *)
(* request's save, a move of its folder, a failed write or a discard of    *)
(* other drafts never loses one. (RenameRequest is the exception: when its *)
(* write fails the request is no draft and has not been written.)          *)
KeptOrWritten(it) ==
    \E k \in DOMAIN items' :
        /\ items'[k].id = it.id /\ items'[k].text = it.text
        /\ items'[k].draft \/ wrote'[items'[k].path] = Bytes(items'[k])
GivenUp(it) ==
    \/ Restart \/ OpenCollection \/ RefreshCollection
    \/ \E text \in Texts : UpdateRequest(it.id, text)
    \/ DeleteRequest(it.id) \/ DeleteFolder(Dir(it.path)) \/ DiscardRequestDraft(it.id)
    \/ CloseDiscard /\ Contains(asked, it.id)
    \/ faults' # faults /\ \E name \in Names : RenameRequest(it.id, name)
DraftsKept ==
    [][\A k \in Drafts(items) : KeptOrWritten(items[k]) \/ GivenUp(items[k])]_treeVars

(* Two requests may share a path between writes (a discard puts a request  *)
(* back under the name another has taken), but never across one: whatever  *)
(* is written, each request is in a file of its own. (A failed save of the *)
(* prompt is the exception: it puts the request back as it was.)           *)
WritesKeepApart ==
    [][wrote' # wrote /\ ~Restart /\ ~(CloseSave /\ faults' # faults) =>
        \A j, k \in DOMAIN items' : j < k => items'[j].path # items'[k].path]_treeVars

(* A close that was answered quits past no draft it had listed, unless two *)
(* requests had its id.                                                    *)
QuitSettlesListed ==
    [][quit = "asking" /\ quit' = "gone" =>
        \A k \in Drafts(items') :
            \/ ~Contains(asked, items'[k].id)
            \/ \E i, j \in DOMAIN items :
                  i < j /\ items[i].id = items'[k].id /\ items[j].id = items'[k].id]_treeVars

(* writeCollectionFileLocked: a write is skipped only "when the bytes on   *)
(* disk already match". So while every request that is no draft is what    *)
(* its file says, a handler of ours that reports no error keeps it so.     *)
SavedIn(files, its) == \A k \in DOMAIN its : ~its[k].draft => files[its[k].path] = Bytes(its[k])
SavedIsOnDisk ==
    [][SavedIn(disk, items) => \/ SavedIn(disk', items')
                               \/ faults' # faults
                               \/ \E p \in Paths : \E file \in Edited(p) : External(p, file)]_treeVars

(* writeCollectionFileLocked: "A file edited outside LiteAPI is left alone *)
(* when our content has not changed." The code does not keep this, and no  *)
(* run checks it (README, observations).                                   *)
EditLeftAlone ==
    [][\A id \in Ids(items) : SaveRequest(id) =>
        \A k \in DOMAIN items :
            items[k].id # id /\ ~items[k].draft /\ disk[items[k].path] # NoFile
                => disk'[items[k].path] = disk[items[k].path]]_treeVars

(* isTransientRequestLocked: a request's "tab and draft must survive a     *)
(* crash/restart until the user resolves it". The code does not keep this, *)
(* and no run checks it (README, observations).                            *)
DraftsSurviveRestart ==
    [][Restart /\ quit = "no" =>
        \A k \in Drafts(items) :
            \E j \in DOMAIN items' : items'[j].text = items[k].text /\ items'[j].draft]_treeVars
=============================================================================
