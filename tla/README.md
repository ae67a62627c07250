# A verification development for LiteAPI

LiteAPI is a local-first desktop API client: Go and Wails behind a Svelte
front end (`src/internal`, `src/frontend`). One process serves one workspace
window. Inside it the binding calls of the front end, the background writer, the
sends with their scripts, the live sessions and the MCP server share one
`App`; outside it the windows of the other workspaces and a headless
`liteapi mcp` share the data directory. This directory models those parts in
TLA+, checks them with TLC and proves the main safety results with TLAPS.

## 1. Inventory

What each part keeps, what it does, where it is hard, and what makes it
correct. Parts marked * are modelled; the complete list of components, with
the reason for each one that is left out, is in `PROJECT.json`.

| Part | State | Operations | Hard | Correct means |
|---|---|---|---|---|
| Background persistence* (`core/app_persist.go`) | the state behind `a.mu`; `persistDirty`, `persistRunning`, `persistStopped`, the failure streak behind `persistMu` | `markDirty`, the writer loop, `flushPersist`, `persistLocked`, `stopPersistWriter` | two mutexes, writers that come and go, retries, shutdown | nothing accepted is forgotten; no older state over a newer; no write after the stop |
| Request lifecycle* (`core/request_lifecycle.go`, `app_send.go`) | the registry of cancellable sends | register, supersede, cancel, finish, store the response; scripts that run other requests | cancel against completion, two sends of one request, cancel functions called after the unlock | one truthful outcome; the registry is exact |
| Workspace windows* (`workspacestate/windowlock.go`, `core/workspace_window_runtime.go`) | lock records with heartbeats, the guard file, the registry, a state file per workspace | acquire, renew, persist, open another window, create a workspace, close, crash | processes that die or sleep, wall-clock leases, several files per persist | one owner writes a workspace; what is saved stays saved |
| Shared application state* (`workspacestate/shared.go`) | `shared-state.json`, a copy and a baseline per window | load, edit, merge and persist, read back | windows that merge old copies | a window changes only what its user edited |
| MCP approvals* (`core/mcp_approvals.go`, `mcp_policy.go`) | remembered approvals and their file, open prompts, the grants of a run | authorize, wait, resolve, time out, load, write, restart | answer against timeout, disk against memory | nothing runs without a yes for that key; no approval is destroyed |
| Live WebSocket sessions* (`core/app_websocket.go`) | one session per request, its socket, events, keep-alive | connect, send, disconnect, ping | I/O under the session mutex, the map unlocked in between | no socket is lost, a closed session stays closed |
| Request edits* (`frontend/src/lib/patchQueue.ts`, `App.svelte`) | the queued patch, its timer, flushes in flight, the view | type, flush, drain before a send, recover | typing while a call is on the wire, failures, changing the request | no keystroke lost in silence |
| Environment secrets (`core/app_env_secrets.go`) | the secrets file, a fingerprint per window | load, save or skip | windows that skip a write on a stale fingerprint | a clean window's secrets are on disk |
| Collection recovery* (`core/collection_recovery.go`, `recovery/`) | snapshots, a manifest, the tree on disk, the state in memory | recoverable delete, rollback, restore, discard, expiry | many files, a crash or failed write between any two steps | what a user saved is on disk or in a snapshot, and a restore has all it needs |
| Collections, tabs, drafts* (`core/app_tree_crud.go`, `app_collection_io.go`, `app_workspace_crud.go`, `app_tabs.go`, `draft_guard.go`, `native_close.go`) | requests in memory, their files, the record of what was written, the watch fingerprint, the tabs, the close prompt | create, edit, save, rename, clone, delete, refresh, open and close tabs, discard, quit | a record that stands for the file, ids that outlive paths, another program in the directory, a dialog without a lock | unsaved edits are kept, each request has a file of its own, no tab is stranded, quitting settles what it listed |
| Send commit* (`core/app_send.go` head and tail, `cookiejar/`, `scripting/variables.go`, `mcp_policy.go`) | cookies, variables, the overlay of an agent's execution | copy at the head, change in scripts, merge at the tail | copies that are old when they are merged, agents whose writes must not persist | a tail changes only what its send carried; an agent leaves nothing behind |
| Collection runner* (`core/app_runner.go`, `runner/`, `request_lifecycle.go`) | the registry of runs, the rows of a run, the results shown | register, plan the iterations, send, skip, redirect, bail, cancel, store | a cancel at any moment, scripts that redirect for ever, two runs of a collection | every request has its turn, the rows tell what happened, a cancel is shown |
| Flows (`core/flow_run.go`) | a scope, the steps' results | run step after step, extract | the first failure ends it | later steps read what earlier ones extracted |
| gRPC sessions (`core/app_grpc_stream.go`) | streams by request | start, send, half-close, cancel | the server's end against the user's cancel | one end per stream |
| OAuth2 (`core/app_oauth2*.go`) | tokens, browser waiters by callback URL | authorize, refresh, call back | two waiters with one URL, timeouts | a code reaches the flow that asked |
| MCP server control (`core/mcp_control.go`, `mcpserver/`) | the listener, its status | apply preferences, start, stop | preferences applied after the unlock, in any order | the listener agrees with the latest preferences |
| Transport cache (`transport/cache.go`) | transports by specification | get, evict | eviction while in use | bounded, and never the wrong settings |

How they interact. A mutation of any part calls `markDirty`; PersistWriter's
`MarkDirty` stands for all of them. `writeStateLocked`, one step there, is the
whole of the windows' persist in WorkspaceLease and SharedAppState. A send
registers with the lifecycle, may wait inside its transport for an MCP
approval, and is preceded in the front end by a drain of the patch queue. A
live session emits its events to the front end's log.

`PROJECT.json` "hazards" lists what is hard to test, each at its line, with
the properties that cover it.

## 2. Plan

The order is by what would hurt a user most: losing saved data, then wrong
outcomes, then wrong displays.

| # | Modules | Composes | Status |
|---|---|---|---|
| 1 | `PersistWriter`, `WriteBehind` (abstract), `PersistWriterProofs` | the writer implements WriteBehind | done |
| 2 | `RequestLifecycle`, `RequestLifecycleProofs` | | done |
| 3 | `WorkspaceLease`, `WorkspaceLeaseProofs` | lock, guard, registry, scoped state | done |
| 4 | `SharedAppState`, `SharedEntries` (abstract), `SharedAppStateProofs` | the merges implement SharedEntries | done |
| 5 | `McpApprovals`, `McpApprovalsProofs` | policy, prompts, store | done |
| 6 | `LiveSessions`, `LiveSessionsProofs` | | done |
| 7 | `PatchQueue`, proved in `PersistWriterProofs` | the queue with the backend and the view | done |
| 8 | `Recovery`, `RecoveryProofs` | manifest, snapshots, files and state, with a crash anywhere | done |
| 9 | `CollectionTree`, proved in `RequestLifecycleProofs` | requests, files, watch, tabs and the close prompt | done |
| 10 | `SendCommit`, `SendCommitProofs` | sends of the user with executions of agents; implements itself without agents | done |
| 11 | `CollectionRun`, proved in `SendCommitProofs` | the runner's loops with its registry | done |
| 12 | `EnvSecrets`, OAuth2 waiters, `McpControl`, transport cache, gRPC | | later |

Theorems still worth proving: that the requests of CollectionTree have the
types of `TreeTypeOK`, of which the proofs need only the shapes (the numbers
come from a sort that the provers cannot expand), and how much of
`SavedIsOnDisk` holds without renames.

## 3. What is modelled

In every module an action is a critical section of the code, or the stretch
between two awaits; its comment names the function. Some definitions come
with a faulty form in front of them (comment `Fault:`), a plausible bug that
the property named for it in `PROJECT.json` "mutants" catches.

**PersistWriter.** `a.mu` is not a variable: it is free when nobody is at a
location inside it. `persistMu` covers a few assignments, so each of its
sections is one action. The content of the state is a version number, the
revision of the mutation that last changed it. A writer generation goes
through waiting, cleared (flag taken, `a.mu` not yet), writing, recorded. Time
is left out: debounce and backoff may end at any moment.
`WriteBehind` says the same without writer, flag or lock: a save that is due
stays due until one copies the memory of that moment.

**RequestLifecycle.** An execution registers (up to the unlock), cancels the
one it replaced (after it), passes the checkpoint before the transport,
returns, finishes, decides its outcome and stores its response. A script may
run another request, which is registered for its transport only, under its
caller's context. `CancelRequest` is two steps, for the same reason. Cookies
and variables of the tail are in SendCommit; history and timeline are left
out.

**WorkspaceLease.** A window is a process: launched, acquired, loaded, then it
ticks, edits, persists, opens another workspace or creates one, closes or
crashes. The wall clock is the set of workspaces whose heartbeat is older than
`StaleAfter`; a living process may be suspended long enough (`Lapse`). The
guard is an operating-system lock: a crash frees it. A persist is four steps
behind it, each of which may fail. A workspace's state is the set of edits it
reflects.

**SharedAppState.** An entry is one cookie, notification, feature, variable or
preference, which is how `MergeSharedDelta` compares them. A persist reads and
merges, writes, reads back, each of which may fail. `SharedEntries` says what
the windows may rely on: a window's pending edits, the entries where what it
shows differs from what it knows to be stored, reach the entries all at once
and touch no other entry; a window that lives forgets them only when they are
in place, and one that ends takes what is left of its own with it.

**McpApprovals.** A run asks for a key, consults the store (loading the file
when it has to), the grants of its policy, then raises a prompt and waits.
`Resolve`, `Remember` and `Send` are the steps of an answer; the timeout may
fall between any two. The file may be missing, current, old or unreadable, its
rename and its write may fail, the process may restart. Keys stand for site,
environment, origin and class; the origins a definition covers by itself never
get this far.

**LiveSessions.** Calls connect (dial, register, close the session
they replaced, store the response), send (look up, lock, exchange, drop on
failure) and disconnect, all overlapping; each session has a keep-alive. The
session mutex is held across an exchange.

**PatchQueue.** Edits are numbered; a patch maps a field to the edit it
carries. `chain` is the promise chain, oldest flush first; the backend answers
the oldest (`Serve`), and the front end applies the result and what is queued
on top (`Return`) or recovers the patch (`Fail`, also when the backend had
already applied it). `Drain` is what a send or save awaits. What is on its way
is one sequence, the chain and then the queued patch (`OnItsWay`), and the
properties say of each field how its edits stand in it.

**Recovery.** A *world* is what a snapshot keeps: the request files, the
collection and tabs in memory, and the managed line of `.gitignore`. An
operation holds `a.mu` from start to end, so one runs at a time; `op.pc` walks
through its writes in the code's order (list, files, ignore, save, commit,
mark, or the rollback), each of which may fail, and the process may die
between any two (`Crash` loads what is on disk). A restore compares
(`NoConflict`), clears the tree, copies, puts the state back, saves, and gives
up its entry last. What had no file when the deletion began, a draft that the
deletion's numbering then wrote, goes back to memory alone. `owed` is what the
user saved and nothing has given up: a request leaves it when the last listed
entry that holds it is discarded or purged while its file is not there, when a
rollback fails to put its file back and no other entry holds it (`GiveUp`), or
when a restore takes away a file that no entry holds and memory has the same
(`RestoreTree`). No restore that fails and no crash takes anything off it. A
request that is created at a deleted one's place counts with that one. A write
always brings the file up to date here; the writer's record of what it wrote
is CollectionTree's. Left out: the
encryption of payloads, the containment of paths, the migration of the legacy
layout; closed tabs count like open tabs; the numbers of siblings follow from
the set that is present.

**CollectionTree.** Every handler holds `a.mu` and is one step, with its
numbering of siblings, its write and its pruning of tabs. A path is a
directory and a name; a request's id is the path it was created or read at.
A list of requests shrinks by `Without`, which keeps the order of what is left.
`wrote` is `collectionFileFingerprints`, the writer's gate, and `watch` says
whether the watch fingerprint agrees with the directory. Other programs edit
the directory (`External`), one write may fail and leave the rest unwritten
(`WriteFails`), the window may restart. The close prompt is taken apart
(`BeforeClose`, then an answer), because the dialog holds no lock. Left out:
folder metadata and empty folders, collection settings, environments and
their files, scratch collections, response-example tabs, panes, the order of
tabs, the limit of 50 closed tabs, the read cache, git remotes.

**SendCommit.** A send copies the definitions and, if it stores cookies, the
jar at its head (`Begin`), changes the copies (`Script`), and merges them at
its tail. The user's tail writes dirty scopes whole and merges the jar; an
agent's tail puts its changes into the overlay of its execution, which the
head of its next step lays over what it reads. In between the user edits
cookies, variables and environments, and the workspace or collection may be
gone (`Abandon`). The list `collection` stands for the collection's variables,
its runtime variables and the selected environment, which a tail writes alike.
Left out: disabled variables, precedence between scopes, folder, request and
prompt variables, the order of environments, domains and expiry of cookies.

**CollectionRun.** A run registers (up to the unlock), cancels the run it
replaced, plans its iterations and goes from request to request. A request is
two steps, its sending and its answer, and its script may stop the run, end
the iteration or name the next request. The run then leaves the registry,
completes its rows and stores them, three steps between which a newer run and
a cancel may come. A row keeps its request, its iteration and its status;
"passed", "skipped" and a failure that does not end the run are one status.
The delays between requests, the parsing of data files and the lookup index
are left out: the index only remembers positions, each of which is verified
before it is used.

## 4. Runs

| Run | Instance | Shows |
|---|---|---|
| `persist_writer` | one blur flush, one shutdown, 3 mutations, failure streaks of 3 | no accepted mutation forgotten, silence after the stop, a shutdown's flush is durable; implements WriteBehind; saves and stops in the end |
| `request_lifecycle` | 2 executions, 2 cancels, 2 requests | truthful outcomes, an exact registry, no transport after an acknowledged cancel; a cancel takes effect |
| `workspace_lease` | 2 windows, 2 workspaces (one registered), 2 edits, 1 lapse | open windows own their workspace unless suspended; at most one late write; saved edits stay; the registry grows and is loadable; persists end |
| `shared_state` | 2 windows, 2 entries, 3 values | implements SharedEntries, in which no live window forgets an edit; replaced values stay replaced |
| `mcp_approvals` | 1 run that asks again and again, 2 keys, 2 prompts, 1 restart | nothing goes where nobody said yes; stored before released; no approval destroyed |
| `live_sessions` | 2 calls, 2 connections, 2 events | no lost socket, closed is final, keep-alives end |
| `patch_queue` | 2 requests, 2 fields, 3 edits, 1 failure | an edit arrives, is replaced or is reported, also for a send that drained |
| `recovery` | 2 requests, one in the folder, 2 entries, 2 versions, 2 faults | what was saved is on disk or in a snapshot; a restorable entry is complete; a restore is durable before it gives up its entry, keeps it when it fails, and puts no older file over a newer one |
| `collection_tree` | 3 paths in 2 directories, 1 request to begin with, 2 texts, 3 edits, 1 failed write | unsaved edits kept; files kept apart; no stranded tabs; a quit settles what the prompt listed |
| `collection_saved` | the same | *violated*: a rename and a rename back leave the file with the content of the name in between |
| `send_commit` | 1 send of the user, 2 steps of an agent, 1 name, 1 cookie, 2 values, 2 global environments, 1 edit | steps read what earlier steps set; a tail leaves other cookies alone; an agent leaves no trace |
| `collection_run` | 2 runs, one of up to 2 iterations of 2 requests, one of 1 request, 1 redirection per iteration, 2 cancels | an accepted cancel is shown, and only a real one; every request has its turn, unrun are just those after the failure, a script's loop is cut off and nothing else is |

Bounds and why they are enough. Every race here is between two actors of a
kind (two sends, two windows, two calls) or between one and a third of another
kind; the instances have them. Three mutations give an old write, a newer
mutation and one that races the stop; three values are what it takes for a
replaced one to come back; three edits give one on the wire, one chained and
one queued, two requests and two fields every way they can collide. Two
entries let a second deletion meet the first one's snapshot, and two faults a
failed write and the failure of its rollback; with three versions `recovery`
passes too. Three paths in two directories give a name that is taken, one that
is free and another folder to move to. One edit in `send_commit` falls between
any two steps of a send and of an execution; with one value it also passes
with two changes per send and two edits. Two iterations in `collection_run`
are what it takes for redirections of the first to be counted in the second,
one redirection per iteration lets one be followed and the next be refused,
and two requests give one that fails and one that is left. The executions,
windows, runs and calls are not bounded in the proofs, so that the safety
results do not depend on these numbers: that one run's grant does not serve
another, or that three sends of a request supersede each other rightly, is
proved and not run; neither are the senders of SendCommit, the requests and
entries of Recovery, the edits, requests and fields of PatchQueue, and the
runs, requests and limits of CollectionRun. A proof that did not go through
showed what a bound hid: with four entries and three versions, too many for
`recovery`, a draft that a deletion's numbering has written is deleted again
and then restored to memory alone, so `NothingVanishes` and
`NoNewerFileOverwritten` now say what such a restore gives up and what it puts
back. In CollectionTree, with its three paths, a model that gave every
duplicate of a path the same new one passed; with more paths two requests
would have shared a file, which the proof of `WritesKeepApart` could not have
got past (`EnsureRequestFilePaths` now goes from request to request, as the
code does). `WritesKeepApart` also says now that a failed save of the prompt
puts a request back under its old path, and `QuitSettlesListed` that two
requests may have one id, by a folder's rename and a new request under the old
name. `workspace_lease` passes with two lapses too, which takes several times
as long.

Deadlock is checked in `request_lifecycle`, `live_sessions`, `shared_state`
and `patch_queue`. The other runs do stop: a stopped App, windows that have
all ended and are not relaunched, prompts, edits and entries used up.

Fairness, and what in the code justifies it:

- PersistWriter: a goroutine that can run does; flushes and a stop that began
  go on. Mutations, blurs and the decision to quit are the user's. That a
  writer gets `a.mu` in the end is what Go's mutex does: a waiter that has
  starved for a millisecond is handed the lock.
- RequestLifecycle: an execution's steps go on, which includes that the
  transport returns (it has the context and its timeouts) and that scripts do.
- WorkspaceLease: strong fairness for the guard, because the file lock is
  polled and served in no order, but a window that polls is not passed over
  for ever; weak fairness for a persist that has begun. Nothing forces anyone
  to persist.
- LiveSessions: only the keep-alive's own loop. An exchange may hang, and then
  so does everything that waits for its session.
- PatchQueue: timers fire, the backend answers, promises settle. No fairness on
  drains, failures or the user.
- SharedAppState, McpApprovals, Recovery, CollectionTree, SendCommit,
  CollectionRun: none.
  They are about what a step may not do.

## 5. Proofs

TLAPS proves these for every value of the constants (`PROJECT.json`
"theorems"), from the assumptions named in the modules: numbers are naturals,
`None` is none of the actors, the sets of callers do not overlap. Each `...Proofs`
module defines an inductive invariant (`IInv`, `FrontIInv`, `RunIInv`), proves that it
holds initially and is kept by every action, and reads the theorems off it.
Three modules hold the proofs of two components each: the front end's queue is
proved beside the writer that its edits end up in, the runner beside the sends
it makes, the collection beside the lifecycle of its requests. For this the
names of PatchQueue, CollectionRun and CollectionTree differ from theirs
(`FrontSpec`, `RunSpec`, `TreeSpec`).

| Module | Theorems | What the invariant adds, and why |
|---|---|---|
| `PersistWriterProofs` | types, `NothingForgotten`, `SingleWriter`, `NoWriteAfterStop`, `ShutdownFlushIsDurable`, `DiskAdvances`, implementation of `WriteBehind` | which generations may be alive and whose channels the App holds; who is inside `a.mu`; that a serialised copy is memory as it still is, because `a.mu` is held; that a closer flushes only after its stop |
| the same, of PatchQueue | types, `LostIsReported`, `DrainedHasArrived` | every field of every request is followed through all that is on its way: its edits stand in the order they were typed in, above what the backend has, and end with the last one, unless the user was told; what a drain waits for is among the flushes it still awaits |
| `RequestLifecycleProofs` | types, `AckedCancelWins`, `RegistryExact`, `CancelledHasCause`, `NoTransportAfterCancel` | an entry is marked only while registered; a context is cancelled only for a cause; what each location has already done |
| the same, of CollectionTree | `DraftsKept`, `NoNewOrphans`, `WritesKeepApart`, `QuitSettlesListed` | little (`Shaped`): requests are a list of records, tabs a record, the listed drafts a list. The rest is one lemma per handler (`Careful`): where each request goes (`Kept`, `Same`, `Carried`), which ids are left for the tabs, that `EnsureRequestFilePaths` parts the paths and the record then says what each request says |
| `WorkspaceLeaseProofs` | types, `OpenOwns`, `AtMostOneOverrun`, `RegisteredHasState`, `RegistryGrows`, `NothingSavedIsLost` | a stale record's owner has lapsed; who is behind the guard; a window that overran stops at its next check; an owner's memory contains what is on disk |
| `SharedAppStateProofs` | types, `SettledSeesDisk`, `PublishesOwnEdits`, `ReplacedStaysReplaced` | what is merged is the merge with the disk as it still is, because the guard is held; for the last, values are used once and a pending value is private |
| `McpApprovalsProofs` | types, `OnlyOnAYes`, `RememberedBeforeReleased`, `NothingDestroyed`, `OverIsUnlisted` | which run waits for which prompt; that store, grants, verdicts and the channel hold only what the user said |
| `LiveSessionsProofs` | types, `NoLeakedConnection`, `ClosedIsFinal` | only dialled sessions have sockets; a session's close and its socket's; who holds a mutex exchanges; a call about to drop a session has closed it |
| `RecoveryProofs` | types, `NothingVanishes`, `NoNewerFileOverwritten`, `RestorableIsComplete`, `RestoredIsDurable` | while files may be missing every request owed is in the payload of an entry that the manifest names, and before an entry may go none needs it; the files a deletion leaves are those of its snapshot or of its memory; an entry holds at most one snapshot; every place of an operation has an entry, whose manifest status and snapshot follow from the place; a restore that is past its state has put back what the snapshot says |
| `SendCommitProofs` | types, `AgentsAreInvisible`, `SaidIsRead`, `CommitTouchesOwn` | what an execution said is held by its overlay, or carried by the send that goes on; for the refinement, that agents never send as users |
| the same, of CollectionRun | types, `CancelIsShown`, `EachItsTurn` | in the loops, every earlier iteration has had all its turns, this one those before index, and the rows fit in the redirections used up; past them, each iteration tells what became of it; a run that was marked is told so when it leaves the map |

Only model-checked: every liveness property (TLAPS has no `ENABLED`, so no
fairness) and the violation.

`AgentsAreInvisible` is a refinement of SendCommit by itself: `Ui ==
INSTANCE SendCommit WITH Agents <- {}` on the same state, with the sends of
the users only. A step of a user is that step there, and every step of an
agent is a stutter: whatever agents run, the state is one that the user's own
sends and edits can produce.

Type correctness is a theorem of each of these components, and so are
`SingleWriter` and `SettledSeesDisk`; no run spends a property on them.

## 6. Disagreements between the code and what is said of it

A run finds it (`PROJECT.json` "findings").

- **The skipped write** (`app_collection_io.go:57`). The record of what was
  written at a path outlives the file: after a rename and a rename back it
  equals the bytes to write, the write is skipped, and the file keeps the name
  in between, while the request in memory is no draft.

## 7. Observations

Behaviour met while modelling that no run is spent on. Some are stated as
formulas, kept in the modules although the code does not satisfy them: adding
the formula to the `.cfg` of its module makes TLC show how.

- `FlushIsDurable` (PersistWriter, invariant). `flushPersist` is "the data must
  be on disk now" (`app_persist.go:506`), and it returns nil when the writer
  has cleared the flag but not begun to write (`:528`).
- `NewestResponseShown` (RequestLifecycle, invariant). A newer send supersedes
  the older one in the registry (`request_lifecycle.go:52`), not in what the
  request shows: the older tail may store its response last
  (`app_send.go:341`).
- `UnreadFileIsKept` (McpApprovals, invariant). The store counts as loaded
  before it is read (`mcp_approvals.go:664`): a read error is returned once,
  and the next approval that is remembered is written over the file that could
  not be read. `mcp_approvals.go:655` says such an error "IS RETURNED, not
  swallowed", because "the store's contents are unknown".
- `NewestRunShown` (CollectionRun, invariant). A run that a newer one of the
  same collection superseded stores its results when it ends
  (`app_runner.go:282`), which may be after the newer one did. The front end
  starts no second run while one is active, and forgets that when it reloads.
- `ResultNeverRewinds` (PatchQueue, invariant). Only the queued patch is put
  back over a result (`App.svelte:5718`); a flush that is already chained is
  not, so the input shows the old text until that one returns, and a key typed
  meanwhile edits the old text. `patchQueue.ts:115` says the re-applied patch
  undoes the rewind.
- `RestoreRefusesNewerDraft` (Recovery, action property).
  `recoveryCollectionSemanticEqual` compares the draft flag of a request and
  not its draft, so an older draft is put back over one edited after the
  deletion. `collection_recovery_test.go:172` demands the opposite of a
  request that became a draft after it, and `recovery_types.go:38` says such a
  restore is refused.
- `EditLeftAlone` (CollectionTree, action property). Until this process has
  written a file, a save of any other request overwrites what another program
  put into it, which a draft keeps the watch from reading.
  `app_collection_io.go:34` says such a file "is left alone".
- `DraftsSurviveRestart` (CollectionTree, action property). A window persists
  a reference to its workspace and reads the files again when it starts, so
  unsaved edits are gone after a crash. `app_lookup.go:297` says a draft "must
  survive a crash/restart until the user resolves it".
- `DeletedStaysDeleted` (SendCommit, invariant). A variable that a step of an
  agent's execution deletes is there again for the next step, because the
  overlay holds the names that are left. `run_overlay_test.go:6` calls overlay
  and persisted path an "EQUIVALENCE".
- Live sessions: a push says its request and not its session. On a reconnect
  `replaceWebSocketSession` closes the old session after the front end dropped
  its log, so the old session's "reconnected" event can arrive with the index
  the new session's next event has; that one is ignored as a duplicate, and the
  log still counts as contiguous, which `liveSessionEvents.ts:17` calls
  authoritative.
- Persistence: a flush that fails after the writer has left leaves the state
  dirty and nobody to retry before the next mutation, although
  `app_persist.go:377` speaks of a next cycle; `EventuallySaved` excludes it.
- Windows: a process that was suspended past its lease writes over its
  successor's state once (`AtMostOneOverrun` says once).
- Approvals: an old file whose rename fails is overwritten by the next write.
  When the write of an approval fails it stays in memory, and the same choice
  made again is reported as remembered without being written. An answer
  between the timeout and the deferred delete is reported as a success for a
  run that was denied.
- Live sessions: overlapping calls store their responses in any order, so a
  request may show a session that is closed; a failed ping closes the session
  without updating what is shown; deleting a request leaves its session open
  until shutdown; a connect in flight during shutdown registers after the
  sweep. A gRPC stream's "start" event is not pushed, so its log never counts as
  contiguous.
- Edits: a failed flush with a newer one already chained is put back in the
  queue on its own and later overwrites the newer value; a failed patch of
  another request than the queued one is reported and dropped, although the
  report says it is still queued. `LostIsReported` excludes both: the user was
  told of the field. Actions of `App.svelte` that assign the whole state, and
  the refetch on a revision gap, rewind the view of pending edits too.
- Recovery: `collection_recovery.go` says that leaving a stale entry is safe
  because a second restore conflicts, which holds for a removal and not for a
  tree. A restore that fails while it replaces the tree returns without a
  rollback and leaves a partial tree, which conflicts from then on. A rollback
  erases the entry even when putting the files back failed. A crash before the
  entry is marked leaves a staged entry that is never listed. Renumbering
  siblings writes the drafts of other requests to their files; one that is
  edited and saved after that is overwritten by a restore.
- Recovery and the writer's record: a restore replaces the files without
  touching `collectionFileFingerprints`. With a draft `p`, a deletion that
  numbers later siblings anew writes what `p` has in memory and remembers it;
  the restore puts the older file of `p` back and leaves the draft. A save of
  `p` then finds its bytes remembered and a file there
  (`app_collection_io.go:57`), so it writes nothing and clears the draft flag:
  the edit is in memory alone.
- Collections: a save seeds the watch fingerprint over an edit by another
  program it has not read, which is then never loaded. A write that fails in a
  rename, a clone or a renumbering leaves requests that are no drafts
  unwritten. Saving one request writes the unsaved edits of every other of its
  collection to their files, although they stay drafts. A discard matches by path or
  by id, and may hit two requests. A draft made while the close prompt is open,
  or one that shares its id with another, is quit past; a listed draft that is
  gone by then fails the validation and keeps the window open. Opening a
  collection that is open, and a watch refresh after a rename, change ids and
  strand tabs. `uniqueRequestFilePath` does not look at the disk.
- Sends: a tail writes each dirty scope whole, so an edit of another variable
  made meanwhile is undone; the overlay does the same to what an agent's next
  step reads, although its comment calls re-applying a whole scope idempotent.
  A cookie or variable that the user changes while a send runs is put back by
  it if the send carried it; of two overlapping sends, the later tail erases
  what the earlier one wrote in the same scope. A global environment activated
  during a send receives the scope read from the one before; with none active,
  a script's global writes vanish, but stay in an agent's overlay.
- Environment secrets (not modelled): `writeEnvironmentSecretsLocked` skips
  the write when the bytes equal the last ones this window wrote, and the store
  is read, changed and written outside the shared guard: one window can undo
  another's newer entry, whose next save may then be skipped, and a file that
  was deleted is not written again.
- The embedded MCP server starts only where `workspaceRuntime` is nil
  (`mcp_control.go:48`), and the production constructor always sets it
  (`workspace_window_runtime.go:241`).

## 8. What is not modelled

Conversions of data (parsers, importers, exporters, code generation,
authentication signatures, interpolation), pure I/O (terminal, git, local
servers). The disk is reliable up to the failures the code handles: an atomic
write fails or replaces the file whole, which is what `atomicfile` does. The
planned modules of section 2 are not there yet; the parts they would cover
are listed in `PROJECT.json` with what is left out of each.

## Running it

    tlc -config PersistWriter.cfg MCPersistWriter
    tlapm PersistWriterProofs.tla

and likewise for the runs and proof modules that `PROJECT.json` names.
