--------------------------- MODULE WorkspaceLease ---------------------------
(***************************************************************************)
(* The workspace windows of one data directory.  Every window is a process *)
(* of its own that opens one workspace: it acquires the workspace's lock   *)
(* record (workspacestate/windowlock.go), loads the workspace-scoped state *)
(* and from then on renews the record every ten seconds, at every binding  *)
(* call and before every write.  A record whose process is dead, or whose  *)
(* heartbeat is older than 30 seconds, may be replaced by anybody.         *)
(*                                                                         *)
(* Persisting (core/workspace_window_runtime.go) checks the ownership      *)
(* first and then takes the guard all windows share, behind which it       *)
(* rewrites the workspace registry and its own scoped state.  The guard is *)
(* a lock of the operating system: a crash frees it.  Creating a workspace *)
(* goes through the same guard.                                            *)
(*                                                                         *)
(* The scoped state is modelled by the set of edits it reflects.  What is  *)
(* persisted for all windows together is the module SharedAppState.        *)
(***************************************************************************)
EXTENDS Naturals

CONSTANTS
    Windows,     \* window processes; a relaunched window is another one
    Workspaces,
    Known,       \* the workspaces registered at the beginning
    Edits,       \* edits of a workspace
    None,        \* no window, no workspace
    MaxLapses    \* bound: heartbeats that go stale although the process lives

ASSUME LeaseAssumption ==
    /\ None \notin Windows \cup Workspaces
    /\ Known \subseteq Workspaces
    /\ MaxLapses \in Nat

VARIABLES
    lock,      \* the owner in each workspace's lock record, or None
    stale,     \* workspaces whose heartbeat is older than StaleAfter
    guard,     \* the holder of workspace-shared-state.guard, or None
    pc,        \* where each window is
    target,    \* the workspace it opens
    job,       \* the workspace whose state it is writing
    mem,       \* the edits its memory reflects
    dirty,     \* windows with edits not yet persisted
    erred,     \* windows whose last persist failed
    regcopy,   \* the registry it has read
    registry,  \* workspaces in the registry file
    stateful,  \* workspaces that have a scoped state file
    scoped,    \* the edits each scoped state file reflects
    made,      \* history: edits made
    lapsed,    \* history: windows whose heartbeat has lapsed
    lapses,    \* history: how many lapses there were
    overruns   \* history: scoped writes of each window that was no owner

vars == <<lock, stale, guard, pc, target, job, mem, dirty, erred, regcopy,
          registry, stateful, scoped, made, lapsed, lapses, overruns>>

lapseVars == <<lapsed, lapses>>
callVars == <<job, regcopy>>
leaseVars == <<lock, stale, lapsed, lapses>>
diskVars == <<registry, stateful, scoped, overruns>>
editVars == <<mem, dirty, erred, made>>

(* running: between persists; checked: ownership confirmed; guarded: holds *)
(* the guard and has read the registry; registered: registry rewritten;    *)
(* written: scoped state written; founded: the new workspace has a state.  *)
Guarded == {"guarded", "registered", "written", "founded"}
Open == Guarded \cup {"acquired", "running", "checked"}
Locations == Open \cup {"off", "launched", "ended", "crashed"}

TypeOK ==
    /\ lock \in [Workspaces -> Windows \cup {None}]
    /\ stale \subseteq Workspaces
    /\ guard \in Windows \cup {None}
    /\ pc \in [Windows -> Locations]
    /\ target \in [Windows -> Workspaces \cup {None}]
    /\ job \in [Windows -> Workspaces \cup {None}]
    /\ mem \in [Windows -> SUBSET Edits]
    /\ dirty \subseteq Windows
    /\ erred \subseteq Windows
    /\ regcopy \in [Windows -> SUBSET Workspaces]
    /\ registry \subseteq Workspaces
    /\ stateful \subseteq Workspaces
    /\ scoped \in [Workspaces -> SUBSET Edits]
    /\ made \subseteq Edits
    /\ lapsed \subseteq Windows
    /\ lapses \in 0..MaxLapses
    /\ overruns \in [Windows -> Nat]

Init ==
    /\ lock = [k \in Workspaces |-> None]
    /\ stale = {}
    /\ guard = None
    /\ pc = [w \in Windows |-> "off"]
    /\ target = [w \in Windows |-> None]
    /\ job = [w \in Windows |-> None]
    /\ mem = [w \in Windows |-> {}]
    /\ dirty = {}
    /\ erred = {}
    /\ regcopy = [w \in Windows |-> {}]
    /\ registry = Known
    /\ stateful = Known
    /\ scoped = [k \in Workspaces |-> {}]
    /\ made = {}
    /\ lapsed = {}
    /\ lapses = 0
    /\ overruns = [w \in Windows |-> 0]

-----------------------------------------------------------------------------

Owns(w) == target[w] # None /\ lock[target[w]] = w

(* The processes that are alive (signal 0 reaches them).                   *)
Alive == {w \in Windows : pc[w] \in Open}

(* No record, a dead process's record, or one with too old a heartbeat.    *)
Replaceable(k) == lock[k] \notin Alive \/ k \in stale

(* A window is started for a registered workspace: by the user, or by the  *)
(* binding of another window, which looks whether the workspace is         *)
(* available but reserves nothing.                                         *)
Launch(w, k) ==
    /\ pc[w] = "off" /\ k \in registry
    /\ pc' = [pc EXCEPT ![w] = "launched"]
    /\ target' = [target EXCEPT ![w] = k]
    /\ UNCHANGED <<leaseVars, diskVars, editVars, guard, callVars>>

OpenInNewWindow(v, w, k) ==
    /\ pc[v] = "running" /\ k # target[v] /\ Replaceable(k)
    /\ Launch(w, k)

(* Acquire, under the record's own guard file: one atomic step.            *)
Acquire(w) ==
    /\ pc[w] = "launched"
    /\ Replaceable(target[w])
    /\ lock' = [lock EXCEPT ![target[w]] = w]
    /\ stale' = stale \ {target[w]}
    /\ pc' = [pc EXCEPT ![w] = "acquired"]
    /\ UNCHANGED <<lapseVars, diskVars, editVars, guard, target, callVars>>

AcquireRefused(w) ==
    /\ pc[w] = "launched"
    /\ ~Replaceable(target[w])
    /\ pc' = [pc EXCEPT ![w] = "ended"]
    /\ UNCHANGED <<leaseVars, diskVars, editVars, guard, target, callVars>>

(* Fault: the release does not compare the record with the owner.          *)
ReleasedUnchecked(w) == [lock EXCEPT ![target[w]] = None]

(* The lock record after Release: removed only by the owner it names.      *)
Released(w) == IF Owns(w) THEN [lock EXCEPT ![target[w]] = None] ELSE lock

(* Fault: a window whose scoped state is damaged opens with an empty one.  *)
LoadEmpty(w) ==
    /\ pc[w] = "acquired"
    /\ mem' = [mem EXCEPT ![w] = {}]
    /\ pc' = [pc EXCEPT ![w] = "running"]
    /\ UNCHANGED <<leaseVars, diskVars, dirty, erred, made, guard, target,
                   callVars>>

(* The scoped state is read after the lock was acquired.                   *)
Load(w) ==
    /\ pc[w] = "acquired"
    /\ mem' = [mem EXCEPT ![w] = scoped[target[w]]]
    /\ pc' = [pc EXCEPT ![w] = "running"]
    /\ UNCHANGED <<leaseVars, diskVars, dirty, erred, made, guard, target,
                   callVars>>

LoadFails(w) ==
    /\ pc[w] = "acquired"
    /\ lock' = Released(w)
    /\ pc' = [pc EXCEPT ![w] = "ended"]
    /\ UNCHANGED <<stale, lapseVars, diskVars, editVars, guard, target,
                   callVars>>

(* The ten-second ticker; losing the lock is not noticed here.             *)
Tick(w) ==
    /\ pc[w] \in Open \ {"acquired"}
    /\ Owns(w)
    /\ stale' = stale \ {target[w]}
    /\ UNCHANGED <<lock, lapseVars, diskVars, editVars, guard, pc, target,
                   callVars>>

(* A heartbeat goes stale while its process lives: the machine sleeps, or  *)
(* the process is stopped, for more than 30 seconds.                       *)
Lapse(k) ==
    /\ lapses < MaxLapses
    /\ lock[k] # None /\ k \notin stale
    /\ stale' = stale \cup {k}
    /\ lapsed' = lapsed \cup {lock[k]}
    /\ lapses' = lapses + 1
    /\ UNCHANGED <<lock, diskVars, editVars, guard, pc, target, callVars>>

(* A binding that edits, the workspace's own state or only what all windows*)
(* share: ensureReadyLocked renews the lease or refuses.                   *)
Edit(w, e) ==
    /\ pc[w] = "running" /\ Owns(w)
    /\ \/ /\ e \notin made
          /\ mem' = [mem EXCEPT ![w] = @ \cup {e}]
          /\ made' = made \cup {e}
       \/ UNCHANGED <<mem, made>>
    /\ dirty' = dirty \cup {w}
    /\ stale' = stale \ {target[w]}
    /\ UNCHANGED <<erred, lock, lapseVars, diskVars, guard, pc, target,
                   callVars>>

-----------------------------------------------------------------------------

(* Fault: the persist does not renew the lease before it starts.           *)
CheckOwnershipSkipped(w, k) ==
    /\ pc[w] = "running"
    /\ k = target[w] => w \in dirty
    /\ job' = [job EXCEPT ![w] = k]
    /\ pc' = [pc EXCEPT ![w] = "checked"]
    /\ UNCHANGED <<leaseVars, diskVars, editVars, guard, target, regcopy>>

(* The ownership check at the head of a persist (k is the window's own     *)
(* workspace) and of CreateWorkspace (k is another one).                   *)
CheckOwnership(w, k) ==
    /\ pc[w] = "running"
    /\ k = target[w] => w \in dirty
    /\ Owns(w)
    /\ stale' = stale \ {target[w]}
    /\ job' = [job EXCEPT ![w] = k]
    /\ pc' = [pc EXCEPT ![w] = "checked"]
    /\ UNCHANGED <<lock, lapseVars, diskVars, editVars, guard, target,
                   regcopy>>

(* "workspace ownership was lost"                                          *)
OwnershipLost(w) ==
    /\ pc[w] = "running" /\ ~Owns(w) /\ w \in dirty \ erred
    /\ erred' = erred \cup {w}
    /\ UNCHANGED <<leaseVars, diskVars, mem, dirty, made, guard, pc, target,
                   callVars>>

(* Back from behind the guard; the locals of the call are gone.            *)
LeaveGuard(w) ==
    /\ guard' = None
    /\ job' = [job EXCEPT ![w] = None]
    /\ regcopy' = [regcopy EXCEPT ![w] = {}]
    /\ pc' = [pc EXCEPT ![w] = "running"]

(* Fault: the registry is read without the guard.                          *)
TakeGuardUnheld(w) ==
    /\ pc[w] = "checked"
    /\ guard' = w
    /\ regcopy' = [regcopy EXCEPT ![w] = registry]
    /\ pc' = [pc EXCEPT ![w] = "guarded"]
    /\ UNCHANGED <<leaseVars, diskVars, editVars, target, job>>

(* The guard is free, and the registry is read behind it.                  *)
TakeGuard(w) ==
    /\ pc[w] = "checked" /\ guard = None
    /\ guard' = w
    /\ regcopy' = [regcopy EXCEPT ![w] = registry]
    /\ pc' = [pc EXCEPT ![w] = "guarded"]
    /\ UNCHANGED <<leaseVars, diskVars, editVars, target, job>>

(* A persist writes the registry it read, its own entry added or renewed.  *)
WriteRegistry(w) ==
    /\ pc[w] = "guarded" /\ job[w] = target[w]
    /\ registry' = regcopy[w] \cup {job[w]}
    /\ pc' = [pc EXCEPT ![w] = "registered"]
    /\ UNCHANGED <<leaseVars, editVars, stateful, scoped, overruns, guard,
                   target, callVars>>

(* The scoped state; nobody asks again whether the window is the owner.    *)
WriteScoped(w) ==
    /\ pc[w] = "registered"
    /\ scoped' = [scoped EXCEPT ![job[w]] = mem[w]]
    /\ stateful' = stateful \cup {job[w]}
    /\ overruns' = [overruns EXCEPT ![w] = IF Owns(w) THEN @ ELSE @ + 1]
    /\ pc' = [pc EXCEPT ![w] = "written"]
    /\ UNCHANGED <<leaseVars, editVars, registry, guard, target, callVars>>

(* The rest of the persist succeeds and the guard is given back.           *)
FinishPersist(w) ==
    /\ pc[w] = "written"
    /\ dirty' = dirty \ {w}
    /\ erred' = erred \ {w}
    /\ LeaveGuard(w)
    /\ UNCHANGED <<leaseVars, diskVars, mem, made, target>>

(* Fault: the new workspace is registered before it has a state.           *)
WriteNewStateLater(w) ==
    /\ pc[w] = "guarded" /\ job[w] # target[w]
    /\ job[w] \notin regcopy[w] \cup stateful
    /\ registry' = regcopy[w] \cup {job[w]}
    /\ pc' = [pc EXCEPT ![w] = "founded"]
    /\ UNCHANGED <<leaseVars, editVars, stateful, scoped, overruns, guard,
                   target, callVars>>

(* A new workspace gets its state first and its registry entry second.     *)
WriteNewState(w) ==
    /\ pc[w] = "guarded" /\ job[w] # target[w]
    /\ job[w] \notin regcopy[w] \cup stateful
    /\ stateful' = stateful \cup {job[w]}
    /\ pc' = [pc EXCEPT ![w] = "founded"]
    /\ UNCHANGED <<leaseVars, editVars, registry, scoped, overruns, guard,
                   target, callVars>>

RegisterNew(w) ==
    /\ pc[w] = "founded"
    /\ registry' = regcopy[w] \cup {job[w]}
    /\ LeaveGuard(w)
    /\ UNCHANGED <<leaseVars, editVars, stateful, scoped, overruns, target>>

(* Fault: the error path returns without releasing the guard.              *)
FailHolding(w) ==
    /\ pc[w] \in Guarded
    /\ stateful' = IF pc[w] = "founded" THEN stateful \ {job[w]} ELSE stateful
    /\ erred' = IF job[w] = target[w] THEN erred \cup {w} ELSE erred
    /\ job' = [job EXCEPT ![w] = None]
    /\ regcopy' = [regcopy EXCEPT ![w] = {}]
    /\ pc' = [pc EXCEPT ![w] = "running"]
    /\ UNCHANGED <<leaseVars, mem, dirty, made, registry, scoped, overruns,
                   guard, target>>

(* Any step behind the guard may fail.  A persist stays dirty; a creation  *)
(* removes the state it wrote, or finds the path taken.                    *)
Fail(w) ==
    /\ pc[w] \in Guarded
    /\ stateful' = IF pc[w] = "founded" THEN stateful \ {job[w]} ELSE stateful
    /\ erred' = IF job[w] = target[w] THEN erred \cup {w} ELSE erred
    /\ LeaveGuard(w)
    /\ UNCHANGED <<leaseVars, mem, dirty, made, registry, scoped, overruns,
                   target>>

(* shutdown() flushes, logs the error if that fails, and releases.         *)
Close(w) ==
    /\ pc[w] = "running"
    /\ w \in dirty => w \in erred
    /\ lock' = Released(w)
    /\ pc' = [pc EXCEPT ![w] = "ended"]
    /\ UNCHANGED <<stale, lapseVars, diskVars, editVars, guard, target,
                   callVars>>

(* The process dies; the operating system frees the guard.                 *)
Crash(w) ==
    /\ pc[w] \in Open
    /\ guard' = IF guard = w THEN None ELSE guard
    /\ pc' = [pc EXCEPT ![w] = "crashed"]
    /\ job' = [job EXCEPT ![w] = None]
    /\ regcopy' = [regcopy EXCEPT ![w] = {}]
    /\ UNCHANGED <<leaseVars, diskVars, editVars, target>>

-----------------------------------------------------------------------------

Persist(w) ==
    \/ \E k \in Workspaces : CheckOwnership(w, k)
    \/ OwnershipLost(w) \/ TakeGuard(w) \/ WriteRegistry(w) \/ WriteScoped(w)
    \/ FinishPersist(w) \/ WriteNewState(w) \/ RegisterNew(w) \/ Fail(w)

Next ==
    \/ \E w \in Windows :
        \/ \E k \in Workspaces : Launch(w, k)
        \/ \E v \in Windows, k \in Workspaces : OpenInNewWindow(v, w, k)
        \/ Acquire(w) \/ AcquireRefused(w) \/ Load(w) \/ LoadFails(w)
        \/ Tick(w) \/ Persist(w) \/ Close(w) \/ Crash(w)
        \/ \E e \in Edits : Edit(w, e)
    \/ \E k \in Workspaces : Lapse(k)

Spec == Init /\ [][Next]_vars

(* Locks of the operating system are granted sooner or later to a process  *)
(* that waits, though in no order; a step that has begun goes on.  Nothing *)
(* forces a window to be opened, edited, persisted or closed.              *)
Fairness ==
    \A w \in Windows :
        /\ SF_vars(TakeGuard(w))
        /\ WF_vars(WriteRegistry(w) \/ WriteScoped(w) \/ FinishPersist(w)
                     \/ WriteNewState(w) \/ RegisterNew(w) \/ Fail(w))

FairSpec == Spec /\ Fairness

-----------------------------------------------------------------------------

(* A window that is open is the owner of its workspace, unless its own     *)
(* heartbeat has lapsed: no other window acquires the lock, and none that  *)
(* lost it removes its successor's record on the way out.                  *)
OpenOwns ==
    \A w \in Windows :
        pc[w] \in Open => Owns(w) \/ w \in lapsed

(* A window that lost its workspace writes its state at most once more:    *)
(* only the persist that had passed the ownership check when the lock was  *)
(* taken away can still land.                                              *)
AtMostOneOverrun == \A w \in Windows : overruns[w] <= 1

(* As long as every scoped write was made by the owner, a write of a       *)
(* workspace's state, whichever process made the earlier ones and however  *)
(* many crashed between, undoes none of the edits on disk.                 *)
NothingSavedIsLost ==
    [][(\A w \in Windows : overruns'[w] = 0)
         => \A k \in Workspaces : scoped[k] \subseteq scoped'[k]]_vars

(* The registry only ever grows, although every window rewrites it from a  *)
(* copy it read.                                                           *)
RegistryGrows == [][registry \subseteq registry']_vars

(* Whatever crashes, fails or overlaps, a registered workspace has a state *)
(* to load: a window, and every later persist's uniqueness check, reads it.*)
RegisteredHasState == registry \subseteq stateful

(* Every persist ends: no failure keeps the guard, and the waiting windows *)
(* are served.                                                             *)
PersistEnds ==
    \A w \in Windows :
        pc[w] \in Guarded \cup {"checked"}
            ~> pc[w] \notin Guarded \cup {"checked"}
=============================================================================
