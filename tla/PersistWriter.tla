---------------------------- MODULE PersistWriter ----------------------------
(***************************************************************************)
(* The coalesced persistence of internal/core/app_persist.go.  A mutation  *)
(* of the in-memory state (markDirty) only raises a flag; a background     *)
(* writer, at most one per App and a new generation of it whenever a       *)
(* mutation finds none running, writes the state out after a quiet period. *)
(* flushPersist writes synchronously (window blur, close), persistLocked   *)
(* is the mutation that wants durability before it returns, and            *)
(* stopPersistWriter retires the writer for good before shutdown flushes.  *)
(*                                                                         *)
(* Two mutexes.  a.mu is held for the whole of a mutation, a flush and a   *)
(* background write; it is free when no caller and no writer is at a       *)
(* location inside one (MuFree).  persistMu is a leaf lock around a few    *)
(* assignments, so each of its critical sections is one action.  Content   *)
(* is abstracted to a version: the revision of the mutation that last      *)
(* changed it.  Time (debounce, backoff) is abstracted: the timer may fire *)
(* at any moment.                                                          *)
(***************************************************************************)
EXTENDS Naturals

CONSTANTS
    Flushers,        \* calls of FlushPendingWrites and OnBeforeClose's flush
    Closers,         \* calls of shutdown / headlessMCP.stop: stop, then flush
    MaxRevision,     \* bound: mutations in a behaviour
    MaxFailures      \* bound: background writes failing in a row

ASSUME PersistAssumption ==
    /\ Flushers \cap Closers = {}
    /\ MaxRevision \in Nat
    /\ MaxFailures \in Nat

Callers == Flushers \cup Closers
(* Every generation of the writer is started by a mutation of its own.     *)
Gens == 1..MaxRevision

VARIABLES
    revision,   \* App.revision
    mem,        \* version of the content of a.state
    disk,       \* version of the content of state.json
    dirty, running, stopped,   \* persistDirty, persistRunning, persistStopped
    perr,       \* persistErr # nil
    failures,   \* persistFailures
    cur,        \* the generation whose channels persistStop/persistDone hold
    stopClosed, \* generations whose persistStop is closed
    wpc,        \* location of each generation's persistWriterLoop
    wdata,      \* what a generation's writeStateLocked has serialised
    fpc,        \* location and outcome of each caller's flushPersist
    spc,        \* location of each closer's stopPersistWriter
    swait,      \* the generation whose persistDone a closer waits on
    owed,       \* history: newest version whose mutation was accepted
    fdata,      \* what a caller's writeStateLocked has serialised
    pending,    \* the parked error each caller's flush has taken
    promised    \* history: newest accepted version when a flush began

vars == <<revision, mem, disk, dirty, running, stopped, perr, failures, cur,
          stopClosed, wpc, wdata, fpc, fdata, pending, spc, swait, owed,
          promised>>

persistVars == <<dirty, running, stopped, perr, failures, cur, stopClosed>>
writerVars == <<wpc, wdata>>
flushVars == <<fpc, fdata, pending, promised>>
stopVars == <<spc, swait>>

(* waiting: in the select; cleared: flag cleared, a.mu not yet held;       *)
(* writing: in writeStateLocked; wroteOk/wroteErr: a.mu released, the      *)
(* outcome not yet recorded; exiting: persistRunning false, done open.     *)
Live == {"waiting", "cleared", "writing", "wroteOk", "wroteErr"}
WriterLocations == Live \cup {"none", "exiting", "done"}
FlushLocations == {"idle", "writing", "ok", "err"}
StopLocations == {"idle", "waiting", "returned"}

Version == 0..MaxRevision

Init ==
    /\ revision = 0 /\ mem = 0 /\ disk = 0
    /\ dirty = FALSE /\ running = FALSE /\ stopped = FALSE
    /\ perr = FALSE /\ failures = 0
    /\ cur = 0 /\ stopClosed = {}
    /\ wpc = [g \in Gens |-> "none"]
    /\ wdata = [g \in Gens |-> 0]
    /\ fpc = [c \in Callers |-> "idle"]
    /\ fdata = [c \in Callers |-> 0]
    /\ pending = [c \in Callers |-> FALSE]
    /\ spc = [c \in Closers |-> "idle"]
    /\ swait = [c \in Closers |-> 0]
    /\ owed = 0
    /\ promised = [c \in Callers |-> 0]

(* a.mu is free.                                                           *)
MuFree ==
    /\ \A g \in Gens : wpc[g] # "writing"
    /\ \A c \in Callers : fpc[c] # "writing"

(***************************************************************************)
(* Mutations, each under a.mu.                                             *)
(***************************************************************************)

(* Fault: a writer started without asking whether the App was stopped.     *)
StartWriterEvenIfStopped ==
    IF ~running
    THEN /\ running' = TRUE
         /\ cur' = cur + 1
         /\ wpc' = [wpc EXCEPT ![cur + 1] = "waiting"]
    ELSE UNCHANGED <<running, cur, wpc>>

(* The start of a writer by markDirty: it only happens when none runs and  *)
(* the App is not stopped, and gives the generation its own channels.      *)
StartWriter ==
    IF ~running /\ ~stopped
    THEN /\ running' = TRUE
         /\ cur' = cur + 1
         /\ wpc' = [wpc EXCEPT ![cur + 1] = "waiting"]
    ELSE UNCHANGED <<running, cur, wpc>>

(* A mutation that ends in markDirty: whatever error it returns (the one   *)
(* parked by an earlier write, or that of the secret store) its change is  *)
(* kept in memory and is now owed to the disk.                             *)
MarkDirty ==
    /\ MuFree
    /\ revision < MaxRevision
    /\ revision' = revision + 1
    /\ mem' = revision + 1
    /\ owed' = revision + 1
    /\ dirty' = TRUE
    /\ perr' = FALSE
    /\ StartWriter
    /\ UNCHANGED <<disk, stopped, failures, stopClosed, wdata, flushVars,
                   stopVars>>

(* persistLocked succeeding: the caller's change is on disk on return.     *)
PersistLocked ==
    /\ MuFree
    /\ revision < MaxRevision
    /\ revision' = revision + 1
    /\ mem' = revision + 1
    /\ disk' = revision + 1
    /\ owed' = revision + 1
    /\ UNCHANGED <<persistVars, writerVars, flushVars, stopVars>>

(* persistLocked failing: the caller gets the error.  Most callers put     *)
(* their change back (draft guard, recovery); the remembered import        *)
(* directory and the readiness pass leave it in memory.  Either way the    *)
(* revision stays bumped and the dirty flag is not raised.                 *)
PersistLockedFails ==
    /\ MuFree
    /\ revision < MaxRevision
    /\ revision' = revision + 1
    /\ mem' \in {mem, revision + 1}
    /\ UNCHANGED <<disk, persistVars, writerVars, flushVars, stopVars, owed>>

(***************************************************************************)
(* persistWriterLoop of generation g.                                      *)
(***************************************************************************)

(* Fault: the stop path returns without closing done.                      *)
WriterSeesStopLeavingDoneOpen(g) ==
    /\ wpc[g] = "waiting"
    /\ g \in stopClosed
    /\ running' = FALSE
    /\ wpc' = [wpc EXCEPT ![g] = "none"]
    /\ UNCHANGED <<revision, mem, disk, dirty, stopped, perr, failures, cur,
                   stopClosed, wdata, flushVars, stopVars, owed>>

(* The stop case of the select.                                            *)
WriterSeesStop(g) ==
    /\ wpc[g] = "waiting"
    /\ g \in stopClosed
    /\ running' = FALSE
    /\ wpc' = [wpc EXCEPT ![g] = "exiting"]
    /\ UNCHANGED <<revision, mem, disk, dirty, stopped, perr, failures, cur,
                   stopClosed, wdata, flushVars, stopVars, owed>>

(* The timer case, taken even with stop closed: select picks at random.    *)
WriterTick(g) ==
    /\ wpc[g] = "waiting"
    /\ IF stopped \/ ~dirty
       THEN /\ running' = FALSE
            /\ wpc' = [wpc EXCEPT ![g] = "exiting"]
            /\ UNCHANGED dirty
       ELSE /\ dirty' = FALSE
            /\ wpc' = [wpc EXCEPT ![g] = "cleared"]
            /\ UNCHANGED running
    /\ UNCHANGED <<revision, mem, disk, stopped, perr, failures, cur,
                   stopClosed, wdata, flushVars, stopVars, owed>>

(* persistOnce takes a.mu and writeStateLocked serialises the state.       *)
WriterLocks(g) ==
    /\ wpc[g] = "cleared"
    /\ MuFree
    /\ wdata' = [wdata EXCEPT ![g] = mem]
    /\ wpc' = [wpc EXCEPT ![g] = "writing"]
    /\ UNCHANGED <<revision, mem, disk, persistVars, flushVars, stopVars,
                   owed>>

(* atomicfile.Write renames the new file into place; a.mu is released.     *)
WriteLands(g) ==
    /\ wpc[g] = "writing"
    /\ disk' = wdata[g]
    /\ wpc' = [wpc EXCEPT ![g] = "wroteOk"]
    /\ UNCHANGED <<revision, mem, persistVars, wdata, flushVars, stopVars,
                   owed>>

(* writeStateLocked fails and reports it; failures counts the failures     *)
(* before this one.                                                        *)
WriteFails(g) ==
    /\ wpc[g] = "writing"
    /\ failures < MaxFailures
    /\ wpc' = [wpc EXCEPT ![g] = "wroteErr"]
    /\ UNCHANGED <<revision, mem, disk, persistVars, wdata, flushVars,
                   stopVars, owed>>

(* Faults: the flag cleared after the write instead of before it, and a    *)
(* writer that leaves after one write without looking at the flag.         *)
RecordSuccessClearing(g) ==
    /\ wpc[g] = "wroteOk"
    /\ failures' = 0
    /\ dirty' = FALSE
    /\ wpc' = [wpc EXCEPT ![g] = "waiting"]
    /\ UNCHANGED <<revision, mem, disk, running, stopped, perr, cur,
                   stopClosed, wdata, flushVars, stopVars, owed>>

RecordSuccessLeaving(g) ==
    /\ wpc[g] = "wroteOk"
    /\ failures' = 0
    /\ running' = FALSE
    /\ wpc' = [wpc EXCEPT ![g] = "exiting"]
    /\ UNCHANGED <<revision, mem, disk, dirty, stopped, perr, cur,
                   stopClosed, wdata, flushVars, stopVars, owed>>

(* A write that landed ends the failure streak.                            *)
RecordSuccess(g) ==
    /\ wpc[g] = "wroteOk"
    /\ failures' = 0
    /\ wpc' = [wpc EXCEPT ![g] = "waiting"]
    /\ UNCHANGED <<revision, mem, disk, dirty, running, stopped, perr, cur,
                   stopClosed, wdata, flushVars, stopVars, owed>>

(* A failed write leaves the state dirty, so the next cycle retries.       *)
RecordFailure(g) ==
    /\ wpc[g] = "wroteErr"
    /\ dirty' = TRUE
    /\ failures' = failures + 1
    /\ perr' = TRUE
    /\ wpc' = [wpc EXCEPT ![g] = "waiting"]
    /\ UNCHANGED <<revision, mem, disk, running, stopped, cur, stopClosed,
                   wdata, flushVars, stopVars, owed>>

(* The deferred close(done).                                               *)
WriterExits(g) ==
    /\ wpc[g] = "exiting"
    /\ wpc' = [wpc EXCEPT ![g] = "done"]
    /\ UNCHANGED <<revision, mem, disk, persistVars, wdata, flushVars,
                   stopVars, owed>>

(***************************************************************************)
(* flushPersist, by a blur or close (Flushers) or by a shutdown whose      *)
(* stopPersistWriter has returned (Closers).                               *)
(***************************************************************************)
MayFlush(c) == c \in Closers => spc[c] = "returned"

(* What a flush returns once nothing is left to write.                     *)
Outcome(pendingErr) == IF pendingErr THEN "err" ELSE "ok"

(* Under a.mu: read and clear the flag and the parked error.  With nothing *)
(* dirty the flush is over and returns that error, or nil.                 *)
FlushBegin(c) ==
    /\ fpc[c] = "idle"
    /\ MayFlush(c)
    /\ MuFree
    /\ dirty' = FALSE
    /\ perr' = FALSE
    /\ pending' = [pending EXCEPT ![c] = perr]
    /\ promised' = [promised EXCEPT ![c] = owed]
    /\ fdata' = [fdata EXCEPT ![c] = IF dirty THEN mem ELSE @]
    /\ fpc' = [fpc EXCEPT ![c] = IF dirty THEN "writing" ELSE Outcome(perr)]
    /\ UNCHANGED <<revision, mem, disk, running, stopped, failures, cur,
                   stopClosed, writerVars, stopVars, owed>>

(* The write landed; the call still returns the error it found parked.     *)
FlushLands(c) ==
    /\ fpc[c] = "writing"
    /\ disk' = fdata[c]
    /\ fpc' = [fpc EXCEPT ![c] = Outcome(pending[c])]
    /\ UNCHANGED <<revision, mem, persistVars, writerVars, fdata, pending,
                   promised, stopVars, owed>>

(* Fault: the failed flush does not put the flag back.                     *)
FlushFailsLeavingClean(c) ==
    /\ fpc[c] = "writing"
    /\ fpc' = [fpc EXCEPT ![c] = "err"]
    /\ UNCHANGED <<revision, mem, disk, persistVars, writerVars, fdata,
                   pending, promised, stopVars, owed>>

(* The write failed: the flag is put back and the error returned.  No      *)
(* writer is started here.                                                 *)
FlushFails(c) ==
    /\ fpc[c] = "writing"
    /\ dirty' = TRUE
    /\ fpc' = [fpc EXCEPT ![c] = "err"]
    /\ UNCHANGED <<revision, mem, disk, running, stopped, perr, failures, cur,
                   stopClosed, writerVars, fdata, pending, promised, stopVars,
                   owed>>

(***************************************************************************)
(* stopPersistWriter, without a.mu.                                        *)
(***************************************************************************)
(* The sticky flag, and the channel of the current writer closed once.     *)
StopBegin(c) ==
    /\ spc[c] = "idle"
    /\ stopped' = TRUE
    /\ stopClosed' = IF ~stopped /\ cur # 0 THEN stopClosed \cup {cur}
                                            ELSE stopClosed
    /\ swait' = [swait EXCEPT ![c] = cur]
    /\ spc' = [spc EXCEPT ![c] = "waiting"]
    /\ UNCHANGED <<revision, mem, disk, dirty, running, perr, failures, cur,
                   writerVars, flushVars, owed>>

(* Fault: the stop does not wait for the writer to leave.                  *)
StopReturnsAtOnce(c) ==
    /\ spc[c] = "waiting"
    /\ spc' = [spc EXCEPT ![c] = "returned"]
    /\ UNCHANGED <<revision, mem, disk, persistVars, writerVars, flushVars,
                   swait, owed>>

(* The receive on done, or no wait when no writer was ever started.        *)
StopReturns(c) ==
    /\ spc[c] = "waiting"
    /\ swait[c] # 0 => wpc[swait[c]] = "done"
    /\ spc' = [spc EXCEPT ![c] = "returned"]
    /\ UNCHANGED <<revision, mem, disk, persistVars, writerVars, flushVars,
                   swait, owed>>

Writer(g) ==
    \/ WriterSeesStop(g) \/ WriterTick(g) \/ WriterLocks(g)
    \/ WriteLands(g) \/ WriteFails(g)
    \/ RecordSuccess(g) \/ RecordFailure(g) \/ WriterExits(g)

Flush(c) == FlushBegin(c) \/ FlushLands(c) \/ FlushFails(c)

Stop(c) == StopBegin(c) \/ StopReturns(c)

Next ==
    \/ MarkDirty \/ PersistLocked \/ PersistLockedFails
    \/ \E g \in Gens : Writer(g)
    \/ \E c \in Callers : Flush(c)
    \/ \E c \in Closers : Stop(c)

Spec == Init /\ [][Next]_vars

(* A goroutine that can run does run, and a shutdown that began completes. *)
(* Mutations, flushes of the window and the decision to quit are the       *)
(* user's: no fairness on them.                                            *)
Fairness ==
    /\ \A g \in Gens : WF_vars(Writer(g))
    /\ \A c \in Callers : WF_vars(FlushLands(c) \/ FlushFails(c))
    /\ \A c \in Closers : WF_vars(StopReturns(c))

FairSpec == Spec /\ Fairness

-----------------------------------------------------------------------------
(* Types of the variables.                                                 *)
TypeOK ==
    /\ revision \in Version /\ mem \in Version /\ disk \in Version
    /\ owed \in Version
    /\ dirty \in BOOLEAN /\ running \in BOOLEAN /\ stopped \in BOOLEAN
    /\ perr \in BOOLEAN
    /\ failures \in 0..MaxFailures
    /\ cur \in Version /\ stopClosed \in SUBSET Gens
    /\ wpc \in [Gens -> WriterLocations] /\ wdata \in [Gens -> Version]
    /\ fpc \in [Callers -> FlushLocations] /\ fdata \in [Callers -> Version]
    /\ spc \in [Closers -> StopLocations]
    /\ swait \in [Closers -> Version]
    /\ pending \in [Callers -> BOOLEAN]
    /\ promised \in [Callers -> Version]

InFlight == {"cleared", "writing", "wroteErr"}

(* The save that is due, seen from outside: flagged, or under way.         *)
SaveDue ==
    \/ dirty
    \/ \E g \in Gens : wpc[g] \in InFlight
    \/ \E c \in Callers : fpc[c] = "writing"

(* No accepted mutation is ever forgotten: while the disk lacks one, the   *)
(* state is marked dirty, or a background write that will save it or mark  *)
(* it dirty again is under way, or a flush is.                             *)
NothingForgotten ==
    owed > disk => SaveDue

(* At most one background writer serves an App, whatever the generations   *)
(* started and retired, and persistRunning says whether one does.          *)
SingleWriter ==
    /\ \A g, h \in Gens : wpc[g] \in Live /\ wpc[h] \in Live => g = h
    /\ running <=> \E g \in Gens : wpc[g] \in Live

(* Once stopPersistWriter has returned to some caller, no background write *)
(* is under way and none can start, although mutations go on.              *)
NoWriteAfterStop ==
    (\E c \in Closers : spc[c] = "returned") =>
        \A g \in Gens : wpc[g] \in {"none", "exiting", "done"}

(* The flush of a shutdown comes after the writer is retired, so when it   *)
(* reports success everything accepted before it is on disk.               *)
ShutdownFlushIsDurable ==
    \A c \in Closers : fpc[c] = "ok" => disk >= promised[c]

(* Every flush: the doc of flushPersist says the data is on disk now. The  *)
(* code does not keep this, and no run checks it (README, observations).   *)
FlushIsDurable ==
    \A c \in Callers : fpc[c] = "ok" => disk >= promised[c]

(* Disk content only moves forward: no write of any path puts an older     *)
(* version of the state over a newer one.                                  *)
DiskAdvances == [][disk' >= disk]_vars

(* Unless the App is stopped or a flush takes the flag and then fails, an  *)
(* accepted mutation reaches the disk without any further call.            *)
EventuallySaved ==
    \A v \in Version :
        (owed = v) ~> (\/ disk >= v
                       \/ stopped
                       \/ \E c \in Callers : fpc[c] = "err")

Abstract == INSTANCE WriteBehind WITH due <- SaveDue

(* The writer, the flushes, the stop and their locks implement WriteBehind:*)
(* a save stops being due only in the step that puts the memory of that    *)
(* moment on disk, whichever goroutine takes it.                           *)
ImplementsWriteBehind == Abstract!AbstractSpec

(* A shutdown that began to stop the writer is not stuck waiting for it.   *)
StopCompletes ==
    \A c \in Closers : (spc[c] = "waiting") ~> (spc[c] = "returned")
=============================================================================
