------------------------- MODULE PersistWriterProofs -------------------------
(***************************************************************************)
(* Proofs about PersistWriter for every number of flushes and closes and   *)
(* every value of its bounds.  IInv is the inductive invariant; its parts  *)
(* say which generation is alive, what a stop has fixed, what the holder   *)
(* of a.mu has serialised, and where the content versions stand.  The      *)
(* second half of the module is about PatchQueue.                          *)
(***************************************************************************)
EXTENDS PersistWriter, PatchQueue, TLAPS

(* The only generation that can be alive is the current one, persistRunning*)
(* says whether it is, and later generations have not started.             *)
GenInv ==
    /\ cur <= revision
    /\ \A g \in Gens : wpc[g] \in Live => g = cur /\ running
    /\ running => cur \in Gens /\ wpc[cur] \in Live
    /\ \A g \in Gens : g > cur => wpc[g] = "none"
    /\ \A g \in Gens : wpc[g] = "wroteErr" => failures < MaxFailures

(* A stop fixes the current generation: what a closer waits for cannot be  *)
(* replaced behind its back, and once it has left it stays away.           *)
StopInv ==
    /\ \A c \in Closers : spc[c] # "idle" => stopped /\ swait[c] = cur
    /\ \A c \in Closers :
          spc[c] = "returned" => cur = 0 \/ wpc[cur] = "done"

(* a.mu: whoever writes is alone and has serialised the present memory.    *)
LockInv ==
    /\ \A g \in Gens : wpc[g] = "writing" =>
          /\ wdata[g] = mem
          /\ \A c \in Callers : fpc[c] # "writing"
    /\ \A c, d \in Callers : fpc[c] = "writing" =>
          /\ fdata[c] = mem
          /\ fpc[d] = "writing" => c = d

(* Disk, accepted and promised versions never pass the memory, nor the     *)
(* memory the revision.                                                    *)
VersionInv ==
    /\ disk <= mem /\ owed <= mem /\ mem <= revision
    /\ \A c \in Callers : promised[c] <= owed

(* A closer flushes only after its stop returned.                          *)
CloserInv ==
    /\ \A c \in Closers : fpc[c] # "idle" => spc[c] = "returned"
    /\ ShutdownFlushIsDurable

IInv ==
    /\ TypeOK /\ GenInv /\ StopInv /\ LockInv /\ VersionInv
    /\ NothingForgotten /\ CloserInv

-----------------------------------------------------------------------------
(* The inductive invariant holds initially.                                *)
LEMMA InitIInv == Init => IInv
PROOF
<1> SUFFICES ASSUME Init PROVE IInv
  OBVIOUS
<1> USE PersistAssumption DEF Init, Version, Gens, Callers
<1>1. TypeOK
  <2>1. /\ revision \in Version /\ mem \in Version /\ disk \in Version
        /\ owed \in Version /\ cur \in Version /\ stopClosed \in SUBSET Gens
    OBVIOUS
  <2>2. /\ dirty \in BOOLEAN /\ running \in BOOLEAN /\ stopped \in BOOLEAN
        /\ perr \in BOOLEAN
    OBVIOUS
  <2>7. failures \in 0..MaxFailures
    OBVIOUS
  <2>3. wpc \in [Gens -> WriterLocations] /\ wdata \in [Gens -> Version]
    BY DEF WriterLocations, Live
  <2>4. fpc \in [Callers -> FlushLocations] /\ fdata \in [Callers -> Version]
    BY DEF FlushLocations
  <2>5. spc \in [Closers -> StopLocations] /\ swait \in [Closers -> Version]
    BY DEF StopLocations
  <2>6. pending \in [Callers -> BOOLEAN] /\ promised \in [Callers -> Version]
    OBVIOUS
  <2>. QED
    BY <2>1, <2>2, <2>3, <2>4, <2>5, <2>6, <2>7 DEF TypeOK
<1>2. GenInv
  BY DEF GenInv, Live
<1>3. StopInv /\ LockInv /\ VersionInv
  BY DEF StopInv, LockInv, VersionInv
<1>4. NothingForgotten /\ CloserInv
  BY DEF NothingForgotten, CloserInv, ShutdownFlushIsDurable
<1>. QED
  BY <1>1, <1>2, <1>3, <1>4 DEF IInv

(* Every step keeps the types. *)
LEMMA TypeStep ==
    ASSUME IInv, [Next]_vars PROVE TypeOK'
PROOF
<1> USE PersistAssumption DEF IInv, GenInv, TypeOK, Version, Gens, Callers,
        WriterLocations, FlushLocations, StopLocations, Live
<1>1. CASE MarkDirty
  <2>1. cur + 1 \in Gens
    BY <1>1 DEF MarkDirty
  <2>2. /\ revision' \in Version /\ mem' \in Version /\ disk' \in Version
        /\ owed' \in Version
    BY <1>1 DEF MarkDirty
  <2>3. cur' \in Version
    <3>1. cur' = cur \/ cur' = cur + 1
      BY <1>1 DEF MarkDirty, StartWriter
    <3>. QED
      BY <2>1, <3>1
  <2>4. wpc' \in [Gens -> WriterLocations]
    <3>1. "waiting" \in WriterLocations
      OBVIOUS
    <3>2. wpc' = wpc \/ wpc' = [wpc EXCEPT ![cur + 1] = "waiting"]
      BY <1>1 DEF MarkDirty, StartWriter
    <3>3. wpc \in [Gens -> WriterLocations]
      OBVIOUS
    <3>. HIDE DEF IInv, TypeOK, GenInv, WriterLocations, Gens
    <3>. QED
      BY <2>1, <3>1, <3>2, <3>3
  <2>5. UNCHANGED <<stopped, failures, stopClosed, wdata, fpc, fdata, pending,
                    promised, spc, swait>>
    BY <1>1 DEF MarkDirty, flushVars, stopVars
  <2>6. dirty' \in BOOLEAN /\ perr' \in BOOLEAN /\ running' \in BOOLEAN
    BY <1>1, Zenon DEF MarkDirty, StartWriter
  <2>. QED
    BY <2>2, <2>3, <2>4, <2>5, <2>6
<1>2. CASE PersistLocked
  BY <1>2 DEF PersistLocked, MuFree, vars, persistVars, writerVars, flushVars,
     stopVars
<1>3. CASE PersistLockedFails
  BY <1>3 DEF PersistLockedFails, MuFree, vars, persistVars, writerVars,
     flushVars, stopVars
<1>4. ASSUME NEW g \in Gens, WriterSeesStop(g) PROVE TypeOK'
  BY <1>4 DEF WriterSeesStop, vars, persistVars, writerVars, flushVars,
     stopVars
<1>5. ASSUME NEW g \in Gens, WriterTick(g) PROVE TypeOK'
  BY <1>5 DEF WriterTick, vars, persistVars, writerVars, flushVars, stopVars
<1>6. ASSUME NEW g \in Gens, WriterLocks(g) PROVE TypeOK'
  BY <1>6 DEF WriterLocks, MuFree, vars, persistVars, writerVars, flushVars,
     stopVars
<1>7. ASSUME NEW g \in Gens, WriteLands(g) PROVE TypeOK'
  BY <1>7 DEF WriteLands, vars, persistVars, writerVars, flushVars, stopVars
<1>8. ASSUME NEW g \in Gens, WriteFails(g) PROVE TypeOK'
  BY <1>8 DEF WriteFails, vars, persistVars, writerVars, flushVars, stopVars
<1>9. ASSUME NEW g \in Gens, RecordSuccess(g) PROVE TypeOK'
  BY <1>9 DEF RecordSuccess, vars, persistVars, writerVars, flushVars, stopVars
<1>10. ASSUME NEW g \in Gens, RecordFailure(g) PROVE TypeOK'
  BY <1>10 DEF RecordFailure, vars, persistVars, writerVars, flushVars,
     stopVars
<1>11. ASSUME NEW g \in Gens, WriterExits(g) PROVE TypeOK'
  BY <1>11 DEF WriterExits, vars, persistVars, writerVars, flushVars, stopVars
<1>12. ASSUME NEW c \in Callers, FlushBegin(c) PROVE TypeOK'
  BY <1>12 DEF FlushBegin, MuFree, MayFlush, Outcome, vars, persistVars,
     writerVars, flushVars, stopVars
<1>13. ASSUME NEW c \in Callers, FlushLands(c) PROVE TypeOK'
  BY <1>13 DEF FlushLands, Outcome, vars, persistVars, writerVars, flushVars,
     stopVars
<1>14. ASSUME NEW c \in Callers, FlushFails(c) PROVE TypeOK'
  BY <1>14 DEF FlushFails, vars, persistVars, writerVars, flushVars, stopVars
<1>15. ASSUME NEW c \in Closers, StopBegin(c) PROVE TypeOK'
  BY <1>15 DEF StopBegin, vars, persistVars, writerVars, flushVars, stopVars
<1>16. ASSUME NEW c \in Closers, StopReturns(c) PROVE TypeOK'
  BY <1>16 DEF StopReturns, vars, persistVars, writerVars, flushVars, stopVars
<1>17. CASE UNCHANGED vars
  BY <1>17 DEF vars, persistVars, writerVars, flushVars, stopVars
<1>. QED
  BY <1>1, <1>2, <1>3, <1>4, <1>5, <1>6, <1>7, <1>8, <1>9, <1>10, <1>11,
     <1>12, <1>13, <1>14, <1>15, <1>16, <1>17 DEF Next, Writer, Flush, Stop

(* Every step keeps the account of the generations. *)
LEMMA GenStep ==
    ASSUME IInv, [Next]_vars PROVE GenInv'
PROOF
<1> USE PersistAssumption DEF IInv, GenInv, StopInv, TypeOK, Version, Gens,
        Callers, WriterLocations, FlushLocations, StopLocations, Live
<1>1. CASE MarkDirty
  <2>1. /\ revision' = revision + 1 /\ failures' = failures
        /\ \/ UNCHANGED <<running, cur, wpc>>
           \/ /\ ~running /\ running' = TRUE /\ cur' = cur + 1
              /\ wpc' = [wpc EXCEPT ![cur + 1] = "waiting"]
    BY <1>1 DEF MarkDirty, StartWriter
  <2>2. cur + 1 \in Gens
    BY <1>1 DEF MarkDirty
  <2>. QED
    BY <2>1, <2>2
<1>2. CASE PersistLocked
  BY <1>2 DEF PersistLocked, MuFree, vars, persistVars, writerVars, flushVars,
     stopVars
<1>3. CASE PersistLockedFails
  BY <1>3 DEF PersistLockedFails, MuFree, vars, persistVars, writerVars,
     flushVars, stopVars
<1>4. ASSUME NEW g \in Gens, WriterSeesStop(g) PROVE GenInv'
  BY <1>4 DEF WriterSeesStop, vars, persistVars, writerVars, flushVars,
     stopVars
<1>5. ASSUME NEW g \in Gens, WriterTick(g) PROVE GenInv'
  BY <1>5 DEF WriterTick, vars, persistVars, writerVars, flushVars, stopVars
<1>6. ASSUME NEW g \in Gens, WriterLocks(g) PROVE GenInv'
  BY <1>6 DEF WriterLocks, MuFree, vars, persistVars, writerVars, flushVars,
     stopVars
<1>7. ASSUME NEW g \in Gens, WriteLands(g) PROVE GenInv'
  BY <1>7 DEF WriteLands, vars, persistVars, writerVars, flushVars, stopVars
<1>8. ASSUME NEW g \in Gens, WriteFails(g) PROVE GenInv'
  BY <1>8 DEF WriteFails, vars, persistVars, writerVars, flushVars, stopVars
<1>9. ASSUME NEW g \in Gens, RecordSuccess(g) PROVE GenInv'
  BY <1>9 DEF RecordSuccess, vars, persistVars, writerVars, flushVars, stopVars
<1>10. ASSUME NEW g \in Gens, RecordFailure(g) PROVE GenInv'
  BY <1>10 DEF RecordFailure, vars, persistVars, writerVars, flushVars,
     stopVars
<1>11. ASSUME NEW g \in Gens, WriterExits(g) PROVE GenInv'
  BY <1>11 DEF WriterExits, vars, persistVars, writerVars, flushVars, stopVars
<1>12. ASSUME NEW c \in Callers, FlushBegin(c) PROVE GenInv'
  BY <1>12 DEF FlushBegin, MuFree, MayFlush, Outcome, vars, persistVars,
     writerVars, flushVars, stopVars
<1>13. ASSUME NEW c \in Callers, FlushLands(c) PROVE GenInv'
  BY <1>13 DEF FlushLands, Outcome, vars, persistVars, writerVars, flushVars,
     stopVars
<1>14. ASSUME NEW c \in Callers, FlushFails(c) PROVE GenInv'
  BY <1>14 DEF FlushFails, vars, persistVars, writerVars, flushVars, stopVars
<1>15. ASSUME NEW c \in Closers, StopBegin(c) PROVE GenInv'
  BY <1>15 DEF StopBegin, vars, persistVars, writerVars, flushVars, stopVars
<1>16. ASSUME NEW c \in Closers, StopReturns(c) PROVE GenInv'
  BY <1>16 DEF StopReturns, vars, persistVars, writerVars, flushVars, stopVars
<1>17. CASE UNCHANGED vars
  BY <1>17 DEF vars, persistVars, writerVars, flushVars, stopVars
<1>. QED
  BY <1>1, <1>2, <1>3, <1>4, <1>5, <1>6, <1>7, <1>8, <1>9, <1>10, <1>11,
     <1>12, <1>13, <1>14, <1>15, <1>16, <1>17 DEF Next, Writer, Flush, Stop

(* Every step keeps what a stop has fixed. *)
LEMMA StopStep ==
    ASSUME IInv, [Next]_vars PROVE StopInv'
PROOF
<1> USE PersistAssumption DEF IInv, GenInv, StopInv, TypeOK, Version, Gens,
        Callers, WriterLocations, FlushLocations, StopLocations, Live
<1>1. CASE MarkDirty
  BY <1>1 DEF MarkDirty, StartWriter, MuFree, vars, persistVars, writerVars,
     flushVars, stopVars
<1>2. CASE PersistLocked
  BY <1>2 DEF PersistLocked, MuFree, vars, persistVars, writerVars, flushVars,
     stopVars
<1>3. CASE PersistLockedFails
  BY <1>3 DEF PersistLockedFails, MuFree, vars, persistVars, writerVars,
     flushVars, stopVars
<1>4. ASSUME NEW g \in Gens, WriterSeesStop(g) PROVE StopInv'
  BY <1>4 DEF WriterSeesStop, vars, persistVars, writerVars, flushVars,
     stopVars
<1>5. ASSUME NEW g \in Gens, WriterTick(g) PROVE StopInv'
  BY <1>5 DEF WriterTick, vars, persistVars, writerVars, flushVars, stopVars
<1>6. ASSUME NEW g \in Gens, WriterLocks(g) PROVE StopInv'
  BY <1>6 DEF WriterLocks, MuFree, vars, persistVars, writerVars, flushVars,
     stopVars
<1>7. ASSUME NEW g \in Gens, WriteLands(g) PROVE StopInv'
  BY <1>7 DEF WriteLands, vars, persistVars, writerVars, flushVars, stopVars
<1>8. ASSUME NEW g \in Gens, WriteFails(g) PROVE StopInv'
  BY <1>8 DEF WriteFails, vars, persistVars, writerVars, flushVars, stopVars
<1>9. ASSUME NEW g \in Gens, RecordSuccess(g) PROVE StopInv'
  BY <1>9 DEF RecordSuccess, vars, persistVars, writerVars, flushVars, stopVars
<1>10. ASSUME NEW g \in Gens, RecordFailure(g) PROVE StopInv'
  BY <1>10 DEF RecordFailure, vars, persistVars, writerVars, flushVars,
     stopVars
<1>11. ASSUME NEW g \in Gens, WriterExits(g) PROVE StopInv'
  BY <1>11 DEF WriterExits, vars, persistVars, writerVars, flushVars, stopVars
<1>12. ASSUME NEW c \in Callers, FlushBegin(c) PROVE StopInv'
  BY <1>12 DEF FlushBegin, MuFree, MayFlush, Outcome, vars, persistVars,
     writerVars, flushVars, stopVars
<1>13. ASSUME NEW c \in Callers, FlushLands(c) PROVE StopInv'
  BY <1>13 DEF FlushLands, Outcome, vars, persistVars, writerVars, flushVars,
     stopVars
<1>14. ASSUME NEW c \in Callers, FlushFails(c) PROVE StopInv'
  BY <1>14 DEF FlushFails, vars, persistVars, writerVars, flushVars, stopVars
<1>15. ASSUME NEW c \in Closers, StopBegin(c) PROVE StopInv'
  BY <1>15 DEF StopBegin, vars, persistVars, writerVars, flushVars, stopVars
<1>16. ASSUME NEW c \in Closers, StopReturns(c) PROVE StopInv'
  BY <1>16 DEF StopReturns, vars, persistVars, writerVars, flushVars, stopVars
<1>17. CASE UNCHANGED vars
  BY <1>17 DEF vars, persistVars, writerVars, flushVars, stopVars
<1>. QED
  BY <1>1, <1>2, <1>3, <1>4, <1>5, <1>6, <1>7, <1>8, <1>9, <1>10, <1>11,
     <1>12, <1>13, <1>14, <1>15, <1>16, <1>17 DEF Next, Writer, Flush, Stop

(* Every step keeps the exclusion a.mu gives. *)
LEMMA LockStep ==
    ASSUME IInv, [Next]_vars PROVE LockInv'
PROOF
<1> USE PersistAssumption DEF IInv, GenInv, LockInv, TypeOK, Version, Gens,
        Callers, WriterLocations, FlushLocations, StopLocations, Live
<1>1. CASE MarkDirty
  BY <1>1 DEF MarkDirty, StartWriter, MuFree, vars, persistVars, writerVars,
     flushVars, stopVars
<1>2. CASE PersistLocked
  BY <1>2 DEF PersistLocked, MuFree, vars, persistVars, writerVars, flushVars,
     stopVars
<1>3. CASE PersistLockedFails
  BY <1>3 DEF PersistLockedFails, MuFree, vars, persistVars, writerVars,
     flushVars, stopVars
<1>4. ASSUME NEW g \in Gens, WriterSeesStop(g) PROVE LockInv'
  BY <1>4 DEF WriterSeesStop, vars, persistVars, writerVars, flushVars,
     stopVars
<1>5. ASSUME NEW g \in Gens, WriterTick(g) PROVE LockInv'
  BY <1>5 DEF WriterTick, vars, persistVars, writerVars, flushVars, stopVars
<1>6. ASSUME NEW g \in Gens, WriterLocks(g) PROVE LockInv'
  BY <1>6 DEF WriterLocks, MuFree, vars, persistVars, writerVars, flushVars,
     stopVars
<1>7. ASSUME NEW g \in Gens, WriteLands(g) PROVE LockInv'
  BY <1>7 DEF WriteLands, vars, persistVars, writerVars, flushVars, stopVars
<1>8. ASSUME NEW g \in Gens, WriteFails(g) PROVE LockInv'
  BY <1>8 DEF WriteFails, vars, persistVars, writerVars, flushVars, stopVars
<1>9. ASSUME NEW g \in Gens, RecordSuccess(g) PROVE LockInv'
  BY <1>9 DEF RecordSuccess, vars, persistVars, writerVars, flushVars, stopVars
<1>10. ASSUME NEW g \in Gens, RecordFailure(g) PROVE LockInv'
  BY <1>10 DEF RecordFailure, vars, persistVars, writerVars, flushVars,
     stopVars
<1>11. ASSUME NEW g \in Gens, WriterExits(g) PROVE LockInv'
  BY <1>11 DEF WriterExits, vars, persistVars, writerVars, flushVars, stopVars
<1>12. ASSUME NEW c \in Callers, FlushBegin(c) PROVE LockInv'
  BY <1>12 DEF FlushBegin, MuFree, MayFlush, Outcome, vars, persistVars,
     writerVars, flushVars, stopVars
<1>13. ASSUME NEW c \in Callers, FlushLands(c) PROVE LockInv'
  BY <1>13 DEF FlushLands, Outcome, vars, persistVars, writerVars, flushVars,
     stopVars
<1>14. ASSUME NEW c \in Callers, FlushFails(c) PROVE LockInv'
  BY <1>14 DEF FlushFails, vars, persistVars, writerVars, flushVars, stopVars
<1>15. ASSUME NEW c \in Closers, StopBegin(c) PROVE LockInv'
  BY <1>15 DEF StopBegin, vars, persistVars, writerVars, flushVars, stopVars
<1>16. ASSUME NEW c \in Closers, StopReturns(c) PROVE LockInv'
  BY <1>16 DEF StopReturns, vars, persistVars, writerVars, flushVars, stopVars
<1>17. CASE UNCHANGED vars
  BY <1>17 DEF vars, persistVars, writerVars, flushVars, stopVars
<1>. QED
  BY <1>1, <1>2, <1>3, <1>4, <1>5, <1>6, <1>7, <1>8, <1>9, <1>10, <1>11,
     <1>12, <1>13, <1>14, <1>15, <1>16, <1>17 DEF Next, Writer, Flush, Stop

(* Every step keeps the order of the versions. *)
LEMMA VersionStep ==
    ASSUME IInv, [Next]_vars PROVE VersionInv'
PROOF
<1> USE PersistAssumption DEF IInv, LockInv, VersionInv, TypeOK, Version,
        Gens, Callers, WriterLocations, FlushLocations, StopLocations, Live
<1>1. CASE MarkDirty
  BY <1>1 DEF MarkDirty, StartWriter, MuFree, vars, persistVars, writerVars,
     flushVars, stopVars
<1>2. CASE PersistLocked
  BY <1>2 DEF PersistLocked, MuFree, vars, persistVars, writerVars, flushVars,
     stopVars
<1>3. CASE PersistLockedFails
  BY <1>3 DEF PersistLockedFails, MuFree, vars, persistVars, writerVars,
     flushVars, stopVars
<1>4. ASSUME NEW g \in Gens, WriterSeesStop(g) PROVE VersionInv'
  BY <1>4 DEF WriterSeesStop, vars, persistVars, writerVars, flushVars,
     stopVars
<1>5. ASSUME NEW g \in Gens, WriterTick(g) PROVE VersionInv'
  BY <1>5 DEF WriterTick, vars, persistVars, writerVars, flushVars, stopVars
<1>6. ASSUME NEW g \in Gens, WriterLocks(g) PROVE VersionInv'
  BY <1>6 DEF WriterLocks, MuFree, vars, persistVars, writerVars, flushVars,
     stopVars
<1>7. ASSUME NEW g \in Gens, WriteLands(g) PROVE VersionInv'
  BY <1>7 DEF WriteLands, vars, persistVars, writerVars, flushVars, stopVars
<1>8. ASSUME NEW g \in Gens, WriteFails(g) PROVE VersionInv'
  BY <1>8 DEF WriteFails, vars, persistVars, writerVars, flushVars, stopVars
<1>9. ASSUME NEW g \in Gens, RecordSuccess(g) PROVE VersionInv'
  BY <1>9 DEF RecordSuccess, vars, persistVars, writerVars, flushVars, stopVars
<1>10. ASSUME NEW g \in Gens, RecordFailure(g) PROVE VersionInv'
  BY <1>10 DEF RecordFailure, vars, persistVars, writerVars, flushVars,
     stopVars
<1>11. ASSUME NEW g \in Gens, WriterExits(g) PROVE VersionInv'
  BY <1>11 DEF WriterExits, vars, persistVars, writerVars, flushVars, stopVars
<1>12. ASSUME NEW c \in Callers, FlushBegin(c) PROVE VersionInv'
  BY <1>12 DEF FlushBegin, MuFree, MayFlush, Outcome, vars, persistVars,
     writerVars, flushVars, stopVars
<1>13. ASSUME NEW c \in Callers, FlushLands(c) PROVE VersionInv'
  BY <1>13 DEF FlushLands, Outcome, vars, persistVars, writerVars, flushVars,
     stopVars
<1>14. ASSUME NEW c \in Callers, FlushFails(c) PROVE VersionInv'
  BY <1>14 DEF FlushFails, vars, persistVars, writerVars, flushVars, stopVars
<1>15. ASSUME NEW c \in Closers, StopBegin(c) PROVE VersionInv'
  BY <1>15 DEF StopBegin, vars, persistVars, writerVars, flushVars, stopVars
<1>16. ASSUME NEW c \in Closers, StopReturns(c) PROVE VersionInv'
  BY <1>16 DEF StopReturns, vars, persistVars, writerVars, flushVars, stopVars
<1>17. CASE UNCHANGED vars
  BY <1>17 DEF vars, persistVars, writerVars, flushVars, stopVars
<1>. QED
  BY <1>1, <1>2, <1>3, <1>4, <1>5, <1>6, <1>7, <1>8, <1>9, <1>10, <1>11,
     <1>12, <1>13, <1>14, <1>15, <1>16, <1>17 DEF Next, Writer, Flush, Stop

(* No step forgets an accepted mutation. *)
LEMMA ForgottenStep ==
    ASSUME IInv, [Next]_vars PROVE NothingForgotten'
PROOF
<1> USE PersistAssumption DEF IInv, LockInv, VersionInv, NothingForgotten,
        SaveDue, InFlight, TypeOK, Version, Gens, Callers, WriterLocations,
        FlushLocations, StopLocations, Live
<1>1. CASE MarkDirty
  BY <1>1 DEF MarkDirty, StartWriter, MuFree, vars, persistVars, writerVars,
     flushVars, stopVars
<1>2. CASE PersistLocked
  BY <1>2 DEF PersistLocked, MuFree, vars, persistVars, writerVars, flushVars,
     stopVars
<1>3. CASE PersistLockedFails
  BY <1>3 DEF PersistLockedFails, MuFree, vars, persistVars, writerVars,
     flushVars, stopVars
<1>4. ASSUME NEW g \in Gens, WriterSeesStop(g) PROVE NothingForgotten'
  BY <1>4 DEF WriterSeesStop, vars, persistVars, writerVars, flushVars,
     stopVars
<1>5. ASSUME NEW g \in Gens, WriterTick(g) PROVE NothingForgotten'
  BY <1>5 DEF WriterTick, vars, persistVars, writerVars, flushVars, stopVars
<1>6. ASSUME NEW g \in Gens, WriterLocks(g) PROVE NothingForgotten'
  BY <1>6 DEF WriterLocks, MuFree, vars, persistVars, writerVars, flushVars,
     stopVars
<1>7. ASSUME NEW g \in Gens, WriteLands(g) PROVE NothingForgotten'
  BY <1>7 DEF WriteLands, vars, persistVars, writerVars, flushVars, stopVars
<1>8. ASSUME NEW g \in Gens, WriteFails(g) PROVE NothingForgotten'
  BY <1>8 DEF WriteFails, vars, persistVars, writerVars, flushVars, stopVars
<1>9. ASSUME NEW g \in Gens, RecordSuccess(g) PROVE NothingForgotten'
  BY <1>9 DEF RecordSuccess, vars, persistVars, writerVars, flushVars, stopVars
<1>10. ASSUME NEW g \in Gens, RecordFailure(g) PROVE NothingForgotten'
  BY <1>10 DEF RecordFailure, vars, persistVars, writerVars, flushVars,
     stopVars
<1>11. ASSUME NEW g \in Gens, WriterExits(g) PROVE NothingForgotten'
  BY <1>11 DEF WriterExits, vars, persistVars, writerVars, flushVars, stopVars
<1>12. ASSUME NEW c \in Callers, FlushBegin(c) PROVE NothingForgotten'
  BY <1>12 DEF FlushBegin, MuFree, MayFlush, Outcome, vars, persistVars,
     writerVars, flushVars, stopVars
<1>13. ASSUME NEW c \in Callers, FlushLands(c) PROVE NothingForgotten'
  BY <1>13 DEF FlushLands, Outcome, vars, persistVars, writerVars, flushVars,
     stopVars
<1>14. ASSUME NEW c \in Callers, FlushFails(c) PROVE NothingForgotten'
  BY <1>14 DEF FlushFails, vars, persistVars, writerVars, flushVars, stopVars
<1>15. ASSUME NEW c \in Closers, StopBegin(c) PROVE NothingForgotten'
  BY <1>15 DEF StopBegin, vars, persistVars, writerVars, flushVars, stopVars
<1>16. ASSUME NEW c \in Closers, StopReturns(c) PROVE NothingForgotten'
  BY <1>16 DEF StopReturns, vars, persistVars, writerVars, flushVars, stopVars
<1>17. CASE UNCHANGED vars
  BY <1>17 DEF vars, persistVars, writerVars, flushVars, stopVars
<1>. QED
  BY <1>1, <1>2, <1>3, <1>4, <1>5, <1>6, <1>7, <1>8, <1>9, <1>10, <1>11,
     <1>12, <1>13, <1>14, <1>15, <1>16, <1>17 DEF Next, Writer, Flush, Stop

(* Every step keeps the closers' order and durability. *)
LEMMA CloserStep ==
    ASSUME IInv, [Next]_vars PROVE CloserInv'
PROOF
<1> USE PersistAssumption DEF IInv, GenInv, StopInv, LockInv, VersionInv,
        NothingForgotten, SaveDue, InFlight, CloserInv,
        ShutdownFlushIsDurable, TypeOK, Version, Gens, Callers,
        WriterLocations, FlushLocations, StopLocations, Live
<1>1. CASE MarkDirty
  BY <1>1 DEF MarkDirty, StartWriter, MuFree, vars, persistVars, writerVars,
     flushVars, stopVars
<1>2. CASE PersistLocked
  BY <1>2 DEF PersistLocked, MuFree, vars, persistVars, writerVars, flushVars,
     stopVars
<1>3. CASE PersistLockedFails
  BY <1>3 DEF PersistLockedFails, MuFree, vars, persistVars, writerVars,
     flushVars, stopVars
<1>4. ASSUME NEW g \in Gens, WriterSeesStop(g) PROVE CloserInv'
  BY <1>4 DEF WriterSeesStop, vars, persistVars, writerVars, flushVars,
     stopVars
<1>5. ASSUME NEW g \in Gens, WriterTick(g) PROVE CloserInv'
  BY <1>5 DEF WriterTick, vars, persistVars, writerVars, flushVars, stopVars
<1>6. ASSUME NEW g \in Gens, WriterLocks(g) PROVE CloserInv'
  BY <1>6 DEF WriterLocks, MuFree, vars, persistVars, writerVars, flushVars,
     stopVars
<1>7. ASSUME NEW g \in Gens, WriteLands(g) PROVE CloserInv'
  BY <1>7 DEF WriteLands, vars, persistVars, writerVars, flushVars, stopVars
<1>8. ASSUME NEW g \in Gens, WriteFails(g) PROVE CloserInv'
  BY <1>8 DEF WriteFails, vars, persistVars, writerVars, flushVars, stopVars
<1>9. ASSUME NEW g \in Gens, RecordSuccess(g) PROVE CloserInv'
  BY <1>9 DEF RecordSuccess, vars, persistVars, writerVars, flushVars, stopVars
<1>10. ASSUME NEW g \in Gens, RecordFailure(g) PROVE CloserInv'
  BY <1>10 DEF RecordFailure, vars, persistVars, writerVars, flushVars,
     stopVars
<1>11. ASSUME NEW g \in Gens, WriterExits(g) PROVE CloserInv'
  BY <1>11 DEF WriterExits, vars, persistVars, writerVars, flushVars, stopVars
<1>12. ASSUME NEW c \in Callers, FlushBegin(c) PROVE CloserInv'
  BY <1>12 DEF FlushBegin, MuFree, MayFlush, Outcome, vars, persistVars,
     writerVars, flushVars, stopVars
<1>13. ASSUME NEW c \in Callers, FlushLands(c) PROVE CloserInv'
  BY <1>13 DEF FlushLands, Outcome, vars, persistVars, writerVars, flushVars,
     stopVars
<1>14. ASSUME NEW c \in Callers, FlushFails(c) PROVE CloserInv'
  BY <1>14 DEF FlushFails, vars, persistVars, writerVars, flushVars, stopVars
<1>15. ASSUME NEW c \in Closers, StopBegin(c) PROVE CloserInv'
  BY <1>15 DEF StopBegin, vars, persistVars, writerVars, flushVars, stopVars
<1>16. ASSUME NEW c \in Closers, StopReturns(c) PROVE CloserInv'
  BY <1>16 DEF StopReturns, vars, persistVars, writerVars, flushVars, stopVars
<1>17. CASE UNCHANGED vars
  BY <1>17 DEF vars, persistVars, writerVars, flushVars, stopVars
<1>. QED
  BY <1>1, <1>2, <1>3, <1>4, <1>5, <1>6, <1>7, <1>8, <1>9, <1>10, <1>11,
     <1>12, <1>13, <1>14, <1>15, <1>16, <1>17 DEF Next, Writer, Flush, Stop

(* The inductive invariant holds in every reachable state.                 *)
LEMMA Invariance == Spec => []IInv
PROOF
<1>1. IInv /\ [Next]_vars => IInv'
  <2> SUFFICES ASSUME IInv, [Next]_vars PROVE IInv'
    OBVIOUS
  <2>. QED
    BY TypeStep, GenStep, StopStep, LockStep, VersionStep, ForgottenStep,
       CloserStep DEF IInv
<1>. QED
  BY InitIInv, <1>1, PTL DEF Spec

(* Every variable keeps its type: failures stay within their bound and the *)
(* writer, the flushes and the stops at their locations.                   *)
THEOREM TypeCorrect == Spec => []TypeOK
PROOF
<1>1. IInv => TypeOK
  BY DEF IInv
<1>. QED
  BY Invariance, <1>1, PTL

(* However mutations, flushes, failures and stops interleave, an accepted  *)
(* mutation that is not on disk is flagged or being written.               *)
THEOREM NothingIsForgotten == Spec => []NothingForgotten
PROOF
<1>1. IInv => NothingForgotten
  BY DEF IInv
<1>. QED
  BY Invariance, <1>1, PTL

(* At most one background writer is alive, and persistRunning tells.       *)
THEOREM OneWriter == Spec => []SingleWriter
PROOF
<1>1. IInv => SingleWriter
  BY DEF IInv, GenInv, SingleWriter
<1>. QED
  BY Invariance, <1>1, PTL

(* After stopPersistWriter returned no background write runs or starts.    *)
THEOREM StopIsFinal == Spec => []NoWriteAfterStop
PROOF
<1>1. IInv => NoWriteAfterStop
  <2> SUFFICES ASSUME IInv, NEW c \in Closers, spc[c] = "returned",
                      NEW g \in Gens
               PROVE  wpc[g] \in {"none", "exiting", "done"}
    BY DEF NoWriteAfterStop
  <2>1. wpc[g] \in Live => g = cur
    BY DEF IInv, GenInv
  <2>2. g = cur => wpc[g] = "done"
    BY DEF IInv, StopInv, Gens
  <2>. QED
    BY <2>1, <2>2 DEF IInv, TypeOK, WriterLocations, Live
<1>. QED
  BY Invariance, <1>1, PTL

(* The flush that shutdown runs after the stop is durable when it succeeds.*)
THEOREM ShutdownIsDurable == Spec => []ShutdownFlushIsDurable
PROOF
<1>1. IInv => ShutdownFlushIsDurable
  BY DEF IInv, CloserInv
<1>. QED
  BY Invariance, <1>1, PTL

-----------------------------------------------------------------------------
(* The disk's content never goes back to an older version.                 *)
THEOREM DiskOnlyAdvances == Spec => DiskAdvances
PROOF
<1>1. IInv /\ [Next]_vars => [disk' >= disk]_vars
  <2> SUFFICES ASSUME IInv, [Next]_vars PROVE [disk' >= disk]_vars
    OBVIOUS
  <2> USE DEF IInv, TypeOK, VersionInv, LockInv, Version
  <2>1. ASSUME NEW g \in Gens, WriteLands(g) PROVE disk' >= disk
    BY <2>1 DEF WriteLands
  <2>2. ASSUME NEW c \in Callers, FlushLands(c) PROVE disk' >= disk
    BY <2>2 DEF FlushLands
  <2>3. CASE PersistLocked
    BY <2>3 DEF PersistLocked
  <2>4. ASSUME ~PersistLocked, \A g \in Gens : ~WriteLands(g),
               \A c \in Callers : ~FlushLands(c)
        PROVE  disk' = disk
    BY <2>4
    DEF Next, Writer, Flush, Stop, MarkDirty, PersistLockedFails,
        WriterSeesStop, WriterTick, WriterLocks, WriteFails, RecordSuccess,
        RecordFailure, WriterExits, FlushBegin, FlushFails, StopBegin,
        StopReturns, vars
  <2>. QED
    BY <2>1, <2>2, <2>3, <2>4
<1>. QED
  BY Invariance, <1>1, PTL DEF Spec, DiskAdvances

-----------------------------------------------------------------------------
(* Every step is a step of WriteBehind or leaves its variables unchanged.  *)
LEMMA RefinementStep ==
    ASSUME IInv, [Next]_vars
    PROVE  [Abstract!AbstractNext]_(Abstract!abstractVars)
PROOF
<1> USE PersistAssumption
    DEF IInv, TypeOK, LockInv, VersionInv, Version, SaveDue, InFlight,
        Abstract!abstractVars, Abstract!AbstractNext
<1>1. CASE MarkDirty
  BY <1>1
  DEF MarkDirty, StartWriter, MuFree, Gens, Callers, Abstract!Accept,
      persistVars, writerVars, flushVars, stopVars
<1>2. CASE PersistLocked
  BY <1>2
  DEF PersistLocked, MuFree, Gens, Callers, Abstract!AcceptDurably,
      persistVars, writerVars, flushVars, stopVars
<1>3. CASE PersistLockedFails
  BY <1>3
  DEF PersistLockedFails, MuFree, Gens, Callers, Abstract!Refuse,
      persistVars, writerVars, flushVars, stopVars
<1>4. ASSUME NEW g \in Gens, WriterSeesStop(g)
      PROVE  [Abstract!AbstractNext]_(Abstract!abstractVars)
  BY <1>4
  DEF WriterSeesStop, Gens, Callers,
      persistVars, writerVars, flushVars, stopVars
<1>5. ASSUME NEW g \in Gens, WriterTick(g)
      PROVE  [Abstract!AbstractNext]_(Abstract!abstractVars)
  BY <1>5
  DEF WriterTick, Gens, Callers,
      persistVars, writerVars, flushVars, stopVars
<1>6. ASSUME NEW g \in Gens, WriterLocks(g)
      PROVE  [Abstract!AbstractNext]_(Abstract!abstractVars)
  BY <1>6
  DEF WriterLocks, MuFree, Gens, Callers,
      persistVars, writerVars, flushVars, stopVars
<1>7. ASSUME NEW g \in Gens, WriteLands(g)
      PROVE  [Abstract!AbstractNext]_(Abstract!abstractVars)
  BY <1>7
  DEF WriteLands, Gens, Callers, Abstract!Save,
      persistVars, writerVars, flushVars, stopVars
<1>8. ASSUME NEW g \in Gens, WriteFails(g)
      PROVE  [Abstract!AbstractNext]_(Abstract!abstractVars)
  BY <1>8
  DEF WriteFails, Gens, Callers,
      persistVars, writerVars, flushVars, stopVars
<1>9. ASSUME NEW g \in Gens, RecordSuccess(g)
      PROVE  [Abstract!AbstractNext]_(Abstract!abstractVars)
  BY <1>9
  DEF RecordSuccess, Gens, Callers,
      persistVars, writerVars, flushVars, stopVars
<1>10. ASSUME NEW g \in Gens, RecordFailure(g)
      PROVE  [Abstract!AbstractNext]_(Abstract!abstractVars)
  BY <1>10
  DEF RecordFailure, Gens, Callers,
      persistVars, writerVars, flushVars, stopVars
<1>11. ASSUME NEW g \in Gens, WriterExits(g)
      PROVE  [Abstract!AbstractNext]_(Abstract!abstractVars)
  BY <1>11
  DEF WriterExits, Gens, Callers,
      persistVars, writerVars, flushVars, stopVars
<1>12. ASSUME NEW c \in Callers, FlushBegin(c)
      PROVE  [Abstract!AbstractNext]_(Abstract!abstractVars)
  BY <1>12
  DEF FlushBegin, MuFree, MayFlush, Outcome, Gens, Callers,
      persistVars, writerVars, flushVars, stopVars
<1>13. ASSUME NEW c \in Callers, FlushLands(c)
      PROVE  [Abstract!AbstractNext]_(Abstract!abstractVars)
  BY <1>13
  DEF FlushLands, Outcome, Gens, Callers, Abstract!Save,
      persistVars, writerVars, flushVars, stopVars
<1>14. ASSUME NEW c \in Callers, FlushFails(c)
      PROVE  [Abstract!AbstractNext]_(Abstract!abstractVars)
  BY <1>14
  DEF FlushFails, Gens, Callers,
      persistVars, writerVars, flushVars, stopVars
<1>15. ASSUME NEW c \in Closers, StopBegin(c)
      PROVE  [Abstract!AbstractNext]_(Abstract!abstractVars)
  BY <1>15
  DEF StopBegin, Gens, Callers,
      persistVars, writerVars, flushVars, stopVars
<1>16. ASSUME NEW c \in Closers, StopReturns(c)
      PROVE  [Abstract!AbstractNext]_(Abstract!abstractVars)
  BY <1>16
  DEF StopReturns, Gens, Callers,
      persistVars, writerVars, flushVars, stopVars
<1>17. CASE UNCHANGED vars
  BY <1>17 DEF vars
<1>. QED
  BY <1>1, <1>2, <1>3, <1>4, <1>5, <1>6, <1>7, <1>8, <1>9, <1>10, <1>11,
     <1>12, <1>13, <1>14, <1>15, <1>16, <1>17
  DEF Next, Writer, Flush, Stop

(* The writer, its flushes and its stops implement the write-behind store: *)
(* what is due stays due until the memory of some later moment is on disk. *)
THEOREM Implements == Spec => ImplementsWriteBehind
PROOF
<1>1. Init => Abstract!AbstractInit
  BY DEF Init, Abstract!AbstractInit, SaveDue, InFlight
<1>2. IInv /\ [Next]_vars => [Abstract!AbstractNext]_(Abstract!abstractVars)
  BY RefinementStep
<1>. QED
  BY Invariance, <1>1, <1>2, PTL
  DEF Spec, ImplementsWriteBehind, Abstract!AbstractSpec

-----------------------------------------------------------------------------
(***************************************************************************)
(* The other write-behind queue: what is typed on its way to the memory    *)
(* whose way to the disk is proved above (PatchQueue).  Its invariant      *)
(* follows each field of each request through all that is on its way: the  *)
(* edits stand in the order they were typed in, above what the backend     *)
(* has, and end with the last one; what a drain waits for is among the     *)
(* flushes it still awaits.                                                *)
(***************************************************************************)
(* What each place of what is on its way has for field f of request t,     *)
(* None when it is not about it.                                           *)
Column(t, f) ==
    [i \in 1..Len(OnItsWay) |->
        IF OnItsWay[i].target = t THEN OnItsWay[i].patch[f] ELSE None]

(* The first m edits of a column c rise from what the backend has, s, to   *)
(* the last one typed, n, which is the last of them, or has arrived.       *)
Arrives(m, c, s, n) ==
    /\ s <= n
    /\ \A i \in 1..m : c[i] # None => s <= c[i] /\ c[i] <= n
    /\ \A i, j \in 1..m :
          i <= j /\ c[i] # None /\ c[j] # None => c[i] <= c[j]
    /\ \/ s = n /\ \A i \in 1..m : c[i] = None
       \/ \E i \in 1..m : /\ c[i] = n /\ n # None
                          /\ \A j \in 1..m : c[j] # None => j <= i

(* The backend has answered the oldest flush: it has its fields.           *)
ServedIsApplied ==
    served => /\ chain # << >>
              /\ \A f \in Fields : chain[1].patch[f] # None =>
                     server[chain[1].target][f] = chain[1].patch[f]

(* Edits of a field arrive in the order they were typed in, the last one   *)
(* too, unless the user was told.                                          *)
InOrder ==
    \A t \in Requests, f \in Fields :
        /\ typed[t][f] <= edits
        /\ <<t, f>> \notin reported =>
              Arrives(Len(OnItsWay), Column(t, f), server[t][f], typed[t][f])

(* What a drain waits for has all that was typed before it and has not     *)
(* arrived.                                                                *)
DrainAwaits ==
    drain.on =>
      /\ drain.left <= Len(chain)
      /\ \A t \in Requests, f \in Fields : <<t, f>> \notin reported =>
            \/ server[t][f] >= drain.typed[t][f]
            \/ \E i \in 1..drain.left :
                  /\ Column(t, f)[i] # None
                  /\ Column(t, f)[i] >= drain.typed[t][f]

FrontIInv == FrontTypeOK /\ ServedIsApplied /\ InOrder /\ DrainAwaits

(* What mergePatches gives: of each field the later edit, if there is one. *)
LEMMA Merged ==
    ASSUME NEW p \in Patches, NEW q \in Patches
    PROVE  /\ mergePatches(p, q) \in Patches
           /\ \A f \in Fields : mergePatches(p, q)[f] =
                 IF q[f] # None THEN q[f] ELSE p[f]
PROOF
  BY DEF mergePatches, Patches

(* The patch of one keystroke. *)
LEMMA Single ==
    ASSUME NEW f \in Fields, NEW n \in Edits
    PROVE  LET p == [Empty EXCEPT ![f] = n]
           IN  /\ p \in Patches
               /\ p # Empty
               /\ \A g \in Fields : p[g] = IF g = f THEN n ELSE None
PROOF
<1> DEFINE p == [Empty EXCEPT ![f] = n]
<1>1. \A g \in Fields : p[g] = IF g = f THEN n ELSE None
  BY DEF Empty
<1>2. p \in Patches
  BY DEF Empty, Patches
<1>3. p[f] # Empty[f]
  BY <1>1 DEF Empty, Edits, None
<1> QED
  BY <1>1, <1>2, <1>3

(* The patch that says nothing. *)
LEMMA EmptyPatch == Empty \in Patches /\ \A f \in Fields : Empty[f] = None
PROOF
  BY DEF Empty, Patches

(* Any other patch says something. *)
LEMMA SomeField ==
    ASSUME NEW p \in Patches, p # Empty
    PROVE  \E f \in Fields : p[f] # None
PROOF
  BY DEF Empty, Patches

(* Edits are numbers. *)
LEMMA Numbers ==
    ASSUME Bounds, NEW p \in Patches, NEW f \in Fields
    PROVE  p[f] \in Nat
PROOF
  BY DEF Bounds, Patches, Edits, None

(* A sequence with or without one more place. *)
LEMMA WayOf ==
    ASSUME NEW S, NEW ch \in Seq(S), NEW on \in BOOLEAN, NEW last \in S
    PROVE  LET w == IF on THEN Append(ch, last) ELSE ch
           IN  /\ w \in Seq(S)
               /\ Len(w) \in Nat /\ Len(ch) \in Nat
               /\ Len(w) = IF on THEN Len(ch) + 1 ELSE Len(ch)
               /\ \A i \in 1..Len(ch) : w[i] = ch[i]
               /\ on => w[Len(ch) + 1] = last
               /\ DOMAIN w = 1..Len(w)
PROOF
  OBVIOUS

(* What is on its way is the chain, then the queued patch. *)
LEMMA Way ==
    ASSUME FrontTypeOK
    PROVE  /\ OnItsWay \in Seq(Flushes)
           /\ Len(OnItsWay) \in Nat /\ Len(chain) \in Nat
           /\ Len(OnItsWay) = IF hasPending THEN Len(chain) + 1 ELSE Len(chain)
           /\ \A i \in 1..Len(chain) : OnItsWay[i] = chain[i]
           /\ hasPending => OnItsWay[Len(chain) + 1] = [target |-> target, patch |-> patch]
           /\ DOMAIN OnItsWay = 1..Len(OnItsWay)
PROOF
<1>1. [target |-> target, patch |-> patch] \in Flushes /\ chain \in Seq(Flushes)
  BY DEF FrontTypeOK, Flushes
<1>2. hasPending \in BOOLEAN
  BY DEF hasPending
<1> QED
  BY <1>1, <1>2, WayOf DEF OnItsWay

(* The same of the next state. *)
LEMMA WayNext ==
    ASSUME FrontTypeOK'
    PROVE  /\ Len(OnItsWay)' = IF hasPending' THEN Len(chain') + 1 ELSE Len(chain')
           /\ \A i \in 1..Len(chain') : OnItsWay'[i] = chain'[i]
           /\ hasPending' =>
                OnItsWay'[Len(chain') + 1] = [target |-> target', patch |-> patch']
PROOF
<1>1. [target |-> target', patch |-> patch'] \in Flushes /\ chain' \in Seq(Flushes)
  BY DEF FrontTypeOK, Flushes
<1>2. hasPending' \in BOOLEAN
  BY DEF hasPending
<1> QED
  BY <1>1, <1>2, WayOf DEF OnItsWay

(* All that is on its way is a flush of a request. *)
LEMMA AllFlushes ==
    ASSUME Bounds, FrontTypeOK, NEW i \in 1..Len(OnItsWay)
    PROVE  /\ OnItsWay[i] \in Flushes
           /\ OnItsWay[i].target \in Requests
           /\ OnItsWay[i].patch \in Patches
PROOF
<1>1. OnItsWay[i] \in Flushes
  <2>1. OnItsWay \in Seq(Flushes)
    BY Way
  <2> QED
    BY <2>1
<1> QED
  BY <1>1 DEF Flushes

(* The columns are finite sequences of numbers. *)
LEMMA ColumnType ==
    ASSUME Bounds, FrontTypeOK, NEW t \in Requests, NEW f \in Fields
    PROVE  /\ Len(OnItsWay) \in Nat
           /\ Column(t, f) \in [1..Len(OnItsWay) -> Nat]
           /\ server[t][f] \in Nat /\ typed[t][f] \in Nat /\ edits \in Nat
PROOF
<1>1. Len(OnItsWay) \in Nat
  BY Way
<1>2. ASSUME NEW i \in 1..Len(OnItsWay) PROVE OnItsWay[i].patch[f] \in Nat
  BY AllFlushes, Numbers
<1>3. Column(t, f) \in [1..Len(OnItsWay) -> Nat]
  BY <1>2 DEF Column, None
<1>4. server[t] \in Patches /\ typed[t] \in Patches /\ edits \in Nat
  BY DEF FrontTypeOK, Bounds
<1> QED
  BY <1>1, <1>3, <1>4, Numbers

(* A column that arrives ends with the last edit typed. *)
LEMMA ArrivesEnds ==
    ASSUME Bounds, FrontTypeOK, NEW t \in Requests, NEW f \in Fields,
           Arrives(Len(OnItsWay), Column(t, f), server[t][f], typed[t][f])
    PROVE  EndsWith(t, f, typed[t][f])
PROOF
<1> DEFINE m == Len(OnItsWay)
<1> DEFINE c == Column(t, f)
<1>1. Carriers(t, f) = {i \in 1..m : c[i] # None}
  <2>1. DOMAIN OnItsWay = 1..m
    BY Way
  <2> QED
    BY <2>1 DEF Carriers, Column
<1>2. \A i \in Carriers(t, f) : OnItsWay[i].patch[f] = c[i]
  BY <1>1 DEF Column, Carriers
<1>3. CASE server[t][f] = typed[t][f] /\ \A i \in 1..m : c[i] = None
  BY <1>1, <1>3 DEF EndsWith
<1>4. ASSUME NEW i \in 1..m, c[i] = typed[t][f], typed[t][f] # None,
             \A j \in 1..m : c[j] # None => j <= i
      PROVE  EndsWith(t, f, typed[t][f])
  <2>1. i \in Carriers(t, f)
    BY <1>1, <1>4
  <2>2. OnItsWay[i].patch[f] = typed[t][f]
    BY <1>2, <1>4, <2>1
  <2>3. \A j \in Carriers(t, f) : j <= i
    BY <1>1, <1>4
  <2> HIDE DEF c, m
  <2> QED
    BY <2>1, <2>2, <2>3 DEF EndsWith
<1> QED
  BY <1>3, <1>4 DEF Arrives

(* A later flush that says nothing of the field, or a newer edit of it. *)
LEMMA ArrivesOneMore ==
    ASSUME NEW m \in Nat, NEW c, \A i \in 1..m : c[i] \in Nat,
           NEW d, \A i \in 1..m : d[i] = c[i],
           NEW s \in Nat, NEW n \in Nat, NEW k \in Nat, Arrives(m, c, s, n),
           \/ d[m + 1] = None /\ k = n
           \/ d[m + 1] = k /\ k > n
    PROVE  Arrives(m + 1, d, s, k)
PROOF
<1>1. \A i \in 1..(m + 1) : i \in 1..m \/ i = m + 1
  OBVIOUS
<1> QED
  BY <1>1 DEF Arrives, None

(* The youngest flush is given a newer edit of the field. *)
LEMMA ArrivesMerged ==
    ASSUME NEW m \in Nat, m >= 1, NEW c, \A i \in 1..m : c[i] \in Nat,
           NEW d, \A i \in 1..(m - 1) : d[i] = c[i],
           NEW s \in Nat, NEW n \in Nat, NEW k \in Nat, Arrives(m, c, s, n),
           d[m] = k, k > n
    PROVE  Arrives(m, d, s, k)
PROOF
<1>1. \A i \in 1..m : i \in 1..(m - 1) \/ i = m
  OBVIOUS
<1> QED
  BY <1>1 DEF Arrives, None

(* Arrives looks at the first m places only. *)
LEMMA ArrivesSame ==
    ASSUME NEW m \in Nat, NEW c, NEW d, \A i \in 1..m : d[i] = c[i],
           NEW s, NEW n, Arrives(m, c, s, n)
    PROVE  Arrives(m, d, s, n)
PROOF
  BY DEF Arrives

(* The oldest is served. *)
LEMMA ArrivesServed ==
    ASSUME NEW m \in Nat, m >= 1, NEW c, \A i \in 1..m : c[i] \in Nat,
           NEW s \in Nat, NEW n \in Nat, Arrives(m, c, s, n)
    PROVE  Arrives(m, c, IF c[1] # None THEN c[1] ELSE s, n)
PROOF
  BY DEF Arrives, None

(* The oldest leaves when it has arrived or says nothing of the field.     *)
LEMMA ArrivesLeft ==
    ASSUME NEW m \in Nat, m >= 1, NEW c, \A i \in 1..m : c[i] \in Nat,
           NEW d, \A i \in 1..(m - 1) : d[i] = c[i + 1],
           NEW s \in Nat, NEW n \in Nat, Arrives(m, c, s, n),
           c[1] = None \/ c[1] = s
    PROVE  Arrives(m - 1, d, s, n)
PROOF
<1>1. \A i \in 1..(m - 1) : i + 1 \in 1..m
  OBVIOUS
<1>2. \A i \in 1..m : i = 1 \/ i - 1 \in 1..(m - 1)
  OBVIOUS
<1>3. \A i \in 1..m : i = 1 \/ c[i] = d[i - 1]
  BY <1>2
<1>4. /\ \A i \in 1..(m - 1) : d[i] # None => s <= d[i] /\ d[i] <= n
      /\ \A i, j \in 1..(m - 1) :
            i <= j /\ d[i] # None /\ d[j] # None => d[i] <= d[j]
  BY <1>1 DEF Arrives
<1>5. CASE s = n /\ \A i \in 1..m : c[i] = None
  BY <1>1, <1>4, <1>5 DEF Arrives
<1>6. ASSUME NEW i \in 1..m, c[i] = n, n # None,
             \A j \in 1..m : c[j] # None => j <= i
      PROVE  Arrives(m - 1, d, s, n)
  <2>1. \A j \in 1..(m - 1) : d[j] # None => j + 1 <= i
    BY <1>1, <1>6
  <2>2. CASE i = 1
    <3>1. s = n /\ \A j \in 1..(m - 1) : d[j] = None
      BY <1>6, <2>1, <2>2
    <3> QED
      BY <1>4, <3>1 DEF Arrives
  <2>3. CASE i # 1
    <3>1. i - 1 \in 1..(m - 1) /\ d[i - 1] = n
      BY <1>2, <1>3, <1>6, <2>3
    <3>2. \A j \in 1..(m - 1) : d[j] # None => j <= i - 1
      BY <2>1
    <3> QED
      BY <1>4, <1>6, <3>1, <3>2 DEF Arrives
  <2> QED
    BY <2>2, <2>3
<1> QED
  BY <1>5, <1>6 DEF Arrives

(* Append, place by place. *)
LEMMA Appended ==
    ASSUME NEW S, NEW s \in Seq(S), NEW e \in S
    PROVE  /\ Append(s, e) \in Seq(S)
           /\ Len(s) \in Nat /\ Len(Append(s, e)) = Len(s) + 1
           /\ \A i \in 1..Len(s) : Append(s, e)[i] = s[i]
           /\ Append(s, e)[Len(s) + 1] = e
PROOF
  OBVIOUS

(* A flush moves the queued patch to the end of the chain. *)
LEMMA FlushKeeps ==
    ASSUME FrontTypeOK, FrontTypeOK', FlushPatch
    PROVE  OnItsWay' = OnItsWay
PROOF
  BY DEF FlushPatch, OnItsWay, hasPending

(* Appended, or merged into the youngest. *)
LEMMA TypingGoesLast ==
    ASSUME FrontTypeOK, FrontTypeOK', NEW t \in Requests, NEW f \in Fields, patchRequest(t, f)
    PROVE  LET m == Len(OnItsWay)
               new == [Empty EXCEPT ![f] = edits + 1]
           IN  \/ /\ Len(OnItsWay)' = m + 1
                  /\ \A i \in 1..m : OnItsWay'[i] = OnItsWay[i]
                  /\ OnItsWay'[m + 1] = [target |-> t, patch |-> new]
               \/ /\ Len(OnItsWay)' = m
                  /\ m >= 1
                  /\ \A i \in 1..(m - 1) : OnItsWay'[i] = OnItsWay[i]
                  /\ OnItsWay[m].target = t
                  /\ OnItsWay'[m] =
                        [target |-> t, patch |-> mergePatches(OnItsWay[m].patch, new)]
PROOF
<1> DEFINE m == Len(OnItsWay)
<1> DEFINE new == [Empty EXCEPT ![f] = edits + 1]
<1>0. edits + 1 \in Edits
  BY DEF FrontTypeOK, Edits, patchRequest
<1>1. new \in Patches /\ new # Empty /\ \A g \in Fields : new[g] = IF g = f THEN edits + 1 ELSE None
  BY <1>0, Single
<1>2. Queue(t, new) /\ target' = t
  BY DEF patchRequest, Queue
<1> HIDE DEF new, m
<1>3. CASE hasPending /\ target # t
  <2>1. /\ chain' = Append(chain, [target |-> target, patch |-> patch])
        /\ patch' = new
    BY <1>2, <1>3 DEF Queue
  <2>2. hasPending' /\ OnItsWay = Append(chain, [target |-> target, patch |-> patch])
    BY <2>1, <1>1, <1>3 DEF hasPending, OnItsWay
  <2>3. OnItsWay' = Append(OnItsWay, [target |-> t, patch |-> new])
    BY <2>1, <2>2, <1>2 DEF OnItsWay
  <2>4. OnItsWay \in Seq(Flushes) /\ [target |-> t, patch |-> new] \in Flushes
    BY <1>1, Way DEF Flushes
  <2> QED
    BY <2>3, <2>4, Appended DEF m, new
<1>4. CASE ~hasPending
  <2>1. chain' = chain /\ patch' = mergePatches(patch, new) /\ patch = Empty
    BY <1>2, <1>4 DEF Queue, hasPending
  <2>2. patch' = new
    <3>1. patch' \in Patches /\ \A g \in Fields : patch'[g] = new[g]
      BY <2>1, <1>1, Merged, EmptyPatch
    <3> QED
      BY <3>1, <1>1 DEF Patches
  <2>3. OnItsWay = chain /\ OnItsWay' = Append(chain, [target |-> t, patch |-> new])
    BY <2>1, <2>2, <1>1, <1>2, <1>4 DEF hasPending, OnItsWay
  <2>4. OnItsWay \in Seq(Flushes) /\ [target |-> t, patch |-> new] \in Flushes
    BY <1>1, Way DEF Flushes
  <2> QED
    BY <2>3, <2>4, Appended DEF m, new
<1>5. CASE hasPending /\ target = t
  <2>1. chain' = chain /\ patch' = mergePatches(patch, new)
    BY <1>2, <1>5 DEF Queue
  <2>2. hasPending'
    <3>1. patch \in Patches
      BY DEF FrontTypeOK
    <3>2. patch'[f] # None
      BY <2>1, <3>1, <1>1, <1>0, Merged DEF Edits, None
    <3> QED
      BY <3>2, EmptyPatch DEF hasPending
  <2>3. /\ OnItsWay = Append(chain, [target |-> t, patch |-> patch])
        /\ OnItsWay' = Append(chain, [target |-> t, patch |-> patch'])
    BY <2>1, <2>2, <1>2, <1>5 DEF OnItsWay
  <2>4. m = Len(chain) + 1 /\ Len(OnItsWay)' = m
    BY <2>3, <1>5, <2>1, <2>2, Way DEF m, FrontTypeOK
  <2>5. chain \in Seq(Flushes)
    BY DEF FrontTypeOK
  <2> QED
    BY <2>1, <2>3, <2>4, <2>5 DEF m, new
<1> QED
  BY <1>3, <1>4, <1>5

(* Head and Tail, place by place. *)
LEMMA Shortened ==
    ASSUME NEW S, NEW s \in Seq(S), s # << >>
    PROVE  /\ Len(s) \in Nat /\ Len(s) >= 1 /\ Head(s) = s[1] /\ s[1] \in S
           /\ Tail(s) \in Seq(S)
           /\ Len(Tail(s)) = Len(s) - 1
           /\ \A i \in 1..(Len(s) - 1) : Tail(s)[i] = s[i + 1]
PROOF
  OBVIOUS

(* The oldest flush settles and nothing else moves. *)
LEMMA SettledLeaves ==
    ASSUME FrontTypeOK, FrontTypeOK', chain # << >>, chain' = Tail(chain),
           UNCHANGED queueVars
    PROVE  LET m == Len(OnItsWay)
           IN  /\ m >= 1 /\ OnItsWay[1] = chain[1] /\ Head(chain) = chain[1]
               /\ Len(OnItsWay)' = m - 1
               /\ \A i \in 1..(m - 1) : OnItsWay'[i] = OnItsWay[i + 1]
PROOF
<1>1. /\ chain \in Seq(Flushes)
      /\ [target |-> target, patch |-> patch] \in Flushes
      /\ UNCHANGED <<target, patch>> /\ hasPending' = hasPending
  BY DEF FrontTypeOK, Flushes, queueVars, hasPending
<1> DEFINE k == Len(chain)
<1>2. /\ k \in Nat /\ k >= 1 /\ Head(chain) = chain[1]
      /\ chain' \in Seq(Flushes)
      /\ Len(chain') = k - 1
      /\ \A i \in 1..(k - 1) : chain'[i] = chain[i + 1]
  BY <1>1, Shortened
<1> HIDE DEF k
<1>3. CASE ~hasPending
  <2>1. OnItsWay = chain /\ OnItsWay' = chain'
    BY <1>1, <1>3 DEF OnItsWay
  <2> QED
    BY <1>2, <2>1
<1>4. CASE hasPending
  <2> DEFINE p == [target |-> target, patch |-> patch]
  <2>1. OnItsWay = Append(chain, p) /\ OnItsWay' = Append(chain', p)
    BY <1>1, <1>4 DEF OnItsWay
  <2>2. p \in Flushes
    BY <1>1
  <2> HIDE DEF p
  <2>3. /\ Len(OnItsWay) = k + 1
        /\ \A i \in 1..k : OnItsWay[i] = chain[i]
        /\ OnItsWay[k + 1] = p
    BY <1>1, <2>1, <2>2, Appended DEF k
  <2>4. /\ Len(OnItsWay') = k
        /\ \A i \in 1..(k - 1) : OnItsWay'[i] = chain[i + 1]
        /\ OnItsWay'[k] = p
    <3>1. (k - 1) + 1 = k
      BY <1>2
    <3> QED
      BY <1>2, <2>1, <2>2, <3>1, Appended
  <2>5. \A i \in 1..k : i \in 1..(k - 1) \/ i = k
    BY <1>2
  <2>6. \A i \in 1..(k - 1) : i + 1 \in 1..k
    BY <1>2
  <2>7. (k + 1) - 1 = k /\ 1 \in 1..k
    BY <1>2
  <2>8. \A i \in 1..k : OnItsWay'[i] = OnItsWay[i + 1]
    BY <2>3, <2>4, <2>5, <2>6
  <2> QED
    BY <1>2, <2>3, <2>4, <2>7, <2>8
<1> QED
  BY <1>3, <1>4

(* A failed flush goes back under what is queued, or into the empty queue, *)
(* and for a field it does not have this is as if it had settled.          *)
LEMMA FailedLeaves ==
    ASSUME Bounds, FrontTypeOK, FrontTypeOK', chain # << >>, chain' = Tail(chain),
           Recover(Head(chain)),
           NEW t \in Requests, NEW f \in Fields, <<t, f>> \notin reported'
    PROVE  LET m == Len(OnItsWay)
               n == Len(OnItsWay)'
               c == Column(t, f)
               d == Column(t, f)'
           IN  /\ m >= 1 /\ Head(chain) = chain[1] /\ OnItsWay[1] = chain[1]
               /\ c[1] = None
               /\ <<t, f>> \notin reported
               /\ \/ n = m - 1
                  \/ n = m /\ d[m] = None
               /\ \A i \in 1..(m - 1) : d[i] = c[i + 1]
PROOF
<1> DEFINE F == chain[1]
<1> DEFINE k == Len(chain)
<1>1. /\ k \in Nat /\ k >= 1 /\ Head(chain) = F /\ F \in Flushes
      /\ chain' \in Seq(Flushes)
      /\ Len(chain') = k - 1
      /\ \A i \in 1..(k - 1) : chain'[i] = chain[i + 1]
  <2>1. chain \in Seq(Flushes)
    BY DEF FrontTypeOK
  <2> QED
    BY <2>1, Shortened
<1>2. /\ \A i \in 1..k : OnItsWay[i] = chain[i]
      /\ Len(OnItsWay) = IF hasPending THEN k + 1 ELSE k
      /\ hasPending => OnItsWay[k + 1] = [target |-> target, patch |-> patch]
  BY Way
<1>3. /\ \A i \in 1..(k - 1) : OnItsWay'[i] = chain'[i]
      /\ Len(OnItsWay)' = IF hasPending' THEN k ELSE k - 1
      /\ hasPending' => OnItsWay'[k] = [target |-> target', patch |-> patch']
  <2>1. /\ \A i \in 1..Len(chain') : OnItsWay'[i] = chain'[i]
        /\ Len(OnItsWay)' = IF hasPending' THEN Len(chain') + 1 ELSE Len(chain')
        /\ hasPending' => OnItsWay'[Len(chain') + 1] = [target |-> target', patch |-> patch']
    BY WayNext
  <2>2. Len(chain') + 1 = k
    BY <1>1
  <2> QED
    BY <1>1, <2>1, <2>2
<1>4. /\ F.target \in Requests /\ F.patch \in Patches
      /\ patch \in Patches /\ patch' \in Patches
  BY <1>1 DEF Flushes, FrontTypeOK
<1>5. F.target = t => F.patch[f] = None
  BY <1>1 DEF Recover
<1>6. <<t, f>> \notin reported
  BY DEF Recover
<1> HIDE DEF F, k
<1>7. \A i \in 1..(k - 1) : i + 1 \in 1..k /\ OnItsWay'[i] = OnItsWay[i + 1]
  <2>1. \A i \in 1..(k - 1) : i + 1 \in 1..k
    BY <1>1
  <2>2. \A i \in 1..(k - 1) : OnItsWay'[i] = chain[i + 1]
    BY <1>1, <1>3
  <2> QED
    BY <1>2, <2>1, <2>2
<1>8. OnItsWay[1] = F /\ 1 \in 1..k
  BY <1>1, <1>2 DEF F
<1>9. CASE ~hasPending
  <2>1. target' = F.target /\ patch' = F.patch
    BY <1>1, <1>9 DEF Recover
  <2>2. Len(OnItsWay) = k
    BY <1>2, <1>9
  <2>3. Column(t, f)[1] = None
    BY <1>1, <1>5, <1>8, <2>2 DEF Column
  <2>4. \A i \in 1..(k - 1) : Column(t, f)'[i] = Column(t, f)[i + 1]
    <3>1. \A i \in 1..(k - 1) : i \in 1..(Len(OnItsWay)')
      BY <1>1, <1>3
    <3> QED
      BY <1>7, <2>2, <3>1 DEF Column
  <2>5. CASE hasPending'
    <3>1. OnItsWay'[k] = [target |-> F.target, patch |-> F.patch] /\ Len(OnItsWay)' = k
      BY <1>3, <2>1, <2>5
    <3>2. Column(t, f)'[k] = None
      BY <1>1, <1>5, <3>1 DEF Column
    <3> QED
      BY <1>1, <1>6, <1>8, <2>2, <2>3, <2>4, <3>1, <3>2 DEF F
  <2>6. CASE ~hasPending'
    BY <1>1, <1>3, <1>6, <1>8, <2>2, <2>3, <2>4, <2>6 DEF F
  <2> QED
    BY <2>5, <2>6
<1>10. CASE hasPending
  <2>1. /\ target' = target
        /\ patch' = IF target = F.target THEN mergePatches(F.patch, patch) ELSE patch
    BY <1>1, <1>10 DEF Recover
  <2>2. hasPending'
    <3>1. PICK g \in Fields : patch[g] # None
      BY <1>4, <1>10, SomeField DEF hasPending
    <3>2. patch'[g] # None
      BY <1>4, <2>1, <3>1, Merged
    <3> QED
      BY <3>2, EmptyPatch DEF hasPending
  <2>3. target = t => patch'[f] = patch[f]
    BY <1>4, <1>5, <2>1, Merged
  <2>4. Len(OnItsWay) = k + 1 /\ Len(OnItsWay)' = k
    BY <1>2, <1>3, <1>10, <2>2
  <2>5. Column(t, f)[1] = None
    BY <1>1, <1>5, <1>8, <2>4 DEF Column
  <2>6. /\ OnItsWay'[k] = [target |-> target', patch |-> patch']
        /\ OnItsWay[k + 1] = [target |-> target, patch |-> patch]
    BY <1>2, <1>3, <1>10, <2>2
  <2>7. Column(t, f)'[k] = Column(t, f)[k + 1]
    <3>1. k + 1 \in 1..Len(OnItsWay) /\ k \in 1..(Len(OnItsWay)')
      BY <1>1, <2>4
    <3> QED
      BY <2>1, <2>3, <2>6, <3>1 DEF Column
  <2>8. \A i \in 1..(k - 1) : Column(t, f)'[i] = Column(t, f)[i + 1]
    <3>1. \A i \in 1..(k - 1) : i \in 1..(Len(OnItsWay)') /\ i + 1 \in 1..Len(OnItsWay)
      BY <1>1, <2>4
    <3> QED
      BY <1>7, <3>1 DEF Column
  <2>9. \A i \in 1..k : i \in 1..(k - 1) \/ i = k
    BY <1>1
  <2>10. \A i \in 1..k : Column(t, f)'[i] = Column(t, f)[i + 1]
    BY <2>7, <2>8, <2>9
  <2>11. (k + 1) - 1 = k /\ k + 1 >= 1
    BY <1>1
  <2> QED
    BY <1>1, <1>6, <1>8, <2>4, <2>5, <2>10, <2>11 DEF F
<1> QED
  BY <1>9, <1>10

(* The initial state has the right types. *)
LEMMA InitTypes == Bounds /\ FrontInit => FrontTypeOK
PROOF
<1> SUFFICES ASSUME Bounds, FrontInit PROVE FrontTypeOK
  OBVIOUS
<1>1. Empty \in Patches
  BY EmptyPatch
<1>2. /\ server \in [Requests -> Patches] /\ view \in [Requests -> Patches]
      /\ typed \in [Requests -> Patches]
  BY <1>1 DEF FrontInit
<1>3. drain \in [left : Nat, typed : [Requests -> Patches], on : BOOLEAN]
  BY <1>1 DEF FrontInit, NoDrain, None
<1>4. edits \in 0..MaxEdits /\ flushFailures \in 0..MaxFlushFailures
  BY DEF FrontInit, Bounds
<1>5. chain \in Seq(Flushes)
  BY DEF FrontInit
<1> QED
  BY <1>1, <1>2, <1>3, <1>4, <1>5 DEF FrontInit, FrontTypeOK

(* One field of one request is set. *)
LEMMA PutField ==
    ASSUME NEW h \in [Requests -> Patches], NEW t \in Requests,
           NEW f \in Fields, NEW n \in Edits
    PROVE  /\ [h EXCEPT ![t][f] = n] \in [Requests -> Patches]
           /\ \A u \in Requests, g \in Fields :
                 [h EXCEPT ![t][f] = n][u][g] =
                    IF u = t /\ g = f THEN n ELSE h[u][g]
PROOF
<1>1. h[t] \in Patches
  OBVIOUS
<1>2. [h[t] EXCEPT ![f] = n] \in Patches
  BY <1>1 DEF Patches
<1>3. [h EXCEPT ![t][f] = n] = [h EXCEPT ![t] = [h[t] EXCEPT ![f] = n]]
  OBVIOUS
<1>4. \A g \in Fields : [h[t] EXCEPT ![f] = n][g] = IF g = f THEN n ELSE h[t][g]
  BY <1>1 DEF Patches
<1> QED
  BY <1>2, <1>3, <1>4

(* One request is set. *)
LEMMA PutPatch ==
    ASSUME NEW h \in [Requests -> Patches], NEW t \in Requests, NEW p \in Patches
    PROVE  /\ [h EXCEPT ![t] = p] \in [Requests -> Patches]
           /\ \A u \in Requests : [h EXCEPT ![t] = p][u] = IF u = t THEN p ELSE h[u]
PROOF
  OBVIOUS

(* A flush keeps the types of what it changes. *)
LEMMA FlushTypes ==
    ASSUME FrontTypeOK, FlushPatch
    PROVE  /\ patch' \in Patches /\ timer' \in BOOLEAN /\ chain' \in Seq(Flushes)
           /\ target' \in Requests
           /\ Len(chain') \in Nat
PROOF
<1>1. [target |-> target, patch |-> patch] \in Flushes /\ chain \in Seq(Flushes)
  BY DEF FrontTypeOK, Flushes
<1>2. chain' \in Seq(Flushes)
  BY <1>1, Appended DEF FlushPatch
<1>3. Len(chain') \in Nat
  BY <1>2
<1>4. patch' \in Patches /\ timer' \in BOOLEAN
  BY EmptyPatch DEF FlushPatch
<1>5. target' \in Requests
  BY DEF FlushPatch, FrontTypeOK
<1> QED
  BY <1>2, <1>3, <1>4, <1>5

(* Every step keeps the types. *)
LEMMA NextTypes ==
    ASSUME Bounds, FrontTypeOK, ServedIsApplied, FrontNext
    PROVE  FrontTypeOK'
PROOF
<1>1. ASSUME NEW t \in Requests, NEW f \in Fields, patchRequest(t, f)
      PROVE  FrontTypeOK'
  <2> DEFINE new == [Empty EXCEPT ![f] = edits + 1]
  <2>1. edits + 1 \in Edits /\ edits' = edits + 1 /\ edits' \in 0..MaxEdits
    BY <1>1 DEF patchRequest, FrontTypeOK, Edits, Bounds
  <2>2. new \in Patches
    BY <2>1, Single
  <2>3. typed' \in [Requests -> Patches] /\ view' \in [Requests -> Patches]
    <3>1. typed \in [Requests -> Patches] /\ view \in [Requests -> Patches]
      BY DEF FrontTypeOK
    <3>2. /\ typed' = [typed EXCEPT ![t][f] = edits + 1]
          /\ view' = [view EXCEPT ![t][f] = edits + 1]
      BY <1>1, <2>1 DEF patchRequest
    <3> QED
      BY <2>1, <3>1, <3>2, PutField
  <2>4. Queue(t, new) /\ UNCHANGED <<served, server, reported, flushFailures, drain>>
    BY <1>1 DEF patchRequest, faultVars
  <2> HIDE DEF new
  <2>5. chain \in Seq(Flushes) /\ [target |-> target, patch |-> patch] \in Flushes
    BY DEF FrontTypeOK, Flushes
  <2>6. patch' \in Patches
    <3>1. patch \in Patches
      BY DEF FrontTypeOK
    <3> QED
      BY <2>2, <2>4, <3>1, Merged DEF Queue
  <2>8. chain' \in Seq(Flushes)
    BY <2>4, <2>5, Appended DEF Queue
  <2>7. target' \in Requests /\ timer' \in BOOLEAN
    BY <2>4 DEF Queue
  <2> QED
    BY <2>1, <2>3, <2>4, <2>6, <2>7, <2>8 DEF FrontTypeOK
<1>2. CASE TimerFires
  BY <1>2, FlushTypes DEF TimerFires, FrontTypeOK, userVars, faultVars
<1>3. CASE Drain
  <2>1. /\ patch' \in Patches /\ timer' \in BOOLEAN /\ chain' \in Seq(Flushes)
        /\ target' \in Requests /\ Len(chain') \in Nat
    <3>1. CASE FlushPatch
      BY <3>1, FlushTypes
    <3>2. CASE ~FlushPatch
      <4>1. UNCHANGED <<target, patch, chain>> /\ timer' = FALSE
        BY <1>3, <3>2 DEF Drain
      <4>2. chain \in Seq(Flushes) /\ target \in Requests /\ patch \in Patches
        BY DEF FrontTypeOK
      <4>3. Len(chain) \in Nat
        BY <4>2
      <4> QED
        BY <4>1, <4>2, <4>3
    <3> QED
      BY <3>1, <3>2
  <2>2. drain' \in [left : Nat, typed : [Requests -> Patches], on : BOOLEAN]
    BY <1>3, <2>1 DEF Drain, FrontTypeOK
  <2> QED
    BY <1>3, <2>1, <2>2 DEF Drain, FrontTypeOK, userVars, faultVars
<1>4. CASE Proceed
  <2>1. drain' \in [left : Nat, typed : [Requests -> Patches], on : BOOLEAN]
    BY <1>4, EmptyPatch DEF Proceed, NoDrain, None
  <2> QED
    BY <1>4, <2>1 DEF Proceed, FrontTypeOK, queueVars, userVars, faultVars
<1>5. CASE Serve
  <2> DEFINE F == Head(chain)
  <2>1. F \in Flushes
    BY <1>5, Shortened DEF Serve, FrontTypeOK
  <2>2. F.target \in Requests /\ F.patch \in Patches
    BY <2>1 DEF Flushes
  <2>3. server' = [server EXCEPT ![F.target] = mergePatches(server[F.target], F.patch)]
    BY <1>5 DEF Serve
  <2> HIDE DEF F
  <2>4. server \in [Requests -> Patches]
    BY DEF FrontTypeOK
  <2>5. server' \in [Requests -> Patches]
    BY <2>2, <2>3, <2>4, Merged, PutPatch
  <2> QED
    BY <1>5, <2>5 DEF Serve, FrontTypeOK, queueVars, userVars, faultVars
<1>6. ASSUME Settle, chain # << >>
      PROVE  /\ chain' \in Seq(Flushes) /\ served' \in BOOLEAN
             /\ drain' \in [left : Nat, typed : [Requests -> Patches], on : BOOLEAN]
  <2>1. chain' \in Seq(Flushes)
    BY <1>6, Shortened DEF Settle, FrontTypeOK
  <2>2. drain \in [left : Nat, typed : [Requests -> Patches], on : BOOLEAN]
    BY DEF FrontTypeOK
  <2>3. CASE drain.left > 0
    <3>1. drain.left - 1 \in Nat
      BY <2>2, <2>3
    <3>2. drain' = [drain EXCEPT !.left = drain.left - 1]
      BY <1>6, <2>3 DEF Settle
    <3> QED
      BY <1>6, <2>1, <2>2, <3>1, <3>2 DEF Settle
  <2>4. CASE ~(drain.left > 0)
    BY <1>6, <2>1, <2>2, <2>4 DEF Settle
  <2> QED
    BY <2>3, <2>4
<1>7. CASE Return /\ chain # << >>
  <2> DEFINE F == Head(chain)
  <2>1. F.target \in Requests
    <3>1. F \in Flushes
      BY <1>7, Shortened DEF FrontTypeOK
    <3> QED
      BY <3>1 DEF Flushes
  <2>2. PICK p : view' = [view EXCEPT ![F.target] = p] /\
                 (p = mergePatches(server[F.target], patch) \/ p = server[F.target])
    BY <1>7 DEF Return
  <2> HIDE DEF F
  <2>3. p \in Patches
    BY <2>1, <2>2, Merged DEF FrontTypeOK
  <2>4. view' \in [Requests -> Patches]
    BY <2>1, <2>2, <2>3, PutPatch DEF FrontTypeOK
  <2>5. Settle /\ UNCHANGED <<queueVars, server, userVars, faultVars>>
    BY <1>7 DEF Return
  <2> QED
    BY <1>6, <1>7, <2>4, <2>5 DEF FrontTypeOK, queueVars, userVars, faultVars
<1>8. CASE Fail
  <2> DEFINE F == Head(chain)
  <2>1. F.target \in Requests /\ F.patch \in Patches
    <3>1. F \in Flushes
      BY <1>8, Shortened DEF Fail, FrontTypeOK
    <3> QED
      BY <3>1 DEF Flushes
  <2>2. Recover(F) /\ Settle /\ chain # << >>
    BY <1>8 DEF Fail
  <2> HIDE DEF F
  <2>3. target' \in Requests /\ patch' \in Patches
    BY <2>1, <2>2, Merged DEF Recover, FrontTypeOK
  <2>4. reported' \subseteq Requests \X Fields
    BY <2>1, <2>2 DEF Recover, FrontTypeOK
  <2>5. flushFailures' \in 0..MaxFlushFailures
    BY <1>8 DEF Fail, FrontTypeOK, Bounds
  <2> QED
    BY <1>6, <1>8, <2>2, <2>3, <2>4, <2>5 DEF Fail, FrontTypeOK, userVars
<1>9. Return => chain # << >>
  BY DEF Return, ServedIsApplied
<1> QED
  BY <1>1, <1>2, <1>3, <1>4, <1>5, <1>7, <1>8, <1>9 DEF FrontNext

(* The columns after a step that moves nothing. *)
LEMMA ColumnsKept ==
    ASSUME OnItsWay' = OnItsWay, NEW t \in Requests, NEW f \in Fields
    PROVE  Column(t, f)' = Column(t, f) /\ Len(OnItsWay)' = Len(OnItsWay)
PROOF
  BY DEF Column

(* A keystroke keeps the invariant: its number is the newest of its field. *)
LEMMA TypingStep ==
    ASSUME Bounds, FrontIInv, FrontTypeOK', NEW t0 \in Requests, NEW f0 \in Fields,
           patchRequest(t0, f0)
    PROVE  FrontIInv'
PROOF
<1> DEFINE m == Len(OnItsWay)
<1> DEFINE k == edits + 1
<1> DEFINE new == [Empty EXCEPT ![f0] = k]
<1>1. /\ FrontTypeOK /\ ServedIsApplied /\ InOrder /\ DrainAwaits
      /\ k \in Edits /\ edits' = k /\ edits \in Nat /\ k \in Nat
      /\ UNCHANGED <<served, server, reported, drain>>
      /\ typed \in [Requests -> Patches]
      /\ typed' = [typed EXCEPT ![t0][f0] = k]
  BY DEF FrontIInv, FrontTypeOK, patchRequest, Edits, Bounds, faultVars
<1>2. /\ new \in Patches
      /\ \A g \in Fields : new[g] = IF g = f0 THEN k ELSE None
  BY <1>1, Single
<1>3. \A u \in Requests, g \in Fields :
         typed'[u][g] = IF u = t0 /\ g = f0 THEN k ELSE typed[u][g]
  BY <1>1, PutField
<1>4. \/ /\ Len(OnItsWay)' = m + 1
         /\ \A i \in 1..m : OnItsWay'[i] = OnItsWay[i]
         /\ OnItsWay'[m + 1] = [target |-> t0, patch |-> new]
      \/ /\ Len(OnItsWay)' = m
         /\ m >= 1
         /\ \A i \in 1..(m - 1) : OnItsWay'[i] = OnItsWay[i]
         /\ OnItsWay[m].target = t0
         /\ OnItsWay'[m] =
               [target |-> t0, patch |-> mergePatches(OnItsWay[m].patch, new)]
  BY <1>1, TypingGoesLast
<1>5. m \in Nat
  BY <1>1, Way
<1>6. \A i \in 1..Len(chain) : /\ i \in 1..Len(chain') /\ chain'[i] = chain[i]
                               /\ Len(chain) <= Len(chain')
  <2>1. chain \in Seq(Flushes) /\ [target |-> target, patch |-> patch] \in Flushes
    BY <1>1 DEF FrontTypeOK, Flushes
  <2>2. chain' = chain \/ chain' = Append(chain, [target |-> target, patch |-> patch])
    BY DEF patchRequest, Queue
  <2> QED
    BY <2>1, <2>2, Appended
<1> HIDE DEF new, k, m
<1>7. ASSUME NEW t \in Requests, NEW f \in Fields
      PROVE  LET c == Column(t, f)
                 d == Column(t, f)'
                 mine == t = t0 /\ f = f0
             IN  \/ /\ Len(OnItsWay)' = m + 1
                    /\ \A i \in 1..m : d[i] = c[i]
                    /\ d[m + 1] = IF mine THEN k ELSE None
                 \/ /\ Len(OnItsWay)' = m
                    /\ m >= 1
                    /\ \A i \in 1..(m - 1) : d[i] = c[i]
                    /\ d[m] = IF mine THEN k ELSE c[m]
  <2>1. CASE /\ Len(OnItsWay)' = m + 1
             /\ \A i \in 1..m : OnItsWay'[i] = OnItsWay[i]
             /\ OnItsWay'[m + 1] = [target |-> t0, patch |-> new]
    <3>1. /\ \A i \in 1..m : i \in 1..(Len(OnItsWay)')
          /\ m + 1 \in 1..(Len(OnItsWay)')
      BY <1>5, <2>1
    <3>2. \A i \in 1..m : Column(t, f)'[i] = Column(t, f)[i]
      BY <2>1, <3>1 DEF Column, m
    <3>3. Column(t, f)'[m + 1] = IF t = t0 /\ f = f0 THEN k ELSE None
      BY <1>2, <2>1, <3>1 DEF Column
    <3> QED
      BY <2>1, <3>2, <3>3
  <2>2. CASE /\ Len(OnItsWay)' = m
             /\ m >= 1
             /\ \A i \in 1..(m - 1) : OnItsWay'[i] = OnItsWay[i]
             /\ OnItsWay[m].target = t0
             /\ OnItsWay'[m] =
                   [target |-> t0, patch |-> mergePatches(OnItsWay[m].patch, new)]
    <3>1. /\ \A i \in 1..(m - 1) : i \in 1..m
          /\ m \in 1..m /\ Len(OnItsWay)' = m
      BY <1>5, <2>2
    <3>2. \A i \in 1..(m - 1) : Column(t, f)'[i] = Column(t, f)[i]
      BY <2>2, <3>1 DEF Column, m
    <3>3. OnItsWay[m].patch \in Patches
      BY <1>1, <3>1, AllFlushes DEF m
    <3>4. mergePatches(OnItsWay[m].patch, new)[f] =
             IF f = f0 THEN k ELSE OnItsWay[m].patch[f]
      <4>1. k # None
        BY <1>1 DEF Edits, None
      <4> QED
        BY <1>2, <3>3, <4>1, Merged
    <3>5. Column(t, f)'[m] = IF t = t0 THEN mergePatches(OnItsWay[m].patch, new)[f] ELSE None
      BY <2>2, <3>1 DEF Column
    <3>6. Column(t, f)[m] = IF t = t0 THEN OnItsWay[m].patch[f] ELSE None
      BY <2>2, <3>1 DEF Column, m
    <3>7. Column(t, f)'[m] = IF t = t0 /\ f = f0 THEN k ELSE Column(t, f)[m]
      BY <3>4, <3>5, <3>6
    <3> QED
      BY <2>2, <3>2, <3>7
  <2> QED
    BY <1>4, <2>1, <2>2
<1>8. InOrder'
  <2> SUFFICES ASSUME NEW t \in Requests, NEW f \in Fields
               PROVE  /\ typed'[t][f] <= edits'
                      /\ <<t, f>> \notin reported' =>
                            Arrives(Len(OnItsWay)', Column(t, f)', server'[t][f], typed'[t][f])
    BY DEF InOrder
  <2>1. /\ typed[t][f] \in Nat /\ server[t][f] \in Nat /\ typed[t][f] <= edits
        /\ typed[t][f] < k /\ k = edits + 1
        /\ \A i \in 1..m : Column(t, f)[i] \in Nat
    <3>1. /\ typed[t][f] \in Nat /\ server[t][f] \in Nat
          /\ Column(t, f) \in [1..m -> Nat]
      BY <1>1, ColumnType DEF m
    <3>2. typed[t][f] <= edits
      BY <1>1 DEF InOrder
    <3>3. k = edits + 1 /\ edits \in Nat
      BY <1>1 DEF k
    <3> QED
      BY <3>1, <3>2, <3>3
  <2>2. typed'[t][f] <= edits'
    BY <1>1, <1>3, <2>1
  <2>3. ASSUME <<t, f>> \notin reported
        PROVE  Arrives(Len(OnItsWay)', Column(t, f)', server[t][f], typed'[t][f])
    <3>1. Arrives(m, Column(t, f), server[t][f], typed[t][f])
      BY <1>1, <2>3 DEF InOrder, m
    <3> DEFINE c == Column(t, f)
    <3> DEFINE d == Column(t, f)'
    <3>2. CASE t = t0 /\ f = f0
      <4>1. typed'[t][f] = k /\ k > typed[t][f] /\ k \in Nat
        BY <1>1, <1>3, <2>1, <3>2
      <4>2. CASE /\ Len(OnItsWay)' = m + 1
                 /\ \A i \in 1..m : d[i] = c[i]
                 /\ d[m + 1] = k
        <5> HIDE DEF c, d
        <5> QED
          BY <1>5, <2>1, <3>1, <4>1, <4>2, ArrivesOneMore DEF c, d
      <4>3. CASE /\ Len(OnItsWay)' = m
                 /\ m >= 1
                 /\ \A i \in 1..(m - 1) : d[i] = c[i]
                 /\ d[m] = k
        <5>1. \A i \in 1..m : c[i] \in Nat
          BY <2>1
        <5>2. Arrives(m, c, server[t][f], typed[t][f])
          BY <3>1
        <5>3. m \in Nat /\ m >= 1 /\ d[m] = k /\ \A i \in 1..(m - 1) : d[i] = c[i]
          BY <1>5, <4>3
        <5> HIDE DEF c, d
        <5>4. Arrives(m, d, server[t][f], k)
          BY <2>1, <4>1, <5>1, <5>2, <5>3, ArrivesMerged
        <5> QED
          BY <4>1, <4>3, <5>4 DEF d
      <4> QED
        BY <1>7, <3>2, <4>2, <4>3
    <3>3. CASE ~(t = t0 /\ f = f0)
      <4>1. typed'[t][f] = typed[t][f]
        BY <1>3, <3>3
      <4>2. CASE /\ Len(OnItsWay)' = m + 1
                 /\ \A i \in 1..m : d[i] = c[i]
                 /\ d[m + 1] = None
        BY <1>5, <2>1, <3>1, <4>1, <4>2, ArrivesOneMore
      <4>3. CASE /\ Len(OnItsWay)' = m
                 /\ m >= 1
                 /\ \A i \in 1..(m - 1) : d[i] = c[i]
                 /\ d[m] = c[m]
        <5>1. \A i \in 1..m : i \in 1..(m - 1) \/ i = m
          BY <1>5
        <5>2. \A i \in 1..m : d[i] = c[i]
          BY <4>3, <5>1
        <5> QED
          BY <1>5, <3>1, <4>1, <4>3, <5>2, ArrivesSame
      <4> QED
        BY <1>7, <3>3, <4>2, <4>3
    <3> QED
      BY <3>2, <3>3
  <2> QED
    BY <1>1, <2>2, <2>3
<1>9. ServedIsApplied'
  <2> SUFFICES ASSUME served PROVE ServedIsApplied'
    BY <1>1 DEF ServedIsApplied
  <2>1. chain # << >> /\ 1 \in 1..Len(chain)
    <3>1. chain \in Seq(Flushes) /\ chain # << >>
      BY <1>1 DEF ServedIsApplied, FrontTypeOK
    <3> QED
      BY <3>1
  <2>2. chain'[1] = chain[1] /\ chain' # << >>
    <3>1. chain'[1] = chain[1] /\ 1 \in 1..Len(chain')
      BY <1>6, <2>1
    <3>2. chain' \in Seq(Flushes)
      BY DEF FrontTypeOK
    <3> QED
      BY <3>1, <3>2
  <2> QED
    BY <1>1, <2>2 DEF ServedIsApplied
<1>10. DrainAwaits'
  <2> SUFFICES ASSUME drain.on
               PROVE  /\ drain.left <= Len(chain')
                      /\ \A t \in Requests, f \in Fields : <<t, f>> \notin reported =>
                            \/ server[t][f] >= drain.typed[t][f]
                            \/ \E i \in 1..drain.left :
                                  /\ Column(t, f)'[i] # None
                                  /\ Column(t, f)'[i] >= drain.typed[t][f]
    BY <1>1 DEF DrainAwaits
  <2>1. drain.left \in Nat /\ Len(chain) \in Nat /\ Len(chain') \in Nat /\ drain.left <= Len(chain)
    <3>1. chain \in Seq(Flushes) /\ chain' \in Seq(Flushes)
      BY <1>1 DEF FrontTypeOK
    <3>2. drain.left \in Nat /\ drain.left <= Len(chain)
      BY <1>1 DEF FrontTypeOK, DrainAwaits
    <3> QED
      BY <3>1, <3>2
  <2>2. Len(chain) <= Len(chain')
    <3>1. CASE Len(chain) >= 1
      <4>1. Len(chain) \in 1..Len(chain)
        BY <2>1, <3>1
      <4> QED
        BY <1>6, <4>1
    <3> QED
      BY <2>1, <3>1
  <2>3. ASSUME NEW t \in Requests, NEW f \in Fields, NEW i \in 1..drain.left,
               Column(t, f)[i] # None, Column(t, f)[i] >= drain.typed[t][f]
        PROVE  \/ /\ Column(t, f)'[i] # None
                  /\ Column(t, f)'[i] >= drain.typed[t][f]
               \/ <<t, f>> \in reported
    <3>1. Len(chain) <= m
      <4>1. m = Len(chain) + 1 \/ m = Len(chain)
        BY <1>1, Way DEF m
      <4> QED
        BY <2>1, <4>1
    <3>2. i \in 1..m
      BY <1>5, <2>1, <3>1
    <3>3. \/ Column(t, f)'[i] = Column(t, f)[i]
          \/ i = m /\ t = t0 /\ f = f0 /\ Column(t, f)'[i] = k
      <4>1. i \in 1..(m - 1) \/ i = m
        BY <1>5, <3>2
      <4> QED
        BY <1>7, <3>2, <4>1
    <3>4. CASE <<t, f>> \notin reported /\ Column(t, f)'[i] = k
      <4>1. Arrives(m, Column(t, f), server[t][f], typed[t][f]) /\ typed[t][f] <= edits
        BY <1>1, <3>4 DEF InOrder, m
      <4>2. Column(t, f)[i] <= typed[t][f]
        BY <2>3, <3>2, <4>1 DEF Arrives
      <4>3. /\ typed[t][f] \in Nat /\ edits \in Nat
            /\ Column(t, f) \in [1..m -> Nat] /\ k = edits + 1
        BY <1>1, ColumnType DEF m, k
      <4>4. drain.typed[t][f] \in Nat
        <5>1. drain.typed[t] \in Patches
          BY <1>1 DEF FrontTypeOK
        <5> QED
          BY <5>1, Numbers
      <4>5. Column(t, f)[i] \in Nat
        BY <3>2, <4>3
      <4> QED
        BY <2>3, <3>4, <4>1, <4>2, <4>3, <4>4, <4>5 DEF None
    <3> QED
      BY <2>3, <3>3, <3>4
  <2> QED
    BY <1>1, <2>1, <2>2, <2>3 DEF DrainAwaits
<1> QED
  BY <1>8, <1>9, <1>10 DEF FrontIInv

(* A flush keeps the invariant, and a drain that starts awaits every       *)
(* column.                                                                 *)
LEMMA FlushStep ==
    ASSUME Bounds, FrontIInv, FrontTypeOK', TimerFires \/ Drain
    PROVE  FrontIInv'
PROOF
<1>1. /\ FrontTypeOK /\ ServedIsApplied /\ InOrder /\ DrainAwaits
      /\ UNCHANGED <<served, server, reported, typed, edits>>
  BY DEF FrontIInv, TimerFires, Drain, userVars, faultVars
<1>2. FlushPatch \/ (~hasPending /\ UNCHANGED <<target, patch, chain>>)
  BY DEF TimerFires, Drain
<1>3. OnItsWay' = OnItsWay
  <2>1. CASE FlushPatch
    BY <1>1, <2>1, FlushKeeps
  <2>2. CASE ~hasPending /\ UNCHANGED <<target, patch, chain>>
    BY <2>2 DEF OnItsWay, hasPending
  <2> QED
    BY <1>2, <2>1, <2>2
<1>4. chain \in Seq(Flushes) /\ chain' \in Seq(Flushes)
  BY <1>1 DEF FrontTypeOK
<1>5. /\ Len(chain) <= Len(chain') /\ Len(chain) \in Nat /\ Len(chain') \in Nat
      /\ chain # << >> => chain' # << >> /\ chain'[1] = chain[1]
  <2>1. [target |-> target, patch |-> patch] \in Flushes
    BY <1>1 DEF FrontTypeOK, Flushes
  <2>2. chain' = chain \/ chain' = Append(chain, [target |-> target, patch |-> patch])
    BY <1>2 DEF FlushPatch
  <2> QED
    BY <1>4, <2>1, <2>2
<1>6. ServedIsApplied'
  BY <1>1, <1>5 DEF ServedIsApplied
<1>7. \A t \in Requests, f \in Fields :
          Column(t, f)' = Column(t, f) /\ Len(OnItsWay)' = Len(OnItsWay)
  BY <1>3, ColumnsKept
<1>8. InOrder'
  BY <1>1, <1>7 DEF InOrder
<1>9. DrainAwaits'
  <2>1. CASE TimerFires
    <3>1. drain' = drain
      BY <2>1 DEF TimerFires
    <3>2. drain.left \in Nat
      BY <1>1 DEF FrontTypeOK
    <3>3. drain.on => drain.left <= Len(chain')
      BY <1>1, <1>5, <3>2 DEF DrainAwaits
    <3> QED
      BY <1>1, <1>7, <3>1, <3>3 DEF DrainAwaits
  <2>2. CASE Drain
    <3> DEFINE m == Len(OnItsWay)
    <3>1. drain'.left = Len(chain') /\ drain'.typed = typed /\ typed' = typed
      BY <1>1, <2>2 DEF Drain
    <3>2. m = Len(chain')
      <4>1. ~hasPending'
        BY <1>2 DEF FlushPatch, hasPending
      <4>2. Len(OnItsWay)' = Len(chain')
        BY <4>1, WayNext
      <4> QED
        BY <1>3, <4>2
    <3>3. ASSUME NEW t \in Requests, NEW f \in Fields, <<t, f>> \notin reported
          PROVE  \/ server[t][f] >= typed[t][f]
                 \/ \E i \in 1..m : /\ Column(t, f)[i] # None
                                    /\ Column(t, f)[i] >= typed[t][f]
      <4>1. Arrives(m, Column(t, f), server[t][f], typed[t][f])
        BY <1>1, <3>3 DEF InOrder
      <4>2. typed[t][f] \in Nat
        BY <1>1, ColumnType
      <4> QED
        BY <4>1, <4>2 DEF Arrives
    <3> HIDE DEF m
    <3>4. drain'.left <= Len(chain')
      BY <1>5, <3>1
    <3> QED
      BY <1>1, <1>7, <3>1, <3>2, <3>3, <3>4 DEF DrainAwaits
  <2> QED
    BY <2>1, <2>2
<1> QED
  BY <1>6, <1>8, <1>9 DEF FrontIInv

(* When the oldest flush settles, each column has lost its first place,    *)
(* which had arrived or said nothing.                                      *)
LEMMA SettleStep ==
    ASSUME Bounds, FrontIInv, FrontTypeOK', chain # << >>, Settle,
           UNCHANGED <<server, typed, edits>>, reported \subseteq reported',
           \A t \in Requests, f \in Fields : <<t, f>> \notin reported' =>
              /\ Len(OnItsWay) >= 1
              /\ \/ Len(OnItsWay)' = Len(OnItsWay) - 1
                 \/ /\ Len(OnItsWay)' = Len(OnItsWay)
                    /\ Column(t, f)'[Len(OnItsWay)] = None
              /\ \A i \in 1..(Len(OnItsWay) - 1) :
                    Column(t, f)'[i] = Column(t, f)[i + 1]
              /\ Column(t, f)[1] = None \/ Column(t, f)[1] = server[t][f]
    PROVE  FrontIInv'
PROOF
<1> DEFINE m == Len(OnItsWay)
<1>1. /\ FrontTypeOK /\ ServedIsApplied /\ InOrder /\ DrainAwaits
      /\ served' = FALSE /\ m \in Nat
  BY Way DEF FrontIInv, Settle
<1>2. ServedIsApplied'
  BY <1>1 DEF ServedIsApplied
<1>3. \A t \in Requests, f \in Fields :
         /\ Column(t, f) \in [1..m -> Nat]
         /\ server[t][f] \in Nat /\ typed[t][f] \in Nat
  BY <1>1, ColumnType
<1>4. InOrder'
  <2> SUFFICES ASSUME NEW t \in Requests, NEW f \in Fields, <<t, f>> \notin reported'
               PROVE  Arrives(Len(OnItsWay)', Column(t, f)', server[t][f], typed[t][f])
    BY <1>1 DEF InOrder
  <2> DEFINE c == Column(t, f)
  <2> DEFINE d == Column(t, f)'
  <2>1. Arrives(m, c, server[t][f], typed[t][f])
    BY <1>1 DEF InOrder
  <2>2. /\ m >= 1
        /\ \/ Len(OnItsWay)' = m - 1
           \/ Len(OnItsWay)' = m /\ d[m] = None
        /\ \A i \in 1..(m - 1) : d[i] = c[i + 1]
        /\ c[1] = None \/ c[1] = server[t][f]
    OBVIOUS
  <2>3. \A i \in 1..m : c[i] \in Nat
    BY <1>3
  <2>4. server[t][f] \in Nat /\ typed[t][f] \in Nat
    BY <1>3
  <2> HIDE DEF c, d, m
  <2>5. Arrives(m - 1, d, server[t][f], typed[t][f])
    BY <1>1, <2>1, <2>2, <2>3, <2>4, ArrivesLeft
  <2>6. CASE Len(OnItsWay)' = m /\ d[m] = None
    <3>1. m - 1 \in Nat /\ (m - 1) + 1 = m
      BY <1>1, <2>2
    <3>2. \A i \in 1..(m - 1) : d[i] \in Nat
      <4>1. \A i \in 1..(m - 1) : i + 1 \in 1..m
        BY <1>1
      <4> QED
        BY <2>2, <2>3, <4>1
    <3>3. Arrives((m - 1) + 1, d, server[t][f], typed[t][f])
      BY <2>4, <2>5, <2>6, <3>1, <3>2, ArrivesOneMore
    <3> QED
      BY <2>6, <3>1, <3>3 DEF d
  <2> QED
    BY <2>2, <2>5, <2>6 DEF d
<1>5. DrainAwaits'
  <2> SUFFICES ASSUME drain.on PROVE DrainAwaits'
    BY DEF DrainAwaits, Settle
  <2>1. drain.left \in Nat /\ drain.left <= Len(chain)
    BY <1>1 DEF FrontTypeOK, DrainAwaits
  <2>2. /\ Len(chain) \in Nat /\ Len(chain') = Len(chain) - 1 /\ Len(chain) >= 1
        /\ Len(chain) <= m
    <3>1. chain \in Seq(Flushes)
      BY <1>1 DEF FrontTypeOK
    <3>2. m = Len(chain) + 1 \/ m = Len(chain)
      BY <1>1, Way
    <3> QED
      BY <3>1, <3>2, Shortened DEF Settle
  <2>3. /\ drain'.typed = drain.typed
        /\ drain'.left = IF drain.left > 0 THEN drain.left - 1 ELSE 0
    BY <1>1, <2>1 DEF Settle, FrontTypeOK
  <2> HIDE DEF m
  <2>4. drain'.left <= Len(chain')
    BY <2>1, <2>2, <2>3
  <2>5. ASSUME NEW t \in Requests, NEW f \in Fields, <<t, f>> \notin reported',
               ~(server[t][f] >= drain.typed[t][f])
        PROVE  \E i \in 1..(drain'.left) :
                  /\ Column(t, f)'[i] # None
                  /\ Column(t, f)'[i] >= drain.typed[t][f]
    <3>1. PICK i \in 1..drain.left : /\ Column(t, f)[i] # None
                                     /\ Column(t, f)[i] >= drain.typed[t][f]
      BY <1>1, <2>5 DEF DrainAwaits
    <3>2. i # 1
      BY <2>5, <3>1
    <3>3. i - 1 \in 1..(drain'.left) /\ i - 1 \in 1..(m - 1) /\ (i - 1) + 1 = i
      BY <1>1, <2>1, <2>2, <2>3, <3>2
    <3>4. Column(t, f)'[i - 1] = Column(t, f)[i]
      <4>1. \A j \in 1..(m - 1) : Column(t, f)'[j] = Column(t, f)[j + 1]
        BY <2>5 DEF m
      <4> QED
        BY <3>3, <4>1
    <3> QED
      BY <3>1, <3>3, <3>4
  <2> QED
    BY <2>3, <2>4, <2>5 DEF DrainAwaits
<1> QED
  BY <1>2, <1>4, <1>5 DEF FrontIInv

(* A result keeps the invariant: what leaves the chain has been served. *)
LEMMA ReturnStep ==
    ASSUME Bounds, FrontIInv, FrontTypeOK', Return
    PROVE  FrontIInv'
PROOF
<1>1. /\ FrontTypeOK /\ ServedIsApplied
      /\ chain # << >> /\ Settle /\ chain' = Tail(chain)
      /\ UNCHANGED <<server, typed, edits, reported, queueVars>>
  BY DEF FrontIInv, Return, Settle, ServedIsApplied, userVars, faultVars
<1> DEFINE m == Len(OnItsWay)
<1>2. /\ m \in Nat /\ m >= 1 /\ OnItsWay[1] = chain[1]
      /\ Len(OnItsWay)' = m - 1
      /\ \A i \in 1..(m - 1) : OnItsWay'[i] = OnItsWay[i + 1]
  BY <1>1, Way, SettledLeaves
<1>3. ASSUME NEW t \in Requests, NEW f \in Fields
      PROVE  /\ \A i \in 1..(m - 1) : Column(t, f)'[i] = Column(t, f)[i + 1]
             /\ Column(t, f)[1] = None \/ Column(t, f)[1] = server[t][f]
  <2> HIDE DEF m
  <2>1. \A i \in 1..(m - 1) : i \in 1..(Len(OnItsWay)') /\ i + 1 \in 1..m
    BY <1>2
  <2>2. Column(t, f)[1] = IF chain[1].target = t THEN chain[1].patch[f] ELSE None
    <3>1. 1 \in 1..m
      BY <1>2
    <3> QED
      BY <1>2, <3>1 DEF Column, m
  <2>3. chain[1].target = t /\ chain[1].patch[f] # None => server[t][f] = chain[1].patch[f]
    BY <1>1 DEF ServedIsApplied, Return
  <2> QED
    BY <1>2, <2>1, <2>2, <2>3 DEF Column, m
<1> QED
  BY <1>1, <1>2, <1>3, SettleStep

(* A failure keeps the invariant: what leaves the chain is reported. *)
LEMMA FailStep ==
    ASSUME Bounds, FrontIInv, FrontTypeOK', Fail
    PROVE  FrontIInv'
PROOF
<1>1. /\ FrontTypeOK /\ chain # << >> /\ Settle /\ chain' = Tail(chain)
      /\ Recover(Head(chain))
      /\ UNCHANGED <<server, typed, edits>>
  BY DEF FrontIInv, Fail, Settle, userVars
<1>2. reported \subseteq reported'
  BY <1>1 DEF Recover
<1>3. ASSUME NEW t \in Requests, NEW f \in Fields, <<t, f>> \notin reported'
      PROVE  /\ Len(OnItsWay) >= 1
             /\ \/ Len(OnItsWay)' = Len(OnItsWay) - 1
                \/ /\ Len(OnItsWay)' = Len(OnItsWay)
                   /\ Column(t, f)'[Len(OnItsWay)] = None
             /\ \A i \in 1..(Len(OnItsWay) - 1) :
                   Column(t, f)'[i] = Column(t, f)[i + 1]
             /\ Column(t, f)[1] = None
  BY <1>1, <1>3, FailedLeaves
<1> QED
  BY <1>1, <1>2, <1>3, SettleStep

(* UpdateRequestNarrow keeps the invariant: the oldest flush has the least *)
(* edits of its fields.                                                    *)
LEMMA ServeStep ==
    ASSUME Bounds, FrontIInv, FrontTypeOK', Serve
    PROVE  FrontIInv'
PROOF
<1> DEFINE F == chain[1]
<1> DEFINE m == Len(OnItsWay)
<1>1. /\ FrontTypeOK /\ ServedIsApplied /\ InOrder /\ DrainAwaits
      /\ chain # << >> /\ served' = TRUE
      /\ UNCHANGED <<target, patch, chain, typed, edits, reported, drain>>
  BY DEF FrontIInv, Serve, queueVars, userVars, faultVars
<1>2. /\ F \in Flushes /\ Head(chain) = F /\ Len(chain) \in Nat /\ Len(chain) >= 1
  <2>1. chain \in Seq(Flushes)
    BY <1>1 DEF FrontTypeOK
  <2> QED
    BY <1>1, <2>1, Shortened
<1>3. F.target \in Requests /\ F.patch \in Patches /\ server \in [Requests -> Patches]
  BY <1>1, <1>2 DEF Flushes, FrontTypeOK
<1>4. server' = [server EXCEPT ![F.target] = mergePatches(server[F.target], F.patch)]
  BY <1>2 DEF Serve
<1>5. m \in Nat /\ m >= 1 /\ OnItsWay[1] = F
  <2>1. m = Len(chain) + 1 \/ m = Len(chain)
    BY <1>1, Way
  <2>2. 1 \in 1..Len(chain)
    BY <1>2
  <2>3. OnItsWay[1] = chain[1]
    BY <1>1, <2>2, Way
  <2> HIDE DEF m
  <2> QED
    BY <1>2, <2>1, <2>3
<1> HIDE DEF F, m
<1>6. \A t \in Requests, f \in Fields :
         server'[t][f] = IF t = F.target /\ F.patch[f] # None THEN F.patch[f]
                         ELSE server[t][f]
  BY <1>3, <1>4, Merged, PutPatch
<1>7. ServedIsApplied'
  <2>1. \A f \in Fields : F.patch[f] # None => server'[F.target][f] = F.patch[f]
    BY <1>3, <1>6
  <2> QED
    BY <1>1, <2>1 DEF ServedIsApplied, F
<1>8. ASSUME NEW t \in Requests, NEW f \in Fields
      PROVE  /\ Column(t, f)' = Column(t, f) /\ Len(OnItsWay)' = m
             /\ server'[t][f] = IF Column(t, f)[1] # None THEN Column(t, f)[1]
                                ELSE server[t][f]
  <2>1. OnItsWay' = OnItsWay
    BY <1>1 DEF OnItsWay, hasPending
  <2>2. Column(t, f)[1] = IF F.target = t THEN F.patch[f] ELSE None
    <3>1. 1 \in 1..m
      BY <1>5
    <3> QED
      BY <1>5, <3>1 DEF Column, m
  <2> QED
    BY <1>6, <2>1, <2>2, ColumnsKept DEF m
<1>9. \A t \in Requests, f \in Fields :
         /\ Column(t, f) \in [1..m -> Nat]
         /\ server[t][f] \in Nat /\ typed[t][f] \in Nat
  BY <1>1, ColumnType DEF m
<1>10. InOrder'
  <2> SUFFICES ASSUME NEW t \in Requests, NEW f \in Fields, <<t, f>> \notin reported
               PROVE  Arrives(m, Column(t, f), server'[t][f], typed[t][f])
    BY <1>1, <1>8 DEF InOrder
  <2>1. Arrives(m, Column(t, f), server[t][f], typed[t][f])
    BY <1>1 DEF InOrder, m
  <2> DEFINE c == Column(t, f)
  <2>2. \A i \in 1..m : c[i] \in Nat
    BY <1>9
  <2>3. Arrives(m, c, server[t][f], typed[t][f])
    BY <2>1
  <2>4. server'[t][f] = IF c[1] # None THEN c[1] ELSE server[t][f]
    BY <1>8
  <2> HIDE DEF c
  <2>5. Arrives(m, c, IF c[1] # None THEN c[1] ELSE server[t][f], typed[t][f])
    BY <1>5, <1>9, <2>2, <2>3, ArrivesServed
  <2> QED
    BY <2>4, <2>5 DEF c
<1>11. DrainAwaits'
  <2>1. ASSUME NEW t \in Requests, NEW f \in Fields, <<t, f>> \notin reported
        PROVE  server'[t][f] >= server[t][f] /\ server'[t][f] \in Nat
    <3>1. Arrives(m, Column(t, f), server[t][f], typed[t][f])
      BY <1>1, <2>1 DEF InOrder, m
    <3>2. 1 \in 1..m
      BY <1>5
    <3>3. Column(t, f)[1] \in Nat /\ server[t][f] \in Nat
      BY <1>9, <3>2
    <3>4. Column(t, f)[1] # None => server[t][f] <= Column(t, f)[1]
      BY <3>1, <3>2 DEF Arrives
    <3> QED
      BY <1>8, <3>3, <3>4
  <2>2. \A t \in Requests, f \in Fields : drain.typed[t][f] \in Nat
    <3>1. \A t \in Requests : drain.typed[t] \in Patches
      BY <1>1 DEF FrontTypeOK
    <3> QED
      BY <3>1, Numbers
  <2>3. ASSUME NEW t \in Requests, NEW f \in Fields, <<t, f>> \notin reported,
               server[t][f] >= drain.typed[t][f]
        PROVE  server'[t][f] >= drain.typed[t][f]
    BY <1>9, <2>1, <2>2, <2>3
  <2> QED
    BY <1>1, <1>8, <2>3 DEF DrainAwaits
<1> QED
  BY <1>7, <1>10, <1>11 DEF FrontIInv

(* An action that waited goes ahead. *)
LEMMA ProceedStep ==
    ASSUME FrontIInv, FrontTypeOK', Proceed
    PROVE  FrontIInv'
PROOF
<1>1. UNCHANGED <<target, patch, chain, served, server, typed, edits, reported>>
  BY DEF Proceed, queueVars, userVars, faultVars
<1>2. drain' = NoDrain
  BY DEF Proceed
<1>3. OnItsWay' = OnItsWay
  BY <1>1 DEF OnItsWay, hasPending
<1>4. \A t \in Requests, f \in Fields :
          Column(t, f)' = Column(t, f) /\ Len(OnItsWay)' = Len(OnItsWay)
  BY <1>3, ColumnsKept
<1>5. InOrder'
  BY <1>1, <1>4 DEF FrontIInv, InOrder
<1>6. ServedIsApplied'
  BY <1>1 DEF FrontIInv, ServedIsApplied
<1>7. DrainAwaits'
  BY <1>2 DEF DrainAwaits, NoDrain
<1> QED
  BY <1>5, <1>6, <1>7 DEF FrontIInv

(* The inductive invariant of the queue holds initially. *)
LEMMA FrontInitially == Bounds /\ FrontInit => FrontIInv
PROOF
<1> SUFFICES ASSUME Bounds, FrontInit PROVE FrontIInv
  OBVIOUS
<1>1. FrontTypeOK
  BY InitTypes
<1>2. OnItsWay = << >> /\ Len(OnItsWay) = 0
  BY DEF FrontInit, OnItsWay, hasPending
<1>3. ASSUME NEW t \in Requests, NEW f \in Fields
      PROVE  server[t][f] = 0 /\ typed[t][f] = 0 /\ edits = 0
  BY EmptyPatch DEF FrontInit, None
<1>4. InOrder
  BY <1>2, <1>3 DEF InOrder, Arrives
<1>5. ServedIsApplied /\ DrainAwaits
  BY DEF FrontInit, ServedIsApplied, DrainAwaits, NoDrain
<1> QED
  BY <1>1, <1>4, <1>5 DEF FrontIInv

(* Every step of the queue keeps its invariant. *)
LEMMA FrontStep == Bounds /\ FrontIInv /\ [FrontNext]_(frontVars) => FrontIInv'
PROOF
<1> SUFFICES ASSUME Bounds, FrontIInv, [FrontNext]_(frontVars) PROVE FrontIInv'
  OBVIOUS
<1>1. CASE FrontNext
  <2>1. FrontTypeOK'
    BY <1>1, NextTypes DEF FrontIInv
  <2>2. ASSUME NEW t \in Requests, NEW f \in Fields, patchRequest(t, f) PROVE FrontIInv'
    BY <2>1, <2>2, TypingStep
  <2>3. CASE TimerFires \/ Drain
    BY <2>1, <2>3, FlushStep
  <2>4. CASE Proceed
    BY <2>1, <2>4, ProceedStep
  <2>5. CASE Serve
    BY <2>1, <2>5, ServeStep
  <2>6. CASE Return
    BY <2>1, <2>6, ReturnStep
  <2>7. CASE Fail
    BY <2>1, <2>7, FailStep
  <2> QED
    BY <1>1, <2>2, <2>3, <2>4, <2>5, <2>6, <2>7 DEF FrontNext
<1>2. CASE UNCHANGED frontVars
  <2>1. UNCHANGED <<target, patch, timer, chain, served, server, view, edits,
                    typed, reported, flushFailures, drain>>
    BY <1>2 DEF frontVars, queueVars, userVars, faultVars
  <2>2. OnItsWay' = OnItsWay
    BY <2>1 DEF OnItsWay, hasPending
  <2>3. \A t \in Requests, f \in Fields :
            Column(t, f)' = Column(t, f) /\ Len(OnItsWay)' = Len(OnItsWay)
    BY <2>2, ColumnsKept
  <2>4. FrontTypeOK'
    BY <2>1 DEF FrontIInv, FrontTypeOK
  <2>5. ServedIsApplied'
    BY <2>1 DEF FrontIInv, ServedIsApplied
  <2>6. InOrder'
    BY <2>1, <2>3 DEF FrontIInv, InOrder
  <2>7. DrainAwaits'
    BY <2>1, <2>3 DEF FrontIInv, DrainAwaits
  <2> QED
    BY <2>4, <2>5, <2>6, <2>7 DEF FrontIInv
<1> QED
  BY <1>1, <1>2

(* The invariant says what the runs check. *)
LEMMA FrontSays == Bounds /\ FrontIInv => LostIsReported /\ DrainedHasArrived
PROOF
<1> SUFFICES ASSUME Bounds, FrontIInv PROVE LostIsReported /\ DrainedHasArrived
  OBVIOUS
<1>1. LostIsReported
  BY ArrivesEnds DEF FrontIInv, InOrder, LostIsReported
<1>2. DrainedHasArrived
  BY DEF FrontIInv, DrainAwaits, DrainedHasArrived
<1> QED
  BY <1>1, <1>2

(* The states of the patch queue have their types, whatever is typed. *)
THEOREM PatchTypesOK == FrontSpec => []FrontTypeOK
PROOF
<1>1. FrontIInv => FrontTypeOK
  BY DEF FrontIInv
<1> QED
  BY <1>1, PatchAssumption, FrontInitially, FrontStep, PTL DEF FrontSpec

(* No keystroke is lost in silence (patchQueue.ts): whatever the requests, *)
(* the fields, the edits and the failures, the last edit of a field is     *)
(* what the backend ends up with, unless the user was told of a patch with *)
(* that field.                                                             *)
THEOREM NoEditIsLost == FrontSpec => []LostIsReported
PROOF
  BY PatchAssumption, FrontInitially, FrontStep, FrontSays, PTL DEF FrontSpec

(* A send or a save that waited for drainRequestPatchesBeforeAction finds  *)
(* in the backend all that was typed before it, unless the user was told.  *)
THEOREM DrainWaitsForAll == FrontSpec => []DrainedHasArrived
PROOF
  BY PatchAssumption, FrontInitially, FrontStep, FrontSays, PTL DEF FrontSpec
=============================================================================
