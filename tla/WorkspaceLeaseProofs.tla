------------------------ MODULE WorkspaceLeaseProofs ------------------------
(***************************************************************************)
(* Ownership, the registry and the scoped states of any number of windows  *)
(* and workspaces, whatever lapses, fails or crashes.                      *)
(***************************************************************************)
EXTENDS WorkspaceLease, TLAPS

(* A heartbeat that is stale belongs to a window that has lapsed.          *)
StaleHasLapsed == \A k \in stale : lock[k] \in Windows => lock[k] \in lapsed

(* Every window past its launch has a registered target; a persist is      *)
(* about it, a creation about another workspace.                           *)
Targets ==
    \A w \in Windows :
        /\ pc[w] # "off" => target[w] \in registry
        /\ pc[w] \in Guarded \cup {"checked"} => job[w] \in Workspaces
        /\ pc[w] \in {"registered", "written"} => job[w] = target[w]
        /\ pc[w] \in {"off", "launched"} => \A k \in Workspaces : lock[k] # w

(* Behind the guard, the registry is the one that was read, until it is    *)
(* written; a workspace that is being founded has a state and no entry.    *)
BehindGuard ==
    \A w \in Windows :
        /\ pc[w] \in Guarded => guard = w
        /\ pc[w] \in {"guarded", "founded"} => regcopy[w] = registry
        /\ pc[w] = "founded" =>
            job[w] \in stateful \ registry

(* A window that overran has lost its lock for good and is past its write. *)
OverrunIsLast ==
    \A w \in Windows :
        overruns[w] # 0 =>
            /\ overruns[w] = 1
            /\ ~Owns(w)
            /\ pc[w] \in {"written", "running", "ended", "crashed"}

(* As long as nobody overran, an owner's memory reflects what is on disk.  *)
OwnerKnowsDisk ==
    (\A w \in Windows : overruns[w] = 0)
      => \A w \in Windows :
            pc[w] \in Open \ {"acquired"} /\ Owns(w)
              => scoped[target[w]] \subseteq mem[w]

IInv ==
    /\ TypeOK
    /\ StaleHasLapsed
    /\ OpenOwns
    /\ Targets
    /\ BehindGuard
    /\ RegisteredHasState
    /\ OverrunIsLast
    /\ OwnerKnowsDisk

(* Every step keeps the types.                                             *)
LEMMA TypeStep == TypeOK /\ Targets /\ [Next]_vars => TypeOK'
  <1> SUFFICES ASSUME TypeOK /\ Targets, [Next]_vars PROVE TypeOK'
    OBVIOUS
  <1> USE LeaseAssumption DEF TypeOK, Targets, Open, Guarded, Locations, Owns,
          leaseVars, lapseVars, diskVars, editVars, callVars
  <1>1. ASSUME NEW w \in Windows, Acquire(w)
        PROVE  TypeOK'
    BY <1>1 DEF Acquire
  <1>2. ASSUME NEW w \in Windows, AcquireRefused(w)
        PROVE  TypeOK'
    BY <1>2 DEF AcquireRefused
  <1>3. ASSUME NEW w \in Windows, Load(w)
        PROVE  TypeOK'
    BY <1>3 DEF Load
  <1>4. ASSUME NEW w \in Windows, LoadFails(w)
        PROVE  TypeOK'
    BY <1>4 DEF LoadFails, Released
  <1>5. ASSUME NEW w \in Windows, Tick(w)
        PROVE  TypeOK'
    BY <1>5 DEF Tick
  <1>6. ASSUME NEW w \in Windows, OwnershipLost(w)
        PROVE  TypeOK'
    BY <1>6 DEF OwnershipLost
  <1>7. ASSUME NEW w \in Windows, TakeGuard(w)
        PROVE  TypeOK'
    BY <1>7 DEF TakeGuard
  <1>8. ASSUME NEW w \in Windows, WriteRegistry(w)
        PROVE  TypeOK'
    BY <1>8 DEF WriteRegistry
  <1>9. ASSUME NEW w \in Windows, WriteScoped(w)
        PROVE  TypeOK'
    BY <1>9 DEF WriteScoped
  <1>10. ASSUME NEW w \in Windows, FinishPersist(w)
        PROVE  TypeOK'
    BY <1>10 DEF FinishPersist, LeaveGuard
  <1>11. ASSUME NEW w \in Windows, WriteNewState(w)
        PROVE  TypeOK'
    BY <1>11 DEF WriteNewState
  <1>12. ASSUME NEW w \in Windows, RegisterNew(w)
        PROVE  TypeOK'
    BY <1>12 DEF RegisterNew, LeaveGuard
  <1>13. ASSUME NEW w \in Windows, Fail(w)
        PROVE  TypeOK'
    BY <1>13 DEF Fail, LeaveGuard
  <1>14. ASSUME NEW w \in Windows, Close(w)
        PROVE  TypeOK'
    BY <1>14 DEF Close, Released
  <1>15. ASSUME NEW w \in Windows, Crash(w)
        PROVE  TypeOK'
    BY <1>15 DEF Crash
  <1>16. ASSUME NEW w \in Windows, NEW k \in Workspaces, Launch(w, k)
        PROVE  TypeOK'
    BY <1>16 DEF Launch
  <1>17. ASSUME NEW w \in Windows, NEW k \in Workspaces, CheckOwnership(w, k)
        PROVE  TypeOK'
    BY <1>17 DEF CheckOwnership
  <1>18. ASSUME NEW w \in Windows, NEW e \in Edits, Edit(w, e)
        PROVE  TypeOK'
    BY <1>18 DEF Edit
  <1>19. ASSUME NEW k \in Workspaces, Lapse(k)
        PROVE  TypeOK'
    BY <1>19 DEF Lapse
  <1>20. CASE UNCHANGED vars
    BY <1>20 DEF vars
  <1> QED
    BY <1>1, <1>2, <1>3, <1>4, <1>5, <1>6, <1>7, <1>8, <1>9, <1>10,
       <1>11, <1>12, <1>13, <1>14, <1>15, <1>16, <1>17, <1>18, <1>19,
       <1>20
    DEF Next, Persist, OpenInNewWindow

(* A lock changes hands only if it is free, its owner is dead or has       *)
(* lapsed, and only its owner removes it.                                  *)
LEMMA OwnershipStep ==
    TypeOK /\ TypeOK' /\ Targets /\ StaleHasLapsed /\ OpenOwns /\
    [Next]_vars
      => (StaleHasLapsed /\ OpenOwns)'
  <1> SUFFICES ASSUME TypeOK /\ TypeOK' /\ Targets /\ StaleHasLapsed /\
                      OpenOwns, [Next]_vars
               PROVE  (StaleHasLapsed /\ OpenOwns)'
    OBVIOUS
  <1> USE LeaseAssumption DEF TypeOK, Targets, StaleHasLapsed, OpenOwns, Open,
          Guarded, Locations, Owns, Replaceable, Alive, leaseVars, lapseVars,
          diskVars, editVars, callVars
  <1>1. ASSUME NEW w \in Windows, Acquire(w)
        PROVE  (StaleHasLapsed /\ OpenOwns)'
    BY <1>1 DEF Acquire
  <1>2. ASSUME NEW w \in Windows, AcquireRefused(w)
        PROVE  (StaleHasLapsed /\ OpenOwns)'
    BY <1>2 DEF AcquireRefused
  <1>3. ASSUME NEW w \in Windows, Load(w)
        PROVE  (StaleHasLapsed /\ OpenOwns)'
    BY <1>3 DEF Load
  <1>4. ASSUME NEW w \in Windows, LoadFails(w)
        PROVE  (StaleHasLapsed /\ OpenOwns)'
    BY <1>4 DEF LoadFails, Released
  <1>5. ASSUME NEW w \in Windows, Tick(w)
        PROVE  (StaleHasLapsed /\ OpenOwns)'
    BY <1>5 DEF Tick
  <1>6. ASSUME NEW w \in Windows, OwnershipLost(w)
        PROVE  (StaleHasLapsed /\ OpenOwns)'
    BY <1>6 DEF OwnershipLost
  <1>7. ASSUME NEW w \in Windows, TakeGuard(w)
        PROVE  (StaleHasLapsed /\ OpenOwns)'
    BY <1>7 DEF TakeGuard
  <1>8. ASSUME NEW w \in Windows, WriteRegistry(w)
        PROVE  (StaleHasLapsed /\ OpenOwns)'
    BY <1>8 DEF WriteRegistry
  <1>9. ASSUME NEW w \in Windows, WriteScoped(w)
        PROVE  (StaleHasLapsed /\ OpenOwns)'
    BY <1>9 DEF WriteScoped
  <1>10. ASSUME NEW w \in Windows, FinishPersist(w)
        PROVE  (StaleHasLapsed /\ OpenOwns)'
    BY <1>10 DEF FinishPersist, LeaveGuard
  <1>11. ASSUME NEW w \in Windows, WriteNewState(w)
        PROVE  (StaleHasLapsed /\ OpenOwns)'
    BY <1>11 DEF WriteNewState
  <1>12. ASSUME NEW w \in Windows, RegisterNew(w)
        PROVE  (StaleHasLapsed /\ OpenOwns)'
    BY <1>12 DEF RegisterNew, LeaveGuard
  <1>13. ASSUME NEW w \in Windows, Fail(w)
        PROVE  (StaleHasLapsed /\ OpenOwns)'
    BY <1>13 DEF Fail, LeaveGuard
  <1>14. ASSUME NEW w \in Windows, Close(w)
        PROVE  (StaleHasLapsed /\ OpenOwns)'
    BY <1>14 DEF Close, Released
  <1>15. ASSUME NEW w \in Windows, Crash(w)
        PROVE  (StaleHasLapsed /\ OpenOwns)'
    BY <1>15 DEF Crash
  <1>16. ASSUME NEW w \in Windows, NEW k \in Workspaces, Launch(w, k)
        PROVE  (StaleHasLapsed /\ OpenOwns)'
    BY <1>16 DEF Launch
  <1>17. ASSUME NEW w \in Windows, NEW k \in Workspaces, CheckOwnership(w, k)
        PROVE  (StaleHasLapsed /\ OpenOwns)'
    BY <1>17 DEF CheckOwnership
  <1>18. ASSUME NEW w \in Windows, NEW e \in Edits, Edit(w, e)
        PROVE  (StaleHasLapsed /\ OpenOwns)'
    BY <1>18 DEF Edit
  <1>19. ASSUME NEW k \in Workspaces, Lapse(k)
        PROVE  (StaleHasLapsed /\ OpenOwns)'
    BY <1>19 DEF Lapse
  <1>20. CASE UNCHANGED vars
    BY <1>20 DEF vars
  <1> QED
    BY <1>1, <1>2, <1>3, <1>4, <1>5, <1>6, <1>7, <1>8, <1>9, <1>10,
       <1>11, <1>12, <1>13, <1>14, <1>15, <1>16, <1>17, <1>18, <1>19,
       <1>20
    DEF Next, Persist, OpenInNewWindow

(* The registry never loses a target.                                      *)
LEMMA TargetsStep ==
    TypeOK /\ TypeOK' /\ Targets /\ BehindGuard /\ [Next]_vars
      => Targets'
  <1> SUFFICES ASSUME TypeOK /\ TypeOK' /\ Targets /\ BehindGuard, [Next]_vars
               PROVE  Targets'
    OBVIOUS
  <1> USE LeaseAssumption DEF TypeOK, Targets, BehindGuard, Open, Guarded,
          Locations, Owns, leaseVars, lapseVars, diskVars, editVars, callVars
  <1>1. ASSUME NEW w \in Windows, Acquire(w)
        PROVE  Targets'
    BY <1>1 DEF Acquire
  <1>2. ASSUME NEW w \in Windows, AcquireRefused(w)
        PROVE  Targets'
    BY <1>2 DEF AcquireRefused
  <1>3. ASSUME NEW w \in Windows, Load(w)
        PROVE  Targets'
    BY <1>3 DEF Load
  <1>4. ASSUME NEW w \in Windows, LoadFails(w)
        PROVE  Targets'
    BY <1>4 DEF LoadFails, Released
  <1>5. ASSUME NEW w \in Windows, Tick(w)
        PROVE  Targets'
    BY <1>5 DEF Tick
  <1>6. ASSUME NEW w \in Windows, OwnershipLost(w)
        PROVE  Targets'
    BY <1>6 DEF OwnershipLost
  <1>7. ASSUME NEW w \in Windows, TakeGuard(w)
        PROVE  Targets'
    BY <1>7 DEF TakeGuard
  <1>8. ASSUME NEW w \in Windows, WriteRegistry(w)
        PROVE  Targets'
    BY <1>8 DEF WriteRegistry
  <1>9. ASSUME NEW w \in Windows, WriteScoped(w)
        PROVE  Targets'
    BY <1>9 DEF WriteScoped
  <1>10. ASSUME NEW w \in Windows, FinishPersist(w)
        PROVE  Targets'
    BY <1>10 DEF FinishPersist, LeaveGuard
  <1>11. ASSUME NEW w \in Windows, WriteNewState(w)
        PROVE  Targets'
    BY <1>11 DEF WriteNewState
  <1>12. ASSUME NEW w \in Windows, RegisterNew(w)
        PROVE  Targets'
    BY <1>12 DEF RegisterNew, LeaveGuard
  <1>13. ASSUME NEW w \in Windows, Fail(w)
        PROVE  Targets'
    BY <1>13 DEF Fail, LeaveGuard
  <1>14. ASSUME NEW w \in Windows, Close(w)
        PROVE  Targets'
    BY <1>14 DEF Close, Released
  <1>15. ASSUME NEW w \in Windows, Crash(w)
        PROVE  Targets'
    BY <1>15 DEF Crash
  <1>16. ASSUME NEW w \in Windows, NEW k \in Workspaces, Launch(w, k)
        PROVE  Targets'
    BY <1>16 DEF Launch
  <1>17. ASSUME NEW w \in Windows, NEW k \in Workspaces, CheckOwnership(w, k)
        PROVE  Targets'
    BY <1>17 DEF CheckOwnership
  <1>18. ASSUME NEW w \in Windows, NEW e \in Edits, Edit(w, e)
        PROVE  Targets'
    BY <1>18 DEF Edit
  <1>19. ASSUME NEW k \in Workspaces, Lapse(k)
        PROVE  Targets'
    BY <1>19 DEF Lapse
  <1>20. CASE UNCHANGED vars
    BY <1>20 DEF vars
  <1> QED
    BY <1>1, <1>2, <1>3, <1>4, <1>5, <1>6, <1>7, <1>8, <1>9, <1>10,
       <1>11, <1>12, <1>13, <1>14, <1>15, <1>16, <1>17, <1>18, <1>19,
       <1>20
    DEF Next, Persist, OpenInNewWindow

(* Whoever is behind the guard is alone there.                             *)
LEMMA GuardStep ==
    TypeOK /\ TypeOK' /\ Targets /\ BehindGuard /\ [Next]_vars
      => BehindGuard'
  <1> SUFFICES ASSUME TypeOK /\ TypeOK' /\ Targets /\ BehindGuard, [Next]_vars
               PROVE  BehindGuard'
    OBVIOUS
  <1> USE LeaseAssumption DEF TypeOK, Targets, BehindGuard, Open, Guarded,
          Locations, leaseVars, lapseVars, diskVars, editVars, callVars
  <1>1. ASSUME NEW w \in Windows, Acquire(w)
        PROVE  BehindGuard'
    BY <1>1 DEF Acquire
  <1>2. ASSUME NEW w \in Windows, AcquireRefused(w)
        PROVE  BehindGuard'
    BY <1>2 DEF AcquireRefused
  <1>3. ASSUME NEW w \in Windows, Load(w)
        PROVE  BehindGuard'
    BY <1>3 DEF Load
  <1>4. ASSUME NEW w \in Windows, LoadFails(w)
        PROVE  BehindGuard'
    BY <1>4 DEF LoadFails, Released
  <1>5. ASSUME NEW w \in Windows, Tick(w)
        PROVE  BehindGuard'
    BY <1>5 DEF Tick
  <1>6. ASSUME NEW w \in Windows, OwnershipLost(w)
        PROVE  BehindGuard'
    BY <1>6 DEF OwnershipLost
  <1>7. ASSUME NEW w \in Windows, TakeGuard(w)
        PROVE  BehindGuard'
    BY <1>7 DEF TakeGuard
  <1>8. ASSUME NEW w \in Windows, WriteRegistry(w)
        PROVE  BehindGuard'
    BY <1>8 DEF WriteRegistry
  <1>9. ASSUME NEW w \in Windows, WriteScoped(w)
        PROVE  BehindGuard'
    BY <1>9 DEF WriteScoped
  <1>10. ASSUME NEW w \in Windows, FinishPersist(w)
        PROVE  BehindGuard'
    BY <1>10 DEF FinishPersist, LeaveGuard
  <1>11. ASSUME NEW w \in Windows, WriteNewState(w)
        PROVE  BehindGuard'
    BY <1>11 DEF WriteNewState
  <1>12. ASSUME NEW w \in Windows, RegisterNew(w)
        PROVE  BehindGuard'
    BY <1>12 DEF RegisterNew, LeaveGuard
  <1>13. ASSUME NEW w \in Windows, Fail(w)
        PROVE  BehindGuard'
    BY <1>13 DEF Fail, LeaveGuard
  <1>14. ASSUME NEW w \in Windows, Close(w)
        PROVE  BehindGuard'
    BY <1>14 DEF Close, Released
  <1>15. ASSUME NEW w \in Windows, Crash(w)
        PROVE  BehindGuard'
    BY <1>15 DEF Crash
  <1>16. ASSUME NEW w \in Windows, NEW k \in Workspaces, Launch(w, k)
        PROVE  BehindGuard'
    BY <1>16 DEF Launch
  <1>17. ASSUME NEW w \in Windows, NEW k \in Workspaces, CheckOwnership(w, k)
        PROVE  BehindGuard'
    BY <1>17 DEF CheckOwnership
  <1>18. ASSUME NEW w \in Windows, NEW e \in Edits, Edit(w, e)
        PROVE  BehindGuard'
    BY <1>18 DEF Edit
  <1>19. ASSUME NEW k \in Workspaces, Lapse(k)
        PROVE  BehindGuard'
    BY <1>19 DEF Lapse
  <1>20. CASE UNCHANGED vars
    BY <1>20 DEF vars
  <1> QED
    BY <1>1, <1>2, <1>3, <1>4, <1>5, <1>6, <1>7, <1>8, <1>9, <1>10,
       <1>11, <1>12, <1>13, <1>14, <1>15, <1>16, <1>17, <1>18, <1>19,
       <1>20
    DEF Next, Persist, OpenInNewWindow

(* A workspace has a state before it is registered.                        *)
LEMMA StateStep ==
    TypeOK /\ Targets /\ BehindGuard /\ RegisteredHasState /\ [Next]_vars
      => RegisteredHasState'
  <1> SUFFICES ASSUME TypeOK /\ Targets /\ BehindGuard /\ RegisteredHasState,
                      [Next]_vars
               PROVE  RegisteredHasState'
    OBVIOUS
  <1> USE LeaseAssumption DEF TypeOK, Targets, BehindGuard,
          RegisteredHasState, Open, Guarded, Locations, leaseVars, lapseVars,
          diskVars, editVars, callVars
  <1>1. ASSUME NEW w \in Windows, Acquire(w)
        PROVE  RegisteredHasState'
    BY <1>1 DEF Acquire
  <1>2. ASSUME NEW w \in Windows, AcquireRefused(w)
        PROVE  RegisteredHasState'
    BY <1>2 DEF AcquireRefused
  <1>3. ASSUME NEW w \in Windows, Load(w)
        PROVE  RegisteredHasState'
    BY <1>3 DEF Load
  <1>4. ASSUME NEW w \in Windows, LoadFails(w)
        PROVE  RegisteredHasState'
    BY <1>4 DEF LoadFails, Released
  <1>5. ASSUME NEW w \in Windows, Tick(w)
        PROVE  RegisteredHasState'
    BY <1>5 DEF Tick
  <1>6. ASSUME NEW w \in Windows, OwnershipLost(w)
        PROVE  RegisteredHasState'
    BY <1>6 DEF OwnershipLost
  <1>7. ASSUME NEW w \in Windows, TakeGuard(w)
        PROVE  RegisteredHasState'
    BY <1>7 DEF TakeGuard
  <1>8. ASSUME NEW w \in Windows, WriteRegistry(w)
        PROVE  RegisteredHasState'
    BY <1>8 DEF WriteRegistry
  <1>9. ASSUME NEW w \in Windows, WriteScoped(w)
        PROVE  RegisteredHasState'
    BY <1>9 DEF WriteScoped
  <1>10. ASSUME NEW w \in Windows, FinishPersist(w)
        PROVE  RegisteredHasState'
    BY <1>10 DEF FinishPersist, LeaveGuard
  <1>11. ASSUME NEW w \in Windows, WriteNewState(w)
        PROVE  RegisteredHasState'
    BY <1>11 DEF WriteNewState
  <1>12. ASSUME NEW w \in Windows, RegisterNew(w)
        PROVE  RegisteredHasState'
    BY <1>12 DEF RegisterNew, LeaveGuard
  <1>13. ASSUME NEW w \in Windows, Fail(w)
        PROVE  RegisteredHasState'
    BY <1>13 DEF Fail, LeaveGuard
  <1>14. ASSUME NEW w \in Windows, Close(w)
        PROVE  RegisteredHasState'
    BY <1>14 DEF Close, Released
  <1>15. ASSUME NEW w \in Windows, Crash(w)
        PROVE  RegisteredHasState'
    BY <1>15 DEF Crash
  <1>16. ASSUME NEW w \in Windows, NEW k \in Workspaces, Launch(w, k)
        PROVE  RegisteredHasState'
    BY <1>16 DEF Launch
  <1>17. ASSUME NEW w \in Windows, NEW k \in Workspaces, CheckOwnership(w, k)
        PROVE  RegisteredHasState'
    BY <1>17 DEF CheckOwnership
  <1>18. ASSUME NEW w \in Windows, NEW e \in Edits, Edit(w, e)
        PROVE  RegisteredHasState'
    BY <1>18 DEF Edit
  <1>19. ASSUME NEW k \in Workspaces, Lapse(k)
        PROVE  RegisteredHasState'
    BY <1>19 DEF Lapse
  <1>20. CASE UNCHANGED vars
    BY <1>20 DEF vars
  <1> QED
    BY <1>1, <1>2, <1>3, <1>4, <1>5, <1>6, <1>7, <1>8, <1>9, <1>10,
       <1>11, <1>12, <1>13, <1>14, <1>15, <1>16, <1>17, <1>18, <1>19,
       <1>20
    DEF Next, Persist, OpenInNewWindow

(* A window without its lock passes no ownership check any more.           *)
LEMMA OverrunStep ==
    TypeOK /\ TypeOK' /\ Targets /\ OverrunIsLast /\ [Next]_vars
      => OverrunIsLast'
  <1> SUFFICES ASSUME TypeOK /\ TypeOK' /\ Targets /\ OverrunIsLast,
                      [Next]_vars
               PROVE  OverrunIsLast'
    OBVIOUS
  <1> USE LeaseAssumption DEF TypeOK, Targets, OverrunIsLast, Open, Guarded,
          Locations, Owns, leaseVars, lapseVars, diskVars, editVars, callVars
  <1>1. ASSUME NEW w \in Windows, Acquire(w)
        PROVE  OverrunIsLast'
    BY <1>1 DEF Acquire
  <1>2. ASSUME NEW w \in Windows, AcquireRefused(w)
        PROVE  OverrunIsLast'
    BY <1>2 DEF AcquireRefused
  <1>3. ASSUME NEW w \in Windows, Load(w)
        PROVE  OverrunIsLast'
    BY <1>3 DEF Load
  <1>4. ASSUME NEW w \in Windows, LoadFails(w)
        PROVE  OverrunIsLast'
    BY <1>4 DEF LoadFails, Released
  <1>5. ASSUME NEW w \in Windows, Tick(w)
        PROVE  OverrunIsLast'
    BY <1>5 DEF Tick
  <1>6. ASSUME NEW w \in Windows, OwnershipLost(w)
        PROVE  OverrunIsLast'
    BY <1>6 DEF OwnershipLost
  <1>7. ASSUME NEW w \in Windows, TakeGuard(w)
        PROVE  OverrunIsLast'
    BY <1>7 DEF TakeGuard
  <1>8. ASSUME NEW w \in Windows, WriteRegistry(w)
        PROVE  OverrunIsLast'
    BY <1>8 DEF WriteRegistry
  <1>9. ASSUME NEW w \in Windows, WriteScoped(w)
        PROVE  OverrunIsLast'
    BY <1>9 DEF WriteScoped
  <1>10. ASSUME NEW w \in Windows, FinishPersist(w)
        PROVE  OverrunIsLast'
    BY <1>10 DEF FinishPersist, LeaveGuard
  <1>11. ASSUME NEW w \in Windows, WriteNewState(w)
        PROVE  OverrunIsLast'
    BY <1>11 DEF WriteNewState
  <1>12. ASSUME NEW w \in Windows, RegisterNew(w)
        PROVE  OverrunIsLast'
    BY <1>12 DEF RegisterNew, LeaveGuard
  <1>13. ASSUME NEW w \in Windows, Fail(w)
        PROVE  OverrunIsLast'
    BY <1>13 DEF Fail, LeaveGuard
  <1>14. ASSUME NEW w \in Windows, Close(w)
        PROVE  OverrunIsLast'
    BY <1>14 DEF Close, Released
  <1>15. ASSUME NEW w \in Windows, Crash(w)
        PROVE  OverrunIsLast'
    BY <1>15 DEF Crash
  <1>16. ASSUME NEW w \in Windows, NEW k \in Workspaces, Launch(w, k)
        PROVE  OverrunIsLast'
    BY <1>16 DEF Launch
  <1>17. ASSUME NEW w \in Windows, NEW k \in Workspaces, CheckOwnership(w, k)
        PROVE  OverrunIsLast'
    BY <1>17 DEF CheckOwnership
  <1>18. ASSUME NEW w \in Windows, NEW e \in Edits, Edit(w, e)
        PROVE  OverrunIsLast'
    BY <1>18 DEF Edit
  <1>19. ASSUME NEW k \in Workspaces, Lapse(k)
        PROVE  OverrunIsLast'
    BY <1>19 DEF Lapse
  <1>20. CASE UNCHANGED vars
    BY <1>20 DEF vars
  <1> QED
    BY <1>1, <1>2, <1>3, <1>4, <1>5, <1>6, <1>7, <1>8, <1>9, <1>10,
       <1>11, <1>12, <1>13, <1>14, <1>15, <1>16, <1>17, <1>18, <1>19,
       <1>20
    DEF Next, Persist, OpenInNewWindow

(* An owner loads what is on disk, and only it writes there.               *)
LEMMA DiskStep ==
    TypeOK /\ TypeOK' /\ Targets /\ OwnerKnowsDisk /\ [Next]_vars
      => OwnerKnowsDisk'
  <1> SUFFICES ASSUME TypeOK /\ TypeOK' /\ Targets /\ OwnerKnowsDisk,
                      [Next]_vars
               PROVE  OwnerKnowsDisk'
    OBVIOUS
  <1> USE LeaseAssumption DEF TypeOK, Targets, OwnerKnowsDisk, Open, Guarded,
          Locations, Owns, leaseVars, lapseVars, diskVars, editVars, callVars
  <1>1. ASSUME NEW w \in Windows, Acquire(w)
        PROVE  OwnerKnowsDisk'
    BY <1>1 DEF Acquire
  <1>2. ASSUME NEW w \in Windows, AcquireRefused(w)
        PROVE  OwnerKnowsDisk'
    BY <1>2 DEF AcquireRefused
  <1>3. ASSUME NEW w \in Windows, Load(w)
        PROVE  OwnerKnowsDisk'
    BY <1>3 DEF Load
  <1>4. ASSUME NEW w \in Windows, LoadFails(w)
        PROVE  OwnerKnowsDisk'
    BY <1>4 DEF LoadFails, Released
  <1>5. ASSUME NEW w \in Windows, Tick(w)
        PROVE  OwnerKnowsDisk'
    BY <1>5 DEF Tick
  <1>6. ASSUME NEW w \in Windows, OwnershipLost(w)
        PROVE  OwnerKnowsDisk'
    BY <1>6 DEF OwnershipLost
  <1>7. ASSUME NEW w \in Windows, TakeGuard(w)
        PROVE  OwnerKnowsDisk'
    BY <1>7 DEF TakeGuard
  <1>8. ASSUME NEW w \in Windows, WriteRegistry(w)
        PROVE  OwnerKnowsDisk'
    BY <1>8 DEF WriteRegistry
  <1>9. ASSUME NEW w \in Windows, WriteScoped(w)
        PROVE  OwnerKnowsDisk'
    BY <1>9 DEF WriteScoped
  <1>10. ASSUME NEW w \in Windows, FinishPersist(w)
        PROVE  OwnerKnowsDisk'
    BY <1>10 DEF FinishPersist, LeaveGuard
  <1>11. ASSUME NEW w \in Windows, WriteNewState(w)
        PROVE  OwnerKnowsDisk'
    BY <1>11 DEF WriteNewState
  <1>12. ASSUME NEW w \in Windows, RegisterNew(w)
        PROVE  OwnerKnowsDisk'
    BY <1>12 DEF RegisterNew, LeaveGuard
  <1>13. ASSUME NEW w \in Windows, Fail(w)
        PROVE  OwnerKnowsDisk'
    BY <1>13 DEF Fail, LeaveGuard
  <1>14. ASSUME NEW w \in Windows, Close(w)
        PROVE  OwnerKnowsDisk'
    BY <1>14 DEF Close, Released
  <1>15. ASSUME NEW w \in Windows, Crash(w)
        PROVE  OwnerKnowsDisk'
    BY <1>15 DEF Crash
  <1>16. ASSUME NEW w \in Windows, NEW k \in Workspaces, Launch(w, k)
        PROVE  OwnerKnowsDisk'
    BY <1>16 DEF Launch
  <1>17. ASSUME NEW w \in Windows, NEW k \in Workspaces, CheckOwnership(w, k)
        PROVE  OwnerKnowsDisk'
    BY <1>17 DEF CheckOwnership
  <1>18. ASSUME NEW w \in Windows, NEW e \in Edits, Edit(w, e)
        PROVE  OwnerKnowsDisk'
    BY <1>18 DEF Edit
  <1>19. ASSUME NEW k \in Workspaces, Lapse(k)
        PROVE  OwnerKnowsDisk'
    BY <1>19 DEF Lapse
  <1>20. CASE UNCHANGED vars
    BY <1>20 DEF vars
  <1> QED
    BY <1>1, <1>2, <1>3, <1>4, <1>5, <1>6, <1>7, <1>8, <1>9, <1>10,
       <1>11, <1>12, <1>13, <1>14, <1>15, <1>16, <1>17, <1>18, <1>19,
       <1>20
    DEF Next, Persist, OpenInNewWindow

LEMMA InvInit == Init => IInv
  BY LeaseAssumption
  DEF Init, IInv, TypeOK, StaleHasLapsed, OpenOwns, Targets, BehindGuard,
      RegisteredHasState, OverrunIsLast, OwnerKnowsDisk, Open, Guarded,
      Locations, Owns

LEMMA InvStep == IInv /\ [Next]_vars => IInv'
  BY TypeStep, OwnershipStep, TargetsStep, GuardStep, StateStep, OverrunStep,
     DiskStep
  DEF IInv

LEMMA Invariance == Spec => []IInv
  BY InvInit, InvStep, PTL DEF Spec

(* Type correctness.                                                       *)
THEOREM TypeCorrect == Spec => []TypeOK
  BY Invariance, PTL DEF IInv

(* An open window owns its workspace unless its own heartbeat has lapsed.  *)
THEOREM OwnershipHolds == Spec => []OpenOwns
  BY Invariance, PTL DEF IInv

(* A window that lost its workspace writes its state at most once more.    *)
THEOREM OneOverrun == Spec => []AtMostOneOverrun
  <1>1. IInv => AtMostOneOverrun
    <2> SUFFICES ASSUME IInv, NEW w \in Windows PROVE overruns[w] <= 1
      BY DEF AtMostOneOverrun
    <2>1. overruns[w] = 0 \/ overruns[w] = 1
      BY DEF IInv, OverrunIsLast
    <2> QED
      BY <2>1
  <1> QED
    BY <1>1, Invariance, PTL

(* A registered workspace always has a state to load.                      *)
THEOREM RegisteredIsLoadable == Spec => []RegisteredHasState
  BY Invariance, PTL DEF IInv

(* The registry is written only from the copy read behind the guard.       *)
LEMMA RegistryStep == IInv /\ [Next]_vars => registry \subseteq registry'
  <1> SUFFICES ASSUME IInv, [Next]_vars PROVE registry \subseteq registry'
    OBVIOUS
  <1> USE DEF IInv, TypeOK, Targets, BehindGuard, leaseVars, lapseVars,
          diskVars, editVars, callVars
  <1>1. ASSUME NEW w \in Windows, Acquire(w)
        PROVE  registry \subseteq registry'
    BY <1>1 DEF Acquire
  <1>2. ASSUME NEW w \in Windows, AcquireRefused(w)
        PROVE  registry \subseteq registry'
    BY <1>2 DEF AcquireRefused
  <1>3. ASSUME NEW w \in Windows, Load(w)
        PROVE  registry \subseteq registry'
    BY <1>3 DEF Load
  <1>4. ASSUME NEW w \in Windows, LoadFails(w)
        PROVE  registry \subseteq registry'
    BY <1>4 DEF LoadFails, Released
  <1>5. ASSUME NEW w \in Windows, Tick(w)
        PROVE  registry \subseteq registry'
    BY <1>5 DEF Tick
  <1>6. ASSUME NEW w \in Windows, OwnershipLost(w)
        PROVE  registry \subseteq registry'
    BY <1>6 DEF OwnershipLost
  <1>7. ASSUME NEW w \in Windows, TakeGuard(w)
        PROVE  registry \subseteq registry'
    BY <1>7 DEF TakeGuard
  <1>8. ASSUME NEW w \in Windows, WriteRegistry(w)
        PROVE  registry \subseteq registry'
    BY <1>8 DEF WriteRegistry
  <1>9. ASSUME NEW w \in Windows, WriteScoped(w)
        PROVE  registry \subseteq registry'
    BY <1>9 DEF WriteScoped
  <1>10. ASSUME NEW w \in Windows, FinishPersist(w)
        PROVE  registry \subseteq registry'
    BY <1>10 DEF FinishPersist, LeaveGuard
  <1>11. ASSUME NEW w \in Windows, WriteNewState(w)
        PROVE  registry \subseteq registry'
    BY <1>11 DEF WriteNewState
  <1>12. ASSUME NEW w \in Windows, RegisterNew(w)
        PROVE  registry \subseteq registry'
    BY <1>12 DEF RegisterNew, LeaveGuard
  <1>13. ASSUME NEW w \in Windows, Fail(w)
        PROVE  registry \subseteq registry'
    BY <1>13 DEF Fail, LeaveGuard
  <1>14. ASSUME NEW w \in Windows, Close(w)
        PROVE  registry \subseteq registry'
    BY <1>14 DEF Close, Released
  <1>15. ASSUME NEW w \in Windows, Crash(w)
        PROVE  registry \subseteq registry'
    BY <1>15 DEF Crash
  <1>16. ASSUME NEW w \in Windows, NEW k \in Workspaces, Launch(w, k)
        PROVE  registry \subseteq registry'
    BY <1>16 DEF Launch
  <1>17. ASSUME NEW w \in Windows, NEW k \in Workspaces, CheckOwnership(w, k)
        PROVE  registry \subseteq registry'
    BY <1>17 DEF CheckOwnership
  <1>18. ASSUME NEW w \in Windows, NEW e \in Edits, Edit(w, e)
        PROVE  registry \subseteq registry'
    BY <1>18 DEF Edit
  <1>19. ASSUME NEW k \in Workspaces, Lapse(k)
        PROVE  registry \subseteq registry'
    BY <1>19 DEF Lapse
  <1>20. CASE UNCHANGED vars
    BY <1>20 DEF vars
  <1> QED
    BY <1>1, <1>2, <1>3, <1>4, <1>5, <1>6, <1>7, <1>8, <1>9, <1>10,
       <1>11, <1>12, <1>13, <1>14, <1>15, <1>16, <1>17, <1>18, <1>19,
       <1>20
    DEF Next, Persist, OpenInNewWindow

(* The registry only grows.                                                *)
THEOREM RegistryOnlyGrows == Spec => RegistryGrows
  <1>1. IInv /\ [Next]_vars => [registry \subseteq registry']_vars
    BY RegistryStep
  <1> QED
    BY <1>1, Invariance, PTL DEF Spec, RegistryGrows

(* A write by the owner keeps every edit on disk.                          *)
LEMMA ScopedStep ==
    IInv /\ [Next]_vars
      => [(\A w \in Windows : overruns'[w] = 0)
            => \A k \in Workspaces : scoped[k] \subseteq scoped'[k]]_vars
  <1> SUFFICES ASSUME IInv, [Next]_vars,
                      \A w \in Windows : overruns'[w] = 0,
                      NEW k \in Workspaces
               PROVE  scoped[k] \subseteq scoped'[k]
    OBVIOUS
  <1>1. CASE scoped' = scoped
    BY <1>1
  <1>2. ASSUME NEW w \in Windows, WriteScoped(w)
        PROVE  scoped[k] \subseteq scoped'[k]
    <2>1. Owns(w)
      BY <1>2, LeaseAssumption DEF WriteScoped, IInv, TypeOK
    <2>2. \A x \in Windows : overruns[x] = 0
      BY <1>2, <2>1 DEF WriteScoped, IInv, TypeOK
    <2>3. job[w] = target[w] /\ scoped[target[w]] \subseteq mem[w]
      BY <1>2, <2>1, <2>2 DEF WriteScoped, IInv, Targets, OwnerKnowsDisk,
         Open, Guarded
    <2> QED
      BY <1>2, <2>3 DEF WriteScoped, IInv, TypeOK
  <1>3. scoped' = scoped \/ \E w \in Windows : WriteScoped(w)
    BY DEF Next, Persist, OpenInNewWindow, vars, leaseVars, lapseVars,
       diskVars,
       editVars, callVars, LeaveGuard, Launch, Acquire, AcquireRefused, Load,
       LoadFails, Tick, Lapse, Edit, CheckOwnership, OwnershipLost, TakeGuard,
       WriteRegistry, FinishPersist, WriteNewState, RegisterNew, Fail, Close,
       Crash
  <1> QED
    BY <1>1, <1>2, <1>3

(* No write undoes an edit on disk as long as only owners wrote.           *)
THEOREM NothingIsLost == Spec => NothingSavedIsLost
  BY ScopedStep, Invariance, PTL DEF Spec, NothingSavedIsLost
=============================================================================
