----------------------- MODULE RequestLifecycleProofs -----------------------
(***************************************************************************)
(* Proofs about RequestLifecycle for any finite set of executions, any     *)
(* number of CancelRequest calls and any set of pairs.  The inductive      *)
(* invariant adds to the properties what an idle execution and an idle     *)
(* call have not done yet, and that a cancel is marked only on an          *)
(* execution that has not finished, which then learns of it.               *)
(*                                                                         *)
(* The second part is about CollectionTree, whose names are its own.       *)
(***************************************************************************)
EXTENDS RequestLifecycle, CollectionTree, FiniteSetTheorems, SequenceTheorems,
        TLAPS

(* An execution that has not registered left no trace in the registry; an  *)
(* outcome is decided only after the finish.                               *)
ExecInv ==
    \A e \in Execs :
        /\ pc[e] = "idle" => parent[e] = None /\ prev[e] = None
        /\ outcome[e] # "live" => pc[e] \in Ended \cup {"decided"}

(* A cancel marks an entry once, before that execution has finished, which *)
(* then finds out.                                                         *)
CancelInv ==
    /\ \A c \in Cancels :
          /\ cpc[c] = "idle" => ctarget[c] = None
          /\ cpc[c] = "marked" => ctarget[c] # None
          /\ ctarget[c] # None => ctarget[c] \in cancelled
          /\ c \in acked => ctarget[c] \in ctxDone
    /\ \A e \in cancelled :
          /\ \E c \in Cancels : ctarget[c] = e
          /\ pc[e] \in Running \/ finished[e]
          /\ outcome[e] # "completed"

(* A context is cancelled for a reason: its execution's cancel, a newer    *)
(* execution, or the context of its caller.                                *)
CauseInv ==
    \A e \in ctxDone \cup {x \in Execs : finished[x]} :
        \/ \E c \in Cancels : ctarget[c] = e
        \/ \E d \in Execs : prev[d] = e
        \/ Nested(e) /\ ~finished[e]

IInv ==
    /\ TypeOK /\ ExecInv /\ CancelInv /\ CauseInv
    /\ RegistryExact /\ CancelledHasCause /\ NoTransportAfterCancel

-----------------------------------------------------------------------------
(* The inductive invariant holds initially.                                *)
LEMMA InitIInv == Init => IInv
PROOF
<1> USE LifecycleAssumption DEF Init
<1>1. Init => TypeOK
  BY DEF TypeOK, ExecLocations
<1>2. Init => ExecInv /\ CancelInv /\ CauseInv
  BY DEF ExecInv, CancelInv, CauseInv
<1>3. Init => RegistryExact /\ CancelledHasCause /\ NoTransportAfterCancel
  BY DEF RegistryExact, Running, CancelledHasCause, NoTransportAfterCancel
<1>. QED
  BY <1>1, <1>2, <1>3 DEF IInv

(* Every step keeps the types.                                             *)
LEMMA TypeStep ==
    ASSUME IInv, [Next]_vars PROVE TypeOK'
PROOF
<1> USE LifecycleAssumption DEF IInv, TypeOK, ExecLocations, Running, Ended
<1>1. ASSUME NEW e \in Execs, NEW p \in Execs \cup {None}, Register(e, p)
      PROVE  TypeOK'
  <2>1. Cardinality({d \in Execs : pc[d] # "idle"}) \in Nat
    BY FS_Subset, FS_CardinalityType
  <2>. QED
    BY <1>1, <2>1 DEF Register, execVars, cancelVars
<1>2. ASSUME NEW e \in Execs, Supersede(e)
      PROVE  TypeOK'
  BY <1>2 DEF Supersede, CancelContext, vars, registryVars, execVars,
       cancelVars
<1>3. ASSUME NEW e \in Execs, BeginTransport(e)
      PROVE  TypeOK'
  BY <1>3 DEF BeginTransport, Waiting, vars, registryVars, execVars,
       cancelVars
<1>4. ASSUME NEW e \in Execs, EndTransport(e)
      PROVE  TypeOK'
  BY <1>4 DEF EndTransport, vars, registryVars, execVars, cancelVars
<1>5. ASSUME NEW e \in Execs, Finish(e)
      PROVE  TypeOK'
  BY <1>5 DEF Finish, Waiting, vars, registryVars, execVars, cancelVars
<1>6. ASSUME NEW e \in Execs, Decide(e)
      PROVE  TypeOK'
  BY <1>6 DEF Decide, Nested, vars, registryVars, execVars, cancelVars
<1>7. ASSUME NEW e \in Execs, Commit(e)
      PROVE  TypeOK'
  BY <1>7 DEF Commit, vars, registryVars, execVars, cancelVars
<1>8. ASSUME NEW e \in Execs, RequestGone(e)
      PROVE  TypeOK'
  BY <1>8 DEF RequestGone, vars, registryVars, execVars, cancelVars
<1>9. ASSUME NEW e \in Execs, ReturnToScript(e)
      PROVE  TypeOK'
  BY <1>9 DEF ReturnToScript, Nested, vars, registryVars, execVars, cancelVars
<1>10. ASSUME NEW c \in Cancels, NEW k \in Keys, CancelMark(c, k)
      PROVE  TypeOK'
  BY <1>10 DEF CancelMark, vars, registryVars, execVars, cancelVars
<1>11. ASSUME NEW c \in Cancels, CancelCall(c)
      PROVE  TypeOK'
  <2>1. ctarget[c] \in Execs
    BY <1>11 DEF CancelCall, CancelInv
  <2>. QED
    BY <1>11, <2>1 DEF CancelCall, CancelContext, registryVars, execVars
<1>12. CASE UNCHANGED vars
  BY <1>12 DEF vars, registryVars, execVars, cancelVars
<1>. QED
  BY <1>1, <1>2, <1>3, <1>4, <1>5, <1>6, <1>7, <1>8, <1>9, <1>10, <1>11,
       <1>12 DEF Next, Exec

(* Every step keeps ExecInv.                                               *)
LEMMA ExecStep ==
    ASSUME IInv, [Next]_vars PROVE ExecInv'
PROOF
<1> USE LifecycleAssumption DEF IInv, TypeOK, ExecLocations, Running, Ended,
       ExecInv
<1>1. ASSUME NEW e \in Execs, NEW p \in Execs \cup {None}, Register(e, p)
      PROVE  ExecInv'
  BY <1>1 DEF Register, Nested, Waiting, vars, registryVars, execVars,
       cancelVars
<1>2. ASSUME NEW e \in Execs, Supersede(e)
      PROVE  ExecInv'
  BY <1>2 DEF Supersede, CancelContext, vars, registryVars, execVars,
       cancelVars
<1>3. ASSUME NEW e \in Execs, BeginTransport(e)
      PROVE  ExecInv'
  BY <1>3 DEF BeginTransport, Waiting, vars, registryVars, execVars,
       cancelVars
<1>4. ASSUME NEW e \in Execs, EndTransport(e)
      PROVE  ExecInv'
  BY <1>4 DEF EndTransport, vars, registryVars, execVars, cancelVars
<1>5. ASSUME NEW e \in Execs, Finish(e)
      PROVE  ExecInv'
  BY <1>5 DEF Finish, Waiting, vars, registryVars, execVars, cancelVars
<1>6. ASSUME NEW e \in Execs, Decide(e)
      PROVE  ExecInv'
  BY <1>6 DEF Decide, Nested, vars, registryVars, execVars, cancelVars
<1>7. ASSUME NEW e \in Execs, Commit(e)
      PROVE  ExecInv'
  BY <1>7 DEF Commit, vars, registryVars, execVars, cancelVars
<1>8. ASSUME NEW e \in Execs, RequestGone(e)
      PROVE  ExecInv'
  BY <1>8 DEF RequestGone, vars, registryVars, execVars, cancelVars
<1>9. ASSUME NEW e \in Execs, ReturnToScript(e)
      PROVE  ExecInv'
  BY <1>9 DEF ReturnToScript, Nested, vars, registryVars, execVars, cancelVars
<1>10. ASSUME NEW c \in Cancels, NEW k \in Keys, CancelMark(c, k)
      PROVE  ExecInv'
  BY <1>10 DEF CancelMark, vars, registryVars, execVars, cancelVars
<1>11. ASSUME NEW c \in Cancels, CancelCall(c)
      PROVE  ExecInv'
  BY <1>11 DEF CancelCall, CancelContext, vars, registryVars, execVars,
       cancelVars
<1>12. CASE UNCHANGED vars
  BY <1>12 DEF vars, registryVars, execVars, cancelVars
<1>. QED
  BY <1>1, <1>2, <1>3, <1>4, <1>5, <1>6, <1>7, <1>8, <1>9, <1>10, <1>11,
       <1>12 DEF Next, Exec

(* Every step keeps CancelInv.                                             *)
LEMMA CancelStep ==
    ASSUME IInv, [Next]_vars PROVE CancelInv'
PROOF
<1> USE LifecycleAssumption DEF IInv, TypeOK, ExecLocations, Running, Ended,
       ExecInv, CancelInv, RegistryExact
<1>1. ASSUME NEW e \in Execs, NEW p \in Execs \cup {None}, Register(e, p)
      PROVE  CancelInv'
  BY <1>1 DEF Register, Nested, Waiting, vars, registryVars, execVars,
       cancelVars
<1>2. ASSUME NEW e \in Execs, Supersede(e)
      PROVE  CancelInv'
  BY <1>2 DEF Supersede, CancelContext, vars, registryVars, execVars,
       cancelVars
<1>3. ASSUME NEW e \in Execs, BeginTransport(e)
      PROVE  CancelInv'
  BY <1>3 DEF BeginTransport, Waiting, vars, registryVars, execVars,
       cancelVars
<1>4. ASSUME NEW e \in Execs, EndTransport(e)
      PROVE  CancelInv'
  BY <1>4 DEF EndTransport, vars, registryVars, execVars, cancelVars
<1>5. ASSUME NEW e \in Execs, Finish(e)
      PROVE  CancelInv'
  <2>1. /\ cancelled' = cancelled /\ ctarget' = ctarget /\ cpc' = cpc
        /\ acked' = acked /\ ctxDone' = ctxDone /\ outcome' = outcome
    BY <1>5 DEF Finish, cancelVars
  <2>2. ASSUME NEW x \in cancelled PROVE pc'[x] \in Running \/ finished'[x]
    <3>1. CASE x = e
      <4>1. finished \in [Execs -> BOOLEAN]
        OBVIOUS
      <4>2. finished' = [finished EXCEPT ![e] = e \in cancelled]
        BY <1>5 DEF Finish
      <4>3. finished'[e] = (e \in cancelled)
        <5>. HIDE DEF IInv, TypeOK, ExecInv, CancelInv, RegistryExact
        <5>. QED
          BY <4>1, <4>2, Zenon
      <4>. QED
        BY <2>2, <3>1, <4>3, Zenon
    <3>2. CASE x # e
      <4>1. finished'[x] = finished[x] /\ pc'[x] = pc[x]
        BY <1>5, <2>2, <3>2 DEF Finish
      <4>. QED
        BY <2>2, <4>1
    <3>. QED
      BY <3>1, <3>2
  <2>. QED
    BY <2>1, <2>2
<1>6. ASSUME NEW e \in Execs, Decide(e)
      PROVE  CancelInv'
  BY <1>6 DEF Decide, Nested, vars, registryVars, execVars, cancelVars
<1>7. ASSUME NEW e \in Execs, Commit(e)
      PROVE  CancelInv'
  BY <1>7 DEF Commit, vars, registryVars, execVars, cancelVars
<1>8. ASSUME NEW e \in Execs, RequestGone(e)
      PROVE  CancelInv'
  BY <1>8 DEF RequestGone, vars, registryVars, execVars, cancelVars
<1>9. ASSUME NEW e \in Execs, ReturnToScript(e)
      PROVE  CancelInv'
  BY <1>9 DEF ReturnToScript, Nested, vars, registryVars, execVars, cancelVars
<1>10. ASSUME NEW c \in Cancels, NEW k \in Keys, CancelMark(c, k)
      PROVE  CancelInv'
  BY <1>10 DEF CancelMark, vars, registryVars, execVars, cancelVars
<1>11. ASSUME NEW c \in Cancels, CancelCall(c)
      PROVE  CancelInv'
  BY <1>11 DEF CancelCall, CancelContext, vars, registryVars, execVars,
       cancelVars
<1>12. CASE UNCHANGED vars
  BY <1>12 DEF vars, registryVars, execVars, cancelVars
<1>. QED
  BY <1>1, <1>2, <1>3, <1>4, <1>5, <1>6, <1>7, <1>8, <1>9, <1>10, <1>11,
       <1>12 DEF Next, Exec

(* Every step keeps CauseInv.                                              *)
LEMMA CauseStep ==
    ASSUME IInv, [Next]_vars PROVE CauseInv'
PROOF
<1> USE LifecycleAssumption DEF IInv, TypeOK, ExecLocations, Running, Ended,
       ExecInv, CancelInv, CauseInv, Nested
<1>1. ASSUME NEW e \in Execs, NEW p \in Execs \cup {None}, Register(e, p)
      PROVE  CauseInv'
  BY <1>1 DEF Register, Nested, Waiting, vars, registryVars, execVars,
       cancelVars
<1>2. ASSUME NEW e \in Execs, Supersede(e)
      PROVE  CauseInv'
  BY <1>2 DEF Supersede, CancelContext, vars, registryVars, execVars,
       cancelVars
<1>3. ASSUME NEW e \in Execs, BeginTransport(e)
      PROVE  CauseInv'
  BY <1>3 DEF BeginTransport, Waiting, vars, registryVars, execVars,
       cancelVars
<1>4. ASSUME NEW e \in Execs, EndTransport(e)
      PROVE  CauseInv'
  BY <1>4 DEF EndTransport, vars, registryVars, execVars, cancelVars
<1>5. ASSUME NEW e \in Execs, Finish(e)
      PROVE  CauseInv'
  BY <1>5 DEF Finish, Waiting, vars, registryVars, execVars, cancelVars
<1>6. ASSUME NEW e \in Execs, Decide(e)
      PROVE  CauseInv'
  BY <1>6 DEF Decide, Nested, vars, registryVars, execVars, cancelVars
<1>7. ASSUME NEW e \in Execs, Commit(e)
      PROVE  CauseInv'
  BY <1>7 DEF Commit, vars, registryVars, execVars, cancelVars
<1>8. ASSUME NEW e \in Execs, RequestGone(e)
      PROVE  CauseInv'
  BY <1>8 DEF RequestGone, vars, registryVars, execVars, cancelVars
<1>9. ASSUME NEW e \in Execs, ReturnToScript(e)
      PROVE  CauseInv'
  BY <1>9 DEF ReturnToScript, Nested, vars, registryVars, execVars, cancelVars
<1>10. ASSUME NEW c \in Cancels, NEW k \in Keys, CancelMark(c, k)
      PROVE  CauseInv'
  BY <1>10 DEF CancelMark, vars, registryVars, execVars, cancelVars
<1>11. ASSUME NEW c \in Cancels, CancelCall(c)
      PROVE  CauseInv'
  BY <1>11 DEF CancelCall, CancelContext, vars, registryVars, execVars,
       cancelVars
<1>12. CASE UNCHANGED vars
  BY <1>12 DEF vars, registryVars, execVars, cancelVars
<1>. QED
  BY <1>1, <1>2, <1>3, <1>4, <1>5, <1>6, <1>7, <1>8, <1>9, <1>10, <1>11,
       <1>12 DEF Next, Exec

(* Every step keeps the registry exact.                                    *)
LEMMA RegistryStep ==
    ASSUME IInv, [Next]_vars PROVE RegistryExact'
PROOF
<1> USE LifecycleAssumption DEF IInv, TypeOK, ExecLocations, Running, Ended,
       ExecInv, RegistryExact
<1>1. ASSUME NEW e \in Execs, NEW p \in Execs \cup {None}, Register(e, p)
      PROVE  RegistryExact'
  BY <1>1 DEF Register, Nested, Waiting, vars, registryVars, execVars,
       cancelVars
<1>2. ASSUME NEW e \in Execs, Supersede(e)
      PROVE  RegistryExact'
  BY <1>2 DEF Supersede, CancelContext, vars, registryVars, execVars,
       cancelVars
<1>3. ASSUME NEW e \in Execs, BeginTransport(e)
      PROVE  RegistryExact'
  BY <1>3 DEF BeginTransport, Waiting, vars, registryVars, execVars,
       cancelVars
<1>4. ASSUME NEW e \in Execs, EndTransport(e)
      PROVE  RegistryExact'
  BY <1>4 DEF EndTransport, vars, registryVars, execVars, cancelVars
<1>5. ASSUME NEW e \in Execs, Finish(e)
      PROVE  RegistryExact'
  BY <1>5 DEF Finish, Waiting, vars, registryVars, execVars, cancelVars
<1>6. ASSUME NEW e \in Execs, Decide(e)
      PROVE  RegistryExact'
  BY <1>6 DEF Decide, Nested, vars, registryVars, execVars, cancelVars
<1>7. ASSUME NEW e \in Execs, Commit(e)
      PROVE  RegistryExact'
  BY <1>7 DEF Commit, vars, registryVars, execVars, cancelVars
<1>8. ASSUME NEW e \in Execs, RequestGone(e)
      PROVE  RegistryExact'
  BY <1>8 DEF RequestGone, vars, registryVars, execVars, cancelVars
<1>9. ASSUME NEW e \in Execs, ReturnToScript(e)
      PROVE  RegistryExact'
  BY <1>9 DEF ReturnToScript, Nested, vars, registryVars, execVars, cancelVars
<1>10. ASSUME NEW c \in Cancels, NEW k \in Keys, CancelMark(c, k)
      PROVE  RegistryExact'
  BY <1>10 DEF CancelMark, vars, registryVars, execVars, cancelVars
<1>11. ASSUME NEW c \in Cancels, CancelCall(c)
      PROVE  RegistryExact'
  BY <1>11 DEF CancelCall, CancelContext, vars, registryVars, execVars,
       cancelVars
<1>12. CASE UNCHANGED vars
  BY <1>12 DEF vars, registryVars, execVars, cancelVars
<1>. QED
  BY <1>1, <1>2, <1>3, <1>4, <1>5, <1>6, <1>7, <1>8, <1>9, <1>10, <1>11,
       <1>12 DEF Next, Exec

(* Every step keeps NoTransportAfterCancel.                                *)
LEMMA TransportStep ==
    ASSUME IInv, [Next]_vars PROVE NoTransportAfterCancel'
PROOF
<1> USE LifecycleAssumption DEF IInv, TypeOK, ExecLocations, Running, Ended,
       CancelInv, NoTransportAfterCancel
<1>1. ASSUME NEW e \in Execs, NEW p \in Execs \cup {None}, Register(e, p)
      PROVE  NoTransportAfterCancel'
  BY <1>1 DEF Register, Nested, Waiting, vars, registryVars, execVars,
       cancelVars
<1>2. ASSUME NEW e \in Execs, Supersede(e)
      PROVE  NoTransportAfterCancel'
  BY <1>2 DEF Supersede, CancelContext, vars, registryVars, execVars,
       cancelVars
<1>3. ASSUME NEW e \in Execs, BeginTransport(e)
      PROVE  NoTransportAfterCancel'
  BY <1>3 DEF BeginTransport, Waiting, vars, registryVars, execVars,
       cancelVars
<1>4. ASSUME NEW e \in Execs, EndTransport(e)
      PROVE  NoTransportAfterCancel'
  BY <1>4 DEF EndTransport, vars, registryVars, execVars, cancelVars
<1>5. ASSUME NEW e \in Execs, Finish(e)
      PROVE  NoTransportAfterCancel'
  BY <1>5 DEF Finish, Waiting, vars, registryVars, execVars, cancelVars
<1>6. ASSUME NEW e \in Execs, Decide(e)
      PROVE  NoTransportAfterCancel'
  BY <1>6 DEF Decide, Nested, vars, registryVars, execVars, cancelVars
<1>7. ASSUME NEW e \in Execs, Commit(e)
      PROVE  NoTransportAfterCancel'
  BY <1>7 DEF Commit, vars, registryVars, execVars, cancelVars
<1>8. ASSUME NEW e \in Execs, RequestGone(e)
      PROVE  NoTransportAfterCancel'
  BY <1>8 DEF RequestGone, vars, registryVars, execVars, cancelVars
<1>9. ASSUME NEW e \in Execs, ReturnToScript(e)
      PROVE  NoTransportAfterCancel'
  BY <1>9 DEF ReturnToScript, Nested, vars, registryVars, execVars, cancelVars
<1>10. ASSUME NEW c \in Cancels, NEW k \in Keys, CancelMark(c, k)
      PROVE  NoTransportAfterCancel'
  BY <1>10 DEF CancelMark, vars, registryVars, execVars, cancelVars
<1>11. ASSUME NEW c \in Cancels, CancelCall(c)
      PROVE  NoTransportAfterCancel'
  BY <1>11 DEF CancelCall, CancelContext, vars, registryVars, execVars,
       cancelVars
<1>12. CASE UNCHANGED vars
  BY <1>12 DEF vars, registryVars, execVars, cancelVars
<1>. QED
  BY <1>1, <1>2, <1>3, <1>4, <1>5, <1>6, <1>7, <1>8, <1>9, <1>10, <1>11,
       <1>12 DEF Next, Exec

(* Every step keeps CancelledHasCause.                                     *)
LEMMA HasCauseStep ==
    ASSUME IInv, [Next]_vars PROVE CancelledHasCause'
PROOF
<1> USE LifecycleAssumption DEF IInv, TypeOK, ExecLocations, Running, Ended,
       ExecInv, CancelInv, CauseInv, CancelledHasCause, Nested
<1>1. ASSUME NEW e \in Execs, NEW p \in Execs \cup {None}, Register(e, p)
      PROVE  CancelledHasCause'
  BY <1>1 DEF Register, Nested, Waiting, vars, registryVars, execVars,
       cancelVars
<1>2. ASSUME NEW e \in Execs, Supersede(e)
      PROVE  CancelledHasCause'
  BY <1>2 DEF Supersede, CancelContext, vars, registryVars, execVars,
       cancelVars
<1>3. ASSUME NEW e \in Execs, BeginTransport(e)
      PROVE  CancelledHasCause'
  BY <1>3 DEF BeginTransport, Waiting, vars, registryVars, execVars,
       cancelVars
<1>4. ASSUME NEW e \in Execs, EndTransport(e)
      PROVE  CancelledHasCause'
  BY <1>4 DEF EndTransport, vars, registryVars, execVars, cancelVars
<1>5. ASSUME NEW e \in Execs, Finish(e)
      PROVE  CancelledHasCause'
  BY <1>5 DEF Finish, Waiting, vars, registryVars, execVars, cancelVars
<1>6. ASSUME NEW e \in Execs, Decide(e)
      PROVE  CancelledHasCause'
  BY <1>6 DEF Decide, Nested, vars, registryVars, execVars, cancelVars
<1>7. ASSUME NEW e \in Execs, Commit(e)
      PROVE  CancelledHasCause'
  BY <1>7 DEF Commit, vars, registryVars, execVars, cancelVars
<1>8. ASSUME NEW e \in Execs, RequestGone(e)
      PROVE  CancelledHasCause'
  BY <1>8 DEF RequestGone, vars, registryVars, execVars, cancelVars
<1>9. ASSUME NEW e \in Execs, ReturnToScript(e)
      PROVE  CancelledHasCause'
  BY <1>9 DEF ReturnToScript, Nested, vars, registryVars, execVars, cancelVars
<1>10. ASSUME NEW c \in Cancels, NEW k \in Keys, CancelMark(c, k)
      PROVE  CancelledHasCause'
  BY <1>10 DEF CancelMark, vars, registryVars, execVars, cancelVars
<1>11. ASSUME NEW c \in Cancels, CancelCall(c)
      PROVE  CancelledHasCause'
  BY <1>11 DEF CancelCall, CancelContext, vars, registryVars, execVars,
       cancelVars
<1>12. CASE UNCHANGED vars
  BY <1>12 DEF vars, registryVars, execVars, cancelVars
<1>. QED
  BY <1>1, <1>2, <1>3, <1>4, <1>5, <1>6, <1>7, <1>8, <1>9, <1>10, <1>11,
       <1>12 DEF Next, Exec

(* The inductive invariant is an invariant.                                *)
LEMMA Invariance == Spec => []IInv
PROOF
<1>1. IInv /\ [Next]_vars => IInv'
  BY TypeStep, ExecStep, CancelStep, CauseStep, RegistryStep, TransportStep,
     HasCauseStep DEF IInv
<1>. QED
  BY InitIInv, <1>1, PTL DEF Spec

(* Every variable keeps its type, whatever overlaps.                       *)
THEOREM TypeCorrect == Spec => []TypeOK
PROOF
<1>1. IInv => TypeOK
  BY DEF IInv
<1>. QED
  BY Invariance, <1>1, PTL

(* A send whose entry CancelRequest marked is never reported as completed. *)
THEOREM CancelWins == Spec => []AckedCancelWins
PROOF
<1>1. IInv => AckedCancelWins
  BY LifecycleAssumption DEF IInv, CancelInv, AckedCancelWins, TypeOK
<1>. QED
  BY Invariance, <1>1, PTL

(* The registry holds exactly the executions that can be cancelled.        *)
THEOREM RegistryIsExact == Spec => []RegistryExact
PROOF
<1>1. IInv => RegistryExact
  BY DEF IInv
<1>. QED
  BY Invariance, <1>1, PTL

(* Nothing is reported as cancelled that nobody cancelled, and one call    *)
(* takes each cancel.                                                      *)
THEOREM CancelHasCause == Spec => []CancelledHasCause
PROOF
<1>1. IInv => CancelledHasCause
  BY DEF IInv
<1>. QED
  BY Invariance, <1>1, PTL

(* No transport of a send starts after its cancel was acknowledged.        *)
THEOREM CancelStopsTransport == Spec => []NoTransportAfterCancel
PROOF
<1>1. IInv => NoTransportAfterCancel
  BY DEF IInv
<1>. QED
  BY Invariance, <1>1, PTL
-----------------------------------------------------------------------------
(***************************************************************************)
(* CollectionTree, for any finite set of paths, any texts and any bounds.  *)
(* First what its operators do with lists of requests, then one lemma per  *)
(* handler (Careful), then the theorems.  The invariant (Shaped) is small: *)
(* the requests are a list of records, the tabs a record, the prompt's     *)
(* drafts a list.  What a handler keeps, it keeps from any such state.     *)
(***************************************************************************)
(* How many of L come before k.                                            *)
Rank(L, k) == Cardinality({j \in L : j < k})

(* The ranks of a finite set of numbers are those from 0 on, one each.     *)
LEMMA Ranks ==
    ASSUME NEW L, IsFiniteSet(L), L \subseteq Nat
    PROVE  /\ Cardinality(L) \in Nat
           /\ \A k \in L : Rank(L, k) \in 0..(Cardinality(L) - 1)
           /\ \A j, k \in L : j # k => Rank(L, j) # Rank(L, k)
           /\ \A n \in 0..(Cardinality(L) - 1) : \E k \in L : Rank(L, k) = n
PROOF
<1> DEFINE Below(k) == {j \in L : j < k}
<1> DEFINE N == Cardinality(L)
<1>1. N \in Nat
  BY FS_CardinalityType
<1>2. ASSUME NEW k \in L
      PROVE  /\ IsFiniteSet(Below(k))
             /\ Cardinality(Below(k)) \in 0..(N - 1)
  <2>1. IsFiniteSet(L \ {k}) /\ Cardinality(L \ {k}) = N - 1
    BY FS_RemoveElement
  <2>2. Below(k) \in SUBSET (L \ {k})
    BY <1>2
  <2>3. IsFiniteSet(Below(k)) /\ Cardinality(Below(k)) <= N - 1
    BY <2>1, <2>2, FS_Subset
  <2>4. Cardinality(Below(k)) \in Nat
    BY <2>3, FS_CardinalityType
  <2> HIDE DEF Below
  <2> QED
    BY <2>3, <2>4, <1>1
<1>3. ASSUME NEW j \in L, NEW k \in L, j < k
      PROVE  Cardinality(Below(j)) < Cardinality(Below(k))
  <2>0. j \in Nat /\ k \in Nat
    BY <1>3
  <2>1. Below(j) \in SUBSET Below(k) /\ j \in Below(k) /\ j \notin Below(j)
    <3>1. ASSUME NEW i \in L, i < j PROVE i < k
      BY <1>3, <2>0, <3>1
    <3>2. Below(j) \in SUBSET Below(k)
      BY <3>1
    <3> QED
      BY <1>3, <2>0, <3>2
  <2>2. Cardinality(Below(j)) <= Cardinality(Below(k)) /\ Cardinality(Below(j)) # Cardinality(Below(k))
    <3> HIDE DEF Below
    <3> QED
      BY <1>2, <2>1, FS_Subset
  <2> HIDE DEF Below
  <2> QED
    BY <1>2, <2>2
<1>4. ASSUME NEW j \in L, NEW k \in L, j # k
      PROVE  Cardinality(Below(j)) # Cardinality(Below(k))
  <2>1. j < k \/ k < j
    BY <1>4
  <2> HIDE DEF Below
  <2> QED
    BY <2>1, <1>2, <1>3
<1> DEFINE f == [k \in L |-> Cardinality(Below(k))]
<1>5. f \in Injection(L, 0..(N - 1))
  <2>1. f \in [L -> 0..(N - 1)]
    BY <1>2
  <2>2. \A j, k \in L : f[j] = f[k] => j = k
    BY <1>4
  <2> HIDE DEF f
  <2> QED
    BY <2>1, <2>2 DEF Injection, IsInjective
<1>6. IsFiniteSet(0..(N - 1)) /\ Cardinality(0..(N - 1)) = N
  <2> HIDE DEF N
  <2>1. 0 \in Int /\ N - 1 \in Int
    BY <1>1
  <2> QED
    BY <1>1, <2>1, FS_Interval
<1>7. f \in Surjection(L, 0..(N - 1))
  <2> HIDE DEF f, N
  <2> QED
    BY <1>5, <1>6, FS_Injection DEF N
<1>8. \A n \in 0..(N - 1) : \E k \in L : Cardinality(Below(k)) = n
  <2> HIDE DEF Below
  <2> QED
    BY <1>7 DEF Surjection
<1> QED
  BY <1>1, <1>2, <1>4, <1>8 DEF Rank

(* A nonempty finite set of numbers has a least one.                       *)
LEMMA Least ==
    ASSUME NEW L, IsFiniteSet(L), L \subseteq Nat, L # {}
    PROVE  \E m \in L : \A n \in L : m <= n
PROOF
<1>1. Cardinality(L) \in Nat /\ Cardinality(L) # 0
  <2>1. Cardinality(L) \in Nat
    BY FS_CardinalityType
  <2>2. Cardinality(L) # 0
    BY FS_EmptySet
  <2> QED
    BY <2>1, <2>2
<1>0. 0 \in 0..(Cardinality(L) - 1)
  BY <1>1
<1>2. PICK m \in L : Rank(L, m) = 0
  BY <1>0, Ranks
<1>3. IsFiniteSet({j \in L : j < m})
  BY FS_Subset, {j \in L : j < m} \in SUBSET L
<1>4. {j \in L : j < m} = {}
  BY <1>2, <1>3, FS_EmptySet DEF Rank
<1> QED
  BY <1>4

(* A list: a sequence of whatever.                                         *)
IsList(s) == s \in Seq({s[k] : k \in DOMAIN s})

(* A function on 1..n is a list of length n.                               *)
LEMMA ListOf ==
    ASSUME NEW s, NEW n \in Nat, s = [k \in 1..n |-> s[k]]
    PROVE  IsList(s) /\ Len(s) = n /\ DOMAIN s = 1..n
PROOF
<1>1. DOMAIN s = 1..n
  OBVIOUS
<1>2. s \in [1..n -> {s[k] : k \in DOMAIN s}]
  BY <1>1
<1>3. s \in Seq({s[k] : k \in DOMAIN s})
  BY <1>2, SeqDef
<1>4. Len(s) = n
  BY <1>1, <1>3, LenProperties
<1> QED
  BY <1>1, <1>3, <1>4 DEF IsList

(* A list is a function on the numbers up to its length.                   *)
LEMMA ListIs ==
    ASSUME NEW s, IsList(s)
    PROVE  /\ Len(s) \in Nat /\ DOMAIN s = 1..Len(s)
           /\ s = [k \in 1..Len(s) |-> s[k]]
           /\ IsFiniteSet(DOMAIN s)
PROOF
<1> DEFINE V == {s[k] : k \in DOMAIN s}
<1>1. s \in Seq(V)
  BY DEF IsList
<1> HIDE DEF V
<1>2. Len(s) \in Nat /\ DOMAIN s = 1..Len(s) /\ s \in [1..Len(s) -> V]
  BY <1>1, LenProperties
<1>3. IsFiniteSet(1..Len(s))
  BY <1>2, FS_Interval
<1> QED
  BY <1>2, <1>3

(* What Without leaves: a list of the places that are not taken away.      *)
LEMMA Kept ==
    ASSUME NEW s, IsList(s), NEW ks
    PROVE  /\ IsList(Without(s, ks))
           /\ \A k \in DOMAIN s \ ks : \E n \in DOMAIN Without(s, ks) : Without(s, ks)[n] = s[k]
           /\ \A n \in DOMAIN Without(s, ks) : \E k \in DOMAIN s \ ks : Without(s, ks)[n] = s[k]
PROOF
<1> DEFINE left == DOMAIN s \ ks
           N == Cardinality(left)
           at(n) == CHOOSE k \in left : Rank(left, k) = n - 1
           w == [n \in 1..N |-> s[at(n)]]
<1>1. Without(s, ks) = w
  BY DEF Without, Rank
<1>2. IsFiniteSet(left) /\ left \subseteq Nat
  BY ListIs, FS_Subset, left \in SUBSET DOMAIN s
<1> HIDE DEF left
<1>3. /\ N \in Nat
      /\ \A k \in left : Rank(left, k) \in 0..(N - 1)
      /\ \A j, k \in left : j # k => Rank(left, j) # Rank(left, k)
      /\ \A n \in 0..(N - 1) : \E k \in left : Rank(left, k) = n
  BY <1>2, Ranks
<1> HIDE DEF N
<1>4. \A n \in 1..N : at(n) \in left /\ Rank(left, at(n)) = n - 1
  <2> TAKE n \in 1..N
  <2>1. n - 1 \in 0..(N - 1)
    BY <1>3
  <2>2. \E k \in left : Rank(left, k) = n - 1
    BY <1>3, <2>1
  <2> QED
    BY <2>2
<1>5. \A k \in left : Rank(left, k) + 1 \in 1..N /\ at(Rank(left, k) + 1) = k
  <2> TAKE k \in left
  <2>1. Rank(left, k) \in 0..(N - 1)
    BY <1>3
  <2>2. Rank(left, k) + 1 \in 1..N /\ (Rank(left, k) + 1) - 1 = Rank(left, k)
    BY <2>1, <1>3
  <2>3. at(Rank(left, k) + 1) \in left /\ Rank(left, at(Rank(left, k) + 1)) = Rank(left, k)
    BY <2>2, <1>4
  <2> QED
    BY <2>2, <2>3, <1>3
<1> HIDE DEF at
<1>6. IsList(w) /\ DOMAIN w = 1..N
  <2>1. w = [n \in 1..N |-> w[n]]
    OBVIOUS
  <2> HIDE DEF w
  <2> QED
    BY <2>1, <1>3, ListOf
<1>7. \A k \in left : w[Rank(left, k) + 1] = s[k]
  BY <1>5
<1>8. \A n \in 1..N : w[n] = s[at(n)]
  OBVIOUS
<1> HIDE DEF w
<1>9. \A k \in left : \E n \in DOMAIN w : w[n] = s[k]
  BY <1>5, <1>6, <1>7
<1>10. \A n \in DOMAIN w : \E k \in left : w[n] = s[k]
  BY <1>4, <1>6, <1>8
<1> QED
  BY <1>1, <1>6, <1>9, <1>10 DEF left

(* Find finds a request that has the id.                                   *)
LEMMA Finds ==
    ASSUME NEW its, IsList(its), NEW id \in Ids(its)
    PROVE  Find(its, id) \in DOMAIN its /\ its[Find(its, id)].id = id
PROOF
<1> DEFINE L == {k \in DOMAIN its : its[k].id = id}
<1>1. L # {}
  BY DEF Ids
<1>2. IsFiniteSet(L) /\ L \subseteq Nat /\ DOMAIN its = 1..Len(its)
  BY ListIs, FS_Subset, L \in SUBSET DOMAIN its
<1>3. \E m \in L : \A n \in L : m <= n
  <2> HIDE DEF L
  <2> QED
    BY <1>1, <1>2, Least
<1>4. PICK m \in L : \A n \in L : m <= n
  BY <1>3
<1>5. \A j \in 1..m - 1 : its[j].id # id
  <2> TAKE j \in 1..m - 1
  <2>1. m \in 1..Len(its) /\ Len(its) \in Nat
    BY <1>2, <1>4, ListIs
  <2>2. j \in DOMAIN its /\ ~(m <= j)
    BY <2>1, <1>2
  <2> QED
    BY <2>2, <1>4
<1>6. m \in DOMAIN its /\ its[m].id = id
  BY <1>4
<1> QED
  BY <1>5, <1>6 DEF Find

(* A function on the places of a list is a list.                           *)
LEMMA SameList ==
    ASSUME NEW s, IsList(s), NEW t, t = [k \in DOMAIN s |-> t[k]]
    PROVE  IsList(t) /\ Len(t) = Len(s) /\ DOMAIN t = DOMAIN s
PROOF
<1>1. Len(s) \in Nat /\ DOMAIN s = 1..Len(s)
  BY ListIs
<1>2. t = [k \in 1..Len(s) |-> t[k]]
  BY <1>1
<1> QED
  BY <1>1, <1>2, ListOf

(* Append adds one place at the end.                                       *)
LEMMA Appended ==
    ASSUME NEW s, IsList(s), NEW e
    PROVE  /\ IsList(Append(s, e)) /\ DOMAIN Append(s, e) = DOMAIN s \cup {Len(s) + 1}
           /\ \A k \in DOMAIN s : Append(s, e)[k] = s[k]
           /\ Append(s, e)[Len(s) + 1] = e
PROOF
<1> DEFINE V == {s[k] : k \in DOMAIN s} \cup {e}
<1>1. s \in Seq(V) /\ e \in V
  <2>1. s \in Seq({s[k] : k \in DOMAIN s})
    BY DEF IsList
  <2>2. {s[k] : k \in DOMAIN s} \subseteq V /\ e \in V
    OBVIOUS
  <2> HIDE DEF V
  <2> QED
    BY <2>1, <2>2, SeqMonotonic
<1> HIDE DEF V
<1>2. Len(s) \in Nat /\ DOMAIN s = 1..Len(s)
  BY ListIs
<1>3. Append(s, e) \in Seq(V) /\ Len(Append(s, e)) = Len(s) + 1
  BY <1>1, AppendProperties
<1>4. DOMAIN Append(s, e) = 1..(Len(s) + 1) /\ Append(s, e) \in [1..(Len(s) + 1) -> V]
  BY <1>3, LenProperties
<1>5. Append(s, e) = [k \in 1..(Len(s) + 1) |-> Append(s, e)[k]]
  BY <1>4
<1>6. IsList(Append(s, e))
  <2>1. Len(s) + 1 \in Nat
    BY <1>2
  <2> QED
    BY <1>5, <2>1, ListOf
<1>7. \A k \in 1..Len(s) : Append(s, e)[k] = s[k]
  BY <1>1, AppendProperties
<1>8. Append(s, e)[Len(s) + 1] = e
  BY <1>1, AppendProperties
<1>9. 1..(Len(s) + 1) = 1..Len(s) \cup {Len(s) + 1}
  BY <1>2
<1> QED
  BY <1>2, <1>4, <1>6, <1>7, <1>8, <1>9

(* The places of s, then those of t.                                       *)
Joins(s, t, both) ==
    /\ IsList(both) /\ DOMAIN s \subseteq DOMAIN both
    /\ \A k \in DOMAIN s : both[k] = s[k]
    /\ \A k \in DOMAIN both : k \in DOMAIN s \/ \E j \in DOMAIN t : both[k] = t[j]
(* Concatenation joins.                                                    *)
LEMMA Joined ==
    ASSUME NEW s, IsList(s), NEW t, IsList(t)
    PROVE  Joins(s, t, s \o t)
PROOF
<1> DEFINE V == {s[k] : k \in DOMAIN s} \cup {t[k] : k \in DOMAIN t}
<1>1. s \in Seq(V) /\ t \in Seq(V)
  <2>1. s \in Seq({s[k] : k \in DOMAIN s}) /\ t \in Seq({t[k] : k \in DOMAIN t})
    BY DEF IsList
  <2>2. {s[k] : k \in DOMAIN s} \subseteq V /\ {t[k] : k \in DOMAIN t} \subseteq V
    OBVIOUS
  <2> HIDE DEF V
  <2> QED
    BY <2>1, <2>2, SeqMonotonic
<1> HIDE DEF V
<1>2. Len(s) \in Nat /\ DOMAIN s = 1..Len(s) /\ Len(t) \in Nat /\ DOMAIN t = 1..Len(t)
  BY ListIs
<1>3. /\ s \o t \in Seq(V) /\ Len(s \o t) = Len(s) + Len(t)
      /\ \A i \in 1 .. Len(s) + Len(t) : (s \o t)[i] = IF i <= Len(s) THEN s[i] ELSE t[i - Len(s)]
  BY <1>1, ConcatProperties
<1>4. DOMAIN (s \o t) = 1..(Len(s) + Len(t)) /\ s \o t \in [1..(Len(s) + Len(t)) -> V]
  BY <1>3, LenProperties
<1>5. s \o t = [k \in 1..(Len(s) + Len(t)) |-> (s \o t)[k]]
  BY <1>4
<1>6. IsList(s \o t)
  <2>1. Len(s) + Len(t) \in Nat
    BY <1>2
  <2> QED
    BY <1>5, <2>1, ListOf
<1>7. \A k \in 1..Len(s) : k \in 1..(Len(s) + Len(t)) /\ k <= Len(s)
  BY <1>2
<1>8. \A k \in 1..(Len(s) + Len(t)) : k \in 1..Len(s) \/ (~(k <= Len(s)) /\ k - Len(s) \in 1..Len(t))
  BY <1>2
<1> QED
  BY <1>2, <1>3, <1>4, <1>6, <1>7, <1>8 DEF Joins

(* Requests, and lists of them.                                            *)
IsRequest(it) ==
    it = [id |-> it.id, path |-> it.path, name |-> it.name, text |-> it.text,
          seq |-> it.seq, draft |-> it.draft, fresh |-> it.fresh]
Listed(its) == IsList(its) /\ \A k \in DOMAIN its : IsRequest(its[k])
(* The same requests, place by place: the same ids and texts.              *)
Same(its, new) ==
    /\ Listed(new) /\ DOMAIN new = DOMAIN its
    /\ \A k \in DOMAIN its : new[k].id = its[k].id /\ new[k].text = its[k].text
Apart(its) == \A j, k \in DOMAIN its : j < k => its[j].path # its[k].path
Placed(its) == \A k \in DOMAIN its : its[k].path \in Paths

(* A request with another path is the same request.                        *)
LEMMA PathChanged ==
    ASSUME NEW it, IsRequest(it), NEW p, NEW new, new = [it EXCEPT !.path = p]
    PROVE  /\ IsRequest(new) /\ new.id = it.id /\ new.text = it.text /\ new.draft = it.draft
           /\ new.path = p
PROOF
<1>1. IsRequest(new)
  BY DEF IsRequest
<1>2. new.id = it.id /\ new.text = it.text /\ new.draft = it.draft /\ new.path = p
  BY DEF IsRequest
<1> QED
  BY <1>1, <1>2

(* A request with another number is the same request.                      *)
LEMMA SeqChanged ==
    ASSUME NEW it, IsRequest(it), NEW n, NEW new, new = [it EXCEPT !.seq = n]
    PROVE  IsRequest(new) /\ new.id = it.id /\ new.text = it.text /\ new.draft = it.draft
PROOF
<1>1. IsRequest(new)
  BY DEF IsRequest
<1>2. new.id = it.id /\ new.text = it.text /\ new.draft = it.draft
  BY DEF IsRequest
<1> QED
  BY <1>1, <1>2

(* A request whose flags are cleared is the same request, and no draft.    *)
LEMMA FlagsCleared ==
    ASSUME NEW it, IsRequest(it), NEW new, new = [it EXCEPT !.draft = FALSE, !.fresh = FALSE]
    PROVE  IsRequest(new) /\ new.id = it.id /\ new.text = it.text /\ ~new.draft
PROOF
<1>1. IsRequest(new)
  BY DEF IsRequest
<1>2. new.id = it.id /\ new.text = it.text /\ ~new.draft
  BY DEF IsRequest
<1> QED
  BY <1>1, <1>2

(* EnsureRequestFilePaths gives each request a path of its own.            *)
LEMMA Ensures ==
    ASSUME NEW its, Listed(its), NEW new \in EnsureRequestFilePaths(its)
    PROVE  /\ Same(its, new) /\ Apart(new) /\ Placed(new)
           /\ \A k \in DOMAIN its : new[k].draft = its[k].draft
PROOF
<1>1. PICK f \in [DOMAIN its -> Paths] :
        /\ new = [k \in DOMAIN its |-> [its[k] EXCEPT !.path = f[k]]]
        /\ \A k \in DOMAIN its :
              LET used == {f[j] : j \in {i \in DOMAIN its : i < k}}
              IN  IF its[k].path \in used
                  THEN f[k] \in UniquePath(Dir(its[k].path), its[k].name, used)
                  ELSE f[k] = its[k].path
  BY DEF EnsureRequestFilePaths
<1>2. \A k \in DOMAIN its :
        /\ IsRequest(new[k]) /\ new[k].id = its[k].id /\ new[k].text = its[k].text
        /\ new[k].draft = its[k].draft /\ new[k].path = f[k]
  <2> TAKE k \in DOMAIN its
  <2>1. IsRequest(its[k]) /\ new[k] = [its[k] EXCEPT !.path = f[k]]
    BY <1>1 DEF Listed
  <2> QED
    BY <2>1, PathChanged
<1>3. new = [k \in DOMAIN its |-> new[k]]
  BY <1>1
<1>4. IsList(new) /\ DOMAIN new = DOMAIN its
  BY <1>3, SameList DEF Listed
<1>5. ASSUME NEW j \in DOMAIN its, NEW k \in DOMAIN its, j < k
      PROVE  f[j] # f[k]
  <2> DEFINE used == {f[i] : i \in {h \in DOMAIN its : h < k}}
  <2>1. f[j] \in used
    BY <1>5
  <2>2. f[k] \notin used
    BY <1>1 DEF UniquePath
  <2> QED
    BY <2>1, <2>2
<1>6. Apart(new)
  BY <1>2, <1>4, <1>5 DEF Apart
<1>7. Placed(new)
  BY <1>1, <1>2, <1>4 DEF Placed
<1> QED
  BY <1>2, <1>4, <1>6, <1>7 DEF Same, Listed

(* What SaveRequest does to the flags.                                     *)
LEMMA Saves ==
    ASSUME NEW its, Listed(its), NEW ks
    PROVE  /\ Same(its, Saved(its, ks))
           /\ \A k \in DOMAIN its : Saved(its, ks)[k].draft <=> its[k].draft /\ k \notin ks
PROOF
<1> DEFINE new == Saved(its, ks)
<1>1. \A k \in DOMAIN its :
         new[k] = IF k \in ks THEN [its[k] EXCEPT !.draft = FALSE, !.fresh = FALSE] ELSE its[k]
  BY DEF Saved
<1>2. new = [k \in DOMAIN its |-> new[k]]
  BY DEF Saved
<1> HIDE DEF new
<1>3. IsList(new) /\ DOMAIN new = DOMAIN its
  BY <1>2, SameList DEF Listed
<1>4. \A k \in DOMAIN its :
         /\ IsRequest(new[k]) /\ new[k].id = its[k].id /\ new[k].text = its[k].text
         /\ new[k].draft <=> its[k].draft /\ k \notin ks
  <2> TAKE k \in DOMAIN its
  <2>0. IsRequest(its[k])
    BY DEF Listed
  <2>1. CASE k \in ks
    <3>1. new[k] = [its[k] EXCEPT !.draft = FALSE, !.fresh = FALSE]
      BY <1>1, <2>1
    <3>2. /\ IsRequest(new[k]) /\ new[k].id = its[k].id /\ new[k].text = its[k].text
          /\ ~new[k].draft
      BY <3>1, <2>0, FlagsCleared
    <3> QED
      BY <3>2, <2>1
  <2>2. CASE k \notin ks
    <3>1. new[k] = its[k]
      BY <1>1, <2>2
    <3> QED
      BY <3>1, <2>0, <2>2
  <2> QED
    BY <2>1, <2>2
<1> QED
  BY <1>3, <1>4 DEF Same, Listed, new

(* The numbering of siblings changes numbers only.                         *)
LEMMA Numbers ==
    ASSUME NEW its, Listed(its), NEW dir
    PROVE  /\ Same(its, Resequenced(its, dir))
           /\ \A k \in DOMAIN its : Resequenced(its, dir)[k].draft = its[k].draft
PROOF
<1> DEFINE new == Resequenced(its, dir)
           order == SiblingOrder(its, dir)
           place(k) == CHOOSE n \in DOMAIN order : order[n] = k
<1>1. new = [k \in DOMAIN its |->
               IF k \in Siblings(its, dir) THEN [its[k] EXCEPT !.seq = place(k)] ELSE its[k]]
  BY DEF Resequenced
<1> HIDE DEF new, order, place
<1>2. new = [k \in DOMAIN its |-> new[k]]
  BY <1>1
<1>3. IsList(new) /\ DOMAIN new = DOMAIN its
  BY <1>2, SameList DEF Listed
<1>4. \A k \in DOMAIN its :
         /\ IsRequest(new[k]) /\ new[k].id = its[k].id /\ new[k].text = its[k].text
         /\ new[k].draft = its[k].draft
  <2> TAKE k \in DOMAIN its
  <2>1. new[k] = [its[k] EXCEPT !.seq = place(k)] \/ new[k] = its[k]
    BY <1>1
  <2>2. IsRequest(its[k])
    BY DEF Listed
  <2> QED
    BY <2>1, <2>2, SeqChanged
<1> QED
  BY <1>3, <1>4 DEF Same, Listed, new

(* After a write that succeeds the writer remembers each request.          *)
LEMMA Writes ==
    ASSUME NEW files, NEW its, Listed(its), Apart(its), Placed(its), WriteAll(files, its)
    PROVE  \A k \in DOMAIN its : wrote'[its[k].path] = Bytes(its[k])
PROOF
<1>1. Len(its) \in Nat /\ DOMAIN its = 1..Len(its)
  BY ListIs DEF Listed
<1>2. wrote' = Remember(its, Len(its))
  BY DEF WriteAll
<1> SUFFICES ASSUME NEW k \in DOMAIN its
             PROVE  wrote'[its[k].path] = Bytes(its[k])
  OBVIOUS
<1> DEFINE n == Len(its)
           c == CHOOSE j \in 1..n : its[j].path = its[k].path
<1>3. its[k].path \in Paths /\ k \in 1..n
  BY <1>1 DEF Placed
<1>4. wrote'[its[k].path] = Bytes(its[c])
  BY <1>2, <1>3 DEF Remember
<1>5. c \in 1..n /\ its[c].path = its[k].path
  BY <1>3
<1> HIDE DEF c
<1>6. c = k
  <2>1. ~(c < k) /\ ~(k < c)
    BY <1>1, <1>3, <1>5 DEF Apart
  <2>2. c \in Nat /\ k \in Nat
    BY <1>1, <1>3, <1>5
  <2> QED
    BY <2>1, <2>2
<1> QED
  BY <1>4, <1>6

(* What is read from a directory.                                          *)
LEMMA Loads ==
    ASSUME NEW files
    PROVE  Listed(Loaded(files)) /\ \A k \in DOMAIN Loaded(files) : ~Loaded(files)[k].draft
PROOF
<1> DEFINE N == Cardinality(Present(files))
           at(n) == CHOOSE p \in Present(files) :
                       Cardinality({q \in Present(files) : Before(files, q, p)}) = n - 1
           new == Loaded(files)
<1>1. N \in Nat
  <2>1. IsFiniteSet(Present(files))
    BY CollectionAssumption, FS_Subset, Present(files) \in SUBSET Paths DEF Present
  <2> QED
    BY <2>1, FS_CardinalityType
<1>2. new = [n \in 1..N |-> ReadFrom(files, at(n))]
  BY DEF Loaded
<1> HIDE DEF N, at, new
<1>3. new = [n \in 1..N |-> new[n]]
  BY <1>2
<1>4. IsList(new) /\ DOMAIN new = 1..N
  BY <1>1, <1>3, ListOf
<1>5. ASSUME NEW p
      PROVE  IsRequest(ReadFrom(files, p)) /\ ~ReadFrom(files, p).draft
  BY DEF IsRequest, ReadFrom
<1>6. \A n \in 1..N : IsRequest(new[n]) /\ ~new[n].draft
  BY <1>2, <1>5
<1> QED
  BY <1>4, <1>6 DEF Listed, new

(* The flags are as they were; the record has what each request says.      *)
Drafted(its, new) == \A k \in DOMAIN its : new[k].draft = its[k].draft
AllWritten(its, record) == \A k \in DOMAIN its : record[its[k].path] = Bytes(its[k])

(* The same requests, through two steps.                                   *)
LEMMA SameOfSame ==
    ASSUME NEW a, NEW b, NEW c, Same(a, b), Same(b, c)
    PROVE  Same(a, c)
PROOF
  BY DEF Same

(* The writer of most handlers: apart, and written unless it fails.        *)
LEMMA WritesOrFails ==
    ASSUME NEW files, NEW its, Listed(its), faults \in Nat, WriteOrFail(files, its)
    PROVE  /\ Same(its, items') /\ Drafted(its, items') /\ Apart(items') /\ faults' \in Nat
           /\ faults' = faults => AllWritten(items', wrote')
PROOF
<1>1. PICK new \in EnsureRequestFilePaths(its) :
        items' = new /\ (WriteCollection(files, new) \/ WriteFails(files, new))
  BY DEF WriteOrFail
<1>2. Same(its, new) /\ Apart(new) /\ Placed(new) /\ Drafted(its, new)
  BY Ensures DEF Drafted
<1>3. CASE WriteCollection(files, new)
  <2>1. WriteAll(files, new) /\ faults' = faults
    BY <1>3 DEF WriteCollection
  <2>2. AllWritten(new, wrote')
    BY <2>1, <1>2, Writes DEF AllWritten, Same
  <2> QED
    BY <1>1, <1>2, <2>1, <2>2
<1>4. CASE WriteFails(files, new)
  <2>1. faults' = faults + 1
    BY <1>4 DEF WriteFails
  <2> QED
    BY <1>1, <1>2, <2>1
<1> QED
  BY <1>1, <1>3, <1>4

(* SaveRequest and SaveAllTabs: all is written, or the flags are back.     *)
LEMMA SaveKeeps ==
    ASSUME NEW ks, Listed(items), faults \in Nat, SaveRequests(ks)
    PROVE  /\ Same(items, items') /\ Apart(items') /\ faults' \in Nat
           /\ Drafted(items, items') \/ AllWritten(items', wrote')
PROOF
<1>1. PICK its \in EnsureRequestFilePaths(Saved(items, ks)) :
        \/ WriteCollection(disk, its) /\ items' = its
        \/ /\ WriteFails(disk, its)
           /\ items' = [k \in DOMAIN its |-> [its[k] EXCEPT !.draft = items[k].draft, !.fresh = items[k].fresh]]
  BY DEF SaveRequests
<1>2. Same(items, Saved(items, ks))
  BY Saves
<1>3. Same(Saved(items, ks), its) /\ Apart(its) /\ Placed(its)
  BY <1>2, Ensures DEF Same
<1>4. Same(items, its)
  BY <1>2, <1>3, SameOfSame
<1>5. CASE WriteCollection(disk, its) /\ items' = its
  <2>1. WriteAll(disk, its) /\ faults' = faults
    BY <1>5 DEF WriteCollection
  <2>2. AllWritten(its, wrote')
    BY <2>1, <1>3, Writes DEF AllWritten, Same
  <2> QED
    BY <1>5, <1>3, <1>4, <2>1, <2>2
<1>6. CASE /\ WriteFails(disk, its)
           /\ items' = [k \in DOMAIN its |-> [its[k] EXCEPT !.draft = items[k].draft, !.fresh = items[k].fresh]]
  <2> DEFINE new == items'
  <2>1. new = [k \in DOMAIN its |-> [its[k] EXCEPT !.draft = items[k].draft, !.fresh = items[k].fresh]]
    BY <1>6
  <2> HIDE DEF new
  <2>2. \A k \in DOMAIN its :
           /\ IsRequest(new[k]) /\ new[k].id = its[k].id /\ new[k].text = its[k].text
           /\ new[k].path = its[k].path /\ new[k].draft = items[k].draft
    <3> TAKE k \in DOMAIN its
    <3>1. new[k] = [its[k] EXCEPT !.draft = items[k].draft, !.fresh = items[k].fresh]
      BY <2>1
    <3>2. IsRequest(its[k])
      BY <1>4 DEF Same, Listed
    <3> DEFINE it == its[k]
               d == items[k].draft
               f == items[k].fresh
               r == new[k]
    <3>3. r = [it EXCEPT !.draft = d, !.fresh = f] /\ IsRequest(it)
      BY <3>1, <3>2
    <3>4. IsRequest(r) /\ r.id = it.id /\ r.text = it.text /\ r.path = it.path /\ r.draft = d
      <4> HIDE DEF it, d, f, r
      <4>1. r = [id |-> it.id, path |-> it.path, name |-> it.name, text |-> it.text,
                 seq |-> it.seq, draft |-> d, fresh |-> f]
        BY <3>3 DEF IsRequest
      <4> QED
        BY <4>1 DEF IsRequest
    <3> QED
      BY <3>4
  <2>3. new = [k \in DOMAIN its |-> new[k]]
    BY <2>1
  <2>4. IsList(new) /\ DOMAIN new = DOMAIN its
    BY <2>3, <1>4, SameList DEF Same, Listed
  <2>5. Same(items, new)
    BY <2>2, <2>4, <1>4 DEF Same, Listed
  <2>6. Apart(new)
    BY <2>2, <2>4, <1>3 DEF Apart
  <2>7. Drafted(items, new)
    BY <2>2, <1>4 DEF Drafted, Same
  <2>8. faults' = faults + 1
    BY <1>6 DEF WriteFails
  <2> QED
    BY <2>5, <2>6, <2>7, <2>8 DEF new
<1> QED
  BY <1>1, <1>5, <1>6

(* The prompt's save: all is written, or it has failed and drafts stay.    *)
LEMMA DraftSaves ==
    ASSUME NEW ids, IsList(ids), Listed(items), faults \in Nat, SaveUnsavedDrafts(ids)
    PROVE  /\ Same(items, items') /\ faults' \in Nat
           /\ Drafted(items, items') \/ AllWritten(items', wrote')
           /\ faults' = faults =>
                 /\ Apart(items')
                 /\ \A k \in DOMAIN items : items'[k].draft => items[k].draft /\ k \notin First(ids, Len(ids))
PROOF
<1>1. ASSUME NEW ks, NEW its \in EnsureRequestFilePaths(Saved(items, ks)), WriteAll(disk, its)
      PROVE  /\ Same(items, its) /\ Apart(its) /\ AllWritten(its, wrote')
             /\ \A k \in DOMAIN items : its[k].draft => items[k].draft /\ k \notin ks
  <2>1. /\ Same(items, Saved(items, ks))
        /\ \A k \in DOMAIN items : Saved(items, ks)[k].draft <=> items[k].draft /\ k \notin ks
    BY Saves
  <2>2. /\ Same(Saved(items, ks), its) /\ Apart(its) /\ Placed(its)
        /\ \A k \in DOMAIN Saved(items, ks) : its[k].draft = Saved(items, ks)[k].draft
    BY <2>1, <1>1, Ensures DEF Same
  <2>3. Same(items, its)
    BY <2>1, <2>2, SameOfSame
  <2>4. AllWritten(its, wrote')
    BY <1>1, <2>2, Writes DEF AllWritten, Same
  <2>5. DOMAIN Saved(items, ks) = DOMAIN items
    BY <2>1 DEF Same
  <2> QED
    BY <2>1, <2>2, <2>3, <2>4, <2>5
<1>2. CASE \E its \in EnsureRequestFilePaths(Saved(items, First(ids, Len(ids)))) :
              items' = its /\ WriteCollection(disk, its)
  <2>1. PICK its \in EnsureRequestFilePaths(Saved(items, First(ids, Len(ids)))) :
              items' = its /\ WriteAll(disk, its) /\ faults' = faults
    BY <1>2 DEF WriteCollection
  <2> HIDE DEF First
  <2> QED
    BY <1>1, <2>1
<1>3. CASE \E its \in EnsureRequestFilePaths(items) :
             LET k == Find(items, ids[1]) IN
             /\ ids # <<>> /\ items' = [its EXCEPT ![k] = items[k]]
             /\ \/ WriteFails(disk, its)
                \/ WriteAll(disk, its) /\ faults < MaxFaults /\ faults' = faults + 1
  <2> DEFINE k0 == Find(items, ids[1])
             new == items'
  <2>1. PICK its \in EnsureRequestFilePaths(items) :
             /\ ids # <<>> /\ new = [its EXCEPT ![k0] = items[k0]]
             /\ WriteFails(disk, its) \/ faults' = faults + 1
    BY <1>3
  <2>2. faults' = faults + 1
    BY <2>1 DEF WriteFails
  <2> HIDE DEF k0, new
  <2>3. Same(items, its) /\ Drafted(items, its)
    BY <2>1, Ensures DEF Drafted
  <2>4. \A k \in DOMAIN items :
           /\ IsRequest(new[k]) /\ new[k].id = items[k].id /\ new[k].text = items[k].text
           /\ new[k].draft = items[k].draft
    <3> TAKE k \in DOMAIN items
    <3>1. k \in DOMAIN its
      BY <2>3 DEF Same
    <3>2. new[k] = items[k] \/ new[k] = its[k]
      BY <2>1, <3>1
    <3> QED
      BY <3>1, <3>2, <2>3 DEF Same, Listed, Drafted
  <2>5. new = [k \in DOMAIN its |-> new[k]]
    <3>1. its = [k \in DOMAIN its |-> its[k]]
      BY <2>3, ListIs DEF Same, Listed
    <3> QED
      BY <2>1, <3>1
  <2>6. IsList(new) /\ DOMAIN new = DOMAIN its
    BY <2>5, <2>3, SameList DEF Same, Listed
  <2>7. Same(items, new) /\ Drafted(items, new)
    BY <2>3, <2>4, <2>6 DEF Same, Listed, Drafted
  <2> QED
    BY <2>2, <2>7 DEF new
<1>4. CASE \E n \in 1..Len(ids) - 1 :
            \E its \in EnsureRequestFilePaths(Saved(items, First(ids, n))) :
             /\ items' = its /\ WriteAll(disk, its)
             /\ faults < MaxFaults /\ faults' = faults + 1
  <2>1. PICK n \in 1..Len(ids) - 1 :
            \E its \in EnsureRequestFilePaths(Saved(items, First(ids, n))) :
             /\ items' = its /\ WriteAll(disk, its) /\ faults' = faults + 1
    BY <1>4
  <2>2. PICK its \in EnsureRequestFilePaths(Saved(items, First(ids, n))) :
             items' = its /\ WriteAll(disk, its) /\ faults' = faults + 1
    BY <2>1
  <2> HIDE DEF First
  <2> QED
    BY <1>1, <2>2
<1> QED
  BY <1>2, <1>3, <1>4 DEF SaveUnsavedDrafts

(* What Discarded leaves of the requests.                                  *)
LEMMA Discards ==
    ASSUME NEW ks, Listed(items)
    PROVE  /\ Listed(Discarded(ks))
           /\ \A k \in DOMAIN items \ ks : \E n \in DOMAIN Discarded(ks) : Discarded(ks)[n] = items[k]
           /\ \A k \in DOMAIN items : ~(k \in ks /\ NeverSaved(items[k])) =>
                 \E n \in DOMAIN Discarded(ks) : Discarded(ks)[n].id = items[k].id
           /\ \A n \in DOMAIN Discarded(ks) : Discarded(ks)[n].draft =>
                 \E k \in DOMAIN items \ ks : Discarded(ks)[n] = items[k]
PROOF
<1> DEFINE gone == {k \in ks : NeverSaved(items[k])}
           back(k) == [SavedAs(items[k]) EXCEPT !.id = items[k].id, !.fresh = items[k].fresh]
           its == [k \in DOMAIN items |-> IF k \in ks /\ ~NeverSaved(items[k]) THEN back(k) ELSE items[k]]
<1>1. Discarded(ks) = Without(its, gone)
  BY DEF Discarded
<1>2. ASSUME NEW k \in DOMAIN items
      PROVE  IsRequest(back(k)) /\ back(k).id = items[k].id /\ ~back(k).draft
  <2> DEFINE it == SavedAs(items[k])
             i == items[k].id
             f == items[k].fresh
  <2>1. IsRequest(it) /\ ~it.draft
    <3>1. ASSUME NEW p
          PROVE  IsRequest(ReadFrom(disk, p)) /\ ~ReadFrom(disk, p).draft
      BY DEF IsRequest, ReadFrom
    <3> QED
      BY <3>1 DEF SavedAs
  <2> HIDE DEF it, i, f
  <2> DEFINE r == back(k)
  <2>2. r = [[it EXCEPT !.id = i] EXCEPT !.fresh = f]
    BY DEF it, i, f
  <2> HIDE DEF r
  <2>3. r = [id |-> i, path |-> it.path, name |-> it.name, text |-> it.text,
             seq |-> it.seq, draft |-> it.draft, fresh |-> f]
    BY <2>1, <2>2 DEF IsRequest
  <2>4. IsRequest(r) /\ r.id = i /\ r.draft = it.draft
    BY <2>3 DEF IsRequest
  <2> QED
    BY <2>1, <2>4 DEF i, r
<1> HIDE DEF back
<1>3. \A k \in DOMAIN items :
         /\ k \in ks /\ ~NeverSaved(items[k]) => its[k] = back(k)
         /\ ~(k \in ks /\ ~NeverSaved(items[k])) => its[k] = items[k]
  OBVIOUS
<1>4. its = [k \in DOMAIN items |-> its[k]]
  OBVIOUS
<1> HIDE DEF its
<1>5. IsList(its) /\ DOMAIN its = DOMAIN items
  BY <1>4, SameList DEF Listed
<1>6. \A k \in DOMAIN items : IsRequest(its[k]) /\ its[k].id = items[k].id
  BY <1>2, <1>3 DEF Listed
<1>7. /\ IsList(Discarded(ks))
      /\ \A k \in DOMAIN items \ gone : \E n \in DOMAIN Discarded(ks) : Discarded(ks)[n] = its[k]
      /\ \A n \in DOMAIN Discarded(ks) : \E k \in DOMAIN items \ gone : Discarded(ks)[n] = its[k]
  <2> HIDE DEF gone
  <2> QED
    BY <1>1, <1>5, Kept
<1>8. Listed(Discarded(ks))
  BY <1>6, <1>7 DEF Listed
<1>9. \A k \in DOMAIN items \ ks : \E n \in DOMAIN Discarded(ks) : Discarded(ks)[n] = items[k]
  BY <1>3, <1>7
<1>10. \A k \in DOMAIN items : ~(k \in ks /\ NeverSaved(items[k])) =>
          \E n \in DOMAIN Discarded(ks) : Discarded(ks)[n].id = items[k].id
  BY <1>6, <1>7
<1>11. ASSUME NEW n \in DOMAIN Discarded(ks), Discarded(ks)[n].draft
       PROVE  \E k \in DOMAIN items \ ks : Discarded(ks)[n] = items[k]
  <2>1. PICK k \in DOMAIN items \ gone : Discarded(ks)[n] = its[k]
    BY <1>7
  <2>2. k \notin ks
    <3> SUFFICES ASSUME k \in ks PROVE FALSE
      OBVIOUS
    <3>1. its[k] = back(k)
      BY <1>3, <2>1
    <3> QED
      BY <3>1, <2>1, <1>2, <1>11
  <2> QED
    BY <2>1, <2>2, <1>3
<1> QED
  BY <1>8, <1>9, <1>10, <1>11

(***************************************************************************)
(* Tabs.                                                                   *)
(***************************************************************************)
IsTab(t) == t = [open |-> t.open, closed |-> t.closed, active |-> t.active]

(* The closed tabs do not matter to the open ones.                         *)
LEMMA ClosedChanged ==
    ASSUME NEW t, IsTab(t), NEW c
    PROVE  IsTab([t EXCEPT !.closed = c]) /\ [t EXCEPT !.closed = c].open = t.open
PROOF
<1>1. IsTab([t EXCEPT !.closed = c])
  BY DEF IsTab
<1>2. [t EXCEPT !.closed = c].open = t.open
  BY DEF IsTab
<1> QED
  BY <1>1, <1>2

(* Keep leaves the tabs it is given open.                                  *)
LEMMA Keeps ==
    ASSUME NEW t, IsTab(t), NEW open, NEW new \in Keep(t, open)
    PROVE  IsTab(new) /\ new.open = open
PROOF
<1>1. PICK x : new = [t EXCEPT !.open = open, !.active = x]
  BY DEF Keep
<1>2. new = [open |-> open, closed |-> t.closed, active |-> x]
  BY <1>1 DEF IsTab
<1> QED
  BY <1>2 DEF IsTab

(* Prune leaves the tabs of requests there are.                            *)
LEMMA Prunes ==
    ASSUME NEW t, IsTab(t), NEW its, NEW new \in Prune(t, its)
    PROVE  IsTab(new) /\ new.open = {id \in t.open : id \in Ids(its)}
PROOF
  BY Keeps DEF Prune

(* Drop leaves all but the tabs of some ids.                               *)
LEMMA Drops ==
    ASSUME NEW t, IsTab(t), NEW ids, NEW new \in Drop(t, ids)
    PROVE  IsTab(new) /\ new.open = t.open \ ids
PROOF
<1> DEFINE c == t.closed \ ids
           o == t.open \ ids
           s == [t EXCEPT !.closed = c]
<1>1. IsTab(s)
  BY ClosedChanged
<1>2. new \in Keep(s, o)
  BY DEF Drop
<1> HIDE DEF s, o
<1>3. IsTab(new) /\ new.open = o
  BY <1>1, <1>2, Keeps
<1> QED
  BY <1>3 DEF o

(* Open adds one tab.                                                      *)
LEMMA Opens ==
    ASSUME NEW t, IsTab(t), NEW id
    PROVE  IsTab(Open(t, id)) /\ Open(t, id).open = t.open \cup {id}
PROOF
<1> DEFINE o == t.open \cup {id}
<1>1. Open(t, id) = [t EXCEPT !.open = o, !.active = id]
  BY DEF Open, IsTab
<1> HIDE DEF o
<1> DEFINE new == Open(t, id)
<1>2. IsTab(new) /\ new.open = o
  <2>1. new = [t EXCEPT !.open = o, !.active = id]
    BY <1>1
  <2> HIDE DEF new
  <2>2. new = [open |-> o, closed |-> t.closed, active |-> id]
    BY <2>1 DEF IsTab
  <2> QED
    BY <2>2 DEF IsTab
<1> QED
  BY <1>2 DEF o

(* OpenFirst adds no tab but that of a request.                            *)
LEMMA OpensFirst ==
    ASSUME NEW t, IsTab(t), NEW its, Listed(its)
    PROVE  IsTab(OpenFirst(t, its)) /\ OpenFirst(t, its).open \subseteq t.open \cup Ids(its)
PROOF
<1>1. CASE its = <<>>
  BY <1>1 DEF OpenFirst
<1>2. CASE its # <<>>
  <2>1. Len(its) \in Nat /\ DOMAIN its = 1..Len(its) /\ its = [k \in 1..Len(its) |-> its[k]]
    BY ListIs DEF Listed
  <2>2. Len(its) # 0
    BY <2>1, <1>2
  <2>3. 1 \in DOMAIN its
    BY <2>1, <2>2
  <2>4. OpenFirst(t, its) = Open(t, its[1].id) /\ its[1].id \in Ids(its)
    BY <1>2, <2>3 DEF OpenFirst, Ids
  <2> QED
    BY <2>4, Opens
<1> QED
  BY <1>1, <1>2

(***************************************************************************)
(* Each handler: the shapes stay, drafts are kept, no tab is stranded and  *)
(* what is written is apart.                                               *)
(***************************************************************************)
Shaped == Listed(items) /\ IsTab(tab) /\ IsList(asked) /\ faults \in Nat

KeepsDrafts == \A k \in Drafts(items) : KeptOrWritten(items[k]) \/ GivenUp(items[k])
KeepsTabs == OpenCollection \/ faults' # faults \/ Orphans' \subseteq Orphans
KeepsApart == wrote' # wrote /\ ~Restart /\ ~(CloseSave /\ faults' # faults) => Apart(items')
Careful == Shaped' /\ KeepsDrafts /\ KeepsTabs /\ KeepsApart

(* A draft among the requests that a handler is about to leave.            *)
Carried(its, it) == \E n \in DOMAIN its : its[n].id = it.id /\ its[n].text = it.text /\ its[n].draft

(* A draft that is carried is kept or written.                             *)
LEMMA CarriedIsKept ==
    ASSUME NEW its, NEW it, Carried(its, it), Same(its, items'),
           Drafted(its, items') \/ AllWritten(items', wrote')
    PROVE  KeptOrWritten(it)
PROOF
<1>1. PICK n \in DOMAIN its : its[n].id = it.id /\ its[n].text = it.text /\ its[n].draft
  BY DEF Carried
<1>2. n \in DOMAIN items' /\ items'[n].id = it.id /\ items'[n].text = it.text
  BY <1>1 DEF Same
<1>3. items'[n].draft \/ wrote'[items'[n].path] = Bytes(items'[n])
  BY <1>1, <1>2 DEF Drafted, AllWritten
<1> QED
  BY <1>2, <1>3 DEF KeptOrWritten

(* The requests carry their own drafts.                                    *)
LEMMA AllCarried ==
    ASSUME NEW k \in Drafts(items)
    PROVE  Carried(items, items[k])
PROOF
  BY DEF Carried, Drafts

(* The same requests have the same ids.                                    *)
LEMMA SameIds ==
    ASSUME NEW its, NEW new, Same(its, new)
    PROVE  Ids(new) = Ids(its)
PROOF
  BY DEF Same, Ids

(* A list of requests is the same as itself.                               *)
LEMMA SameItself ==
    ASSUME NEW its, Listed(its)
    PROVE  Same(its, its) /\ Drafted(its, its)
PROOF
  BY DEF Same, Drafted

(* ensureReadyLocked leaves only the tabs of requests.                     *)
LEMMA Readies ==
    ASSUME NEW t, Shaped, Ready(t)
    PROVE  IsTab(t) /\ t.open = {id \in tab.open : id \in Ids(items)} /\ quit # "gone"
PROOF
  BY Prunes DEF Ready, Shaped

(* No request is lost, and every tab had one.                              *)
LEMMA TabsHave ==
    ASSUME tab'.open \subseteq Ids(items')
    PROVE  KeepsTabs
PROOF
  BY DEF KeepsTabs, Orphans

(* An edit touches the draft it edits and no other.                        *)
LEMMA EditKeeps ==
    ASSUME Shaped, NEW id \in Ids(items), NEW text \in Texts, UpdateRequest(id, text)
    PROVE  Careful
PROOF
<1> DEFINE k0 == Find(items, id)
           new == items'
<1>1. /\ new = [items EXCEPT ![k0].text = text, ![k0].draft = TRUE]
      /\ Ready(tab') /\ wrote' = wrote /\ faults' = faults /\ asked' = asked
  BY DEF UpdateRequest, prompt
<1>2. k0 \in DOMAIN items /\ items[k0].id = id
  BY Finds DEF Shaped, Listed
<1>3. IsRequest(items[k0])
  BY <1>2 DEF Shaped, Listed
<1> DEFINE it == items[k0]
           d == TRUE
           edited == [id |-> it.id, path |-> it.path, name |-> it.name, text |-> text,
                      seq |-> it.seq, draft |-> d, fresh |-> it.fresh]
<1>4. /\ new = [new EXCEPT ![k0] = new[k0]] /\ DOMAIN new = DOMAIN items
      /\ \A k \in DOMAIN items : k # k0 => new[k] = items[k]
  BY <1>1, <1>2
<1>5. new = [k \in DOMAIN items |-> new[k]]
  BY <1>1
<1>6. new[k0] = edited
  <2> HIDE DEF k0, new, d
  <2>1. [items EXCEPT ![k0].text = text, ![k0].draft = d][k0] = [[items[k0] EXCEPT !.text = text] EXCEPT !.draft = d]
    BY <1>2
  <2>2. new[k0] = [[it EXCEPT !.text = text] EXCEPT !.draft = d]
    BY <2>1, <1>1 DEF d
  <2> HIDE DEF it
  <2>3. IsRequest(it)
    BY <1>3 DEF it
  <2> DEFINE a == [id |-> it.id, path |-> it.path, name |-> it.name, text |-> text,
                   seq |-> it.seq, draft |-> it.draft, fresh |-> it.fresh]
  <2>4. [it EXCEPT !.text = text] = a
    BY <2>3 DEF IsRequest
  <2>5. [a EXCEPT !.draft = d] = edited
    OBVIOUS
  <2> QED
    BY <2>2, <2>4, <2>5
<1> HIDE DEF k0, new
<1>7. IsRequest(new[k0]) /\ new[k0].id = items[k0].id
  BY <1>6 DEF IsRequest
<1>8. Listed(new) /\ DOMAIN new = DOMAIN items
  <2>1. IsList(new) /\ DOMAIN new = DOMAIN items
    BY <1>5, SameList DEF Shaped, Listed
  <2> QED
    BY <2>1, <1>4, <1>7 DEF Shaped, Listed
<1>9. Ids(new) = Ids(items)
  BY <1>4, <1>7, <1>8 DEF Ids
<1>10. IsTab(tab') /\ tab'.open \subseteq Ids(items)
  BY <1>1, Readies
<1>11. ASSUME NEW k \in Drafts(items)
       PROVE  KeptOrWritten(items[k]) \/ GivenUp(items[k])
  <2>1. CASE k = k0
    <3>1. UpdateRequest(items[k].id, text)
      BY <2>1, <1>2
    <3> QED
      BY <3>1 DEF GivenUp
  <2>2. CASE k # k0
    BY <2>2, <1>4, <1>8 DEF KeptOrWritten, Drafts, new
  <2> QED
    BY <2>1, <2>2
<1>12. Shaped'
  BY <1>1, <1>8, <1>10 DEF Shaped, new
<1>13. KeepsTabs
  BY <1>9, <1>10, TabsHave DEF new
<1> QED
  BY <1>1, <1>11, <1>12, <1>13 DEF Careful, KeepsDrafts, KeepsApart

(* A new request comes after the others.                                   *)
LEMMA CreateKeeps ==
    ASSUME Shaped, NEW dir, NEW name, CreateRequestInFolder(dir, name)
    PROVE  Careful
PROOF
<1>1. PICK p \in UniquePath(dir, name, Used(items)) :
        /\ items' = Append(items, [id |-> p, path |-> p, name |-> name, text |-> NewText,
                                   seq |-> Len(items) + 1, draft |-> TRUE, fresh |-> TRUE])
        /\ \E ready \in Prune(tab, items) : Ready(ready) /\ tab' = Open(ready, p)
  BY DEF CreateRequestInFolder
<1>2. wrote' = wrote /\ faults' = faults /\ asked' = asked
  BY DEF CreateRequestInFolder, prompt
<1> DEFINE e == [id |-> p, path |-> p, name |-> name, text |-> NewText,
                 seq |-> Len(items) + 1, draft |-> TRUE, fresh |-> TRUE]
           new == items'
<1>3. new = Append(items, e)
  BY <1>1
<1>4. IsRequest(e) /\ e.id = p
  BY DEF IsRequest
<1> HIDE DEF e, new
<1>5. /\ IsList(new) /\ DOMAIN new = DOMAIN items \cup {Len(items) + 1}
      /\ \A k \in DOMAIN items : new[k] = items[k]
      /\ new[Len(items) + 1] = e
  BY <1>3, Appended DEF Shaped, Listed
<1>6. Listed(new)
  BY <1>4, <1>5 DEF Listed, Shaped
<1>7. Ids(items) \cup {p} \subseteq Ids(new)
  BY <1>4, <1>5 DEF Ids
<1>8. PICK ready : Ready(ready) /\ tab' = Open(ready, p)
  BY <1>1
<1>9. IsTab(ready) /\ ready.open \subseteq Ids(items)
  BY <1>8, Readies
<1>10. IsTab(tab') /\ tab'.open \subseteq Ids(new)
  BY <1>7, <1>8, <1>9, Opens
<1>11. \A k \in Drafts(items) : KeptOrWritten(items[k])
  BY <1>5 DEF KeptOrWritten, Drafts, new
<1>12. Shaped'
  BY <1>2, <1>6, <1>10 DEF Shaped, new
<1>13. KeepsTabs
  BY <1>10, TabsHave DEF new
<1> QED
  BY <1>2, <1>11, <1>12, <1>13 DEF Careful, KeepsDrafts, KeepsApart

(* Saving some requests writes all of them or leaves the drafts.           *)
LEMMA SavingKeeps ==
    ASSUME Shaped, NEW ks, SaveRequests(ks)
    PROVE  Careful
PROOF
<1>1. /\ Same(items, items') /\ Apart(items') /\ faults' \in Nat
      /\ Drafted(items, items') \/ AllWritten(items', wrote')
  BY SaveKeeps DEF Shaped
<1>2. Ready(tab') /\ asked' = asked
  BY DEF SaveRequests, prompt
<1>3. IsTab(tab') /\ tab'.open \subseteq Ids(items)
  BY <1>2, Readies
<1>4. KeepsTabs
  BY <1>1, <1>3, SameIds, TabsHave
<1>5. KeepsDrafts
  BY <1>1, CarriedIsKept, AllCarried DEF KeepsDrafts
<1>6. Shaped'
  BY <1>1, <1>2, <1>3 DEF Shaped, Same
<1> QED
  BY <1>1, <1>4, <1>5, <1>6 DEF Careful, KeepsApart

(* RenameRequest: the request it renames is written, or the write fails.   *)
LEMMA RenameKeeps ==
    ASSUME Shaped, NEW id \in Ids(items), NEW name \in Names, RenameRequest(id, name)
    PROVE  Careful
PROOF
<1> DEFINE k0 == Find(items, id)
           p == At(Dir(items[k0].path), name)
           its == [items EXCEPT ![k0] = [@ EXCEPT !.path = p, !.name = name,
                                                  !.draft = FALSE, !.fresh = FALSE]]
<1>1. PICK files : WriteOrFail(files, its)
  BY DEF RenameRequest
<1>2. Ready(tab') /\ asked' = asked
  BY DEF RenameRequest, prompt
<1>3. k0 \in DOMAIN items /\ items[k0].id = id
  BY Finds DEF Shaped, Listed
<1>4. IsRequest(its[k0]) /\ its[k0].id = items[k0].id /\ its[k0].text = items[k0].text
  <2> DEFINE it == items[k0]
             b == FALSE
             r1 == [id |-> it.id, path |-> p, name |-> it.name, text |-> it.text,
                    seq |-> it.seq, draft |-> it.draft, fresh |-> it.fresh]
             r2 == [id |-> it.id, path |-> p, name |-> name, text |-> it.text,
                    seq |-> it.seq, draft |-> it.draft, fresh |-> it.fresh]
             r3 == [id |-> it.id, path |-> p, name |-> name, text |-> it.text,
                    seq |-> it.seq, draft |-> b, fresh |-> it.fresh]
             r4 == [id |-> it.id, path |-> p, name |-> name, text |-> it.text,
                    seq |-> it.seq, draft |-> b, fresh |-> b]
  <2> HIDE DEF k0, p, b
  <2>1. its[k0] = [[[[it EXCEPT !.path = p] EXCEPT !.name = name] EXCEPT !.draft = b] EXCEPT !.fresh = b]
    BY <1>3 DEF b
  <2>2. IsRequest(it)
    BY <1>3 DEF Shaped, Listed
  <2> HIDE DEF it, its
  <2>3. [it EXCEPT !.path = p] = r1
    BY <2>2 DEF IsRequest
  <2>4. [r1 EXCEPT !.name = name] = r2
    OBVIOUS
  <2>5. [r2 EXCEPT !.draft = b] = r3
    OBVIOUS
  <2>6. [r3 EXCEPT !.fresh = b] = r4
    OBVIOUS
  <2> HIDE DEF r1, r2, r3
  <2>7. its[k0] = r4
    BY <2>1, <2>3, <2>4, <2>5, <2>6
  <2> QED
    BY <2>7 DEF IsRequest, it
<1>5. /\ its = [k \in DOMAIN items |-> its[k]]
      /\ \A k \in DOMAIN items : k # k0 => its[k] = items[k]
  BY <1>3, ListIs DEF Shaped, Listed
<1> HIDE DEF its, k0
<1>6. Same(items, its)
  <2>1. IsList(its) /\ DOMAIN its = DOMAIN items
    BY <1>5, SameList DEF Shaped, Listed
  <2> QED
    BY <2>1, <1>4, <1>5 DEF Same, Listed, Shaped
<1>7. /\ Same(its, items') /\ Drafted(its, items') /\ Apart(items') /\ faults' \in Nat
      /\ faults' = faults => AllWritten(items', wrote')
  BY <1>1, <1>6, WritesOrFails DEF Shaped, Same
<1>8. Same(items, items')
  BY <1>6, <1>7, SameOfSame
<1>9. IsTab(tab') /\ tab'.open \subseteq Ids(items)
  BY <1>2, Readies
<1>10. KeepsTabs
  BY <1>8, <1>9, SameIds, TabsHave
<1>11. ASSUME NEW k \in Drafts(items)
       PROVE  KeptOrWritten(items[k]) \/ GivenUp(items[k])
  <2>1. CASE faults' = faults
    BY <2>1, <1>7, <1>8, CarriedIsKept, AllCarried
  <2>2. CASE faults' # faults /\ k = k0
    <3>1. RenameRequest(items[k].id, name)
      BY <2>2, <1>3
    <3> QED
      BY <2>2, <3>1 DEF GivenUp
  <2>3. CASE k # k0
    <3>1. k \in DOMAIN its /\ its[k] = items[k] /\ items[k].draft
      BY <2>3, <1>5, <1>6 DEF Same, Drafts
    <3>2. Carried(its, items[k])
      BY <3>1 DEF Carried
    <3> QED
      BY <3>2, <1>7, CarriedIsKept
  <2> QED
    BY <2>1, <2>2, <2>3
<1>12. Shaped'
  BY <1>2, <1>7, <1>8, <1>9 DEF Shaped, Same
<1> QED
  BY <1>7, <1>10, <1>11, <1>12 DEF Careful, KeepsDrafts, KeepsApart

(* CloneRequest and CloneFolder add requests after those there are.        *)
LEMMA AddedTo ==
    ASSUME Shaped, NEW files, NEW its, Listed(its), DOMAIN items \subseteq DOMAIN its,
           \A k \in DOMAIN items : its[k] = items[k], WriteOrFail(files, its)
    PROVE  /\ Listed(items') /\ faults' \in Nat /\ KeepsDrafts /\ KeepsApart
           /\ Ids(items) \subseteq Ids(items') /\ Ids(its) = Ids(items')
PROOF
<1>1. /\ Same(its, items') /\ Drafted(its, items') /\ Apart(items') /\ faults' \in Nat
  BY WritesOrFails DEF Shaped
<1>2. \A k \in Drafts(items) : Carried(its, items[k])
  BY DEF Carried, Drafts
<1>3. KeepsDrafts
  BY <1>1, <1>2, CarriedIsKept DEF KeepsDrafts
<1>4. Ids(items) \subseteq Ids(its)
  BY DEF Ids
<1> QED
  BY <1>1, <1>3, <1>4, SameIds DEF Same, KeepsApart

(* The clone comes after the others and is written with them.              *)
LEMMA CloneKeeps ==
    ASSUME Shaped, NEW id \in Ids(items), NEW name \in Names, CloneRequest(id, name)
    PROVE  Careful
PROOF
<1> DEFINE it == items[Find(items, id)]
           p == At(Dir(it.path), name)
           n == Cardinality({k \in DOMAIN items : Dir(items[k].path) = Dir(p)}) + 1
           b == FALSE
           e == [it EXCEPT !.id = p, !.path = p, !.name = name, !.seq = n, !.draft = b, !.fresh = b]
<1>1. /\ WriteOrFail(disk, Append(items, e))
      /\ \E ready \in Prune(tab, items) :
            Ready(ready) /\ tab' = IF faults' = faults THEN Open(ready, p) ELSE ready
      /\ asked' = asked
  BY DEF CloneRequest, prompt
<1>2. IsRequest(it)
  BY Finds DEF Shaped, Listed
<1>3. IsRequest(e) /\ e.id = p
  <2> HIDE DEF it, p, n, b
  <2> DEFINE r1 == [id |-> p, path |-> it.path, name |-> it.name, text |-> it.text,
                    seq |-> it.seq, draft |-> it.draft, fresh |-> it.fresh]
             r2 == [id |-> p, path |-> p, name |-> it.name, text |-> it.text,
                    seq |-> it.seq, draft |-> it.draft, fresh |-> it.fresh]
             r3 == [id |-> p, path |-> p, name |-> name, text |-> it.text,
                    seq |-> it.seq, draft |-> it.draft, fresh |-> it.fresh]
             r4 == [id |-> p, path |-> p, name |-> name, text |-> it.text,
                    seq |-> n, draft |-> it.draft, fresh |-> it.fresh]
             r5 == [id |-> p, path |-> p, name |-> name, text |-> it.text,
                    seq |-> n, draft |-> b, fresh |-> it.fresh]
             r6 == [id |-> p, path |-> p, name |-> name, text |-> it.text,
                    seq |-> n, draft |-> b, fresh |-> b]
  <2>1. [it EXCEPT !.id = p] = r1
    BY <1>2 DEF IsRequest
  <2>2. [r1 EXCEPT !.path = p] = r2
    OBVIOUS
  <2>3. [r2 EXCEPT !.name = name] = r3
    OBVIOUS
  <2>4. [r3 EXCEPT !.seq = n] = r4
    OBVIOUS
  <2>5. [r4 EXCEPT !.draft = b] = r5
    OBVIOUS
  <2>6. [r5 EXCEPT !.fresh = b] = r6
    OBVIOUS
  <2> HIDE DEF r1, r2, r3, r4, r5
  <2>7. e = r6
    BY <2>1, <2>2, <2>3, <2>4, <2>5, <2>6
  <2> HIDE DEF e
  <2> QED
    BY <2>7 DEF IsRequest
<1> DEFINE its == Append(items, e)
<1> HIDE DEF e, p
<1>4. /\ IsList(its) /\ DOMAIN its = DOMAIN items \cup {Len(items) + 1}
      /\ \A k \in DOMAIN items : its[k] = items[k]
      /\ its[Len(items) + 1] = e
  BY Appended DEF Shaped, Listed
<1>5. Listed(its) /\ p \in Ids(its)
  <2> HIDE DEF its
  <2> QED
    BY <1>3, <1>4 DEF Listed, Shaped, Ids
<1>6. WriteOrFail(disk, its)
  BY <1>1
<1> HIDE DEF its
<1>7. /\ Listed(items') /\ faults' \in Nat /\ KeepsDrafts /\ KeepsApart
      /\ Ids(items) \subseteq Ids(items') /\ Ids(its) = Ids(items')
  BY <1>4, <1>5, <1>6, AddedTo
<1>8. PICK ready : Ready(ready) /\ (tab' = Open(ready, p) \/ tab' = ready)
  BY <1>1
<1>9. IsTab(tab') /\ tab'.open \subseteq Ids(items')
  <2>1. IsTab(ready) /\ ready.open \subseteq Ids(items)
    BY <1>8, Readies
  <2>2. CASE tab' = Open(ready, p)
    BY <2>1, <2>2, <1>5, <1>7, Opens
  <2>3. CASE tab' = ready
    BY <2>1, <2>3, <1>7
  <2> QED
    BY <1>8, <2>2, <2>3
<1> QED
  BY <1>1, <1>7, <1>9, TabsHave DEF Careful, Shaped

(* The numbering after a deletion, with the write it may need.             *)
LEMMA ResequenceKeeps ==
    ASSUME NEW files, NEW its, Listed(its), NEW dir, faults \in Nat, Resequence(files, its, dir)
    PROVE  /\ Same(its, items') /\ Drafted(its, items') /\ faults' \in Nat
           /\ wrote' = wrote \/ Apart(items')
PROOF
<1> DEFINE new == Resequenced(its, dir)
<1>1. Same(its, new) /\ Drafted(its, new)
  BY Numbers DEF Drafted
<1>2. \/ items' = its /\ wrote' = wrote /\ faults' = faults
      \/ WriteOrFail(files, new)
  BY DEF Resequence
<1> HIDE DEF new
<1>3. CASE items' = its /\ wrote' = wrote /\ faults' = faults
  <2>1. Same(its, items') /\ Drafted(its, items')
    BY <1>3, SameItself
  <2> QED
    BY <2>1, <1>3
<1>4. CASE WriteOrFail(files, new)
  <2>1. Same(new, items') /\ Drafted(new, items') /\ Apart(items') /\ faults' \in Nat
    BY <1>1, <1>4, WritesOrFails DEF Same
  <2>2. Same(its, items')
    BY <1>1, <2>1, SameOfSame
  <2>3. Drafted(its, items')
    BY <1>1, <2>1 DEF Drafted, Same
  <2> QED
    BY <2>1, <2>2, <2>3
<1> QED
  BY <1>2, <1>3, <1>4

(* What is left of the requests when those at ks go.                       *)
LEMMA Leaves ==
    ASSUME Shaped, NEW ks
    PROVE  /\ Listed(Without(items, ks))
           /\ \A k \in Drafts(items) : k \notin ks => Carried(Without(items, ks), items[k])
           /\ Ids(items) \subseteq Ids(Without(items, ks)) \cup {items[k].id : k \in DOMAIN items \cap ks}
PROOF
<1> DEFINE its == Without(items, ks)
<1>1. /\ IsList(its)
      /\ \A k \in DOMAIN items \ ks : \E n \in DOMAIN its : its[n] = items[k]
      /\ \A n \in DOMAIN its : \E k \in DOMAIN items \ ks : its[n] = items[k]
  BY Kept DEF Shaped, Listed
<1> HIDE DEF its
<1>2. Listed(its)
  BY <1>1 DEF Listed, Shaped
<1>3. \A k \in Drafts(items) : k \notin ks => Carried(its, items[k])
  BY <1>1 DEF Carried, Drafts
<1>4. Ids(items) \subseteq Ids(its) \cup {items[k].id : k \in DOMAIN items \cap ks}
  BY <1>1 DEF Ids
<1> QED
  BY <1>2, <1>3, <1>4 DEF its

(* What is left after a deletion is renumbered and still there.            *)
LEMMA DeleteKeeps ==
    ASSUME Shaped, NEW id \in Ids(items), DeleteRequest(id)
    PROVE  Careful
PROOF
<1> DEFINE k0 == Find(items, id)
           its == Without(items, {k0})
<1>1. /\ \E files, dir : Resequence(files, its, dir)
      /\ \E ready \in Prune(tab, items) :
            Ready(ready) /\ tab' \in IF faults' = faults THEN Drop(ready, {id}) ELSE {ready}
      /\ asked' = asked
  BY DEF DeleteRequest, prompt
<1>2. k0 \in DOMAIN items /\ items[k0].id = id
  BY Finds DEF Shaped, Listed
<1>3. /\ Listed(its)
      /\ \A k \in Drafts(items) : k \notin {k0} => Carried(its, items[k])
      /\ Ids(items) \subseteq Ids(its) \cup {items[k].id : k \in DOMAIN items \cap {k0}}
  BY Leaves
<1> HIDE DEF its, k0
<1>4. /\ Same(its, items') /\ Drafted(its, items') /\ faults' \in Nat
      /\ wrote' = wrote \/ Apart(items')
  BY <1>1, <1>3, ResequenceKeeps DEF Shaped
<1>5. ASSUME NEW k \in Drafts(items)
      PROVE  KeptOrWritten(items[k]) \/ GivenUp(items[k])
  <2>1. CASE k = k0
    <3>1. DeleteRequest(items[k].id)
      BY <1>2, <2>1
    <3> QED
      BY <3>1 DEF GivenUp
  <2>2. CASE k # k0
    BY <2>2, <1>3, <1>4, CarriedIsKept
  <2> QED
    BY <2>1, <2>2
<1>6. Ids(items) \subseteq Ids(items') \cup {id}
  BY <1>2, <1>3, <1>4, SameIds
<1>7. PICK ready : /\ Ready(ready)
                   /\ \/ faults' = faults /\ tab' \in Drop(ready, {id})
                      \/ faults' # faults /\ tab' = ready
  BY <1>1
<1>8. IsTab(ready) /\ ready.open \subseteq Ids(items)
  BY <1>7, Readies
<1>9. IsTab(tab') /\ KeepsTabs
  <2>1. CASE faults' = faults /\ tab' \in Drop(ready, {id})
    <3>1. IsTab(tab') /\ tab'.open = ready.open \ {id}
      BY <2>1, <1>8, Drops
    <3>2. tab'.open \subseteq Ids(items')
      BY <3>1, <1>6, <1>8
    <3> QED
      BY <3>1, <3>2, TabsHave
  <2>2. CASE faults' # faults /\ tab' = ready
    BY <2>2, <1>8 DEF KeepsTabs
  <2> QED
    BY <1>7, <2>1, <2>2
<1> QED
  BY <1>1, <1>4, <1>5, <1>9 DEF Careful, Shaped, Same, KeepsDrafts, KeepsApart

(* The requests of other folders stay, and only tabs of the folder's go.   *)
LEMMA DeleteFolderKeeps ==
    ASSUME Shaped, NEW dir \in Dirs, DeleteFolder(dir)
    PROVE  Careful
PROOF
<1> DEFINE its == Without(items, InDir(dir))
           ids == {items[k].id : k \in InDir(dir)}
<1>1. /\ items' = its /\ wrote' = wrote /\ faults' = faults /\ asked' = asked
      /\ \E ready \in Prune(tab, items) : Ready(ready) /\ tab' \in Drop(ready, ids)
  BY DEF DeleteFolder, prompt
<1>2. /\ Listed(its)
      /\ \A k \in Drafts(items) : k \notin InDir(dir) => Carried(its, items[k])
      /\ Ids(items) \subseteq Ids(its) \cup {items[k].id : k \in DOMAIN items \cap InDir(dir)}
  BY Leaves
<1> HIDE DEF its
<1>3. Ids(items) \subseteq Ids(its) \cup ids
  BY <1>2
<1> HIDE DEF ids
<1>4. Same(its, items') /\ Drafted(its, items')
  BY <1>1, <1>2, SameItself
<1>5. ASSUME NEW k \in Drafts(items)
      PROVE  KeptOrWritten(items[k]) \/ GivenUp(items[k])
  <2>1. CASE k \in InDir(dir)
    <3>1. Dir(items[k].path) = dir
      BY <2>1 DEF InDir, Siblings
    <3>2. DeleteFolder(Dir(items[k].path))
      BY <3>1
    <3> QED
      BY <3>2 DEF GivenUp
  <2>2. CASE k \notin InDir(dir)
    BY <2>2, <1>2, <1>4, CarriedIsKept
  <2> QED
    BY <2>1, <2>2
<1>6. PICK ready : Ready(ready) /\ tab' \in Drop(ready, ids)
  BY <1>1
<1>7. IsTab(tab') /\ tab'.open \subseteq Ids(items')
  BY <1>1, <1>3, <1>6, Readies, Drops
<1> QED
  BY <1>1, <1>2, <1>5, <1>7, TabsHave DEF Careful, Shaped, KeepsDrafts, KeepsApart

(* A renamed folder takes its requests along: new paths, old ids.          *)
LEMMA RenameFolderKeeps ==
    ASSUME Shaped, NEW dir \in Dirs, NEW to \in Dirs, RenameFolder(dir, to)
    PROVE  Careful
PROOF
<1> DEFINE new == items'
<1>1. /\ new = [k \in DOMAIN items |-> IF k \in InDir(dir)
                  THEN [items[k] EXCEPT !.path = At(to, Base(@))] ELSE items[k]]
      /\ wrote' = wrote /\ faults' = faults /\ asked' = asked /\ Ready(tab')
  BY DEF RenameFolder, prompt
<1> HIDE DEF new
<1>2. \A k \in DOMAIN items :
         /\ IsRequest(new[k]) /\ new[k].id = items[k].id /\ new[k].text = items[k].text
         /\ new[k].draft = items[k].draft
  <2> TAKE k \in DOMAIN items
  <2> DEFINE p == At(to, Base(items[k].path))
  <2>1. IsRequest(items[k])
    BY DEF Shaped, Listed
  <2>2. new[k] = [items[k] EXCEPT !.path = p] \/ new[k] = items[k]
    BY <1>1, <2>1 DEF IsRequest
  <2> HIDE DEF p
  <2> QED
    BY <2>1, <2>2, PathChanged
<1>3. new = [k \in DOMAIN items |-> new[k]]
  BY <1>1
<1>4. IsList(new) /\ DOMAIN new = DOMAIN items
  BY <1>3, SameList DEF Shaped, Listed
<1>5. Same(items, new) /\ Drafted(items, new)
  BY <1>2, <1>4 DEF Same, Drafted, Listed
<1>6. KeepsDrafts
  BY <1>5, CarriedIsKept, AllCarried DEF KeepsDrafts, new
<1>7. IsTab(tab') /\ tab'.open \subseteq Ids(items)
  BY <1>1, Readies
<1>8. KeepsTabs
  BY <1>5, <1>7, SameIds, TabsHave DEF new
<1> QED
  BY <1>1, <1>5, <1>6, <1>7, <1>8 DEF Careful, Shaped, Same, KeepsApart, new

(* The copies come after the others and are written with them.             *)
LEMMA CloneFolderKeeps ==
    ASSUME Shaped, NEW dir \in Dirs, NEW to \in Dirs, CloneFolder(dir, to)
    PROVE  Careful
PROOF
<1> DEFINE Copy(it) == [it EXCEPT !.id = At(to, Base(it.path)), !.path = At(to, Base(it.path)), !.draft = FALSE]
           copies == Without(items, DOMAIN items \ InDir(dir))
           copied == [k \in DOMAIN copies |-> Copy(copies[k])]
           its == items \o copied
<1>1. WriteOrFail(disk, its) /\ asked' = asked /\ Ready(tab')
  BY DEF CloneFolder, prompt
<1>2. Listed(copies)
  BY Leaves
<1> HIDE DEF copies
<1>3. ASSUME NEW it, IsRequest(it)
      PROVE  IsRequest(Copy(it))
  <2> DEFINE p == At(to, Base(it.path))
             b == FALSE
             r1 == [id |-> p, path |-> it.path, name |-> it.name, text |-> it.text,
                    seq |-> it.seq, draft |-> it.draft, fresh |-> it.fresh]
             r2 == [id |-> p, path |-> p, name |-> it.name, text |-> it.text,
                    seq |-> it.seq, draft |-> it.draft, fresh |-> it.fresh]
             r3 == [id |-> p, path |-> p, name |-> it.name, text |-> it.text,
                    seq |-> it.seq, draft |-> b, fresh |-> it.fresh]
  <2>0. Copy(it) = [[[it EXCEPT !.id = p] EXCEPT !.path = p] EXCEPT !.draft = b]
    OBVIOUS
  <2> HIDE DEF p, b, Copy
  <2>1. [it EXCEPT !.id = p] = r1
    BY <1>3 DEF IsRequest
  <2>2. [r1 EXCEPT !.path = p] = r2
    OBVIOUS
  <2>3. [r2 EXCEPT !.draft = b] = r3
    OBVIOUS
  <2> HIDE DEF r1, r2
  <2>4. Copy(it) = r3
    BY <2>0, <2>1, <2>2, <2>3
  <2> QED
    BY <2>4 DEF IsRequest
<1> HIDE DEF Copy
<1>4. Listed(copied)
  <2>1. copied = [k \in DOMAIN copies |-> copied[k]]
    OBVIOUS
  <2>2. \A k \in DOMAIN copies : IsRequest(copied[k])
    BY <1>2, <1>3 DEF Listed
  <2> HIDE DEF copied
  <2>3. IsList(copied) /\ DOMAIN copied = DOMAIN copies
    BY <1>2, <2>1, SameList DEF Listed
  <2> QED
    BY <2>2, <2>3 DEF Listed
<1> HIDE DEF copied
<1>5. /\ IsList(its) /\ DOMAIN items \subseteq DOMAIN its
      /\ \A k \in DOMAIN items : its[k] = items[k]
      /\ \A k \in DOMAIN its : k \in DOMAIN items \/ \E j \in DOMAIN copied : its[k] = copied[j]
  <2>1. IsList(items) /\ IsList(copied) /\ its = items \o copied
    BY <1>4 DEF Shaped, Listed
  <2> HIDE DEF its
  <2>2. Joins(items, copied, its)
    BY <2>1, Joined
  <2> QED
    BY <2>2 DEF Joins
<1> HIDE DEF its
<1>6. Listed(its)
  BY <1>4, <1>5 DEF Listed, Shaped
<1>7. /\ Listed(items') /\ faults' \in Nat /\ KeepsDrafts /\ KeepsApart
      /\ Ids(items) \subseteq Ids(items')
  BY <1>1, <1>5, <1>6, AddedTo
<1>8. IsTab(tab') /\ tab'.open \subseteq Ids(items)
  BY <1>1, Readies
<1> QED
  BY <1>1, <1>7, <1>8, TabsHave DEF Careful, Shaped

(* A list of ids names the requests that Find gives for them.              *)
LEMMA FirstAre ==
    ASSUME Shaped, NEW ids, IsList(ids), Valid(ids), NEW n \in 0..Len(ids), NEW k \in First(ids, n)
    PROVE  k \in DOMAIN items /\ \E j \in DOMAIN ids : ids[j] = items[k].id
PROOF
<1>1. PICK j \in 1..n : k = Find(items, ids[j])
  BY DEF First
<1>2. j \in DOMAIN ids
  <2>1. Len(ids) \in Nat /\ DOMAIN ids = 1..Len(ids)
    BY ListIs
  <2> QED
    BY <2>1, <1>1
<1>3. ids[j] \in Ids(items)
  BY <1>2 DEF Valid
<1> QED
  BY <1>1, <1>2, <1>3, Finds DEF Shaped, Listed

(* uniqueUnsavedDrafts takes away repetitions only.                        *)
LEMMA UniqueIs ==
    ASSUME NEW ids, IsList(ids)
    PROVE  /\ IsList(Unique(ids))
           /\ \A m \in DOMAIN Unique(ids) : \E j \in DOMAIN ids : Unique(ids)[m] = ids[j]
           /\ \A j \in DOMAIN ids : \E m \in DOMAIN Unique(ids) : Unique(ids)[m] = ids[j]
PROOF
<1> DEFINE again == {k \in DOMAIN ids : \E j \in 1..k - 1 : ids[j] = ids[k]}
           new == Unique(ids)
<1>1. new = Without(ids, again)
  BY DEF Unique
<1> HIDE DEF new
<1>2. Len(ids) \in Nat /\ DOMAIN ids = 1..Len(ids) /\ IsFiniteSet(DOMAIN ids)
  BY ListIs
<1>3. /\ IsList(new)
      /\ \A k \in DOMAIN ids \ again : \E n \in DOMAIN new : new[n] = ids[k]
      /\ \A n \in DOMAIN new : \E k \in DOMAIN ids \ again : new[n] = ids[k]
  <2> HIDE DEF again
  <2> QED
    BY <1>1, Kept
<1>4. ASSUME NEW j \in DOMAIN ids
      PROVE  \E m \in DOMAIN new : new[m] = ids[j]
  <2> DEFINE L == {k \in DOMAIN ids : ids[k] = ids[j]}
  <2>1. L # {} /\ L \subseteq Nat /\ IsFiniteSet(L)
    BY <1>2, FS_Subset, L \in SUBSET DOMAIN ids
  <2>2. \E k \in L : \A i \in L : k <= i
    <3> HIDE DEF L
    <3> QED
      BY <2>1, Least
  <2>3. PICK k \in L : \A i \in L : k <= i
    BY <2>2
  <2>4. k \notin again
    <3> SUFFICES ASSUME NEW i \in 1..k - 1, ids[i] = ids[k] PROVE FALSE
      OBVIOUS
    <3>1. k \in 1..Len(ids)
      BY <1>2, <2>3
    <3>2. i \in DOMAIN ids /\ ~(k <= i)
      BY <1>2, <3>1
    <3> QED
      BY <2>3, <3>2
  <2> HIDE DEF again
  <2>5. k \in DOMAIN ids /\ ids[k] = ids[j]
    BY <2>3
  <2> QED
    BY <2>4, <2>5, <1>3
<1> QED
  BY <1>3, <1>4 DEF new

(* Discarding the drafts of a list touches those of the list only.         *)
LEMMA DiscardSteps ==
    ASSUME Shaped, NEW ids, IsList(ids), NEW done \in BOOLEAN, DiscardUnsavedDrafts(ids, done)
    PROVE  /\ Listed(items') /\ IsTab(tab') /\ tab'.open \subseteq Ids(items')
           /\ faults' \in Nat /\ wrote' = wrote
           /\ \A k \in Drafts(items) :
                 \/ KeptOrWritten(items[k])
                 \/ \E j \in DOMAIN ids : ids[j] = items[k].id
           /\ done => \A m \in DOMAIN items' : items'[m].draft =>
                         \E k \in DOMAIN items \ First(ids, Len(ids)) : items'[m] = items[k]
PROOF
<1>1. Len(ids) \in Nat
  BY ListIs
<1>2. PICK n \in 0..Len(ids) :
        /\ DiscardSome(ids, n) /\ (done => n = Len(ids))
        /\ faults' = faults \/ faults' = faults + 1
  <2>1. CASE done
    <3>1. DiscardSome(ids, Len(ids)) /\ faults' = faults /\ Len(ids) \in 0..Len(ids)
      BY <1>1, <2>1 DEF DiscardUnsavedDrafts
    <3> QED
      BY <3>1
  <2>2. CASE ~done
    <3>1. PICK n \in 0..Len(ids) - 1 : DiscardSome(ids, n) /\ DiscardStops(ids, n)
      BY <2>2 DEF DiscardUnsavedDrafts
    <3>2. faults' = faults \/ faults' = faults + 1
      BY <3>1 DEF DiscardStops
    <3>3. n \in 0..Len(ids)
      BY <1>1
    <3> QED
      BY <2>2, <3>1, <3>2, <3>3
  <2> QED
    BY <2>1, <2>2
<1> DEFINE ks == First(ids, n)
           new == Discarded(ks)
           fresh == {items[k].id : k \in {j \in ks : NeverSaved(items[j])}}
<1>3. /\ items' = new /\ Valid(ids) /\ wrote' = wrote
      /\ \E ready \in Prune(tab, items) : Ready(ready) /\ tab' \in Drop(ready, fresh)
  BY <1>2 DEF DiscardSome, DiscardUnsavedDrafts
<1>4. \A k \in ks : k \in DOMAIN items /\ \E j \in DOMAIN ids : ids[j] = items[k].id
  BY <1>3, FirstAre
<1> HIDE DEF ks
<1>5. /\ Listed(new)
      /\ \A k \in DOMAIN items \ ks : \E m \in DOMAIN new : new[m] = items[k]
      /\ \A k \in DOMAIN items : ~(k \in ks /\ NeverSaved(items[k])) =>
            \E m \in DOMAIN new : new[m].id = items[k].id
      /\ \A m \in DOMAIN new : new[m].draft => \E k \in DOMAIN items \ ks : new[m] = items[k]
  BY Discards DEF Shaped
<1> HIDE DEF new
<1>6. Ids(items) \subseteq Ids(new) \cup fresh
  <2> SUFFICES ASSUME NEW k \in DOMAIN items PROVE items[k].id \in Ids(new) \cup fresh
    BY DEF Ids
  <2>1. CASE k \in ks /\ NeverSaved(items[k])
    BY <2>1
  <2>2. CASE ~(k \in ks /\ NeverSaved(items[k]))
    BY <2>2, <1>5 DEF Ids
  <2> QED
    BY <2>1, <2>2
<1> HIDE DEF fresh
<1>7. PICK ready : Ready(ready) /\ tab' \in Drop(ready, fresh)
  BY <1>3
<1>8. IsTab(tab') /\ tab'.open \subseteq Ids(items')
  BY <1>3, <1>6, <1>7, Readies, Drops
<1>9. ASSUME NEW k \in Drafts(items)
      PROVE  \/ KeptOrWritten(items[k])
             \/ \E j \in DOMAIN ids : ids[j] = items[k].id
  <2>1. CASE k \in ks
    BY <2>1, <1>4
  <2>2. CASE k \notin ks
    <3>1. k \in DOMAIN items /\ items[k].draft
      BY DEF Drafts
    <3>2. PICK m \in DOMAIN new : new[m] = items[k]
      BY <2>2, <3>1, <1>5
    <3> QED
      BY <3>1, <3>2, <1>3 DEF KeptOrWritten
  <2> QED
    BY <2>1, <2>2
<1>10. faults' \in Nat
  BY <1>2 DEF Shaped
<1>11. ASSUME done
       PROVE  \A m \in DOMAIN items' : items'[m].draft =>
                 \E k \in DOMAIN items \ First(ids, Len(ids)) : items'[m] = items[k]
  <2>1. ks = First(ids, Len(ids))
    BY <1>2, <1>11 DEF ks
  <2> QED
    BY <2>1, <1>3, <1>5
<1> QED
  BY <1>3, <1>5, <1>8, <1>9, <1>10, <1>11

(* Discarding one draft touches that one only.                             *)
LEMMA DiscardKeeps ==
    ASSUME Shaped, NEW id \in Ids(items), DiscardRequestDraft(id)
    PROVE  Careful
PROOF
<1>1. PICK done \in BOOLEAN : DiscardUnsavedDrafts(<<id>>, done)
  BY DEF DiscardRequestDraft
<1>2. asked' = asked
  BY DEF DiscardRequestDraft, prompt
<1> DEFINE ids == <<id>>
<1>3. IsList(ids) /\ \A j \in DOMAIN ids : ids[j] = id
  BY DEF IsList
<1> HIDE DEF ids
<1>4. DiscardUnsavedDrafts(ids, done)
  BY <1>1 DEF ids
<1>5. /\ Listed(items') /\ IsTab(tab') /\ tab'.open \subseteq Ids(items')
      /\ faults' \in Nat /\ wrote' = wrote
      /\ \A k \in Drafts(items) :
            \/ KeptOrWritten(items[k])
            \/ \E j \in DOMAIN ids : ids[j] = items[k].id
  BY <1>3, <1>4, DiscardSteps
<1>6. ASSUME NEW k \in Drafts(items)
      PROVE  KeptOrWritten(items[k]) \/ GivenUp(items[k])
  <2>1. CASE items[k].id = id
    <3>1. DiscardRequestDraft(items[k].id)
      BY <2>1
    <3> QED
      BY <3>1 DEF GivenUp
  <2>2. CASE items[k].id # id
    BY <2>2, <1>3, <1>5
  <2> QED
    BY <2>1, <2>2
<1> QED
  BY <1>2, <1>5, <1>6, TabsHave DEF Careful, Shaped, KeepsDrafts, KeepsApart

(* Handlers that leave the requests as they are.                           *)
LEMMA OthersKeep ==
    ASSUME Shaped, items' = items, wrote' = wrote, faults' \in Nat, IsList(asked'),
           IsTab(tab'), tab'.open \subseteq Ids(items) \/ tab'.open \subseteq tab.open
    PROVE  Careful
PROOF
<1>1. \A k \in Drafts(items) : KeptOrWritten(items[k])
  BY DEF KeptOrWritten, Drafts
<1>2. KeepsTabs
  BY DEF KeepsTabs, Orphans
<1> QED
  BY <1>1, <1>2 DEF Careful, Shaped, KeepsDrafts, KeepsApart

(* The prompt's list when it is closed.                                    *)
LEMMA NoList == IsList(<<>>)
PROOF
  BY DEF IsList

(* What is done with tabs opens none without a request.                    *)
LEMMA TabStepsKeep ==
    ASSUME Shaped,
           \/ \E id \in Ids(items) : OpenRequestTab(id)
           \/ \E id \in tab.open : SetActiveTab(id)
           \/ \E id \in tab.open : CloseTab(id)
           \/ CloseAllTabs
           \/ \E id \in tab.closed : ReopenLastClosedTab(id)
    PROVE  Careful
PROOF
<1> USE DEF OnlyTabs, prompt
<1>1. IsTab(tab)
  BY DEF Shaped
<1>2. ASSUME NEW id \in Ids(items), OpenRequestTab(id)
      PROVE  IsTab(tab') /\ tab'.open \subseteq Ids(items)
  <2>1. PICK ready \in Prune(tab, items) : tab' = Open(ready, id)
    BY <1>2 DEF OpenRequestTab
  <2> QED
    BY <1>1, <2>1, Prunes, Opens
<1>3. ASSUME NEW id \in tab.open, SetActiveTab(id)
      PROVE  IsTab(tab') /\ tab'.open \subseteq tab.open
  <2>1. tab' = [tab EXCEPT !.active = id]
    BY <1>3 DEF SetActiveTab
  <2>2. tab' = [open |-> tab.open, closed |-> tab.closed, active |-> id]
    BY <1>1, <2>1 DEF IsTab
  <2> QED
    BY <2>2 DEF IsTab
<1>4. ASSUME NEW id \in tab.open, CloseTab(id)
      PROVE  IsTab(tab') /\ tab'.open \subseteq tab.open
  <2> DEFINE c == tab.closed \cup {id}
             s == [tab EXCEPT !.closed = c]
             o == tab.open \ {id}
  <2>1. IsTab(s)
    BY <1>1, ClosedChanged
  <2>2. tab' \in Keep(s, o)
    BY <1>4 DEF CloseTab
  <2> HIDE DEF s, o
  <2>3. IsTab(tab') /\ tab'.open = o
    BY <2>1, <2>2, Keeps
  <2> QED
    BY <2>3 DEF o
<1>5. ASSUME CloseAllTabs
      PROVE  IsTab(tab') /\ tab'.open \subseteq tab.open
  BY <1>5 DEF CloseAllTabs, IsTab
<1>6. ASSUME NEW id \in tab.closed, ReopenLastClosedTab(id)
      PROVE  IsTab(tab') /\ tab'.open \subseteq tab.open \cup Ids(items)
  <2>1. PICK dead : tab' = Open([tab EXCEPT !.closed = @ \ (dead \cup {id})], id)
    BY <1>6 DEF ReopenLastClosedTab
  <2> DEFINE c == tab.closed \ (dead \cup {id})
             s == [tab EXCEPT !.closed = c]
  <2>2. tab' = Open(s, id)
    BY <2>1
  <2>3. IsTab(s) /\ s.open = tab.open
    BY <1>1, ClosedChanged
  <2> HIDE DEF s
  <2>4. IsTab(tab') /\ tab'.open = tab.open \cup {id}
    BY <2>2, <2>3, Opens
  <2>5. id \in Ids(items)
    BY <1>6 DEF ReopenLastClosedTab
  <2> QED
    BY <2>4, <2>5
<1>7. items' = items /\ wrote' = wrote /\ faults' \in Nat /\ IsList(asked')
  BY DEF OpenRequestTab, SetActiveTab, CloseTab, CloseAllTabs, ReopenLastClosedTab, Shaped
<1>8. IsTab(tab') /\ tab'.open \subseteq tab.open \cup Ids(items)
  BY <1>2, <1>3, <1>4, <1>5, <1>6
<1>9. KeepsTabs
  BY <1>7, <1>8 DEF KeepsTabs, Orphans
<1>10. \A k \in Drafts(items) : KeptOrWritten(items[k])
  BY <1>7 DEF KeptOrWritten, Drafts
<1> QED
  BY <1>7, <1>8, <1>9, <1>10 DEF Careful, Shaped, KeepsDrafts, KeepsApart

(* Reading the directory again.                                            *)
LEMMA ReadsKeep ==
    ASSUME Shaped, RefreshChangedCollections \/ RefreshCollection \/ OpenCollection \/ Restart
    PROVE  Careful
PROOF
<1>1. IsTab(tab)
  BY DEF Shaped
<1>2. Listed(Loaded(disk))
  BY Loads
<1>3. CASE RefreshChangedCollections
  <2>1. wrote' = wrote /\ faults' = faults /\ asked' = asked
    BY <1>3 DEF RefreshChangedCollections, prompt, counters
  <2>2. CASE watch = "changed"
    <3>1. Drafts(items) = {} /\ items' = Loaded(disk)
      BY <1>3, <2>2 DEF RefreshChangedCollections
    <3>2. PICK ready, left : /\ ready \in Prune(tab, items)
                             /\ left \in Drop(ready, Ids(items) \ Ids(items'))
                             /\ tab' \in Prune(left, items')
      BY <1>3, <2>2 DEF RefreshChangedCollections
    <3>3. IsTab(left)
      BY <1>1, <3>2, Prunes, Drops
    <3>4. IsTab(tab') /\ tab'.open \subseteq Ids(items')
      BY <3>2, <3>3, Prunes
    <3> QED
      BY <1>2, <2>1, <3>1, <3>4, TabsHave DEF Careful, Shaped, KeepsDrafts, KeepsApart
  <2>3. CASE watch # "changed"
    <3>1. Ready(tab') /\ items' = items
      BY <1>3, <2>3 DEF RefreshChangedCollections
    <3>2. IsTab(tab') /\ tab'.open \subseteq Ids(items)
      BY <3>1, Readies
    <3> QED
      BY <2>1, <3>1, <3>2, OthersKeep DEF Shaped
  <2> QED
    BY <2>2, <2>3
<1>4. CASE RefreshCollection
  <2>1. wrote' = wrote /\ faults' = faults /\ asked' = asked /\ items' = Loaded(disk)
    BY <1>4 DEF RefreshCollection, prompt, counters
  <2>2. PICK ready, left : /\ ready \in Prune(tab, items) /\ left \in Prune(ready, items')
                           /\ tab' = OpenFirst(left, items')
    BY <1>4 DEF RefreshCollection
  <2>3. IsTab(left) /\ left.open \subseteq Ids(items')
    BY <1>1, <2>2, Prunes
  <2>4. IsTab(tab') /\ tab'.open \subseteq Ids(items')
    BY <1>2, <2>1, <2>2, <2>3, OpensFirst
  <2>5. KeepsDrafts
    BY <1>4 DEF KeepsDrafts, GivenUp
  <2> QED
    BY <1>2, <2>1, <2>4, <2>5, TabsHave DEF Careful, Shaped, KeepsApart
<1>5. CASE OpenCollection
  <2>1. wrote' = wrote /\ faults' = faults /\ asked' = asked /\ items' = Loaded(disk)
    BY <1>5 DEF OpenCollection, prompt, counters
  <2>2. PICK ready \in Prune(tab, items) : tab' = OpenFirst(ready, items')
    BY <1>5 DEF OpenCollection
  <2>3. IsTab(tab')
    BY <1>1, <1>2, <2>1, <2>2, Prunes, OpensFirst
  <2>4. KeepsDrafts /\ KeepsTabs
    BY <1>5 DEF KeepsDrafts, GivenUp, KeepsTabs
  <2> QED
    BY <1>2, <2>1, <2>3, <2>4 DEF Careful, Shaped, KeepsApart
<1>6. CASE Restart
  <2>1. faults' = faults /\ asked' = <<>> /\ items' = Loaded(disk) /\ tab' \in Prune(tab, items')
    BY <1>6 DEF Restart, counters
  <2>2. IsTab(tab') /\ tab'.open \subseteq Ids(items')
    BY <1>1, <2>1, Prunes
  <2>3. KeepsDrafts
    BY <1>6 DEF KeepsDrafts, GivenUp
  <2> QED
    BY <1>2, <1>6, <2>1, <2>2, <2>3, NoList, TabsHave DEF Careful, Shaped, KeepsApart
<1> QED
  BY <1>3, <1>4, <1>5, <1>6

(* The prompt.                                                             *)
LEMMA CloseKeeps ==
    ASSUME Shaped, BeforeClose \/ CloseSave \/ CloseDiscard \/ CloseCancel
    PROVE  Careful
PROOF
<1>1. IsTab(tab) /\ Listed(items) /\ faults \in Nat /\ IsList(asked)
  BY DEF Shaped
<1>2. CASE BeforeClose
  <2> DEFINE drafts == Without(items, DOMAIN items \ Drafts(items))
  <2>1. /\ Ready(tab') /\ asked' = [k \in DOMAIN drafts |-> drafts[k].id]
        /\ items' = items /\ wrote' = wrote /\ faults' = faults
    BY <1>2 DEF BeforeClose, counters
  <2>2. IsList(drafts)
    BY <1>1, Kept DEF Listed
  <2> HIDE DEF drafts
  <2>3. IsList(asked')
    <3> DEFINE a == [k \in DOMAIN drafts |-> drafts[k].id]
    <3>1. a = [k \in DOMAIN drafts |-> a[k]]
      OBVIOUS
    <3> HIDE DEF a
    <3>2. IsList(a)
      BY <2>2, <3>1, SameList
    <3> QED
      BY <2>1, <3>2 DEF a
  <2>4. IsTab(tab') /\ tab'.open \subseteq Ids(items)
    BY <2>1, Readies
  <2> QED
    BY <1>1, <2>1, <2>3, <2>4, OthersKeep
<1>3. CASE CloseSave
  <2> DEFINE ids == Unique(asked)
  <2>1. IsList(ids)
    BY <1>1, UniqueIs
  <2>2. asked' = <<>>
    BY <1>3 DEF CloseSave, Answered
  <2>3. CASE SaveUnsavedDrafts(ids)
    <3>1. Ready(tab')
      BY <2>3 DEF SaveUnsavedDrafts
    <3> HIDE DEF ids
    <3>2. /\ Same(items, items') /\ faults' \in Nat
          /\ Drafted(items, items') \/ AllWritten(items', wrote')
          /\ faults' = faults => Apart(items')
      BY <1>1, <2>1, <2>3, DraftSaves
    <3>3. IsTab(tab') /\ tab'.open \subseteq Ids(items)
      BY <3>1, Readies
    <3>4. KeepsTabs
      BY <3>2, <3>3, SameIds, TabsHave
    <3>5. KeepsDrafts
      BY <3>2, CarriedIsKept, AllCarried DEF KeepsDrafts
    <3>6. KeepsApart
      BY <1>3, <3>2 DEF KeepsApart
    <3> QED
      BY <2>2, <3>2, <3>3, <3>4, <3>5, <3>6, NoList DEF Careful, Shaped, Same
  <2>4. CASE ~SaveUnsavedDrafts(ids)
    <3>1. Ready(tab') /\ items' = items /\ wrote' = wrote /\ faults' = faults
      BY <1>3, <2>4 DEF CloseSave, counters
    <3>2. IsTab(tab') /\ tab'.open \subseteq Ids(items)
      BY <3>1, Readies
    <3> QED
      BY <1>1, <2>2, <3>1, <3>2, NoList, OthersKeep
  <2> QED
    BY <2>3, <2>4
<1>4. CASE CloseDiscard
  <2> DEFINE ids == Unique(asked)
  <2>1. IsList(ids) /\ \A m \in DOMAIN ids : \E j \in DOMAIN asked : ids[m] = asked[j]
    BY <1>1, UniqueIs
  <2>2. asked' = <<>>
    BY <1>4 DEF CloseDiscard, Answered
  <2>3. CASE \E done \in BOOLEAN : DiscardUnsavedDrafts(ids, done)
    <3> HIDE DEF ids
    <3>1. /\ Listed(items') /\ IsTab(tab') /\ tab'.open \subseteq Ids(items')
          /\ faults' \in Nat /\ wrote' = wrote
          /\ \A k \in Drafts(items) :
                \/ KeptOrWritten(items[k])
                \/ \E j \in DOMAIN ids : ids[j] = items[k].id
      BY <2>1, <2>3, DiscardSteps
    <3>2. ASSUME NEW k \in Drafts(items)
          PROVE  KeptOrWritten(items[k]) \/ GivenUp(items[k])
      <4>1. CASE \E j \in DOMAIN ids : ids[j] = items[k].id
        <5>1. Contains(asked, items[k].id)
          BY <1>1, <2>1, <4>1, ListIs DEF Contains
        <5> QED
          BY <1>4, <5>1 DEF GivenUp
      <4> QED
        BY <3>1, <4>1
    <3> QED
      BY <2>2, <3>1, <3>2, NoList, TabsHave DEF Careful, Shaped, KeepsDrafts, KeepsApart
  <2>4. CASE ~\E done \in BOOLEAN : DiscardUnsavedDrafts(ids, done)
    <3>1. Ready(tab') /\ items' = items /\ wrote' = wrote /\ faults' = faults
      BY <1>4, <2>4 DEF CloseDiscard, counters
    <3>2. IsTab(tab') /\ tab'.open \subseteq Ids(items)
      BY <3>1, Readies
    <3> QED
      BY <1>1, <2>2, <3>1, <3>2, NoList, OthersKeep
  <2> QED
    BY <2>3, <2>4
<1>5. CASE CloseCancel
  <2>1. asked' = <<>> /\ items' = items /\ wrote' = wrote /\ faults' = faults /\ tab' = tab
    BY <1>5 DEF CloseCancel, Answered, counters
  <2> QED
    BY <1>1, <2>1, NoList, OthersKeep
<1> QED
  BY <1>2, <1>3, <1>4, <1>5

(* Another program writes files, not memory.                               *)
LEMMA ExternalKeeps ==
    ASSUME Shaped, NEW p, NEW file, External(p, file)
    PROVE  Careful
PROOF
<1>1. items' = items /\ wrote' = wrote /\ tab' = tab /\ asked' = asked /\ faults' = faults
  BY DEF External, prompt
<1> QED
  BY <1>1, OthersKeep DEF Shaped

(* Every handler is careful.                                               *)
LEMMA EachKeeps ==
    ASSUME Shaped, TreeNext
    PROVE  Careful
PROOF
<1>1. CASE \E id \in Ids(items), text \in Texts : UpdateRequest(id, text)
  BY <1>1, EditKeeps
<1>2. CASE \E dir \in Dirs, name \in Names : CreateRequestInFolder(dir, name)
  BY <1>2, CreateKeeps
<1>3. CASE (\E id \in Ids(items) : SaveRequest(id)) \/ SaveAllTabs
  <2>1. \E ks : SaveRequests(ks)
    BY <1>3 DEF SaveRequest, SaveAllTabs
  <2> QED
    BY <2>1, SavingKeeps
<1>4. CASE \E id \in Ids(items), name \in Names : RenameRequest(id, name)
  BY <1>4, RenameKeeps
<1>5. CASE \E id \in Ids(items), name \in Names : CloneRequest(id, name)
  BY <1>5, CloneKeeps
<1>6. CASE \E id \in Ids(items) : DeleteRequest(id)
  BY <1>6, DeleteKeeps
<1>7. CASE \E dir \in Dirs : DeleteFolder(dir)
  BY <1>7, DeleteFolderKeeps
<1>8. CASE \E dir, new \in Dirs : RenameFolder(dir, new)
  BY <1>8, RenameFolderKeeps
<1>9. CASE \E dir, new \in Dirs : CloneFolder(dir, new)
  BY <1>9, CloneFolderKeeps
<1>10. CASE \E id \in Ids(items) : DiscardRequestDraft(id)
  BY <1>10, DiscardKeeps
<1>11. CASE \E p \in Paths : \E file \in Edited(p) : External(p, file)
  BY <1>11, ExternalKeeps
<1>12. CASE RefreshChangedCollections \/ RefreshCollection \/ OpenCollection \/ Restart
  BY <1>12, ReadsKeep
<1>13. CASE \/ \E id \in Ids(items) : OpenRequestTab(id)
            \/ \E id \in tab.open : SetActiveTab(id)
            \/ \E id \in tab.open : CloseTab(id)
            \/ CloseAllTabs
            \/ \E id \in tab.closed : ReopenLastClosedTab(id)
  BY <1>13, TabStepsKeep
<1>14. CASE BeforeClose \/ CloseSave \/ CloseDiscard \/ CloseCancel
  BY <1>14, CloseKeeps
<1> QED
  BY <1>1, <1>2, <1>3, <1>4, <1>5, <1>6, <1>7, <1>8, <1>9, <1>10, <1>11, <1>12, <1>13, <1>14 DEF TreeNext

(* The shapes at the start.                                                *)
LEMMA ShapedInit == TreeInit => Shaped
PROOF
<1> SUFFICES ASSUME TreeInit PROVE Shaped
  OBVIOUS
<1> DEFINE t == [open |-> {}, closed |-> {}, active |-> Nil]
<1>1. items = Loaded(disk) /\ tab = OpenFirst(t, items) /\ asked = <<>> /\ faults = 0
  BY DEF TreeInit
<1>2. Listed(items)
  BY <1>1, Loads
<1>3. IsTab(t)
  BY DEF IsTab
<1> HIDE DEF t
<1>4. IsTab(tab)
  BY <1>1, <1>2, <1>3, OpensFirst
<1> QED
  BY <1>1, <1>2, <1>4, NoList DEF Shaped

(* The shapes after a step.                                                *)
LEMMA ShapedNext == Shaped /\ [TreeNext]_treeVars => Shaped'
PROOF
<1>1. ASSUME Shaped, TreeNext PROVE Shaped'
  BY <1>1, EachKeeps DEF Careful
<1>2. ASSUME Shaped, UNCHANGED treeVars PROVE Shaped'
  BY <1>2 DEF Shaped, treeVars, prompt, counters
<1> QED
  BY <1>1, <1>2

(* The shapes at all times.                                                *)
LEMMA AlwaysShaped == TreeSpec => []Shaped
PROOF
  BY ShapedInit, ShapedNext, PTL DEF TreeSpec

(* An unsaved edit is kept or written, until it is given up.               *)
THEOREM DraftsAreKept == TreeSpec => DraftsKept
PROOF
<1>1. Shaped /\ [TreeNext]_treeVars =>
        [\A k \in Drafts(items) : KeptOrWritten(items[k]) \/ GivenUp(items[k])]_treeVars
  BY EachKeeps DEF Careful, KeepsDrafts
<1> QED
  BY AlwaysShaped, <1>1, PTL DEF TreeSpec, DraftsKept

(* No handler that succeeds strands a tab.                                 *)
THEOREM NoTabStranded == TreeSpec => NoNewOrphans
PROOF
<1>1. Shaped /\ [TreeNext]_treeVars =>
        [OpenCollection \/ faults' # faults \/ Orphans' \subseteq Orphans]_treeVars
  BY EachKeeps DEF Careful, KeepsTabs
<1> QED
  BY AlwaysShaped, <1>1, PTL DEF TreeSpec, NoNewOrphans

(* What is written is in files of its own.                                 *)
THEOREM FilesApart == TreeSpec => WritesKeepApart
PROOF
<1>1. Shaped /\ [TreeNext]_treeVars =>
        [wrote' # wrote /\ ~Restart /\ ~(CloseSave /\ faults' # faults) =>
            \A j, k \in DOMAIN items' : j < k => items'[j].path # items'[k].path]_treeVars
  BY EachKeeps DEF Careful, KeepsApart, Apart
<1> QED
  BY AlwaysShaped, <1>1, PTL DEF TreeSpec, WritesKeepApart

(***************************************************************************)
(* The answer to the prompt.                                               *)
(***************************************************************************)
(* A draft that was listed is among those the answer settles, unless       *)
(* another request has its id.                                             *)
LEMMA ListedIsSettled ==
    ASSUME Shaped, Valid(Unique(asked)), NEW k \in DOMAIN items,
           k \notin First(Unique(asked), Len(Unique(asked))), Contains(asked, items[k].id)
    PROVE  \E i, j \in DOMAIN items : i < j /\ items[i].id = items[k].id /\ items[j].id = items[k].id
PROOF
<1> DEFINE ids == Unique(asked)
<1>1. /\ IsList(ids)
      /\ \A j \in DOMAIN asked : \E m \in DOMAIN ids : ids[m] = asked[j]
  BY UniqueIs DEF Shaped
<1>2. PICK j \in DOMAIN asked : asked[j] = items[k].id
  BY ListIs DEF Contains, Shaped
<1>3. PICK m \in DOMAIN ids : ids[m] = items[k].id
  BY <1>1, <1>2
<1>4. ids[m] \in Ids(items)
  BY <1>3 DEF Valid
<1>5. Find(items, ids[m]) \in First(ids, Len(ids))
  BY <1>1, <1>3, ListIs DEF First
<1> DEFINE f == Find(items, ids[m])
<1>6. f \in DOMAIN items /\ items[f].id = items[k].id
  BY <1>3, <1>4, Finds DEF Shaped, Listed
<1>7. f # k
  BY <1>5
<1> HIDE DEF f
<1>8. f \in Nat /\ k \in Nat
  BY <1>6, ListIs DEF Shaped, Listed
<1>9. f < k \/ k < f
  BY <1>7, <1>8
<1> QED
  BY <1>6, <1>9

(* A quit after an answer settled the drafts that were listed.             *)
LEMMA QuitSettles ==
    ASSUME Shaped, CloseSave \/ CloseDiscard, quit' = "gone", NEW k \in Drafts(items'),
           Contains(asked, items'[k].id)
    PROVE  \E i, j \in DOMAIN items : i < j /\ items[i].id = items'[k].id /\ items[j].id = items'[k].id
PROOF
<1> DEFINE ids == Unique(asked)
<1>1. IsList(ids) /\ Listed(items) /\ faults \in Nat
  BY UniqueIs DEF Shaped
<1>2. CASE CloseSave
  <2>1. SaveUnsavedDrafts(ids) /\ faults' = faults
    BY <1>2 DEF CloseSave, Answered
  <2>2. Valid(ids)
    BY <2>1 DEF SaveUnsavedDrafts
  <2>3. /\ Same(items, items')
        /\ \A i \in DOMAIN items : items'[i].draft => items[i].draft /\ i \notin First(ids, Len(ids))
    <3> HIDE DEF ids
    <3> QED
      BY <1>1, <2>1, DraftSaves
  <2>4. k \in DOMAIN items /\ items'[k].draft /\ items'[k].id = items[k].id
    BY <2>3 DEF Drafts, Same
  <2>5. k \notin First(ids, Len(ids))
    BY <2>3, <2>4
  <2>6. Contains(asked, items[k].id)
    BY <2>4
  <2> QED
    BY <2>2, <2>4, <2>5, <2>6, ListedIsSettled
<1>3. CASE CloseDiscard
  <2> DEFINE done == TRUE
  <2>1. DiscardUnsavedDrafts(ids, done)
    BY <1>3 DEF CloseDiscard, Answered
  <2>2. Valid(ids)
    BY <2>1 DEF DiscardUnsavedDrafts
  <2>3. \A m \in DOMAIN items' : items'[m].draft =>
           \E i \in DOMAIN items \ First(ids, Len(ids)) : items'[m] = items[i]
    <3> HIDE DEF ids
    <3> QED
      BY <1>1, <2>1, DiscardSteps
  <2>4. PICK i \in DOMAIN items \ First(ids, Len(ids)) : items'[k] = items[i]
    BY <2>3 DEF Drafts
  <2>5. Contains(asked, items[i].id)
    BY <2>4
  <2> QED
    BY <2>2, <2>4, <2>5, ListedIsSettled
<1> QED
  BY <1>2, <1>3

(* Only an answer takes an open prompt to a quit.                          *)
LEMMA OnlyTheAnswer ==
    ASSUME TreeNext, quit = "asking", quit' = "gone"
    PROVE  CloseSave \/ CloseDiscard
PROOF
<1>1. ASSUME UNCHANGED prompt PROVE FALSE
  BY <1>1 DEF prompt
<1>2. ASSUME BeforeClose PROVE FALSE
  BY <1>2 DEF BeforeClose
<1>3. ASSUME CloseCancel PROVE FALSE
  BY <1>3 DEF CloseCancel, Answered
<1>4. ASSUME Restart PROVE FALSE
  BY <1>4 DEF Restart
<1>5. ASSUME NEW id, NEW text, UpdateRequest(id, text) PROVE UNCHANGED prompt
  BY <1>5 DEF UpdateRequest
<1>6. ASSUME NEW dir, NEW name, CreateRequestInFolder(dir, name) PROVE UNCHANGED prompt
  BY <1>6 DEF CreateRequestInFolder
<1>7. ASSUME NEW id, SaveRequest(id) \/ SaveAllTabs PROVE UNCHANGED prompt
  BY <1>7 DEF SaveRequest, SaveAllTabs, SaveRequests
<1>8. ASSUME NEW id, NEW name, RenameRequest(id, name) PROVE UNCHANGED prompt
  BY <1>8 DEF RenameRequest
<1>9. ASSUME NEW id, NEW name, CloneRequest(id, name) PROVE UNCHANGED prompt
  BY <1>9 DEF CloneRequest
<1>10. ASSUME NEW id, DeleteRequest(id) PROVE UNCHANGED prompt
  BY <1>10 DEF DeleteRequest
<1>11. ASSUME NEW dir, DeleteFolder(dir) PROVE UNCHANGED prompt
  BY <1>11 DEF DeleteFolder
<1>12. ASSUME NEW dir, NEW new, RenameFolder(dir, new) PROVE UNCHANGED prompt
  BY <1>12 DEF RenameFolder
<1>13. ASSUME NEW dir, NEW new, CloneFolder(dir, new) PROVE UNCHANGED prompt
  BY <1>13 DEF CloneFolder
<1>14. ASSUME NEW id, DiscardRequestDraft(id) PROVE UNCHANGED prompt
  BY <1>14 DEF DiscardRequestDraft
<1>15. ASSUME NEW p, NEW file, External(p, file) PROVE UNCHANGED prompt
  BY <1>15 DEF External
<1>16. ASSUME RefreshChangedCollections \/ RefreshCollection \/ OpenCollection PROVE UNCHANGED prompt
  BY <1>16 DEF RefreshChangedCollections, RefreshCollection, OpenCollection
<1>17. ASSUME NEW id, OpenRequestTab(id) \/ SetActiveTab(id) \/ CloseTab(id) \/ CloseAllTabs \/ ReopenLastClosedTab(id)
       PROVE  UNCHANGED prompt
  BY <1>17 DEF OpenRequestTab, SetActiveTab, CloseTab, CloseAllTabs, ReopenLastClosedTab, OnlyTabs
<1> QED
  BY <1>1, <1>2, <1>3, <1>4, <1>5, <1>6, <1>7, <1>8, <1>9, <1>10, <1>11, <1>12, <1>13, <1>14, <1>15,
     <1>16, <1>17 DEF TreeNext

(* A close that was answered quits past no draft it had listed.            *)
THEOREM QuitSettlesAll == TreeSpec => QuitSettlesListed
PROOF
<1>1. Shaped /\ [TreeNext]_treeVars =>
        [quit = "asking" /\ quit' = "gone" =>
           \A k \in Drafts(items') :
              \/ ~Contains(asked, items'[k].id)
              \/ \E i, j \in DOMAIN items :
                    i < j /\ items[i].id = items'[k].id /\ items[j].id = items'[k].id]_treeVars
  BY OnlyTheAnswer, QuitSettles
<1> QED
  BY AlwaysShaped, <1>1, PTL DEF TreeSpec, QuitSettlesListed

=============================================================================
