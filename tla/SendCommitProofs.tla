--------------------------- MODULE SendCommitProofs ---------------------------
(***************************************************************************)
(* Proofs for SendCommit, for any senders, names, cookies and values, and  *)
(* for the runner, which sends one request after another (CollectionRun),  *)
(* for any runs, collections, options and limits.                          *)
(***************************************************************************)
EXTENDS MCSendCommit, CollectionRun, FiniteSetTheorems, TLAPS

(* What the refinement needs to know of the state: who sends.              *)
SendersOnly == send = [s \in Senders |-> send[s]]

LEMMA SendersInit == Init => SendersOnly
  BY DEF Init, SendersOnly

(* No step adds a sender.                                                  *)
LEMMA SendersStep == SendersOnly /\ [Next]_vars => SendersOnly'
<1> SUFFICES ASSUME SendersOnly, [Next]_vars PROVE SendersOnly'
  OBVIOUS
<1>1. ASSUME NEW s \in Senders, NEW r, send' = [send EXCEPT ![s] = r]
      PROVE  SendersOnly'
  BY <1>1 DEF SendersOnly
<1>2. CASE \E s \in Senders, stores \in BOOLEAN : Begin(s, stores)
  BY <1>1, <1>2 DEF Begin, SendersOnly
<1>3. CASE \E s \in Senders : Script(s)
  BY <1>1, <1>3 DEF Script, SetScopedVar, DeleteScopedVar, Upsert, RemoveMatching,
     Change
<1>4. CASE \E s \in Senders : Abandon(s)
  BY <1>1, <1>4 DEF Abandon, Done, SendersOnly
<1>5. CASE \E u \in Users : CommitUser(u)
  BY <1>5 DEF CommitUser, Done, SendersOnly, Senders
<1>6. CASE \E a \in Agents : CommitAgent(a) \/ EndExecution(a)
  BY <1>6 DEF CommitAgent, EndExecution, Done, SendersOnly, Senders
<1>7. CASE UserEdits
  BY <1>7 DEF UserEdits, SaveCookie, DeleteCookie, ClearCookies,
     UpdateCollectionVariables, UpdateGlobalVariables,
     CreateGlobal, SetActiveGlobal, DeleteGlobal, Edit, SendersOnly
<1>8. CASE UNCHANGED vars
  BY <1>8 DEF vars, SendersOnly
<1>9. QED
  BY <1>2, <1>3, <1>4, <1>5, <1>6, <1>7, <1>8 DEF Next, Senders

-------------------------------------------------------------------------------
(* The users' share of send, under a name: what the refinement maps to.    *)
UserSendsOf == [u \in Users |-> send[u]]

(* A step that changes the send of one user changes it in the share.       *)
LEMMA ShareOfUser ==
  ASSUME SendersOnly, NEW u \in Users, NEW r, send' = [send EXCEPT ![u] = r]
  PROVE  UserSendsOf' = [UserSendsOf EXCEPT ![u] = r]
  BY DEF SendersOnly, Senders, UserSendsOf

(* A step that changes the send of an agent leaves the share alone.        *)
LEMMA ShareOfAgent ==
  ASSUME SendersOnly, NEW a \in Agents, NEW r, send' = [send EXCEPT ![a] = r]
  PROVE  UserSendsOf' = UserSendsOf
  BY SendCommitAssumption DEF SendersOnly, Senders, UserSendsOf

LEMMA RefinedInit == Init => Ui!Init
  BY SendCommitAssumption DEF Init, Ui!Init, Senders, Ui!Senders, Idle, Ui!Idle,
     NoVariables, Ui!NoVariables,
     Scopes, Ui!Scopes, NothingWritten, Ui!NothingWritten, Variables, Ui!Variables,
     Jars, Ui!Jars, NoOverlay, Ui!NoOverlay

(* The operators that read only the state mean the same on both sides.     *)
LEMMA SameReading ==
  /\ Ui!Scopes = Scopes
  /\ Ui!NoVariables = NoVariables
  /\ Ui!NothingWritten = NothingWritten
  /\ Ui!Defined = Defined
  /\ \A n : Ui!Idle(n) = Idle(n)
  BY DEF Ui!Scopes, Scopes, Ui!NoVariables, NoVariables, Ui!NothingWritten,
     NothingWritten, Ui!Defined, Defined, Ui!Idle, Idle

LEMMA BeginIsBegin ==
  ASSUME SendersOnly, NEW u \in Users, NEW stores, Begin(u, stores)
  PROVE  Ui!Begin(u, stores)
<1>1. u \notin Agents /\ u \in Senders
  BY SendCommitAssumption DEF Senders
<1> DEFINE r == [on |-> TRUE, vars |-> Defined, dirty |-> {},
                 wrote |-> NothingWritten, seed |-> jar, jar |-> jar,
                 stores |-> stores, sends |-> send[u].sends + 1, steps |-> 0]
<1>2. send' = [send EXCEPT ![u] = r]
  BY <1>1 DEF Begin, CookieSeed
<1>3. UserSendsOf' = [UserSendsOf EXCEPT ![u] = r]
  BY <1>2, ShareOfUser
<1>4. UserSendsOf[u] = send[u]
  BY DEF UserSendsOf
<1> QED
  BY <1>1, <1>3, <1>4, SameReading DEF Begin, Ui!Begin, UserSendsOf,
     Ui!CookieSeed, state, Ui!state

LEMMA ScriptIsScript ==
  ASSUME SendersOnly, NEW u \in Users, Script(u)
  PROVE  Ui!Script(u)
<1>1. UserSendsOf[u] = send[u]
  BY DEF UserSendsOf
<1>2. ASSUME NEW c \in Scopes, NEW n \in Names, NEW v \in Values, SetScopedVar(u, c, n, v)
      PROVE  Ui!Script(u)
  <2>1. UserSendsOf' = [UserSendsOf EXCEPT ![u] =
                         [Write(u, c, n, v) EXCEPT !.steps = send[u].steps + 1]]
    BY <1>2, ShareOfUser DEF SetScopedVar, Change
  <2>2. Ui!SetScopedVar(u, c, n, v)
    BY <1>1, <1>2, <2>1 DEF SetScopedVar, Ui!SetScopedVar, Change, Ui!Change,
       Write, Ui!Write, UserSendsOf, state, Ui!state
  <2> QED
    BY <2>2, SameReading DEF Ui!Script
<1>3. ASSUME NEW c \in Scopes, NEW n \in Names, DeleteScopedVar(u, c, n)
      PROVE  Ui!Script(u)
  <2>1. UserSendsOf' = [UserSendsOf EXCEPT ![u] =
                         [Write(u, c, n, None) EXCEPT !.steps = send[u].steps + 1]]
    BY <1>3, ShareOfUser DEF DeleteScopedVar, Change
  <2>2. Ui!DeleteScopedVar(u, c, n)
    BY <1>1, <1>3, <2>1 DEF DeleteScopedVar, Ui!DeleteScopedVar, Change,
       Ui!Change, Write, Ui!Write, UserSendsOf, state, Ui!state
  <2> QED
    BY <2>2, SameReading DEF Ui!Script
<1>4. ASSUME NEW c \in Cookies, NEW v \in Values, Upsert(u, c, v)
      PROVE  Ui!Script(u)
  <2>1. UserSendsOf' = [UserSendsOf EXCEPT ![u] =
                         [[send[u] EXCEPT !.jar[c] = v] EXCEPT !.steps = send[u].steps + 1]]
    BY <1>4, ShareOfUser DEF Upsert, Change
  <2>2. Ui!Upsert(u, c, v)
    BY <1>1, <1>4, <2>1 DEF Upsert, Ui!Upsert, Change, Ui!Change, UserSendsOf,
       state, Ui!state
  <2> QED
    BY <2>2, SameReading DEF Ui!Script
<1>5. ASSUME NEW c \in Cookies, RemoveMatching(u, c)
      PROVE  Ui!Script(u)
  <2>1. UserSendsOf' = [UserSendsOf EXCEPT ![u] =
                         [[send[u] EXCEPT !.jar[c] = None] EXCEPT !.steps = send[u].steps + 1]]
    BY <1>5, ShareOfUser DEF RemoveMatching, Change
  <2>2. Ui!RemoveMatching(u, c)
    BY <1>1, <1>5, <2>1 DEF RemoveMatching, Ui!RemoveMatching, Change, Ui!Change,
       UserSendsOf, state, Ui!state
  <2> QED
    BY <2>2, SameReading DEF Ui!Script
<1> QED
  BY <1>2, <1>3, <1>4, <1>5 DEF Script

LEMMA DoneIsDone ==
  ASSUME SendersOnly, NEW u \in Users, Done(u)
  PROVE  Ui!Done(u)
  BY ShareOfUser, SameReading DEF Done, Ui!Done, UserSendsOf

LEMMA CommitIsCommit ==
  ASSUME SendersOnly, NEW u \in Users, CommitUser(u)
  PROVE  Ui!CommitUser(u)
<1>1. UserSendsOf[u] = send[u]
  BY DEF UserSendsOf
<1>2. Ui!ApplyVariables(u)
  BY <1>1 DEF CommitUser, ApplyVariables, Ui!ApplyVariables, WriteGlobals,
     Ui!WriteGlobals,
     Target, Ui!Target, UserSendsOf
<1>3. Ui!Done(u)
  BY DoneIsDone DEF CommitUser
<1> QED
  BY <1>1, <1>2, <1>3 DEF CommitUser, Ui!CommitUser, MergeScriptJar,
     Ui!MergeScriptJar, UserSendsOf

LEMMA EditIsEdit == SendersOnly /\ UserEdits => Ui!UserEdits
  BY DEF UserEdits, Ui!UserEdits, Edit, Ui!Edit, SaveCookie, Ui!SaveCookie,
     DeleteCookie, Ui!DeleteCookie,
     ClearCookies, Ui!ClearCookies, UpdateCollectionVariables,
     Ui!UpdateCollectionVariables,
     UpdateGlobalVariables, Ui!UpdateGlobalVariables, CreateGlobal, Ui!CreateGlobal,
     SetActiveGlobal, Ui!SetActiveGlobal, DeleteGlobal, Ui!DeleteGlobal,
     NextActive, Ui!NextActive,
     NoVariables, Ui!NoVariables

(* No step of an agent shows.                                              *)
LEMMA AgentIsStutter ==
  ASSUME SendersOnly, NEW a \in Agents,
         \/ Begin(a, TRUE) \/ Script(a) \/ Abandon(a)
         \/ CommitAgent(a) \/ EndExecution(a)
  PROVE  UNCHANGED Ui!vars
<1>1. a \in Senders
  BY DEF Senders
<1>2. UserSendsOf' = UserSendsOf /\ UNCHANGED <<state, edits>>
  <2>1. CASE Begin(a, TRUE)
    BY <2>1, ShareOfAgent DEF Begin
  <2>2. CASE Script(a)
    BY <2>2, ShareOfAgent DEF Script, SetScopedVar, DeleteScopedVar, Upsert,
       RemoveMatching, Change
  <2>3. CASE Abandon(a) \/ CommitAgent(a)
    BY <2>3, ShareOfAgent DEF Abandon, CommitAgent, Done
  <2>4. CASE EndExecution(a)
    BY <2>4 DEF EndExecution, UserSendsOf
  <2> QED
    BY <2>1, <2>2, <2>3, <2>4
<1> QED
  BY <1>2 DEF Ui!vars, Ui!state, state, UserSendsOf

LEMMA RefinedStep == SendersOnly /\ [Next]_vars => [Ui!Next]_(Ui!vars)
<1> SUFFICES ASSUME SendersOnly, [Next]_vars PROVE [Ui!Next]_(Ui!vars)
  OBVIOUS
<1>1. CASE \E u \in Users, stores \in BOOLEAN : Begin(u, stores)
  BY <1>1, BeginIsBegin DEF Ui!Next
<1>2. ASSUME NEW u \in Users, Script(u) PROVE Ui!Next
  BY <1>2, ScriptIsScript DEF Ui!Next, Ui!Senders
<1>3. ASSUME NEW u \in Users, Abandon(u) PROVE Ui!Next
  <2>1. Ui!Abandon(u)
    BY <1>3, DoneIsDone DEF Abandon, Ui!Abandon, state, Ui!state, UserSendsOf
  <2> QED
    BY <2>1 DEF Ui!Next, Ui!Senders
<1>4. CASE \E u \in Users : CommitUser(u)
  BY <1>4, CommitIsCommit DEF Ui!Next
<1>5. CASE \E a \in Agents : \/ Begin(a, TRUE) \/ Script(a) \/ Abandon(a)
                              \/ CommitAgent(a) \/ EndExecution(a)
  BY <1>5, AgentIsStutter
<1>6. CASE UserEdits
  BY <1>6, EditIsEdit DEF Ui!Next
<1>7. CASE UNCHANGED vars
  BY <1>7 DEF vars, state, Ui!vars, Ui!state
<1> QED
  BY <1>1, <1>2, <1>3, <1>4, <1>5, <1>6, <1>7 DEF Next, Senders

(* No step of an agent's execution shows in the state, through any order   *)
(* of its steps, the user's sends and edits: without the agents' share,    *)
(* every behaviour is one of the system in which no agent sends.           *)
THEOREM NoTraceOfAgents == Spec => AgentsAreInvisible
<1>1. Spec => []SendersOnly
  BY SendersInit, SendersStep, PTL DEF Spec
<1> QED
  BY <1>1, RefinedInit, RefinedStep, PTL DEF Spec, AgentsAreInvisible, Ui!Spec

-------------------------------------------------------------------------------
(* Types.                                                                  *)

SendType ==
    [on : BOOLEAN, vars : [Scopes -> Variables], dirty : SUBSET Scopes,
     wrote : Written, seed : Jars, jar : Jars, stores : BOOLEAN,
     sends : Nat, steps : 0..MaxSteps]
OverlayType == [vars : [Scopes -> Variables], recorded : BOOLEAN, jar : Jars]

LEMMA BlankTypes ==
  /\ NoVariables \in Variables
  /\ NothingWritten \in Written
  /\ NoOverlay \in OverlayType
  /\ \A n \in Nat : Idle(n) \in SendType
<1>1. NoVariables \in Variables
  BY DEF NoVariables, Variables
<1>2. NothingWritten \in Written
  BY DEF NothingWritten, Written
<1>3. [c \in Cookies |-> None] \in Jars
  BY DEF Jars
<1>4. [s \in Scopes |-> NoVariables] \in [Scopes -> Variables]
  BY <1>1
<1>5. NoOverlay \in OverlayType
  BY <1>3, <1>4 DEF NoOverlay, OverlayType
<1>6. 0 \in 0..MaxSteps
  BY BoundAssumption
<1>7. \A n \in Nat : Idle(n) \in SendType
  BY <1>2, <1>3, <1>4, <1>6 DEF Idle, SendType
<1> QED
  BY <1>1, <1>2, <1>5, <1>7

(* Over keeps a function's domain and takes its values from the two.       *)
LEMMA OverType ==
  ASSUME NEW D, NEW R, NEW f \in [D -> R], NEW g \in [D -> R], NEW no
  PROVE  /\ Over(f, g, no) \in [D -> R]
         /\ \A x \in D : Over(f, g, no)[x] = IF g[x] = no THEN f[x] ELSE g[x]
  BY DEF Over

LEMMA OverVariables ==
  ASSUME NEW f \in Variables, NEW g \in Variables
  PROVE  /\ Over(f, g, None) \in Variables
         /\ \A n \in Names : Over(f, g, None)[n] = IF g[n] = None THEN f[n] ELSE g[n]
  BY DEF Over, Variables

LEMMA DefinedType == TypeOK => Defined \in [Scopes -> Variables]
  BY BlankTypes DEF TypeOK, Defined

LEMMA ContextType ==
  ASSUME TypeOK, NEW a \in Agents
  PROVE  /\ Context(a) \in [Scopes -> Variables]
         /\ \A s \in Scopes, n \in Names :
               Context(a)[s][n] = IF overlay[a].vars[s][n] = None
                                  THEN Defined[s][n] ELSE overlay[a].vars[s][n]
<1>0. overlay[a] \in OverlayType
  BY DEF TypeOK, OverlayType
<1>1. \A s \in Scopes : overlay[a].vars[s] \in Variables /\ Defined[s] \in Variables
  BY <1>0, DefinedType DEF OverlayType
<1>2. \A s \in Scopes :
         /\ Over(Defined[s], overlay[a].vars[s], None) \in Variables
         /\ \A n \in Names : Over(Defined[s], overlay[a].vars[s], None)[n] =
              IF overlay[a].vars[s][n] = None THEN Defined[s][n] ELSE overlay[a].vars[s][n]
  BY <1>1, OverVariables
<1> QED
  BY <1>2 DEF Context

LEMMA AbsorbedType ==
  ASSUME TypeOK, NEW a \in Agents
  PROVE  /\ Absorbed(a) \in OverlayType
         /\ \A s \in Scopes, n \in Names :
               Absorbed(a).vars[s][n] =
                  IF s \in send[a].dirty /\ send[a].vars[s][n] # None
                  THEN send[a].vars[s][n] ELSE overlay[a].vars[s][n]
<1>1. send[a] \in SendType /\ overlay[a] \in OverlayType
  BY DEF TypeOK, Senders, SendType, OverlayType
<1>2. Deltas(a) \in [Scopes -> Variables]
  BY <1>1, BlankTypes DEF Deltas, SendType
<1>3. \A s \in Scopes : Deltas(a)[s] = IF s \in send[a].dirty THEN send[a].vars[s] ELSE NoVariables
  BY DEF Deltas
<1>4. \A s \in Scopes : /\ Over(overlay[a].vars[s], Deltas(a)[s], None) \in Variables
                        /\ \A n \in Names :
                              Over(overlay[a].vars[s], Deltas(a)[s], None)[n] =
                                 IF Deltas(a)[s][n] = None
                                 THEN overlay[a].vars[s][n] ELSE Deltas(a)[s][n]
  <2> TAKE s \in Scopes
  <2>1. overlay[a].vars[s] \in Variables /\ Deltas(a)[s] \in Variables
    BY <1>1, <1>2 DEF OverlayType
  <2> QED
    BY <2>1, OverVariables
<1>5. \A n \in Names : NoVariables[n] = None
  BY DEF NoVariables
<1> QED
  BY <1>1, <1>3, <1>4, <1>5 DEF Absorbed, OverlayType, SendType

LEMMA TypeInit == Init => TypeOK
<1> SUFFICES ASSUME Init PROVE TypeOK
  OBVIOUS
<1>1. /\ send \in [Senders -> SendType]
      /\ overlay \in [Agents -> OverlayType]
      /\ said \in [Agents -> Written]
      /\ gvars \in [Globals -> Variables]
  BY BlankTypes DEF Init
<1>2. edits \in 0..MaxEdits
  BY BoundAssumption DEF Init
<1>3. globals \subseteq Globals /\ active \in globals \cup {None}
  BY DEF Init
<1> QED
  BY <1>1, <1>2, <1>3 DEF Init, TypeOK, SendType, OverlayType

(* What the parts of a step need: the types of what they write.            *)
LEMMA TypeOfSend ==
  ASSUME TypeOK, NEW s \in Senders, NEW r \in SendType,
         send' = [send EXCEPT ![s] = r], UNCHANGED <<state, overlay, said, edits>>
  PROVE  TypeOK'
  BY DEF TypeOK, SendType, state

LEMMA TypeStep == TypeOK /\ [Next]_vars => TypeOK'
<1> SUFFICES ASSUME TypeOK, [Next]_vars PROVE TypeOK'
  OBVIOUS
<1>t. \A s \in Senders : send[s] \in SendType
  BY DEF TypeOK, SendType
<1>1. ASSUME NEW s \in Senders, NEW stores \in BOOLEAN, Begin(s, stores)
      PROVE  TypeOK'
  <2>1. CookieSeed(s) \in Jars
    BY DEF CookieSeed, TypeOK
  <2>2. (IF s \in Agents THEN Context(s) ELSE Defined) \in [Scopes -> Variables]
    BY ContextType, DefinedType
  <2>3. (IF s \in Agents THEN OverlayDirty(s) ELSE {}) \in SUBSET Scopes
    BY DEF OverlayDirty
  <2>4. NothingWritten \in Written /\ 0 \in 0..MaxSteps /\ send[s].sends + 1 \in Nat
    BY <1>t, BlankTypes, BoundAssumption DEF SendType
  <2> DEFINE r == [on |-> TRUE,
                   vars |-> IF s \in Agents THEN Context(s) ELSE Defined,
                   dirty |-> IF s \in Agents THEN OverlayDirty(s) ELSE {},
                   wrote |-> NothingWritten, seed |-> CookieSeed(s), jar |-> CookieSeed(s),
                   stores |-> stores, sends |-> send[s].sends + 1, steps |-> 0]
  <2>5. r \in SendType
    BY <2>1, <2>2, <2>3, <2>4 DEF SendType
  <2> QED
    BY <1>1, <2>5, TypeOfSend DEF Begin
<1>2. ASSUME NEW s \in Senders, Script(s)
      PROVE  TypeOK'
  <2>1. ASSUME NEW r \in SendType, Change(s, r) PROVE TypeOK'
    <3>1. [r EXCEPT !.steps = send[s].steps + 1] \in SendType
      BY <2>1, <1>t, BoundAssumption DEF SendType, Change
    <3> QED
      BY <2>1, <3>1, TypeOfSend DEF Change
  <2>2. ASSUME NEW c \in Scopes, NEW n \in Names, NEW v \in Values \cup {None}
        PROVE  Write(s, c, n, v) \in SendType
    BY <1>t DEF Write, SendType, Variables, Written
  <2>3. ASSUME NEW c \in Cookies, NEW v \in Values \cup {None}
        PROVE  [send[s] EXCEPT !.jar[c] = v] \in SendType
    BY <1>t DEF SendType, Jars
  <2> QED
    BY <1>2, <2>1, <2>2, <2>3 DEF Script, SetScopedVar, DeleteScopedVar, Upsert,
       RemoveMatching
<1>3. ASSUME NEW s \in Senders, Abandon(s)
      PROVE  TypeOK'
  BY <1>3, <1>t, BlankTypes, TypeOfSend DEF Abandon, Done, SendType
<1>4. ASSUME NEW u \in Users, CommitUser(u)
      PROVE  TypeOK'
  <2>1. u \in Senders /\ send[u] \in SendType
    BY <1>t DEF Senders
  <2>2. send' \in [Senders -> SendType]
    BY <1>4, <2>1, BlankTypes DEF CommitUser, Done, TypeOK, SendType
  <2>3. jar' \in Jars
    BY <1>4, <2>1 DEF CommitUser, MergeScriptJar, Jars, SendType, TypeOK
  <2>4. send[u].vars["collection"] \in Variables /\ send[u].vars["global"] \in Variables
    BY <2>1 DEF SendType, Scopes
  <2>5. defs' \in Variables
    BY <1>4, <2>4 DEF CommitUser, ApplyVariables, TypeOK
  <2>6. /\ globals' \subseteq Globals
        /\ gvars' \in [Globals -> Variables]
        /\ active' \in globals' \cup {None}
    <3>1. CASE "global" \notin send[u].dirty
      BY <1>4, <3>1 DEF CommitUser, ApplyVariables, TypeOK
    <3>2. CASE "global" \in send[u].dirty
      <4>1. PICK g \in Target :
              /\ active' = g
              /\ globals' = IF g = None THEN globals ELSE globals \cup {g}
              /\ gvars' = IF g = None THEN gvars
                          ELSE [gvars EXCEPT ![g] = send[u].vars["global"]]
        BY <1>4, <3>2 DEF CommitUser, ApplyVariables, WriteGlobals
      <4>2. g \in Globals \cup {None}
        BY DEF Target, TypeOK
      <4> QED
        BY <4>1, <4>2, <2>4 DEF TypeOK
    <3> QED
      BY <3>1, <3>2
  <2> QED
    BY <1>4, <2>2, <2>3, <2>5, <2>6 DEF CommitUser, TypeOK, SendType
<1>5. ASSUME NEW a \in Agents, CommitAgent(a)
      PROVE  TypeOK'
  <2>1. a \in Senders /\ send[a] \in SendType
    BY <1>t DEF Senders
  <2>2. send' \in [Senders -> SendType]
    BY <1>5, <2>1, BlankTypes DEF CommitAgent, Done, TypeOK, SendType
  <2>3. overlay' \in [Agents -> OverlayType]
    BY <1>5, AbsorbedType DEF CommitAgent, TypeOK, OverlayType
  <2> DEFINE W == Values \cup {None, Unsaid}
  <2>4. [s \in Scopes |-> Over(said[a][s], send[a].wrote[s], Unsaid)] \in Written
    <3>1. \A s \in Scopes : said[a][s] \in [Names -> W] /\ send[a].wrote[s] \in [Names -> W]
      BY <2>1 DEF TypeOK, SendType, Written
    <3>2. \A s \in Scopes : Over(said[a][s], send[a].wrote[s], Unsaid) \in [Names -> W]
      BY <3>1 DEF Over
    <3> QED
      BY <3>2 DEF Written
  <2>5. said' \in [Agents -> Written]
    BY <1>5, <2>4 DEF CommitAgent, TypeOK
  <2> QED
    BY <1>5, <2>2, <2>3, <2>5 DEF CommitAgent, TypeOK, SendType, OverlayType, state
<1>6. ASSUME NEW a \in Agents, EndExecution(a)
      PROVE  TypeOK'
  BY <1>6, BlankTypes DEF EndExecution, TypeOK, OverlayType, state
<1>7. CASE UserEdits
  <2>1. UNCHANGED <<send, overlay, said>> /\ edits' \in 0..MaxEdits
    BY <1>7, BoundAssumption DEF UserEdits, Edit, SaveCookie, DeleteCookie,
       ClearCookies, UpdateCollectionVariables,
       UpdateGlobalVariables, CreateGlobal, SetActiveGlobal, DeleteGlobal, TypeOK
  <2>2. CASE \/ \E c \in Cookies, v \in Values : SaveCookie(c, v)
             \/ \E c \in Cookies : DeleteCookie(c)
             \/ ClearCookies
    BY <2>1, <2>2 DEF SaveCookie, DeleteCookie, ClearCookies, Jars, TypeOK
  <2>3. ASSUME NEW n \in Names, NEW v \in Values \cup {None}, UpdateCollectionVariables(n, v)
        PROVE  TypeOK'
    BY <2>1, <2>3 DEF UpdateCollectionVariables, Variables, TypeOK
  <2>6. ASSUME NEW g \in Globals, NEW n \in Names, NEW v \in Values \cup {None},
               UpdateGlobalVariables(g, n, v)
        PROVE  TypeOK'
    <3>1. [gvars[g] EXCEPT ![n] = v] \in Variables
      BY DEF TypeOK, Variables
    <3> QED
      BY <2>1, <2>6, <3>1 DEF UpdateGlobalVariables, TypeOK
  <2>4. CASE \/ \E g \in Globals : CreateGlobal(g)
             \/ \E g \in Globals \cup {None} : SetActiveGlobal(g)
    BY <2>1, <2>4 DEF CreateGlobal, SetActiveGlobal, TypeOK
  <2>5. CASE \E g \in Globals : DeleteGlobal(g)
    BY <2>1, <2>5, BlankTypes DEF DeleteGlobal, NextActive, TypeOK
  <2> QED
    BY <1>7, <2>2, <2>3, <2>4, <2>5, <2>6 DEF UserEdits
<1>8. CASE UNCHANGED vars
  BY <1>8 DEF vars, state, TypeOK
<1> QED
  BY <1>1, <1>2, <1>3, <1>4, <1>5, <1>6, <1>7, <1>8 DEF Next, Senders

(* Every part of the state keeps its type, and the active environment is   *)
(* one of the workspace's, in whatever order environments are edited and   *)
(* tails write.                                                            *)
THEOREM TypeCorrect == Spec => []TypeOK
  BY TypeInit, TypeStep, PTL DEF Spec

-------------------------------------------------------------------------------
(* What makes SaidIsRead inductive: the overlay holds what the finished    *)
(* steps set, and while a step runs its variables hold what it set itself, *)
(* in a scope marked as changed, and for the rest what those steps set.    *)

(* The overlay has what the finished steps set.                            *)
HeldBy(a) ==
    \A s \in Scopes, n \in Names :
        said[a][s][n] \in Values => overlay[a].vars[s][n] = said[a][s][n]

(* The running step has what it set, and what those steps set.             *)
CarriedBy(a) ==
    \A s \in Scopes, n \in Names :
        send[a].on =>
            /\ send[a].wrote[s][n] \in Values =>
                  s \in send[a].dirty /\ send[a].vars[s][n] = send[a].wrote[s][n]
            /\ send[a].wrote[s][n] = Unsaid /\ said[a][s][n] \in Values =>
                  send[a].vars[s][n] = said[a][s][n]

Continuity == TypeOK /\ \A a \in Agents : HeldBy(a) /\ CarriedBy(a)

LEMMA ContinuityInit == Init => Continuity
<1> SUFFICES ASSUME Init PROVE Continuity
  OBVIOUS
<1>1. \A a \in Agents : HeldBy(a)
  BY SendCommitAssumption DEF Init, HeldBy, NothingWritten
<1>2. \A a \in Agents : CarriedBy(a)
  BY DEF Init, CarriedBy, Idle, Senders
<1> QED
  BY <1>1, <1>2, TypeInit DEF Continuity

LEMMA BeginCarries ==
  ASSUME Continuity, NEW a \in Agents, Begin(a, TRUE)
  PROVE  HeldBy(a)' /\ CarriedBy(a)'
<1>1. a \in Senders /\ send \in [Senders -> SendType]
  BY DEF Senders, Continuity, TypeOK, SendType
<1>2. /\ send'[a].vars = Context(a)
      /\ send'[a].wrote = NothingWritten
      /\ UNCHANGED <<overlay, said>>
  BY <1>1 DEF Begin
<1>3. \A s \in Scopes, n \in Names :
        send'[a].wrote[s][n] = Unsaid
  BY <1>2 DEF NothingWritten
<1>4. \A s \in Scopes, n \in Names :
        said[a][s][n] \in Values => Context(a)[s][n] = said[a][s][n]
  BY ContextType, SendCommitAssumption DEF Continuity, HeldBy
<1> QED
  BY <1>2, <1>3, <1>4, SendCommitAssumption DEF Continuity, HeldBy, CarriedBy

LEMMA ScriptCarries ==
  ASSUME Continuity, NEW a \in Agents, Script(a)
  PROVE  HeldBy(a)' /\ CarriedBy(a)'
<1>1. a \in Senders /\ send \in [Senders -> SendType] /\ send[a] \in SendType
  BY DEF Senders, Continuity, TypeOK, SendType
<1>2. ASSUME NEW c \in Scopes, NEW n \in Names, NEW v \in Values \cup {None},
             Change(a, Write(a, c, n, v))
      PROVE  HeldBy(a)' /\ CarriedBy(a)'
  <2>1. /\ send'[a].on
        /\ send'[a].vars = [send[a].vars EXCEPT ![c][n] = v]
        /\ send'[a].wrote = [send[a].wrote EXCEPT ![c][n] = v]
        /\ send'[a].dirty = send[a].dirty \cup {c}
        /\ UNCHANGED <<overlay, said>>
    BY <1>1, <1>2 DEF Change, Write, SendType
  <2>2. \A s \in Scopes, m \in Names :
          /\ send'[a].vars[s][m] = IF s = c /\ m = n THEN v ELSE send[a].vars[s][m]
          /\ send'[a].wrote[s][m] = IF s = c /\ m = n THEN v ELSE send[a].wrote[s][m]
    BY <2>1, <1>1 DEF SendType, Variables, Written
  <2>3. send[a].on
    BY <1>2 DEF Change
  <2> QED
    BY <2>1, <2>2, <2>3, SendCommitAssumption DEF Continuity, HeldBy, CarriedBy
<1>3. ASSUME NEW c \in Cookies, NEW v, Change(a, [send[a] EXCEPT !.jar[c] = v])
      PROVE  HeldBy(a)' /\ CarriedBy(a)'
  <2>1. /\ send'[a].vars = send[a].vars
        /\ send'[a].wrote = send[a].wrote
        /\ send'[a].dirty = send[a].dirty
        /\ send[a].on
        /\ UNCHANGED <<overlay, said>>
    BY <1>1, <1>3 DEF Change, SendType
  <2> QED
    BY <2>1 DEF Continuity, HeldBy, CarriedBy
<1> QED
  BY <1>2, <1>3 DEF Script, SetScopedVar, DeleteScopedVar, Upsert, RemoveMatching

LEMMA CommitCarries ==
  ASSUME Continuity, NEW a \in Agents, CommitAgent(a)
  PROVE  HeldBy(a)' /\ CarriedBy(a)'
<1>1. /\ a \in Senders /\ send \in [Senders -> SendType] /\ send[a] \in SendType
      /\ overlay \in [Agents -> OverlayType] /\ said \in [Agents -> Written]
  BY DEF Senders, Continuity, TypeOK, SendType, OverlayType
<1>2. /\ ~send'[a].on
      /\ overlay'[a] = Absorbed(a)
      /\ said'[a] = [s \in Scopes |-> Over(said[a][s], send[a].wrote[s], Unsaid)]
      /\ send[a].on
  BY <1>1 DEF CommitAgent, Done, Idle
<1>3. ASSUME NEW s \in Scopes, NEW n \in Names
      PROVE  said'[a][s][n] \in Values => overlay'[a].vars[s][n] = said'[a][s][n]
  <2>1. said'[a][s][n] = IF send[a].wrote[s][n] = Unsaid THEN said[a][s][n] ELSE send[a].wrote[s][n]
    BY <1>1, <1>2 DEF Over, Written, SendType
  <2>2. overlay'[a].vars[s][n] = IF s \in send[a].dirty /\ send[a].vars[s][n] # None
                                 THEN send[a].vars[s][n] ELSE overlay[a].vars[s][n]
    BY <1>2, AbsorbedType DEF Continuity
  <2>3. None \notin Values /\ Unsaid \notin Values
    BY SendCommitAssumption
  <2> QED
    BY <1>2, <2>1, <2>2, <2>3 DEF Continuity, HeldBy, CarriedBy
<1> QED
  BY <1>2, <1>3 DEF HeldBy, CarriedBy

LEMMA ContinuityStep == Continuity /\ [Next]_vars => Continuity'
<1> SUFFICES ASSUME Continuity, [Next]_vars PROVE Continuity'
  OBVIOUS
<1>1. TypeOK'
  BY TypeStep DEF Continuity
<1>2. ASSUME NEW a \in Agents PROVE HeldBy(a)' /\ CarriedBy(a)'
  <2>1. a \in Senders /\ a \notin Users /\ send \in [Senders -> SendType]
    BY SendCommitAssumption DEF Senders, Continuity, TypeOK, SendType
  <2>2. CASE send'[a] = send[a] /\ overlay'[a] = overlay[a] /\ said'[a] = said[a]
    BY <2>2 DEF Continuity, HeldBy, CarriedBy
  <2>3. CASE Begin(a, TRUE)
    BY <2>3, BeginCarries
  <2>4. CASE Script(a)
    BY <2>4, ScriptCarries
  <2>5. CASE CommitAgent(a)
    BY <2>5, CommitCarries
  <2>6. CASE Abandon(a)
    BY <2>1, <2>6 DEF Abandon, Done, Idle, Continuity, HeldBy, CarriedBy
  <2>7. CASE EndExecution(a)
    BY <2>7, SendCommitAssumption DEF EndExecution, NoOverlay, NothingWritten,
       Continuity, TypeOK, HeldBy, CarriedBy
  <2>8. CASE UserEdits \/ UNCHANGED vars
    <3>1. UNCHANGED <<send, overlay, said>>
      BY <2>8 DEF UserEdits, Edit, SaveCookie, DeleteCookie, ClearCookies,
         UpdateCollectionVariables, UpdateGlobalVariables, CreateGlobal,
         SetActiveGlobal, DeleteGlobal, vars
    <3> QED
      BY <3>1, <2>2
  <2>9. ASSUME NEW s \in Senders, s # a,
               (\E stores \in BOOLEAN : Begin(s, stores)) \/ Script(s) \/ Abandon(s)
        PROVE  HeldBy(a)' /\ CarriedBy(a)'
    <3>1. send'[a] = send[a] /\ UNCHANGED <<overlay, said>>
      BY <2>1, <2>9 DEF Begin, Script, SetScopedVar, DeleteScopedVar, Upsert,
         RemoveMatching, Change, Abandon, Done
    <3> QED
      BY <3>1, <2>2
  <2>10. ASSUME NEW u \in Users, CommitUser(u)
         PROVE  HeldBy(a)' /\ CarriedBy(a)'
    <3>1. send'[a] = send[a] /\ UNCHANGED <<overlay, said>>
      BY <2>1, <2>10 DEF CommitUser, Done
    <3> QED
      BY <3>1, <2>2
  <2>11. ASSUME NEW b \in Agents, b # a, CommitAgent(b) \/ EndExecution(b)
         PROVE  HeldBy(a)' /\ CarriedBy(a)'
    <3>1. send'[a] = send[a] /\ overlay'[a] = overlay[a] /\ said'[a] = said[a]
      BY <2>1, <2>11 DEF CommitAgent, EndExecution, Done, Continuity, TypeOK
    <3> QED
      BY <3>1, <2>2
  <2> QED
    BY <2>1, <2>3, <2>4, <2>5, <2>6, <2>7, <2>8, <2>9, <2>10, <2>11 DEF Next,
       Senders
<1> QED
  BY <1>1, <1>2 DEF Continuity, HeldBy, CarriedBy

(* What an earlier step of an execution set is what the next one reads,    *)
(* through any number of steps and whatever the user does in between.      *)
THEOREM StepsReadWhatWasSet == Spec => []SaidIsRead
<1>1. Continuity => SaidIsRead
  <2> SUFFICES ASSUME Continuity, NEW a \in Agents, NEW s \in Scopes, NEW n \in Names,
                      said[a][s][n] \in Values
               PROVE  Context(a)[s][n] = said[a][s][n]
    BY DEF SaidIsRead
  <2>1. overlay[a].vars[s][n] = said[a][s][n] /\ said[a][s][n] # None
    BY SendCommitAssumption DEF Continuity, HeldBy
  <2> QED
    BY <2>1, ContextType DEF Continuity
<1> QED
  BY <1>1, ContinuityInit, ContinuityStep, PTL DEF Spec

(* A tail of the user's removes or changes only cookies that its send      *)
(* carried from its head or stored.                                        *)
THEOREM OthersCookiesStay == Spec => CommitTouchesOwn
<1>1. ASSUME TypeOK, NEW u \in Users, CommitUser(u),
             NEW c \in Cookies, jar'[c] # jar[c]
      PROVE  /\ send[u].stores
             /\ send[u].seed[c] # None \/ send[u].jar[c] # None
  BY <1>1 DEF CommitUser, MergeScriptJar
<1>2. TypeOK /\ [Next]_vars =>
        [\A u \in Users : CommitUser(u) =>
           \A c \in Cookies :
              jar'[c] # jar[c] =>
                  /\ send[u].stores
                  /\ send[u].seed[c] # None \/ send[u].jar[c] # None]_vars
  BY <1>1
<1> QED
  BY <1>2, TypeCorrect, PTL DEF Spec, CommitTouchesOwn

-----------------------------------------------------------------------------
(***************************************************************************)
(* The collection runner: its registry and its loops (CollectionRun).      *)
(* Most of the invariant is about one run alone and is stated of its rows, *)
(* its loop variables and its options as parameters: in the loops every    *)
(* iteration before this one has had all its turns, this one those before  *)
(* index, and the rows fit in what the redirections so far have used up;   *)
(* past the loops each iteration tells what became of it.                  *)
(***************************************************************************)

(* Where a run has no rows yet, where it is in the loops, and where it has *)
(* left them.                                                              *)
Before == {"idle", "registered", "planning"}
Looping == {"turn", "sending"}
Past == {"ending", "closed", "complete", "stored"}

(* EndsCancelled, Stamp, RowsOf and TellsTheRun, of the rows s, the loop   *)
(* variables l, the redirections red and the options o of a run.           *)
Ends(s) == s # <<>> /\ s[Len(s)].status = "cancelled"

StampOf(l, i) == IF l.total > 1 THEN i ELSE 0

RowsIn(s, k) == {n \in DOMAIN s : s[n].item # 0 /\ s[n].iteration = k}

(* The rows of an iteration are those of the requests up to last, each     *)
(* once and in order.                                                      *)
InTurn(s, k, last) ==
    /\ \A m, n \in RowsIn(s, k) : m < n => s[m].item < s[n].item
    /\ {s[n].item : n \in RowsIn(s, k)} = 1..last

(* What TellsTheRun says of the iteration i of the run r, when S have been *)
(* stopped by a script.                                                    *)
Told(r, S, s, l, red, o, i) ==
    LET rows == RowsIn(s, StampOf(l, i))
        completed == i <= l.completed
        started == i <= l.completed + 1
    IN  /\ o.rows > 0 => i <= o.rows
        /\ completed => \A n \in rows : s[n].status # "cancelled" /\ s[n].status # "unrun"
        /\ ~started => rows = {}
        /\ started /\ red[i] = 0 =>
             \E last \in 0..o.items :
                /\ InTurn(s, StampOf(l, i), last)
                /\ last < o.items => ~completed /\ (Ends(s) \/ r \in S)
        /\ o.bail =>
             \A n \in rows :
                s[n].status = "unrun" <=>
                   \E m \in rows : m < n /\ s[m].status = "failed"

(* The redirections so far, as if every iteration had used up its own.     *)
Rounds(l) == (l.iteration - 1) * (MaxJumps + 1) + l.jumps
Turns(l, o) == Rounds(l) * o.items
Most(o) == IterationLimit * (MaxJumps + 1) * o.items

(* What holds in the loops: every iteration before this one has had all    *)
(* its turns, this one those before index, and nothing but "done" has been *)
(* recorded.                                                               *)
LoopInv(p, s, l, red, o) ==
    /\ l.total \in Iterations /\ (o.rows > 0 => l.total <= o.rows)
    /\ l.iteration \in 1..l.total /\ l.completed = l.iteration - 1
    /\ l.index \in 1..(o.items + 1) /\ (p = "sending" => l.index <= o.items)
    /\ l.jumps \in 0..MaxJumps /\ red[l.iteration] = l.jumps
    /\ \A i \in Iterations : i > l.iteration => red[i] = 0
    /\ \A n \in DOMAIN s :
          /\ s[n].status = "done" /\ s[n].item \in 1..o.items
          /\ \E j \in 1..l.iteration : s[n].iteration = StampOf(l, j)
    /\ \A i \in 1..l.iteration : red[i] = 0 =>
          InTurn(s, StampOf(l, i),
                 IF i < l.iteration THEN o.items ELSE l.index - 1)
    /\ Len(s) <= Turns(l, o) + (l.index - 1)

(* A run that has not begun. *)
Fresh(s, l, red) ==
    /\ s = <<>>
    /\ l = [total |-> 0, iteration |-> 1, index |-> 1, jumps |-> 0, completed |-> 0]
    /\ red = [i \in Iterations |-> 0]

(* What holds of a run by where it is. *)
LocalInv(r, S, p, s, l, red, o) ==
    /\ p \in Before => Fresh(s, l, red)
    /\ p \in Looping => LoopInv(p, s, l, red, o)
    /\ p \in Past => /\ \A i \in 1..l.total : Told(r, S, s, l, red, o, i)
                     /\ Len(s) <= Most(o) + IF p \in {"complete", "stored"} THEN 1 ELSE 0
    /\ p = "failed" => /\ Len(s) <= Most(o)
                       /\ s # <<>> => red[l.iteration] > MaxJumps

(* t is s with rows of the current iteration after it, from index on.      *)
Continues(s, t, l) ==
    /\ Len(t) \in Nat /\ DOMAIN t = 1..Len(t) /\ Len(s) <= Len(t)
    /\ \A n \in 1..Len(s) : t[n] = s[n]
    /\ \A n \in (Len(s) + 1)..Len(t) :
          /\ t[n].iteration = StampOf(l, l.iteration)
          /\ t[n].item = (l.index - 1) + (n - Len(s))

(* What it leaves alone, and what has become of the current iteration.     *)
OthersKept(s, t, l, red, o) ==
    \A i \in 1..l.total : i # l.iteration =>
       /\ RowsIn(t, StampOf(l, i)) = RowsIn(s, StampOf(l, i))
       /\ \A n \in RowsIn(s, StampOf(l, i)) : t[n] = s[n]
       /\ i > l.iteration => RowsIn(t, StampOf(l, i)) = {}
       /\ i < l.iteration /\ red[i] = 0 => InTurn(t, StampOf(l, i), o.items)

ThisOneToo(s, t, l, red) ==
    red[l.iteration] = 0 =>
       InTurn(t, StampOf(l, l.iteration), (l.index - 1) + (Len(t) - Len(s)))

(* Counted from one later place, a place is one less. *)
LEMMA OneLater ==
    ASSUME NEW i \in Nat, NEW n \in Nat, NEW a \in Nat, NEW b \in Nat, b = a + 1
    PROVE  i + (n - b) = (i - 1) + (n - a)
PROOF
  OBVIOUS

(* A factor that is no smaller. *)
LEMMA Longer ==
    ASSUME NEW a \in Nat, NEW b \in Nat, a <= b, NEW c \in Nat
    PROVE  /\ a * c \in Nat /\ b * c \in Nat /\ a * c <= b * c
PROOF
  OBVIOUS

(* One more of the same. *)
LEMMA OnceMore ==
    ASSUME NEW a \in Nat, NEW c \in Nat
    PROVE  a * c \in Nat /\ (a + 1) * c = a * c + c
PROOF
  OBVIOUS

(* Rows that go on where an iteration stood leave it in order. *)
LEMMA Extended ==
    ASSUME NEW s, NEW t, Len(s) \in Nat, Len(t) \in Nat,
           DOMAIN s = 1..Len(s), DOMAIN t = 1..Len(t), Len(s) <= Len(t),
           \A n \in 1..Len(s) : t[n] = s[n],
           NEW k, NEW last \in Nat, InTurn(s, k, last),
           \A n \in (Len(s) + 1)..Len(t) :
              t[n].iteration = k /\ t[n].item = last + (n - Len(s))
    PROVE  InTurn(t, k, last + (Len(t) - Len(s)))
PROOF
<1> DEFINE a == Len(s)
<1> DEFINE b == Len(t)
<1> DEFINE R == RowsIn(s, k)
<1> DEFINE Q == RowsIn(t, k)
<1>0. a \in Nat /\ b \in Nat /\ a <= b /\ last \in Nat
  OBVIOUS
<1> HIDE DEF a, b
<1>1. \A n \in R : n \in 1..a /\ n \in Q /\ t[n].item = s[n].item
  BY <1>0 DEF RowsIn, a, b
<1>2. \A n \in Q : n \in R \/ n \in (a + 1)..b
  BY <1>0 DEF RowsIn, a, b
<1>3. \A n \in (a + 1)..b : n \in Q /\ t[n].item = last + (n - a)
  BY <1>0 DEF RowsIn, a, b
<1>4. \A n \in R : s[n].item \in 1..last
  BY DEF InTurn
<1>5. \A m, n \in Q : m < n => t[m].item < t[n].item
  <2> SUFFICES ASSUME NEW m \in Q, NEW n \in Q, m < n PROVE t[m].item < t[n].item
    OBVIOUS
  <2>1. CASE m \in R /\ n \in R
    BY <1>1, <2>1 DEF InTurn
  <2>2. CASE m \in R /\ n \in (a + 1)..b
    <3>1. t[m].item \in 1..last
      BY <1>1, <1>4, <2>2
    <3> QED
      BY <1>0, <1>3, <2>2, <3>1
  <2>3. CASE m \in (a + 1)..b /\ n \in (a + 1)..b
    BY <1>0, <1>3, <2>3
  <2>4. CASE m \in (a + 1)..b /\ n \in R
    BY <1>0, <1>1, <2>4
  <2> QED
    BY <1>2, <2>1, <2>2, <2>3, <2>4
<1>6. \A x \in 1..(last + (b - a)) : \E n \in Q : t[n].item = x
  <2> SUFFICES ASSUME NEW x \in 1..(last + (b - a)) PROVE \E n \in Q : t[n].item = x
    OBVIOUS
  <2>1. CASE x <= last
    <3>1. x \in {s[n].item : n \in R}
      BY <1>0, <2>1 DEF InTurn
    <3> QED
      BY <1>1, <3>1
  <2>2. CASE x > last
    <3>1. a + (x - last) \in (a + 1)..b /\ last + ((a + (x - last)) - a) = x
      BY <1>0, <2>2
    <3> QED
      BY <1>3, <3>1
  <2> QED
    BY <1>0, <2>1, <2>2
<1>7. \A n \in Q : t[n].item \in 1..(last + (b - a))
  <2> SUFFICES ASSUME NEW n \in Q PROVE t[n].item \in 1..(last + (b - a))
    OBVIOUS
  <2>1. CASE n \in R
    BY <1>0, <1>1, <1>4, <2>1
  <2>2. CASE n \in (a + 1)..b
    BY <1>0, <1>3, <2>2
  <2> QED
    BY <1>2, <2>1, <2>2
<1> HIDE DEF Q
<1>8. {t[n].item : n \in Q} = 1..(last + (b - a))
  BY <1>6, <1>7
<1> QED
  BY <1>5, <1>8 DEF InTurn, Q, a, b

(* Rows of other iterations change nothing for this one. *)
LEMMA Elsewhere ==
    ASSUME NEW s, NEW t, Len(s) \in Nat, Len(t) \in Nat,
           DOMAIN s = 1..Len(s), DOMAIN t = 1..Len(t), Len(s) <= Len(t),
           \A n \in 1..Len(s) : t[n] = s[n],
           NEW k, \A n \in (Len(s) + 1)..Len(t) : t[n].iteration # k \/ t[n].item = 0
    PROVE  /\ RowsIn(t, k) = RowsIn(s, k)
           /\ \A n \in RowsIn(s, k) : t[n] = s[n]
           /\ \A last : InTurn(s, k, last) => InTurn(t, k, last)
PROOF
<1>1. \A n \in DOMAIN t : n \in DOMAIN s \/ n \in (Len(s) + 1)..Len(t)
  OBVIOUS
<1>2. \A n \in DOMAIN s : n \in DOMAIN t
  OBVIOUS
<1>3. RowsIn(t, k) = RowsIn(s, k)
  BY <1>1, <1>2 DEF RowsIn
<1>4. \A n \in RowsIn(s, k) : t[n] = s[n]
  BY DEF RowsIn
<1>5. ASSUME NEW last, InTurn(s, k, last) PROVE InTurn(t, k, last)
  <2>1. {t[n].item : n \in RowsIn(t, k)} = {s[n].item : n \in RowsIn(s, k)}
    BY <1>3, <1>4
  <2> QED
    BY <1>3, <1>4, <1>5, <2>1 DEF InTurn
<1> QED
  BY <1>3, <1>4, <1>5

(* Two iterations of a run are numbered differently, or there is only one. *)
LEMMA StampApart ==
    ASSUME NEW l, l.total \in Nat, NEW i \in 1..l.total, NEW j \in 1..l.total,
           StampOf(l, i) = StampOf(l, j)
    PROVE  i = j
PROOF
  BY DEF StampOf

(* Append, place by place. *)
LEMMA Grown ==
    ASSUME NEW S, NEW s \in Seq(S), NEW e \in S
    PROVE  /\ Append(s, e) \in Seq(S)
           /\ Len(s) \in Nat /\ DOMAIN s = 1..Len(s)
           /\ Len(Append(s, e)) = Len(s) + 1
           /\ DOMAIN Append(s, e) = 1..(Len(s) + 1)
           /\ \A n \in 1..Len(s) : Append(s, e)[n] = s[n]
           /\ \A n \in (Len(s) + 1)..(Len(s) + 1) : n = Len(s) + 1
           /\ Append(s, e)[Len(s) + 1] = e
           /\ Append(s, e) # <<>>
PROOF
  OBVIOUS

(* The types of the loop variables, and what the redirections so far leave *)
(* for the rows.                                                           *)
LEMMA Rooms ==
    ASSUME Bounds, NEW p, NEW s, NEW l \in LoopType, NEW red, NEW o \in OptionsType,
           LoopInv(p, s, l, red, o)
    PROVE  /\ l.total \in Nat /\ l.iteration \in Nat /\ l.index \in Nat
           /\ l.jumps \in Nat /\ o.items \in Nat /\ Rounds(l) \in Nat
           /\ l.iteration \in 1..l.total /\ l.total <= IterationLimit
           /\ l.index \in 1..(o.items + 1) /\ l.index >= 1
           /\ IterationLimit \in Nat /\ MaxJumps \in Nat
           /\ Turns(l, o) \in Nat /\ Most(o) \in Nat
           /\ Turns(l, o) + o.items <= Most(o)
PROOF
<1>1. /\ l.total \in Nat /\ l.iteration \in Nat /\ l.index \in Nat /\ l.jumps \in Nat
      /\ IterationLimit \in Nat /\ MaxJumps \in Nat
  BY DEF LoopType, Bounds
<1>2. o.items \in Nat
  BY DEF OptionsType
<1>3. /\ l.iteration \in 1..l.total /\ l.total <= IterationLimit /\ l.jumps <= MaxJumps
      /\ l.index \in 1..(o.items + 1)
  BY <1>1 DEF LoopInv, Iterations
<1> DEFINE K == MaxJumps + 1
<1> DEFINE a == l.iteration - 1
<1> DEFINE M == IterationLimit * K
<1>4. /\ K \in Nat /\ a \in Nat /\ a + 1 \in Nat
      /\ a + 1 = l.iteration /\ a + 1 <= IterationLimit
  BY <1>1, <1>3
<1>5. l.jumps + 1 <= K
  BY <1>1, <1>3
<1>6. Rounds(l) = a * K + l.jumps
  BY DEF Rounds
<1>7. Most(o) = M * o.items
  BY DEF Most
<1> HIDE DEF a, K
<1>8. a * K \in Nat /\ (a + 1) * K = a * K + K
  BY <1>4, OnceMore
<1>9. (a + 1) * K <= M /\ M \in Nat
  BY <1>1, <1>4, Longer
<1> HIDE DEF M
<1>10. Rounds(l) \in Nat /\ Rounds(l) + 1 \in Nat /\ Rounds(l) + 1 <= M
  BY <1>1, <1>4, <1>5, <1>6, <1>8, <1>9
<1>11. Turns(l, o) \in Nat /\ (Rounds(l) + 1) * o.items = Turns(l, o) + o.items
  BY <1>2, <1>10, OnceMore DEF Turns
<1>12. /\ (Rounds(l) + 1) * o.items <= M * o.items
       /\ M * o.items \in Nat
  BY <1>2, <1>9, <1>10, Longer
<1>13. l.index >= 1
  BY <1>1, <1>2, <1>3
<1> QED
  BY <1>1, <1>2, <1>3, <1>7, <1>10, <1>11, <1>12, <1>13

(* The most rows a run may have is a number. *)
LEMMA MostNat ==
    ASSUME Bounds, NEW o \in OptionsType
    PROVE  Most(o) \in Nat
PROOF
<1>1. IterationLimit \in Nat /\ MaxJumps + 1 \in Nat /\ o.items \in Nat
  BY DEF Bounds, OptionsType
<1>2. IterationLimit * (MaxJumps + 1) \in Nat
  BY <1>1, OnceMore
<1> QED
  BY <1>1, <1>2, OnceMore DEF Most

(* A redirection is worth one more round of the requests. *)
LEMMA TurnsJump ==
    ASSUME Bounds, NEW p, NEW s, NEW l \in LoopType, NEW red, NEW o \in OptionsType,
           LoopInv(p, s, l, red, o),
           NEW k, k.iteration = l.iteration, k.jumps = l.jumps + 1
    PROVE  Turns(k, o) = Turns(l, o) + o.items
PROOF
<1>1. /\ Rounds(l) \in Nat /\ l.jumps \in Nat /\ o.items \in Nat
      /\ l.iteration - 1 \in Nat /\ MaxJumps + 1 \in Nat
  BY Rooms
<1>2. (l.iteration - 1) * (MaxJumps + 1) \in Nat
  BY <1>1, OnceMore
<1>3. Rounds(k) = Rounds(l) + 1
  BY <1>1, <1>2 DEF Rounds
<1>4. (Rounds(l) + 1) * o.items = Rounds(l) * o.items + o.items
  BY <1>1, OnceMore
<1> QED
  BY <1>3, <1>4 DEF Turns

(* An iteration that is over leaves its redirections behind. *)
LEMMA TurnsNext ==
    ASSUME Bounds, NEW p, NEW s, NEW l \in LoopType, NEW red, NEW o \in OptionsType,
           LoopInv(p, s, l, red, o),
           NEW k, k.iteration = l.iteration + 1, k.jumps = 0
    PROVE  Turns(k, o) \in Nat /\ Turns(l, o) + o.items <= Turns(k, o)
PROOF
<1> DEFINE K == MaxJumps + 1
<1> DEFINE a == l.iteration - 1
<1>1. /\ Rounds(l) \in Nat /\ l.jumps \in Nat /\ o.items \in Nat
      /\ a \in Nat /\ a + 1 = l.iteration /\ K \in Nat /\ a + 1 \in Nat
  BY Rooms
<1>2. l.jumps + 1 <= K
  <2>1. l.jumps <= MaxJumps
    BY <1>1, Rooms DEF LoopInv
  <2> QED
    BY <1>1, <2>1, Rooms
<1>3. Rounds(l) = a * K + l.jumps
  BY DEF Rounds
<1>4. Rounds(k) = (a + 1) * K + 0
  <2>1. k.iteration - 1 = a + 1
    BY <1>1
  <2> HIDE DEF a, K
  <2> QED
    BY <2>1 DEF Rounds, K
<1> HIDE DEF a, K
<1>5. a * K \in Nat /\ (a + 1) * K = a * K + K
  BY <1>1, OnceMore
<1>6. Rounds(k) \in Nat /\ Rounds(l) + 1 \in Nat /\ Rounds(l) + 1 <= Rounds(k)
  BY <1>1, <1>2, <1>3, <1>4, <1>5
<1>7. (Rounds(l) + 1) * o.items = Rounds(l) * o.items + o.items
  BY <1>1, OnceMore
<1>8. (Rounds(l) + 1) * o.items <= Rounds(k) * o.items /\ Rounds(k) * o.items \in Nat
  BY <1>1, <1>6, Longer
<1> QED
  BY <1>7, <1>8 DEF Turns

(* The request of this turn is recorded: this iteration has one row more.  *)
LEMMA RecordedRow ==
    ASSUME Bounds, NEW p, NEW s \in Seq(RowType), NEW l \in LoopType,
           NEW red \in [Iterations -> Nat], NEW o \in OptionsType,
           LoopInv(p, s, l, red, o),
           NEW t, Continues(s, t, l)
    PROVE  OthersKept(s, t, l, red, o) /\ ThisOneToo(s, t, l, red)
PROOF
<1>0. /\ Len(s) \in Nat /\ DOMAIN s = 1..Len(s)
      /\ Len(t) \in Nat /\ DOMAIN t = 1..Len(t) /\ Len(s) <= Len(t)
      /\ \A n \in 1..Len(s) : t[n] = s[n]
      /\ \A n \in (Len(s) + 1)..Len(t) :
            /\ t[n].iteration = StampOf(l, l.iteration)
            /\ t[n].item = (l.index - 1) + (n - Len(s))
  BY DEF Continues
<1>1. /\ l.total \in Nat /\ l.iteration \in 1..l.total /\ l.index \in Nat
      /\ l.index >= 1
  <2>1. l.total \in Nat /\ l.iteration \in 1..l.total /\ l.index \in Nat /\ o.items \in Nat
    BY Rooms
  <2>2. l.index \in 1..(o.items + 1)
    BY DEF LoopInv
  <2> QED
    BY <2>1, <2>2
<1>2. ASSUME NEW i \in 1..l.total, i # l.iteration
      PROVE  /\ RowsIn(t, StampOf(l, i)) = RowsIn(s, StampOf(l, i))
             /\ \A n \in RowsIn(s, StampOf(l, i)) : t[n] = s[n]
             /\ \A last : InTurn(s, StampOf(l, i), last) =>
                             InTurn(t, StampOf(l, i), last)
  <2>1. StampOf(l, l.iteration) # StampOf(l, i)
    BY <1>1, <1>2, StampApart
  <2>2. \A n \in (Len(s) + 1)..Len(t) : t[n].iteration # StampOf(l, i) \/ t[n].item = 0
    BY <1>0, <2>1
  <2> QED
    BY <1>0, <2>2, Elsewhere
<1>3. ASSUME NEW i \in 1..l.total, i > l.iteration
      PROVE  RowsIn(s, StampOf(l, i)) = {}
  <2> SUFFICES ASSUME NEW n \in RowsIn(s, StampOf(l, i)) PROVE FALSE
    OBVIOUS
  <2>1. PICK j \in 1..l.iteration : s[n].iteration = StampOf(l, j)
    BY DEF LoopInv, RowsIn
  <2>2. j \in 1..l.total /\ j # i
    BY <1>1, <1>3
  <2> QED
    BY <1>1, <2>1, <2>2, StampApart DEF RowsIn
<1>4. ASSUME NEW i \in 1..l.total, i < l.iteration, red[i] = 0
      PROVE  InTurn(t, StampOf(l, i), o.items)
  <2>1. InTurn(s, StampOf(l, i), o.items)
    BY <1>1, <1>4 DEF LoopInv
  <2> QED
    BY <1>1, <1>2, <1>4, <2>1
<1>5. ASSUME red[l.iteration] = 0
      PROVE  InTurn(t, StampOf(l, l.iteration), (l.index - 1) + (Len(t) - Len(s)))
  <2>1. InTurn(s, StampOf(l, l.iteration), l.index - 1)
    <3>1. \A i \in 1..l.iteration : red[i] = 0 =>
             InTurn(s, StampOf(l, i), IF i < l.iteration THEN o.items ELSE l.index - 1)
      BY DEF LoopInv
    <3>2. l.iteration \in 1..l.iteration /\ ~(l.iteration < l.iteration)
      BY <1>1
    <3> QED
      BY <1>5, <3>1, <3>2
  <2>2. l.index - 1 \in Nat
    BY <1>1
  <2> QED
    BY <1>0, <2>1, <2>2, Extended
<1>6. ASSUME NEW i \in 1..l.total, i # l.iteration
      PROVE  /\ RowsIn(t, StampOf(l, i)) = RowsIn(s, StampOf(l, i))
             /\ \A n \in RowsIn(s, StampOf(l, i)) : t[n] = s[n]
             /\ i > l.iteration => RowsIn(t, StampOf(l, i)) = {}
             /\ i < l.iteration /\ red[i] = 0 =>
                   InTurn(t, StampOf(l, i), o.items)
  BY <1>2, <1>3, <1>4, <1>6
<1> QED
  BY <1>5, <1>6 DEF OthersKept, ThisOneToo

(* A row that is "done": the loop goes on with the next request. *)
LEMMA LoopGoesOn ==
    ASSUME Bounds, NEW p, NEW s \in Seq(RowType), NEW l \in LoopType,
           NEW red \in [Iterations -> Nat], NEW o \in OptionsType,
           LoopInv(p, s, l, red, o), l.index <= o.items,
           NEW e \in RowType, e.item = l.index,
           e.iteration = StampOf(l, l.iteration), e.status = "done"
    PROVE  LoopInv("turn", Append(s, e), [l EXCEPT !.index = @ + 1], red, o)
PROOF
<1> DEFINE t == Append(s, e)
<1> DEFINE k == [l EXCEPT !.index = @ + 1]
<1>0. /\ l.total \in Nat /\ l.iteration \in Nat /\ l.index \in Nat /\ o.items \in Nat
      /\ l.iteration \in 1..l.total /\ Turns(l, o) \in Nat
      /\ l.index \in 1..(o.items + 1)
  BY Rooms
<1>1. /\ Len(s) \in Nat /\ DOMAIN s = 1..Len(s) /\ Len(t) = Len(s) + 1
      /\ DOMAIN t = 1..(Len(s) + 1)
      /\ \A n \in 1..Len(s) : t[n] = s[n]
      /\ \A n \in (Len(s) + 1)..(Len(s) + 1) : n = Len(s) + 1
      /\ t[Len(s) + 1] = e
  BY Grown
<1>2. /\ k.total = l.total /\ k.iteration = l.iteration /\ k.completed = l.completed
      /\ k.jumps = l.jumps /\ k.index = l.index + 1 /\ Turns(k, o) = Turns(l, o)
      /\ \A i : StampOf(k, i) = StampOf(l, i)
  BY DEF LoopType, Rounds, Turns, StampOf
<1> HIDE DEF t, k
<1>3. \A n \in (Len(s) + 1)..Len(t) :
         /\ t[n].iteration = StampOf(l, l.iteration)
         /\ t[n].item = (l.index - 1) + (n - Len(s))
  BY <1>0, <1>1
<1>4. /\ \A i \in 1..l.total : i < l.iteration /\ red[i] = 0 =>
            InTurn(t, StampOf(l, i), o.items)
      /\ red[l.iteration] = 0 =>
            InTurn(t, StampOf(l, l.iteration), (l.index - 1) + (Len(t) - Len(s)))
  <2>1. Continues(s, t, l)
    BY <1>1, <1>3 DEF Continues
  <2>2. \A i \in 1..l.total : i < l.iteration => i # l.iteration
    BY <1>0
  <2>3. OthersKept(s, t, l, red, o) /\ ThisOneToo(s, t, l, red)
    BY <2>1, RecordedRow
  <2> QED
    BY <2>2, <2>3 DEF OthersKept, ThisOneToo
<1>5. (l.index - 1) + (Len(t) - Len(s)) = k.index - 1
  BY <1>0, <1>1, <1>2
<1>6. \A i \in 1..k.iteration : red[i] = 0 =>
         InTurn(t, StampOf(k, i), IF i < k.iteration THEN o.items ELSE k.index - 1)
  <2> SUFFICES ASSUME NEW i \in 1..l.iteration, red[i] = 0
               PROVE  InTurn(t, StampOf(l, i), IF i < l.iteration THEN o.items ELSE
               k.index - 1)
    BY <1>2
  <2>1. CASE i < l.iteration
    <3>1. i \in 1..l.total
      BY <1>0
    <3> QED
      BY <1>4, <2>1, <3>1
  <2>2. CASE i = l.iteration
    BY <1>0, <1>4, <1>5, <2>2
  <2> QED
    BY <1>0, <2>1, <2>2
<1>7. \A n \in DOMAIN t :
         /\ t[n].status = "done" /\ t[n].item \in 1..o.items
         /\ \E j \in 1..k.iteration : t[n].iteration = StampOf(k, j)
  <2> SUFFICES ASSUME NEW n \in DOMAIN t
               PROVE  /\ t[n].status = "done" /\ t[n].item \in 1..o.items
                      /\ \E j \in 1..l.iteration : t[n].iteration = StampOf(l, j)
    BY <1>2
  <2>1. CASE n \in DOMAIN s
    BY <1>1, <2>1 DEF LoopInv
  <2>2. CASE n = Len(s) + 1
    <3>1. l.iteration \in 1..l.iteration /\ l.index \in 1..o.items
      BY <1>0 DEF LoopInv
    <3> QED
      BY <1>1, <2>2, <3>1
  <2> QED
    BY <1>1, <2>1, <2>2
<1>8. Len(t) <= Turns(k, o) + (k.index - 1)
  <2>1. Len(s) <= Turns(l, o) + (l.index - 1)
    BY DEF LoopInv
  <2> QED
    BY <1>0, <1>1, <1>2, <2>1
<1>9. k.index \in 1..(o.items + 1)
  BY <1>0, <1>2
<1>10. /\ l.total \in Iterations /\ (o.rows > 0 => l.total <= o.rows)
       /\ l.iteration \in 1..l.total /\ l.completed = l.iteration - 1
       /\ l.jumps \in 0..MaxJumps /\ red[l.iteration] = l.jumps
       /\ \A i \in Iterations : i > l.iteration => red[i] = 0
  BY DEF LoopInv
<1>11. LoopInv("turn", t, k, red, o)
  BY <1>2, <1>6, <1>7, <1>8, <1>9, <1>10 DEF LoopInv
<1> QED
  BY <1>11 DEF t, k

(* A redirection: this iteration is no longer held to its order. *)
LEMMA LoopJumps ==
    ASSUME Bounds, NEW p, NEW s \in Seq(RowType), NEW l \in LoopType,
           NEW red \in [Iterations -> Nat], NEW o \in OptionsType,
           LoopInv(p, s, l, red, o), l.index <= o.items, l.jumps < MaxJumps,
           NEW e \in RowType, e.item = l.index,
           e.iteration = StampOf(l, l.iteration), e.status = "done",
           NEW next \in 1..(o.items + 1)
    PROVE  LoopInv("turn", Append(s, e),
                   [l EXCEPT !.index = next, !.jumps = @ + 1],
                   [red EXCEPT ![l.iteration] = @ + 1], o)
PROOF
<1> DEFINE t == Append(s, e)
<1> DEFINE k == [l EXCEPT !.index = next, !.jumps = @ + 1]
<1> DEFINE more == [red EXCEPT ![l.iteration] = @ + 1]
<1>0. /\ l.total \in Nat /\ l.iteration \in Nat /\ l.index \in Nat /\ o.items \in Nat
      /\ l.iteration \in 1..l.total /\ Turns(l, o) \in Nat
      /\ l.index \in 1..(o.items + 1)
      /\ l.jumps \in Nat /\ MaxJumps \in Nat /\ l.total <= IterationLimit
      /\ IterationLimit \in Nat
  BY Rooms
<1>1. /\ Len(s) \in Nat /\ DOMAIN s = 1..Len(s) /\ Len(t) = Len(s) + 1
      /\ DOMAIN t = 1..(Len(s) + 1)
      /\ \A n \in 1..Len(s) : t[n] = s[n]
      /\ \A n \in (Len(s) + 1)..(Len(s) + 1) : n = Len(s) + 1
      /\ t[Len(s) + 1] = e
  BY Grown
<1>2. /\ k.total = l.total /\ k.iteration = l.iteration /\ k.completed = l.completed
      /\ k.jumps = l.jumps + 1 /\ k.index = next
      /\ \A i : StampOf(k, i) = StampOf(l, i)
  BY DEF LoopType, StampOf
<1>3. Turns(k, o) = Turns(l, o) + o.items
  BY <1>2, TurnsJump
<1>4. /\ l.iteration \in Iterations
      /\ more[l.iteration] = red[l.iteration] + 1
      /\ \A i \in Iterations : i # l.iteration => more[i] = red[i]
  BY <1>0 DEF Iterations
<1>5. /\ l.total \in Iterations /\ (o.rows > 0 => l.total <= o.rows)
      /\ l.iteration \in 1..l.total /\ l.completed = l.iteration - 1
      /\ l.jumps \in 0..MaxJumps /\ red[l.iteration] = l.jumps
      /\ \A i \in Iterations : i > l.iteration => red[i] = 0
      /\ Len(s) <= Turns(l, o) + (l.index - 1)
  BY DEF LoopInv
<1> HIDE DEF t, k, more
<1>6. \A n \in (Len(s) + 1)..Len(t) :
         /\ t[n].iteration = StampOf(l, l.iteration)
         /\ t[n].item = (l.index - 1) + (n - Len(s))
  BY <1>0, <1>1
<1>7. \A i \in 1..l.total : i < l.iteration /\ red[i] = 0 =>
         InTurn(t, StampOf(l, i), o.items)
  <2>1. Continues(s, t, l)
    BY <1>1, <1>6 DEF Continues
  <2>2. \A i \in 1..l.total : i < l.iteration => i # l.iteration
    BY <1>0
  <2>3. OthersKept(s, t, l, red, o) /\ ThisOneToo(s, t, l, red)
    BY <2>1, RecordedRow
  <2> QED
    BY <2>2, <2>3 DEF OthersKept, ThisOneToo
<1>8. \A i \in 1..k.iteration : more[i] = 0 =>
         InTurn(t, StampOf(k, i), IF i < k.iteration THEN o.items ELSE k.index - 1)
  <2> SUFFICES ASSUME NEW i \in 1..l.iteration, more[i] = 0
               PROVE  InTurn(t, StampOf(l, i), IF i < l.iteration THEN o.items ELSE
               k.index - 1)
    BY <1>2
  <2>1. i < l.iteration
    BY <1>0, <1>4, <1>5
  <2>2. i \in 1..l.total /\ i \in Iterations
    BY <1>0 DEF Iterations
  <2> QED
    BY <1>4, <1>7, <2>1, <2>2
<1>9. \A n \in DOMAIN t :
         /\ t[n].status = "done" /\ t[n].item \in 1..o.items
         /\ \E j \in 1..k.iteration : t[n].iteration = StampOf(k, j)
  <2> SUFFICES ASSUME NEW n \in DOMAIN t
               PROVE  /\ t[n].status = "done" /\ t[n].item \in 1..o.items
                      /\ \E j \in 1..l.iteration : t[n].iteration = StampOf(l, j)
    BY <1>2
  <2>1. CASE n \in DOMAIN s
    BY <1>1, <2>1 DEF LoopInv
  <2>2. CASE n = Len(s) + 1
    <3>1. l.iteration \in 1..l.iteration /\ l.index \in 1..o.items
      BY <1>0 DEF LoopInv
    <3> QED
      BY <1>1, <2>2, <3>1
  <2> QED
    BY <1>1, <2>1, <2>2
<1>10. Len(t) <= Turns(k, o) + (k.index - 1)
  <2>1. next >= 1 /\ next \in Nat
    BY <1>0
  <2>2. Len(t) = Len(s) + 1 /\ Len(s) \in Nat
    BY <1>1
  <2>3. Len(s) <= Turns(l, o) + (l.index - 1) /\ l.index <= o.items
    BY <1>5
  <2>4. Turns(l, o) \in Nat /\ l.index \in Nat /\ o.items \in Nat
    BY <1>0
  <2>5. Len(t) <= (Turns(l, o) + o.items) + (next - 1)
    BY <2>1, <2>2, <2>3, <2>4
  <2>6. k.index = next
    BY <1>2
  <2> QED
    BY <1>3, <2>5, <2>6
<1>11. k.jumps \in 0..MaxJumps /\ more[k.iteration] = k.jumps
  <2>1. l.jumps + 1 \in 0..MaxJumps
    BY <1>0
  <2>2. more[l.iteration] = l.jumps + 1
    BY <1>4, <1>5
  <2> QED
    BY <1>2, <2>1, <2>2
<1>12. \A i \in Iterations : i > k.iteration => more[i] = 0
  BY <1>0, <1>2, <1>4, <1>5
<1>13. LoopInv("turn", t, k, more, o)
  BY <1>2, <1>5, <1>8, <1>9, <1>10, <1>11, <1>12 DEF LoopInv
<1> QED
  BY <1>13 DEF t, k, more

(* The next iteration begins. *)
LEMMA LoopStartsOver ==
    ASSUME Bounds, NEW p, NEW s \in Seq(RowType), NEW l \in LoopType,
           NEW red \in [Iterations -> Nat], NEW o \in OptionsType,
           LoopInv(p, s, l, red, o), l.index > o.items, l.iteration < l.total
    PROVE  LoopInv("turn", s,
                   [l EXCEPT !.completed = @ + 1, !.iteration = @ + 1,
                             !.index = 1, !.jumps = 0], red, o)
PROOF
<1> DEFINE k == [l EXCEPT !.completed = @ + 1, !.iteration = @ + 1,
                          !.index = 1, !.jumps = 0]
<1>0. /\ l.total \in Nat /\ l.iteration \in Nat /\ l.index \in Nat /\ o.items \in Nat
      /\ l.iteration \in 1..l.total /\ Turns(l, o) \in Nat
      /\ l.index \in 1..(o.items + 1)
      /\ l.jumps \in Nat /\ MaxJumps \in Nat /\ l.total <= IterationLimit
      /\ IterationLimit \in Nat
  BY Rooms
<1>1. /\ k.total = l.total /\ k.iteration = l.iteration + 1 /\ k.completed = l.completed + 1
      /\ k.jumps = 0 /\ k.index = 1
      /\ \A i : StampOf(k, i) = StampOf(l, i)
  BY DEF LoopType, StampOf
<1>2. /\ l.total \in Iterations /\ (o.rows > 0 => l.total <= o.rows)
      /\ l.completed = l.iteration - 1
      /\ l.index \in 1..(o.items + 1)
      /\ l.jumps \in 0..MaxJumps /\ red[l.iteration] = l.jumps
      /\ \A i \in Iterations : i > l.iteration => red[i] = 0
      /\ Len(s) <= Turns(l, o) + (l.index - 1)
      /\ \A n \in DOMAIN s :
            /\ s[n].status = "done" /\ s[n].item \in 1..o.items
            /\ \E j \in 1..l.iteration : s[n].iteration = StampOf(l, j)
      /\ \A i \in 1..l.iteration : red[i] = 0 =>
            InTurn(s, StampOf(l, i), IF i < l.iteration THEN o.items ELSE l.index - 1)
  BY DEF LoopInv
<1> HIDE DEF k
<1>3. Turns(k, o) \in Nat /\ Turns(l, o) + o.items <= Turns(k, o)
  BY <1>1, TurnsNext
<1>4. Len(s) <= Turns(k, o) + (k.index - 1)
  <2>1. Len(s) \in Nat
    OBVIOUS
  <2>2. Len(s) <= Turns(l, o) + (l.index - 1)
    BY <1>2
  <2>3. Turns(l, o) \in Nat /\ l.index \in Nat /\ o.items \in Nat /\ l.index <= o.items + 1
    BY <1>0
  <2>4. Len(s) <= Turns(l, o) + o.items
    BY <2>1, <2>2, <2>3
  <2>5. Len(s) <= Turns(k, o)
    BY <1>3, <2>1, <2>3, <2>4
  <2> QED
    BY <1>1, <1>3, <2>5
<1>5. k.iteration \in 1..k.total /\ k.completed = k.iteration - 1 /\ k.iteration \in Iterations
  <2>1. l.iteration + 1 \in 1..l.total /\ l.iteration + 1 \in 1..IterationLimit
    BY <1>0
  <2>2. l.completed + 1 = (l.iteration + 1) - 1
    BY <1>0, <1>2
  <2> QED
    BY <1>1, <2>1, <2>2 DEF Iterations
<1>6. red[k.iteration] = 0 /\ k.jumps \in 0..MaxJumps
  <2>1. k.iteration > l.iteration
    BY <1>0, <1>1
  <2>2. red[k.iteration] = 0
    BY <1>2, <1>5, <2>1
  <2> QED
    BY <1>0, <1>1, <2>2
<1>7. \A i \in Iterations : i > k.iteration => red[i] = 0
  BY <1>0, <1>1, <1>2 DEF Iterations
<1>8. \A n \in DOMAIN s :
         /\ s[n].status = "done" /\ s[n].item \in 1..o.items
         /\ \E j \in 1..k.iteration : s[n].iteration = StampOf(k, j)
  <2>1. \A j \in 1..l.iteration : j \in 1..k.iteration /\ StampOf(k, j) = StampOf(l, j)
    BY <1>0, <1>1
  <2> QED
    BY <1>2, <2>1
<1>9. \A i \in 1..k.iteration : red[i] = 0 =>
         InTurn(s, StampOf(k, i), IF i < k.iteration THEN o.items ELSE k.index - 1)
  <2> SUFFICES ASSUME NEW i \in 1..k.iteration, red[i] = 0
               PROVE  InTurn(s, StampOf(l, i), IF i < k.iteration THEN o.items ELSE 0)
    BY <1>1
  <2>1. CASE i < l.iteration
    <3>1. i \in 1..l.iteration /\ i < k.iteration
      BY <1>0, <1>1, <2>1
    <3> QED
      BY <1>2, <2>1, <3>1
  <2>2. CASE i = l.iteration
    <3>1. i \in 1..l.iteration /\ i < k.iteration /\ ~(i < l.iteration)
      BY <1>0, <1>1, <2>2
    <3>2. l.index - 1 = o.items
      <4>1. l.index \in Nat /\ o.items \in Nat /\ l.index <= o.items + 1
        BY <1>0
      <4> QED
        BY <4>1
    <3> QED
      BY <1>2, <3>1, <3>2
  <2>3. CASE i = l.iteration + 1
    <3>1. RowsIn(s, StampOf(l, i)) = {}
      <4> SUFFICES ASSUME NEW n \in RowsIn(s, StampOf(l, i)) PROVE FALSE
        OBVIOUS
      <4>1. PICK j \in 1..l.iteration : s[n].iteration = StampOf(l, j)
        BY <1>2 DEF RowsIn
      <4>2. j \in 1..l.total /\ i \in 1..l.total /\ j # i
        BY <1>0, <2>3
      <4> QED
        BY <1>0, <4>1, <4>2, StampApart DEF RowsIn
    <3>2. {s[n].item : n \in RowsIn(s, StampOf(l, i))} = 1..0
      BY <3>1
    <3>3. ~(i < k.iteration)
      BY <1>0, <1>1, <2>3
    <3> QED
      BY <3>1, <3>2, <3>3 DEF InTurn
  <2> QED
    BY <1>0, <1>1, <2>1, <2>2, <2>3
<1>10. k.index \in 1..(o.items + 1)
  BY <1>0, <1>1
<1>11. LoopInv("turn", s, k, red, o)
  BY <1>1, <1>2, <1>4, <1>5, <1>6, <1>7, <1>8, <1>9, <1>10 DEF LoopInv
<1> QED
  BY <1>11 DEF k

(* The loops begin. *)
LEMMA LoopBegins ==
    ASSUME Bounds, NEW s, NEW l, NEW red, NEW o \in OptionsType,
           Fresh(s, l, red), NEW n \in Iterations, o.rows > 0 => n <= o.rows
    PROVE  LoopInv("turn", s, [l EXCEPT !.total = n], red, o)
PROOF
<1> DEFINE k == [l EXCEPT !.total = n]
<1>1. /\ k.total = n /\ k.iteration = 1 /\ k.index = 1 /\ k.jumps = 0 /\ k.completed = 0
  BY DEF Fresh
<1>2. s = <<>> /\ red = [i \in Iterations |-> 0]
  BY DEF Fresh
<1>3. IterationLimit \in Nat /\ MaxJumps \in Nat /\ o.items \in Nat /\ n \in Nat
  BY DEF Bounds, OptionsType, Iterations
<1> HIDE DEF k
<1>4. RowsIn(s, StampOf(k, 1)) = {}
  BY <1>2 DEF RowsIn
<1>5. InTurn(s, StampOf(k, 1), 0)
  <2>1. {s[m].item : m \in RowsIn(s, StampOf(k, 1))} = 1..0
    BY <1>4
  <2> QED
    BY <1>4, <2>1 DEF InTurn
<1>6. Turns(k, o) = 0
  <2>1. MaxJumps + 1 \in Nat
    BY <1>3
  <2>2. (k.iteration - 1) = 0 /\ 0 * (MaxJumps + 1) = 0 /\ 0 * o.items = 0
    BY <1>1, <1>3, <2>1
  <2>3. Rounds(k) = 0
    BY <1>1, <2>2 DEF Rounds
  <2> QED
    BY <2>2, <2>3 DEF Turns
<1>7. \A i \in 1..k.iteration : red[i] = 0 =>
         InTurn(s, StampOf(k, i), IF i < k.iteration THEN o.items ELSE k.index - 1)
  <2> SUFFICES ASSUME NEW i \in 1..1
               PROVE  InTurn(s, StampOf(k, i), IF i < 1 THEN o.items ELSE 1 - 1)
    BY <1>1
  <2>1. i = 1 /\ ~(i < 1) /\ 1 - 1 = 0
    OBVIOUS
  <2> QED
    BY <1>5, <2>1
<1>8. Len(s) <= Turns(k, o) + (k.index - 1)
  BY <1>1, <1>2, <1>6
<1>9. /\ k.iteration \in 1..k.total /\ k.completed = k.iteration - 1
      /\ k.index \in 1..(o.items + 1) /\ k.jumps \in 0..MaxJumps
      /\ k.total \in Iterations /\ (o.rows > 0 => k.total <= o.rows)
  BY <1>1, <1>3 DEF Iterations
<1>10. red[k.iteration] = k.jumps /\ \A i \in Iterations : i > k.iteration => red[i] = 0
  BY <1>1, <1>2, <1>3 DEF Iterations
<1>11. DOMAIN s = {}
  BY <1>2
<1>12. LoopInv("turn", s, k, red, o)
  BY <1>7, <1>8, <1>9, <1>10, <1>11 DEF LoopInv
<1> QED
  BY <1>12 DEF k

(* The rows so far, and what still fits. *)
LEMMA Fits ==
    ASSUME Bounds, NEW p, NEW s \in Seq(RowType), NEW l \in LoopType,
           NEW red, NEW o \in OptionsType, LoopInv(p, s, l, red, o),
           NEW n \in Nat, n <= o.items - (l.index - 1)
    PROVE  Len(s) + n <= Most(o)
PROOF
<1>1. /\ Turns(l, o) \in Nat /\ l.index \in Nat /\ o.items \in Nat /\ Most(o) \in Nat
      /\ Turns(l, o) + o.items <= Most(o) /\ l.index >= 1
  BY Rooms
<1>2. Len(s) <= Turns(l, o) + (l.index - 1)
  BY DEF LoopInv
<1>3. Len(s) \in Nat
  OBVIOUS
<1>4. Len(s) + n <= Turns(l, o) + o.items
  BY <1>1, <1>2, <1>3
<1>5. Len(s) + n \in Nat /\ Turns(l, o) + o.items \in Nat
  BY <1>1, <1>3
<1> QED
  BY <1>1, <1>4, <1>5

(* The loops end within an iteration: cancelled, stopped or bailing out. *)
LEMMA EndsWithin ==
    ASSUME Bounds, NEW p, NEW s \in Seq(RowType), NEW l \in LoopType,
           NEW red \in [Iterations -> Nat], NEW o \in OptionsType,
           LoopInv(p, s, l, red, o),
           NEW t, Continues(s, t, l), NEW r, NEW S,
           (l.index - 1) + (Len(t) - Len(s)) <= o.items,
           (l.index - 1) + (Len(t) - Len(s)) < o.items => Ends(t) \/ r \in S,
           o.bail => \A n \in (Len(s) + 1)..Len(t) :
              t[n].status = "unrun" <=>
                 \E m \in (Len(s) + 1)..Len(t) : m < n /\ t[m].status = "failed"
    PROVE  \A i \in 1..l.total : Told(r, S, t, l, red, o, i)
PROOF
<1>0. /\ l.total \in Nat /\ l.iteration \in Nat /\ l.iteration \in 1..l.total
      /\ l.index \in Nat /\ o.items \in Nat /\ l.index >= 1
  BY Rooms
<1>1. /\ Len(s) \in Nat /\ DOMAIN s = 1..Len(s)
      /\ Len(t) \in Nat /\ DOMAIN t = 1..Len(t) /\ Len(s) <= Len(t)
      /\ \A n \in 1..Len(s) : t[n] = s[n]
      /\ \A n \in (Len(s) + 1)..Len(t) :
            /\ t[n].iteration = StampOf(l, l.iteration)
            /\ t[n].item = (l.index - 1) + (n - Len(s))
  BY DEF Continues
<1>2. OthersKept(s, t, l, red, o) /\ ThisOneToo(s, t, l, red)
  BY RecordedRow
<1>3. \A n \in DOMAIN s : s[n].status = "done"
  BY DEF LoopInv
<1>4. l.completed = l.iteration - 1 /\ (o.rows > 0 => l.total <= o.rows)
  BY DEF LoopInv
<1> DEFINE last == (l.index - 1) + (Len(t) - Len(s))
<1>5. last \in 0..o.items
  BY <1>0, <1>1
<1> HIDE DEF last
<1>6. ASSUME NEW i \in 1..l.total PROVE o.rows > 0 => i <= o.rows
  <2>1. o.rows \in Nat
    BY DEF OptionsType
  <2> QED
    BY <1>0, <1>4, <1>6, <2>1
<1>7. ASSUME NEW i \in 1..l.total, i # l.iteration PROVE Told(r, S, t, l, red, o, i)
  <2>1. /\ RowsIn(t, StampOf(l, i)) = RowsIn(s, StampOf(l, i))
        /\ \A n \in RowsIn(s, StampOf(l, i)) : t[n] = s[n]
        /\ i > l.iteration => RowsIn(t, StampOf(l, i)) = {}
        /\ i < l.iteration /\ red[i] = 0 => InTurn(t, StampOf(l, i), o.items)
    BY <1>2, <1>7 DEF OthersKept
  <2>2. \A n \in RowsIn(t, StampOf(l, i)) : t[n].status = "done"
    BY <1>3, <2>1 DEF RowsIn
  <2>3. i > l.completed + 1 => RowsIn(t, StampOf(l, i)) = {}
    BY <1>0, <1>4, <2>1
  <2>4. i <= l.completed + 1 /\ red[i] = 0 =>
           \E x \in 0..o.items :
              /\ InTurn(t, StampOf(l, i), x)
              /\ x < o.items => ~(i <= l.completed) /\ (Ends(t) \/ r \in S)
    <3> SUFFICES ASSUME i <= l.completed + 1, red[i] = 0
                 PROVE  InTurn(t, StampOf(l, i), o.items) /\ o.items \in 0..o.items /\ ~(o.items < o.items)
      OBVIOUS
    <3>1. i < l.iteration
      BY <1>0, <1>4, <1>7
    <3> QED
      BY <1>0, <2>1, <3>1
  <2>5. (i <= l.completed + 1) = ~(i > l.completed + 1)
    BY <1>0, <1>4
  <2> QED
    BY <1>6, <2>2, <2>3, <2>4, <2>5 DEF Told
<1>8. ASSUME o.bail, NEW n \in RowsIn(t, StampOf(l, l.iteration))
      PROVE  t[n].status = "unrun" <=>
                \E m \in RowsIn(t, StampOf(l, l.iteration)) :
                   m < n /\ t[m].status = "failed"
  <2>1. \A m \in (Len(s) + 1)..Len(t) : m \in RowsIn(t, StampOf(l, l.iteration))
    BY <1>0, <1>1 DEF RowsIn
  <2>2. \A m \in RowsIn(t, StampOf(l, l.iteration)) :
           m \in 1..Len(s) \/ m \in (Len(s) + 1)..Len(t)
    BY <1>1 DEF RowsIn
  <2>3. \A m \in 1..Len(s) : t[m].status = "done"
    BY <1>1, <1>3
  <2>4. CASE n \in 1..Len(s)
    <3>1. \A m \in RowsIn(t, StampOf(l, l.iteration)) : m < n => m \in 1..Len(s)
      BY <1>1, <2>2, <2>4
    <3> QED
      BY <2>3, <2>4, <3>1
  <2>5. CASE n \in (Len(s) + 1)..Len(t)
    <3>1. t[n].status = "unrun" <=>
             \E m \in (Len(s) + 1)..Len(t) : m < n /\ t[m].status = "failed"
      BY <1>8, <2>5
    <3> QED
      BY <2>1, <2>2, <2>3, <3>1
  <2> QED
    BY <2>2, <2>4, <2>5
<1>9. Told(r, S, t, l, red, o, l.iteration)
  <2>1. ~(l.iteration <= l.completed) /\ l.iteration <= l.completed + 1
    BY <1>0, <1>4
  <2>2. red[l.iteration] = 0 => InTurn(t, StampOf(l, l.iteration), last)
    BY <1>2 DEF ThisOneToo, last
  <2>3. last < o.items => Ends(t) \/ r \in S
    BY DEF last
  <2> QED
    BY <1>0, <1>5, <1>6, <1>8, <2>1, <2>2, <2>3 DEF Told
<1> QED
  BY <1>7, <1>9

(* The last row is that of this turn: the run was cancelled or stopped. *)
LEMMA EndsAtRow ==
    ASSUME Bounds, NEW p, NEW s \in Seq(RowType), NEW l \in LoopType,
           NEW red \in [Iterations -> Nat], NEW o \in OptionsType,
           LoopInv(p, s, l, red, o), l.index <= o.items,
           NEW e \in RowType, e.item = l.index,
           e.iteration = StampOf(l, l.iteration), e.status # "unrun",
           NEW r, NEW S, e.status = "cancelled" \/ r \in S
    PROVE  LocalInv(r, S, "ending", Append(s, e), l, red, o)
PROOF
<1> DEFINE t == Append(s, e)
<1>0. /\ l.index \in Nat /\ o.items \in Nat /\ l.index >= 1
  BY Rooms
<1>1. /\ Len(s) \in Nat /\ DOMAIN s = 1..Len(s) /\ Len(t) = Len(s) + 1
      /\ DOMAIN t = 1..(Len(s) + 1)
      /\ \A n \in 1..Len(s) : t[n] = s[n]
      /\ \A n \in (Len(s) + 1)..(Len(s) + 1) : n = Len(s) + 1
      /\ t[Len(s) + 1] = e /\ t # <<>>
  BY Grown
<1> HIDE DEF t
<1>2. Continues(s, t, l)
  <2>1. \A n \in (Len(s) + 1)..Len(t) :
           /\ t[n].iteration = StampOf(l, l.iteration)
           /\ t[n].item = (l.index - 1) + (n - Len(s))
    BY <1>0, <1>1
  <2> QED
    BY <1>1, <2>1 DEF Continues
<1>3. (l.index - 1) + (Len(t) - Len(s)) <= o.items
  BY <1>0, <1>1
<1>4. Ends(t) \/ r \in S
  BY <1>1 DEF Ends
<1>5. \A n \in (Len(s) + 1)..Len(t) :
         t[n].status = "unrun" <=>
            \E m \in (Len(s) + 1)..Len(t) : m < n /\ t[m].status = "failed"
  <2>1. \A n \in (Len(s) + 1)..Len(t) : n = Len(s) + 1 /\ t[n].status # "unrun"
    BY <1>1
  <2>2. \A n, m \in (Len(s) + 1)..Len(t) : ~(m < n)
    BY <1>1
  <2> QED
    BY <2>1, <2>2
<1>6. \A i \in 1..l.total : Told(r, S, t, l, red, o, i)
  BY <1>2, <1>3, <1>4, <1>5, EndsWithin
<1>7. Len(t) <= Most(o) + 0
  <2>1. 1 \in Nat /\ 1 <= o.items - (l.index - 1)
    BY <1>0
  <2>2. Len(s) + 1 <= Most(o)
    BY <2>1, Fits
  <2>3. Most(o) \in Nat
    BY Rooms
  <2> QED
    BY <1>1, <2>2, <2>3
<1>8. LocalInv(r, S, "ending", t, l, red, o)
  BY <1>6, <1>7 DEF LocalInv, Before, Looping, Past
<1> QED
  BY <1>8 DEF t

(* One sequence after another, place by place. *)
LEMMA Joined ==
    ASSUME NEW S, NEW s \in Seq(S), NEW u \in Seq(S)
    PROVE  /\ s \o u \in Seq(S)
           /\ Len(s) \in Nat /\ Len(u) \in Nat
           /\ Len(s \o u) = Len(s) + Len(u)
           /\ DOMAIN (s \o u) = 1..(Len(s) + Len(u))
           /\ \A n \in 1..Len(s) : (s \o u)[n] = s[n]
           /\ \A n \in (Len(s) + 1)..(Len(s) + Len(u)) : (s \o u)[n] = u[n - Len(s)]
PROOF
  OBVIOUS

(* appendUnrunRunResults. *)
TheRest(u, l, o) ==
    /\ Len(u) = o.items - l.index
    /\ \A n \in 1..Len(u) :
          /\ u[n].item = l.index + n /\ u[n].status = "unrun"
          /\ u[n].iteration = StampOf(l, l.iteration)

(* The run bails out: the rest of the iteration is unrun. *)
LEMMA EndsBailing ==
    ASSUME Bounds, NEW p, NEW s \in Seq(RowType), NEW l \in LoopType,
           NEW red \in [Iterations -> Nat], NEW o \in OptionsType,
           LoopInv(p, s, l, red, o), l.index <= o.items,
           NEW e \in RowType, e.item = l.index,
           e.iteration = StampOf(l, l.iteration), e.status = "failed",
           NEW u \in Seq(RowType), TheRest(u, l, o), NEW r, NEW S
    PROVE  LocalInv(r, S, "ending", Append(s, e) \o u, l, red, o)
PROOF
<1> DEFINE v == Append(s, e)
<1> DEFINE t == v \o u
<1>0. /\ l.index \in Nat /\ o.items \in Nat /\ l.index >= 1
  BY Rooms
<1>1. /\ Len(s) \in Nat /\ DOMAIN s = 1..Len(s) /\ Len(v) = Len(s) + 1
      /\ v \in Seq(RowType)
      /\ \A n \in 1..Len(s) : v[n] = s[n]
      /\ v[Len(s) + 1] = e
  BY Grown
<1> HIDE DEF v
<1>2. /\ Len(t) = Len(v) + Len(u) /\ Len(u) \in Nat
      /\ DOMAIN t = 1..(Len(v) + Len(u))
      /\ \A n \in 1..Len(v) : t[n] = v[n]
      /\ \A n \in (Len(v) + 1)..(Len(v) + Len(u)) : t[n] = u[n - Len(v)]
  <2>1. v \in Seq(RowType)
    BY <1>1
  <2> QED
    BY <2>1, Joined
<1> HIDE DEF t
<1>3. Len(t) = Len(s) + 1 + (o.items - l.index) /\ Len(t) \in Nat
      /\ DOMAIN t = 1..Len(t) /\ Len(s) <= Len(t)
  <2>1. Len(u) = o.items - l.index
    BY DEF TheRest
  <2>2. Len(t) = Len(s) + 1 + (o.items - l.index)
    BY <1>1, <1>2, <2>1
  <2> QED
    BY <1>0, <1>1, <1>2, <2>1, <2>2
<1>4. \A n \in 1..Len(s) : t[n] = s[n]
  <2> SUFFICES ASSUME NEW n \in 1..Len(s) PROVE t[n] = s[n]
    OBVIOUS
  <2>1. n \in 1..Len(v)
    BY <1>1
  <2> QED
    BY <1>1, <1>2, <2>1
<1>5. t[Len(s) + 1] = e
  <2>1. Len(s) + 1 \in 1..Len(v)
    BY <1>1
  <2> QED
    BY <1>1, <1>2, <2>1
<1>6. ASSUME NEW n \in (Len(s) + 2)..Len(t)
      PROVE  /\ t[n].item = (l.index - 1) + (n - Len(s)) /\ t[n].status = "unrun"
             /\ t[n].iteration = StampOf(l, l.iteration)
  <2>1. n \in (Len(v) + 1)..(Len(v) + Len(u)) /\ n - Len(v) \in 1..Len(u)
    BY <1>1, <1>2, <1>6
  <2>2. t[n] = u[n - Len(v)]
    BY <1>2, <2>1
  <2>3. l.index + (n - Len(v)) = (l.index - 1) + (n - Len(s))
    <3> DEFINE i == l.index
    <3> DEFINE a == Len(s)
    <3> DEFINE b == Len(v)
    <3>1. i \in Nat /\ n \in Nat /\ a \in Nat /\ b \in Nat /\ b = a + 1
      BY <1>0, <1>1, <1>6
    <3>2. i + (n - b) = (i - 1) + (n - a)
      <4> HIDE DEF i, a, b
      <4> QED
        BY <3>1, OneLater
    <3> QED
      BY <3>2
  <2> QED
    BY <2>1, <2>2, <2>3 DEF TheRest
<1>7. \A n \in (Len(s) + 1)..Len(t) : n = Len(s) + 1 \/ n \in (Len(s) + 2)..Len(t)
  BY <1>1, <1>3
<1>8. Continues(s, t, l)
  <2>1. (l.index - 1) + ((Len(s) + 1) - Len(s)) = l.index
    BY <1>0, <1>1
  <2>2. \A n \in (Len(s) + 1)..Len(t) :
           /\ t[n].iteration = StampOf(l, l.iteration)
           /\ t[n].item = (l.index - 1) + (n - Len(s))
    BY <1>5, <1>6, <1>7, <2>1
  <2> QED
    BY <1>3, <1>4, <2>2 DEF Continues
<1>9. (l.index - 1) + (Len(t) - Len(s)) = o.items
  <2>1. Len(s) \in Nat /\ Len(t) \in Nat /\ Len(t) = Len(s) + 1 + (o.items - l.index)
    BY <1>1, <1>3
  <2>2. Len(t) - Len(s) = 1 + (o.items - l.index)
    BY <1>0, <2>1
  <2>3. (l.index - 1) + (1 + (o.items - l.index)) = o.items
    BY <1>0
  <2> QED
    BY <2>2, <2>3
<1>10. ASSUME NEW n \in (Len(s) + 1)..Len(t)
       PROVE  t[n].status = "unrun" <=>
                 \E m \in (Len(s) + 1)..Len(t) : m < n /\ t[m].status = "failed"
  <2>1. CASE n = Len(s) + 1
    <3>1. \A m \in (Len(s) + 1)..Len(t) : ~(m < n)
      BY <1>1, <1>3, <2>1
    <3> QED
      BY <1>5, <2>1, <3>1
  <2>2. CASE n \in (Len(s) + 2)..Len(t)
    <3>1. Len(s) + 1 \in (Len(s) + 1)..Len(t) /\ Len(s) + 1 < n
      BY <1>1, <1>3, <2>2
    <3> QED
      BY <1>5, <1>6, <2>2, <3>1
  <2> QED
    BY <1>7, <2>1, <2>2
<1>11. \A i \in 1..l.total : Told(r, S, t, l, red, o, i)
  <2>1. /\ (l.index - 1) + (Len(t) - Len(s)) <= o.items
        /\ ~((l.index - 1) + (Len(t) - Len(s)) < o.items)
    BY <1>0, <1>9
  <2> QED
    BY <1>8, <1>10, <2>1, EndsWithin
<1>12. Len(t) <= Most(o) + 0
  <2> DEFINE n == o.items - l.index + 1
  <2>1. n \in Nat /\ n <= o.items - (l.index - 1)
    BY <1>0
  <2>2. Len(t) = Len(s) + n
    BY <1>0, <1>1, <1>3
  <2> HIDE DEF n
  <2>3. Len(s) + n <= Most(o)
    BY <2>1, Fits
  <2>4. Most(o) \in Nat
    BY Rooms
  <2> QED
    BY <2>2, <2>3, <2>4
<1>13. LocalInv(r, S, "ending", t, l, red, o)
  BY <1>11, <1>12 DEF LocalInv, Before, Looping, Past
<1> QED
  BY <1>13 DEF t, v

(* The last iteration is over. *)
LEMMA EndsComplete ==
    ASSUME Bounds, NEW p, NEW s \in Seq(RowType), NEW l \in LoopType,
           NEW red \in [Iterations -> Nat], NEW o \in OptionsType,
           LoopInv(p, s, l, red, o), l.index > o.items, ~(l.iteration < l.total),
           NEW r, NEW S
    PROVE  LocalInv(r, S, "ending", s, [l EXCEPT !.completed = l.iteration], red, o)
PROOF
<1> DEFINE k == [l EXCEPT !.completed = l.iteration]
<1>0. /\ l.total \in Nat /\ l.iteration \in Nat /\ l.iteration \in 1..l.total
      /\ l.index \in Nat /\ o.items \in Nat /\ l.index <= o.items + 1
      /\ Most(o) \in Nat
  BY Rooms
<1>1. /\ k.total = l.total /\ k.completed = l.iteration /\ k.iteration = l.iteration
      /\ \A i : StampOf(k, i) = StampOf(l, i)
  BY DEF LoopType, StampOf
<1> HIDE DEF k
<1>2. l.iteration = l.total /\ l.index - 1 = o.items
  BY <1>0
<1>3. /\ \A n \in DOMAIN s : s[n].status = "done"
      /\ \A i \in 1..l.iteration : red[i] = 0 =>
            InTurn(s, StampOf(l, i), IF i < l.iteration THEN o.items ELSE l.index - 1)
      /\ (o.rows > 0 => l.total <= o.rows)
  BY DEF LoopInv
<1>4. ASSUME NEW i \in 1..k.total PROVE Told(r, S, s, k, red, o, i)
  <2>1. i \in 1..l.iteration /\ i <= k.completed /\ i <= k.completed + 1
    BY <1>0, <1>1, <1>2
  <2>2. \A n \in RowsIn(s, StampOf(k, i)) : s[n].status = "done"
    BY <1>3 DEF RowsIn
  <2>3. red[i] = 0 => InTurn(s, StampOf(k, i), o.items)
    BY <1>1, <1>2, <1>3, <2>1
  <2>4. o.rows > 0 => i <= o.rows
    <3>1. o.rows \in Nat
      BY DEF OptionsType
    <3>2. i <= l.total /\ i \in Nat
      BY <1>0, <1>1
    <3> QED
      BY <1>0, <1>3, <3>1, <3>2
  <2>5. o.items \in 0..o.items /\ ~(o.items < o.items)
    BY <1>0
  <2> QED
    BY <2>1, <2>2, <2>3, <2>4, <2>5 DEF Told
<1>5. Len(s) <= Most(o) + 0
  <2>1. 0 \in Nat /\ 0 <= o.items - (l.index - 1)
    BY <1>0
  <2>2. Len(s) + 0 <= Most(o)
    BY <2>1, Fits
  <2>3. Len(s) \in Nat
    OBVIOUS
  <2> QED
    BY <1>0, <2>2, <2>3
<1>6. LocalInv(r, S, "ending", s, k, red, o)
  BY <1>4, <1>5 DEF LocalInv, Before, Looping, Past
<1> QED
  BY <1>6 DEF k

(* The row that says the run was cancelled is of no iteration. *)
LEMMA EndsWithRow ==
    ASSUME Bounds, NEW s \in Seq(RowType), NEW l, NEW red, NEW o \in OptionsType,
           NEW r, NEW S, LocalInv(r, S, "closed", s, l, red, o)
    PROVE  LocalInv(r, S, "complete", Append(s, CancelRow), l, red, o)
PROOF
<1> DEFINE t == Append(s, CancelRow)
<1>0. CancelRow \in RowType /\ CancelRow.item = 0 /\ CancelRow.status = "cancelled"
  BY DEF CancelRow, RowType, Statuses
<1>1. /\ Len(s) \in Nat /\ DOMAIN s = 1..Len(s) /\ Len(t) = Len(s) + 1
      /\ DOMAIN t = 1..(Len(s) + 1)
      /\ \A n \in 1..Len(s) : t[n] = s[n]
      /\ \A n \in (Len(s) + 1)..(Len(s) + 1) : n = Len(s) + 1
      /\ t[Len(s) + 1] = CancelRow /\ t # <<>>
  BY <1>0, Grown
<1> HIDE DEF t
<1>2. Ends(t)
  BY <1>0, <1>1 DEF Ends
<1>3. ASSUME NEW k
      PROVE  /\ RowsIn(t, k) = RowsIn(s, k)
             /\ \A n \in RowsIn(s, k) : t[n] = s[n]
             /\ \A last : InTurn(s, k, last) => InTurn(t, k, last)
  <2>1. Len(t) \in Nat /\ DOMAIN t = 1..Len(t) /\ Len(s) <= Len(t)
    BY <1>1
  <2>2. \A n \in (Len(s) + 1)..Len(t) : t[n].item = 0
    BY <1>0, <1>1
  <2> QED
    BY <1>1, <2>1, <2>2, Elsewhere
<1>4. ASSUME NEW i \in 1..l.total PROVE Told(r, S, t, l, red, o, i)
  <2>1. Told(r, S, s, l, red, o, i)
    BY DEF LocalInv, Past
  <2> DEFINE k == StampOf(l, i)
  <2>2. /\ RowsIn(t, k) = RowsIn(s, k)
        /\ \A n \in RowsIn(s, k) : t[n] = s[n]
        /\ \A last : InTurn(s, k, last) => InTurn(t, k, last)
    BY <1>3
  <2>3. o.bail =>
           \A n \in RowsIn(t, k) :
              t[n].status = "unrun" <=> \E m \in RowsIn(t, k) : m < n /\ t[m].status = "failed"
    <3>1. o.bail =>
             \A n \in RowsIn(s, k) :
                s[n].status = "unrun" <=> \E m \in RowsIn(s, k) : m < n /\ s[m].status = "failed"
      BY <2>1 DEF Told
    <3> HIDE DEF k
    <3> QED
      BY <2>2, <3>1
  <2>4. i <= l.completed =>
           \A n \in RowsIn(t, k) : t[n].status # "cancelled" /\ t[n].status # "unrun"
    BY <2>1, <2>2 DEF Told
  <2>5. ~(i <= l.completed + 1) => RowsIn(t, k) = {}
    BY <2>1, <2>2 DEF Told
  <2>6. i <= l.completed + 1 /\ red[i] = 0 =>
           \E last \in 0..o.items :
              /\ InTurn(t, k, last)
              /\ last < o.items => ~(i <= l.completed) /\ (Ends(t) \/ r \in S)
    <3>1. i <= l.completed + 1 /\ red[i] = 0 =>
             \E last \in 0..o.items :
                /\ InTurn(s, k, last)
                /\ last < o.items => ~(i <= l.completed) /\ (Ends(s) \/ r \in S)
      BY <2>1 DEF Told
    <3> HIDE DEF k
    <3> QED
      BY <1>2, <2>2, <3>1
  <2>7. o.rows > 0 => i <= o.rows
    BY <2>1 DEF Told
  <2> QED
    BY <2>3, <2>4, <2>5, <2>6, <2>7 DEF Told
<1>5. Len(t) <= Most(o) + 1
  <2>1. Len(s) <= Most(o) + 0 /\ Most(o) \in Nat
    BY MostNat DEF LocalInv, Past
  <2> QED
    BY <1>1, <2>1
<1>6. LocalInv(r, S, "complete", t, l, red, o)
  BY <1>4, <1>5 DEF LocalInv, Before, Looping, Past
<1> QED
  BY <1>6 DEF t

(* One redirection too many. *)
LEMMA GivesUp ==
    ASSUME Bounds, NEW p, NEW s \in Seq(RowType), NEW l \in LoopType,
           NEW red \in [Iterations -> Nat], NEW o \in OptionsType,
           LoopInv(p, s, l, red, o), l.index <= o.items, l.jumps >= MaxJumps,
           NEW e \in RowType, NEW r, NEW S
    PROVE  LocalInv(r, S, "failed", Append(s, e), l,
                    [red EXCEPT ![l.iteration] = @ + 1], o)
PROOF
<1> DEFINE t == Append(s, e)
<1> DEFINE more == [red EXCEPT ![l.iteration] = @ + 1]
<1>0. /\ l.total \in Nat /\ l.iteration \in Nat /\ l.iteration \in 1..l.total
      /\ l.index \in Nat /\ o.items \in Nat /\ l.index >= 1
      /\ Most(o) \in Nat /\ l.jumps \in Nat /\ MaxJumps \in Nat
      /\ IterationLimit \in Nat /\ l.total <= IterationLimit
  BY Rooms
<1>1. Len(t) = Len(s) + 1 /\ Len(s) \in Nat
  BY Grown
<1>2. red[l.iteration] = l.jumps
  BY DEF LoopInv
<1>3. more[l.iteration] = l.jumps + 1
  <2>1. l.iteration \in Iterations
    BY <1>0 DEF Iterations
  <2> QED
    BY <1>2, <2>1
<1> HIDE DEF t, more
<1>4. Len(t) <= Most(o)
  <2>1. 1 \in Nat /\ 1 <= o.items - (l.index - 1)
    BY <1>0
  <2>2. Len(s) + 1 <= Most(o)
    BY <2>1, Fits
  <2> QED
    BY <1>1, <2>2
<1>5. more[l.iteration] > MaxJumps
  BY <1>0, <1>3
<1>6. LocalInv(r, S, "failed", t, l, more, o)
  BY <1>4, <1>5 DEF LocalInv, Before, Looping, Past
<1> QED
  BY <1>6 DEF t, more

-----------------------------------------------------------------------------

(* What the rows of a run say of its being cancelled: marked are the runs  *)
(* whose entry is marked, done those whose context is cancelled, told      *)
(* those whose finishRun has said so, ab those whose request was itself    *)
(* cancelled.                                                              *)
CancelLocal(r, p, s, marked, done, told, ab) ==
    /\ p \in Before \cup Looping => r \notin ab
    /\ p \in Past => \A n \in 1..(Len(s) - 1) : s[n].status # "cancelled"
    /\ p \in {"ending", "closed"} =>
         /\ r \in ab => Ends(s)
         /\ Ends(s) => r \in ab \cup done
    /\ p \in {"complete", "stored"} =>
         /\ r \in told \cup ab => Ends(s)
         /\ Ends(s) => r \in marked \cup ab \cup done

(* A run in the map has not left it; a marked run that has left it knows;  *)
(* a call that has marked an entry is about to cancel its context.         *)
RunRegistryInv ==
    /\ \A k \in Collections : activeRun[k] # NoRun => pc[activeRun[k]] \in Running
    /\ finished \subseteq cancelled
    /\ \A r \in Runs :
          pc[r] \in {"closed", "complete", "stored"} /\ r \in cancelled => r \in finished
    /\ \A c \in Cancels : cpc[c] = "marked" => ctarget[c] \in Runs

(* The same of every run. *)
RunCancelInv ==
    \A r \in Runs :
       CancelLocal(r, pc[r], results[r], cancelled, ctxDone, finished, aborted)

(* Every run is where its rows and its loop variables say. *)
RowsInv ==
    \A r \in Runs :
       LocalInv(r, stopped, pc[r], results[r], loop[r], redirects[r], options[r])

(* The inductive invariant of the runner. *)
RunIInv == RunTypeOK /\ RunRegistryInv /\ RunCancelInv /\ RowsInv

(* A step of one run, as the others see it. *)
OnlyRun(r) ==
    /\ options' = options
    /\ cancelled \subseteq cancelled' /\ ctxDone \subseteq ctxDone'
    /\ stopped \subseteq stopped'
    /\ \A q \in Runs : q # r =>
          /\ pc'[q] = pc[q] /\ results'[q] = results[q] /\ loop'[q] = loop[q]
          /\ redirects'[q] = redirects[q]
          /\ (q \in finished' <=> q \in finished)
          /\ (q \in aborted' <=> q \in aborted)

(* More runs that a script has stopped. *)
LEMMA MoreStopped ==
    ASSUME NEW r, NEW S, NEW T, S \subseteq T, NEW p, NEW s, NEW l, NEW red, NEW o,
           LocalInv(r, S, p, s, l, red, o)
    PROVE  LocalInv(r, T, p, s, l, red, o)
PROOF
<1>1. r \in S => r \in T
  OBVIOUS
<1>2. \A i : Told(r, S, s, l, red, o, i) => Told(r, T, s, l, red, o, i)
  BY <1>1 DEF Told
<1>3. p \in Past => \A i \in 1..l.total : Told(r, T, s, l, red, o, i)
  BY <1>2 DEF LocalInv
<1> QED
  BY <1>3 DEF LocalInv

(* More marks and more cancelled contexts, of other runs or of this one. *)
LEMMA MoreCancelled ==
    ASSUME NEW r, NEW p, NEW s, NEW marked, NEW done, NEW told, NEW ab,
           CancelLocal(r, p, s, marked, done, told, ab),
           NEW marked2, NEW done2, NEW told2, NEW ab2,
           marked \subseteq marked2, done \subseteq done2,
           r \in told2 <=> r \in told, r \in ab2 <=> r \in ab
    PROVE  CancelLocal(r, p, s, marked2, done2, told2, ab2)
PROOF
<1>1. (r \in marked => r \in marked2) /\ (r \in done => r \in done2)
  OBVIOUS
<1> QED
  BY <1>1 DEF CancelLocal

(* A step of one run that keeps its own part keeps everyone's. *)
LEMMA Others ==
    ASSUME RowsInv, RunCancelInv, NEW r \in Runs, OnlyRun(r),
           LocalInv(r, stopped', pc'[r], results'[r], loop'[r], redirects'[r],
           options[r]),
           CancelLocal(r, pc'[r], results'[r], cancelled', ctxDone', finished',
           aborted')
    PROVE  RowsInv' /\ RunCancelInv'
PROOF
<1>1. ASSUME NEW q \in Runs, q # r
      PROVE  /\ LocalInv(q, stopped', pc'[q], results'[q], loop'[q], redirects'[q], options[q])
             /\ CancelLocal(q, pc'[q], results'[q], cancelled', ctxDone', finished', aborted')
  <2>1. LocalInv(q, stopped, pc[q], results[q], loop[q], redirects[q], options[q])
    BY DEF RowsInv
  <2>2. CancelLocal(q, pc[q], results[q], cancelled, ctxDone, finished, aborted)
    BY DEF RunCancelInv
  <2>3. LocalInv(q, stopped', pc[q], results[q], loop[q], redirects[q], options[q])
    BY <2>1, MoreStopped DEF OnlyRun
  <2>4. CancelLocal(q, pc[q], results[q], cancelled', ctxDone', finished', aborted')
    BY <1>1, <2>2, MoreCancelled DEF OnlyRun
  <2> QED
    BY <1>1, <2>3, <2>4 DEF OnlyRun
<1>2. options' = options
  BY DEF OnlyRun
<1>3. \A q \in Runs :
         /\ LocalInv(q, stopped', pc'[q], results'[q], loop'[q], redirects'[q], options'[q])
         /\ CancelLocal(q, pc'[q], results'[q], cancelled', ctxDone', finished', aborted')
  BY <1>1, <1>2
<1> QED
  BY <1>3 DEF RowsInv, RunCancelInv

(* What the invariant says of one run. *)
LEMMA OfRun ==
    ASSUME RunIInv, NEW r \in Runs
    PROVE  /\ results[r] \in Seq(RowType) /\ loop[r] \in LoopType
           /\ redirects[r] \in [Iterations -> Nat] /\ options[r] \in OptionsType
           /\ pc[r] \in Locations
           /\ LocalInv(r, stopped, pc[r], results[r], loop[r], redirects[r], options[r])
           /\ CancelLocal(r, pc[r], results[r], cancelled, ctxDone, finished, aborted)
           /\ RowsInv /\ RunCancelInv /\ RunTypeOK
PROOF
  BY DEF RunIInv, RunTypeOK, RowsInv, RunCancelInv

(* What the invariant says of a run in the loops. *)
LEMMA InLoop ==
    ASSUME Bounds, RunIInv, NEW r \in Runs, pc[r] \in {"turn", "sending"}
    PROVE  /\ LoopInv(pc[r], results[r], loop[r], redirects[r], options[r])
           /\ r \notin aborted
           /\ \A n \in DOMAIN results[r] : results[r][n].status = "done"
           /\ loop[r].iteration \in Nat /\ loop[r].index \in Nat
           /\ loop[r].iteration \in Iterations
           /\ (pc[r] = "sending" => loop[r].index <= options[r].items)
PROOF
<1>1. LoopInv(pc[r], results[r], loop[r], redirects[r], options[r])
  BY OfRun DEF LocalInv, Looping
<1>2. r \notin aborted
  BY OfRun DEF CancelLocal, Looping
<1>3. loop[r] \in LoopType
  BY OfRun
<1>4. /\ loop[r].total \in 1..IterationLimit /\ loop[r].iteration \in 1..loop[r].total
      /\ loop[r].iteration \in Nat /\ loop[r].index \in Nat /\ loop[r].total \in Nat
  BY <1>1, <1>3 DEF LoopInv, Iterations, LoopType
<1>5. loop[r].iteration \in Iterations
  BY <1>4 DEF Iterations, Bounds
<1> QED
  BY <1>1, <1>2, <1>4, <1>5 DEF LoopInv

(* The row of this turn. *)
LEMMA RowIs ==
    ASSUME Bounds, RunIInv, NEW r \in Runs, pc[r] \in {"turn", "sending"},
    NEW n \in Nat,
           NEW x \in Statuses
    PROVE  /\ Row(r, n, x) \in RowType
           /\ Row(r, n, x).item = n /\ Row(r, n, x).status = x
           /\ Row(r, n, x).iteration = StampOf(loop[r], loop[r].iteration)
PROOF
<1>1. loop[r].iteration \in Nat
  BY InLoop
<1>2. Stamp(r, loop[r].iteration) = StampOf(loop[r], loop[r].iteration)
  BY DEF Stamp, StampOf
<1>3. StampOf(loop[r], loop[r].iteration) \in Nat
  BY <1>1 DEF StampOf
<1> QED
  BY <1>2, <1>3 DEF Row, RowType

(* A row after rows that are done. *)
LEMMA LastRow ==
    ASSUME NEW s \in Seq(RowType), \A n \in DOMAIN s : s[n].status = "done",
           NEW e \in RowType
    PROVE  /\ Append(s, e) \in Seq(RowType)
           /\ \A n \in 1..(Len(Append(s, e)) - 1) : Append(s, e)[n].status # "cancelled"
           /\ Ends(Append(s, e)) <=> e.status = "cancelled"
PROOF
<1>1. /\ Append(s, e) \in Seq(RowType)
      /\ Len(s) \in Nat /\ DOMAIN s = 1..Len(s)
      /\ Len(Append(s, e)) = Len(s) + 1
      /\ \A n \in 1..Len(s) : Append(s, e)[n] = s[n]
      /\ Append(s, e)[Len(s) + 1] = e
      /\ Append(s, e) # <<>>
  BY Grown
<1>2. Ends(Append(s, e)) <=> e.status = "cancelled"
  BY <1>1 DEF Ends
<1>3. \A n \in 1..((Len(s) + 1) - 1) : n \in 1..Len(s)
  BY <1>1
<1> QED
  BY <1>1, <1>2, <1>3

-----------------------------------------------------------------------------
(* Each step keeps the rows and their ending right. *)
LEMMA EarlyStep ==
    ASSUME Bounds, RunIInv, NEW r \in Runs,
           Register(r) \/ Supersede(r) \/ RefuseDataFile(r) \/ Plan(r)
    PROVE  RowsInv' /\ RunCancelInv'
PROOF
<1>1. /\ results[r] \in Seq(RowType) /\ loop[r] \in LoopType /\ pc[r] \in Before
      /\ redirects[r] \in [Iterations -> Nat] /\ options[r] \in OptionsType
      /\ RunTypeOK /\ RowsInv /\ RunCancelInv
      /\ LocalInv(r, stopped, pc[r], results[r], loop[r], redirects[r], options[r])
      /\ CancelLocal(r, pc[r], results[r], cancelled, ctxDone, finished, aborted)
  BY OfRun
     DEF Register, Supersede, RefuseDataFile, Plan, Before
<1>2. Fresh(results[r], loop[r], redirects[r]) /\ r \notin aborted
  BY <1>1 DEF LocalInv, CancelLocal, Before
<1>3. CASE Register(r) \/ Supersede(r)
  <2>1. OnlyRun(r)
    BY <1>1, <1>3
       DEF OnlyRun, Register, Supersede, cancelVars,
           historyVars, RunTypeOK
  <2>2. /\ pc'[r] \in Before /\ results'[r] = results[r] /\ loop'[r] = loop[r]
        /\ redirects'[r] = redirects[r] /\ aborted' = aborted
    BY <1>1, <1>3
       DEF Register, Supersede, cancelVars, historyVars,
           RunTypeOK, Before
  <2>3. LocalInv(r, stopped', pc'[r], results'[r], loop'[r], redirects'[r], options[r])
    BY <1>2, <2>2 DEF LocalInv, Before, Looping, Past
  <2>4. CancelLocal(r, pc'[r], results'[r], cancelled', ctxDone', finished', aborted')
    BY <1>2, <2>2 DEF CancelLocal, Before, Looping, Past
  <2> QED
    BY <1>1, <2>1, <2>3, <2>4, Others
<1>4. CASE RefuseDataFile(r)
  <2>1. OnlyRun(r)
    BY <1>1, <1>4
       DEF OnlyRun, RefuseDataFile, FinishRun, cancelVars,
           historyVars, RunTypeOK
  <2>2. pc'[r] = "failed" /\ results'[r] = results[r]
    BY <1>1, <1>4 DEF RefuseDataFile, RunTypeOK
  <2>3. Len(results[r]) <= Most(options[r]) /\ results[r] = <<>>
    <3>1. Most(options[r]) \in Nat
      BY <1>1, MostNat
    <3>2. results[r] = <<>>
      BY <1>2 DEF Fresh
    <3> QED
      BY <3>1, <3>2
  <2>4. LocalInv(r, stopped', pc'[r], results'[r], loop'[r], redirects'[r], options[r])
    BY <2>2, <2>3 DEF LocalInv, Before, Looping, Past
  <2>5. CancelLocal(r, pc'[r], results'[r], cancelled', ctxDone', finished', aborted')
    BY <2>2 DEF CancelLocal, Before, Looping, Past
  <2> QED
    BY <1>1, <2>1, <2>4, <2>5, Others
<1>5. CASE Plan(r)
  <2> DEFINE n == IterationPlan(options[r].rows, options[r].requested)
  <2>1. n \in Iterations /\ (options[r].rows > 0 => n <= options[r].rows)
    <3>1. /\ options[r].rows \in Nat /\ options[r].requested \in Nat
          /\ IterationLimit \in Nat /\ IterationLimit >= 1
      BY <1>1 DEF OptionsType, Bounds
    <3>2. ~(options[r].rows > IterationLimit)
      BY <1>5 DEF Plan, DataError
    <3> QED
      BY <3>1, <3>2
         DEF IterationPlan, NormalizeIterations, Least,
             Iterations
  <2>2. OnlyRun(r)
    BY <1>1, <1>5
       DEF OnlyRun, Plan, cancelVars, historyVars, RunTypeOK
  <2>3. /\ pc'[r] = "turn" /\ results'[r] = results[r]
        /\ loop'[r] = [loop[r] EXCEPT !.total = n]
        /\ redirects'[r] = redirects[r] /\ aborted' = aborted
    BY <1>1, <1>5 DEF Plan, cancelVars, historyVars, RunTypeOK
  <2> HIDE DEF n
  <2>4. LoopInv("turn", results[r], [loop[r] EXCEPT !.total = n], redirects[r], options[r])
    BY <1>1, <1>2, <2>1, LoopBegins
  <2>5. LocalInv(r, stopped', pc'[r], results'[r], loop'[r], redirects'[r], options[r])
    BY <2>3, <2>4 DEF LocalInv, Before, Looping, Past
  <2>6. CancelLocal(r, pc'[r], results'[r], cancelled', ctxDone', finished', aborted')
    BY <1>2, <2>3 DEF CancelLocal, Before, Looping, Past
  <2> QED
    BY <1>1, <2>2, <2>5, <2>6, Others
<1> QED
  BY <1>3, <1>4, <1>5

(* A turn that is cancelled, or an answer that is. *)
LEMMA CancelledStep ==
    ASSUME Bounds, RunIInv, NEW r \in Runs, TurnCancelled(r) \/ AnswerCancelled(r)
    PROVE  RowsInv' /\ RunCancelInv'
PROOF
<1>1. /\ results[r] \in Seq(RowType) /\ loop[r] \in LoopType
      /\ redirects[r] \in [Iterations -> Nat] /\ options[r] \in OptionsType
      /\ RunTypeOK /\ RowsInv /\ RunCancelInv /\ pc[r] \in {"turn", "sending"}
  BY OfRun DEF TurnCancelled, AtTurn, AnswerCancelled
<1>2. /\ LoopInv(pc[r], results[r], loop[r], redirects[r], options[r])
      /\ r \notin aborted /\ loop[r].index \in Nat
      /\ \A n \in DOMAIN results[r] : results[r][n].status = "done"
  BY <1>1, InLoop
<1>3. loop[r].index <= options[r].items
  BY <1>1, InLoop
     DEF TurnCancelled, AtTurn, AnswerCancelled, Items
<1> DEFINE e == Row(r, loop[r].index, "cancelled")
<1>4. /\ e \in RowType /\ e.item = loop[r].index /\ e.status = "cancelled"
      /\ e.iteration = StampOf(loop[r], loop[r].iteration)
  <2>1. "cancelled" \in Statuses
    BY DEF Statuses
  <2> QED
    BY <1>1, <1>2, <2>1, RowIs
<1>5. /\ pc'[r] = "ending" /\ results'[r] = Append(results[r], e)
      /\ loop'[r] = loop[r] /\ redirects'[r] = redirects[r]
      /\ r \in aborted' \cup ctxDone'
  BY <1>1
     DEF TurnCancelled, AnswerCancelled, AtTurn, Recorded,
         historyVars, RunTypeOK
<1>6. OnlyRun(r)
  BY <1>1
     DEF OnlyRun, TurnCancelled, AnswerCancelled, cancelVars,
         historyVars, RunTypeOK
<1> HIDE DEF e
<1>7. LocalInv(r, stopped', "ending", Append(results[r], e), loop[r], redirects[r], options[r])
  <2>1. e.status # "unrun" /\ (e.status = "cancelled" \/ r \in stopped')
    BY <1>4
  <2> QED
    BY <1>1, <1>2, <1>3, <1>4, <2>1, EndsAtRow
<1>8. /\ \A n \in 1..(Len(Append(results[r], e)) - 1) :
            Append(results[r], e)[n].status # "cancelled"
      /\ Ends(Append(results[r], e))
  BY <1>1, <1>2, <1>4, LastRow
<1>9. LocalInv(r, stopped', pc'[r], results'[r], loop'[r], redirects'[r], options[r])
  BY <1>5, <1>7
<1>10. CancelLocal(r, pc'[r], results'[r], cancelled', ctxDone', finished', aborted')
  BY <1>5, <1>8 DEF CancelLocal, Before, Looping, Past
<1> QED
  BY <1>1, <1>6, <1>9, <1>10, Others

(* A request that is not sent, or is answered: the loop goes on, or stops. *)
LEMMA DoneStep ==
    ASSUME Bounds, RunIInv, NEW r \in Runs,
           Skip(r) \/ GoOn(r) \/ StopExecution(r) \/ SetNextRequest(r) \/ TooManyJumps(r)
    PROVE  RowsInv' /\ RunCancelInv'
PROOF
<1>1. /\ results[r] \in Seq(RowType) /\ loop[r] \in LoopType
      /\ redirects[r] \in [Iterations -> Nat] /\ options[r] \in OptionsType
      /\ RunTypeOK /\ RowsInv /\ RunCancelInv /\ pc[r] \in {"turn", "sending"}
  BY OfRun
     DEF Skip, AtTurn, GoOn, StopExecution,
         SetNextRequest, TooManyJumps,
               Redirect, Answer
<1>2. /\ LoopInv(pc[r], results[r], loop[r], redirects[r], options[r])
      /\ r \notin aborted /\ loop[r].index \in Nat /\ loop[r].iteration \in Iterations
      /\ \A n \in DOMAIN results[r] : results[r][n].status = "done"
  BY <1>1, InLoop
<1>3. loop[r].index <= options[r].items
  BY <1>1, InLoop
     DEF Skip, AtTurn, GoOn, StopExecution,
         SetNextRequest,
                      TooManyJumps, Redirect, Answer, Items
<1> DEFINE e == Row(r, loop[r].index, "done")
<1>4. /\ e \in RowType /\ e.item = loop[r].index /\ e.status = "done"
      /\ e.iteration = StampOf(loop[r], loop[r].iteration)
  <2>1. "done" \in Statuses
    BY DEF Statuses
  <2> QED
    BY <1>1, <1>2, <2>1, RowIs
<1>5. results'[r] = Append(results[r], e) /\ aborted' = aborted
  BY <1>1
     DEF Skip, GoOn, StopExecution, SetNextRequest,
         TooManyJumps,
              Redirect, Answer, Recorded, historyVars,
              RunTypeOK
<1>6. OnlyRun(r)
  <2>1. CASE Skip(r) \/ GoOn(r) \/ StopExecution(r)
    BY <1>1, <2>1
       DEF OnlyRun, Skip, GoOn, StopExecution, Answer,
           cancelVars,
                      historyVars, RunTypeOK
  <2>2. CASE SetNextRequest(r)
    BY <1>1, <2>2
       DEF OnlyRun, SetNextRequest, Redirect, Answer,
           cancelVars, RunTypeOK
  <2>3. CASE TooManyJumps(r)
    BY <1>1, <2>3
       DEF OnlyRun, TooManyJumps, Redirect, Answer,
           FinishRun,
                      cancelVars, RunTypeOK
  <2> QED
    BY <2>1, <2>2, <2>3
<1>7. CASE Skip(r) \/ GoOn(r)
  <2>1. /\ pc'[r] = "turn" /\ loop'[r] = [loop[r] EXCEPT !.index = @ + 1]
        /\ redirects'[r] = redirects[r]
    BY <1>1, <1>7
       DEF Skip, AtTurn, GoOn, Answer, historyVars,
           RunTypeOK
  <2> HIDE DEF e
  <2>2. LoopInv("turn", Append(results[r], e), [loop[r] EXCEPT !.index = @ + 1],
                redirects[r], options[r])
    BY <1>1, <1>2, <1>3, <1>4, LoopGoesOn
  <2>3. LocalInv(r, stopped', pc'[r], results'[r], loop'[r], redirects'[r], options[r])
    BY <1>5, <2>1, <2>2 DEF LocalInv, Before, Looping, Past
  <2>4. CancelLocal(r, pc'[r], results'[r], cancelled', ctxDone', finished', aborted')
    BY <1>2, <1>5, <2>1 DEF CancelLocal, Before, Looping, Past
  <2> QED
    BY <1>1, <1>6, <2>3, <2>4, Others
<1>8. CASE StopExecution(r)
  <2>1. /\ pc'[r] = "ending" /\ loop'[r] = loop[r] /\ redirects'[r] = redirects[r]
        /\ r \in stopped'
    BY <1>1, <1>8 DEF StopExecution, Answer, RunTypeOK
  <2> HIDE DEF e
  <2>2. LocalInv(r, stopped', "ending", Append(results[r], e), loop[r], redirects[r],
                 options[r])
    <3>1. e.status # "unrun" /\ (e.status = "cancelled" \/ r \in stopped')
      BY <1>4, <2>1
    <3> QED
      BY <1>1, <1>2, <1>3, <1>4, <3>1, EndsAtRow
  <2>3. LocalInv(r, stopped', pc'[r], results'[r], loop'[r], redirects'[r], options[r])
    BY <1>5, <2>1, <2>2
  <2>4. /\ \A n \in 1..(Len(Append(results[r], e)) - 1) :
              Append(results[r], e)[n].status # "cancelled"
        /\ ~Ends(Append(results[r], e))
    BY <1>1, <1>2, <1>4, LastRow
  <2>5. CancelLocal(r, pc'[r], results'[r], cancelled', ctxDone', finished', aborted')
    BY <1>2, <1>5, <2>1, <2>4 DEF CancelLocal, Before, Looping, Past
  <2> QED
    BY <1>1, <1>6, <2>3, <2>5, Others
<1>9. CASE SetNextRequest(r)
  <2>1. /\ pc'[r] = "turn" /\ loop[r].jumps < MaxJumps
        /\ redirects'[r] = [redirects[r] EXCEPT ![loop[r].iteration] = @ + 1]
    BY <1>1, <1>9 DEF SetNextRequest, Redirect, RunTypeOK
  <2>2. PICK next \in 1..(options[r].items + 1) \cup {loop[r].index + 1} :
            loop' = [loop EXCEPT ![r].index = next, ![r].jumps = @ + 1]
    BY <1>9 DEF SetNextRequest, Items
  <2>3. next \in 1..(options[r].items + 1)
    <3>1. options[r].items \in Nat
      BY <1>1 DEF OptionsType
    <3> QED
      BY <1>2, <1>3, <2>2, <3>1
  <2>4. loop'[r] = [loop[r] EXCEPT !.index = next, !.jumps = @ + 1]
    BY <1>1, <2>2 DEF RunTypeOK, LoopType
  <2> HIDE DEF e
  <2>5. LoopInv("turn", Append(results[r], e),
                [loop[r] EXCEPT !.index = next, !.jumps = @ + 1],
                [redirects[r] EXCEPT ![loop[r].iteration] = @ + 1], options[r])
    BY <1>1, <1>2, <1>3, <1>4, <2>1, <2>3, LoopJumps
  <2>6. LocalInv(r, stopped', pc'[r], results'[r], loop'[r], redirects'[r], options[r])
    BY <1>5, <2>1, <2>4, <2>5 DEF LocalInv, Before, Looping, Past
  <2>7. CancelLocal(r, pc'[r], results'[r], cancelled', ctxDone', finished', aborted')
    BY <1>2, <1>5, <2>1 DEF CancelLocal, Before, Looping, Past
  <2> QED
    BY <1>1, <1>6, <2>6, <2>7, Others
<1>10. CASE TooManyJumps(r)
  <2>1. /\ pc'[r] = "failed" /\ loop[r].jumps >= MaxJumps /\ loop'[r] = loop[r]
        /\ redirects'[r] = [redirects[r] EXCEPT ![loop[r].iteration] = @ + 1]
    BY <1>1, <1>10 DEF TooManyJumps, Redirect, RunTypeOK
  <2> HIDE DEF e
  <2>2. LocalInv(r, stopped', "failed", Append(results[r], e), loop[r],
                 [redirects[r] EXCEPT ![loop[r].iteration] = @ + 1], options[r])
    BY <1>1, <1>2, <1>3, <1>4, <2>1, GivesUp
  <2>3. LocalInv(r, stopped', pc'[r], results'[r], loop'[r], redirects'[r], options[r])
    BY <1>5, <2>1, <2>2
  <2>4. CancelLocal(r, pc'[r], results'[r], cancelled', ctxDone', finished', aborted')
    BY <2>1 DEF CancelLocal, Before, Looping, Past
  <2> QED
    BY <1>1, <1>6, <2>3, <2>4, Others
<1> QED
  BY <1>7, <1>8, <1>9, <1>10

(* The first failure ends the run, and lists the rest as unrun. *)
LEMMA BailStep ==
    ASSUME Bounds, RunIInv, NEW r \in Runs, Bail(r)
    PROVE  RowsInv' /\ RunCancelInv' /\ Unrun(r) \in Seq(RowType)
PROOF
<1>1. /\ results[r] \in Seq(RowType) /\ loop[r] \in LoopType
      /\ redirects[r] \in [Iterations -> Nat] /\ options[r] \in OptionsType
      /\ RunTypeOK /\ RowsInv /\ RunCancelInv /\ pc[r] = "sending"
  BY OfRun DEF Bail
<1>2. /\ LoopInv(pc[r], results[r], loop[r], redirects[r], options[r])
      /\ r \notin aborted /\ loop[r].index \in Nat
      /\ loop[r].index <= options[r].items
      /\ \A n \in DOMAIN results[r] : results[r][n].status = "done"
  BY <1>1, InLoop
<1> DEFINE e == Row(r, loop[r].index, "failed")
<1> DEFINE u == Unrun(r)
<1> DEFINE v == Append(results[r], e)
<1>3. /\ e \in RowType /\ e.item = loop[r].index /\ e.status = "failed"
      /\ e.iteration = StampOf(loop[r], loop[r].iteration)
  <2>1. "failed" \in Statuses
    BY DEF Statuses
  <2> QED
    BY <1>1, <1>2, <2>1, RowIs
<1>4. u \in Seq(RowType) /\ TheRest(u, loop[r], options[r])
  <2> DEFINE m == options[r].items - loop[r].index
  <2>1. m \in Nat
    BY <1>1, <1>2 DEF OptionsType
  <2>2. u = [n \in 1..m |-> Row(r, loop[r].index + n, "unrun")]
    BY DEF Unrun, Items
  <2> HIDE DEF u, m
  <2>3. ASSUME NEW n \in 1..m
        PROVE  /\ Row(r, loop[r].index + n, "unrun") \in RowType
               /\ Row(r, loop[r].index + n, "unrun").item = loop[r].index + n
               /\ Row(r, loop[r].index + n, "unrun").status = "unrun"
               /\ Row(r, loop[r].index + n, "unrun").iteration
                    = StampOf(loop[r], loop[r].iteration)
    <3>1. "unrun" \in Statuses /\ loop[r].index + n \in Nat
      BY <1>2, <2>1 DEF Statuses
    <3> QED
      BY <1>1, <3>1, RowIs
  <2>4. u \in Seq(RowType) /\ Len(u) = m
    BY <2>1, <2>2, <2>3
  <2>5. \A n \in 1..Len(u) : u[n] = Row(r, loop[r].index + n, "unrun")
    BY <2>2, <2>4
  <2> QED
    BY <2>3, <2>4, <2>5 DEF TheRest, m
<1>5. /\ pc'[r] = "ending" /\ results'[r] = v \o u
      /\ loop'[r] = loop[r] /\ redirects'[r] = redirects[r] /\ aborted' = aborted
  BY <1>1 DEF Bail, Recorded, historyVars, RunTypeOK
<1>6. OnlyRun(r)
  BY <1>1 DEF OnlyRun, Bail, cancelVars, historyVars, RunTypeOK
<1>7. /\ v \in Seq(RowType)
      /\ \A n \in 1..(Len(v) - 1) : v[n].status # "cancelled"
      /\ v[Len(v)].status = "failed" /\ v # <<>>
  <2>1. /\ v \in Seq(RowType)
        /\ \A n \in 1..(Len(v) - 1) : v[n].status # "cancelled"
    BY <1>1, <1>2, <1>3, LastRow
  <2>2. /\ Len(results[r]) \in Nat /\ Len(v) = Len(results[r]) + 1
        /\ v[Len(results[r]) + 1] = e /\ v # <<>>
    BY <1>1, <1>3, Grown
  <2> HIDE DEF e, v
  <2> QED
    BY <1>3, <2>1, <2>2
<1> HIDE DEF e, u
<1>8. LocalInv(r, stopped', "ending", v \o u, loop[r], redirects[r], options[r])
  BY <1>1, <1>2, <1>3, <1>4, EndsBailing
<1> HIDE DEF v
<1> DEFINE t == v \o u
<1>9. /\ Len(v) \in Nat /\ Len(u) \in Nat /\ Len(t) = Len(v) + Len(u)
      /\ \A n \in 1..Len(v) : t[n] = v[n]
      /\ \A n \in (Len(v) + 1)..(Len(v) + Len(u)) : t[n] = u[n - Len(v)]
  BY <1>4, <1>7, Joined
<1> HIDE DEF t
<1>10. \A n \in 1..Len(t) : t[n].status # "cancelled"
  <2> SUFFICES ASSUME NEW n \in 1..Len(t) PROVE t[n].status # "cancelled"
    OBVIOUS
  <2>1. CASE n \in 1..Len(v)
    <3>1. n \in 1..(Len(v) - 1) \/ n = Len(v)
      BY <1>9, <2>1
    <3> QED
      BY <1>7, <1>9, <2>1, <3>1
  <2>2. CASE n \in (Len(v) + 1)..(Len(v) + Len(u))
    <3>1. n - Len(v) \in 1..Len(u) /\ t[n] = u[n - Len(v)]
      BY <1>9, <2>2
    <3> QED
      BY <1>4, <3>1 DEF TheRest
  <2> QED
    BY <1>9, <2>1, <2>2
<1>11. ~Ends(t)
  <2>1. v # <<>> => Len(v) # 0
    BY <1>7
  <2>2. Len(t) \in 1..Len(t)
    BY <1>7, <1>9, <2>1
  <2> QED
    BY <1>10, <2>2 DEF Ends
<1>12. LocalInv(r, stopped', pc'[r], results'[r], loop'[r], redirects'[r], options[r])
  BY <1>5, <1>8
<1>13. CancelLocal(r, pc'[r], t, cancelled', ctxDone', finished', aborted')
  <2>1. \A n \in 1..(Len(t) - 1) : t[n].status # "cancelled"
    BY <1>9, <1>10
  <2> QED
    BY <1>2, <1>5, <1>11, <2>1 DEF CancelLocal, Before, Looping, Past
<1>14. CancelLocal(r, pc'[r], results'[r], cancelled', ctxDone', finished', aborted')
  BY <1>5, <1>13 DEF t
<1> QED
  BY <1>1, <1>4, <1>6, <1>12, <1>14, Others DEF u

(* A send begins, or an iteration ends. *)
LEMMA TurnStep ==
    ASSUME Bounds, RunIInv, NEW r \in Runs, Send(r) \/ EndIteration(r)
    PROVE  RowsInv' /\ RunCancelInv'
PROOF
<1>1. /\ results[r] \in Seq(RowType) /\ loop[r] \in LoopType
      /\ redirects[r] \in [Iterations -> Nat] /\ options[r] \in OptionsType
      /\ RunTypeOK /\ RowsInv /\ RunCancelInv /\ pc[r] = "turn"
  BY OfRun DEF Send, AtTurn, EndIteration
<1>2. /\ LoopInv(pc[r], results[r], loop[r], redirects[r], options[r])
      /\ r \notin aborted
      /\ \A n \in DOMAIN results[r] : results[r][n].status = "done"
  BY <1>1, InLoop
<1>3. OnlyRun(r)
  <2>1. CASE Send(r)
    BY <1>1, <2>1
       DEF OnlyRun, Send, cancelVars, historyVars, RunTypeOK
  <2>2. CASE EndIteration(r)
    BY <1>1, <2>2
       DEF OnlyRun, EndIteration, cancelVars, historyVars,
           RunTypeOK
  <2> QED
    BY <2>1, <2>2
<1>4. /\ results'[r] = results[r] /\ redirects'[r] = redirects[r] /\ aborted' = aborted
  BY <1>1 DEF Send, EndIteration, historyVars
<1>5. CASE Send(r)
  <2>1. pc'[r] = "sending" /\ loop'[r] = loop[r] /\ loop[r].index <= options[r].items
    BY <1>1, <1>5 DEF Send, AtTurn, Items, RunTypeOK
  <2>2. LoopInv("sending", results[r], loop[r], redirects[r], options[r])
    BY <1>2, <2>1 DEF LoopInv
  <2>3. LocalInv(r, stopped', pc'[r], results'[r], loop'[r], redirects'[r], options[r])
    BY <1>4, <2>1, <2>2 DEF LocalInv, Before, Looping, Past
  <2>4. CancelLocal(r, pc'[r], results'[r], cancelled', ctxDone', finished', aborted')
    BY <1>2, <1>4, <2>1 DEF CancelLocal, Before, Looping, Past
  <2> QED
    BY <1>1, <1>3, <2>3, <2>4, Others
<1>6. CASE EndIteration(r) /\ loop[r].iteration < loop[r].total
  <2>1. /\ pc'[r] = "turn" /\ loop[r].index > options[r].items
        /\ loop'[r] = [loop[r] EXCEPT !.completed = @ + 1, !.iteration = @ + 1,
                                      !.index = 1, !.jumps = 0]
    BY <1>1, <1>6
       DEF EndIteration, NextIteration, Items, RunTypeOK
  <2>2. LoopInv("turn", results[r],
                [loop[r] EXCEPT !.completed = @ + 1, !.iteration = @ + 1,
                                !.index = 1, !.jumps = 0],
                redirects[r], options[r])
    BY <1>1, <1>2, <1>6, <2>1, LoopStartsOver
  <2>3. LocalInv(r, stopped', pc'[r], results'[r], loop'[r], redirects'[r], options[r])
    BY <1>4, <2>1, <2>2 DEF LocalInv, Before, Looping, Past
  <2>4. CancelLocal(r, pc'[r], results'[r], cancelled', ctxDone', finished', aborted')
    BY <1>2, <1>4, <2>1 DEF CancelLocal, Before, Looping, Past
  <2> QED
    BY <1>1, <1>3, <2>3, <2>4, Others
<1>7. CASE EndIteration(r) /\ ~(loop[r].iteration < loop[r].total)
  <2>1. /\ pc'[r] = "ending" /\ loop[r].index > options[r].items
        /\ loop'[r] = [loop[r] EXCEPT !.completed = loop[r].iteration]
    BY <1>1, <1>7 DEF EndIteration, Items, RunTypeOK
  <2>2. LocalInv(r, stopped', "ending", results[r],
                 [loop[r] EXCEPT !.completed = loop[r].iteration], redirects[r], options[r])
    BY <1>1, <1>2, <1>7, <2>1, EndsComplete
  <2>3. LocalInv(r, stopped', pc'[r], results'[r], loop'[r], redirects'[r], options[r])
    BY <1>4, <2>1, <2>2
  <2>4. \A n \in 1..Len(results[r]) : results[r][n].status = "done"
    BY <1>1, <1>2
  <2>5. Len(results[r]) \in Nat /\ (results[r] # <<>> => Len(results[r]) \in 1..Len(results[r]))
    BY <1>1
  <2>6. ~Ends(results[r])
    BY <2>4, <2>5 DEF Ends
  <2>7. \A n \in 1..(Len(results[r]) - 1) : results[r][n].status # "cancelled"
    BY <2>4, <2>5
  <2>8. CancelLocal(r, pc'[r], results'[r], cancelled', ctxDone', finished', aborted')
    BY <1>2, <1>4, <2>1, <2>6, <2>7 DEF CancelLocal, Before, Looping, Past
  <2> QED
    BY <1>1, <1>3, <2>3, <2>8, Others
<1> QED
  BY <1>5, <1>6, <1>7

(* The run leaves the map, completes its rows and stores them. *)
LEMMA LastSteps ==
    ASSUME Bounds, RunIInv, NEW r \in Runs, Finish(r) \/ Complete(r) \/ Store(r)
    PROVE  RowsInv' /\ RunCancelInv'
PROOF
<1>1. /\ results[r] \in Seq(RowType) /\ options[r] \in OptionsType
      /\ RunTypeOK /\ RowsInv /\ RunCancelInv /\ RunRegistryInv
      /\ pc[r] \in {"ending", "closed", "complete"}
      /\ LocalInv(r, stopped, pc[r], results[r], loop[r], redirects[r], options[r])
      /\ CancelLocal(r, pc[r], results[r], cancelled, ctxDone, finished, aborted)
  BY OfRun DEF Finish, Complete, Store, RunIInv
<1>2. OnlyRun(r)
  <2>1. CASE Finish(r)
    BY <1>1, <2>1
       DEF OnlyRun, Finish, FinishRun, cancelVars,
           historyVars, RunTypeOK
  <2>2. CASE Complete(r)
    BY <1>1, <2>2
       DEF OnlyRun, Complete, cancelVars, historyVars,
           RunTypeOK
  <2>3. CASE Store(r)
    BY <1>1, <2>3
       DEF OnlyRun, Store, cancelVars, historyVars, RunTypeOK
  <2> QED
    BY <2>1, <2>2, <2>3
<1>3. /\ loop'[r] = loop[r] /\ redirects'[r] = redirects[r] /\ stopped' = stopped
      /\ aborted' = aborted /\ cancelled' = cancelled /\ ctxDone' = ctxDone
  BY DEF Finish, Complete, Store, historyVars
<1>4. CASE Finish(r)
  <2>1. pc[r] = "ending" /\ pc'[r] = "closed" /\ results'[r] = results[r]
    BY <1>1, <1>4 DEF Finish, RunTypeOK
  <2>2. LocalInv(r, stopped', pc'[r], results'[r], loop'[r], redirects'[r], options[r])
    BY <1>1, <1>3, <2>1 DEF LocalInv, Before, Looping, Past
  <2>3. CancelLocal(r, pc'[r], results'[r], cancelled', ctxDone', finished', aborted')
    BY <1>1, <1>3, <2>1 DEF CancelLocal, Before, Looping, Past
  <2> QED
    BY <1>1, <1>2, <2>2, <2>3, Others
<1>5. CASE Complete(r) /\ r \in finished \cup ctxDone /\ ~EndsCancelled(r)
  <2>1. /\ pc[r] = "closed" /\ pc'[r] = "complete" /\ finished' = finished
        /\ results'[r] = Append(results[r], CancelRow)
    BY <1>1, <1>5 DEF Complete, RunTypeOK
  <2>2. LocalInv(r, stopped', pc'[r], results'[r], loop'[r], redirects'[r], options[r])
    BY <1>1, <1>3, <2>1, EndsWithRow
  <2>3. ~Ends(results[r])
    BY <1>5 DEF EndsCancelled, Ends
  <2>4. CancelRow \in RowType /\ CancelRow.status = "cancelled"
    BY DEF CancelRow, RowType, Statuses
  <2> DEFINE t == Append(results[r], CancelRow)
  <2>5. /\ Len(results[r]) \in Nat /\ Len(t) = Len(results[r]) + 1
        /\ \A n \in 1..Len(results[r]) : t[n] = results[r][n]
        /\ t[Len(results[r]) + 1] = CancelRow /\ t # <<>>
    BY <1>1, <2>4, Grown
  <2> HIDE DEF t
  <2>6. Ends(t)
    BY <2>4, <2>5 DEF Ends
  <2>7. \A n \in 1..(Len(t) - 1) : t[n].status # "cancelled"
    <3> SUFFICES ASSUME NEW n \in 1..(Len(t) - 1) PROVE t[n].status # "cancelled"
      OBVIOUS
    <3>1. n \in 1..Len(results[r])
      BY <2>5
    <3>2. CASE n = Len(results[r])
      <4>1. results[r] # <<>>
        BY <1>1, <3>1, <3>2
      <4> QED
        BY <2>3, <2>5, <3>1, <3>2, <4>1 DEF Ends
    <3>3. CASE n # Len(results[r])
      <4>1. n \in 1..(Len(results[r]) - 1)
        BY <2>5, <3>1, <3>3
      <4>2. results[r][n].status # "cancelled"
        BY <1>1, <2>1, <4>1 DEF CancelLocal, Past
      <4> QED
        BY <2>5, <3>1, <4>2
    <3> QED
      BY <3>2, <3>3
  <2>8. r \in cancelled \cup ctxDone
    BY <1>1, <1>5 DEF RunRegistryInv
  <2>9. CancelLocal(r, "complete", t, cancelled', ctxDone', finished', aborted')
    BY <1>3, <2>6, <2>7, <2>8 DEF CancelLocal, Before, Looping, Past
  <2>10. CancelLocal(r, pc'[r], results'[r], cancelled', ctxDone', finished', aborted')
    BY <2>1, <2>9 DEF t
  <2> QED
    BY <1>1, <1>2, <2>2, <2>10, Others
<1>6. CASE Complete(r) /\ ~(r \in finished \cup ctxDone /\ ~EndsCancelled(r))
  <2>1. /\ pc[r] = "closed" /\ pc'[r] = "complete" /\ results' = results
        /\ finished' = finished
    BY <1>1, <1>6 DEF Complete, RunTypeOK
  <2>2. Most(options[r]) \in Nat /\ Len(results[r]) \in Nat
    BY <1>1, MostNat
  <2>3. LocalInv(r, stopped', "complete", results[r], loop[r], redirects[r], options[r])
    <3>1. Len(results[r]) <= Most(options[r]) + 0
      BY <1>1, <2>1 DEF LocalInv, Past
    <3>2. Len(results[r]) <= Most(options[r]) + 1
      BY <2>2, <3>1
    <3>3. \A i \in 1..loop[r].total :
             Told(r, stopped', results[r], loop[r], redirects[r], options[r], i)
      BY <1>1, <1>3, <2>1 DEF LocalInv, Past
    <3> QED
      BY <3>2, <3>3 DEF LocalInv, Before, Looping, Past
  <2>4. LocalInv(r, stopped', pc'[r], results'[r], loop'[r], redirects'[r], options[r])
    BY <1>3, <2>1, <2>3
  <2>5. r \in finished \cup ctxDone => Ends(results[r])
    BY <1>6 DEF EndsCancelled, Ends
  <2>6. CancelLocal(r, pc'[r], results'[r], cancelled', ctxDone', finished', aborted')
    BY <1>1, <1>3, <2>1, <2>5 DEF CancelLocal, Before, Looping, Past
  <2> QED
    BY <1>1, <1>2, <2>4, <2>6, Others
<1>7. CASE Store(r)
  <2>1. /\ pc[r] = "complete" /\ pc'[r] = "stored" /\ results' = results
        /\ finished' = finished
    BY <1>1, <1>7 DEF Store, RunTypeOK
  <2>2. LocalInv(r, stopped', pc'[r], results'[r], loop'[r], redirects'[r], options[r])
    BY <1>1, <1>3, <2>1 DEF LocalInv, Before, Looping, Past
  <2>3. CancelLocal(r, pc'[r], results'[r], cancelled', ctxDone', finished', aborted')
    BY <1>1, <1>3, <2>1 DEF CancelLocal, Before, Looping, Past
  <2> QED
    BY <1>1, <1>2, <2>2, <2>3, Others
<1> QED
  BY <1>4, <1>5, <1>6, <1>7

(* A cancel marks a run, then cancels its context. *)
LEMMA MarkStep ==
    ASSUME RunIInv, UNCHANGED runVars \/ \E c \in Cancels :
              (\E k \in Collections : CancelMark(c, k)) \/ CancelCall(c)
    PROVE  RowsInv' /\ RunCancelInv'
PROOF
<1>1. /\ options' = options /\ pc' = pc /\ results' = results /\ loop' = loop
      /\ redirects' = redirects /\ finished' = finished /\ aborted' = aborted
      /\ stopped' = stopped
      /\ cancelled \subseteq cancelled' /\ ctxDone \subseteq ctxDone'
  BY DEF CancelMark, CancelCall, historyVars, runVars
<1>2. RowsInv'
  BY <1>1 DEF RowsInv, RunIInv
<1>3. ASSUME NEW r \in Runs
      PROVE  CancelLocal(r, pc[r], results[r], cancelled', ctxDone', finished,
      aborted)
  <2>1. CancelLocal(r, pc[r], results[r], cancelled, ctxDone, finished, aborted)
    BY DEF RunIInv, RunCancelInv
  <2> QED
    BY <1>1, <2>1, MoreCancelled
<1>4. RunCancelInv'
  BY <1>1, <1>3 DEF RunCancelInv
<1> QED
  BY <1>2, <1>4

-----------------------------------------------------------------------------
(* finishRun keeps the registry right. *)
LEMMA Leaves ==
    ASSUME RunTypeOK, RunRegistryInv, NoRun \notin Runs, NEW r \in Runs,
    FinishRun(r),
           cancelled' = cancelled, NEW x \in {"closed", "failed"},
           pc[r] \in Running, pc' = [pc EXCEPT ![r] = x], UNCHANGED
           cancelVars
    PROVE  /\ RunRegistryInv'
           /\ activeRun' \in [Collections -> Runs \cup {NoRun}] /\ finished' \subseteq Runs
PROOF
<1>1. /\ activeRun \in [Collections -> Runs \cup {NoRun}] /\ finished \subseteq Runs
      /\ pc \in [Runs -> Locations]
  BY DEF RunTypeOK
<1>2. activeRun' \in [Collections -> Runs \cup {NoRun}] /\ finished' \subseteq Runs
  BY <1>1 DEF FinishRun
<1>3. ASSUME NEW k \in Collections, activeRun'[k] # NoRun PROVE pc'[activeRun'[k]] \in Running
  <2>1. activeRun'[k] = activeRun[k] /\ activeRun[k] # r /\ activeRun[k] \in Runs
    BY <1>1, <1>3 DEF FinishRun
  <2>2. pc[activeRun[k]] \in Running
    BY <1>3, <2>1 DEF RunRegistryInv
  <2> QED
    BY <1>1, <2>1, <2>2
<1>4. finished' \subseteq cancelled' /\ (r \in cancelled' => r \in finished')
  BY DEF FinishRun, RunRegistryInv
<1>5. ASSUME NEW q \in Runs, pc'[q] \in {"closed", "complete", "stored"}, q \in cancelled'
      PROVE  q \in finished'
  <2>1. CASE q = r
    BY <1>4, <1>5, <2>1
  <2>2. CASE q # r
    <3>1. pc[q] \in {"closed", "complete", "stored"} /\ q \in cancelled
      BY <1>1, <1>5, <2>2
    <3>2. q \in finished
      BY <3>1 DEF RunRegistryInv
    <3> QED
      BY <3>2 DEF FinishRun
  <2> QED
    BY <2>1, <2>2
<1>6. \A c \in Cancels : cpc'[c] = "marked" => ctarget'[c] \in Runs
  BY DEF RunRegistryInv, cancelVars
<1> QED
  BY <1>2, <1>3, <1>4, <1>5, <1>6 DEF RunRegistryInv

(* A step that leaves the map and the marks alone. *)
LEMMA Stays ==
    ASSUME RunTypeOK, RunRegistryInv, NEW r \in Runs,
           activeRun' = activeRun, cancelled' = cancelled, finished' = finished,
           UNCHANGED cancelVars, NEW x, pc' = [pc EXCEPT ![r] = x],
           \/ pc[r] \in Running /\ x \in Running
           \/ pc[r] \in {"closed", "complete"} /\ x \in {"complete", "stored"}
    PROVE  RunRegistryInv'
PROOF
<1>1. pc \in [Runs -> Locations] /\ activeRun \in [Collections -> Runs \cup {NoRun}]
  BY DEF RunTypeOK
<1>2. \A q \in Runs : q # r => pc'[q] = pc[q]
  BY <1>1
<1>3. pc'[r] = x
  BY <1>1
<1>4. ASSUME NEW k \in Collections, activeRun'[k] # NoRun PROVE pc'[activeRun'[k]] \in Running
  <2>1. activeRun[k] \in Runs /\ pc[activeRun[k]] \in Running
    BY <1>1, <1>4 DEF RunRegistryInv
  <2>2. activeRun[k] = r => x \in Running
    BY <2>1 DEF Running
  <2> QED
    BY <1>2, <1>3, <2>1, <2>2
<1>5. ASSUME NEW q \in Runs, pc'[q] \in {"closed", "complete", "stored"}, q \in cancelled'
      PROVE  q \in finished'
  <2>1. pc[q] \in {"closed", "complete", "stored"}
    BY <1>2, <1>3, <1>5 DEF Running
  <2> QED
    BY <1>5, <2>1 DEF RunRegistryInv
<1>6. finished' \subseteq cancelled'
  BY DEF RunRegistryInv
<1>7. \A c \in Cancels : cpc'[c] = "marked" => ctarget'[c] \in Runs
  BY DEF RunRegistryInv, cancelVars
<1> QED
  BY <1>4, <1>5, <1>6, <1>7 DEF RunRegistryInv

(* Every step keeps the registry right. *)
LEMMA RunRegistryStep ==
    ASSUME Bounds, RunIInv, [RunNext]_(runVars)
    PROVE  RunRegistryInv'
PROOF
<1>0. RunTypeOK /\ RunRegistryInv /\ NoRun \notin Runs
  BY DEF RunIInv, Bounds
<1>1. pc \in [Runs -> Locations] /\ activeRun \in [Collections -> Runs \cup {NoRun}]
  BY <1>0 DEF RunTypeOK
<1>2. CASE UNCHANGED runVars
  BY <1>0, <1>2 DEF runVars, RunRegistryInv
<1>3. ASSUME NEW r \in Runs, Register(r) PROVE RunRegistryInv'
  <2>1. /\ pc[r] = "idle" /\ pc' = [pc EXCEPT ![r] = "registered"]
        /\ activeRun' = [activeRun EXCEPT ![options[r].collection] = r]
        /\ cancelled' = cancelled /\ finished' = finished /\ UNCHANGED cancelVars
    BY <1>3 DEF Register
  <2>2. pc'[r] = "registered" /\ \A q \in Runs : q # r => pc'[q] = pc[q]
    BY <1>1, <2>1
  <2>3. ASSUME NEW k \in Collections, activeRun'[k] # NoRun PROVE pc'[activeRun'[k]] \in Running
    <3>1. activeRun'[k] = r \/ activeRun'[k] = activeRun[k]
      BY <1>1, <2>1
    <3>2. CASE activeRun'[k] = r
      BY <2>2, <3>2 DEF Running
    <3>3. CASE activeRun'[k] = activeRun[k]
      <4>1. activeRun[k] \in Runs /\ pc[activeRun[k]] \in Running
        BY <1>0, <1>1, <2>3, <3>3 DEF RunRegistryInv
      <4>2. activeRun[k] # r
        BY <2>1, <4>1 DEF Running
      <4> QED
        BY <2>2, <3>3, <4>1, <4>2
    <3> QED
      BY <3>1, <3>2, <3>3
  <2>4. ASSUME NEW q \in Runs, pc'[q] \in {"closed", "complete", "stored"}, q \in cancelled'
        PROVE  q \in finished'
    <3>1. pc[q] \in {"closed", "complete", "stored"}
      BY <2>2, <2>4
    <3> QED
      BY <1>0, <2>1, <2>4, <3>1 DEF RunRegistryInv
  <2>5. finished' \subseteq cancelled'
    BY <1>0, <2>1 DEF RunRegistryInv
  <2>6. \A c \in Cancels : cpc'[c] = "marked" => ctarget'[c] \in Runs
    BY <1>0, <2>1 DEF RunRegistryInv, cancelVars
  <2> QED
    BY <2>3, <2>4, <2>5, <2>6 DEF RunRegistryInv
<1>4. ASSUME NEW r \in Runs,
             RefuseDataFile(r) \/ TooManyJumps(r) \/ Finish(r)
      PROVE  RunRegistryInv'
  <2>1. /\ FinishRun(r) /\ cancelled' = cancelled /\ pc[r] \in Running
        /\ UNCHANGED cancelVars
        /\ \E x \in {"closed", "failed"} : pc' = [pc EXCEPT ![r] = x]
    BY <1>4
       DEF RefuseDataFile, TooManyJumps, Redirect, Answer,
           Finish, Running
  <2> QED
    BY <1>0, <2>1, Leaves
<1>5. ASSUME NEW r \in Runs,
             \/ Supersede(r) \/ Plan(r) \/ Send(r) \/ TurnCancelled(r)
             \/ AnswerCancelled(r) \/ Bail(r) \/ GoOn(r) \/ StopExecution(r)
             \/ SetNextRequest(r) \/ Complete(r) \/ Store(r)
      PROVE  RunRegistryInv'
  <2>1. /\ activeRun' = activeRun /\ cancelled' = cancelled /\ finished' = finished
        /\ UNCHANGED cancelVars
    BY <1>5
       DEF Supersede, Plan, Send, TurnCancelled,
           AnswerCancelled, Bail, GoOn,
                StopExecution, SetNextRequest, Redirect,
                Answer, Complete, Store
  <2>2. \E x : /\ pc' = [pc EXCEPT ![r] = x]
               /\ \/ pc[r] \in Running /\ x \in Running
                  \/ pc[r] \in {"closed", "complete"} /\ x \in {"complete", "stored"}
    <3>1. CASE \/ Supersede(r) \/ Plan(r) \/ Send(r) \/ TurnCancelled(r)
               \/ AnswerCancelled(r) \/ Bail(r) \/ GoOn(r) \/ StopExecution(r)
               \/ SetNextRequest(r)
      BY <3>1
         DEF Supersede, Plan, Send, TurnCancelled,
             AtTurn, AnswerCancelled, Bail,
                  GoOn, StopExecution, SetNextRequest,
                  Redirect, Answer, Running
    <3>2. CASE Complete(r) \/ Store(r)
      BY <3>2 DEF Complete, Store
    <3> QED
      BY <1>5, <3>1, <3>2
  <2> QED
    BY <1>0, <2>1, <2>2, Stays
<1>6. ASSUME NEW r \in Runs, Skip(r) PROVE RunRegistryInv'
  BY <1>0, <1>6 DEF Skip, RunRegistryInv, cancelVars
<1>7. ASSUME NEW r \in Runs, EndIteration(r) PROVE RunRegistryInv'
  <2>1. /\ activeRun' = activeRun /\ cancelled' = cancelled /\ finished' = finished
        /\ UNCHANGED cancelVars
    BY <1>7 DEF EndIteration
  <2>2. CASE UNCHANGED pc
    BY <1>0, <2>1, <2>2 DEF RunRegistryInv, cancelVars
  <2>3. CASE pc' = [pc EXCEPT ![r] = "ending"]
    <3>1. pc[r] \in Running /\ "ending" \in Running
      BY <1>7 DEF EndIteration, Running
    <3> QED
      BY <1>0, <2>1, <2>3, <3>1, Stays
  <2> QED
    BY <1>7, <2>2, <2>3 DEF EndIteration
<1>8. ASSUME NEW c \in Cancels, NEW k \in Collections, CancelMark(c, k)
      PROVE  RunRegistryInv'
  <2>1. /\ activeRun' = activeRun /\ pc' = pc /\ finished' = finished
        /\ cancelled' = cancelled \cup {activeRun[k]} /\ activeRun[k] # NoRun
    BY <1>8 DEF CancelMark
  <2>2. pc[activeRun[k]] \in Running
    BY <1>0, <2>1 DEF RunRegistryInv
  <2>3. pc[activeRun[k]] \notin {"closed", "complete", "stored"}
    BY <2>2 DEF Running
  <2>4. \A q \in Runs : pc[q] \in {"closed", "complete", "stored"} /\ q \in cancelled'
            => q \in finished
    BY <1>0, <2>1, <2>3 DEF RunRegistryInv
  <2>5. activeRun[k] \in Runs
    BY <1>1, <2>1
  <2>6. \A d \in Cancels : cpc'[d] = "marked" => ctarget'[d] \in Runs
    BY <1>0, <1>8, <2>5 DEF CancelMark, RunRegistryInv, RunTypeOK
  <2> QED
    BY <1>0, <2>1, <2>4, <2>6 DEF RunRegistryInv
<1>9. ASSUME NEW c \in Cancels, CancelCall(c) PROVE RunRegistryInv'
  <2>1. \A d \in Cancels : cpc'[d] = "marked" => ctarget'[d] \in Runs
    BY <1>0, <1>9 DEF CancelCall, RunRegistryInv, RunTypeOK
  <2> QED
    BY <1>0, <1>9, <2>1 DEF CancelCall, RunRegistryInv
<1> QED
  BY <1>2, <1>3, <1>4, <1>5, <1>6, <1>7, <1>8, <1>9
     DEF RunNext, RunStep, Turn

(* The loop variables of one run are set. *)
LEMMA LoopSet ==
    ASSUME NEW f \in [Runs -> LoopType], NEW r \in Runs, NEW k \in LoopType
    PROVE  [f EXCEPT ![r] = k] \in [Runs -> LoopType]
PROOF
  OBVIOUS

(* The loop variables are set one by one. *)
LEMMA LoopField ==
    ASSUME NEW l \in LoopType, NEW n \in Nat
    PROVE  /\ [l EXCEPT !.iteration = n] \in LoopType
           /\ [l EXCEPT !.index = n] \in LoopType
           /\ [l EXCEPT !.jumps = n] \in LoopType
           /\ [l EXCEPT !.completed = n] \in LoopType
PROOF
  BY DEF LoopType

(* Every step keeps the types. *)
LEMMA RunTypeStep ==
    ASSUME Bounds, RunIInv, [RunNext]_(runVars)
    PROVE  RunTypeOK'
PROOF
<1>0. RunTypeOK
  BY DEF RunIInv
<1>1. CASE UNCHANGED runVars
  BY <1>0, <1>1 DEF RunTypeOK, runVars
<1>2. ASSUME NEW r \in Runs, Register(r) \/ Supersede(r) PROVE RunTypeOK'
  <2>1. CASE Register(r)
    <3>1. options[r].collection \in Collections
      BY <1>0 DEF RunTypeOK, OptionsType
    <3>2. /\ pc' \in [Runs -> Locations] /\ activeRun' \in [Collections -> Runs \cup {NoRun}]
          /\ prev' \in [Runs -> Runs \cup {NoRun}]
      BY <1>0, <2>1, <3>1
         DEF Register, RunTypeOK, Locations, Running
    <3> QED
      BY <1>0, <2>1, <3>2
         DEF Register, RunTypeOK, cancelVars, historyVars
  <2>2. CASE Supersede(r)
    <3>1. pc' \in [Runs -> Locations] /\ ctxDone' \subseteq Runs
      BY <1>0, <2>2
         DEF Supersede, RunTypeOK, Locations, Running
    <3> QED
      BY <1>0, <2>2, <3>1
         DEF Supersede, RunTypeOK, cancelVars, historyVars
  <2> QED
    BY <1>2, <2>1, <2>2
<1>3. ASSUME NEW r \in Runs, RefuseDataFile(r) \/ Finish(r) PROVE RunTypeOK'
  <2>1. /\ pc' \in [Runs -> Locations] /\ activeRun' \in [Collections -> Runs \cup {NoRun}]
        /\ finished' \subseteq Runs
    BY <1>0, <1>3
       DEF RefuseDataFile, Finish, FinishRun, RunTypeOK,
           Locations, Running
  <2> QED
    BY <1>0, <1>3, <2>1
       DEF RefuseDataFile, Finish, RunTypeOK, cancelVars,
           historyVars
<1>4. ASSUME NEW r \in Runs, Plan(r) PROVE RunTypeOK'
  <2>1. IterationPlan(options[r].rows, options[r].requested) \in Nat
    BY <1>0
       DEF RunTypeOK, OptionsType, Bounds, IterationPlan,
           NormalizeIterations, Least
  <2>2. loop' \in [Runs -> LoopType] /\ pc' \in [Runs -> Locations]
    BY <1>0, <1>4, <2>1
       DEF Plan, RunTypeOK, LoopType, Locations,
           Running
  <2> QED
    BY <1>0, <1>4, <2>2
       DEF Plan, RunTypeOK, cancelVars, historyVars
<1>5. ASSUME NEW r \in Runs, NEW x \in Statuses, pc[r] \in {"turn", "sending"}
      PROVE  [results EXCEPT ![r] = Recorded(r, x)] \in [Runs ->
      Seq(RowType)]
  <2>1. results \in [Runs -> Seq(RowType)] /\ loop[r].index \in Nat
    BY <1>0, <1>5, InLoop DEF RunTypeOK
  <2>2. Row(r, loop[r].index, x) \in RowType
    BY <1>5, <2>1, RowIs
  <2>3. Recorded(r, x) \in Seq(RowType)
    BY <2>1, <2>2 DEF Recorded
  <2> QED
    BY <2>1, <2>3
<1>6. ASSUME NEW r \in Runs, TurnCancelled(r) \/ AnswerCancelled(r) PROVE RunTypeOK'
  <2>1. /\ pc[r] \in {"turn", "sending"} /\ "cancelled" \in Statuses
        /\ results' = [results EXCEPT ![r] = Recorded(r, "cancelled")]
    BY <1>6
       DEF TurnCancelled, AtTurn, AnswerCancelled,
           Statuses
  <2>2. results' \in [Runs -> Seq(RowType)]
    BY <1>5, <2>1
  <2>3. pc' \in [Runs -> Locations] /\ aborted' \subseteq Runs
    BY <1>0, <1>6
       DEF TurnCancelled, AnswerCancelled, RunTypeOK,
           Locations, Running, historyVars
  <2> QED
    BY <1>0, <1>6, <2>2, <2>3
       DEF TurnCancelled, AnswerCancelled, RunTypeOK,
           cancelVars, historyVars
<1>7. ASSUME NEW r \in Runs, Skip(r) PROVE RunTypeOK'
  <2>1. /\ pc[r] = "turn" /\ "done" \in Statuses
        /\ results' = [results EXCEPT ![r] = Recorded(r, "done")]
    BY <1>7 DEF Skip, AtTurn, Statuses
  <2>2. results' \in [Runs -> Seq(RowType)]
    BY <1>5, <2>1
  <2>3. loop' \in [Runs -> LoopType]
    <3>1. loop \in [Runs -> LoopType]
      BY <1>0 DEF RunTypeOK
    <3>2. [loop[r] EXCEPT !.index = @ + 1] \in LoopType
      BY <3>1 DEF LoopType
    <3>3. loop' = [loop EXCEPT ![r] = [loop[r] EXCEPT !.index = @ + 1]]
      BY <1>7, <3>1 DEF Skip
    <3> QED
      BY <3>1, <3>2, <3>3, LoopSet
  <2> QED
    BY <1>0, <1>7, <2>2, <2>3
       DEF Skip, RunTypeOK, cancelVars, historyVars
<1>8. ASSUME NEW r \in Runs, Send(r) PROVE RunTypeOK'
  <2>1. pc' \in [Runs -> Locations]
    BY <1>0, <1>8 DEF Send, RunTypeOK, Locations, Running
  <2> QED
    BY <1>0, <1>8, <2>1
       DEF Send, RunTypeOK, cancelVars, historyVars
<1>9. ASSUME NEW r \in Runs, Bail(r) PROVE RunTypeOK'
  <2>1. pc[r] = "sending" /\ "failed" \in Statuses
    BY <1>9 DEF Bail, Statuses
  <2>2. Recorded(r, "failed") \in Seq(RowType)
    <3>1. results[r] \in Seq(RowType) /\ loop[r].index \in Nat
      BY <1>0, <2>1, InLoop DEF RunTypeOK
    <3>2. Row(r, loop[r].index, "failed") \in RowType
      BY <2>1, <3>1, RowIs
    <3> QED
      BY <3>1, <3>2 DEF Recorded
  <2>3. Unrun(r) \in Seq(RowType)
    BY <1>9, BailStep
  <2>4. Recorded(r, "failed") \o Unrun(r) \in Seq(RowType)
    BY <2>2, <2>3, Joined
  <2>5. results' \in [Runs -> Seq(RowType)]
    BY <1>0, <1>9, <2>4 DEF Bail, RunTypeOK
  <2>6. pc' \in [Runs -> Locations]
    BY <1>0, <1>9 DEF Bail, RunTypeOK, Locations, Running
  <2> QED
    BY <1>0, <1>9, <2>5, <2>6
       DEF Bail, RunTypeOK, cancelVars, historyVars
<1>10. ASSUME NEW r \in Runs,
              GoOn(r) \/ StopExecution(r) \/ SetNextRequest(r) \/ TooManyJumps(r)
       PROVE  RunTypeOK'
  <2>1. /\ pc[r] = "sending" /\ Answer(r) /\ "done" \in Statuses
        /\ results' = [results EXCEPT ![r] = Recorded(r, "done")]
    BY <1>10
       DEF GoOn, StopExecution, SetNextRequest,
           TooManyJumps, Redirect, Answer, Statuses
  <2>2. results' \in [Runs -> Seq(RowType)]
    BY <1>5, <2>1
  <2>3. pc' \in [Runs -> Locations]
    BY <1>0, <1>10
       DEF GoOn, StopExecution, SetNextRequest,
           TooManyJumps, RunTypeOK,
                       Locations, Running
  <2>4. CASE GoOn(r)
    <3>1. loop' \in [Runs -> LoopType]
      <4>1. loop \in [Runs -> LoopType]
        BY <1>0 DEF RunTypeOK
      <4>2. [loop[r] EXCEPT !.index = @ + 1] \in LoopType
        BY <4>1 DEF LoopType
      <4>3. loop' = [loop EXCEPT ![r] = [loop[r] EXCEPT !.index = @ + 1]]
        BY <2>4, <4>1 DEF GoOn
      <4> QED
        BY <4>1, <4>2, <4>3, LoopSet
    <3> QED
      BY <1>0, <2>1, <2>2, <2>3, <2>4, <3>1
         DEF GoOn, Answer, RunTypeOK, cancelVars
  <2>5. CASE StopExecution(r)
    <3>1. stopped' \subseteq Runs
      BY <1>0, <2>5 DEF StopExecution, RunTypeOK
    <3> QED
      BY <1>0, <2>1, <2>2, <2>3, <2>5, <3>1
         DEF StopExecution, Answer, RunTypeOK, cancelVars
  <2>6. CASE SetNextRequest(r) \/ TooManyJumps(r)
    <3>1. redirects' = [redirects EXCEPT ![r][loop[r].iteration] = @ + 1]
      BY <2>6 DEF SetNextRequest, TooManyJumps, Redirect
    <3>2. redirects' \in [Runs -> [Iterations -> Nat]]
      <4>1. redirects \in [Runs -> [Iterations -> Nat]] /\ loop[r].iteration \in Iterations
        BY <1>0, <2>1, InLoop DEF RunTypeOK
      <4>2. [redirects[r] EXCEPT ![loop[r].iteration] = @ + 1] \in [Iterations -> Nat]
        BY <4>1
      <4>3. redirects' = [redirects EXCEPT ![r] =
                            [redirects[r] EXCEPT ![loop[r].iteration] = @ + 1]]
        BY <3>1, <4>1
      <4> QED
        BY <4>1, <4>2, <4>3
    <3>3. CASE SetNextRequest(r)
      <4>1. PICK next \in 1..(Items(r) + 1) \cup {loop[r].index + 1} :
               loop' = [loop EXCEPT ![r].index = next, ![r].jumps = @ + 1]
        BY <3>3 DEF SetNextRequest
      <4>2. next \in Nat
        <5>1. Items(r) \in Nat
          BY <1>0 DEF RunTypeOK, Items, OptionsType
        <5>2. loop[r].index \in Nat
          BY <2>1, InLoop
        <5> QED
          BY <4>1, <5>1, <5>2
      <4>3. loop' \in [Runs -> LoopType]
        <5>1. loop \in [Runs -> LoopType]
          BY <1>0 DEF RunTypeOK
        <5>2. [loop[r] EXCEPT !.index = next, !.jumps = @ + 1] \in LoopType
          <6>1. loop[r] \in LoopType /\ loop[r].jumps + 1 \in Nat
            BY <5>1 DEF LoopType
          <6>2. [loop[r] EXCEPT !.index = next] \in LoopType
            BY <4>2, <6>1, LoopField
          <6> QED
            BY <6>1, <6>2, LoopField
        <5>3. loop' = [loop EXCEPT ![r] = [loop[r] EXCEPT !.index = next, !.jumps = @ + 1]]
          BY <4>1, <5>1 DEF LoopType
        <5> QED
          BY <5>1, <5>2, <5>3, LoopSet
      <4> QED
        BY <1>0, <2>1, <2>2, <2>3, <3>2, <3>3, <4>3
           DEF SetNextRequest, Redirect, Answer, RunTypeOK,
               cancelVars
    <3>4. CASE TooManyJumps(r)
      <4>1. activeRun' \in [Collections -> Runs \cup {NoRun}] /\ finished' \subseteq Runs
        BY <1>0, <3>4 DEF TooManyJumps, FinishRun, RunTypeOK
      <4> QED
        BY <1>0, <2>1, <2>2, <2>3, <3>2, <3>4, <4>1
           DEF TooManyJumps, Redirect, Answer, RunTypeOK,
               cancelVars
    <3> QED
      BY <2>6, <3>3, <3>4
  <2> QED
    BY <1>10, <2>4, <2>5, <2>6
<1>11. ASSUME NEW r \in Runs, EndIteration(r) PROVE RunTypeOK'
  <2>1. loop' \in [Runs -> LoopType]
    <3>1. loop \in [Runs -> LoopType]
      BY <1>0 DEF RunTypeOK
    <3>2. /\ NextIteration(r) \in LoopType
          /\ [loop[r] EXCEPT !.completed = loop[r].iteration] \in LoopType
      <4> DEFINE a == [loop[r] EXCEPT !.completed = @ + 1]
      <4> DEFINE b == [a EXCEPT !.iteration = loop[r].iteration + 1]
      <4> DEFINE c == [b EXCEPT !.index = 1]
      <4> DEFINE d == [c EXCEPT !.jumps = 0]
      <4>1. /\ loop[r] \in LoopType /\ loop[r].iteration \in Nat
            /\ loop[r].completed + 1 \in Nat /\ loop[r].iteration + 1 \in Nat
            /\ 1 \in Nat /\ 0 \in Nat
        BY <3>1 DEF LoopType
      <4>2. a \in LoopType /\ [loop[r] EXCEPT !.completed = loop[r].iteration] \in LoopType
        BY <4>1, LoopField
      <4>3. NextIteration(r) = d
        BY <4>1 DEF NextIteration, LoopType
      <4> HIDE DEF a
      <4>4. b \in LoopType
        BY <4>1, <4>2, LoopField
      <4> HIDE DEF b
      <4>5. c \in LoopType
        BY <4>1, <4>4, LoopField
      <4> HIDE DEF c
      <4>6. d \in LoopType
        BY <4>1, <4>5, LoopField
      <4> QED
        BY <4>2, <4>3, <4>6
    <3>3. \/ loop' = [loop EXCEPT ![r] = NextIteration(r)]
          \/ loop' = [loop EXCEPT ![r] = [loop[r] EXCEPT !.completed = loop[r].iteration]]
      BY <1>11, <3>1 DEF EndIteration
    <3> QED
      BY <3>1, <3>2, <3>3, LoopSet
  <2>2. pc' \in [Runs -> Locations]
    BY <1>0, <1>11
       DEF EndIteration, RunTypeOK, Locations, Running
  <2> QED
    BY <1>0, <1>11, <2>1, <2>2
       DEF EndIteration, RunTypeOK, cancelVars, historyVars
<1>12. ASSUME NEW r \in Runs, Complete(r) PROVE RunTypeOK'
  <2>1. CancelRow \in RowType
    BY DEF CancelRow, RowType, Statuses
  <2>2. results' \in [Runs -> Seq(RowType)] /\ pc' \in [Runs -> Locations]
    BY <1>0, <1>12, <2>1
       DEF Complete, RunTypeOK, Locations, Running
  <2> QED
    BY <1>0, <1>12, <2>2
       DEF Complete, RunTypeOK, cancelVars, historyVars
<1>13. ASSUME NEW r \in Runs, Store(r) PROVE RunTypeOK'
  <2>1. pc' \in [Runs -> Locations] /\ runner' \in Runs \cup {NoRun}
    BY <1>0, <1>13 DEF Store, RunTypeOK, Locations, Running
  <2> QED
    BY <1>0, <1>13, <2>1
       DEF Store, RunTypeOK, cancelVars, historyVars
<1>14. ASSUME NEW c \in Cancels, NEW k \in Collections, CancelMark(c, k) PROVE RunTypeOK'
  <2>1. activeRun[k] \in Runs
    BY <1>0, <1>14 DEF CancelMark, RunTypeOK
  <2>2. /\ cancelled' \subseteq Runs /\ ctarget' \in [Cancels -> Runs \cup {NoRun}]
        /\ cpc' \in [Cancels -> {"idle", "marked", "returned"}]
    BY <1>0, <1>14, <2>1 DEF CancelMark, RunTypeOK
  <2> QED
    BY <1>0, <1>14, <2>2 DEF CancelMark, RunTypeOK, historyVars
<1>15. ASSUME NEW c \in Cancels, CancelCall(c) PROVE RunTypeOK'
  <2>1. /\ ctxDone' \subseteq Runs
        /\ cpc' \in [Cancels -> {"idle", "marked", "returned"}]
    BY <1>0, <1>15 DEF CancelCall, RunTypeOK, RunIInv, RunRegistryInv
  <2> QED
    BY <1>0, <1>15, <2>1 DEF CancelCall, RunTypeOK, historyVars
<1> QED
  BY <1>1, <1>2, <1>3, <1>4, <1>6, <1>7, <1>8, <1>9, <1>10, <1>11, <1>12, <1>13,
     <1>14, <1>15 DEF RunNext, RunStep, Turn

-----------------------------------------------------------------------------
(* The inductive invariant of the runner holds initially. *)
LEMMA RunInitially ==
    ASSUME Bounds, RunInit
    PROVE  RunIInv
PROOF
<1>1. RunTypeOK
  <2>1. \A r \in Runs : options[r] \in Asked[r] /\ options[r] \in OptionsType
    BY DEF RunInit, Bounds
  <2>2. \E S : options \in [Runs -> S]
    BY DEF RunInit
  <2>3. options \in [Runs -> OptionsType]
    BY <2>1, <2>2
  <2>4. [total |-> 0, iteration |-> 1, index |-> 1, jumps |-> 0, completed |-> 0] \in LoopType
    BY DEF LoopType
  <2>5. loop \in [Runs -> LoopType]
    BY <2>4 DEF RunInit
  <2>6. results \in [Runs -> Seq(RowType)]
    BY DEF RunInit
  <2>7. redirects \in [Runs -> [Iterations -> Nat]]
    BY DEF RunInit
  <2>8. pc \in [Runs -> Locations]
    BY DEF RunInit, Locations
  <2> QED
    BY <2>1, <2>3, <2>5, <2>6, <2>7, <2>8 DEF RunInit, RunTypeOK
<1>2. RunRegistryInv
  BY DEF RunInit, RunRegistryInv
<1>3. RunCancelInv
  BY DEF RunInit, RunCancelInv, CancelLocal, Before, Looping, Past
<1>4. RowsInv
  <2> SUFFICES ASSUME NEW r \in Runs
               PROVE  LocalInv(r, stopped, pc[r], results[r], loop[r],
               redirects[r], options[r])
    BY DEF RowsInv
  <2>1. pc[r] = "idle" /\ Fresh(results[r], loop[r], redirects[r])
    BY DEF RunInit, Fresh
  <2> QED
    BY <2>1 DEF LocalInv, Before, Looping, Past
<1> QED
  BY <1>1, <1>2, <1>3, <1>4 DEF RunIInv

(* Every step of the runner keeps its invariant. *)
LEMMA RunKeeps ==
    ASSUME Bounds, RunIInv, [RunNext]_(runVars)
    PROVE  RunIInv'
PROOF
<1>1. RunTypeOK' /\ RunRegistryInv'
  BY RunTypeStep, RunRegistryStep
<1>2. RowsInv' /\ RunCancelInv'
  <2>1. CASE UNCHANGED runVars
    BY <2>1, MarkStep
  <2>2. ASSUME NEW c \in Cancels, (\E k \in Collections : CancelMark(c, k)) \/ CancelCall(c)
        PROVE  RowsInv' /\ RunCancelInv'
    BY <2>2, MarkStep
  <2>3. ASSUME NEW r \in Runs, Register(r) \/ RunStep(r)
        PROVE  RowsInv' /\ RunCancelInv'
    <3>1. CASE Register(r) \/ Supersede(r) \/ RefuseDataFile(r) \/ Plan(r)
      BY <3>1, EarlyStep
    <3>2. CASE TurnCancelled(r) \/ AnswerCancelled(r)
      BY <3>2, CancelledStep
    <3>3. CASE Skip(r) \/ GoOn(r) \/ StopExecution(r) \/ SetNextRequest(r) \/ TooManyJumps(r)
      BY <3>3, DoneStep
    <3>4. CASE Bail(r)
      BY <3>4, BailStep
    <3>5. CASE Send(r) \/ EndIteration(r)
      BY <3>5, TurnStep
    <3>6. CASE Finish(r) \/ Complete(r) \/ Store(r)
      BY <3>6, LastSteps
    <3> QED
      BY <2>3, <3>1, <3>2, <3>3, <3>4, <3>5, <3>6 DEF RunStep, Turn
  <2> QED
    BY <2>1, <2>2, <2>3 DEF RunNext
<1> QED
  BY <1>1, <1>2 DEF RunIInv

(* The invariant says that a cancel is shown. *)
LEMMA SaysCancelled ==
    ASSUME RunIInv
    PROVE  CancelIsShown
PROOF
<1> SUFFICES ASSUME NEW r \in Runs, Stored(r)
             PROVE  /\ r \in cancelled \cup aborted => Ends(results[r])
                    /\ Ends(results[r]) => r \in cancelled \cup aborted \cup ctxDone
                    /\ \A n \in 1..(Len(results[r]) - 1) : results[r][n].status # "cancelled"
  BY DEF CancelIsShown, EndsCancelled, Ends
<1>1. CancelLocal(r, "stored", results[r], cancelled, ctxDone, finished, aborted)
  BY OfRun DEF Stored
<1>2. r \in cancelled => r \in finished
  BY DEF Stored, RunIInv, RunRegistryInv
<1> QED
  BY <1>1, <1>2 DEF CancelLocal, Past

(* The invariant says that each request has its turn. *)
LEMMA SaysTurns ==
    ASSUME Bounds, RunIInv
    PROVE  EachItsTurn
PROOF
<1> SUFFICES ASSUME NEW r \in Runs
             PROVE  /\ Stored(r) => \A i \in 1..loop[r].total : TellsTheRun(r, i)
                    /\ Len(results[r]) <= Most(options[r]) + 1
                    /\ pc[r] = "failed" /\ results[r] # <<>> =>
                         redirects[r][loop[r].iteration] > MaxJumps
  BY DEF EachItsTurn, Most, Items
<1>1. /\ results[r] \in Seq(RowType) /\ loop[r] \in LoopType /\ options[r] \in OptionsType
      /\ pc[r] \in Locations
      /\ LocalInv(r, stopped, pc[r], results[r], loop[r], redirects[r], options[r])
  BY OfRun
<1>2. Len(results[r]) \in Nat /\ Most(options[r]) \in Nat
  BY <1>1, MostNat
<1>3. ASSUME Stored(r), NEW i \in 1..loop[r].total PROVE TellsTheRun(r, i)
  <2>1. Told(r, stopped, results[r], loop[r], redirects[r], options[r], i)
    BY <1>1, <1>3 DEF Stored, LocalInv, Past
  <2>2. RowsOf(r, i) = RowsIn(results[r], StampOf(loop[r], i))
    BY DEF RowsOf, RowsIn, Stamp, StampOf
  <2>3. EndsCancelled(r) <=> Ends(results[r])
    BY DEF EndsCancelled, Ends
  <2>4. Items(r) = options[r].items
    BY DEF Items
  <2> DEFINE k == StampOf(loop[r], i)
  <2>5. /\ options[r].rows > 0 => i <= options[r].rows
        /\ i <= loop[r].completed =>
              \A n \in RowsIn(results[r], k) :
                 results[r][n].status # "cancelled" /\ results[r][n].status # "unrun"
        /\ ~(i <= loop[r].completed + 1) => RowsIn(results[r], k) = {}
        /\ options[r].bail =>
             \A n \in RowsIn(results[r], k) :
                results[r][n].status = "unrun" <=>
                   \E m \in RowsIn(results[r], k) : m < n /\ results[r][m].status = "failed"
    BY <2>1 DEF Told
  <2>6. ASSUME i <= loop[r].completed + 1, redirects[r][i] = 0
        PROVE  /\ \A m, n \in RowsIn(results[r], k) :
                     m < n => results[r][m].item < results[r][n].item
               /\ \E last \in 0..options[r].items :
                    /\ {results[r][n].item : n \in RowsIn(results[r], k)} = 1..last
                    /\ last < options[r].items =>
                         ~(i <= loop[r].completed) /\ (Ends(results[r]) \/ r \in stopped)
    <3>1. PICK last \in 0..options[r].items :
             /\ InTurn(results[r], k, last)
             /\ last < options[r].items =>
                  ~(i <= loop[r].completed) /\ (Ends(results[r]) \/ r \in stopped)
      BY <2>1, <2>6 DEF Told
    <3> QED
      BY <3>1 DEF InTurn
  <2> HIDE DEF k
  <2>7. RowsOf(r, i) = RowsIn(results[r], k)
    BY <2>2 DEF k
  <2> QED
    BY <2>3, <2>4, <2>5, <2>6, <2>7 DEF TellsTheRun
<1>4. Len(results[r]) <= Most(options[r]) + 1
  <2>1. CASE pc[r] \in Before
    <3>1. results[r] = <<>>
      BY <1>1, <2>1 DEF LocalInv, Fresh
    <3> QED
      BY <1>2, <3>1
  <2>2. CASE pc[r] \in Looping
    <3>1. LoopInv(pc[r], results[r], loop[r], redirects[r], options[r])
      BY <1>1, <2>2 DEF LocalInv
    <3>2. 0 \in Nat /\ 0 <= options[r].items - (loop[r].index - 1)
      <4>1. /\ loop[r].index \in Nat /\ options[r].items \in Nat
            /\ loop[r].index \in 1..(options[r].items + 1)
        BY <1>1, <3>1, Rooms
      <4> QED
        BY <4>1
    <3>3. Len(results[r]) + 0 <= Most(options[r])
      BY <1>1, <3>1, <3>2, Fits
    <3> QED
      BY <1>2, <3>3
  <2>3. CASE pc[r] \in Past
    <3>1. Len(results[r]) <= Most(options[r]) + IF pc[r] \in {"complete", "stored"} THEN 1 ELSE 0
      BY <1>1, <2>3 DEF LocalInv
    <3> QED
      BY <1>2, <3>1
  <2>4. CASE pc[r] = "failed"
    <3>1. Len(results[r]) <= Most(options[r])
      BY <1>1, <2>4 DEF LocalInv
    <3> QED
      BY <1>2, <3>1
  <2> QED
    BY <1>1, <2>1, <2>2, <2>3, <2>4
       DEF Locations, Running, Before, Looping, Past
<1>5. pc[r] = "failed" /\ results[r] # <<>> => redirects[r][loop[r].iteration] > MaxJumps
  BY <1>1 DEF LocalInv
<1> QED
  BY <1>3, <1>4, <1>5

(* The states of the runner have their types, whatever the collections,    *)
(* the options and the limits.                                             *)
THEOREM RunTypesOK == RunSpec => []RunTypeOK
PROOF
<1>1. RunIInv => RunTypeOK
  BY DEF RunIInv
<1> QED
  BY <1>1, RunAssumption, RunInitially, RunKeeps, PTL DEF RunSpec

(* A collection run that was cancelled shows it, and only such a one does  *)
(* (RunCollectionWithOptions, cancelCollectionRun): the stored rows end    *)
(* with a cancelled one if and only if there was a cause, and no other row *)
(* is cancelled, whatever the runs and the cancels that overlap.           *)
THEOREM CancelShows == RunSpec => []CancelIsShown
PROOF
  BY RunAssumption, RunInitially, RunKeeps, SaysCancelled, PTL DEF RunSpec

(* The rows stored of a run tell what it did (app_runner.go): each request *)
(* of each iteration had its turn once and in order unless a script        *)
(* redirected, stopped or cancelled the iteration; after a failure that    *)
(* ends the run the rest of its iteration, and nothing else, is unrun; and *)
(* the rows are bounded by the redirections allowed.                       *)
THEOREM EachHasItsTurn == RunSpec => []EachItsTurn
PROOF
  BY RunAssumption, RunInitially, RunKeeps, SaysTurns, PTL DEF RunSpec
=============================================================================
