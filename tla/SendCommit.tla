------------------------------ MODULE SendCommit ------------------------------
(***************************************************************************)
(* What a send takes from the state and what it leaves behind: the script  *)
(* variables and the cookies (app_send.go, scripting/variables.go).        *)
(*                                                                         *)
(* The head of a send copies both under the lock, the scripts and the      *)
(* response change the copies without it, and the tail takes the lock      *)
(* again. A send of the user writes the copies into the state. A send of   *)
(* an agent writes nothing: its changes go to the overlay of the execution *)
(* it is a step of, which the next step lays over what it reads.           *)
(* Meanwhile the user edits variables, environments and cookies.           *)
(*                                                                         *)
(* The list "collection" stands for the three lists of a collection that a *)
(* tail writes in the same way: its variables, its runtime variables and   *)
(* the selected environment. Disabled variables, the precedence of scopes, *)
(* the order of environments (the first of some is any of them), and the   *)
(* domains and expiry of cookies are left out.                             *)
(***************************************************************************)
EXTENDS Naturals

CONSTANTS
    Users,     \* senders of the user
    Agents,    \* senders of agents: one execution each, its steps in turn
    Names,     \* of variables
    Cookies,   \* keys of cookies
    Values,    \* of either
    Globals,   \* ids of global environments
    None,      \* no value; no environment
    Unsaid,    \* history: not written by this execution
    UserSends, \* bound: sends of each of the user's senders
    AgentSends, \* bound: sends of each agent
    MaxSteps,  \* bound: changes a send makes
    MaxEdits   \* bound: edits of the user

ASSUME SendCommitAssumption ==
    /\ Users \cap Agents = {}
    /\ None \notin Values \cup Globals \cup {Unsaid}
    /\ Unsaid \notin Values

ASSUME BoundAssumption ==
    UserSends \in Nat /\ AgentSends \in Nat /\ MaxSteps \in Nat /\ MaxEdits \in Nat

VARIABLES
    defs,     \* the variables of the collection
    globals,  \* the ids of the workspace's global environments
    gvars,    \* their variables
    active,   \* the active one, or None
    jar,      \* a.state.Cookies
    send,     \* the send of each sender
    overlay,  \* what each agent's execution holds instead of the state
    said,     \* history: what the finished steps of an execution wrote last
    edits     \* edits of the user so far

state == <<defs, globals, gvars, active, jar>>
vars == <<state, send, overlay, said, edits>>

Senders == Users \cup Agents
Scopes == {"collection", "global"}
Variables == [Names -> Values \cup {None}]
Jars == [Cookies -> Values \cup {None}]
Written == [Scopes -> [Names -> Values \cup {None, Unsaid}]]

NoVariables == [n \in Names |-> None]
NothingWritten == [s \in Scopes |-> [n \in Names |-> Unsaid]]

(* before carried over by after, where after says something other than no. *)
Over(before, after, no) ==
    [x \in DOMAIN before |-> IF after[x] = no THEN before[x] ELSE after[x]]

Idle(sends) ==
    [on |-> FALSE, vars |-> [s \in Scopes |-> NoVariables], dirty |-> {},
     wrote |-> NothingWritten, seed |-> [c \in Cookies |-> None],
     jar |-> [c \in Cookies |-> None], stores |-> FALSE,
     sends |-> sends, steps |-> 0]

NoOverlay ==
    [vars |-> [s \in Scopes |-> NoVariables], recorded |-> FALSE,
     jar |-> [c \in Cookies |-> None]]

TypeOK ==
    /\ defs \in Variables
    /\ globals \subseteq Globals
    /\ gvars \in [Globals -> Variables]
    /\ active \in globals \cup {None}
    /\ jar \in Jars
    /\ send \in [Senders ->
         [on : BOOLEAN, vars : [Scopes -> Variables], dirty : SUBSET Scopes,
          wrote : Written, seed : Jars, jar : Jars, stores : BOOLEAN,
          sends : Nat, steps : 0..MaxSteps]]
    /\ overlay \in [Agents ->
         [vars : [Scopes -> Variables], recorded : BOOLEAN, jar : Jars]]
    /\ said \in [Agents -> Written]
    /\ edits \in 0..MaxEdits

Init ==
    /\ defs \in Variables
    /\ globals \in {{}} \cup {{g} : g \in Globals}
    /\ gvars = [g \in Globals |-> NoVariables]
    /\ active \in globals \cup {None}
    /\ jar \in Jars
    /\ send = [s \in Senders |-> Idle(0)]
    /\ overlay = [a \in Agents |-> NoOverlay]
    /\ said = [a \in Agents |-> NothingWritten]
    /\ edits = 0

-------------------------------------------------------------------------------
(* The head: NewScriptVariableContext, and the overlay over it.            *)

Defined ==
    [s \in Scopes |->
        IF s = "collection" THEN defs
        ELSE IF active \in globals THEN gvars[active]
        ELSE NoVariables]

(* ApplyRunOverlayToContext: the overlay's names over the definitions.     *)
Context(a) ==
    [s \in Scopes |-> Over(Defined[s], overlay[a].vars[s], None)]

(* Its scopes that hold anything count as changed by the step.             *)
OverlayDirty(a) == {s \in Scopes : overlay[a].vars[s] # NoVariables}

(* mcpSendCookieSeed *)
CookieSeed(s) ==
    IF s \in Agents /\ overlay[s].recorded THEN overlay[s].jar ELSE jar

Begin(s, stores) ==
    /\ ~send[s].on
    /\ send[s].sends < IF s \in Agents THEN AgentSends ELSE UserSends
    /\ send' = [send EXCEPT ![s] =
         [on |-> TRUE,
          vars |-> IF s \in Agents THEN Context(s) ELSE Defined,
          dirty |-> IF s \in Agents THEN OverlayDirty(s) ELSE {},
          wrote |-> NothingWritten,
          seed |-> CookieSeed(s),
          jar |-> CookieSeed(s),
          stores |-> stores,
          sends |-> send[s].sends + 1,
          steps |-> 0]]
    /\ UNCHANGED <<state, overlay, said, edits>>

-------------------------------------------------------------------------------
(* Scripts and the response, without the lock. A nested request runs on    *)
(* the same maps and the same jar.                                         *)

Change(s, changed) ==
    /\ send[s].on
    /\ send[s].steps < MaxSteps
    /\ send' = [send EXCEPT ![s] = [changed EXCEPT !.steps = send[s].steps + 1]]
    /\ UNCHANGED <<state, overlay, said, edits>>

Write(s, scope, n, v) ==
    [send[s] EXCEPT !.vars[scope][n] = v, !.wrote[scope][n] = v,
                    !.dirty = send[s].dirty \cup {scope}]

SetScopedVar(s, scope, n, v) == Change(s, Write(s, scope, n, v))

DeleteScopedVar(s, scope, n) ==
    /\ send[s].vars[scope][n] # None
    /\ Change(s, Write(s, scope, n, None))

Upsert(s, c, v) == Change(s, [send[s] EXCEPT !.jar[c] = v])

RemoveMatching(s, c) ==
    /\ send[s].jar[c] # None
    /\ Change(s, [send[s] EXCEPT !.jar[c] = None])

-------------------------------------------------------------------------------
(* The tail.                                                               *)

Done(s) == send' = [send EXCEPT ![s] = Idle(send[s].sends)]

(* Fault: the send's jar becomes the state's.                              *)
SnapshotJar(current, initial, runtime) == runtime

(* MergeScriptJar: what the send holds replaces what is there, and what it *)
(* started with and no longer holds is removed.                            *)
MergeScriptJar(current, initial, runtime) ==
    [c \in Cookies |-> IF runtime[c] # None THEN runtime[c]
                       ELSE IF initial[c] # None THEN None
                       ELSE current[c]]

(* Where a tail writes the global variables: with no environment at all it *)
(* makes one, when none is selected it writes to none, and when the        *)
(* selected one is not there it selects the first.                         *)
Target ==
    IF globals = {} THEN Globals
    ELSE IF active \in globals \cup {None} THEN {active} ELSE globals

WriteGlobals(values) ==
    \E g \in Target :
        /\ active' = g
        /\ globals' = IF g = None THEN globals ELSE globals \cup {g}
        /\ gvars' = IF g = None THEN gvars ELSE [gvars EXCEPT ![g] = values]

(* ApplyScriptVariableContextToState: a changed scope is written whole.    *)
ApplyVariables(s) ==
    /\ defs' = IF "collection" \in send[s].dirty
               THEN send[s].vars["collection"] ELSE defs
    /\ IF "global" \in send[s].dirty
       THEN WriteGlobals(send[s].vars["global"])
       ELSE UNCHANGED <<globals, gvars, active>>

CommitUser(u) ==
    /\ send[u].on
    /\ ApplyVariables(u)
    /\ jar' = IF send[u].stores
              THEN MergeScriptJar(jar, send[u].seed, send[u].jar) ELSE jar
    /\ Done(u)
    /\ UNCHANGED <<overlay, said, edits>>

(* DeltasFromContext: the changed scopes, whole.                           *)
Deltas(a) ==
    [s \in Scopes |-> IF s \in send[a].dirty THEN send[a].vars[s]
                      ELSE NoVariables]

(* Fault: what the overlay has already stays.                              *)
FirstWriteWins(a) ==
    [vars |-> [s \in Scopes |-> Over(Deltas(a)[s], overlay[a].vars[s], None)],
     recorded |-> TRUE,
     jar |-> send[a].jar]

(* absorbVariableDeltas and recordCookies.                                 *)
Absorbed(a) ==
    [vars |-> [s \in Scopes |-> Over(overlay[a].vars[s], Deltas(a)[s], None)],
     recorded |-> TRUE,
     jar |-> send[a].jar]

(* Fault: the cookies are stored as a send of the user stores them.        *)
CommitCookies(a) ==
    /\ send[a].on
    /\ jar' = MergeScriptJar(jar, send[a].seed, send[a].jar)
    /\ overlay' = [overlay EXCEPT ![a] = Absorbed(a)]
    /\ said' = [said EXCEPT ![a] =
         [s \in Scopes |-> Over(@[s], send[a].wrote[s], Unsaid)]]
    /\ Done(a)
    /\ UNCHANGED <<defs, globals, gvars, active, edits>>

CommitAgent(a) ==
    /\ send[a].on
    /\ overlay' = [overlay EXCEPT ![a] = Absorbed(a)]
    /\ said' = [said EXCEPT ![a] =
         [s \in Scopes |-> Over(@[s], send[a].wrote[s], Unsaid)]]
    /\ Done(a)
    /\ UNCHANGED <<state, edits>>

(* The request or its collection has gone, or the send failed before it    *)
(* had a response: the tail leaves nothing.                                *)
Abandon(s) ==
    /\ send[s].on
    /\ Done(s)
    /\ UNCHANGED <<state, overlay, said, edits>>

(* The execution ends, and the next has an overlay of its own.             *)
EndExecution(a) ==
    /\ ~send[a].on
    /\ overlay[a].recorded
    /\ overlay' = [overlay EXCEPT ![a] = NoOverlay]
    /\ said' = [said EXCEPT ![a] = NothingWritten]
    /\ UNCHANGED <<state, send, edits>>

-------------------------------------------------------------------------------
(* The user, under the lock.                                               *)

Edit ==
    /\ edits < MaxEdits
    /\ edits' = edits + 1
    /\ UNCHANGED <<send, overlay, said>>

SaveCookie(c, v) ==
    /\ Edit
    /\ jar' = [jar EXCEPT ![c] = v]
    /\ UNCHANGED <<defs, globals, gvars, active>>

DeleteCookie(c) ==
    /\ jar[c] # None
    /\ Edit
    /\ jar' = [jar EXCEPT ![c] = None]
    /\ UNCHANGED <<defs, globals, gvars, active>>

ClearCookies ==
    /\ Edit
    /\ jar' = [c \in Cookies |-> None]
    /\ UNCHANGED <<defs, globals, gvars, active>>

(* UpdateCollectionVariables, UpdateGlobalEnvironmentVariables: the list   *)
(* the user sees, with one variable set or removed.                        *)
UpdateCollectionVariables(n, v) ==
    /\ Edit
    /\ defs' = [defs EXCEPT ![n] = v]
    /\ UNCHANGED <<globals, gvars, active, jar>>

UpdateGlobalVariables(g, n, v) ==
    /\ g \in globals
    /\ Edit
    /\ gvars' = [gvars EXCEPT ![g][n] = v]
    /\ UNCHANGED <<defs, globals, active, jar>>

CreateGlobal(g) ==
    /\ g \notin globals
    /\ Edit
    /\ globals' = globals \cup {g}
    /\ active' = g
    /\ UNCHANGED <<defs, gvars, jar>>

SetActiveGlobal(g) ==
    /\ g \in globals \cup {None}
    /\ Edit
    /\ active' = g
    /\ UNCHANGED <<defs, globals, gvars, jar>>

(* The first of those left takes the place of the active one.              *)
NextActive(g) ==
    IF active # g THEN {active}
    ELSE IF globals = {g} THEN {None} ELSE globals \ {g}

DeleteGlobal(g) ==
    /\ g \in globals
    /\ Edit
    /\ globals' = globals \ {g}
    /\ gvars' = [gvars EXCEPT ![g] = NoVariables]
    /\ active' \in NextActive(g)
    /\ UNCHANGED <<defs, jar>>

-------------------------------------------------------------------------------
Script(s) ==
    \/ \E scope \in Scopes, n \in Names, v \in Values :
         SetScopedVar(s, scope, n, v)
    \/ \E scope \in Scopes, n \in Names : DeleteScopedVar(s, scope, n)
    \/ \E c \in Cookies, v \in Values : Upsert(s, c, v)
    \/ \E c \in Cookies : RemoveMatching(s, c)

UserEdits ==
    \/ \E c \in Cookies, v \in Values : SaveCookie(c, v)
    \/ \E c \in Cookies : DeleteCookie(c)
    \/ ClearCookies
    \/ \E n \in Names, v \in Values \cup {None} :
         UpdateCollectionVariables(n, v)
    \/ \E g \in Globals, n \in Names, v \in Values \cup {None} :
         UpdateGlobalVariables(g, n, v)
    \/ \E g \in Globals : CreateGlobal(g) \/ DeleteGlobal(g)
    \/ \E g \in Globals \cup {None} : SetActiveGlobal(g)

Next ==
    \/ \E u \in Users, stores \in BOOLEAN : Begin(u, stores)
    \/ \E a \in Agents : Begin(a, TRUE)
    \/ \E s \in Senders : Script(s) \/ Abandon(s)
    \/ \E u \in Users : CommitUser(u)
    \/ \E a \in Agents : CommitAgent(a) \/ EndExecution(a)
    \/ UserEdits

Spec == Init /\ [][Next]_vars

-------------------------------------------------------------------------------
(* What an earlier step of an agent's execution set, the next step reads,  *)
(* though nothing of it is in the state, and whatever the user changed in  *)
(* between (mcp_policy.go, "WHY NOT SIMPLY DISCARD").                      *)
SaidIsRead ==
    \A a \in Agents, s \in Scopes, n \in Names :
        said[a][s][n] \in Values => Context(a)[s][n] = said[a][s][n]

(* A tail changes no cookie its send neither carried nor stored: what      *)
(* another send or the user put in the jar in the meantime stays.          *)
CommitTouchesOwn ==
    [][\A u \in Users : CommitUser(u) =>
         \A c \in Cookies :
            jar'[c] # jar[c] =>
                /\ send[u].stores
                /\ send[u].seed[c] # None \/ send[u].jar[c] # None]_vars

(* A variable that an earlier step of an execution deleted is not read by  *)
(* the next (run_overlay_test.go: a context with the overlay applied       *)
(* resolves every variable as if the deltas had been persisted). The code  *)
(* does not keep this, and no run checks it (README, observations).        *)
DeletedStaysDeleted ==
    \A a \in Agents, s \in Scopes, n \in Names :
        said[a][s][n] = None => Context(a)[s][n] = None
===============================================================================
