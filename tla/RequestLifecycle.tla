-------------------------- MODULE RequestLifecycle --------------------------
(***************************************************************************)
(* The registry of cancellable sends (internal/core/request_lifecycle.go)  *)
(* and the send pipeline around it (app_send.go): an execution registers   *)
(* under its collection/request pair, superseding the one it finds there,  *)
(* runs its scripts and its transport without any lock, leaves the         *)
(* registry, decides whether it was cancelled and commits its response to  *)
(* the request.  A script may run another stored request: only the         *)
(* transport of that one is registered, under the context of the top-level *)
(* send however deep the scripts are nested, and its response goes to the  *)
(* script.  CancelRequest may come at any moment.                          *)
(*                                                                         *)
(* The registry mutex covers a map access; the cancel function of the      *)
(* entry found there is called after the unlock, so registering and        *)
(* cancelling take two steps each.  The collection runner's registry       *)
(* (collectionRunLifecycleRegistry) is the same code on another key.       *)
(***************************************************************************)
EXTENDS Naturals, FiniteSets

CONSTANTS
    Execs,     \* executions, top-level sends and nested ones
    Cancels,   \* calls of CancelRequest
    Keys,      \* collection/request pairs
    None       \* no execution

ASSUME LifecycleAssumption == None \notin Execs /\ IsFiniteSet(Execs)

VARIABLES
    active,     \* registry.active
    cancelled,  \* entries whose cancelled flag is set
    ctxDone,    \* executions whose context is cancelled
    pc,         \* where each execution is
    key,        \* the pair it executes
    parent,     \* the execution whose script runs it, or None
    prev,       \* the entry its registration replaced, or None
    finished,   \* what its finish returned
    outcome,    \* "live", then how it is reported
    response,   \* the execution whose response the request shows
    cpc,        \* where each CancelRequest is
    ctarget,    \* the entry it marked
    acked,      \* CancelRequest calls that returned true
    starts,     \* history: executions in the order they registered
    lateSend    \* history: transports begun after a completed cancel

vars == <<active, cancelled, ctxDone, pc, key, parent, prev, finished, outcome,
          response, cpc, ctarget, acked, starts, lateSend>>

registryVars == <<active, cancelled>>
execVars == <<key, parent, prev, starts>>
cancelVars == <<cpc, ctarget, acked>>

(* registered: in the map, the entry found there not yet cancelled;        *)
(* script: before the transport; sending: in it; after: past it;           *)
(* closed: finish has returned; decided: the response is final; shown: it  *)
(* was stored on the request; over: the call ended without storing one.    *)
Running == {"registered", "script", "sending", "after"}
Ended == {"shown", "over"}
ExecLocations == Running \cup Ended \cup {"idle", "closed", "decided"}

TypeOK ==
    /\ active \in [Keys -> Execs \cup {None}]
    /\ cancelled \subseteq Execs /\ ctxDone \subseteq Execs
    /\ pc \in [Execs -> ExecLocations]
    /\ key \in [Execs -> Keys]
    /\ parent \in [Execs -> Execs \cup {None}]
    /\ prev \in [Execs -> Execs \cup {None}]
    /\ finished \in [Execs -> BOOLEAN]
    /\ outcome \in [Execs -> {"live", "completed", "cancelled"}]
    /\ response \in [Keys -> Execs \cup {None}]
    /\ cpc \in [Cancels -> {"idle", "marked", "returned"}]
    /\ ctarget \in [Cancels -> Execs \cup {None}]
    /\ acked \subseteq Cancels
    /\ starts \in [Execs -> Nat]
    /\ lateSend \subseteq Execs

Init ==
    /\ active = [k \in Keys |-> None]
    /\ cancelled = {} /\ ctxDone = {}
    /\ pc = [e \in Execs |-> "idle"]
    /\ key \in [Execs -> Keys]
    /\ parent = [e \in Execs |-> None]
    /\ prev = [e \in Execs |-> None]
    /\ finished = [e \in Execs |-> FALSE]
    /\ outcome = [e \in Execs |-> "live"]
    /\ response = [k \in Keys |-> None]
    /\ cpc = [c \in Cancels |-> "idle"]
    /\ ctarget = [c \in Cancels |-> None]
    /\ acked = {}
    /\ starts = [e \in Execs |-> 0]
    /\ lateSend = {}

Nested(e) == parent[e] # None

(* A script waits for the request it runs.                                 *)
Waiting(e) == \E d \in Execs : parent[d] = e /\ pc[d] \notin Ended

(* Cancelling a context cancels the contexts derived from it.              *)
CancelContext(e) ==
    ctxDone \cup {e} \cup {d \in Execs : parent[d] = e}

-----------------------------------------------------------------------------
(* startWithParent, up to the unlock: the entry replaces the one it finds. *)
(* p is the execution whose script makes the call, None for the user's own *)
(* send; a context derived from a cancelled one starts cancelled.          *)
Register(e, p) ==
    /\ pc[e] = "idle"
    /\ p # None => pc[p] \in {"script", "after"} /\ ~Waiting(p) /\ ~Nested(p)
    /\ p # e
    /\ prev' = [prev EXCEPT ![e] = active[key[e]]]
    /\ active' = [active EXCEPT ![key[e]] = e]
    /\ parent' = [parent EXCEPT ![e] = p]
    /\ ctxDone' = IF p \in ctxDone THEN ctxDone \cup {e} ELSE ctxDone
    /\ starts' = [starts EXCEPT ![e] = Cardinality({d \in Execs : pc[d] # "idle"}) + 1]
    /\ pc' = [pc EXCEPT ![e] = "registered"]
    /\ UNCHANGED <<cancelled, key, finished, outcome, response, cancelVars,
                   lateSend>>

(* previous.cancel(), after the unlock.                                    *)
Supersede(e) ==
    /\ pc[e] = "registered"
    /\ ctxDone' = IF prev[e] = None THEN ctxDone ELSE CancelContext(prev[e])
    /\ pc' = [pc EXCEPT ![e] = "script"]
    /\ UNCHANGED <<registryVars, execVars, finished, outcome, response,
                   cancelVars, lateSend>>

(* Fault: the checkpoint before the transport is missing.                  *)
BeginTransportUnchecked(e) ==
    /\ pc[e] = "script" /\ ~Waiting(e)
    /\ lateSend' = IF \E c \in acked : ctarget[c] = e
                   THEN lateSend \cup {e} ELSE lateSend
    /\ pc' = [pc EXCEPT ![e] = "sending"]
    /\ UNCHANGED <<registryVars, ctxDone, execVars, finished, outcome, response,
                   cancelVars>>

(* The checkpoint before executeHTTP: a cancelled context suppresses the   *)
(* transport and everything after it.                                      *)
BeginTransport(e) ==
    /\ pc[e] = "script" /\ ~Waiting(e)
    /\ IF e \in ctxDone
       THEN pc' = [pc EXCEPT ![e] = "after"] /\ UNCHANGED lateSend
       ELSE /\ pc' = [pc EXCEPT ![e] = "sending"]
            /\ lateSend' = IF \E c \in acked : ctarget[c] = e
                           THEN lateSend \cup {e} ELSE lateSend
    /\ UNCHANGED <<registryVars, ctxDone, execVars, finished, outcome, response,
                   cancelVars>>

(* The transport returns: an answer, a failure or the cancellation.        *)
EndTransport(e) ==
    /\ pc[e] = "sending"
    /\ pc' = [pc EXCEPT ![e] = "after"]
    /\ UNCHANGED <<registryVars, ctxDone, execVars, finished, outcome, response,
                   cancelVars, lateSend>>

(* Fault: finish deletes whatever entry it finds under its pair.           *)
FinishAnyEntry(e) ==
    /\ pc[e] = "after" /\ ~Waiting(e)
    /\ finished' = [finished EXCEPT ![e] = e \in cancelled]
    /\ active' = [active EXCEPT ![key[e]] = None]
    /\ pc' = [pc EXCEPT ![e] = "closed"]
    /\ UNCHANGED <<cancelled, ctxDone, execVars, outcome, response, cancelVars,
                   lateSend>>

(* finish: delete the entry unless a newer execution replaced it, and      *)
(* report whether a cancel had won.  The deferred second call changes      *)
(* nothing: the entry under the pair is no longer this one.                *)
Finish(e) ==
    /\ pc[e] = "after" /\ ~Waiting(e)
    /\ finished' = [finished EXCEPT ![e] = e \in cancelled]
    /\ active' = IF active[key[e]] = e
                 THEN [active EXCEPT ![key[e]] = None] ELSE active
    /\ pc' = [pc EXCEPT ![e] = "closed"]
    /\ UNCHANGED <<cancelled, ctxDone, execVars, outcome, response, cancelVars,
                   lateSend>>

(* Fault: the response is decided from the context alone.                  *)
DecideFromContext(e) ==
    /\ pc[e] = "closed" /\ ~Nested(e)
    /\ outcome' = [outcome EXCEPT ![e] =
                     IF e \in ctxDone THEN "cancelled" ELSE "completed"]
    /\ pc' = [pc EXCEPT ![e] = "decided"]
    /\ UNCHANGED <<registryVars, ctxDone, execVars, finished, response,
                   cancelVars, lateSend>>

(* finishExecution() || requestContextCancelled(executionContext).         *)
Decide(e) ==
    /\ pc[e] = "closed" /\ ~Nested(e)
    /\ outcome' = [outcome EXCEPT ![e] =
                     IF finished[e] \/ e \in ctxDone THEN "cancelled"
                                                     ELSE "completed"]
    /\ pc' = [pc EXCEPT ![e] = "decided"]
    /\ UNCHANGED <<registryVars, ctxDone, execVars, finished, response,
                   cancelVars, lateSend>>

(* The tail stores the response on the request it finds again under a.mu.  *)
Commit(e) ==
    /\ pc[e] = "decided"
    /\ response' = [response EXCEPT ![key[e]] = e]
    /\ pc' = [pc EXCEPT ![e] = "shown"]
    /\ UNCHANGED <<registryVars, ctxDone, execVars, finished, outcome,
                   cancelVars, lateSend>>

(* The collection or the request is gone by then: an error, nothing kept.  *)
RequestGone(e) ==
    /\ pc[e] = "decided"
    /\ pc' = [pc EXCEPT ![e] = "over"]
    /\ UNCHANGED <<registryVars, ctxDone, execVars, finished, outcome, response,
                   cancelVars, lateSend>>

(* A nested execution hands its response to the script of its caller; the  *)
(* result of its deferred finish is dropped.                               *)
ReturnToScript(e) ==
    /\ pc[e] = "closed" /\ Nested(e)
    /\ pc' = [pc EXCEPT ![e] = "over"]
    /\ UNCHANGED <<registryVars, ctxDone, execVars, finished, outcome, response,
                   cancelVars, lateSend>>

(* CancelRequest, up to the unlock.                                        *)
CancelMark(c, k) ==
    /\ cpc[c] = "idle"
    /\ IF active[k] = None \/ active[k] \in cancelled
       THEN /\ cpc' = [cpc EXCEPT ![c] = "returned"]
            /\ UNCHANGED <<cancelled, ctarget>>
       ELSE /\ cancelled' = cancelled \cup {active[k]}
            /\ ctarget' = [ctarget EXCEPT ![c] = active[k]]
            /\ cpc' = [cpc EXCEPT ![c] = "marked"]
    /\ UNCHANGED <<active, ctxDone, pc, execVars, finished, outcome, response,
                   acked, lateSend>>

(* The cancel function of the entry, then the answer true.                 *)
CancelCall(c) ==
    /\ cpc[c] = "marked"
    /\ ctxDone' = CancelContext(ctarget[c])
    /\ acked' = acked \cup {c}
    /\ cpc' = [cpc EXCEPT ![c] = "returned"]
    /\ UNCHANGED <<registryVars, pc, execVars, finished, outcome, response,
                   ctarget, lateSend>>

Exec(e) ==
    \/ Supersede(e) \/ BeginTransport(e) \/ EndTransport(e)
    \/ Finish(e) \/ Decide(e) \/ Commit(e) \/ RequestGone(e)
    \/ ReturnToScript(e)

Next ==
    \/ \E e \in Execs : \E p \in Execs \cup {None} : Register(e, p)
    \/ \E e \in Execs : Exec(e)
    \/ \E c \in Cancels : CancelCall(c) \/ \E k \in Keys : CancelMark(c, k)

Spec == Init /\ [][Next]_vars

(* Goroutines that can run do; the transport returns in the end.           *)
Fairness ==
    /\ \A e \in Execs : WF_vars(Exec(e))
    /\ \A c \in Cancels : WF_vars(CancelCall(c))

FairSpec == Spec /\ Fairness

-----------------------------------------------------------------------------
TopLevel(e) == ~Nested(e)

(* A single, truthful outcome (app_send.go, "Close the lifecycle before     *)
(* persistence"): a top-level send for which CancelRequest marked the entry *)
(* and answers true is never reported as completed.                         *)
AckedCancelWins ==
    \A c \in Cancels : \A e \in Execs :
        ctarget[c] = e => outcome[e] # "completed"

(* The registry holds exactly the executions that can still be cancelled:  *)
(* an execution that has not finished is in it unless a newer one of the   *)
(* same pair replaced it, and what is in it has not finished.              *)
RegistryExact ==
    /\ \A e \in Execs : pc[e] \in Running =>
          active[key[e]] = e \/ \E d \in Execs : prev[d] = e
    /\ \A k \in Keys : active[k] # None =>
          pc[active[k]] \in Running /\ key[active[k]] = k

(* Nothing is reported as cancelled that nobody cancelled: one             *)
(* CancelRequest call took it, or a newer execution superseded it; and no  *)
(* second call is acknowledged for it.                                     *)
CancelledHasCause ==
    /\ \A e \in Execs : outcome[e] = "cancelled" =>
          (\E c \in Cancels : ctarget[c] = e) \/ (\E d \in Execs : prev[d] = e)
    /\ \A c, d \in Cancels :
          ctarget[c] # None /\ ctarget[c] = ctarget[d] => c = d

(* Once CancelRequest has answered true, a transport of that execution     *)
(* that had not started never starts.                                      *)
NoTransportAfterCancel == lateSend = {}

(* An acknowledged cancel of a top-level send is seen through: the         *)
(* execution ends, cancelled.                                              *)
CancelTakesEffect ==
    \A c \in Cancels, e \in Execs :
        (ctarget[c] = e /\ ~Nested(e))
            ~> (pc[e] \in Ended /\ outcome[e] = "cancelled")

(* A newer execution of the same request supersedes the older one          *)
(* (request_lifecycle.go): once the newer one has shown its response, the  *)
(* request does not show the older one's again. The code does not keep     *)
(* this, and no run checks it (README, observations).                      *)
NewestResponseShown ==
    \A e, d \in Execs :
        pc[d] = "shown" /\ key[d] = key[e] /\ starts[e] < starts[d]
            => response[key[e]] # e
=============================================================================
