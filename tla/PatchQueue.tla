----------------------------- MODULE PatchQueue -----------------------------
(***************************************************************************)
(* What the user types on its way to the backend (patchQueue.ts, used in   *)
(* App.svelte): an edit is shown at once and merged into the queued patch, *)
(* a timer or a drain flushes the patch, and the flushes run one after the *)
(* other. JavaScript runs a handler to its end, so an action is what runs  *)
(* between two awaits.                                                     *)
(*                                                                         *)
(* An edit is known by its number; a patch maps each field to the edit it  *)
(* carries, or None.                                                       *)
(***************************************************************************)
EXTENDS Naturals, Sequences

CONSTANTS
    Requests,      \* PatchTarget
    Fields,        \* the fields of a RequestPatch
    MaxEdits,      \* bound on what the user types
    MaxFlushFailures   \* bound on the flushes that fail

Bounds ==
    /\ MaxEdits \in Nat
    /\ MaxFlushFailures \in Nat

ASSUME PatchAssumption == Bounds

VARIABLES
    target, patch,   \* this.target and this.patch
    timer,           \* this.handle # null
    chain,           \* this.inFlight: the flushes not settled, oldest first
    served,          \* the backend has answered the oldest of them
    server,          \* the requests as the backend has them
    view,            \* the requests in workspaceStore.appState
    edits,           \* edits so far
    typed,           \* the last edit of each field
    reported,        \* fields of a patch given to onError
    flushFailures,   \* flushes that failed
    drain            \* a drain, and how many flushes it still awaits

queueVars == <<target, patch, timer>>
userVars == <<edits, typed>>
faultVars == <<reported, flushFailures>>
frontVars == <<queueVars, chain, served, server, view, userVars, faultVars, drain>>

None == 0
Edits == 1..MaxEdits
Patches == [Fields -> Edits \cup {None}]
Empty == [f \in Fields |-> None]
Flushes == [target : Requests, patch : Patches]
NoDrain == [left |-> None, typed |-> [t \in Requests |-> Empty], on |-> FALSE]

FrontTypeOK ==
    /\ target \in Requests
    /\ patch \in Patches
    /\ timer \in BOOLEAN
    /\ chain \in Seq(Flushes)
    /\ served \in BOOLEAN
    /\ server \in [Requests -> Patches]
    /\ view \in [Requests -> Patches]
    /\ edits \in 0..MaxEdits
    /\ typed \in [Requests -> Patches]
    /\ reported \subseteq Requests \X Fields
    /\ flushFailures \in 0..MaxFlushFailures
    /\ drain \in [left : Nat, typed : [Requests -> Patches], on : BOOLEAN]

FrontInit ==
    /\ target \in Requests
    /\ patch = Empty
    /\ timer = FALSE
    /\ chain = << >>
    /\ served = FALSE
    /\ server = [t \in Requests |-> Empty]
    /\ view = server
    /\ edits = 0
    /\ typed = server
    /\ reported = {}
    /\ flushFailures = 0
    /\ drain = NoDrain

(* Fault: the older value of a field wins. *)
mergePatchesUnder(base, next) ==
    [f \in Fields |-> IF base[f] # None THEN base[f] ELSE next[f]]

(* mergePatches: the later patch wins, field by field. *)
mergePatches(base, next) ==
    [f \in Fields |-> IF next[f] # None THEN next[f] ELSE base[f]]

hasPending == patch # Empty

-----------------------------------------------------------------------------
(* The user types: patchRequest, applyOptimisticPatch and queue().         *)

(* Fault: the queued patch stays, whatever request it is of. *)
QueueAnyTarget(t, new) ==
    /\ patch' = mergePatches(patch, new)
    /\ target' = t
    /\ timer' = TRUE
    /\ UNCHANGED chain

(* Fault: the handle is looked at before the flush that cancels it. *)
QueueUntimed(t, new) ==
    /\ IF hasPending /\ target # t
       THEN /\ chain' = Append(chain, [target |-> target, patch |-> patch])
            /\ patch' = new
            /\ timer' = FALSE
       ELSE /\ patch' = mergePatches(patch, new)
            /\ timer' = TRUE
            /\ UNCHANGED chain
    /\ target' = t

(* A patch of another request is flushed before this one is queued; the    *)
(* flush cancels the timer, which starts again for the new patch.          *)
Queue(t, new) ==
    /\ IF hasPending /\ target # t
       THEN /\ chain' = Append(chain, [target |-> target, patch |-> patch])
            /\ patch' = new
       ELSE /\ patch' = mergePatches(patch, new)
            /\ UNCHANGED chain
    /\ target' = t
    /\ timer' = TRUE

patchRequest(t, f) ==
    /\ edits < MaxEdits
    /\ edits' = edits + 1
    /\ typed' = [typed EXCEPT ![t][f] = edits']
    /\ view' = [view EXCEPT ![t][f] = edits']
    /\ Queue(t, [Empty EXCEPT ![f] = edits'])
    /\ UNCHANGED <<served, server, faultVars, drain>>

-----------------------------------------------------------------------------
(* flush(), with a patch to send. *)
FlushPatch ==
    /\ hasPending
    /\ chain' = Append(chain, [target |-> target, patch |-> patch])
    /\ patch' = Empty
    /\ timer' = FALSE
    /\ UNCHANGED target

(* A timer runs only while something is queued. *)
TimerFires ==
    /\ timer
    /\ FlushPatch
    /\ UNCHANGED <<served, server, view, userVars, faultVars, drain>>

(* Fault: a drain that finds the queue empty waits for nothing. *)
DrainNothing ==
    /\ ~drain.on
    /\ \/ FlushPatch
       \/ ~hasPending /\ UNCHANGED <<queueVars, chain>>
    /\ drain' = [on |-> TRUE, typed |-> typed,
                 left |-> IF hasPending THEN Len(chain') ELSE 0]
    /\ UNCHANGED <<served, server, view, userVars, faultVars>>

(* drainRequestPatchesBeforeAction: the flush is awaited, or, with nothing *)
(* queued, the flushes under way.                                          *)
Drain ==
    /\ ~drain.on
    /\ \/ FlushPatch
       \/ /\ ~hasPending
          /\ timer' = FALSE
          /\ UNCHANGED <<target, patch, chain>>
    /\ drain' = [on |-> TRUE, typed |-> typed, left |-> Len(chain')]
    /\ UNCHANGED <<served, server, view, userVars, faultVars>>

(* The action that had to wait: a send, a save. *)
Proceed ==
    /\ drain.on
    /\ drain.left = 0
    /\ drain' = NoDrain
    /\ UNCHANGED <<queueVars, chain, served, server, view, userVars, faultVars>>

-----------------------------------------------------------------------------
(* The oldest flush. *)

(* UpdateRequestNarrow runs in the backend. *)
Serve ==
    /\ chain # << >>
    /\ ~served
    /\ LET flush == Head(chain)
       IN  server' = [server EXCEPT ![flush.target] =
                        mergePatches(@, flush.patch)]
    /\ served' = TRUE
    /\ UNCHANGED <<queueVars, chain, view, userVars, faultVars, drain>>

(* A flush settles; the next of the chain may start. *)
Settle ==
    /\ chain' = Tail(chain)
    /\ served' = FALSE
    /\ drain' = IF drain.left > 0 THEN [drain EXCEPT !.left = @ - 1] ELSE drain

(* Its result replaces the request that is shown, and what is queued is    *)
(* put on top again.                                                       *)
Return ==
    /\ served
    /\ LET t == Head(chain).target
       IN  view' = [view EXCEPT ![t] =
                      IF hasPending /\ target = t
                      THEN mergePatches(server[t], patch)
                      ELSE server[t]]
    /\ Settle
    /\ UNCHANGED <<queueVars, server, userVars, faultVars>>

(* Fault: a patch that failed is forgotten. *)
RecoverNothing(flush) ==
    /\ UNCHANGED <<target, patch, reported>>

(* recover(): the patch goes back under what is queued for its request; if *)
(* another request's patch is queued, it is only reported.                 *)
Recover(flush) ==
    /\ \/ ~hasPending /\ target' = flush.target /\ patch' = flush.patch
       \/ /\ hasPending
          /\ patch' = IF target = flush.target
                      THEN mergePatches(flush.patch, patch)
                      ELSE patch
          /\ UNCHANGED target
    /\ reported' = reported \cup
                     {<<flush.target, f>> : f \in {g \in Fields :
                                                     flush.patch[g] # None}}

(* The call is refused, or its result cannot be applied. *)
Fail ==
    /\ chain # << >>
    /\ flushFailures < MaxFlushFailures
    /\ flushFailures' = flushFailures + 1
    /\ Recover(Head(chain))
    /\ Settle
    /\ UNCHANGED <<timer, server, view, userVars>>

FrontNext ==
    \/ \E t \in Requests, f \in Fields : patchRequest(t, f)
    \/ TimerFires
    \/ Drain \/ Proceed
    \/ Serve \/ Return \/ Fail

FrontSpec == FrontInit /\ [][FrontNext]_frontVars

(* Timers fire, the backend answers. *)
FrontFairSpec ==
    FrontSpec /\ WF_frontVars(TimerFires) /\ WF_frontVars(Serve) /\ WF_frontVars(Return)

-----------------------------------------------------------------------------
(* All that is on its way to the backend, oldest first, and where in it    *)
(* field f of request t is carried.                                        *)
OnItsWay ==
    IF hasPending THEN Append(chain, [target |-> target, patch |-> patch])
    ELSE chain

Carriers(t, f) ==
    {i \in DOMAIN OnItsWay : OnItsWay[i].target = t /\ OnItsWay[i].patch[f] # None}

(* What the backend has of a field once all that has arrived: the newest,  *)
(* or what it has already.                                                 *)
EndsWith(t, f, n) ==
    \/ Carriers(t, f) = {} /\ server[t][f] = n
    \/ \E i \in Carriers(t, f) : /\ OnItsWay[i].patch[f] = n
                                 /\ \A j \in Carriers(t, f) : j <= i

(* No keystroke is lost in silence (patchQueue.ts names four ways): the    *)
(* last edit of a field is what the backend will end up with, unless the   *)
(* user was told of a patch with that field.                               *)
LostIsReported ==
    \A t \in Requests, f \in Fields :
        <<t, f>> \notin reported => EndsWith(t, f, typed[t][f])

(* A send or save that waited for the drain finds in the backend all that  *)
(* was typed before it, again unless the user was told.                    *)
DrainedHasArrived ==
    drain.on /\ drain.left = 0 =>
        \A t \in Requests, f \in Fields :
            <<t, f>> \notin reported => server[t][f] >= drain.typed[t][f]

(* Typing alone is enough: every edit arrives without a further action of  *)
(* the user, or is replaced by a later one, or reported.                   *)
EditsArrive ==
    \A t \in Requests, f \in Fields, n \in Edits :
        typed[t][f] = n ~> server[t][f] >= n \/ <<t, f>> \in reported

(* App.svelte:5713 and patchQueue.ts:120: a result must not rewind what    *)
(* the user has typed meanwhile. Without a failure, the input shows the    *)
(* last edit. The code does not keep this, and no run checks it (README,   *)
(* observations).                                                          *)
ResultNeverRewinds == flushFailures = 0 => view = typed
=============================================================================
