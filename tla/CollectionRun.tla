---------------------------- MODULE CollectionRun ----------------------------
(***************************************************************************)
(* The collection runner (internal/core/app_runner.go, internal/runner)    *)
(* and its registry (collectionRunLifecycleRegistry, in                    *)
(* request_lifecycle.go).  A run registers under its collection, cancelling*)
(* the run it finds there, plans its iterations from the options and the   *)
(* data file, and sends one request after another, following what their    *)
(* scripts ask for.  CancelCollectionRun may come at any moment.  A run    *)
(* ends by leaving the registry, completing its rows and storing them.     *)
(*                                                                         *)
(* A send is two steps, its begin and its answer: no lock is held between  *)
(* them.  Its own registration is in RequestLifecycle.  "passed",          *)
(* "skipped" and a failure that does not end the run are one status here,  *)
(* "done": nothing depends on which.                                       *)
(* Delays are left out: a run that is cancelled while it waits goes on to  *)
(* the check at the top of the loop.                                       *)
(***************************************************************************)
EXTENDS Naturals, Sequences, FiniteSets

CONSTANTS
    Runs,            \* calls of RunCollectionWithOptions
    Cancels,         \* calls of CancelCollectionRun
    Collections,
    Asked,           \* the options each run may be called with
    IterationLimit,  \* IterationLimit, the most iterations of a run
    MaxJumps,        \* the redirections of one iteration, 10000 in the code
    NoRun            \* no run

(* items is the number of requests selected, rows that of the rows of the  *)
(* data file, 0 when there is no file.                                     *)
OptionsType ==
    [collection : Collections, items : Nat, bail : BOOLEAN, requested : Nat,
     rows : Nat]

Bounds ==
    /\ NoRun \notin Runs
    /\ IterationLimit \in Nat \ {0}
    /\ MaxJumps \in Nat
    /\ Asked \in [Runs -> SUBSET OptionsType]

ASSUME RunAssumption == Bounds

VARIABLES
    activeRun,  \* registry.active
    cancelled,  \* entries whose cancelled flag is set
    ctxDone,    \* runs whose context is cancelled
    pc,         \* where each run is
    options,    \* what each run is asked to do
    prev,       \* the run its registration replaced, or None
    loop,       \* the local variables of its loops
    results,    \* its rows
    finished,   \* what its finishRun returned
    runner,     \* state.Runner: the run whose rows are shown, or None
    cpc,        \* where each CancelCollectionRun is
    ctarget,    \* the entry it marked, or None
    aborted,    \* history: runs one of whose requests was itself cancelled
    stopped,    \* history: runs a script has stopped
    redirects   \* history: redirections by iteration

runVars == <<activeRun, cancelled, ctxDone, pc, options, prev, loop, results,
             finished, runner, cpc, ctarget, aborted, stopped, redirects>>

cancelVars == <<cpc, ctarget>>
historyVars == <<aborted, stopped, redirects>>

(* registered: in the map; planning: the replaced run is cancelled; turn:  *)
(* at the top of the loop; sending: a request is under way; ending: past   *)
(* the loops; closed: finishRun has returned; complete: the rows are final;*)
(* stored: they are in state.Runner; failed: the call returned an error.   *)
Running == {"registered", "planning", "turn", "sending", "ending"}
Locations == Running \cup {"idle", "closed", "complete", "stored", "failed"}
Statuses == {"done", "failed", "cancelled", "unrun"}

Iterations == 1..IterationLimit

LoopType ==
    [total : Nat, iteration : Nat, index : Nat, jumps : Nat, completed : Nat]
RowType == [item : Nat, iteration : Nat, status : Statuses]

RunTypeOK ==
    /\ activeRun \in [Collections -> Runs \cup {NoRun}]
    /\ cancelled \subseteq Runs /\ ctxDone \subseteq Runs
    /\ pc \in [Runs -> Locations]
    /\ options \in [Runs -> OptionsType] /\ \A r \in Runs : options[r] \in Asked[r]
    /\ prev \in [Runs -> Runs \cup {NoRun}]
    /\ loop \in [Runs -> LoopType]
    /\ results \in [Runs -> Seq(RowType)]
    /\ finished \subseteq Runs
    /\ runner \in Runs \cup {NoRun}
    /\ cpc \in [Cancels -> {"idle", "marked", "returned"}]
    /\ ctarget \in [Cancels -> Runs \cup {NoRun}]
    /\ aborted \subseteq Runs /\ stopped \subseteq Runs
    /\ redirects \in [Runs -> [Iterations -> Nat]]

RunInit ==
    /\ activeRun = [k \in Collections |-> NoRun]
    /\ cancelled = {} /\ ctxDone = {}
    /\ pc = [r \in Runs |-> "idle"]
    /\ options \in {o \in [Runs -> UNION {Asked[r] : r \in Runs}] :
                       \A r \in Runs : o[r] \in Asked[r]}
    /\ prev = [r \in Runs |-> NoRun]
    /\ loop = [r \in Runs |-> [total |-> 0, iteration |-> 1, index |-> 1,
                               jumps |-> 0, completed |-> 0]]
    /\ results = [r \in Runs |-> <<>>]
    /\ finished = {}
    /\ runner = NoRun
    /\ cpc = [c \in Cancels |-> "idle"]
    /\ ctarget = [c \in Cancels |-> NoRun]
    /\ aborted = {} /\ stopped = {}
    /\ redirects = [r \in Runs |-> [i \in Iterations |-> 0]]

-----------------------------------------------------------------------------
(* How many iterations                                                     *)

Least(m, n) == IF m < n THEN m ELSE n

NormalizeIterations(n) == IF n < 1 THEN 1 ELSE Least(n, IterationLimit)

(* The rows of the data file lead: no iteration is without one.            *)
IterationPlan(rows, requested) ==
    IF rows = 0 THEN NormalizeIterations(requested)
    ELSE IF requested < 1 THEN rows
    ELSE Least(NormalizeIterations(requested), rows)

(* A file with more rows than iterations there may be is an error; so is   *)
(* one that cannot be read, which this stands for too.                     *)
DataError(rows) == rows > IterationLimit

-----------------------------------------------------------------------------
(* The registry                                                            *)

(* start, up to the unlock: the run replaces the one it finds.             *)
Register(r) ==
    LET k == options[r].collection IN
    /\ pc[r] = "idle"
    /\ prev' = [prev EXCEPT ![r] = activeRun[k]]
    /\ activeRun' = [activeRun EXCEPT ![k] = r]
    /\ pc' = [pc EXCEPT ![r] = "registered"]
    /\ UNCHANGED <<cancelled, ctxDone, options, loop, results, finished,
                   runner, cancelVars, historyVars>>

(* After the unlock the context of the replaced run is cancelled. Its entry*)
(* is not marked.                                                          *)
Supersede(r) ==
    /\ pc[r] = "registered"
    /\ ctxDone' = ctxDone \cup ({prev[r]} \ {NoRun})
    /\ pc' = [pc EXCEPT ![r] = "planning"]
    /\ UNCHANGED <<activeRun, cancelled, options, prev, loop, results, finished,
                   runner, cancelVars, historyVars>>

(* finishRun: the run leaves the map unless a newer one took its place, and*)
(* learns whether a cancel came first. An error return runs it too.        *)
FinishRun(r) ==
    /\ activeRun' = [k \in Collections |->
                       IF activeRun[k] = r THEN NoRun ELSE activeRun[k]]
    /\ finished' = IF r \in cancelled THEN finished \cup {r} ELSE finished

-----------------------------------------------------------------------------
(* The loops                                                               *)

Plan(r) ==
    /\ pc[r] = "planning"
    /\ ~DataError(options[r].rows)
    /\ loop' = [loop EXCEPT ![r].total =
                   IterationPlan(options[r].rows, options[r].requested)]
    /\ pc' = [pc EXCEPT ![r] = "turn"]
    /\ UNCHANGED <<activeRun, cancelled, ctxDone, options, prev, results, finished,
                   runner, cancelVars, historyVars>>

RefuseDataFile(r) ==
    /\ pc[r] = "planning"
    /\ DataError(options[r].rows)
    /\ FinishRun(r)
    /\ pc' = [pc EXCEPT ![r] = "failed"]
    /\ UNCHANGED <<cancelled, ctxDone, options, prev, loop, results, runner,
                   cancelVars, historyVars>>

Items(r) == options[r].items

(* stampIteration: a run of one iteration does not number its rows.        *)
Stamp(r, i) == IF loop[r].total > 1 THEN i ELSE 0

Row(r, item, s) ==
    [item |-> item, iteration |-> Stamp(r, loop[r].iteration), status |-> s]

(* The rows with the request of this turn recorded.                        *)
Recorded(r, s) == Append(results[r], Row(r, loop[r].index, s))

(* Fault: the request that failed is listed as unrun too.                  *)
UnrunFromTheFailure(r) ==
    [n \in 1..(Items(r) + 1 - loop[r].index) |->
        Row(r, loop[r].index + n - 1, "unrun")]

(* appendUnrunRunResults: the rest of the iteration.                       *)
Unrun(r) ==
    [n \in 1..(Items(r) - loop[r].index) |-> Row(r, loop[r].index + n, "unrun")]

AtTurn(r) == pc[r] = "turn" /\ loop[r].index <= Items(r)

TurnCancelled(r) ==
    /\ AtTurn(r) /\ r \in ctxDone
    /\ results' = [results EXCEPT ![r] = Recorded(r, "cancelled")]
    /\ pc' = [pc EXCEPT ![r] = "ending"]
    /\ UNCHANGED <<activeRun, cancelled, ctxDone, options, prev, loop, finished,
                   runner, cancelVars, historyVars>>

(* A protocol the runner does not send, or variables it cannot prompt for. *)
Skip(r) ==
    /\ AtTurn(r) /\ r \notin ctxDone
    /\ results' = [results EXCEPT ![r] = Recorded(r, "done")]
    /\ loop' = [loop EXCEPT ![r].index = @ + 1]
    /\ UNCHANGED <<activeRun, cancelled, ctxDone, pc, options, prev, finished,
                   runner, cancelVars, historyVars>>

Send(r) ==
    /\ AtTurn(r) /\ r \notin ctxDone
    /\ pc' = [pc EXCEPT ![r] = "sending"]
    /\ UNCHANGED <<activeRun, cancelled, ctxDone, options, prev, loop, results,
                   finished, runner, cancelVars, historyVars>>

(* An answer, or an error, of a run whose context is cancelled is a        *)
(* cancelled row whatever it says; so is a response that a CancelRequest   *)
(* for the request itself, or a newer send of it, cut short. Either ends   *)
(* the run.                                                                *)
AnswerCancelled(r) ==
    /\ pc[r] = "sending"
    /\ results' = [results EXCEPT ![r] = Recorded(r, "cancelled")]
    /\ pc' = [pc EXCEPT ![r] = "ending"]
    /\ aborted' = IF r \in ctxDone THEN aborted ELSE aborted \cup {r}
    /\ UNCHANGED <<activeRun, cancelled, ctxDone, options, prev, loop, finished,
                   runner, cancelVars, stopped, redirects>>

(* A transport error, a status of 400 or more, or a failed assertion, when *)
(* the run is to end at the first failure.                                 *)
Bail(r) ==
    /\ pc[r] = "sending" /\ r \notin ctxDone
    /\ options[r].bail
    /\ results' = [results EXCEPT ![r] = Recorded(r, "failed") \o Unrun(r)]
    /\ pc' = [pc EXCEPT ![r] = "ending"]
    /\ UNCHANGED <<activeRun, cancelled, ctxDone, options, prev, loop, finished,
                   runner, cancelVars, historyVars>>

(* Any other answer is recorded, and the scripts decide how to go on. A    *)
(* request that was not sent for an error has asked for nothing.           *)
Answer(r) ==
    /\ pc[r] = "sending" /\ r \notin ctxDone
    /\ results' = [results EXCEPT ![r] = Recorded(r, "done")]
    /\ UNCHANGED <<cancelled, ctxDone, options, prev, runner, cancelVars,
                   aborted>>

(* The scripts have asked for nothing.                                     *)
GoOn(r) ==
    /\ Answer(r)
    /\ loop' = [loop EXCEPT ![r].index = @ + 1]
    /\ pc' = [pc EXCEPT ![r] = "turn"]
    /\ UNCHANGED <<activeRun, finished, stopped, redirects>>

(* bru.runner.stopExecution().                                             *)
StopExecution(r) ==
    /\ Answer(r)
    /\ pc' = [pc EXCEPT ![r] = "ending"]
    /\ stopped' = stopped \cup {r}
    /\ UNCHANGED <<activeRun, loop, finished, redirects>>

(* A script has set the next request.                                      *)
Redirect(r) ==
    /\ Answer(r)
    /\ redirects' = [redirects EXCEPT ![r][loop[r].iteration] = @ + 1]
    /\ UNCHANGED stopped

(* setNextRequest(next): the request of that name, be it the same again;   *)
(* with a name nobody has, the one that follows; with null, which is past  *)
(* the last one here, the iteration ends.                                  *)
SetNextRequest(r) ==
    /\ Redirect(r)
    /\ loop[r].jumps < MaxJumps
    /\ \E next \in 1..(Items(r) + 1) \cup {loop[r].index + 1} :
         loop' = [loop EXCEPT ![r].index = next, ![r].jumps = @ + 1]
    /\ pc' = [pc EXCEPT ![r] = "turn"]
    /\ UNCHANGED <<activeRun, finished>>

(* "too many jumps, possible infinite loop": the call fails, nothing is    *)
(* stored.                                                                 *)
TooManyJumps(r) ==
    /\ Redirect(r)
    /\ loop[r].jumps >= MaxJumps
    /\ FinishRun(r)
    /\ pc' = [pc EXCEPT ![r] = "failed"]
    /\ UNCHANGED loop

(* Fault: the jumps of one iteration count for the next.                   *)
NextIterationKeepingJumps(r) ==
    [loop[r] EXCEPT !.completed = @ + 1, !.iteration = @ + 1, !.index = 1]

NextIteration(r) ==
    [loop[r] EXCEPT !.completed = @ + 1, !.iteration = @ + 1, !.index = 1,
                    !.jumps = 0]

EndIteration(r) ==
    /\ pc[r] = "turn" /\ loop[r].index > Items(r)
    /\ IF loop[r].iteration < loop[r].total
         THEN /\ loop' = [loop EXCEPT ![r] = NextIteration(r)]
              /\ UNCHANGED pc
         ELSE /\ loop' = [loop EXCEPT ![r].completed = loop[r].iteration]
              /\ pc' = [pc EXCEPT ![r] = "ending"]
    /\ UNCHANGED <<activeRun, cancelled, ctxDone, options, prev, results, finished,
                   runner, cancelVars, historyVars>>

-----------------------------------------------------------------------------
(* The end of a run                                                        *)

Finish(r) ==
    /\ pc[r] = "ending"
    /\ FinishRun(r)
    /\ pc' = [pc EXCEPT ![r] = "closed"]
    /\ UNCHANGED <<cancelled, ctxDone, options, prev, loop, results, runner,
                   cancelVars, historyVars>>

EndsCancelled(r) ==
    results[r] # <<>> /\ results[r][Len(results[r])].status = "cancelled"

CancelRow == [item |-> 0, iteration |-> 0, status |-> "cancelled"]

(* Fault: the cancelled context alone is asked.                            *)
CompleteFromContext(r) ==
    /\ pc[r] = "closed"
    /\ results' = IF r \in ctxDone /\ ~EndsCancelled(r)
                    THEN [results EXCEPT ![r] = Append(@, CancelRow)]
                    ELSE results
    /\ pc' = [pc EXCEPT ![r] = "complete"]
    /\ UNCHANGED <<activeRun, cancelled, ctxDone, options, prev, loop, finished,
                   runner, cancelVars, historyVars>>

(* A run that was cancelled says so in its last row.                       *)
Complete(r) ==
    /\ pc[r] = "closed"
    /\ results' = IF r \in finished \cup ctxDone /\ ~EndsCancelled(r)
                    THEN [results EXCEPT ![r] = Append(@, CancelRow)]
                    ELSE results
    /\ pc' = [pc EXCEPT ![r] = "complete"]
    /\ UNCHANGED <<activeRun, cancelled, ctxDone, options, prev, loop, finished,
                   runner, cancelVars, historyVars>>

Store(r) ==
    /\ pc[r] = "complete"
    /\ runner' = r
    /\ pc' = [pc EXCEPT ![r] = "stored"]
    /\ UNCHANGED <<activeRun, cancelled, ctxDone, options, prev, loop, results,
                   finished, cancelVars, historyVars>>

-----------------------------------------------------------------------------
(* CancelCollectionRun                                                     *)

(* Up to the unlock: the entry is marked. When there is none, or it is     *)
(* marked already, the call returns false and has changed nothing.         *)
CancelMark(c, k) ==
    /\ cpc[c] = "idle"
    /\ activeRun[k] # NoRun /\ activeRun[k] \notin cancelled
    /\ cancelled' = cancelled \cup {activeRun[k]}
    /\ ctarget' = [ctarget EXCEPT ![c] = activeRun[k]]
    /\ cpc' = [cpc EXCEPT ![c] = "marked"]
    /\ UNCHANGED <<activeRun, ctxDone, pc, options, prev, loop, results, finished,
                   runner, historyVars>>

(* After the unlock: its context is cancelled, and the call returns true.  *)
CancelCall(c) ==
    /\ cpc[c] = "marked"
    /\ ctxDone' = ctxDone \cup {ctarget[c]}
    /\ cpc' = [cpc EXCEPT ![c] = "returned"]
    /\ UNCHANGED <<activeRun, cancelled, pc, options, prev, loop, results,
                   finished, runner, ctarget, historyVars>>

-----------------------------------------------------------------------------
Turn(r) ==
    \/ TurnCancelled(r) \/ Skip(r) \/ Send(r) \/ EndIteration(r)
    \/ AnswerCancelled(r) \/ Bail(r) \/ GoOn(r) \/ StopExecution(r)
    \/ SetNextRequest(r) \/ TooManyJumps(r)

RunStep(r) ==
    \/ Supersede(r) \/ Plan(r) \/ RefuseDataFile(r)
    \/ Turn(r)
    \/ Finish(r) \/ Complete(r) \/ Store(r)

RunNext ==
    \/ \E r \in Runs : Register(r) \/ RunStep(r)
    \/ \E c \in Cancels :
         \/ \E k \in Collections : CancelMark(c, k)
         \/ CancelCall(c)

RunSpec == RunInit /\ [][RunNext]_runVars

-----------------------------------------------------------------------------
Stored(r) == pc[r] = "stored"

(* The places of the rows of an iteration; the row that says the run was   *)
(* cancelled is of none.                                                   *)
RowsOf(r, i) ==
    {n \in DOMAIN results[r] : /\ results[r][n].item # 0
                               /\ results[r][n].iteration = Stamp(r, i)}

(* A cancel that CancelCollectionRun answered with true is what the stored *)
(* results end with, even when it came after the last request; they end so *)
(* only for a cause, a cancel of the run, a newer run, or a cancel of its  *)
(* request; and nothing was sent after it.                                 *)
CancelIsShown ==
    \A r \in Runs : Stored(r) =>
        /\ r \in cancelled \cup aborted => EndsCancelled(r)
        /\ EndsCancelled(r) => r \in cancelled \cup aborted \cup ctxDone
        /\ \A n \in 1..(Len(results[r]) - 1) :
              results[r][n].status # "cancelled"

(* What the stored rows of a run say of one iteration.  Unless a script    *)
(* redirected it, every request had its turn once and in order, or the run *)
(* was cancelled or stopped in it; after a failure that ends the run the   *)
(* rest of the iteration, and nothing else, is unrun; an iteration that    *)
(* counts as completed is; there is a row of the data file behind it.      *)
TellsTheRun(r, i) ==
    LET rows == RowsOf(r, i)
        Item(n) == results[r][n].item
        Is(n, s) == results[r][n].status = s
        completed == i <= loop[r].completed
        started == i <= loop[r].completed + 1
    IN  /\ options[r].rows > 0 => i <= options[r].rows
        /\ completed => \A n \in rows : ~Is(n, "cancelled") /\ ~Is(n, "unrun")
        /\ ~started => rows = {}
        /\ started /\ redirects[r][i] = 0 =>
             /\ \A m, n \in rows : m < n => Item(m) < Item(n)
             /\ \E last \in 0..Items(r) :
                  /\ {Item(n) : n \in rows} = 1..last
                  /\ last < Items(r) =>
                       ~completed /\ (EndsCancelled(r) \/ r \in stopped)
        /\ options[r].bail =>
             \A n \in rows :
                Is(n, "unrun") <=> \E m \in rows : m < n /\ Is(m, "failed")

(* Every request of every iteration has its turn. A script that redirects  *)
(* for ever is cut off, so the rows are bounded; a run that is redirected  *)
(* less than that in each of its iterations is not given up.               *)
EachItsTurn ==
    \A r \in Runs :
        /\ Stored(r) => \A i \in 1..loop[r].total : TellsTheRun(r, i)
        /\ Len(results[r]) <= IterationLimit * (MaxJumps + 1) * Items(r) + 1
        /\ pc[r] = "failed" /\ results[r] # <<>> =>
             redirects[r][loop[r].iteration] > MaxJumps

(* The results shown are those of the newest run that has stored any. The  *)
(* code does not keep this, and no run checks it (README, observations).   *)
NewestRunShown ==
    \A r, s \in Runs :
        Stored(r) /\ Stored(s) /\ prev[s] = r => runner # r
=============================================================================
