---------------------------- MODULE McpApprovals ----------------------------
(***************************************************************************)
(* How an agent's run gets the user's word for a destination its request   *)
(* definition does not point at (mcp_policy.go, mcp_approvals.go): the     *)
(* remembered approvals, the grants of this run, then a prompt the run     *)
(* waits for, or, at the transport, one nobody waits for.                  *)
(*                                                                         *)
(* A key stands for a full approval key: site, environments, origin, class.*)
(* Keys that the definition's own origins cover never get this far, and    *)
(* flow-step values are approved by the same code under keys of their own. *)
(* One process; its memory is lost with it, the file is not.               *)
(***************************************************************************)
EXTENDS Naturals, FiniteSets

CONSTANTS
    Runs,          \* executions an agent started
    Keys,
    None,          \* no run waits for this prompt
    MaxPrompts,    \* bound on the prompts raised
    MaxRestarts    \* bound on the crashes of the process

ASSUME ApprovalsAssumption ==
    /\ None \notin Runs \cup Keys
    /\ MaxPrompts \in Nat
    /\ MaxRestarts \in Nat

VARIABLES
    file,         \* mcp-approvals.json
    backup,       \* entries of mcp-approvals.v0.json.bak
    loaded,       \* a.mcpApprovalsLoaded
    remembered,   \* a.mcpApprovalsRemembered
    pc,           \* where each run is in Authorize
    key,          \* what it asks for there
    session,      \* policy.session, the keys granted to this run
    owner,        \* the run that waits for a prompt, or None
    asked,        \* the key a prompt is about
    listed,       \* a.mcpApprovals: prompts that can be answered
    waiter,       \* where awaitMCPApproval is
    verdict,      \* what it is about to return
    channel,      \* pending.result
    resolver,     \* where ResolveMCPApproval is
    reply,        \* history: what the user said to a prompt
    used,         \* prompts raised so far
    restarts,     \* crashes so far
    allowed,      \* history: keys each run was let through for
    yes,          \* history: keys the user allowed to each run
    yesForGood,   \* history: keys the user allowed and had remembered
    stored,       \* history: entries the file ever had
    trouble       \* history: what failed of the file, a read or a rename

store == <<file, backup, loaded, remembered, stored, trouble>>
runs == <<pc, key, session, allowed>>
prompts == <<owner, asked, listed, waiter, verdict, channel, used>>
replies == <<resolver, reply, yes, yesForGood>>
vars == <<store, runs, prompts, replies, restarts>>

Ids == 1..MaxPrompts
Places == {"idle", "consult", "grants", "ask", "waiting"}

(* missing; v1: what this version writes; old: entries it will not honour. *)
Files == [kind : {"missing", "v1", "old"}, entries : SUBSET Keys]
NoFile == [kind |-> "missing", entries |-> {}]

TypeOK ==
    /\ file \in Files
    /\ backup \subseteq Keys
    /\ loaded \in BOOLEAN
    /\ remembered \subseteq Keys
    /\ pc \in [Runs -> Places]
    /\ key \in [Runs -> Keys \cup {None}]
    /\ session \in [Runs -> SUBSET Keys]
    /\ owner \in [Ids -> Runs \cup {None}]
    /\ asked \in [Ids -> Keys \cup {None}]
    /\ listed \subseteq Ids
    /\ waiter \in [Ids -> {"unused", "waiting", "leaving", "gone"}]
    /\ verdict \in [Ids -> {"yes", "no"}]
    /\ channel \in [Ids -> {"empty", "yes", "no"}]
    /\ resolver \in
         [Ids -> {"none", "remembering", "sending", "done", "failed"}]
    /\ reply \in [Ids -> {"none", "deny", "once", "remember"}]
    /\ used \in 0..MaxPrompts
    /\ restarts \in 0..MaxRestarts
    /\ allowed \in [Runs -> SUBSET Keys]
    /\ yes \in [Runs -> SUBSET Keys]
    /\ yesForGood \subseteq Keys
    /\ stored \subseteq Keys
    /\ trouble \subseteq {"read", "rename"}

(* The process starts over a file of this version, of an old one, or none. *)
Init ==
    /\ file \in Files
    /\ file.kind = "missing" <=> file.entries = {}
    /\ backup = {}
    /\ loaded = FALSE
    /\ remembered = {}
    /\ pc = [r \in Runs |-> "idle"]
    /\ key = [r \in Runs |-> None]
    /\ session = [r \in Runs |-> {}]
    /\ owner = [i \in Ids |-> None]
    /\ asked = [i \in Ids |-> None]
    /\ listed = {}
    /\ waiter = [i \in Ids |-> "unused"]
    /\ verdict = [i \in Ids |-> "no"]
    /\ channel = [i \in Ids |-> "empty"]
    /\ resolver = [i \in Ids |-> "none"]
    /\ reply = [i \in Ids |-> "none"]
    /\ used = 0
    /\ restarts = 0
    /\ allowed = [r \in Runs |-> {}]
    /\ yes = [r \in Runs |-> {}]
    /\ yesForGood = IF file.kind = "v1" THEN file.entries ELSE {}
    /\ stored = file.entries
    /\ trouble = {}

-----------------------------------------------------------------------------
(* The store (a.mcpApprovalFileMu is held by whoever loads or remembers).  *)

(* loadMCPApprovalsLocked, once per process, by the first caller that needs*)
(* it. An old file is not honoured: it is renamed, or stays if that fails. *)
Load ==
    /\ ~loaded
    /\ \/ \E r \in Runs : pc[r] = "consult"
       \/ \E i \in Ids : resolver[i] = "remembering"
    /\ loaded' = TRUE
    /\ \/ /\ file.kind # "old"
          /\ remembered' = file.entries
          /\ UNCHANGED <<file, backup, trouble>>
       \/ /\ file.kind = "old"
          /\ file' = NoFile
          /\ backup' = file.entries
          /\ UNCHANGED <<remembered, trouble>>
       \/ /\ file.kind = "old"
          /\ trouble' = trouble \cup {"rename"}
          /\ UNCHANGED <<file, backup, remembered>>
    /\ UNCHANGED <<runs, prompts, replies, restarts, stored>>

(* The flag is set before the read: a read that fails is reported to this  *)
(* caller and to no later one.                                             *)
LoadFails ==
    /\ ~loaded
    /\ file.kind # "missing"
    /\ loaded' = TRUE
    /\ trouble' = trouble \cup {"read"}
    /\ UNCHANGED <<file, backup, remembered, stored>>

-----------------------------------------------------------------------------
(* The run: Authorize and AuthorizeNoPrompt. *)

Authorize(r, k) ==
    /\ pc[r] = "idle"
    /\ pc' = [pc EXCEPT ![r] = "consult"]
    /\ key' = [key EXCEPT ![r] = k]
    /\ UNCHANGED <<store, session, allowed, prompts, replies, restarts>>

LetThrough(r) ==
    /\ pc' = [pc EXCEPT ![r] = "idle"]
    /\ key' = [key EXCEPT ![r] = None]
    /\ allowed' = [allowed EXCEPT ![r] = @ \cup {key[r]}]

Deny(r) ==
    /\ pc' = [pc EXCEPT ![r] = "idle"]
    /\ key' = [key EXCEPT ![r] = None]
    /\ UNCHANGED allowed

(* consultPersisted: a store that cannot be read has not said yes. *)
Consult(r) ==
    /\ pc[r] = "consult"
    /\ \/ LoadFails /\ Deny(r)
       \/ /\ loaded
          /\ key[r] \in remembered
          /\ LetThrough(r)
          /\ UNCHANGED store
       \/ /\ loaded
          /\ key[r] \notin remembered
          /\ pc' = [pc EXCEPT ![r] = "grants"]
          /\ UNCHANGED <<store, key, allowed>>
    /\ UNCHANGED <<session, prompts, replies, restarts>>

(* Fault: a grant of this run is good for every key it asks about. *)
CheckAnySession(r) ==
    /\ pc[r] = "grants"
    /\ \/ session[r] # {} /\ LetThrough(r)
       \/ /\ session[r] = {}
          /\ pc' = [pc EXCEPT ![r] = "ask"]
          /\ UNCHANGED <<key, allowed>>
    /\ UNCHANGED <<store, session, prompts, replies, restarts>>

(* hasSessionGrant *)
CheckSession(r) ==
    /\ pc[r] = "grants"
    /\ \/ key[r] \in session[r] /\ LetThrough(r)
       \/ /\ key[r] \notin session[r]
          /\ pc' = [pc EXCEPT ![r] = "ask"]
          /\ UNCHANGED <<key, allowed>>
    /\ UNCHANGED <<store, session, prompts, replies, restarts>>

(* awaitMCPApproval up to the select. *)
Raise(i, r, k) ==
    /\ used < MaxPrompts
    /\ i = used + 1
    /\ used' = used + 1
    /\ owner' = [owner EXCEPT ![i] = r]
    /\ asked' = [asked EXCEPT ![i] = k]
    /\ listed' = listed \cup {i}
    /\ waiter' = [waiter EXCEPT ![i] = "waiting"]
    /\ UNCHANGED <<verdict, channel>>

Ask(r) ==
    /\ pc[r] = "ask"
    /\ \E i \in Ids : Raise(i, r, key[r])
    /\ pc' = [pc EXCEPT ![r] = "waiting"]
    /\ UNCHANGED <<store, key, session, allowed, replies, restarts>>

(* The transport cannot wait: it refuses, and a goroutine of its own asks  *)
(* (policy.notify), its answer good only for a later try if remembered.    *)
AskWithoutWaiting(r) ==
    /\ pc[r] = "ask"
    /\ \E i \in Ids : Raise(i, None, key[r])
    /\ Deny(r)
    /\ UNCHANGED <<store, session, replies, restarts>>

(* No window to ask in. *)
Headless(r) ==
    /\ pc[r] = "ask"
    /\ Deny(r)
    /\ UNCHANGED <<store, session, prompts, replies, restarts>>

(* The select takes the answer, or the timeout even if an answer is there. *)
Receive(i) ==
    /\ waiter[i] = "waiting"
    /\ channel[i] # "empty"
    /\ verdict' = [verdict EXCEPT ![i] = channel[i]]
    /\ channel' = [channel EXCEPT ![i] = "empty"]
    /\ waiter' = [waiter EXCEPT ![i] = "leaving"]
    /\ UNCHANGED <<store, runs, owner, asked, listed, used, replies, restarts>>

(* Fault: a prompt nobody answers is taken for a yes. *)
GiveUpAllowing(i) ==
    /\ waiter[i] = "waiting"
    /\ verdict' = [verdict EXCEPT ![i] = "yes"]
    /\ waiter' = [waiter EXCEPT ![i] = "leaving"]
    /\ UNCHANGED <<store, runs, owner, asked, listed, channel, used, replies,
                   restarts>>

GiveUp(i) ==
    /\ waiter[i] = "waiting"
    /\ verdict' = [verdict EXCEPT ![i] = "no"]
    /\ waiter' = [waiter EXCEPT ![i] = "leaving"]
    /\ UNCHANGED <<store, runs, owner, asked, listed, channel, used, replies,
                   restarts>>

(* The deferred delete, then Authorize goes on with the verdict. *)
Return(i) ==
    /\ waiter[i] = "leaving"
    /\ listed' = listed \ {i}
    /\ waiter' = [waiter EXCEPT ![i] = "gone"]
    /\ \/ owner[i] = None /\ UNCHANGED runs
       \/ \E r \in Runs :
            /\ owner[i] = r
            /\ \/ /\ verdict[i] = "yes"
                  /\ session' = [session EXCEPT ![r] = @ \cup {key[r]}]
                  /\ LetThrough(r)
               \/ verdict[i] = "no" /\ Deny(r) /\ UNCHANGED session
    /\ UNCHANGED <<store, owner, asked, verdict, channel, used, replies,
                   restarts>>

-----------------------------------------------------------------------------
(* The user: ResolveMCPApproval. An id that is not listed is an error.     *)

(* Fault: the waiter is released first, and nothing is remembered. *)
ResolveForgetting(i, said) ==
    /\ i \in listed
    /\ listed' = listed \ {i}
    /\ reply' = [reply EXCEPT ![i] = said]
    /\ resolver' = [resolver EXCEPT ![i] = "sending"]
    /\ yes' = [r \in Runs |->
                 IF r = owner[i] /\ said # "deny"
                 THEN yes[r] \cup {asked[i]} ELSE yes[r]]
    /\ yesForGood' = IF said = "remember"
                     THEN yesForGood \cup {asked[i]} ELSE yesForGood
    /\ UNCHANGED <<store, runs, owner, asked, waiter, verdict, channel, used,
                   restarts>>

Resolve(i, said) ==
    /\ i \in listed
    /\ listed' = listed \ {i}
    /\ reply' = [reply EXCEPT ![i] = said]
    /\ resolver' = [resolver EXCEPT
                      ![i] = IF said = "remember"
                             THEN "remembering" ELSE "sending"]
    /\ yes' = [r \in Runs |->
                 IF r = owner[i] /\ said # "deny"
                 THEN yes[r] \cup {asked[i]} ELSE yes[r]]
    /\ yesForGood' = IF said = "remember"
                     THEN yesForGood \cup {asked[i]} ELSE yesForGood
    /\ UNCHANGED <<store, runs, owner, asked, waiter, verdict, channel, used,
                   restarts>>

(* A choice that could not be remembered still allows this run. *)
ReleaseAnyway(i) ==
    /\ channel' = [channel EXCEPT ![i] = "yes"]
    /\ resolver' = [resolver EXCEPT ![i] = "failed"]

(* Fault: the new approval replaces the others. *)
WriteLast ==
    /\ file' = [kind |-> "v1", entries |-> remembered' \ remembered]
    /\ stored' = stored \cup remembered'

(* writeMCPApprovalsLocked: the whole list, or nothing. *)
Write ==
    /\ file' = [kind |-> "v1", entries |-> remembered']
    /\ stored' = stored \cup remembered'

(* rememberMCPApproval: a key that is in memory is not written again. *)
Remember(i) ==
    /\ resolver[i] = "remembering"
    /\ \/ LoadFails /\ ReleaseAnyway(i)
       \/ /\ loaded
          /\ asked[i] \in remembered
          /\ resolver' = [resolver EXCEPT ![i] = "sending"]
          /\ UNCHANGED <<store, channel>>
       \/ /\ loaded
          /\ asked[i] \notin remembered
          /\ remembered' = remembered \cup {asked[i]}
          /\ \/ /\ Write
                /\ resolver' = [resolver EXCEPT ![i] = "sending"]
                /\ UNCHANGED channel
             \/ /\ ReleaseAnyway(i)
                /\ UNCHANGED <<file, stored>>
          /\ UNCHANGED <<backup, loaded, trouble>>
    /\ UNCHANGED <<runs, owner, asked, listed, waiter, verdict, used, reply,
                   yes, yesForGood, restarts>>

Send(i) ==
    /\ resolver[i] = "sending"
    /\ channel' = [channel EXCEPT
                     ![i] = IF reply[i] = "deny" THEN "no" ELSE "yes"]
    /\ resolver' = [resolver EXCEPT ![i] = "done"]
    /\ UNCHANGED <<store, runs, owner, asked, listed, waiter, verdict, used,
                   reply, yes, yesForGood, restarts>>

-----------------------------------------------------------------------------
(* The process dies and starts again: the file is what is left. *)
Restart ==
    /\ restarts < MaxRestarts
    /\ restarts' = restarts + 1
    /\ loaded' = FALSE
    /\ remembered' = {}
    /\ pc' = [r \in Runs |-> "idle"]
    /\ key' = [r \in Runs |-> None]
    /\ session' = [r \in Runs |-> {}]
    /\ allowed' = [r \in Runs |-> {}]
    /\ yes' = [r \in Runs |-> {}]
    /\ owner' = [i \in Ids |-> None]
    /\ asked' = [i \in Ids |-> None]
    /\ listed' = {}
    /\ waiter' = [i \in Ids |-> "unused"]
    /\ verdict' = [i \in Ids |-> "no"]
    /\ channel' = [i \in Ids |-> "empty"]
    /\ resolver' = [i \in Ids |-> "none"]
    /\ reply' = [i \in Ids |-> "none"]
    /\ used' = 0
    /\ UNCHANGED <<file, backup, stored, trouble, yesForGood>>

Next ==
    \/ Load
    \/ \E r \in Runs :
         \/ \E k \in Keys : Authorize(r, k)
         \/ Consult(r) \/ CheckSession(r)
         \/ Ask(r) \/ AskWithoutWaiting(r) \/ Headless(r)
    \/ \E i \in Ids :
         \/ Receive(i) \/ GiveUp(i) \/ Return(i)
         \/ \E said \in {"deny", "once", "remember"} : Resolve(i, said)
         \/ Remember(i) \/ Send(i)
    \/ Restart

Spec == Init /\ [][Next]_vars

-----------------------------------------------------------------------------
(* A run goes only where its definition points or where the user said yes: *)
(* in a prompt that this run waited for, or in one that was remembered,    *)
(* for exactly this key. Timeouts, late answers, failed loads and old files*)
(* add nothing (mcp_approvals.go:18-21).                                   *)
OnlyOnAYes ==
    \A r \in Runs : allowed[r] \subseteq yes[r] \cup yesForGood

(* When an answer that is to be remembered reaches the waiting run, the    *)
(* key is in the store that the next run consults: it does not ask again   *)
(* ("Persist BEFORE releasing the waiter", mcp_approvals.go:286).          *)
RememberedBeforeReleased ==
    \A i \in Ids :
        (resolver[i] = "done" /\ reply[i] = "remember")
            => asked[i] \in remembered

(* While no read and no rename of the file has failed, every approval it   *)
(* ever held is in it or in the backup (mcp_approvals.go:55-61).           *)
NothingDestroyed ==
    trouble = {}
        => stored \subseteq file.entries \cup backup

(* A prompt whose wait is over is not there to be answered: the deferred   *)
(* delete (mcp_approvals.go:192), whichever way the wait ended.            *)
OverIsUnlisted == \A i \in Ids : waiter[i] = "gone" => i \notin listed

-----------------------------------------------------------------------------
(* What a comment says, and the code does not do.                          *)

(* A file that could not be read keeps its approvals: the error is         *)
(* "returned, not swallowed" (mcp_approvals.go:655). The code does not keep*)
(* this, and no run checks it (README, observations).                      *)
UnreadFileIsKept ==
    "rename" \notin trouble => stored \subseteq file.entries \cup backup
=============================================================================
