------------------------- MODULE McpApprovalsProofs -------------------------
(***************************************************************************)
(* Approvals of any number of runs and keys, through any number of prompts *)
(* and crashes.                                                            *)
(***************************************************************************)
EXTENDS McpApprovals, TLAPS

Active(i) == waiter[i] \in {"waiting", "leaving"}

(* A prompt not raised yet has left no trace; a run waits for at most one  *)
(* prompt, which asks for what the run asks for.                           *)
WhoWaits ==
    /\ \A i \in Ids :
        /\ i > used => /\ waiter[i] = "unused"
                       /\ i \notin listed
                       /\ channel[i] = "empty"
                       /\ resolver[i] = "none"
        /\ i <= used => asked[i] \in Keys
        /\ Active(i) /\ owner[i] # None
             => pc[owner[i]] = "waiting" /\ key[owner[i]] = asked[i]
        /\ i \in listed => resolver[i] = "none"
        /\ waiter[i] = "gone" => i \notin listed
    /\ \A i, j \in Ids :
        Active(i) /\ Active(j) /\ owner[i] # None /\ owner[i] = owner[j]
            => i = j
    /\ \A r \in Runs : pc[r] # "idle" => key[r] \in Keys

(* What the user has approved for good is all there is in memory and in a  *)
(* file of this version.                                                   *)
StoreIsApproved ==
    /\ remembered \subseteq yesForGood
    /\ file.kind = "v1" => file.entries \subseteq yesForGood
    /\ file.kind = "missing" => file.entries = {}
    /\ \A i \in Ids :
         resolver[i] = "remembering" =>
            reply[i] = "remember" /\ asked[i] \in yesForGood

(* A yes on its way to a run was said by the user about its key.           *)
Said(i) == owner[i] # None => asked[i] \in yes[owner[i]]

YesWasSaid ==
    \A i \in Ids :
        /\ resolver[i] \in {"remembering", "sending"} /\ reply[i] # "deny"
             => Said(i)
        /\ channel[i] = "yes" => Said(i)
        /\ waiter[i] = "leaving" /\ verdict[i] = "yes" => Said(i)

GrantsWereSaid ==
    \A r \in Runs : session[r] \subseteq yes[r] \cup yesForGood

RememberedOnTime ==
    \A i \in Ids :
        resolver[i] \in {"sending", "done"} /\ reply[i] = "remember"
            => loaded /\ asked[i] \in remembered

(* A file that was loaded without trouble is all in memory; one of an old  *)
(* version has not been loaded yet.                                        *)
MemoryHasFile ==
    trouble = {} =>
        /\ loaded => file.entries \subseteq remembered
        /\ file.kind = "old" => ~loaded /\ backup = {}

IInv ==
    /\ TypeOK
    /\ WhoWaits
    /\ StoreIsApproved
    /\ YesWasSaid
    /\ GrantsWereSaid
    /\ OnlyOnAYes
    /\ RememberedOnTime
    /\ MemoryHasFile
    /\ NothingDestroyed

(* What a run does when its wait ends.                                     *)
LEMMA ReturnMoves ==
    ASSUME TypeOK, WhoWaits, NEW i \in Ids, Return(i)
    PROVE  \/ UNCHANGED <<pc, key, session, allowed>>
           \/ \E r \in Runs :
                /\ owner[i] = r /\ key[r] = asked[i] /\ key[r] \in Keys
                /\ pc' = [pc EXCEPT ![r] = "idle"]
                /\ key' = [key EXCEPT ![r] = None]
                /\ \/ session' = session /\ allowed' = allowed
                   \/ /\ verdict[i] = "yes"
                      /\ session' = [session EXCEPT ![r] = @ \cup {key[r]}]
                      /\ allowed' = [allowed EXCEPT ![r] = @ \cup {key[r]}]
  <1>1. CASE owner[i] = None /\ UNCHANGED runs
    BY <1>1 DEF runs
  <1>2. CASE ~(owner[i] = None /\ UNCHANGED runs)
    <2>1. PICK r \in Runs :
            /\ owner[i] = r
            /\ \/ /\ verdict[i] = "yes"
                  /\ session' = [session EXCEPT ![r] = @ \cup {key[r]}]
                  /\ LetThrough(r)
               \/ verdict[i] = "no" /\ Deny(r) /\ UNCHANGED session
      BY <1>2 DEF Return
    <2>2. Active(i)
      BY DEF Return, Active
    <2>3. owner[i] # None
      BY <2>1, ApprovalsAssumption
    <2>4. pc[r] = "waiting" /\ key[r] = asked[i]
      BY <2>1, <2>2, <2>3 DEF WhoWaits
    <2>5. key[r] \in Keys
      BY <2>4 DEF WhoWaits
    <2> QED
      BY <2>1, <2>4, <2>5 DEF LetThrough, Deny
  <1> QED
    BY <1>1, <1>2

(* What a run does when it has consulted the store.                        *)
LEMMA ConsultMoves ==
    ASSUME TypeOK, WhoWaits, NEW r \in Runs, Consult(r)
    PROVE  /\ key[r] \in Keys
           /\ \/ /\ trouble' = trouble \cup {"read"}
                 /\ pc' = [pc EXCEPT ![r] = "idle"]
                 /\ key' = [key EXCEPT ![r] = None]
                 /\ allowed' = allowed
              \/ /\ trouble' = trouble
                 /\ key[r] \in remembered
                 /\ pc' = [pc EXCEPT ![r] = "idle"]
                 /\ key' = [key EXCEPT ![r] = None]
                 /\ allowed' = [allowed EXCEPT ![r] = @ \cup {key[r]}]
              \/ /\ trouble' = trouble
                 /\ pc' = [pc EXCEPT ![r] = "grants"]
                 /\ UNCHANGED <<key, allowed>>
  <1>1. pc[r] = "consult" /\ key[r] \in Keys
    BY DEF Consult, WhoWaits
  <1>2. CASE LoadFails /\ Deny(r)
    BY <1>1, <1>2 DEF LoadFails, Deny
  <1>3. CASE loaded /\ key[r] \in remembered /\ LetThrough(r)
                /\ UNCHANGED store
    BY <1>1, <1>3 DEF LetThrough, store
  <1>4. CASE /\ pc' = [pc EXCEPT ![r] = "grants"]
             /\ UNCHANGED <<store, key, allowed>>
    BY <1>1, <1>4 DEF store
  <1> QED
    BY <1>2, <1>3, <1>4 DEF Consult

(* What a run does when it has looked at its own grants.                   *)
LEMMA CheckMoves ==
    ASSUME TypeOK, WhoWaits, NEW r \in Runs, CheckSession(r)
    PROVE  /\ key[r] \in Keys
           /\ pc[r] = "grants"
           /\ \/ /\ key[r] \in session[r]
                 /\ pc' = [pc EXCEPT ![r] = "idle"]
                 /\ key' = [key EXCEPT ![r] = None]
                 /\ allowed' = [allowed EXCEPT ![r] = @ \cup {key[r]}]
              \/ /\ pc' = [pc EXCEPT ![r] = "ask"]
                 /\ UNCHANGED <<key, allowed>>
           /\ UNCHANGED <<store, session, prompts, replies, restarts>>
  <1>1. pc[r] = "grants" /\ key[r] \in Keys
    BY DEF CheckSession, WhoWaits
  <1> QED
    BY <1>1 DEF CheckSession, LetThrough

(* Every step keeps the types.                                             *)
LEMMA TypeStep == TypeOK /\ WhoWaits /\ [Next]_vars => TypeOK'
  <1> SUFFICES ASSUME TypeOK /\ WhoWaits, [Next]_vars PROVE TypeOK'
    OBVIOUS
  <1> USE ApprovalsAssumption DEF TypeOK, WhoWaits, Active, Files, NoFile,
          Ids, Places, store, runs, prompts, replies
  <1>1. ASSUME Load
        PROVE  TypeOK'
    <2>1. file' \in Files
      BY <1>1 DEF Load
    <2>2. backup' \subseteq Keys
      BY <1>1 DEF Load
    <2>3. remembered' \subseteq Keys
      BY <1>1 DEF Load
    <2>4. stored' \subseteq Keys
      BY <1>1 DEF Load
    <2>5. trouble' \subseteq {"read", "rename"}
      <3>1. trouble' = trouble \/ trouble' = trouble \cup {"rename"}
        BY <1>1 DEF Load
      <3>2. trouble \subseteq {"read", "rename"}
        OBVIOUS
      <3> QED
        BY ONLY <3>1, <3>2
    <2>6. loaded' \in BOOLEAN
      BY <1>1 DEF Load
    <2>7. /\ pc' \in [Runs -> Places]
          /\ key' \in [Runs -> Keys \cup {None}]
      BY <1>1 DEF Load
    <2>8. /\ session' \in [Runs -> SUBSET Keys]
          /\ allowed' \in [Runs -> SUBSET Keys]
      BY <1>1 DEF Load
    <2>9. /\ yes' \in [Runs -> SUBSET Keys]
          /\ yesForGood' \subseteq Keys
      BY <1>1 DEF Load
    <2>10. /\ owner' \in [Ids -> Runs \cup {None}]
          /\ asked' \in [Ids -> Keys \cup {None}]
          /\ listed' \subseteq Ids
          /\ verdict' \in [Ids -> {"yes", "no"}]
      BY <1>1 DEF Load
    <2>11. /\ waiter' \in [Ids -> {"unused", "waiting", "leaving", "gone"}]
          /\ channel' \in [Ids -> {"empty", "yes", "no"}]
      BY <1>1 DEF Load
    <2>12. /\ resolver' \in
            [Ids -> {"none", "remembering", "sending", "done", "failed"}]
          /\ reply' \in [Ids -> {"none", "deny", "once", "remember"}]
      BY <1>1 DEF Load
    <2>13. /\ used' \in 0..MaxPrompts
          /\ restarts' \in 0..MaxRestarts
      BY <1>1 DEF Load
    <2> QED
      BY <2>1, <2>2, <2>3, <2>4, <2>5, <2>6, <2>7, <2>8, <2>9, <2>10,
         <2>11, <2>12, <2>13
  <1>2. ASSUME NEW r \in Runs, NEW k \in Keys, Authorize(r, k)
        PROVE  TypeOK'
    BY <1>2 DEF Authorize
  <1>3. ASSUME NEW r \in Runs, Consult(r)
        PROVE  TypeOK'
    <2>1. file' \in Files
      BY <1>3 DEF Consult, LoadFails, LetThrough, Deny
    <2>2. backup' \subseteq Keys
      BY <1>3 DEF Consult, LoadFails, LetThrough, Deny
    <2>3. remembered' \subseteq Keys
      BY <1>3 DEF Consult, LoadFails, LetThrough, Deny
    <2>4. stored' \subseteq Keys
      BY <1>3 DEF Consult, LoadFails, LetThrough, Deny
    <2>5. trouble' \subseteq {"read", "rename"}
      <3>1. trouble' = trouble \/ trouble' = trouble \cup {"read"}
        BY <1>3, ConsultMoves
      <3>2. trouble \subseteq {"read", "rename"}
        OBVIOUS
      <3> QED
        BY ONLY <3>1, <3>2
    <2>6. loaded' \in BOOLEAN
      BY <1>3 DEF Consult, LoadFails, LetThrough, Deny
    <2>7. pc' \in [Runs -> Places]
      <3>1. \/ pc' = [pc EXCEPT ![r] = "idle"]
           \/ pc' = [pc EXCEPT ![r] = "grants"]
        BY <1>3, ConsultMoves
      <3>2. pc \in [Runs -> Places]
        OBVIOUS
      <3> QED
        BY ONLY <3>1, <3>2 DEF Places
    <2>8. key' \in [Runs -> Keys \cup {None}]
      <3>1. key' = key \/ key' = [key EXCEPT ![r] = None]
        BY <1>3, ConsultMoves
      <3>2. key \in [Runs -> Keys \cup {None}]
        OBVIOUS
      <3> QED
        BY ONLY <3>1, <3>2
    <2>9. session' \in [Runs -> SUBSET Keys]
      BY <1>3 DEF Consult, LoadFails, LetThrough, Deny
    <2>10. allowed' \in [Runs -> SUBSET Keys]
      <3>1. \/ allowed' = allowed
           \/ /\ key[r] \in Keys
              /\ allowed' = [allowed EXCEPT ![r] = @ \cup {key[r]}]
        BY <1>3, ConsultMoves
      <3>2. allowed \in [Runs -> SUBSET Keys]
        OBVIOUS
      <3> QED
        BY ONLY <3>1, <3>2
    <2>11. /\ yes' \in [Runs -> SUBSET Keys]
          /\ yesForGood' \subseteq Keys
      BY <1>3 DEF Consult, LoadFails, LetThrough, Deny
    <2>12. /\ owner' \in [Ids -> Runs \cup {None}]
          /\ asked' \in [Ids -> Keys \cup {None}]
          /\ listed' \subseteq Ids
          /\ verdict' \in [Ids -> {"yes", "no"}]
      BY <1>3 DEF Consult, LoadFails, LetThrough, Deny
    <2>13. /\ waiter' \in [Ids -> {"unused", "waiting", "leaving", "gone"}]
          /\ channel' \in [Ids -> {"empty", "yes", "no"}]
      BY <1>3 DEF Consult, LoadFails, LetThrough, Deny
    <2>14. /\ resolver' \in
            [Ids -> {"none", "remembering", "sending", "done", "failed"}]
          /\ reply' \in [Ids -> {"none", "deny", "once", "remember"}]
      BY <1>3 DEF Consult, LoadFails, LetThrough, Deny
    <2>15. /\ used' \in 0..MaxPrompts
          /\ restarts' \in 0..MaxRestarts
      BY <1>3 DEF Consult, LoadFails, LetThrough, Deny
    <2> QED
      BY <2>1, <2>2, <2>3, <2>4, <2>5, <2>6, <2>7, <2>8, <2>9, <2>10,
         <2>11, <2>12, <2>13, <2>14, <2>15
  <1>4. ASSUME NEW r \in Runs, CheckSession(r)
        PROVE  TypeOK'
    <2>1. UNCHANGED <<store, session, prompts, replies, restarts>>
      BY <1>4, CheckMoves
    <2>2. pc \in [Runs -> Places] /\ key \in [Runs -> Keys \cup {None}]
      OBVIOUS
    <2>3. allowed \in [Runs -> SUBSET Keys] /\ key[r] \in Keys
      BY <1>4, CheckMoves
    <2>4. \/ pc' = [pc EXCEPT ![r] = "idle"] /\ key' = [key EXCEPT ![r] = None]
          \/ pc' = [pc EXCEPT ![r] = "ask"] /\ key' = key
      BY <1>4, CheckMoves
    <2>5. pc' \in [Runs -> Places] /\ key' \in [Runs -> Keys \cup {None}]
      BY ONLY <2>2, <2>4 DEF Places
    <2>6. \/ allowed' = allowed
          \/ allowed' = [allowed EXCEPT ![r] = @ \cup {key[r]}]
      BY <1>4, CheckMoves
    <2>7. allowed' \in [Runs -> SUBSET Keys]
      BY ONLY <2>3, <2>6
    <2> QED
      BY <2>1, <2>5, <2>7
  <1>5. ASSUME NEW r \in Runs, Ask(r)
        PROVE  TypeOK'
    BY <1>5 DEF Ask, Raise
  <1>6. ASSUME NEW r \in Runs, AskWithoutWaiting(r)
        PROVE  TypeOK'
    BY <1>6 DEF AskWithoutWaiting, Raise, Deny
  <1>7. ASSUME NEW r \in Runs, Headless(r)
        PROVE  TypeOK'
    BY <1>7 DEF Headless, Deny
  <1>8. ASSUME NEW i \in Ids, Receive(i)
        PROVE  TypeOK'
    BY <1>8 DEF Receive
  <1>9. ASSUME NEW i \in Ids, GiveUp(i)
        PROVE  TypeOK'
    BY <1>9 DEF GiveUp
  <1>10. ASSUME NEW i \in Ids, Return(i)
        PROVE  TypeOK'
    <2>1. /\ file' \in Files
          /\ backup' \subseteq Keys
          /\ remembered' \subseteq Keys
          /\ stored' \subseteq Keys
          /\ trouble' \subseteq {"read", "rename"}
      BY <1>10 DEF Return, LetThrough, Deny
    <2>2. loaded' \in BOOLEAN
      BY <1>10 DEF Return, LetThrough, Deny
    <2>3. pc' \in [Runs -> Places]
      <3>1. \/ pc' = pc
           \/ \E r \in Runs : pc' = [pc EXCEPT ![r] = "idle"]
        BY <1>10, ReturnMoves
      <3>2. pc \in [Runs -> Places]
        OBVIOUS
      <3> QED
        BY ONLY <3>1, <3>2 DEF Places
    <2>4. key' \in [Runs -> Keys \cup {None}]
      <3>1. key' = key \/ \E r \in Runs : key' = [key EXCEPT ![r] = None]
        BY <1>10, ReturnMoves
      <3>2. key \in [Runs -> Keys \cup {None}]
        OBVIOUS
      <3> QED
        BY ONLY <3>1, <3>2
    <2>5. session' \in [Runs -> SUBSET Keys]
      <3>1. \/ session' = session
           \/ \E r \in Runs :
                /\ key[r] \in Keys
                /\ session' = [session EXCEPT ![r] = @ \cup {key[r]}]
        BY <1>10, ReturnMoves
      <3>2. session \in [Runs -> SUBSET Keys]
        OBVIOUS
      <3> QED
        BY ONLY <3>1, <3>2
    <2>6. allowed' \in [Runs -> SUBSET Keys]
      <3>1. \/ allowed' = allowed
           \/ \E r \in Runs :
                /\ key[r] \in Keys
                /\ allowed' = [allowed EXCEPT ![r] = @ \cup {key[r]}]
        BY <1>10, ReturnMoves
      <3>2. allowed \in [Runs -> SUBSET Keys]
        OBVIOUS
      <3> QED
        BY ONLY <3>1, <3>2
    <2>7. /\ yes' \in [Runs -> SUBSET Keys]
          /\ yesForGood' \subseteq Keys
      BY <1>10 DEF Return, LetThrough, Deny
    <2>8. /\ owner' \in [Ids -> Runs \cup {None}]
          /\ asked' \in [Ids -> Keys \cup {None}]
          /\ listed' \subseteq Ids
          /\ verdict' \in [Ids -> {"yes", "no"}]
      BY <1>10 DEF Return, LetThrough, Deny
    <2>9. /\ waiter' \in [Ids -> {"unused", "waiting", "leaving", "gone"}]
          /\ channel' \in [Ids -> {"empty", "yes", "no"}]
      BY <1>10 DEF Return, LetThrough, Deny
    <2>10. /\ resolver' \in
            [Ids -> {"none", "remembering", "sending", "done", "failed"}]
          /\ reply' \in [Ids -> {"none", "deny", "once", "remember"}]
      BY <1>10 DEF Return, LetThrough, Deny
    <2>11. /\ used' \in 0..MaxPrompts
          /\ restarts' \in 0..MaxRestarts
      BY <1>10 DEF Return, LetThrough, Deny
    <2> QED
      BY <2>1, <2>2, <2>3, <2>4, <2>5, <2>6, <2>7, <2>8, <2>9, <2>10,
         <2>11
  <1>11. ASSUME NEW i \in Ids, NEW said \in {"deny", "once", "remember"},
          Resolve(i, said)
        PROVE  TypeOK'
    BY <1>11 DEF Resolve
  <1>12. ASSUME NEW i \in Ids, Remember(i)
        PROVE  TypeOK'
    <2>1. file' \in Files
      BY <1>12 DEF Remember, LoadFails, ReleaseAnyway, Write
    <2>2. backup' \subseteq Keys
      BY <1>12 DEF Remember, LoadFails, ReleaseAnyway, Write
    <2>3. remembered' \subseteq Keys
      BY <1>12 DEF Remember, LoadFails, ReleaseAnyway, Write
    <2>4. stored' \subseteq Keys
      BY <1>12 DEF Remember, LoadFails, ReleaseAnyway, Write
    <2>5. trouble' \subseteq {"read", "rename"}
      <3>1. trouble' = trouble \/ trouble' = trouble \cup {"read"}
        BY <1>12 DEF Remember, LoadFails, ReleaseAnyway, Write
      <3>2. trouble \subseteq {"read", "rename"}
        OBVIOUS
      <3> QED
        BY ONLY <3>1, <3>2
    <2>6. loaded' \in BOOLEAN
      BY <1>12 DEF Remember, LoadFails, ReleaseAnyway, Write
    <2>7. /\ pc' \in [Runs -> Places]
          /\ key' \in [Runs -> Keys \cup {None}]
      BY <1>12 DEF Remember, LoadFails, ReleaseAnyway, Write
    <2>8. /\ session' \in [Runs -> SUBSET Keys]
          /\ allowed' \in [Runs -> SUBSET Keys]
      BY <1>12 DEF Remember, LoadFails, ReleaseAnyway, Write
    <2>9. /\ yes' \in [Runs -> SUBSET Keys]
          /\ yesForGood' \subseteq Keys
      BY <1>12 DEF Remember, LoadFails, ReleaseAnyway, Write
    <2>10. /\ owner' \in [Ids -> Runs \cup {None}]
          /\ asked' \in [Ids -> Keys \cup {None}]
          /\ listed' \subseteq Ids
          /\ verdict' \in [Ids -> {"yes", "no"}]
      BY <1>12 DEF Remember, LoadFails, ReleaseAnyway, Write
    <2>11. waiter' \in [Ids -> {"unused", "waiting", "leaving", "gone"}]
      BY <1>12 DEF Remember, LoadFails, ReleaseAnyway, Write
    <2>12. channel' \in [Ids -> {"empty", "yes", "no"}]
      <3>1. channel' = channel \/ channel' = [channel EXCEPT ![i] = "yes"]
        BY <1>12 DEF Remember, LoadFails, ReleaseAnyway, Write
      <3>2. channel \in [Ids -> {"empty", "yes", "no"}]
        OBVIOUS
      <3> QED
        BY ONLY <3>1, <3>2
    <2>13. resolver' \in
            [Ids -> {"none", "remembering", "sending", "done", "failed"}]
      <3>1. \/ resolver' = [resolver EXCEPT ![i] = "sending"]
           \/ resolver' = [resolver EXCEPT ![i] = "failed"]
        BY <1>12 DEF Remember, LoadFails, ReleaseAnyway, Write
      <3>2. resolver \in
            [Ids -> {"none", "remembering", "sending", "done", "failed"}]
        OBVIOUS
      <3> QED
        BY ONLY <3>1, <3>2
    <2>14. reply' \in [Ids -> {"none", "deny", "once", "remember"}]
      BY <1>12 DEF Remember, LoadFails, ReleaseAnyway, Write
    <2>15. /\ used' \in 0..MaxPrompts
          /\ restarts' \in 0..MaxRestarts
      BY <1>12 DEF Remember, LoadFails, ReleaseAnyway, Write
    <2> QED
      BY <2>1, <2>2, <2>3, <2>4, <2>5, <2>6, <2>7, <2>8, <2>9, <2>10,
         <2>11, <2>12, <2>13, <2>14, <2>15
  <1>13. ASSUME NEW i \in Ids, Send(i)
        PROVE  TypeOK'
    BY <1>13 DEF Send
  <1>14. ASSUME Restart
        PROVE  TypeOK'
    <2>1. /\ file' \in Files
          /\ backup' \subseteq Keys
          /\ remembered' \subseteq Keys
          /\ stored' \subseteq Keys
          /\ trouble' \subseteq {"read", "rename"}
      BY <1>14 DEF Restart
    <2>2. loaded' \in BOOLEAN
      BY <1>14 DEF Restart
    <2>3. /\ pc' \in [Runs -> Places]
          /\ key' \in [Runs -> Keys \cup {None}]
      BY <1>14 DEF Restart
    <2>4. /\ session' \in [Runs -> SUBSET Keys]
          /\ allowed' \in [Runs -> SUBSET Keys]
      BY <1>14 DEF Restart
    <2>5. /\ yes' \in [Runs -> SUBSET Keys]
          /\ yesForGood' \subseteq Keys
      BY <1>14 DEF Restart
    <2>6. /\ owner' \in [Ids -> Runs \cup {None}]
          /\ asked' \in [Ids -> Keys \cup {None}]
          /\ listed' \subseteq Ids
          /\ verdict' \in [Ids -> {"yes", "no"}]
      BY <1>14 DEF Restart
    <2>7. /\ waiter' \in [Ids -> {"unused", "waiting", "leaving", "gone"}]
          /\ channel' \in [Ids -> {"empty", "yes", "no"}]
      BY <1>14 DEF Restart
    <2>8. /\ resolver' \in
            [Ids -> {"none", "remembering", "sending", "done", "failed"}]
          /\ reply' \in [Ids -> {"none", "deny", "once", "remember"}]
      BY <1>14 DEF Restart
    <2>9. /\ used' \in 0..MaxPrompts
          /\ restarts' \in 0..MaxRestarts
      BY <1>14 DEF Restart
    <2> QED
      BY <2>1, <2>2, <2>3, <2>4, <2>5, <2>6, <2>7, <2>8, <2>9
  <1>15. CASE UNCHANGED vars
    BY <1>15 DEF vars
  <1> HIDE DEF TypeOK, WhoWaits, Active, Files, NoFile, Ids, Places
  <1> QED
    BY <1>1, <1>2, <1>3, <1>4, <1>5, <1>6, <1>7, <1>8, <1>9, <1>10,
       <1>11, <1>12, <1>13, <1>14, <1>15
    DEF Next

(* A run raises one prompt at a time.                                      *)
LEMMA WaitStep == TypeOK /\ TypeOK' /\ WhoWaits /\ [Next]_vars => WhoWaits'
  <1> SUFFICES ASSUME TypeOK /\ TypeOK' /\ WhoWaits, [Next]_vars
               PROVE  WhoWaits'
    OBVIOUS
  <1> USE ApprovalsAssumption DEF TypeOK, WhoWaits, Active, Ids, Places,
          store, runs, prompts, replies
  <1>1. ASSUME Load
        PROVE  WhoWaits'
    BY <1>1 DEF Load
  <1>2. ASSUME NEW r \in Runs, NEW k \in Keys, Authorize(r, k)
        PROVE  WhoWaits'
    BY <1>2 DEF Authorize
  <1>3. ASSUME NEW r \in Runs, Consult(r)
        PROVE  WhoWaits'
    <2>1. pc[r] = "consult" /\ key[r] \in Keys
      BY <1>3 DEF Consult
    <2>2. UNCHANGED prompts /\ UNCHANGED resolver
      BY <1>3 DEF Consult
    <2>3. \/ pc' = [pc EXCEPT ![r] = "idle"] /\ key' = [key EXCEPT ![r] = None]
          \/ pc' = [pc EXCEPT ![r] = "grants"] /\ key' = key
      BY <1>3, ConsultMoves
    <2>4. \A j \in Ids : Active(j) /\ owner[j] # None => owner[j] # r
      BY <2>1
    <2>5. \A j \in Ids : owner[j] # None => owner[j] \in Runs
      OBVIOUS
    <2>6. /\ pc \in [Runs -> Places]
          /\ key \in [Runs -> Keys \cup {None}]
      OBVIOUS
    <2>7. \A q \in Runs \ {r} : pc'[q] = pc[q] /\ key'[q] = key[q]
      BY <2>3, <2>6
    <2>8. pc'[r] # "idle" => key'[r] \in Keys
      BY <2>1, <2>3, <2>6
    <2>9. \A q \in Runs : pc'[q] # "idle" => key'[q] \in Keys
      BY <2>7, <2>8
    <2>10. \A j \in Ids : Active(j) /\ owner[j] # None
             => pc'[owner[j]] = "waiting" /\ key'[owner[j]] = asked[j]
      BY <2>4, <2>5, <2>7
    <2> QED
      BY <2>2, <2>9, <2>10
  <1>4. ASSUME NEW r \in Runs, CheckSession(r)
        PROVE  WhoWaits'
    <2>1. pc[r] = "grants" /\ key[r] \in Keys
      BY <1>4 DEF CheckSession
    <2>2. UNCHANGED prompts /\ UNCHANGED resolver
      BY <1>4 DEF CheckSession
    <2>3. \/ pc' = [pc EXCEPT ![r] = "idle"] /\ key' = [key EXCEPT ![r] = None]
          \/ pc' = [pc EXCEPT ![r] = "ask"] /\ key' = key
      BY <1>4, CheckMoves
    <2>4. \A j \in Ids : Active(j) /\ owner[j] # None => owner[j] # r
      BY <2>1
    <2>5. \A j \in Ids : owner[j] # None => owner[j] \in Runs
      OBVIOUS
    <2>6. /\ pc \in [Runs -> Places]
          /\ key \in [Runs -> Keys \cup {None}]
      OBVIOUS
    <2>7. \A q \in Runs \ {r} : pc'[q] = pc[q] /\ key'[q] = key[q]
      BY <2>3, <2>6
    <2>8. pc'[r] # "idle" => key'[r] \in Keys
      BY <2>1, <2>3, <2>6
    <2>9. \A q \in Runs : pc'[q] # "idle" => key'[q] \in Keys
      BY <2>7, <2>8
    <2>10. \A j \in Ids : Active(j) /\ owner[j] # None
             => pc'[owner[j]] = "waiting" /\ key'[owner[j]] = asked[j]
      BY <2>4, <2>5, <2>7
    <2> QED
      BY <2>2, <2>9, <2>10
  <1>5. ASSUME NEW r \in Runs, Ask(r)
        PROVE  WhoWaits'
    BY <1>5 DEF Ask, Raise
  <1>6. ASSUME NEW r \in Runs, AskWithoutWaiting(r)
        PROVE  WhoWaits'
    BY <1>6 DEF AskWithoutWaiting, Raise, Deny
  <1>7. ASSUME NEW r \in Runs, Headless(r)
        PROVE  WhoWaits'
    BY <1>7 DEF Headless, Deny
  <1>8. ASSUME NEW i \in Ids, Receive(i)
        PROVE  WhoWaits'
    BY <1>8 DEF Receive
  <1>9. ASSUME NEW i \in Ids, GiveUp(i)
        PROVE  WhoWaits'
    BY <1>9 DEF GiveUp
  <1>10. ASSUME NEW i \in Ids, Return(i)
        PROVE  WhoWaits'
    <2>1. /\ waiter' = [waiter EXCEPT ![i] = "gone"]
          /\ listed' = listed \ {i}
          /\ UNCHANGED <<owner, asked, used, channel, resolver>>
          /\ waiter[i] = "leaving"
      BY <1>10 DEF Return
    <2>2. \A j \in Ids : /\ waiter'[j] = IF j = i THEN "gone" ELSE waiter[j]
                         /\ Active(j)' <=> Active(j) /\ j # i
                         /\ waiter'[j] = "gone" => j \notin listed'
      BY <2>1
    <2>3. \A j \in Ids : Active(j) /\ owner[j] # None /\ owner[j] = owner[i]
                           => j = i
      BY <2>1
    <2>4. \A j \in Ids : owner[j] # None => owner[j] \in Runs
      OBVIOUS
    <2>5. pc \in [Runs -> Places] /\ key \in [Runs -> Keys \cup {None}]
      OBVIOUS
    <2>6. \/ pc' = pc /\ key' = key
          \/ \E r \in Runs : /\ owner[i] = r
                             /\ pc' = [pc EXCEPT ![r] = "idle"]
                             /\ key' = [key EXCEPT ![r] = None]
      BY <1>10, ReturnMoves
    <2>7. \A q \in Runs : q # owner[i] => pc'[q] = pc[q] /\ key'[q] = key[q]
      BY ONLY <2>5, <2>6
    <2>8. \A q \in Runs : pc'[q] # "idle" => key'[q] \in Keys
      <3>1. \A q \in Runs : pc[q] # "idle" => key[q] \in Keys
        OBVIOUS
      <3> QED
        BY ONLY <2>5, <2>6, <3>1
    <2>9. \A j \in Ids : Active(j)' /\ owner[j] # None
            => pc'[owner[j]] = "waiting" /\ key'[owner[j]] = asked[j]
      BY <2>2, <2>3, <2>4, <2>7
    <2>10. \A j \in Ids : /\ j > used => /\ waiter'[j] = "unused"
                                        /\ j \notin listed'
                         /\ j \in listed' => j \in listed
      BY <2>1, <2>2
    <2> QED
      BY <2>1, <2>2, <2>8, <2>9, <2>10
  <1>11. ASSUME NEW i \in Ids, NEW said \in {"deny", "once", "remember"},
          Resolve(i, said)
        PROVE  WhoWaits'
    BY <1>11 DEF Resolve
  <1>12. ASSUME NEW i \in Ids, Remember(i)
        PROVE  WhoWaits'
    BY <1>12 DEF Remember, LoadFails, ReleaseAnyway, Write
  <1>13. ASSUME NEW i \in Ids, Send(i)
        PROVE  WhoWaits'
    BY <1>13 DEF Send
  <1>14. ASSUME Restart
        PROVE  WhoWaits'
    BY <1>14 DEF Restart
  <1>15. CASE UNCHANGED vars
    BY <1>15 DEF vars
  <1> HIDE DEF TypeOK, WhoWaits, Active, Ids, Places
  <1> QED
    BY <1>1, <1>2, <1>3, <1>4, <1>5, <1>6, <1>7, <1>8, <1>9, <1>10,
       <1>11, <1>12, <1>13, <1>14, <1>15
    DEF Next

(* The store learns only what the user said.                               *)
LEMMA ApprovedStep ==
    TypeOK /\ WhoWaits /\ StoreIsApproved /\ [Next]_vars
      => StoreIsApproved'
  <1> SUFFICES ASSUME TypeOK /\ WhoWaits /\ StoreIsApproved, [Next]_vars
               PROVE  StoreIsApproved'
    OBVIOUS
  <1> USE ApprovalsAssumption DEF TypeOK, WhoWaits, Active, StoreIsApproved,
          Ids, Files, NoFile, store, runs, prompts, replies
  <1>1. ASSUME Load
        PROVE  StoreIsApproved'
    BY <1>1 DEF Load
  <1>2. ASSUME NEW r \in Runs, NEW k \in Keys, Authorize(r, k)
        PROVE  StoreIsApproved'
    BY <1>2 DEF Authorize
  <1>3. ASSUME NEW r \in Runs, Consult(r)
        PROVE  StoreIsApproved'
    BY <1>3 DEF Consult, LoadFails, LetThrough, Deny
  <1>4. ASSUME NEW r \in Runs, CheckSession(r)
        PROVE  StoreIsApproved'
    BY <1>4 DEF CheckSession, LetThrough
  <1>5. ASSUME NEW r \in Runs, Ask(r)
        PROVE  StoreIsApproved'
    BY <1>5 DEF Ask, Raise
  <1>6. ASSUME NEW r \in Runs, AskWithoutWaiting(r)
        PROVE  StoreIsApproved'
    BY <1>6 DEF AskWithoutWaiting, Raise, Deny
  <1>7. ASSUME NEW r \in Runs, Headless(r)
        PROVE  StoreIsApproved'
    BY <1>7 DEF Headless, Deny
  <1>8. ASSUME NEW i \in Ids, Receive(i)
        PROVE  StoreIsApproved'
    BY <1>8 DEF Receive
  <1>9. ASSUME NEW i \in Ids, GiveUp(i)
        PROVE  StoreIsApproved'
    BY <1>9 DEF GiveUp
  <1>10. ASSUME NEW i \in Ids, Return(i)
        PROVE  StoreIsApproved'
    BY <1>10 DEF Return, LetThrough, Deny
  <1>11. ASSUME NEW i \in Ids, NEW said \in {"deny", "once", "remember"},
          Resolve(i, said)
        PROVE  StoreIsApproved'
    BY <1>11 DEF Resolve
  <1>12. ASSUME NEW i \in Ids, Remember(i)
        PROVE  StoreIsApproved'
    BY <1>12 DEF Remember, LoadFails, ReleaseAnyway, Write
  <1>13. ASSUME NEW i \in Ids, Send(i)
        PROVE  StoreIsApproved'
    BY <1>13 DEF Send
  <1>14. ASSUME Restart
        PROVE  StoreIsApproved'
    BY <1>14 DEF Restart
  <1>15. CASE UNCHANGED vars
    BY <1>15 DEF vars
  <1> HIDE DEF TypeOK, WhoWaits, Active, StoreIsApproved, Ids, Files, NoFile
  <1> QED
    BY <1>1, <1>2, <1>3, <1>4, <1>5, <1>6, <1>7, <1>8, <1>9, <1>10,
       <1>11, <1>12, <1>13, <1>14, <1>15
    DEF Next

(* No answer is made up or changed on its way.                             *)
LEMMA SaidStep ==
    TypeOK /\ WhoWaits /\ StoreIsApproved /\ YesWasSaid /\ [Next]_vars
      => YesWasSaid'
  <1> SUFFICES ASSUME TypeOK /\ WhoWaits /\ StoreIsApproved /\ YesWasSaid,
                      [Next]_vars
               PROVE  YesWasSaid'
    OBVIOUS
  <1> USE ApprovalsAssumption DEF TypeOK, WhoWaits, Active, StoreIsApproved,
          YesWasSaid, Said, Ids, store, runs, prompts, replies
  <1>1. ASSUME Load
        PROVE  YesWasSaid'
    BY <1>1 DEF Load
  <1>2. ASSUME NEW r \in Runs, NEW k \in Keys, Authorize(r, k)
        PROVE  YesWasSaid'
    BY <1>2 DEF Authorize
  <1>3. ASSUME NEW r \in Runs, Consult(r)
        PROVE  YesWasSaid'
    BY <1>3 DEF Consult, LoadFails, LetThrough, Deny
  <1>4. ASSUME NEW r \in Runs, CheckSession(r)
        PROVE  YesWasSaid'
    BY <1>4 DEF CheckSession, LetThrough
  <1>5. ASSUME NEW r \in Runs, Ask(r)
        PROVE  YesWasSaid'
    BY <1>5 DEF Ask, Raise
  <1>6. ASSUME NEW r \in Runs, AskWithoutWaiting(r)
        PROVE  YesWasSaid'
    BY <1>6 DEF AskWithoutWaiting, Raise, Deny
  <1>7. ASSUME NEW r \in Runs, Headless(r)
        PROVE  YesWasSaid'
    BY <1>7 DEF Headless, Deny
  <1>8. ASSUME NEW i \in Ids, Receive(i)
        PROVE  YesWasSaid'
    BY <1>8 DEF Receive
  <1>9. ASSUME NEW i \in Ids, GiveUp(i)
        PROVE  YesWasSaid'
    BY <1>9 DEF GiveUp
  <1>10. ASSUME NEW i \in Ids, Return(i)
        PROVE  YesWasSaid'
    BY <1>10 DEF Return, LetThrough, Deny
  <1>11. ASSUME NEW i \in Ids, NEW said \in {"deny", "once", "remember"},
          Resolve(i, said)
        PROVE  YesWasSaid'
    BY <1>11 DEF Resolve
  <1>12. ASSUME NEW i \in Ids, Remember(i)
        PROVE  YesWasSaid'
    <2>1. /\ owner' = owner /\ asked' = asked /\ reply' = reply /\ yes' = yes
          /\ waiter' = waiter /\ verdict' = verdict
      BY <1>12 DEF Remember
    <2>2. \A j \in Ids :
            /\ resolver'[j] \in {"remembering", "sending"}
                 => resolver[j] \in {"remembering", "sending"}
            /\ channel'[j] = "yes" => channel[j] = "yes" \/ j = i
      BY <1>12 DEF Remember, LoadFails, ReleaseAnyway, Write
    <2>3. reply[i] # "deny" /\ resolver[i] = "remembering"
      BY <1>12 DEF Remember
    <2> QED
      BY <2>1, <2>2, <2>3
  <1>13. ASSUME NEW i \in Ids, Send(i)
        PROVE  YesWasSaid'
    BY <1>13 DEF Send
  <1>14. ASSUME Restart
        PROVE  YesWasSaid'
    BY <1>14 DEF Restart
  <1>15. CASE UNCHANGED vars
    BY <1>15 DEF vars
  <1> HIDE DEF TypeOK, WhoWaits, Active, StoreIsApproved, YesWasSaid, Said, Ids
  <1> QED
    BY <1>1, <1>2, <1>3, <1>4, <1>5, <1>6, <1>7, <1>8, <1>9, <1>10,
       <1>11, <1>12, <1>13, <1>14, <1>15
    DEF Next

(* A run gets through for its own key only.                                *)
LEMMA GrantStep ==
    TypeOK /\ WhoWaits /\ StoreIsApproved /\ YesWasSaid /\ GrantsWereSaid
    /\ OnlyOnAYes /\ [Next]_vars
      => (GrantsWereSaid /\ OnlyOnAYes)'
  <1> SUFFICES ASSUME TypeOK /\ WhoWaits /\ StoreIsApproved /\ YesWasSaid /\
                      GrantsWereSaid /\ OnlyOnAYes, [Next]_vars
               PROVE  (GrantsWereSaid /\ OnlyOnAYes)'
    OBVIOUS
  <1> USE ApprovalsAssumption DEF TypeOK, WhoWaits, Active, StoreIsApproved,
          YesWasSaid, Said, GrantsWereSaid, OnlyOnAYes, Ids, Places, store,
          runs, prompts, replies
  <1>1. ASSUME Load
        PROVE  (GrantsWereSaid /\ OnlyOnAYes)'
    BY <1>1 DEF Load
  <1>2. ASSUME NEW r \in Runs, NEW k \in Keys, Authorize(r, k)
        PROVE  (GrantsWereSaid /\ OnlyOnAYes)'
    BY <1>2 DEF Authorize
  <1>3. ASSUME NEW r \in Runs, Consult(r)
        PROVE  (GrantsWereSaid /\ OnlyOnAYes)'
    <2>1. session' = session /\ yes' = yes /\ yesForGood' = yesForGood
      BY <1>3 DEF Consult
    <2>2. \/ allowed' = allowed
          \/ /\ key[r] \in remembered
             /\ allowed' = [allowed EXCEPT ![r] = @ \cup {key[r]}]
      BY <1>3, ConsultMoves
    <2>3. /\ remembered \subseteq yesForGood
          /\ allowed \in [Runs -> SUBSET Keys]
      OBVIOUS
    <2> HIDE DEF TypeOK, WhoWaits, StoreIsApproved, YesWasSaid
    <2> QED
      BY <2>1, <2>2, <2>3
  <1>4. ASSUME NEW r \in Runs, CheckSession(r)
        PROVE  (GrantsWereSaid /\ OnlyOnAYes)'
    <2>1. session' = session /\ yes' = yes /\ yesForGood' = yesForGood
      BY <1>4, CheckMoves
    <2>2. \/ allowed' = allowed
          \/ /\ key[r] \in session[r]
             /\ allowed' = [allowed EXCEPT ![r] = @ \cup {key[r]}]
      BY <1>4, CheckMoves
    <2>3. allowed \in [Runs -> SUBSET Keys]
      OBVIOUS
    <2> HIDE DEF TypeOK, WhoWaits, StoreIsApproved, YesWasSaid
    <2> QED
      BY <2>1, <2>2, <2>3
  <1>5. ASSUME NEW r \in Runs, Ask(r)
        PROVE  (GrantsWereSaid /\ OnlyOnAYes)'
    BY <1>5 DEF Ask, Raise
  <1>6. ASSUME NEW r \in Runs, AskWithoutWaiting(r)
        PROVE  (GrantsWereSaid /\ OnlyOnAYes)'
    BY <1>6 DEF AskWithoutWaiting, Raise, Deny
  <1>7. ASSUME NEW r \in Runs, Headless(r)
        PROVE  (GrantsWereSaid /\ OnlyOnAYes)'
    BY <1>7 DEF Headless, Deny
  <1>8. ASSUME NEW i \in Ids, Receive(i)
        PROVE  (GrantsWereSaid /\ OnlyOnAYes)'
    BY <1>8 DEF Receive
  <1>9. ASSUME NEW i \in Ids, GiveUp(i)
        PROVE  (GrantsWereSaid /\ OnlyOnAYes)'
    BY <1>9 DEF GiveUp
  <1>10. ASSUME NEW i \in Ids, Return(i)
        PROVE  (GrantsWereSaid /\ OnlyOnAYes)'
    <2>1. yes' = yes /\ yesForGood' = yesForGood
      BY <1>10 DEF Return
    <2>2. \/ session' = session /\ allowed' = allowed
          \/ \E r \in Runs :
               /\ key[r] \in yes[r]
               /\ \/ session' = session /\ allowed' = allowed
                  \/ /\ session' = [session EXCEPT ![r] = @ \cup {key[r]}]
                     /\ allowed' = [allowed EXCEPT ![r] = @ \cup {key[r]}]
      <3>1. waiter[i] = "leaving"
        BY <1>10 DEF Return
      <3>2. verdict[i] = "yes" => Said(i)
        BY <3>1
      <3>3. \A r \in Runs : r # None
        OBVIOUS
      <3> HIDE DEF TypeOK, WhoWaits, StoreIsApproved, YesWasSaid
      <3> QED
        BY <1>10, <3>2, <3>3, ReturnMoves
    <2>3. /\ allowed \in [Runs -> SUBSET Keys]
          /\ session \in [Runs -> SUBSET Keys]
      OBVIOUS
    <2> HIDE DEF TypeOK, WhoWaits, StoreIsApproved, YesWasSaid
    <2> QED
      BY <2>1, <2>2, <2>3
  <1>11. ASSUME NEW i \in Ids, NEW said \in {"deny", "once", "remember"},
          Resolve(i, said)
        PROVE  (GrantsWereSaid /\ OnlyOnAYes)'
    BY <1>11 DEF Resolve
  <1>12. ASSUME NEW i \in Ids, Remember(i)
        PROVE  (GrantsWereSaid /\ OnlyOnAYes)'
    BY <1>12 DEF Remember, LoadFails, ReleaseAnyway, Write
  <1>13. ASSUME NEW i \in Ids, Send(i)
        PROVE  (GrantsWereSaid /\ OnlyOnAYes)'
    BY <1>13 DEF Send
  <1>14. ASSUME Restart
        PROVE  (GrantsWereSaid /\ OnlyOnAYes)'
    BY <1>14 DEF Restart
  <1>15. CASE UNCHANGED vars
    BY <1>15 DEF vars
  <1> HIDE DEF TypeOK, WhoWaits, Active, StoreIsApproved, YesWasSaid, Said,
              GrantsWereSaid, OnlyOnAYes, Ids, Places
  <1> QED
    BY <1>1, <1>2, <1>3, <1>4, <1>5, <1>6, <1>7, <1>8, <1>9, <1>10,
       <1>11, <1>12, <1>13, <1>14, <1>15
    DEF Next

(* The store has the key before the waiter is released.                    *)
LEMMA OnTimeStep ==
    TypeOK /\ WhoWaits /\ StoreIsApproved /\ RememberedOnTime /\
    [Next]_vars
      => RememberedOnTime'
  <1> SUFFICES ASSUME TypeOK /\ WhoWaits /\ StoreIsApproved /\
                      RememberedOnTime, [Next]_vars
               PROVE  RememberedOnTime'
    OBVIOUS
  <1> USE ApprovalsAssumption DEF TypeOK, WhoWaits, Active, StoreIsApproved,
          RememberedOnTime, Ids, store, runs, prompts, replies
  <1>1. ASSUME Load
        PROVE  RememberedOnTime'
    BY <1>1 DEF Load
  <1>2. ASSUME NEW r \in Runs, NEW k \in Keys, Authorize(r, k)
        PROVE  RememberedOnTime'
    BY <1>2 DEF Authorize
  <1>3. ASSUME NEW r \in Runs, Consult(r)
        PROVE  RememberedOnTime'
    BY <1>3 DEF Consult, LoadFails, LetThrough, Deny
  <1>4. ASSUME NEW r \in Runs, CheckSession(r)
        PROVE  RememberedOnTime'
    BY <1>4 DEF CheckSession, LetThrough
  <1>5. ASSUME NEW r \in Runs, Ask(r)
        PROVE  RememberedOnTime'
    BY <1>5 DEF Ask, Raise
  <1>6. ASSUME NEW r \in Runs, AskWithoutWaiting(r)
        PROVE  RememberedOnTime'
    BY <1>6 DEF AskWithoutWaiting, Raise, Deny
  <1>7. ASSUME NEW r \in Runs, Headless(r)
        PROVE  RememberedOnTime'
    BY <1>7 DEF Headless, Deny
  <1>8. ASSUME NEW i \in Ids, Receive(i)
        PROVE  RememberedOnTime'
    BY <1>8 DEF Receive
  <1>9. ASSUME NEW i \in Ids, GiveUp(i)
        PROVE  RememberedOnTime'
    BY <1>9 DEF GiveUp
  <1>10. ASSUME NEW i \in Ids, Return(i)
        PROVE  RememberedOnTime'
    BY <1>10 DEF Return, LetThrough, Deny
  <1>11. ASSUME NEW i \in Ids, NEW said \in {"deny", "once", "remember"},
          Resolve(i, said)
        PROVE  RememberedOnTime'
    BY <1>11 DEF Resolve
  <1>12. ASSUME NEW i \in Ids, Remember(i)
        PROVE  RememberedOnTime'
    BY <1>12 DEF Remember, LoadFails, ReleaseAnyway, Write
  <1>13. ASSUME NEW i \in Ids, Send(i)
        PROVE  RememberedOnTime'
    BY <1>13 DEF Send
  <1>14. ASSUME Restart
        PROVE  RememberedOnTime'
    BY <1>14 DEF Restart
  <1>15. CASE UNCHANGED vars
    BY <1>15 DEF vars
  <1> HIDE DEF TypeOK, WhoWaits, Active, StoreIsApproved, RememberedOnTime, Ids
  <1> QED
    BY <1>1, <1>2, <1>3, <1>4, <1>5, <1>6, <1>7, <1>8, <1>9, <1>10,
       <1>11, <1>12, <1>13, <1>14, <1>15
    DEF Next

(* Only trouble takes an approval off the disk.                            *)
LEMMA FileStep ==
    TypeOK /\ StoreIsApproved /\ MemoryHasFile /\ NothingDestroyed /\
    [Next]_vars
      => (MemoryHasFile /\ NothingDestroyed)'
  <1> SUFFICES ASSUME TypeOK /\ StoreIsApproved /\ MemoryHasFile /\
                      NothingDestroyed, [Next]_vars
               PROVE  (MemoryHasFile /\ NothingDestroyed)'
    OBVIOUS
  <1> USE ApprovalsAssumption DEF TypeOK, StoreIsApproved, MemoryHasFile,
          NothingDestroyed, Files, NoFile, store, runs, prompts, replies
  <1>1. ASSUME Load
        PROVE  (MemoryHasFile /\ NothingDestroyed)'
    <2>1. stored' = stored /\ loaded' = TRUE /\ loaded = FALSE
      BY <1>1 DEF Load
    <2>2. CASE /\ file.kind # "old"
               /\ remembered' = file.entries
               /\ UNCHANGED <<file, backup, trouble>>
      BY <2>1, <2>2
    <2>3. CASE file.kind = "old" /\ file' = NoFile /\ backup' = file.entries
      <3>1. trouble' = trouble
        BY <1>1, <2>3 DEF Load
      <3> QED
        BY <2>1, <2>3, <3>1
    <2>4. CASE trouble' = trouble \cup {"rename"}
      BY <2>4
    <2> QED
      BY <1>1, <2>2, <2>3, <2>4 DEF Load
  <1>2. ASSUME NEW r \in Runs, NEW k \in Keys, Authorize(r, k)
        PROVE  (MemoryHasFile /\ NothingDestroyed)'
    BY <1>2 DEF Authorize
  <1>3. ASSUME NEW r \in Runs, Consult(r)
        PROVE  (MemoryHasFile /\ NothingDestroyed)'
    BY <1>3 DEF Consult, LoadFails, LetThrough, Deny
  <1>4. ASSUME NEW r \in Runs, CheckSession(r)
        PROVE  (MemoryHasFile /\ NothingDestroyed)'
    BY <1>4 DEF CheckSession, LetThrough
  <1>5. ASSUME NEW r \in Runs, Ask(r)
        PROVE  (MemoryHasFile /\ NothingDestroyed)'
    BY <1>5 DEF Ask, Raise
  <1>6. ASSUME NEW r \in Runs, AskWithoutWaiting(r)
        PROVE  (MemoryHasFile /\ NothingDestroyed)'
    BY <1>6 DEF AskWithoutWaiting, Raise, Deny
  <1>7. ASSUME NEW r \in Runs, Headless(r)
        PROVE  (MemoryHasFile /\ NothingDestroyed)'
    BY <1>7 DEF Headless, Deny
  <1>8. ASSUME NEW i \in Ids, Receive(i)
        PROVE  (MemoryHasFile /\ NothingDestroyed)'
    BY <1>8 DEF Receive
  <1>9. ASSUME NEW i \in Ids, GiveUp(i)
        PROVE  (MemoryHasFile /\ NothingDestroyed)'
    BY <1>9 DEF GiveUp
  <1>10. ASSUME NEW i \in Ids, Return(i)
        PROVE  (MemoryHasFile /\ NothingDestroyed)'
    BY <1>10 DEF Return, LetThrough, Deny
  <1>11. ASSUME NEW i \in Ids, NEW said \in {"deny", "once", "remember"},
          Resolve(i, said)
        PROVE  (MemoryHasFile /\ NothingDestroyed)'
    BY <1>11 DEF Resolve
  <1>12. ASSUME NEW i \in Ids, Remember(i)
        PROVE  (MemoryHasFile /\ NothingDestroyed)'
    <2>1. CASE LoadFails
      BY <2>1 DEF LoadFails
    <2>2. CASE loaded /\ UNCHANGED store
      BY <2>2
    <2>3. CASE /\ loaded
               /\ remembered' = remembered \cup {asked[i]}
               /\ UNCHANGED <<backup, loaded, trouble>>
               /\ Write \/ UNCHANGED <<file, stored>>
      <3>1. CASE Write
        <4>1. /\ file' = [kind |-> "v1", entries |-> remembered']
              /\ stored' = stored \cup remembered'
          BY <3>1 DEF Write
        <4>2. trouble = {} => /\ file.entries \subseteq remembered
                             /\ stored \subseteq file.entries \cup backup
          BY <2>3
        <4> QED
          BY <2>3, <4>1, <4>2
      <3>2. CASE UNCHANGED <<file, stored>>
        BY <2>3, <3>2
      <3> QED
        BY <2>3, <3>1, <3>2
    <2> QED
      BY <1>12, <2>1, <2>2, <2>3 DEF Remember
  <1>13. ASSUME NEW i \in Ids, Send(i)
        PROVE  (MemoryHasFile /\ NothingDestroyed)'
    BY <1>13 DEF Send
  <1>14. ASSUME Restart
        PROVE  (MemoryHasFile /\ NothingDestroyed)'
    BY <1>14 DEF Restart
  <1>15. CASE UNCHANGED vars
    BY <1>15 DEF vars
  <1> HIDE DEF TypeOK, StoreIsApproved, MemoryHasFile, NothingDestroyed, Files,
              NoFile
  <1> QED
    BY <1>1, <1>2, <1>3, <1>4, <1>5, <1>6, <1>7, <1>8, <1>9, <1>10,
       <1>11, <1>12, <1>13, <1>14, <1>15
    DEF Next

LEMMA InvInit == Init => IInv
  <1> SUFFICES ASSUME Init PROVE IInv
    OBVIOUS
  <1> USE ApprovalsAssumption DEF Init
  <1>1. file \in Files /\ stored \subseteq Keys /\ yesForGood \subseteq Keys
    BY DEF Files
  <1>2. TypeOK
    <2>1. /\ pc \in [Runs -> Places]
          /\ key \in [Runs -> Keys \cup {None}]
          /\ session \in [Runs -> SUBSET Keys]
          /\ allowed \in [Runs -> SUBSET Keys]
          /\ yes \in [Runs -> SUBSET Keys]
      BY DEF Places
    <2>2. used \in 0..MaxPrompts /\ restarts \in 0..MaxRestarts
      OBVIOUS
    <2>3. loaded \in BOOLEAN
      OBVIOUS
    <2>4. owner \in [Ids -> Runs \cup {None}]
      OBVIOUS
    <2>5. asked \in [Ids -> Keys \cup {None}]
      OBVIOUS
    <2>6. waiter \in [Ids -> {"unused", "waiting", "leaving", "gone"}]
      OBVIOUS
    <2>7. verdict \in [Ids -> {"yes", "no"}]
      OBVIOUS
    <2>8. channel \in [Ids -> {"empty", "yes", "no"}]
      OBVIOUS
    <2>9. resolver \in
            [Ids -> {"none", "remembering", "sending", "done", "failed"}]
      OBVIOUS
    <2>10. reply \in [Ids -> {"none", "deny", "once", "remember"}]
      OBVIOUS
    <2> QED
      BY <1>1, <2>1, <2>2, <2>3, <2>4, <2>5, <2>6, <2>7, <2>8, <2>9, <2>10
      DEF TypeOK
  <1>3. WhoWaits
    BY DEF WhoWaits, Active, Ids
  <1>4. StoreIsApproved /\ YesWasSaid
    BY DEF StoreIsApproved, YesWasSaid
  <1>5. GrantsWereSaid /\ OnlyOnAYes
    BY DEF GrantsWereSaid, OnlyOnAYes
  <1>6. RememberedOnTime /\ MemoryHasFile /\ NothingDestroyed
    BY DEF RememberedOnTime, MemoryHasFile, NothingDestroyed
  <1> QED
    BY <1>2, <1>3, <1>4, <1>5, <1>6 DEF IInv

LEMMA InvStep == IInv /\ [Next]_vars => IInv'
  BY TypeStep, WaitStep, ApprovedStep, SaidStep, GrantStep, OnTimeStep,
     FileStep
  DEF IInv

LEMMA Invariance == Spec => []IInv
  BY InvInit, InvStep, PTL DEF Spec

(* Type correctness.                                                       *)
THEOREM TypeCorrect == Spec => []TypeOK
  BY Invariance, PTL DEF IInv

(* Whatever times out, fails or crashes, a run of an agent goes only where *)
(* the user allowed it to.                                                 *)
THEOREM NoRunWithoutAYes == Spec => []OnlyOnAYes
  BY Invariance, PTL DEF IInv

(* A remembered answer is in the store before its run goes on.             *)
THEOREM StoredBeforeReleased == Spec => []RememberedBeforeReleased
  <1>1. IInv => RememberedBeforeReleased
    BY DEF IInv, RememberedOnTime, RememberedBeforeReleased
  <1> QED
    BY <1>1, Invariance, PTL

(* An ended prompt is not answered.                                        *)
THEOREM EndedPromptIsGone == Spec => []OverIsUnlisted
  <1>1. IInv => OverIsUnlisted
    BY DEF IInv, WhoWaits, OverIsUnlisted
  <1> QED
    BY <1>1, Invariance, PTL

(* Approvals leave the disk only after a failed read or rename.            *)
THEOREM KeptUnlessTrouble == Spec => []NothingDestroyed
  BY Invariance, PTL DEF IInv
=============================================================================
