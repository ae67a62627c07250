---------------------------- MODULE SharedEntries ---------------------------
(***************************************************************************)
(* What the shared state promises its windows: a set of entries            *)
(* (preferences, cookies, notifications, global environments). What an     *)
(* open window has edited since it last saw the entries reaches them all   *)
(* at once and touches no other entry. As long as the window is open an    *)
(* edit is its own until it is in place: no step but another edit of the   *)
(* same entry takes it away before. It goes unpublished only with its      *)
(* window.                                                                 *)
(***************************************************************************)
CONSTANTS Windows, Keys, Values, None

VARIABLES
    entries,  \* the value of each entry, None if there is no such entry
    alive,    \* the windows that are open
    seen,     \* the entries as each window last saw them
    view      \* the entries as each window has them

vars == <<entries, alive, seen, view>>

NoEntries == [k \in Keys |-> None]

Init ==
    /\ entries = NoEntries
    /\ alive = {}
    /\ seen = [w \in Windows |-> NoEntries]
    /\ view = [w \in Windows |-> NoEntries]

See(w, what) ==
    /\ seen' = [seen EXCEPT ![w] = what]
    /\ view' = [view EXCEPT ![w] = what]

(* A window opens.                                                         *)
Start(w) ==
    /\ w \notin alive /\ alive' = alive \cup {w}
    /\ See(w, entries)
    /\ UNCHANGED entries

(* A window edits or deletes one entry, or takes an edit back.             *)
Edit(w, k) ==
    /\ w \in alive
    /\ \E v \in Values \cup {None} : view' = [view EXCEPT ![w][k] = v]
    /\ UNCHANGED <<entries, alive, seen>>

Publish(w) ==
    /\ w \in alive
    /\ entries' = [k \in Keys |->
                     IF view[w][k] = seen[w][k] THEN entries[k] ELSE view[w][k]]
    /\ UNCHANGED <<alive, seen, view>>

(* A window takes over the entries: its edits are all in place.            *)
Settle(w) ==
    /\ w \in alive
    /\ \A k \in Keys : view[w][k] \in {seen[w][k], entries[k]}
    /\ See(w, entries)
    /\ UNCHANGED <<entries, alive>>

(* A window dies with its edits.                                           *)
Die(w) ==
    /\ w \in alive /\ alive' = alive \ {w}
    /\ See(w, NoEntries)
    /\ UNCHANGED entries

Next ==
    \E w \in Windows :
        \/ \E k \in Keys : Edit(w, k)
        \/ Start(w) \/ Publish(w) \/ Settle(w) \/ Die(w)

Spec == Init /\ [][Next]_vars
=============================================================================
