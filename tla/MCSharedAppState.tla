-------------------------- MODULE MCSharedAppState --------------------------
(***************************************************************************)
(* Two windows and two entries that three edits and any deletions change;  *)
(* three edits are what it takes for a replaced value to come back.        *)
(***************************************************************************)
EXTENDS SharedAppState, TLC

Symmetry ==
    Permutations(Windows) \cup Permutations(Keys) \cup Permutations(Values)
=============================================================================
