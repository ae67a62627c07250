------------------------ MODULE MCRequestLifecycle ------------------------
(***************************************************************************)
(* Two executions, two pairs, two CancelRequest calls: a superseded send,  *)
(* a nested run of the same or the other request, and two cancels that     *)
(* race each other and the finish.  RequestLifecycleProofs proves the      *)
(* safety properties for any number of them; the liveness properties speak *)
(* of one cancel and at most two executions.                               *)
(***************************************************************************)
EXTENDS RequestLifecycle

(* Every execution has ended and every cancel has returned.                *)
AllOver ==
    /\ \A e \in Execs : pc[e] \in Ended
    /\ \A c \in Cancels : cpc[c] = "returned"

(* The system stops only there: deadlock is checked.                       *)
Stop == AllOver /\ UNCHANGED vars
MCSpec == Init /\ [][Next \/ Stop]_vars /\ Fairness
=============================================================================
