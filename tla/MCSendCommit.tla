---------------------------- MODULE MCSendCommit ----------------------------
(* The instance TLC checks, and the system without agents: what the state  *)
(* and the user's sends do when the agents' steps are not there.           *)
EXTENDS SendCommit, TLC

Ui == INSTANCE SendCommit WITH
        Agents <- {},
        send <- [u \in Users |-> send[u]],
        overlay <- <<>>,
        said <- <<>>

(* No send of an agent leaves a trace: seen without the agents, every      *)
(* behaviour is one of a system in which the user alone sends. No variable,*)
(* cookie or environment of the state ever depends on what an agent's      *)
(* script wrote (app_send.go, "no cookie reaches a.state.Cookies").        *)
AgentsAreInvisible == Ui!Spec

Symmetric == Permutations(Globals)
=============================================================================
