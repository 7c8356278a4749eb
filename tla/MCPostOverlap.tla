----------------------------- MODULE MCPostOverlap -----------------------------
(***************************************************************************)
(* A small instance of PostWorkflow in which requests overlap freely, for  *)
(* two rules of the repository that do not survive it: the transition      *)
(* table of PostWorkflow and OnlyRestoresRevive.                           *)
(***************************************************************************)
EXTENDS PostWorkflow

CONSTANTS alice

OnlyAuthor == [p \in Posts |-> alice]

WithoutUpdates == AllKinds \ {"update"}

\* A post leaves the trash only by a restore; change_status does not take it
\* out ("Cannot change status of a deleted post.").
OnlyRestoresRevive ==
  [][\A p \in Posts :
       rows[p].status = "deleted" /\ rows'[p].status # "deleted" =>
         \E r \in Requests : /\ reqs[r].pc = "loaded" /\ reqs[r].kind = "restore"
                             /\ reqs[r].post = p /\ reqs'[r] = Idle]_vars

===============================================================================
