------------------------------- MODULE MCAccounts -------------------------------
(***************************************************************************)
(* Instances of Accounts for TLC.  Each behaviour keeps to one scenario:   *)
(* "roles" (roles, rows and deletions), "crashes" (the same, with workers  *)
(* that die) or "sessions" (the passwords and tokens of one account).      *)
(***************************************************************************)
EXTENDS Accounts, TLC

CONSTANTS ann, bob, cyd, r1, r2, t1, t2

VARIABLE scenario

Rows == {"idle", "update", "role", "delete", "inserted"}
Sessions == {"idle", "update", "password", "delete", "inserted", "issue", "rotate"}

mcvars == <<vars, scenario>>
MCInit == Init /\ scenario \in {"roles", "crashes", "sessions"}
KeepsToScenario ==
  \A r \in Requests :
    /\ reqs'[r].pc \in (IF scenario = "sessions" THEN Sessions ELSE Rows)
    /\ scenario = "sessions" /\ reqs'[r] # Idle => reqs'[r].user = ann
MCNext ==
  /\ Work \/ (scenario = "crashes" /\ \E r \in Requests : Crash(r))
  /\ UNCHANGED scenario /\ KeepsToScenario
MCSpec == MCInit /\ [][MCNext]_mcvars

RoleKinds == {"role"}
Symmetry == Permutations(Requests) \cup Permutations(Tokens)

\* The profile is missing only where a worker died before the signal.
ProfileUnlessCrash == scenario # "crashes" => ProfileOrPending

===============================================================================
