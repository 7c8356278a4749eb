----------------------------- MODULE PostLifecycle -----------------------------
(***************************************************************************)
(* What a post promises its readers: its status moves only along the       *)
(* transition table, and the moment of its first publication, once known,  *)
(* is never lost.  No requests, no snapshots, no locks: every step is one  *)
(* whole change of one post.                                               *)
(***************************************************************************)
EXTENDS PostStatus

CONSTANT Posts

VARIABLES
  status,       \* [Posts -> Statuses \cup {"absent"}]
  publishedAt,  \* [Posts -> Nat], Never until the first publication
  now           \* the clock

vars == <<status, publishedAt, now>>

Init ==
  /\ status = [p \in Posts |-> "absent"]
  /\ publishedAt = [p \in Posts |-> Never]
  /\ now = 1

\* A new post starts as a draft.
Create(p) ==
  /\ status[p] = "absent"
  /\ status' = [status EXCEPT ![p] = "draft"]
  /\ UNCHANGED <<publishedAt, now>>

\* Any move but a publication leaves the timestamp alone.
Move(p, target) ==
  /\ status[p] # "absent"
  /\ target \in AllowedTransitions[status[p]] \ {"published"}
  /\ status' = [status EXCEPT ![p] = target]
  /\ UNCHANGED <<publishedAt, now>>

\* The first publication is dated, a later one keeps the first date.
Publish(p) ==
  /\ status[p] # "absent"
  /\ "published" \in AllowedTransitions[status[p]]
  /\ status' = [status EXCEPT ![p] = "published"]
  /\ publishedAt' = [publishedAt EXCEPT ![p] = IF @ = Never THEN now ELSE @]
  /\ UNCHANGED now

Tick ==
  /\ now' = now + 1
  /\ UNCHANGED <<status, publishedAt>>

Next ==
  \/ \E p \in Posts : Create(p) \/ Publish(p) \/ \E t \in Statuses : Move(p, t)
  \/ Tick

Spec == Init /\ [][Next]_vars

===============================================================================
