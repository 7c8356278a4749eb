------------------------------ MODULE PostWorkflow ------------------------------
(***************************************************************************)
(* Concurrent requests on the rows of the posts table.                     *)
(*                                                                         *)
(* A request of PostViewSet first reads its post (get_object) and          *)
(* validates its data against that snapshot, outside any lock or           *)
(* transaction; the write comes later, after other requests may have       *)
(* written the row.  A status change (transition_to) re-reads the row      *)
(* under SELECT ... FOR UPDATE and writes status and published_at only.    *)
(* An update (PUT, PATCH) writes every column of the row from its          *)
(* snapshot, and the tags in a second transaction.                         *)
(***************************************************************************)
EXTENDS PostStatus, FiniteSets

CONSTANTS
  Posts,      \* primary keys the table may come to hold
  Users,      \* authenticated accounts (every role is at least editor)
  Admins,     \* those with role admin
  Author,     \* Author[p]: who creates post p (the column is never rewritten)
  Requests,   \* slots for requests in flight: how many overlap at once
  Kinds,      \* which operations the clients use
  Titles, Contents, NoContent, Tags,
  Absent,     \* a field the request body leaves out
  MaxTime     \* bound on the clock

AllKinds == {"create", "update", "change_status", "destroy", "restore"}

ASSUME AdminsAreUsers == Admins \subseteq Users
ASSUME AuthorIsUser == Author \in [Posts -> Users]
ASSUME KindsKnown == Kinds \subseteq AllKinds
ASSUME ContentsHasEmpty == NoContent \in Contents

VARIABLES
  rows,   \* the posts table: [Posts -> Row]
  tags,   \* the posts_tags table: the tags of each post
  reqs,   \* what each request slot is doing
  now     \* the clock

vars == <<rows, tags, reqs, now>>

-------------------------------------------------------------------------------
(* State                                                                   *)

\* The columns of a post that some rule of the code reads or protects.
Row == [status : Statuses, publishedAt : Nat, title : Titles, content : Contents]

\* A primary key no row uses yet.
NoPost == [status |-> "absent", publishedAt |-> Never]

\* The body of a PATCH (a PUT is the one that leaves nothing out).
UpdateData == [title : Titles \cup {Absent}, content : Contents \cup {Absent},
               tags : (SUBSET Tags) \cup {Absent}]

Idle == [pc |-> "idle"]

\* An update between its read and its write.
UpdateRequest == [pc : {"loaded"}, kind : {"update"}, post : Posts,
                  snap : Row, data : UpdateData]

\* A create or an update whose row is written and whose tags are not.
TagRequest == [pc : {"saved"}, kind : {"create", "update"}, post : Posts,
               tags : SUBSET Tags]

\* A validated status change that has not taken the row lock yet.
MoveRequest == [pc : {"loaded"}, kind : {"change_status", "destroy", "restore"},
                post : Posts, target : Statuses]

Request == {Idle} \cup UpdateRequest \cup TagRequest \cup MoveRequest

Init ==
  /\ rows = [p \in Posts |-> NoPost]
  /\ tags = [p \in Posts |-> {}]
  /\ reqs = [r \in Requests |-> Idle]
  /\ now = 1

-------------------------------------------------------------------------------
(* Reading and validating                                                  *)

\* IsOwner.has_object_permission
Owns(u, p) == u \in Admins \/ Author[p] = u

\* PostQueryset.alive
Alive(p) == rows[p].status \notin {"deleted", "absent"}

\* get_queryset and the IsOwner check together: the posts get_object returns
\* to user u.  Other people's published posts are found but then refused.
MayReach(u, p, kind) ==
  /\ Owns(u, p)
  /\ IF kind = "restore" THEN rows[p].status = "deleted" ELSE Alive(p)

\* Mutant: the check for published posts is gone.
UpdateAllowedAlways(row, data) == TRUE

\* PostUpdateSerializer.validate
UpdateAllowed(row, data) ==
  row.status = "published" => data.title = Absent /\ data.tags = Absent

\* Mutant: the content is not looked at.
StatusChangeAllowedEmpty(row, target) == row.status # "deleted"

\* PostStatusSerializer.validate
StatusChangeAllowed(row, target) ==
  /\ row.status # "deleted"
  /\ target = "published" => row.content # NoContent

Load(r, u, p, kind, request) ==
  /\ kind \in Kinds
  /\ reqs[r] = Idle
  /\ MayReach(u, p, kind)
  /\ reqs' = [reqs EXCEPT ![r] = request]
  /\ UNCHANGED <<rows, tags, now>>

\* PUT, PATCH: the snapshot stays in memory until the save.
LoadUpdate(r, u, p, data) ==
  /\ Load(r, u, p, "update", [pc |-> "loaded", kind |-> "update", post |-> p,
                              snap |-> rows[p], data |-> data])
  /\ UpdateAllowed(rows[p], data)

\* POST .../change_status
LoadStatusChange(r, u, p, target) ==
  /\ Load(r, u, p, "change_status", [pc |-> "loaded", kind |-> "change_status",
                                     post |-> p, target |-> target])
  /\ StatusChangeAllowed(rows[p], target)

\* DELETE: soft_delete's own check on the snapshot repeats the queryset's.
LoadDestroy(r, u, p) ==
  Load(r, u, p, "destroy", [pc |-> "loaded", kind |-> "destroy", post |-> p,
                            target |-> "deleted"])

\* POST .../restore
LoadRestore(r, u, p) ==
  Load(r, u, p, "restore", [pc |-> "loaded", kind |-> "restore", post |-> p,
                            target |-> "draft"])

-------------------------------------------------------------------------------
(* Writing                                                                 *)

\* What is left of a request once its row is written: the tags, if it sent any.
TagsLeft(kind, p, sent) ==
  IF sent = Absent THEN Idle
  ELSE [pc |-> "saved", kind |-> kind, post |-> p, tags |-> sent]

\* POST: the serializer forces the status to draft.
CreatePost(r, u, p, data) ==
  /\ "create" \in Kinds
  /\ reqs[r] = Idle
  /\ rows[p] = NoPost
  /\ Author[p] = u
  /\ data.title # Absent
  /\ rows' = [rows EXCEPT ![p] =
       [status |-> "draft", publishedAt |-> Never, title |-> data.title,
        content |-> IF data.content = Absent THEN NoContent ELSE data.content]]
  /\ reqs' = [reqs EXCEPT ![r] = TagsLeft("create", p, data.tags)]
  /\ UNCHANGED <<tags, now>>

\* Mutant: an update forces the status to draft, as a create does.
OverwrittenRedrafted(snap, data) ==
  [snap EXCEPT !.status  = "draft",
               !.title   = IF data.title = Absent THEN @ ELSE data.title,
               !.content = IF data.content = Absent THEN @ ELSE data.content]

\* Model.save without update_fields: every column comes from the snapshot,
\* whatever the row has become since.
Overwritten(snap, data) ==
  [snap EXCEPT !.title   = IF data.title = Absent THEN @ ELSE data.title,
               !.content = IF data.content = Absent THEN @ ELSE data.content]

SaveUpdate(r) ==
  /\ reqs[r].pc = "loaded" /\ reqs[r].kind = "update"
  /\ LET p == reqs[r].post IN
     /\ rows' = [rows EXCEPT ![p] = Overwritten(reqs[r].snap, reqs[r].data)]
     /\ reqs' = [reqs EXCEPT ![r] = TagsLeft("update", p, reqs[r].data.tags)]
  /\ UNCHANGED <<tags, now>>

\* The serializer's many-to-many write, after the row's own transaction.
SetTags(r) ==
  /\ reqs[r].pc = "saved"
  /\ tags' = [tags EXCEPT ![reqs[r].post] = reqs[r].tags]
  /\ reqs' = [reqs EXCEPT ![r] = Idle]
  /\ UNCHANGED <<rows, now>>

\* Mutants: the publication is never dated; dated at every publication;
\* dated after the present.
PublicationDateLost(row, target, time) == row.publishedAt
PublicationDateLast(row, target, time) ==
  IF target = "published" THEN time ELSE row.publishedAt
PublicationDateAhead(row, target, time) ==
  IF target = "published" /\ row.publishedAt = Never THEN time + 1 ELSE row.publishedAt

\* published_at after a move to target: a post is dated only once.
PublicationDate(row, target, time) ==
  IF target = "published" /\ row.publishedAt = Never THEN time ELSE row.publishedAt

\* The row transition_to writes: status and published_at, nothing else.
Moved(row, target, time) ==
  [row EXCEPT !.status = target, !.publishedAt = PublicationDate(row, target, time)]

\* Mutant: the table is not consulted under the lock.
TransitionUnchecked(r) ==
  /\ reqs[r].pc = "loaded" /\ reqs[r].kind # "update"
  /\ rows' = [rows EXCEPT ![reqs[r].post] = Moved(@, reqs[r].target, now)]
  /\ reqs' = [reqs EXCEPT ![r] = Idle]
  /\ UNCHANGED <<tags, now>>

\* transition_to: the row is read again under its lock.  A target that is the
\* current status (early return) or not allowed (error) changes nothing.
Transition(r) ==
  /\ reqs[r].pc = "loaded" /\ reqs[r].kind # "update"
  /\ LET p == reqs[r].post
         target == reqs[r].target
     IN  rows' = IF target \in AllowedTransitions[rows[p].status]
                 THEN [rows EXCEPT ![p] = Moved(@, target, now)]
                 ELSE rows
  /\ reqs' = [reqs EXCEPT ![r] = Idle]
  /\ UNCHANGED <<tags, now>>

Tick ==
  /\ now < MaxTime
  /\ now' = now + 1
  /\ UNCHANGED <<rows, tags, reqs>>

-------------------------------------------------------------------------------
\* A request on one of the posts ps with one of the bodies.
Begin(r, ps, bodies) ==
  \E u \in Users, p \in ps :
    \/ \E data \in bodies : CreatePost(r, u, p, data) \/ LoadUpdate(r, u, p, data)
    \/ \E target \in Statuses : LoadStatusChange(r, u, p, target)
    \/ LoadDestroy(r, u, p)
    \/ LoadRestore(r, u, p)

Finish(r) == SaveUpdate(r) \/ SetTags(r) \/ Transition(r)

Next == (\E r \in Requests : Begin(r, Posts, UpdateData) \/ Finish(r)) \/ Tick

Spec == Init /\ [][Next]_vars

-------------------------------------------------------------------------------
(* Properties                                                              *)

\* Every variable has its type, and no post is dated in the future
\* (transition_to takes published_at from timezone.now()).
TypeOK ==
  /\ rows \in [Posts -> Row \cup {NoPost}]
  /\ tags \in [Posts -> SUBSET Tags]
  /\ reqs \in [Requests -> Request]
  /\ now \in Nat \ {0}
  /\ \A p \in Posts : rows[p].publishedAt <= now

\* A post readers have seen has a publication date, also when updates
\* overwrite the row with what they read long ago: status and published_at
\* are only ever written as a pair some earlier row held or transition_to made.
PublishedHasTimestamp ==
  \A p \in Posts : rows[p].status \in Released => rows[p].publishedAt # Never

\* Update r of post p writes its snapshot's status and date.
PutBackBy(r, p) ==
  /\ reqs[r].pc = "loaded" /\ reqs[r].kind = "update" /\ reqs[r].post = p
  /\ rows'[p].status = reqs[r].snap.status
  /\ rows'[p].publishedAt = reqs[r].snap.publishedAt

OnTableOrPutBack ==
  \A p \in Posts :
    rows[p].status # "absent" /\ rows'[p].status # rows[p].status =>
      \/ rows'[p].status \in AllowedTransitions[rows[p].status]
      \/ \E r \in Requests : PutBackBy(r, p)

\* A status either moves along ALLOWED_TRANSITIONS or is put back, together
\* with its date, by an update that read the row earlier: nothing else,
\* and above all no locked transition, can leave the table.
OnlyStaleUpdatesLeaveTheTable == [][OnTableOrPutBack]_vars

OnTable ==
  \A p \in Posts :
    rows[p].status # "absent" /\ rows'[p].status # rows[p].status =>
      rows'[p].status \in AllowedTransitions[rows[p].status]

\* The status of a post moves only along ALLOWED_TRANSITIONS.
TransitionsFollowTable == [][OnTable]_vars

DatesStay ==
  \A p \in Posts : rows[p].publishedAt # Never => rows'[p].publishedAt = rows[p].publishedAt

PublishedStaysFrozen ==
  \A p \in Posts : rows[p].status = "published" =>
    /\ rows'[p].title = rows[p].title
    /\ \/ tags'[p] = tags[p]
       \/ \E r \in Requests : reqs[r].pc = "saved" /\ reqs[r].kind = "create"
                              /\ reqs[r].post = p /\ reqs'[r] = Idle

PublicationHasContent ==
  \A p \in Posts :
    rows[p].status # "published" /\ rows'[p].status = "published" =>
      rows'[p].content # NoContent

\* The requests implement the life cycle readers are promised.
Lifecycle == INSTANCE PostLifecycle WITH
  status <- [p \in Posts |-> rows[p].status],
  publishedAt <- [p \in Posts |-> rows[p].publishedAt]

ImplementsLifecycle == Lifecycle!Spec

===============================================================================
