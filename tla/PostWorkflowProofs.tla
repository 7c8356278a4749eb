---------------------------- MODULE PostWorkflowProofs ----------------------------
(***************************************************************************)
(* Theorems about PostWorkflow for any number of posts, accounts, titles   *)
(* and overlapping requests, and about the scenarios of MCPostWorkflow.    *)
(***************************************************************************)
EXTENDS MCPostWorkflow, TLAPS

\* What every update in flight keeps in memory is a row that was sound when
\* it was read, and stays sound: dates lie in the past for good.
SnapshotsSound ==
  \A r \in Requests :
    reqs[r].pc = "loaded" /\ reqs[r].kind = "update" =>
      /\ reqs[r].snap.publishedAt <= now
      /\ reqs[r].snap.status \in Released => reqs[r].snap.publishedAt # Never

\* Only the operations the clients use are in flight.
KindsInUse == \A r \in Requests : reqs[r].pc = "loaded" => reqs[r].kind \in Kinds

\* Rows are never removed, so the row a request has read is still there.
ReadRowsExist ==
  \A r \in Requests : reqs[r].pc = "loaded" => rows[reqs[r].post] # NoPost

IInv == TypeOK /\ PublishedHasTimestamp /\ SnapshotsSound /\ KindsInUse /\ ReadRowsExist

-------------------------------------------------------------------------------

\* The target of a status change that is carried out is a status, and the row
\* it makes is a row, dated no later than the present and dated when released.
LEMMA MovedIsSound ==
  ASSUME NEW row \in Row, NEW time \in Nat \ {0}, row.publishedAt <= time,
         row.status \in Released => row.publishedAt # Never,
         NEW target \in AllowedTransitions[row.status]
  PROVE  /\ Moved(row, target, time) \in Row
         /\ Moved(row, target, time).publishedAt <= time
         /\ Moved(row, target, time).status = target
         /\ target \in Released => Moved(row, target, time).publishedAt # Never
<1>1. target \in Statuses
  BY DEF Row, Statuses, AllowedTransitions
<1>2. target = "archived" => row.status = "published"
  BY DEF Row, Statuses, AllowedTransitions
<1> DEFINE date == PublicationDate(row, target, time)
<1>3. date \in Nat /\ date <= time /\ (target \in Released => date # Never)
  BY <1>2 DEF PublicationDate, Row, Released, Never
<1> HIDE DEF date
<1>4. /\ [row EXCEPT !.status = target, !.publishedAt = date] \in Row
      /\ [row EXCEPT !.status = target, !.publishedAt = date].publishedAt = date
      /\ [row EXCEPT !.status = target, !.publishedAt = date].status = target
  BY <1>1, <1>3 DEF Row
<1> QED BY <1>3, <1>4 DEF Moved, date

\* The row an update writes is a row with the snapshot's status and date.
LEMMA OverwrittenIsSound ==
  ASSUME NEW snap \in Row, NEW data \in UpdateData
  PROVE  /\ Overwritten(snap, data) \in Row
         /\ Overwritten(snap, data).status = snap.status
         /\ Overwritten(snap, data).publishedAt = snap.publishedAt
BY DEF Overwritten, Row, UpdateData

\* The initial table is empty and every slot is free.
LEMMA InitIInv == Init => IInv
BY DEF Init, IInv, TypeOK, PublishedHasTimestamp, SnapshotsSound, KindsInUse,
       ReadRowsExist, NoPost, Idle, Request, Released, Never

-------------------------------------------------------------------------------

\* A request may be put in a slot when it is of a kind in use, has read a row
\* and, being an update, carries a sound snapshot.
Admissible(q) ==
  /\ q \in Request
  /\ q.pc = "loaded" => q.kind \in Kinds /\ rows[q.post] # NoPost
  /\ q.pc = "loaded" /\ q.kind = "update" =>
       /\ q.snap.publishedAt <= now
       /\ q.snap.status \in Released => q.snap.publishedAt # Never

\* A free slot asks for nothing.
LEMMA IdleIsAdmissible == Admissible(Idle)
BY DEF Admissible, Idle, Request

\* A request waiting to write tags carries no snapshot.
LEMMA TagsLeftIsAdmissible ==
  ASSUME NEW kind \in {"create", "update"}, NEW p \in Posts,
         NEW sent \in (SUBSET Tags) \cup {Absent}
  PROVE  Admissible(TagsLeft(kind, p, sent))
<1>1. CASE sent = Absent
  BY <1>1, IdleIsAdmissible DEF TagsLeft
<1>2. CASE sent # Absent
  <2>1. TagsLeft(kind, p, sent) \in TagRequest
    BY <1>2 DEF TagsLeft, TagRequest
  <2> QED BY <2>1 DEF Admissible, Request, TagRequest
<1> QED BY <1>1, <1>2

\* Steps that leave the rows alone: a slot changes, and perhaps tags.
LEMMA SlotStep ==
  ASSUME IInv, NEW r \in Requests, NEW q, Admissible(q),
         reqs' = [reqs EXCEPT ![r] = q],
         rows' = rows, now' = now, tags' \in [Posts -> SUBSET Tags]
  PROVE  IInv'
<1>1. \A s \in Requests : reqs'[s] = IF s = r THEN q ELSE reqs[s]
  BY DEF IInv, TypeOK
<1>2. TypeOK'
  BY DEF IInv, TypeOK, Admissible
<1>3. PublishedHasTimestamp'
  BY DEF IInv, PublishedHasTimestamp
<1>4. SnapshotsSound'
  BY <1>1 DEF IInv, SnapshotsSound, Admissible
<1>5. KindsInUse'
  BY <1>1 DEF IInv, KindsInUse, Admissible
<1>6. ReadRowsExist'
  BY <1>1 DEF IInv, ReadRowsExist, Admissible
<1> QED BY <1>2, <1>3, <1>4, <1>5, <1>6 DEF IInv

\* Steps that write one sound row and change a slot.
LEMMA WriteStep ==
  ASSUME IInv, NEW r \in Requests, NEW q, Admissible(q),
         reqs' = [reqs EXCEPT ![r] = q],
         NEW p \in Posts, NEW new \in Row, new.publishedAt <= now,
         new.status \in Released => new.publishedAt # Never,
         rows' = [rows EXCEPT ![p] = new], now' = now, tags' = tags
  PROVE  IInv'
<1>1. \A s \in Requests : reqs'[s] = IF s = r THEN q ELSE reqs[s]
  BY DEF IInv, TypeOK
<1>2. \A s \in Posts : rows'[s] = IF s = p THEN new ELSE rows[s]
  BY DEF IInv, TypeOK
<1>3. TypeOK'
  <2>1. rows' \in [Posts -> Row \cup {NoPost}] /\ reqs' \in [Requests -> Request]
    BY DEF IInv, TypeOK, Admissible
  <2>2. \A s \in Posts : rows'[s].publishedAt <= now'
    BY <1>2 DEF IInv, TypeOK
  <2> QED BY <2>1, <2>2 DEF IInv, TypeOK
<1>4. PublishedHasTimestamp'
  BY <1>2 DEF IInv, PublishedHasTimestamp
<1>5. SnapshotsSound'
  BY <1>1 DEF IInv, SnapshotsSound, Admissible
<1>6. KindsInUse'
  BY <1>1 DEF IInv, KindsInUse, Admissible
<1>7. ReadRowsExist'
  <2>1. new # NoPost
    BY DEF Row, NoPost, Statuses
  <2> QED BY <1>1, <1>2, <2>1 DEF IInv, TypeOK, ReadRowsExist, Admissible, Request,
                                  UpdateRequest, MoveRequest
<1> QED BY <1>3, <1>4, <1>5, <1>6, <1>7 DEF IInv

-------------------------------------------------------------------------------

\* A post a request has reached is a row of the table.
LEMMA ReachedIsRow ==
  ASSUME TypeOK, NEW u \in Users, NEW p \in Posts, NEW kind, MayReach(u, p, kind)
  PROVE  rows[p] \in Row
BY DEF TypeOK, MayReach, Alive, NoPost

\* Reading and validating a post preserves the invariant.
LEMMA LoadStep ==
  ASSUME IInv, NEW r \in Requests, NEW u \in Users, NEW p \in Posts
  PROVE  /\ \A data \in UpdateData : LoadUpdate(r, u, p, data) => IInv'
         /\ \A target \in Statuses : LoadStatusChange(r, u, p, target) => IInv'
         /\ LoadDestroy(r, u, p) => IInv'
         /\ LoadRestore(r, u, p) => IInv'
<1>0. tags \in [Posts -> SUBSET Tags]
  BY DEF IInv, TypeOK
<1>1. ASSUME NEW data \in UpdateData, LoadUpdate(r, u, p, data)
      PROVE  IInv'
  <2> DEFINE q == [pc |-> "loaded", kind |-> "update", post |-> p,
                   snap |-> rows[p], data |-> data]
  <2>1. rows[p] \in Row
    BY <1>1, ReachedIsRow DEF LoadUpdate, Load, IInv
  <2>2. q \in Request
    BY <2>1 DEF Request, UpdateRequest
  <2>3. q.kind \in Kinds
    BY <1>1 DEF LoadUpdate, Load
  <2>4. Admissible(q)
    BY <2>1, <2>2, <2>3 DEF Admissible, IInv, TypeOK, PublishedHasTimestamp,
                            Row, NoPost, Statuses
  <2> QED BY <1>0, <1>1, <2>4, SlotStep DEF LoadUpdate, Load
<1>2. ASSUME NEW kind \in {"change_status", "destroy", "restore"},
             NEW target \in Statuses,
             Load(r, u, p, kind, [pc |-> "loaded", kind |-> kind, post |-> p,
                                  target |-> target])
      PROVE  IInv'
  <2> DEFINE q == [pc |-> "loaded", kind |-> kind, post |-> p, target |-> target]
  <2>1. q \in Request
    BY DEF Request, MoveRequest
  <2>2. Admissible(q)
    BY <1>2, <2>1, ReachedIsRow DEF Admissible, Load, IInv, Row, NoPost, Statuses
  <2> QED BY <1>0, <1>2, <2>2, SlotStep DEF Load
<1>3. "draft" \in Statuses /\ "deleted" \in Statuses
  BY DEF Statuses
<1> QED BY <1>1, <1>2, <1>3 DEF LoadStatusChange, LoadDestroy, LoadRestore

\* Creating a post preserves the invariant.
LEMMA CreateStep ==
  ASSUME IInv, NEW r \in Requests, NEW u \in Users, NEW p \in Posts,
         NEW data \in UpdateData, CreatePost(r, u, p, data)
  PROVE  IInv'
<1> DEFINE new == [status |-> "draft", publishedAt |-> Never, title |-> data.title,
                   content |-> IF data.content = Absent THEN NoContent ELSE data.content]
           q == TagsLeft("create", p, data.tags)
<1>1. new \in Row
  BY ContentsHasEmpty DEF CreatePost, Row, UpdateData, Statuses, Never
<1>2. new.publishedAt <= now /\ new.status \notin Released
  BY DEF IInv, TypeOK, Never, Released
<1>3. Admissible(q)
  BY TagsLeftIsAdmissible DEF UpdateData
<1>4. reqs' = [reqs EXCEPT ![r] = q] /\ rows' = [rows EXCEPT ![p] = new]
      /\ now' = now /\ tags' = tags
  BY DEF CreatePost
<1> HIDE DEF new, q
<1> QED BY <1>1, <1>2, <1>3, <1>4, WriteStep

\* The write of an update preserves the invariant: the row it puts back was
\* sound when it was read.
LEMMA SaveStep ==
  ASSUME IInv, NEW r \in Requests, SaveUpdate(r)
  PROVE  IInv'
<1> DEFINE p == reqs[r].post
           new == Overwritten(reqs[r].snap, reqs[r].data)
           q == TagsLeft("update", p, reqs[r].data.tags)
<1>1. reqs[r] \in UpdateRequest
  BY DEF SaveUpdate, IInv, TypeOK, Request, Idle, TagRequest, MoveRequest
<1>2. p \in Posts /\ reqs[r].snap \in Row /\ reqs[r].data \in UpdateData
  BY <1>1 DEF UpdateRequest
<1>3. new \in Row /\ new.publishedAt <= now
      /\ (new.status \in Released => new.publishedAt # Never)
  BY <1>2, OverwrittenIsSound DEF SaveUpdate, IInv, SnapshotsSound
<1>4. Admissible(q)
  BY <1>2, TagsLeftIsAdmissible DEF UpdateData
<1>5. reqs' = [reqs EXCEPT ![r] = q] /\ rows' = [rows EXCEPT ![p] = new]
      /\ now' = now /\ tags' = tags
  BY DEF SaveUpdate
<1> HIDE DEF p, new, q
<1> QED BY <1>2, <1>3, <1>4, <1>5, WriteStep

\* Writing the tags preserves the invariant.
LEMMA SetTagsStep ==
  ASSUME IInv, NEW r \in Requests, SetTags(r)
  PROVE  IInv'
<1>1. reqs[r] \in TagRequest
  BY DEF SetTags, IInv, TypeOK, Request, Idle, UpdateRequest, MoveRequest
<1>2. tags' \in [Posts -> SUBSET Tags]
  BY <1>1 DEF SetTags, IInv, TypeOK, TagRequest
<1> QED BY <1>2, IdleIsAdmissible, SlotStep DEF SetTags

\* A status change under the lock preserves the invariant.
LEMMA TransitionStep ==
  ASSUME IInv, NEW r \in Requests, Transition(r)
  PROVE  IInv'
<1> DEFINE p == reqs[r].post
           target == reqs[r].target
           new == Moved(rows[p], target, now)
<1>1. reqs[r] \in MoveRequest
  BY DEF Transition, IInv, TypeOK, Request, Idle, UpdateRequest, TagRequest
<1>2. p \in Posts /\ target \in Statuses
  BY <1>1 DEF MoveRequest
<1>3. CASE target \in AllowedTransitions[rows[p].status]
  <2>1. rows[p] \in Row
    BY <1>2 DEF Transition, IInv, TypeOK, ReadRowsExist
  <2>2. new \in Row /\ new.publishedAt <= now
        /\ (new.status \in Released => new.publishedAt # Never)
    BY <1>2, <1>3, <2>1, MovedIsSound DEF IInv, TypeOK, PublishedHasTimestamp
  <2>3. reqs' = [reqs EXCEPT ![r] = Idle] /\ rows' = [rows EXCEPT ![p] = new]
        /\ now' = now /\ tags' = tags
    BY <1>2, <1>3 DEF Transition, IInv, TypeOK
  <2> HIDE DEF p, new
  <2> QED BY <1>2, <2>2, <2>3, IdleIsAdmissible, WriteStep
<1>4. CASE target \notin AllowedTransitions[rows[p].status]
  <2>1. rows' = rows
    BY <1>4 DEF Transition
  <2> QED BY <2>1, IdleIsAdmissible, SlotStep DEF Transition, IInv, TypeOK
<1> QED BY <1>3, <1>4

-------------------------------------------------------------------------------

\* Every step preserves the invariant.
LEMMA StepIInv == IInv /\ [Next]_vars => IInv'
<1> SUFFICES ASSUME IInv, [Next]_vars PROVE IInv'
  OBVIOUS
<1>1. ASSUME NEW r \in Requests, Begin(r, Posts, UpdateData) PROVE IInv'
  BY <1>1, LoadStep, CreateStep DEF Begin
<1>2. ASSUME NEW r \in Requests, Finish(r) PROVE IInv'
  BY <1>2, SaveStep, SetTagsStep, TransitionStep DEF Finish
<1>3. CASE Tick
  <2>1. now' \in Nat \ {0} /\ now <= now'
    BY <1>3 DEF Tick, IInv, TypeOK
  <2>2. \A p \in Posts : rows[p].publishedAt \in Nat
    BY DEF IInv, TypeOK, Row, NoPost, Never
  <2>3. TypeOK'
    BY <1>3, <2>1, <2>2 DEF Tick, IInv, TypeOK
  <2>4. SnapshotsSound'
    <3>1. ASSUME NEW r \in Requests, reqs[r].pc = "loaded", reqs[r].kind = "update"
          PROVE  reqs[r].snap.publishedAt \in Nat
      BY <3>1 DEF IInv, TypeOK, Request, UpdateRequest, MoveRequest, TagRequest, Idle, Row
    <3> QED BY <1>3, <2>1, <3>1 DEF Tick, IInv, TypeOK, SnapshotsSound
  <2> QED BY <1>3, <2>3, <2>4 DEF Tick, IInv, PublishedHasTimestamp, KindsInUse,
                                  ReadRowsExist
<1>4. CASE UNCHANGED vars
  BY <1>4 DEF vars, IInv, TypeOK, PublishedHasTimestamp, SnapshotsSound, KindsInUse,
              ReadRowsExist
<1> QED BY <1>1, <1>2, <1>3, <1>4 DEF Next

\* The inductive invariant holds in every reachable state.
THEOREM Inductive == Spec => []IInv
BY InitIInv, StepIInv, PTL DEF Spec

\* The tables and the requests in flight keep their types, and no post is
\* dated in the future.
THEOREM TypeCorrect == Spec => []TypeOK
<1>1. IInv => TypeOK
  BY DEF IInv
<1> QED BY <1>1, Inductive, PTL

\* Whatever stale rows updates write back, a post readers have seen has a
\* publication date.
THEOREM ReleasedPostsAreDated == Spec => []PublishedHasTimestamp
<1>1. IInv => PublishedHasTimestamp
  BY DEF IInv
<1> QED BY <1>1, Inductive, PTL

-------------------------------------------------------------------------------

\* Request r moves the status of post p under the row lock.
MovedBy(r, p) ==
  /\ reqs[r].pc = "loaded" /\ reqs[r].kind # "update" /\ reqs[r].post = p
  /\ reqs[r].target \in AllowedTransitions[rows[p].status]
  /\ rows'[p] = Moved(rows[p], reqs[r].target, now)

\* What a step does to one row: nothing, a creation, a move of the table, or
\* the write of an update.
LEMMA RowStep ==
  ASSUME IInv, [Next]_vars, NEW p \in Posts, rows'[p] # rows[p]
  PROVE  \/ rows[p] = NoPost /\ rows'[p].status = "draft"
         \/ rows[p] \in Row /\ \E r \in Requests : MovedBy(r, p)
         \/ \E r \in Requests : PutBackBy(r, p) /\ reqs[r] \in UpdateRequest
                               /\ rows'[p] = Overwritten(reqs[r].snap, reqs[r].data)
<1>1. ASSUME NEW r \in Requests, NEW u \in Users, NEW s \in Posts,
             NEW data \in UpdateData, CreatePost(r, u, s, data)
      PROVE  rows[p] = NoPost /\ rows'[p].status = "draft"
  BY <1>1 DEF CreatePost, IInv, TypeOK
<1>2. ASSUME NEW r \in Requests, SaveUpdate(r)
      PROVE  PutBackBy(r, p) /\ reqs[r] \in UpdateRequest
             /\ rows'[p] = Overwritten(reqs[r].snap, reqs[r].data)
  <2>1. reqs[r] \in UpdateRequest
    BY <1>2 DEF SaveUpdate, IInv, TypeOK, Request, Idle, TagRequest, MoveRequest
  <2>2. reqs[r].post = p /\ rows'[p] = Overwritten(reqs[r].snap, reqs[r].data)
    BY <1>2 DEF SaveUpdate, IInv, TypeOK
  <2>3. reqs[r].snap \in Row /\ reqs[r].data \in UpdateData
    BY <2>1 DEF UpdateRequest
  <2> QED BY <1>2, <2>1, <2>2, <2>3, OverwrittenIsSound DEF SaveUpdate, PutBackBy
<1>3. ASSUME NEW r \in Requests, Transition(r)
      PROVE  rows[p] \in Row /\ MovedBy(r, p)
  <2>1. MovedBy(r, p)
    BY <1>3 DEF Transition, IInv, TypeOK, MovedBy
  <2>2. rows[p] # NoPost
    BY <1>3, <2>1 DEF Transition, IInv, ReadRowsExist, MovedBy
  <2> QED BY <2>1, <2>2 DEF IInv, TypeOK
<1>4. CASE UNCHANGED rows
  BY <1>4
<1> QED BY <1>1, <1>2, <1>3, <1>4 DEF Next, Begin, Finish, vars, LoadUpdate,
          LoadStatusChange, LoadDestroy, LoadRestore, Load, SetTags, Tick

\* The lock step keeps the title and the content, and dates a post only once.
LEMMA MoveKeeps ==
  ASSUME IInv, NEW p \in Posts, rows[p] \in Row, NEW r \in Requests, MovedBy(r, p)
  PROVE  /\ rows'[p].status = reqs[r].target
         /\ rows'[p].title = rows[p].title
         /\ rows'[p].content = rows[p].content
         /\ rows[p].publishedAt # Never => rows'[p].publishedAt = rows[p].publishedAt
BY DEF MovedBy, Moved, Row, PublicationDate

\* A status leaves the table only when an update puts it back.
LEMMA TableStep == IInv /\ [Next]_vars => OnTableOrPutBack
<1> SUFFICES ASSUME IInv, [Next]_vars, NEW p \in Posts,
                    rows[p].status # "absent", rows'[p].status # rows[p].status
             PROVE  \/ rows'[p].status \in AllowedTransitions[rows[p].status]
                    \/ \E r \in Requests : PutBackBy(r, p)
  BY DEF OnTableOrPutBack
<1>1. ASSUME rows[p] \in Row, NEW r \in Requests, MovedBy(r, p)
      PROVE  rows'[p].status \in AllowedTransitions[rows[p].status]
  BY <1>1, MoveKeeps DEF MovedBy
<1> QED BY <1>1, RowStep DEF NoPost

\* Only an update writing back an older row can take a status off the
\* transition table; the row lock is enough for every other request.
THEOREM OnlyUpdatesLeaveTheTable == Spec => OnlyStaleUpdatesLeaveTheTable
<1>1. IInv /\ [Next]_vars => [OnTableOrPutBack]_vars
  BY TableStep
<1> QED BY <1>1, Inductive, PTL DEF Spec, OnlyStaleUpdatesLeaveTheTable

-------------------------------------------------------------------------------

\* The life cycle's table and its null are those of the requests.
LEMMA SameTable ==
  /\ Lifecycle!Never = Never
  /\ Lifecycle!Statuses = Statuses
  /\ Lifecycle!AllowedTransitions = AllowedTransitions
BY DEF Lifecycle!Never, Never, Lifecycle!Statuses, Statuses,
       Lifecycle!AllowedTransitions, AllowedTransitions

\* No request in flight is an update.
NoUpdates == \A r \in Requests : reqs[r].pc = "loaded" => reqs[r].kind # "update"

\* Without updates, every request is a step of the life cycle, or none.
LEMMA LifecycleStep ==
  ASSUME NoUpdates, IInv, [Next]_vars
  PROVE  [Lifecycle!Next]_(Lifecycle!vars)
<1> DEFINE st == [p \in Posts |-> rows[p].status]
           pub == [p \in Posts |-> rows[p].publishedAt]
<1>1. CASE Tick
  BY <1>1 DEF Tick, Lifecycle!Next, Lifecycle!Tick
<1>2. CASE UNCHANGED rows /\ UNCHANGED now
  BY <1>2 DEF Lifecycle!vars
<1>3. ASSUME NEW r \in Requests, NEW u \in Users, NEW p \in Posts,
             NEW data \in UpdateData, CreatePost(r, u, p, data)
      PROVE  Lifecycle!Create(p)
  <2>1. rows[p] = NoPost /\ now' = now
    BY <1>3 DEF CreatePost
  <2>2. \A s \in Posts : rows'[s] = IF s = p THEN rows'[p] ELSE rows[s]
    BY <1>3 DEF CreatePost, IInv, TypeOK
  <2>3. rows'[p].status = "draft" /\ rows'[p].publishedAt = Never
    BY <1>3 DEF CreatePost, IInv, TypeOK
  <2>4. st' = [st EXCEPT ![p] = "draft"]
    BY <2>2, <2>3
  <2>5. pub' = pub
    BY <2>1, <2>2, <2>3 DEF NoPost
  <2> QED BY <2>1, <2>4, <2>5 DEF Lifecycle!Create, NoPost
<1>4. ASSUME NEW r \in Requests, Transition(r)
      PROVE  \/ UNCHANGED rows /\ UNCHANGED now
             \/ \E p \in Posts : Lifecycle!Publish(p) \/
                                 \E t \in Statuses : Lifecycle!Move(p, t)
  <2>1. reqs[r] \in MoveRequest
    BY <1>4 DEF Transition, IInv, TypeOK, Request, Idle, UpdateRequest, TagRequest
  <2>0. PICK p \in Posts, target \in Statuses :
               p = reqs[r].post /\ target = reqs[r].target
    BY <2>1 DEF MoveRequest
  <2>2. rows[p] \in Row
    BY <1>4, <2>0 DEF Transition, IInv, TypeOK, ReadRowsExist
  <2>3. CASE target \notin AllowedTransitions[rows[p].status]
    BY <1>4, <2>0, <2>3 DEF Transition
  <2>4. CASE target \in AllowedTransitions[rows[p].status]
    <3> DEFINE date == PublicationDate(rows[p], target, now)
    <3>1. rows' = [rows EXCEPT ![p] = Moved(rows[p], target, now)] /\ now' = now
      BY <1>4, <2>0, <2>4 DEF Transition, IInv, TypeOK
    <3>2. Moved(rows[p], target, now).status = target
          /\ Moved(rows[p], target, now).publishedAt = date
      BY <2>2 DEF Moved, Row
    <3>3. st' = [st EXCEPT ![p] = target] /\ pub' = [pub EXCEPT ![p] = date]
      BY <2>2, <3>1, <3>2 DEF IInv, TypeOK
    <3>4. rows[p].status # "absent"
      BY <2>2 DEF Row, Statuses
    <3>5. CASE target = "published"
      <4>1. date = IF pub[p] = Never THEN now ELSE pub[p]
        BY <2>2, <3>5 DEF PublicationDate
      <4>2. Lifecycle!Publish(p)
        BY <2>2, <2>4, <3>1, <3>3, <3>4, <3>5, <4>1, SameTable DEF Lifecycle!Publish
      <4> QED BY <4>2
    <3>6. CASE target # "published"
      <4>1. pub' = pub
        BY <2>2, <3>3, <3>6 DEF PublicationDate
      <4>2. Lifecycle!Move(p, target)
        BY <2>2, <2>4, <3>1, <3>3, <3>4, <3>6, <4>1, SameTable DEF Lifecycle!Move
      <4> QED BY <4>2
    <3> QED BY <3>5, <3>6
  <2> QED BY <2>3, <2>4
<1>5. ASSUME NEW r \in Requests, SaveUpdate(r) PROVE FALSE
  BY <1>5 DEF SaveUpdate, NoUpdates
<1>6. ASSUME NEW r \in Requests, Begin(r, Posts, UpdateData)
      PROVE  [Lifecycle!Next]_(Lifecycle!vars)
  BY <1>2, <1>3, <1>6 DEF Begin, LoadUpdate, LoadStatusChange, LoadDestroy, LoadRestore,
                          Load, Lifecycle!Next
<1>7. ASSUME NEW r \in Requests, Finish(r) PROVE [Lifecycle!Next]_(Lifecycle!vars)
  BY <1>2, <1>4, <1>5, <1>7, SameTable DEF Finish, SetTags, Lifecycle!Next
<1> QED BY <1>1, <1>2, <1>6, <1>7 DEF Next, vars

\* When no update is used, any number of overlapping requests keep the
\* promise of the life cycle.
THEOREM LockedRequestsImplementLifecycle ==
  ASSUME "update" \notin Kinds
  PROVE  Spec => ImplementsLifecycle
<1>1. Init => Lifecycle!Init
  BY SameTable DEF Init, Lifecycle!Init, NoPost
<1>2. IInv /\ [Next]_vars => [Lifecycle!Next]_(Lifecycle!vars)
  BY LifecycleStep DEF IInv, KindsInUse, NoUpdates
<1> QED BY <1>1, <1>2, Inductive, PTL DEF Spec, ImplementsLifecycle, Lifecycle!Spec

-------------------------------------------------------------------------------
(* The scenarios of MCPostWorkflow                                         *)

\* A request that was validated against the row as it is: nothing has written
\* the row since.
Fresh(q) ==
  /\ q.pc = "loaded" /\ q.kind = "update" =>
       q.snap = rows[q.post] /\ UpdateAllowed(rows[q.post], q.data)
  /\ q.pc = "loaded" /\ q.kind # "update" /\ q.target = "published" =>
       rows[q.post].content # NoContent
  /\ q.pc = "saved" => rows[q.post] # NoPost
  /\ q.pc = "saved" /\ q.kind = "update" => rows[q.post].status # "published"

\* One request at a time, and it is fresh.
AloneAndFresh ==
  /\ \A a, b \in Requests : reqs[a] # Idle /\ reqs[b] # Idle => a = b
  /\ \A r \in Requests : Fresh(reqs[r])

ScenarioInv ==
  /\ IInv
  /\ scenario = "locked" => NoUpdates
  /\ scenario = "serial" => AloneAndFresh

\* A free slot is fresh.
LEMMA IdleIsFresh == Fresh(Idle) /\ Fresh(Idle)'
BY DEF Fresh, Idle

\* Every step of a scenario is a step of the requests.
LEMMA ScenarioStepIsStep == MCNext => Next
BY DEF MCNext, Next, Begin, OneTitle

\* A request that is validated now is fresh.
LEMMA LoadIsFresh ==
  ASSUME IInv, AloneAndFresh, NEW r \in Requests, NEW q, Fresh(q),
         reqs' = [reqs EXCEPT ![r] = q], rows' = rows, OneAtATime
  PROVE  AloneAndFresh'
<1>1. \A s \in Requests : reqs'[s] = IF s = r THEN q ELSE reqs[s]
  BY DEF IInv, TypeOK
<1> QED BY <1>1 DEF AloneAndFresh, OneAtATime, Fresh, UpdateAllowed

\* The only request in flight writes its row: what is left of it is fresh.
LEMMA WriteIsFresh ==
  ASSUME IInv, AloneAndFresh, NEW r \in Requests, reqs[r] # Idle, NEW q, Fresh(q)',
         reqs' = [reqs EXCEPT ![r] = q], OneAtATime
  PROVE  AloneAndFresh'
<1>1. \A s \in Requests : reqs'[s] = IF s = r THEN q ELSE Idle
  BY DEF IInv, TypeOK, AloneAndFresh
<1>2. \A s \in Requests : Fresh(reqs[s])'
  BY <1>1, IdleIsFresh DEF Fresh
<1> QED BY <1>2 DEF AloneAndFresh, OneAtATime

\* A post is created while another request may be in flight, on another post.
LEMMA CreationIsFresh ==
  ASSUME IInv, AloneAndFresh, NEW r \in Requests, NEW u \in Users, NEW p \in Posts,
         NEW data \in UpdateData, CreatePost(r, u, p, data), OneAtATime
  PROVE  AloneAndFresh'
<1> DEFINE q == TagsLeft("create", p, data.tags)
<1>1. \A s \in Requests : reqs'[s] = IF s = r THEN q ELSE reqs[s]
  BY DEF CreatePost, IInv, TypeOK
<1>2. \A s \in Posts \ {p} : rows'[s] = rows[s]
  BY DEF CreatePost, IInv, TypeOK
<1>3. rows'[p] # NoPost /\ rows[p] = NoPost
  BY DEF CreatePost, IInv, TypeOK, NoPost
<1>4. Fresh(q)'
  BY <1>3 DEF Fresh, TagsLeft, Idle
<1>5. ASSUME NEW s \in Requests, s # r PROVE Fresh(reqs[s])'
  <2>1. reqs'[s] = reqs[s]
    BY <1>1, <1>5
  <2>2. CASE reqs[s].pc = "idle"
    BY <2>1, <2>2 DEF Fresh
  <2>3. CASE reqs[s].pc # "idle"
    <3>1. reqs[s].post \in Posts /\ rows[reqs[s].post] # NoPost
      BY <2>3 DEF IInv, TypeOK, ReadRowsExist, Request, Idle, UpdateRequest, TagRequest,
                  MoveRequest, AloneAndFresh, Fresh
    <3>2. rows'[reqs[s].post] = rows[reqs[s].post]
      BY <1>2, <1>3, <3>1
    <3> QED BY <2>1, <3>2 DEF AloneAndFresh, Fresh, UpdateAllowed
  <2> QED BY <2>2, <2>3
<1> QED BY <1>1, <1>4, <1>5 DEF AloneAndFresh, OneAtATime

\* Requests that keep apart stay fresh.
LEMMA StepIsFresh ==
  ASSUME IInv, AloneAndFresh, Next, OneAtATime
  PROVE  AloneAndFresh'
<1>1. ASSUME NEW r \in Requests, NEW u \in Users, NEW p \in Posts,
             NEW data \in UpdateData, LoadUpdate(r, u, p, data)
      PROVE  AloneAndFresh'
  <2> DEFINE q == [pc |-> "loaded", kind |-> "update", post |-> p,
                   snap |-> rows[p], data |-> data]
  <2>1. Fresh(q)
    BY <1>1 DEF LoadUpdate, Fresh
  <2> QED BY <1>1, <2>1, LoadIsFresh DEF LoadUpdate, Load
<1>2. ASSUME NEW r \in Requests, NEW u \in Users, NEW p \in Posts,
             NEW kind \in {"change_status", "destroy", "restore"}, NEW target \in Statuses,
             target = "published" => rows[p].content # NoContent,
             Load(r, u, p, kind, [pc |-> "loaded", kind |-> kind, post |-> p,
                                  target |-> target])
      PROVE  AloneAndFresh'
  <2> DEFINE q == [pc |-> "loaded", kind |-> kind, post |-> p, target |-> target]
  <2>1. Fresh(q)
    BY <1>2 DEF Fresh
  <2> QED BY <1>2, <2>1, LoadIsFresh DEF Load
<1>3. "draft" \in Statuses /\ "deleted" \in Statuses
  BY DEF Statuses
<1>4. ASSUME NEW r \in Requests, Begin(r, Posts, UpdateData) PROVE AloneAndFresh'
  BY <1>1, <1>2, <1>3, <1>4, CreationIsFresh
     DEF Begin, LoadStatusChange, StatusChangeAllowed, LoadDestroy, LoadRestore
<1>5. ASSUME NEW r \in Requests, SaveUpdate(r) PROVE AloneAndFresh'
  <2> DEFINE p == reqs[r].post
             q == TagsLeft("update", p, reqs[r].data.tags)
  <2>1. reqs[r] \in UpdateRequest
    BY <1>5 DEF SaveUpdate, IInv, TypeOK, Request, Idle, TagRequest, MoveRequest
  <2>2. PICK post \in Posts, data \in UpdateData : post = p /\ data = reqs[r].data
    BY <2>1 DEF UpdateRequest
  <2>3. reqs[r].snap = rows[post] /\ UpdateAllowed(rows[post], data) /\ rows[post] \in Row
    BY <1>5, <2>1, <2>2 DEF SaveUpdate, AloneAndFresh, Fresh, UpdateRequest
  <2>4. rows'[post] = Overwritten(rows[post], data)
    BY <1>5, <2>2, <2>3 DEF SaveUpdate, IInv, TypeOK
  <2>5. rows'[post].status = rows[post].status /\ rows'[post] # NoPost
    BY <2>2, <2>3, <2>4, OverwrittenIsSound DEF NoPost, Row, Statuses
  <2>6. Fresh(TagsLeft("update", post, data.tags))'
    BY <2>3, <2>5 DEF Fresh, TagsLeft, Idle, UpdateAllowed
  <2>7. reqs' = [reqs EXCEPT ![r] = TagsLeft("update", post, data.tags)] /\ reqs[r] # Idle
    BY <1>5, <2>2 DEF SaveUpdate, Idle
  <2> QED BY <2>6, <2>7, WriteIsFresh
<1>6. ASSUME NEW r \in Requests, SetTags(r) \/ Transition(r) PROVE AloneAndFresh'
  BY <1>6, IdleIsFresh, WriteIsFresh DEF SetTags, Transition, Idle
<1>7. CASE Tick
  BY <1>7 DEF Tick, AloneAndFresh, Fresh, UpdateAllowed
<1> QED BY <1>4, <1>5, <1>6, <1>7 DEF Next, Finish

\* The requests are in order in every state of every scenario.
LEMMA ScenarioInductive == MCSpec => []ScenarioInv
<1>1. MCInit => ScenarioInv
  BY InitIInv, IdleIsFresh DEF MCInit, Init, ScenarioInv, NoUpdates, AloneAndFresh, Idle
<1>2. ScenarioInv /\ [MCNext]_mcvars => ScenarioInv'
  <2> SUFFICES ASSUME ScenarioInv, [MCNext]_mcvars PROVE ScenarioInv'
    OBVIOUS
  <2>1. CASE MCNext
    <3>1. IInv'
      BY <2>1, ScenarioStepIsStep, StepIInv DEF ScenarioInv
    <3>2. scenario' = scenario
      BY <2>1 DEF MCNext
    <3>3. scenario = "locked" => NoUpdates'
      BY <2>1 DEF MCNext, NoUpdate, NoUpdates, Idle
    <3>4. scenario = "serial" => AloneAndFresh'
      BY <2>1, ScenarioStepIsStep, StepIsFresh DEF MCNext, ScenarioInv
    <3> QED BY <3>1, <3>2, <3>3, <3>4 DEF ScenarioInv
  <2>2. CASE UNCHANGED mcvars
    <3>1. UNCHANGED vars /\ UNCHANGED <<rows, tags, reqs, now, scenario>>
      BY <2>2 DEF mcvars, vars
    <3>2. IInv'
      BY <3>1, StepIInv DEF ScenarioInv
    <3> QED BY <3>1, <3>2 DEF ScenarioInv, NoUpdates, AloneAndFresh, Fresh, UpdateAllowed
  <2> QED BY <2>1, <2>2
<1> QED BY <1>1, <1>2, PTL DEF MCSpec

\* Without updates in flight the requests keep the promise of the life cycle,
\* whatever the clients used before or will use.
THEOREM LockedScenarioImplementsLifecycle == MCSpec => LockedImplementsLifecycle
<1>1. MCInit => Lifecycle!Init
  BY SameTable DEF MCInit, Init, Lifecycle!Init, NoPost
<1>2. ScenarioInv /\ [MCNext]_mcvars
        => [scenario = "locked" => [Lifecycle!Next]_(Lifecycle!vars)]_mcvars
  BY LifecycleStep, ScenarioStepIsStep DEF ScenarioInv
<1> QED BY <1>1, <1>2, ScenarioInductive, PTL DEF MCSpec, LockedImplementsLifecycle

\* What a fresh request does to its row.
LEMMA FreshRowStep ==
  ASSUME IInv, AloneAndFresh, Next, NEW p \in Posts, rows'[p] # rows[p], rows[p] # NoPost
  PROVE  /\ rows'[p].status # rows[p].status
              => rows'[p].status \in AllowedTransitions[rows[p].status]
         /\ rows[p].publishedAt # Never => rows'[p].publishedAt = rows[p].publishedAt
         /\ rows[p].status # "published" /\ rows'[p].status = "published"
              => rows'[p].content # NoContent
         /\ rows[p].status = "published" => rows'[p].title = rows[p].title
<1>1. ASSUME rows[p] \in Row, NEW r \in Requests, MovedBy(r, p)
      PROVE  /\ rows'[p].status \in AllowedTransitions[rows[p].status]
             /\ rows[p].publishedAt # Never => rows'[p].publishedAt = rows[p].publishedAt
             /\ rows'[p].status = "published" => rows'[p].content # NoContent
             /\ rows'[p].title = rows[p].title
  <2>1. reqs[r].target = "published" => rows[p].content # NoContent
    BY <1>1 DEF AloneAndFresh, Fresh, MovedBy
  <2> QED BY <1>1, <2>1, MoveKeeps DEF MovedBy
<1>2. ASSUME NEW r \in Requests, PutBackBy(r, p), reqs[r] \in UpdateRequest,
             rows'[p] = Overwritten(reqs[r].snap, reqs[r].data)
      PROVE  /\ rows'[p].status = rows[p].status
             /\ rows'[p].publishedAt = rows[p].publishedAt
             /\ rows[p].status = "published" => rows'[p].title = rows[p].title
  <2>1. reqs[r].snap = rows[p] /\ UpdateAllowed(rows[p], reqs[r].data) /\ rows[p] \in Row
    BY <1>2 DEF AloneAndFresh, Fresh, PutBackBy, UpdateRequest
  <2> QED BY <1>2, <2>1 DEF PutBackBy, UpdateAllowed, Overwritten, Row
<1> QED BY <1>1, <1>2, RowStep

\* The tags of a post change only by the request that still owes them: one that
\* created the post, when the post is published.
LEMMA FreshTagStep ==
  ASSUME IInv, AloneAndFresh, Next, NEW p \in Posts, tags'[p] # tags[p],
         rows[p].status = "published"
  PROVE  \E r \in Requests : reqs[r].pc = "saved" /\ reqs[r].kind = "create"
                            /\ reqs[r].post = p /\ reqs'[r] = Idle
<1>1. PICK r \in Requests : SetTags(r)
  BY DEF Next, Begin, Finish, LoadUpdate, LoadStatusChange, LoadDestroy, LoadRestore, Load,
         CreatePost, SaveUpdate, Transition, Tick
<1>2. reqs[r].post = p /\ reqs'[r] = Idle
  BY <1>1 DEF SetTags, IInv, TypeOK
<1>3. reqs[r].kind = "create"
  BY <1>1, <1>2 DEF SetTags, AloneAndFresh, Fresh, IInv, TypeOK, Request, Idle,
                    UpdateRequest, MoveRequest, TagRequest
<1> QED BY <1>1, <1>2, <1>3 DEF SetTags

\* A step of the serial scenario keeps every promise made to readers.
LEMMA SerialStep ==
  ASSUME ScenarioInv, [MCNext]_mcvars, scenario = "serial"
  PROVE  PublishedStaysFrozen /\ PublicationHasContent /\ OnTable /\ DatesStay
<1>1. CASE UNCHANGED mcvars
  <2>1. rows' = rows /\ tags' = tags
    BY <1>1 DEF mcvars, vars
  <2> QED BY <2>1 DEF PublishedStaysFrozen, PublicationHasContent, OnTable, DatesStay
<1>2. CASE MCNext
  <2>1. IInv /\ AloneAndFresh /\ Next
    BY <1>2, ScenarioStepIsStep DEF ScenarioInv
  <2>2. ASSUME NEW p \in Posts, rows[p] = NoPost, rows'[p] # rows[p]
        PROVE  rows'[p].status = "draft"
    BY <2>1, <2>2, RowStep DEF NoPost, Row, Statuses, MovedBy, PutBackBy, AloneAndFresh,
                                Fresh, IInv, ReadRowsExist
  <2>3. PublishedStaysFrozen
    BY <2>1, FreshRowStep, FreshTagStep DEF PublishedStaysFrozen, NoPost
  <2>4. PublicationHasContent
    BY <2>1, <2>2, FreshRowStep DEF PublicationHasContent
  <2>5. OnTable
    BY <2>1, FreshRowStep DEF OnTable, NoPost
  <2>6. DatesStay
    BY <2>1, FreshRowStep DEF DatesStay, NoPost
  <2> QED BY <2>3, <2>4, <2>5, <2>6
<1> QED BY <1>1, <1>2

\* As long as requests do not overlap, no update changes the title or the tags
\* of a published post: PostUpdateSerializer.validate has seen the row it is
\* about to overwrite.
THEOREM SerialUpdatesFreeze == MCSpec => SerialPublishedFrozen
<1>1. ScenarioInv /\ [MCNext]_mcvars => [scenario = "serial" => PublishedStaysFrozen]_mcvars
  BY SerialStep
<1> QED BY <1>1, ScenarioInductive, PTL DEF MCSpec, SerialPublishedFrozen

\* As long as requests do not overlap, nothing is published without content.
THEOREM SerialPublicationsHaveContent == MCSpec => SerialPublishedWithContent
<1>1. ScenarioInv /\ [MCNext]_mcvars => [scenario = "serial" => PublicationHasContent]_mcvars
  BY SerialStep
<1> QED BY <1>1, ScenarioInductive, PTL DEF MCSpec, SerialPublishedWithContent

\* As long as requests do not overlap, every status change is on the table.
THEOREM SerialStatusesFollowTable == MCSpec => SerialTransitionsFollowTable
<1>1. ScenarioInv /\ [MCNext]_mcvars => [scenario = "serial" => OnTable]_mcvars
  BY SerialStep
<1> QED BY <1>1, ScenarioInductive, PTL DEF MCSpec, SerialTransitionsFollowTable

\* As long as requests do not overlap, the first publication date stays.
THEOREM SerialDatesStay == MCSpec => SerialFirstPublicationKept
<1>1. ScenarioInv /\ [MCNext]_mcvars => [scenario = "serial" => DatesStay]_mcvars
  BY SerialStep
<1> QED BY <1>1, ScenarioInductive, PTL DEF MCSpec, SerialFirstPublicationKept

===============================================================================
