-------------------------- MODULE UploadStorageProofs --------------------------
(***************************************************************************)
(* Theorems about UploadStorage for any number of uploads and requests,    *)
(* and about the scenarios of MCUploadStorage.                             *)
(***************************************************************************)
EXTENDS MCUploadStorage, TLAPS

\* A row whose path and visibility agree.
SoundRow(row) == row \in Row /\ row.file.area = row.visibility

\* The states of a request that is inside change_visibility with the lock.
Locked == {"locked", "checked", "moved"}

\* What a request holds in memory agrees too, before and after a move; and
\* change_visibility is only entered with a visibility to change to.
SoundRequest(q) ==
  /\ q \in Request
  /\ q.pc = "stored" => SoundRow(q.row)
  /\ q.pc \notin {"idle", "stored"} => SoundRow(q.mem)
  /\ q.pc \in Locked \cup {"loaded"} => q.vis \in Visibilities

RowsSound == \A u \in Uploads : rows[u] = NoRow \/ SoundRow(rows[u])
RequestsSound == \A r \in Requests : SoundRequest(reqs[r])

\* A row that is locked is there.
LockedRowsExist == \A u \in Uploads : lock[u] # Nobody => rows[u] # NoRow

IInv == TypeOK /\ RowsSound /\ RequestsSound /\ LockedRowsExist

\* The table after a step: no row vanishes, and what it holds is sound.
RowsWritten ==
  /\ rows' \in [Uploads -> Row \cup {NoRow}]
  /\ RowsSound'
  /\ \A u \in Uploads : rows[u] # NoRow => rows'[u] # NoRow

-------------------------------------------------------------------------------
(* Facts about the data                                                    *)

\* No row is a row of the table that says nothing.
LEMMA RowIsNotNoRow == NoRow \notin Row
BY DEF Row, NoRow, Ages

\* A request's kind of record follows from its pc.
LEMMA RequestKinds ==
  ASSUME NEW q \in Request
  PROVE  /\ q.pc = "idle" <=> q = Idle
         /\ q.pc = "stored" => q \in Storing
         /\ q.pc \in {"loaded", "locked", "checked", "moved", "purpose", "save"} => q \in Patching
         /\ q.pc \in {"destroy", "restore"} => q \in Marking
BY DEF Request, Idle, Storing, Patching, Marking

\* A deletion or an expiry keeps path and visibility.
LEMMA MarkedRowIsSound ==
  ASSUME NEW row, SoundRow(row), NEW age \in Ages
  PROVE  SoundRow([row EXCEPT !.deleted = age])
BY DEF SoundRow, Row

\* _target_path gives a path of the visibility it is asked for.
LEMMA TargetAgrees ==
  ASSUME NEW path \in Paths, NEW vis \in Visibilities
  PROVE  TargetPath(path, vis) \in Paths /\ TargetPath(path, vis).area = vis
BY DEF TargetPath, Paths

LEMMA RetargetedRowIsSound ==
  ASSUME NEW row, SoundRow(row), NEW path \in Paths, NEW vis \in Visibilities
  PROVE  SoundRow(Retargeted(row, TargetPath(path, vis), vis))
BY TargetAgrees DEF SoundRow, Row, Retargeted

\* An update in memory, moved on.
LEMMA HoldingIsSound ==
  ASSUME NEW q \in Patching, NEW pc, NEW mem, SoundRow(mem),
         pc \in {"loaded", "locked", "checked", "moved", "purpose", "save"},
         pc \in Locked \cup {"loaded"} => q.vis \in Visibilities
  PROVE  /\ SoundRequest(Holding(q, pc, mem))
         /\ Holding(q, pc, mem).pc = pc
         /\ Holding(q, pc, mem).up = q.up
<1>1. mem \in Row
  BY DEF SoundRow
<1>2. Holding(q, pc, mem) \in Patching
  BY <1>1 DEF Patching, Holding
<1>3. /\ Holding(q, pc, mem).pc = pc
      /\ Holding(q, pc, mem).up = q.up
      /\ Holding(q, pc, mem).mem = mem
      /\ Holding(q, pc, mem).vis = q.vis
  BY DEF Patching, Holding
<1> QED
  BY <1>2, <1>3 DEF SoundRequest, Request

-------------------------------------------------------------------------------
(* One request moves, and what it holds stays sound                        *)

\* The lock of u is held by r exactly when r is inside change_visibility on u.
Holds(u, r) == reqs[r].pc \in Locked /\ reqs[r].up = u

\* TypeOK without its last conjunct, and the conjunct.
LEMMA TypeParts ==
  TypeOK <=> /\ rows \in [Uploads -> Row \cup {NoRow}]
             /\ files \in [Paths -> Uploads \cup {Nobody}]
             /\ reqs \in [Requests -> Request]
             /\ cleaner \in Cleaner
             /\ lock \in [Uploads -> Requests \cup {Nobody}]
             /\ \A u \in Uploads, r \in Requests : lock[u] = r <=> Holds(u, r)
BY DEF TypeOK, Holds, Locked

\* A step of request r after which it holds q: the lock of each row is r's
\* exactly when q says so, and nobody else's lock changes.
LEMMA StepOf ==
  ASSUME IInv, NEW r \in Requests, NEW q, SoundRequest(q),
         reqs' = [reqs EXCEPT ![r] = q],
         lock' \in [Uploads -> Requests \cup {Nobody}],
         \A u \in Uploads : lock'[u] = r <=> q.pc \in Locked /\ q.up = u,
         \A u \in Uploads, s \in Requests : s # r => (lock'[u] = s <=> lock[u] = s),
         LockedRowsExist', RowsWritten,
         files' \in [Paths -> Uploads \cup {Nobody}], cleaner' \in Cleaner
  PROVE  IInv'
<1>1. q \in Request
  BY DEF SoundRequest
<1>2. reqs' \in [Requests -> Request]
  BY <1>1 DEF IInv, TypeOK
<1>3. \A s \in Requests : reqs'[s] = IF s = r THEN q ELSE reqs[s]
  BY DEF IInv, TypeOK
<1>4. \A u \in Uploads, s \in Requests : lock[u] = s <=> Holds(u, s)
  BY TypeParts DEF IInv
<1>5. \A u \in Uploads, s \in Requests : lock'[u] = s <=> Holds(u, s)'
  BY <1>3, <1>4 DEF Holds
<1>6. RequestsSound'
  BY <1>3 DEF IInv, RequestsSound
<1>7. TypeOK'
  BY <1>2, <1>5 DEF TypeOK, Holds, Locked, RowsWritten
<1> QED
  BY <1>6, <1>7 DEF IInv, RowsWritten

\* The common case: r neither enters nor leaves change_visibility.
LEMMA StepInPlace ==
  ASSUME IInv, NEW r \in Requests, NEW q, SoundRequest(q),
         reqs' = [reqs EXCEPT ![r] = q], lock' = lock,
         q.pc \in Locked <=> reqs[r].pc \in Locked,
         q.pc \in Locked => q.up = reqs[r].up,
         RowsWritten,
         files' \in [Paths -> Uploads \cup {Nobody}], cleaner' \in Cleaner
  PROVE  IInv'
<1>1. lock' \in [Uploads -> Requests \cup {Nobody}]
  BY DEF IInv, TypeOK
<1>2. \A u \in Uploads : lock'[u] = r <=> q.pc \in Locked /\ q.up = u
  BY TypeParts DEF IInv, Holds
<1>3. LockedRowsExist'
  BY DEF IInv, LockedRowsExist, RowsWritten
<1> QED
  BY <1>1, <1>2, <1>3, StepOf

\* The end of the transaction: r leaves change_visibility and unlocks its row.
LEMMA StepUnlocking ==
  ASSUME IInv, NEW r \in Requests, NEW q, SoundRequest(q), q.pc \notin Locked,
         reqs' = [reqs EXCEPT ![r] = q],
         reqs[r].pc \in Locked, lock' = [lock EXCEPT ![reqs[r].up] = Nobody],
         RowsWritten,
         files' \in [Paths -> Uploads \cup {Nobody}], cleaner' \in Cleaner
  PROVE  IInv'
<1>1. lock \in [Uploads -> Requests \cup {Nobody}] /\ Nobody \notin Requests
  BY NobodyIsNobody DEF IInv, TypeOK
<1>2. reqs[r].up \in Uploads /\ lock[reqs[r].up] = r
  <2>1. reqs[r] \in Patching
    BY RequestKinds DEF IInv, TypeOK, Locked
  <2>2. reqs[r].up \in Uploads
    BY <2>1 DEF Patching
  <2> QED
    BY <2>2, TypeParts DEF IInv, Holds
<1>3. lock' \in [Uploads -> Requests \cup {Nobody}]
  BY <1>1
<1>4. \A u \in Uploads : lock'[u] = r <=> q.pc \in Locked /\ q.up = u
  BY <1>1, <1>2, TypeParts DEF IInv, Holds
<1>5. \A u \in Uploads, s \in Requests : s # r => (lock'[u] = s <=> lock[u] = s)
  BY <1>1, <1>2
<1>6. LockedRowsExist'
  BY <1>1 DEF IInv, LockedRowsExist, RowsWritten
<1> QED
  BY <1>3, <1>4, <1>5, <1>6, StepOf

\* Writing a sound row at u.
LEMMA WriteRow ==
  ASSUME IInv, NEW u \in Uploads, NEW row, SoundRow(row),
         rows' = [rows EXCEPT ![u] = row]
  PROVE  RowsWritten
<1>1. rows \in [Uploads -> Row \cup {NoRow}] /\ row \in Row
  BY DEF IInv, TypeOK, SoundRow
<1>2. \A w \in Uploads : rows'[w] = IF w = u THEN row ELSE rows[w]
  BY <1>1
<1>3. RowsSound'
  BY <1>2 DEF IInv, RowsSound
<1> QED
  BY <1>1, <1>2, <1>3, RowIsNotNoRow DEF RowsWritten

LEMMA KeepRows ==
  ASSUME IInv, rows' = rows
  PROVE  RowsWritten
BY DEF IInv, TypeOK, RowsSound, RowsWritten

LEMMA IdleIsSound == SoundRequest(Idle)
BY DEF SoundRequest, Idle, Request, Locked

-------------------------------------------------------------------------------
(* One lemma per action                                                    *)

LEMMA StoreFileStep ==
  ASSUME IInv, NEW r \in Requests, NEW u \in Uploads, NEW vis \in Visibilities,
         NEW rel \in RelPaths, StoreFile(r, u, vis, rel)
  PROVE  IInv'
<1>1. PICK row : row = [file |-> PathFor(vis, rel), visibility |-> vis, deleted |-> "active"]
  OBVIOUS
<1>2. PathFor(vis, rel) \in Paths /\ PathFor(vis, rel).area = vis
  BY DEF PathFor, Paths
<1>3. SoundRow(row)
  BY <1>1, <1>2 DEF SoundRow, Row, Ages
<1>4. PICK q : q = [pc |-> "stored", up |-> u, row |-> row]
  OBVIOUS
<1>5. SoundRequest(q) /\ q.pc \notin Locked
  BY <1>3, <1>4 DEF SoundRequest, SoundRow, Request, Storing, Locked
<1>6. reqs' = [reqs EXCEPT ![r] = q]
  BY <1>1, <1>4 DEF StoreFile
<1>7. reqs[r].pc \notin Locked
  BY DEF StoreFile, Idle, Locked
<1>8. RowsWritten
  BY KeepRows DEF StoreFile
<1>9. /\ files' \in [Paths -> Uploads \cup {Nobody}]
      /\ cleaner' \in Cleaner /\ lock' = lock
  BY <1>2 DEF StoreFile, IInv, TypeOK
<1> QED
  BY <1>5, <1>6, <1>7, <1>8, <1>9, StepInPlace

\* What follows from a step that turns to idle and leaves files and locks alone.
LEMMA StepDone ==
  ASSUME IInv, NEW r \in Requests, reqs[r].pc \notin Locked, Done(r),
         UNCHANGED <<lock, cleaner, files>>, RowsWritten
  PROVE  IInv'
<1>1. SoundRequest(Idle) /\ Idle.pc \notin Locked
  BY IdleIsSound DEF Idle, Locked
<1>2. reqs' = [reqs EXCEPT ![r] = Idle] /\ lock' = lock
  BY DEF Done
<1>3. files' \in [Paths -> Uploads \cup {Nobody}] /\ cleaner' \in Cleaner
  BY DEF IInv, TypeOK
<1> QED
  BY <1>1, <1>2, <1>3, StepInPlace

LEMMA InsertRowStep ==
  ASSUME IInv, NEW r \in Requests, InsertRow(r)
  PROVE  IInv'
<1>1. reqs[r] \in Storing /\ SoundRow(reqs[r].row)
  BY RequestKinds DEF InsertRow, IInv, TypeOK, RequestsSound, SoundRequest
<1>2. reqs[r].up \in Uploads
  BY <1>1 DEF Storing
<1>3. RowsWritten
  BY <1>1, <1>2, WriteRow DEF InsertRow
<1> QED
  BY <1>3, StepDone DEF InsertRow, Locked

LEMMA LoadPatchStep ==
  ASSUME IInv, NEW r \in Requests, NEW u \in Uploads,
         NEW vis \in Visibilities \cup {"keep"}, NEW purpose \in BOOLEAN,
         LoadPatch(r, u, vis, purpose)
  PROVE  IInv'
<1>1. SoundRow(rows[u])
  BY DEF LoadPatch, NoRow, IInv, RowsSound
<1>2. PICK pc : pc = IF vis \in {"keep", rows[u].visibility} THEN AfterVisibility(purpose)
                     ELSE "loaded"
  OBVIOUS
<1>3. /\ pc \in {"loaded", "purpose", "save"}
      /\ pc = "loaded" => vis \in Visibilities
  BY <1>2 DEF AfterVisibility
<1>4. PICK q : q = [pc |-> pc, up |-> u, mem |-> rows[u], vis |-> vis, purpose |-> purpose]
  OBVIOUS
<1>5. q \in Patching
  BY <1>1, <1>3, <1>4 DEF Patching, SoundRow
<1>6. SoundRequest(q) /\ q.pc \notin Locked
  BY <1>1, <1>3, <1>4, <1>5 DEF SoundRequest, Request, Locked
<1>7. reqs' = [reqs EXCEPT ![r] = q]
  BY <1>2, <1>4 DEF LoadPatch
<1>8. reqs[r].pc \notin Locked
  BY DEF LoadPatch, Idle, Locked
<1>9. RowsWritten
  BY KeepRows DEF LoadPatch
<1>10. /\ files' \in [Paths -> Uploads \cup {Nobody}]
       /\ cleaner' \in Cleaner /\ lock' = lock
  BY DEF LoadPatch, IInv, TypeOK
<1> QED
  BY <1>6, <1>7, <1>8, <1>9, <1>10, StepInPlace

\* A request that is past LoadPatch.
LEMMA PatchFacts ==
  ASSUME IInv, NEW r \in Requests,
         reqs[r].pc \in {"loaded", "locked", "checked", "moved", "purpose", "save"}
  PROVE  /\ reqs[r] \in Patching /\ reqs[r].up \in Uploads
         /\ SoundRow(reqs[r].mem)
         /\ reqs[r].pc \in Locked \cup {"loaded"} => reqs[r].vis \in Visibilities
<1>1. reqs[r] \in Patching
  BY RequestKinds DEF IInv, TypeOK
<1> QED
  BY <1>1 DEF Patching, IInv, RequestsSound, SoundRequest

LEMMA TakeLockStep ==
  ASSUME IInv, NEW r \in Requests, TakeLock(r)
  PROVE  IInv'
<1> DEFINE u == reqs[r].up
<1>1. /\ reqs[r] \in Patching /\ u \in Uploads /\ reqs[r].vis \in Visibilities
      /\ reqs[r].pc = "loaded" /\ lock[u] = Nobody
  BY PatchFacts DEF TakeLock
<1>2. RowsWritten
  BY KeepRows DEF TakeLock
<1>3. CASE rows[u].deleted = "active"
  <2>1. SoundRow(rows[u]) /\ rows[u] # NoRow
    BY <1>1, <1>3 DEF NoRow, IInv, RowsSound
  <2>2. PICK q : q = Holding(reqs[r], "locked", rows[u])
    OBVIOUS
  <2>3. SoundRequest(q) /\ q.pc = "locked" /\ q.up = u
    BY <1>1, <2>1, <2>2, HoldingIsSound
  <2>4. reqs' = [reqs EXCEPT ![r] = q] /\ lock' = [lock EXCEPT ![u] = r]
    BY <1>3, <2>2 DEF TakeLock
  <2>5. lock \in [Uploads -> Requests \cup {Nobody}] /\ Nobody \notin Requests
    BY NobodyIsNobody DEF IInv, TypeOK
  <2>6. lock' \in [Uploads -> Requests \cup {Nobody}]
    BY <2>4, <2>5
  <2>7. \A w \in Uploads : lock[w] # r
    BY <1>1, TypeParts DEF IInv, Holds, Locked
  <2>8. \A w \in Uploads : lock'[w] = r <=> q.pc \in Locked /\ q.up = w
    BY <1>1, <2>3, <2>4, <2>5, <2>7 DEF Locked
  <2>9. \A w \in Uploads, s \in Requests : s # r => (lock'[w] = s <=> lock[w] = s)
    BY <1>1, <2>4, <2>5
  <2>10. LockedRowsExist'
    BY <1>1, <2>1, <2>4, <2>5 DEF TakeLock, IInv, LockedRowsExist
  <2>11. files' \in [Paths -> Uploads \cup {Nobody}] /\ cleaner' \in Cleaner
    BY DEF TakeLock, IInv, TypeOK
  <2> QED
    BY <1>2, <2>3, <2>4, <2>6, <2>8, <2>9, <2>10, <2>11, StepOf
<1>4. CASE rows[u].deleted # "active"
  <2>1. Done(r) /\ UNCHANGED <<lock, cleaner, files>>
    BY <1>4 DEF TakeLock
  <2> QED
    BY <1>1, <1>2, <2>1, StepDone DEF Locked
<1> QED
  BY <1>3, <1>4

\* The two ways out of change_visibility, wherever they are taken.
LEMMA CommitPairStep ==
  ASSUME IInv, NEW r \in Requests, reqs[r].pc \in Locked, CommitPair(r),
         UNCHANGED <<files, cleaner>>
  PROVE  IInv'
<1> DEFINE u == reqs[r].up
           vis == reqs[r].vis
<1>1. /\ reqs[r] \in Patching /\ u \in Uploads /\ vis \in Visibilities
      /\ SoundRow(reqs[r].mem)
  BY PatchFacts DEF Locked
<1>2. PICK new : new = TargetPath(reqs[r].mem.file, vis)
  OBVIOUS
<1>3. reqs[r].mem.file \in Paths
  BY <1>1 DEF SoundRow, Row
<1>4. lock[u] = r
  BY <1>1, TypeParts DEF IInv, Holds
<1>5. SoundRow(rows[u])
  BY <1>1, <1>4, NobodyIsNobody DEF IInv, RowsSound, LockedRowsExist
<1>6. SoundRow(Retargeted(rows[u], new, vis)) /\ SoundRow(Retargeted(reqs[r].mem, new, vis))
  BY <1>1, <1>2, <1>3, <1>5, RetargetedRowIsSound
<1>7. PICK q : q = Holding(reqs[r], AfterVisibility(reqs[r].purpose),
                           Retargeted(reqs[r].mem, new, vis))
  OBVIOUS
<1>8. AfterVisibility(reqs[r].purpose) \in {"purpose", "save"}
  BY DEF AfterVisibility
<1>9. SoundRequest(q) /\ q.pc \notin Locked
  BY <1>1, <1>6, <1>7, <1>8, HoldingIsSound DEF Locked
<1>10. /\ rows' = [rows EXCEPT ![u] = Retargeted(rows[u], new, vis)]
       /\ lock' = [lock EXCEPT ![u] = Nobody]
       /\ reqs' = [reqs EXCEPT ![r] = q]
  BY <1>2, <1>7 DEF CommitPair
<1>11. RowsWritten
  BY <1>1, <1>6, <1>10, WriteRow
<1>12. files' \in [Paths -> Uploads \cup {Nobody}] /\ cleaner' \in Cleaner
  BY DEF IInv, TypeOK
<1> QED
  BY <1>9, <1>10, <1>11, <1>12, StepUnlocking

LEMMA FailStep ==
  ASSUME IInv, NEW r \in Requests, reqs[r].pc \in Locked, Fail(r),
         UNCHANGED <<files, cleaner>>
  PROVE  IInv'
<1>1. SoundRequest(Idle) /\ Idle.pc \notin Locked
  BY IdleIsSound DEF Idle, Locked
<1>2. RowsWritten
  BY KeepRows DEF Fail
<1>3. files' \in [Paths -> Uploads \cup {Nobody}] /\ cleaner' \in Cleaner
  BY DEF IInv, TypeOK
<1> QED
  BY <1>1, <1>2, <1>3, StepUnlocking DEF Fail, Done

\* A step from one point of an update to another that keeps the instance.
LEMMA GoToStep ==
  ASSUME IInv, NEW r \in Requests, NEW pc, GoTo(r, pc), UNCHANGED <<rows, lock, cleaner>>,
         reqs[r].pc \in {"locked", "checked", "moved", "purpose", "save"},
         pc \in {"checked", "moved", "purpose", "save"},
         pc \in Locked <=> reqs[r].pc \in Locked,
         files' \in [Paths -> Uploads \cup {Nobody}]
  PROVE  IInv'
<1>1. /\ reqs[r] \in Patching /\ SoundRow(reqs[r].mem)
      /\ reqs[r].pc \in Locked \cup {"loaded"} => reqs[r].vis \in Visibilities
  BY PatchFacts
<1>2. PICK q : q = [reqs[r] EXCEPT !.pc = pc]
  OBVIOUS
<1>3. q \in Patching
  BY <1>1, <1>2 DEF Patching
<1>4. q.pc = pc /\ q.up = reqs[r].up /\ q.mem = reqs[r].mem /\ q.vis = reqs[r].vis
  BY <1>1, <1>2 DEF Patching
<1>5. SoundRequest(q)
  BY <1>1, <1>3, <1>4 DEF SoundRequest, Request, Locked
<1>6. reqs' = [reqs EXCEPT ![r] = q]
  BY <1>2 DEF GoTo
<1>7. RowsWritten /\ cleaner' \in Cleaner /\ lock' = lock
  BY KeepRows DEF IInv, TypeOK
<1> QED
  BY <1>4, <1>5, <1>6, <1>7, StepInPlace

LEMMA CheckFilesStep ==
  ASSUME IInv, NEW r \in Requests, CheckFiles(r)
  PROVE  IInv'
<1>1. reqs[r].pc = "locked" /\ UNCHANGED <<files, cleaner>>
  BY DEF CheckFiles
<1>2. \/ CommitPair(r) \/ Fail(r)
      \/ GoTo(r, "checked") /\ UNCHANGED <<rows, lock>>
  BY DEF CheckFiles
<1>3. CASE CommitPair(r)
  BY <1>1, <1>3, CommitPairStep DEF Locked
<1>4. CASE Fail(r)
  BY <1>1, <1>4, FailStep DEF Locked
<1>5. CASE GoTo(r, "checked") /\ UNCHANGED <<rows, lock>>
  <2>1. files' \in [Paths -> Uploads \cup {Nobody}]
    BY <1>1 DEF IInv, TypeOK
  <2> QED
    BY <1>1, <1>5, <2>1, GoToStep DEF Locked
<1> QED
  BY <1>2, <1>3, <1>4, <1>5

LEMMA MoveFileStep ==
  ASSUME IInv, NEW r \in Requests, MoveFile(r)
  PROVE  IInv'
<1> DEFINE old == reqs[r].mem.file
           new == TargetPath(old, reqs[r].vis)
<1>1. reqs[r].pc = "checked" /\ cleaner' = cleaner
  BY DEF MoveFile
<1>2. old \in Paths /\ new \in Paths
  <2>1. SoundRow(reqs[r].mem) /\ reqs[r].vis \in Visibilities
    BY <1>1, PatchFacts DEF Locked
  <2> QED
    BY <2>1, TargetAgrees DEF SoundRow, Row
<1>3. CASE Exists(old)
  <2>1. /\ files' = [files EXCEPT ![new] = files[old], ![old] = Nobody]
        /\ GoTo(r, "moved") /\ UNCHANGED <<rows, lock>>
    BY <1>3 DEF MoveFile
  <2>2. files \in [Paths -> Uploads \cup {Nobody}]
    BY DEF IInv, TypeOK
  <2>3. files[old] \in Uploads \cup {Nobody}
    BY <1>2, <2>2
  <2>4. files' \in [Paths -> Uploads \cup {Nobody}]
    BY <2>1, <2>2, <2>3
  <2> QED
    BY <1>1, <2>1, <2>4, GoToStep DEF Locked
<1>4. CASE ~Exists(old)
  <2>1. Fail(r) /\ files' = files
    BY <1>4 DEF MoveFile
  <2> QED
    BY <1>1, <2>1, FailStep DEF Locked
<1> QED
  BY <1>3, <1>4

LEMMA CommitMoveStep ==
  ASSUME IInv, NEW r \in Requests, CommitMove(r)
  PROVE  IInv'
BY CommitPairStep DEF CommitMove, Locked

LEMMA SavePurposeStep ==
  ASSUME IInv, NEW r \in Requests, SavePurpose(r)
  PROVE  IInv'
<1>1. reqs[r].pc = "purpose" /\ UNCHANGED <<rows, files, lock, cleaner>>
  BY DEF SavePurpose
<1>2. CASE Done(r)
  BY <1>1, <1>2, KeepRows, StepDone DEF Locked
<1>3. CASE GoTo(r, "save")
  <2>1. files' \in [Paths -> Uploads \cup {Nobody}]
    BY <1>1 DEF IInv, TypeOK
  <2> QED
    BY <1>1, <1>3, <2>1, GoToStep DEF Locked
<1> QED
  BY <1>2, <1>3 DEF SavePurpose

LEMMA SavePatchedStep ==
  ASSUME IInv, NEW r \in Requests, SavePatched(r)
  PROVE  IInv'
<1>1. reqs[r].up \in Uploads /\ SoundRow(reqs[r].mem)
  BY PatchFacts DEF SavePatched
<1>2. RowsWritten
  BY <1>1, WriteRow DEF SavePatched
<1> QED
  BY <1>2, StepDone DEF SavePatched, Locked

LEMMA LoadMarkStep ==
  ASSUME IInv, NEW r \in Requests, NEW u \in Uploads, LoadDestroy(r, u) \/ LoadRestore(r, u)
  PROVE  IInv'
<1>1. SoundRow(rows[u])
  BY DEF LoadDestroy, LoadRestore, NoRow, IInv, RowsSound
<1>2. PICK pc \in {"destroy", "restore"} :
        reqs' = [reqs EXCEPT ![r] = [pc |-> pc, up |-> u, mem |-> rows[u]]]
  BY DEF LoadDestroy, LoadRestore
<1>3. PICK q : q = [pc |-> pc, up |-> u, mem |-> rows[u]]
  OBVIOUS
<1>4. q \in Marking /\ q.pc \notin Locked \cup {"loaded"}
  BY <1>1, <1>3 DEF Marking, SoundRow, Locked
<1>5. SoundRequest(q)
  BY <1>1, <1>3, <1>4 DEF SoundRequest, Request
<1>6. reqs[r].pc \notin Locked
  BY DEF LoadDestroy, LoadRestore, Idle, Locked
<1>7. UNCHANGED <<rows, files, lock, cleaner>>
  BY DEF LoadDestroy, LoadRestore
<1>8. RowsWritten
  BY <1>7, KeepRows
<1>9. files' \in [Paths -> Uploads \cup {Nobody}] /\ cleaner' \in Cleaner
  BY <1>7 DEF IInv, TypeOK
<1> QED
  BY <1>2, <1>3, <1>4, <1>5, <1>6, <1>7, <1>8, <1>9, StepInPlace

\* A request that deletes or restores.
LEMMA MarkFacts ==
  ASSUME IInv, NEW r \in Requests, reqs[r].pc \in {"destroy", "restore"}
  PROVE  reqs[r].up \in Uploads /\ SoundRow(reqs[r].mem)
<1>1. reqs[r] \in Marking
  BY RequestKinds DEF IInv, TypeOK
<1> QED
  BY <1>1 DEF Marking, IInv, RequestsSound, SoundRequest

LEMMA MarkDeletedStep ==
  ASSUME IInv, NEW r \in Requests, MarkDeleted(r)
  PROVE  IInv'
<1> DEFINE u == reqs[r].up
<1>1. u \in Uploads
  BY MarkFacts DEF MarkDeleted
<1>2. CASE rows[u] = NoRow
  BY <1>2, KeepRows, StepDone DEF MarkDeleted, Locked
<1>3. CASE rows[u] # NoRow
  <2>1. PICK row : row = [rows[u] EXCEPT !.deleted = "trashed"]
    OBVIOUS
  <2>2. SoundRow(row)
    <3>1. SoundRow(rows[u])
      BY <1>1, <1>3 DEF IInv, RowsSound
    <3> QED
      BY <2>1, <3>1, MarkedRowIsSound DEF Ages
  <2>3. rows' = [rows EXCEPT ![u] = row]
    BY <1>3, <2>1 DEF MarkDeleted
  <2>4. RowsWritten
    BY <1>1, <2>2, <2>3, WriteRow
  <2> QED
    BY <2>4, StepDone DEF MarkDeleted, Locked
<1> QED
  BY <1>2, <1>3

LEMMA MarkRestoredStep ==
  ASSUME IInv, NEW r \in Requests, MarkRestored(r)
  PROVE  IInv'
<1>1. reqs[r].up \in Uploads /\ SoundRow(reqs[r].mem)
  BY MarkFacts DEF MarkRestored
<1>2. PICK row : row = [reqs[r].mem EXCEPT !.deleted = "active"]
  OBVIOUS
<1>3. SoundRow(row)
  BY <1>1, <1>2, MarkedRowIsSound DEF Ages
<1>4. RowsWritten
  BY <1>1, <1>2, <1>3, WriteRow DEF MarkRestored
<1> QED
  BY <1>4, StepDone DEF MarkRestored, Locked

-------------------------------------------------------------------------------
(* The cleanup and the crashes                                             *)

\* A step of nobody's request.
LEMMA StepOfNobody ==
  ASSUME IInv, UNCHANGED <<reqs, lock>>, LockedRowsExist',
         rows' \in [Uploads -> Row \cup {NoRow}], RowsSound',
         files' \in [Paths -> Uploads \cup {Nobody}], cleaner' \in Cleaner
  PROVE  IInv'
<1>1. TypeOK'
  BY DEF IInv, TypeOK
<1>2. RequestsSound'
  BY DEF IInv, RequestsSound
<1> QED
  BY <1>1, <1>2 DEF IInv

LEMMA ExpireStep ==
  ASSUME IInv, NEW u \in Uploads, Expire(u)
  PROVE  IInv'
<1>1. PICK row : row = [rows[u] EXCEPT !.deleted = "expired"]
  OBVIOUS
<1>2. SoundRow(row)
  <2>1. SoundRow(rows[u])
    BY DEF Expire, NoRow, IInv, RowsSound
  <2> QED
    BY <1>1, <2>1, MarkedRowIsSound DEF Ages
<1>3. rows' = [rows EXCEPT ![u] = row]
  BY <1>1 DEF Expire
<1>4. RowsWritten
  BY <1>2, <1>3, WriteRow
<1>5. LockedRowsExist'
  BY <1>4 DEF Expire, IInv, LockedRowsExist, RowsWritten
<1> QED
  BY <1>4, <1>5, StepOfNobody DEF Expire, IInv, TypeOK, RowsWritten

\* What the cleaner has still to do is part of its type.
LEMMA CleanerFacts ==
  ASSUME IInv
  PROVE  /\ cleaner.pending \in SUBSET [up : Uploads, file : Paths]
         /\ cleaner.pc = "row" => cleaner.up \in Uploads
BY DEF IInv, TypeOK, Cleaner

LEMMA StartCleanupStep ==
  ASSUME IInv, StartCleanup
  PROVE  IInv'
<1> DEFINE old == {u \in Uploads : rows[u].deleted = "expired"}
<1>1. PICK list : list = {[up |-> u, file |-> rows[u].file] : u \in old}
  OBVIOUS
<1>2. list \in SUBSET [up : Uploads, file : Paths]
  <2>1. \A u \in old : rows[u].file \in Paths
    BY DEF NoRow, IInv, RowsSound, SoundRow, Row
  <2> QED
    BY <1>1, <2>1
<1>3. cleaner' = [pc |-> "files", pending |-> list]
  BY <1>1 DEF StartCleanup
<1>4. cleaner' \in Cleaner
  BY <1>2, <1>3 DEF Cleaner
<1>5. UNCHANGED <<rows, files, lock, reqs>>
  BY DEF StartCleanup
<1>6. RowsWritten /\ LockedRowsExist'
  BY <1>5, KeepRows DEF IInv, LockedRowsExist
<1> QED
  BY <1>4, <1>5, <1>6, StepOfNobody DEF IInv, TypeOK, RowsWritten

LEMMA CleanFileStep ==
  ASSUME IInv, NEW x \in [up : Uploads, file : Paths], CleanFile(x)
  PROVE  IInv'
<1>1. cleaner' \in Cleaner
  <2>1. cleaner.pending \ {x} \in SUBSET [up : Uploads, file : Paths]
    BY CleanerFacts
  <2>2. cleaner' = [pc |-> "row", pending |-> cleaner.pending \ {x}, up |-> x.up]
    BY DEF CleanFile
  <2> QED
    BY <2>1, <2>2 DEF Cleaner
<1>2. UNCHANGED <<rows, lock, reqs>> /\ files' = [files EXCEPT ![x.file] = Nobody]
  BY DEF CleanFile
<1>3. files' \in [Paths -> Uploads \cup {Nobody}]
  BY <1>2 DEF IInv, TypeOK
<1>4. RowsWritten /\ LockedRowsExist'
  BY <1>2, KeepRows DEF IInv, LockedRowsExist
<1> QED
  BY <1>1, <1>2, <1>3, <1>4, StepOfNobody DEF RowsWritten

LEMMA CleanedType ==
  ASSUME IInv, Cleaned(cleaner)
  PROVE  cleaner' \in Cleaner
BY CleanerFacts DEF Cleaned, NotCleaning, Cleaner

LEMMA CleanRowStep ==
  ASSUME IInv, CleanRow
  PROVE  IInv'
<1>1. cleaner.up \in Uploads /\ lock[cleaner.up] = Nobody
  BY CleanerFacts DEF CleanRow, Writable
<1>2. /\ rows' = [rows EXCEPT ![cleaner.up] = NoRow]
      /\ UNCHANGED <<files, lock, reqs>>
  BY DEF CleanRow
<1>3. rows \in [Uploads -> Row \cup {NoRow}]
  BY DEF IInv, TypeOK
<1>4. rows' \in [Uploads -> Row \cup {NoRow}]
  BY <1>2, <1>3
<1>5. RowsSound'
  BY <1>2, <1>3 DEF IInv, RowsSound
<1>6. LockedRowsExist'
  BY <1>1, <1>2, <1>3 DEF IInv, LockedRowsExist
<1>7. files' \in [Paths -> Uploads \cup {Nobody}] /\ cleaner' \in Cleaner
  BY <1>2, CleanedType DEF CleanRow, IInv, TypeOK
<1> QED
  BY <1>2, <1>4, <1>5, <1>6, <1>7, StepOfNobody

\* The steps of the cleanup that leave rows and files as they are.
LEMMA CleanerTurnStep ==
  ASSUME IInv, CleanRowFails \/ CrashCleaner
  PROVE  IInv'
<1>1. cleaner' \in Cleaner
  BY CleanedType DEF CleanRowFails, CrashCleaner, NotCleaning, Cleaner
<1>2. UNCHANGED <<rows, files, lock, reqs>>
  BY DEF CleanRowFails, CrashCleaner
<1>3. RowsWritten /\ LockedRowsExist'
  BY <1>2, KeepRows DEF IInv, LockedRowsExist
<1> QED
  BY <1>1, <1>2, <1>3, StepOfNobody DEF IInv, TypeOK, RowsWritten

LEMMA CrashStep ==
  ASSUME IInv, NEW r \in Requests, Crash(r)
  PROVE  IInv'
<1>1. SoundRequest(Idle) /\ Idle.pc \notin Locked
  BY IdleIsSound DEF Idle, Locked
<1>2. lock \in [Uploads -> Requests \cup {Nobody}] /\ Nobody \notin Requests
  BY NobodyIsNobody DEF IInv, TypeOK
<1>3. lock' = [u \in Uploads |-> IF lock[u] = r THEN Nobody ELSE lock[u]]
  BY DEF Crash
<1>4. lock' \in [Uploads -> Requests \cup {Nobody}]
  BY <1>2, <1>3
<1>5. \A u \in Uploads : lock'[u] # r
  BY <1>2, <1>3
<1>6. \A u \in Uploads, s \in Requests : s # r => (lock'[u] = s <=> lock[u] = s)
  BY <1>2, <1>3
<1>7. UNCHANGED <<rows, files, cleaner>> /\ reqs' = [reqs EXCEPT ![r] = Idle]
  BY DEF Crash, Done
<1>8. RowsWritten
  BY <1>7, KeepRows
<1>9. LockedRowsExist'
  BY <1>3, <1>7 DEF IInv, LockedRowsExist
<1>10. files' \in [Paths -> Uploads \cup {Nobody}] /\ cleaner' \in Cleaner
  BY <1>7 DEF IInv, TypeOK
<1> QED
  BY <1>1, <1>4, <1>5, <1>6, <1>7, <1>8, <1>9, <1>10, StepOf

-------------------------------------------------------------------------------
(* The theorems                                                            *)

LEMMA InitIsSound == Init => IInv
<1> SUFFICES ASSUME Init PROVE IInv
  OBVIOUS
<1>1. NotCleaning \in Cleaner
  BY DEF NotCleaning, Cleaner
<1>2. \A r \in Requests : reqs[r] = Idle
  BY DEF Init
<1>3. RequestsSound
  BY <1>2, IdleIsSound DEF RequestsSound
<1>4. reqs \in [Requests -> Request]
  BY DEF Init, Request
<1>5. \A u \in Uploads, r \in Requests : lock[u] = r <=> Holds(u, r)
  BY <1>2, NobodyIsNobody DEF Init, Holds, Idle, Locked
<1>6. TypeOK
  BY <1>1, <1>4, <1>5, TypeParts DEF Init
<1>7. RowsSound /\ LockedRowsExist
  BY DEF Init, RowsSound, LockedRowsExist
<1> QED
  BY <1>3, <1>6, <1>7 DEF IInv

LEMMA BeginStep ==
  ASSUME IInv, NEW r \in Requests, Begin(r)
  PROVE  IInv'
BY StoreFileStep, LoadPatchStep, LoadMarkStep DEF Begin

LEMMA RequestStep ==
  ASSUME IInv, NEW r \in Requests, Step(r)
  PROVE  IInv'
BY InsertRowStep, TakeLockStep, CheckFilesStep, MoveFileStep, CommitMoveStep, SavePurposeStep,
   SavePatchedStep, MarkDeletedStep, MarkRestoredStep DEF Step

LEMMA CleanStep ==
  ASSUME IInv, Clean
  PROVE  IInv'
BY ExpireStep, StartCleanupStep, CleanFileStep, CleanRowStep DEF Clean

LEMMA NextKeepsIInv == IInv /\ [Next]_vars => IInv'
<1> SUFFICES ASSUME IInv, [Next]_vars PROVE IInv'
  OBVIOUS
<1>1. CASE Next
  BY <1>1, BeginStep, RequestStep, CleanStep, CrashStep, CleanerTurnStep DEF Next, Work
<1>2. CASE UNCHANGED vars
  BY <1>2, KeepRows, StepOfNobody
     DEF vars, IInv, TypeOK, LockedRowsExist, RowsWritten
<1> QED
  BY <1>1, <1>2

\* The inductive invariant of every behaviour of UploadStorage.
THEOREM Inductive == Spec => []IInv
<1>1. Init => IInv
  BY InitIsSound
<1>2. IInv /\ [Next]_vars => IInv'
  BY NextKeepsIInv
<1> QED
  BY <1>1, <1>2, PTL DEF Spec

\* Types, and no lock without its request: every way out of change_visibility,
\* a crash included, gives the row back.
THEOREM TypeCorrect == Spec => []TypeOK
<1>1. IInv => TypeOK
  BY DEF IInv
<1> QED
  BY <1>1, Inductive, PTL

\* The private/ prefix of a row's path agrees with its visibility, however
\* requests overlap and whenever they die (perform_update's last save writes
\* path and visibility from the same instance).
THEOREM PrefixFollowsVisibility == Spec => []PrefixTracksVisibility
<1>1. IInv => PrefixTracksVisibility
  BY DEF IInv, RowsSound, SoundRow, PrefixTracksVisibility
<1> QED
  BY <1>1, Inductive, PTL

-------------------------------------------------------------------------------
(* Content: without the cleanup, and with names that no two uploads share  *)

NoCleanup == "cleanup" \notin Kinds

NamesSeparate(names) ==
  \A u, v \in Uploads : \A rel \in names[u] : rel \in names[v] => u = v

\* The content of u is at a name, on one side of the prefix or the other.
Somewhere(u, rel) == \E path \in Paths : path.rel = rel /\ files[path] = u

\* Every row has a name of its upload and content at that name.
ContentThere(names) ==
  \A u \in Uploads :
    rows[u] # NoRow => rows[u].file.rel \in names[u] /\ Somewhere(u, rows[u].file.rel)

\* What a request may rely on about its upload: a creation's file is there and
\* its row is not; a copy in memory has the name of the row, and is the row while
\* the request holds the lock; what was checked and moved is as it was left.
ClaimHolds(q) ==
  /\ q.pc = "stored" =>
       /\ rows[q.up] = NoRow
       /\ files[q.row.file] = q.up
  /\ q.pc \notin {"idle", "stored"} =>
       rows[q.up] # NoRow /\ q.mem.file.rel = rows[q.up].file.rel
  /\ q.pc \in Locked => q.mem = rows[q.up]
  /\ q.pc = "checked" => q.mem.file # TargetPath(q.mem.file, q.vis)
  /\ q.pc = "moved" => files[TargetPath(q.mem.file, q.vis)] = q.up

ClaimsHold == \A r \in Requests : ClaimHolds(reqs[r])

\* Two creations are of two uploads.
CreationsApart ==
  \A r, s \in Requests :
    reqs[r].pc = "stored" /\ reqs[s].pc = "stored" /\ reqs[r].up = reqs[s].up => r = s

ContentInv(names) == ContentThere(names) /\ Named(names) /\ ClaimsHold /\ CreationsApart

\* A step that touches the row, the names and the lock of u alone.
StepOn(u, names) ==
  /\ \A w \in Uploads : w # u => rows'[w] = rows[w]
  /\ \A path \in Paths : path.rel \notin names[u] => files'[path] = files[path]

-------------------------------------------------------------------------------
(* Facts about content                                                     *)

\* The two paths of a name are each other's twins.
LEMMA TwinsShareName ==
  ASSUME NEW p \in Paths
  PROVE  /\ Twin(p) \in Paths /\ Twin(p).rel = p.rel
         /\ \A q \in Paths : q.rel = p.rel => q \in {p, Twin(p)}
BY DEF Twin, Paths, Visibilities

\* Whatever is in memory of an upload has a path, and _target_path keeps its name.
LEMMA TargetKeepsName ==
  ASSUME NEW p \in Paths, NEW vis \in Visibilities
  PROVE  TargetPath(p, vis) \in Paths /\ TargetPath(p, vis).rel = p.rel
BY DEF TargetPath, Paths

\* Files at a name of u are u's own.
LEMMA FileAtOwnName ==
  ASSUME NEW names, NamesSeparate(names), IInv, ContentInv(names), NEW u \in Uploads,
         NEW path \in Paths, path.rel \in names[u], Exists(path)
  PROVE  files[path] = u
<1>1. files[path] \in Uploads /\ path.rel \in names[files[path]]
  BY DEF IInv, TypeOK, ContentInv, Named, Exists
<1> QED
  BY <1>1 DEF NamesSeparate

\* A request that is inside change_visibility and one that may write its row
\* are the same.
LEMMA LockExcludes ==
  ASSUME IInv, NEW r \in Requests, NEW s \in Requests, NEW u \in Uploads,
         Writable(u, r), reqs[s].pc \in Locked, reqs[s].up = u
  PROVE  s = r
<1>1. lock[u] = s
  BY TypeParts DEF IInv, Holds
<1> QED
  BY <1>1, NobodyIsNobody DEF Writable

\* Every request that is past its beginning has an upload.
LEMMA UpOf ==
  ASSUME IInv, NEW r \in Requests, reqs[r].pc # "idle"
  PROVE  reqs[r].up \in Uploads
BY DEF IInv, TypeOK, Request, Idle, Storing, Patching, Marking

\* The files a request relies on have paths.
LEMMA ClaimPaths ==
  ASSUME IInv, NEW r \in Requests
  PROVE  /\ reqs[r].pc = "stored" => reqs[r].row.file \in Paths
         /\ reqs[r].pc \notin {"idle", "stored"} => reqs[r].mem.file \in Paths
         /\ reqs[r].pc \in Locked => /\ TargetPath(reqs[r].mem.file, reqs[r].vis) \in Paths
                                     /\ TargetPath(reqs[r].mem.file, reqs[r].vis).rel
                                          = reqs[r].mem.file.rel
<1>1. SoundRequest(reqs[r])
  BY DEF IInv, RequestsSound
<1> QED
  BY <1>1, TargetKeepsName DEF SoundRequest, SoundRow, Row, Locked

-------------------------------------------------------------------------------
(* What a step on one upload leaves of the others                          *)

\* Another request's claim survives a step on u, when it is not about u or when
\* it can bear the step.
LEMMA ClaimSurvives ==
  ASSUME NEW names, NamesSeparate(names), IInv, ContentInv(names), NEW u \in Uploads,
         StepOn(u, names),
         NEW s \in Requests, reqs'[s] = reqs[s],
         reqs[s].pc # "idle" /\ reqs[s].up = u =>
           /\ reqs[s].pc \notin Locked \cup {"stored"}
           /\ rows'[u] # NoRow /\ rows'[u].file.rel = rows[u].file.rel
  PROVE  ClaimHolds(reqs[s])'
<1> DEFINE q == reqs[s]
           v == reqs[s].up
<1>1. ClaimHolds(q)
  BY DEF ContentInv, ClaimsHold
<1>2. CASE q.pc = "idle"
  BY <1>2 DEF ClaimHolds, Locked
<1>3. CASE q.pc # "idle" /\ v = u
  BY <1>1, <1>3 DEF ClaimHolds, Locked
<1>4. CASE q.pc # "idle" /\ v # u
  <2>1. v \in Uploads /\ rows'[v] = rows[v]
    BY <1>4, UpOf DEF StepOn
  <2>2. \A path \in Paths : path.rel \in names[v] => files'[path] = files[path]
    BY <1>4, <2>1 DEF StepOn, NamesSeparate
  <2>3. q.pc = "stored" => files'[q.row.file] = files[q.row.file]
    BY <1>1, <2>1, <2>2, ClaimPaths, NobodyIsNobody DEF ClaimHolds, ContentInv, Named
  <2>4. q.pc \notin {"idle", "stored"} => q.mem.file.rel \in names[v]
    BY <1>1, <2>1 DEF ClaimHolds, ContentInv, ContentThere
  <2>5. q.pc = "moved" =>
          files'[TargetPath(q.mem.file, q.vis)] = files[TargetPath(q.mem.file, q.vis)]
    BY <2>2, <2>4, ClaimPaths DEF Locked
  <2> QED
    BY <1>1, <2>1, <2>3, <2>5 DEF ClaimHolds
<1> QED
  BY <1>2, <1>3, <1>4

\* The rows of other uploads keep their names and their content.
LEMMA ContentSurvives ==
  ASSUME NEW names, NamesSeparate(names), ContentInv(names), NEW u \in Uploads, StepOn(u,
         names),
         NEW w \in Uploads, w # u, rows'[w] # NoRow
  PROVE  (rows[w].file.rel \in names[w] /\ Somewhere(w, rows[w].file.rel))'
<1>1. rows'[w] = rows[w]
  BY DEF StepOn
<1>2. rows[w].file.rel \in names[w] /\ Somewhere(w, rows[w].file.rel)
  BY <1>1 DEF ContentInv, ContentThere
<1>3. PICK path \in Paths : path.rel = rows[w].file.rel /\ files[path] = w
  BY <1>2 DEF Somewhere
<1>4. files'[path] = w
  BY <1>2, <1>3 DEF StepOn, NamesSeparate
<1> QED
  BY <1>1, <1>2, <1>3, <1>4 DEF Somewhere

-------------------------------------------------------------------------------
(* The kinds of steps                                                      *)

\* A request moves on without a file or a row being touched.
LEMMA QuietStep ==
  ASSUME NEW names, IInv, ContentInv(names), NEW r \in Requests, NEW q, UNCHANGED <<rows,
         files>>,
         reqs' = [reqs EXCEPT ![r] = q], ClaimHolds(q), q.pc # "stored"
  PROVE  ContentInv(names)'
<1>1. ContentThere(names)' /\ Named(names)'
  BY DEF ContentInv, ContentThere, Named, Somewhere
<1>2. \A s \in Requests : reqs'[s] = IF s = r THEN q ELSE reqs[s]
  BY DEF IInv, TypeOK
<1>3. ASSUME NEW s \in Requests PROVE ClaimHolds(reqs[s])'
  BY <1>2 DEF ContentInv, ClaimsHold, ClaimHolds
<1>4. CreationsApart'
  BY <1>2 DEF ContentInv, CreationsApart
<1> QED
  BY <1>1, <1>3, <1>4 DEF ContentInv, ClaimsHold

\* A request is over.
LEMMA QuietDone ==
  ASSUME NEW names, IInv, ContentInv(names), NEW r \in Requests, Done(r), UNCHANGED <<rows,
         files>>
  PROVE  ContentInv(names)'
<1>1. ClaimHolds(Idle) /\ Idle.pc # "stored"
  BY DEF ClaimHolds, Idle, Locked
<1> QED
  BY <1>1, QuietStep DEF Done

\* A request writes a row that is there under a name that stays.
LEMMA WriteStep ==
  ASSUME NEW names, NamesSeparate(names), IInv, ContentInv(names), NEW r \in Requests,
         NEW u \in Uploads,
         NEW row, NEW q, Writable(u, r), rows[u] # NoRow,
         row # NoRow, row.file.rel = rows[u].file.rel,
         rows' = [rows EXCEPT ![u] = row], files' = files,
         reqs' = [reqs EXCEPT ![r] = q], q.pc \in {"idle", "purpose", "save"},
         q.pc # "idle" => q.up = u /\ q.mem.file.rel = row.file.rel
  PROVE  ContentInv(names)'
<1>1. \A w \in Uploads : rows'[w] = IF w = u THEN row ELSE rows[w]
  BY DEF IInv, TypeOK
<1>2. \A s \in Requests : reqs'[s] = IF s = r THEN q ELSE reqs[s]
  BY DEF IInv, TypeOK
<1>3. StepOn(u, names)
  BY <1>1 DEF StepOn
<1>4. ContentThere(names)'
  BY <1>1 DEF ContentInv, ContentThere, Somewhere
<1>5. Named(names)'
  BY DEF ContentInv, Named
<1>6. ASSUME NEW s \in Requests PROVE ClaimHolds(reqs[s])'
  <2>1. CASE s = r
    BY <1>1, <1>2, <2>1 DEF ClaimHolds, Locked
  <2>2. CASE s # r
    <3>1. reqs[s].pc # "idle" /\ reqs[s].up = u => reqs[s].pc \notin Locked \cup {"stored"}
      BY <2>2, LockExcludes DEF ContentInv, ClaimsHold, ClaimHolds
    <3> QED
      BY <1>1, <1>2, <1>3, <2>2, <3>1, ClaimSurvives
  <2> QED
    BY <2>1, <2>2
<1>7. CreationsApart'
  BY <1>2 DEF ContentInv, CreationsApart
<1> QED
  BY <1>4, <1>5, <1>6, <1>7 DEF ContentInv, ClaimsHold

-------------------------------------------------------------------------------
(* One lemma per action                                                    *)

LEMMA StoreFileContent ==
  ASSUME NEW names, NamesSeparate(names), IInv, ContentInv(names), NEW r \in Requests,
         NEW u \in Uploads,
         NEW vis \in Visibilities, NEW rel \in RelPaths, StoreFile(r, u, vis, rel),
         rel \in names[u]
  PROVE  ContentInv(names)'
<1>1. PICK path \in Paths : path = PathFor(vis, rel)
  BY DEF PathFor, Paths
<1>2. PICK row : row = [file |-> path, visibility |-> vis, deleted |-> "active"]
  OBVIOUS
<1>3. PICK q : q = [pc |-> "stored", up |-> u, row |-> row]
  OBVIOUS
<1>4. /\ path.rel = rel /\ rel \in names[u] /\ ~Exists(path)
      /\ rows[u] = NoRow /\ rows' = rows
      /\ \A s \in Requests : reqs[s] # Idle => reqs[s].up # u
  BY <1>1 DEF StoreFile, PathFor
<1>5. \A p \in Paths : files'[p] = IF p = path THEN u ELSE files[p]
  BY <1>1 DEF StoreFile, IInv, TypeOK
<1>6. \A s \in Requests : reqs'[s] = IF s = r THEN q ELSE reqs[s]
  BY <1>1, <1>2, <1>3 DEF StoreFile, IInv, TypeOK
<1>7. StepOn(u, names)
  BY <1>4, <1>5 DEF StepOn
<1>8. ContentThere(names)'
  BY <1>4, <1>7, ContentSurvives DEF ContentThere
<1>9. Named(names)'
  BY <1>4, <1>5 DEF ContentInv, Named
<1>10. ASSUME NEW s \in Requests PROVE ClaimHolds(reqs[s])'
  <2>1. CASE s = r
    BY <1>2, <1>3, <1>4, <1>5, <1>6, <2>1 DEF ClaimHolds, Locked
  <2>2. CASE s # r
    BY <1>4, <1>6, <1>7, <2>2, ClaimSurvives DEF Idle
  <2> QED
    BY <2>1, <2>2
<1>11. CreationsApart'
  BY <1>3, <1>4, <1>6 DEF ContentInv, CreationsApart, Idle
<1> QED
  BY <1>8, <1>9, <1>10, <1>11 DEF ContentInv, ClaimsHold

LEMMA InsertRowContent ==
  ASSUME NEW names, NamesSeparate(names), IInv, ContentInv(names), NEW r \in Requests,
         InsertRow(r)
  PROVE  ContentInv(names)'
<1>1. PICK u \in Uploads : u = reqs[r].up
  BY UpOf DEF InsertRow
<1>2. PICK row : row = reqs[r].row
  OBVIOUS
<1>3. /\ row.file \in Paths /\ files[row.file] = u /\ row.file.rel \in names[u]
      /\ rows[u] = NoRow /\ files' = files
  BY <1>1, <1>2, ClaimPaths, NobodyIsNobody
     DEF InsertRow, ContentInv, ClaimsHold, ClaimHolds, Named
<1>4. \A w \in Uploads : rows'[w] = IF w = u THEN row ELSE rows[w]
  BY <1>1, <1>2 DEF InsertRow, IInv, TypeOK
<1>5. \A s \in Requests : reqs'[s] = IF s = r THEN Idle ELSE reqs[s]
  BY DEF InsertRow, Done, IInv, TypeOK
<1>6. StepOn(u, names)
  BY <1>3, <1>4 DEF StepOn
<1>7. ContentThere(names)'
  BY <1>3, <1>4, <1>6, ContentSurvives DEF ContentThere, Somewhere
<1>8. Named(names)'
  BY <1>3 DEF ContentInv, Named
<1>9. ASSUME NEW s \in Requests PROVE ClaimHolds(reqs[s])'
  <2>1. CASE s = r
    BY <1>5, <2>1 DEF ClaimHolds, Idle, Locked
  <2>2. CASE s # r
    <3>1. ~(reqs[s].pc # "idle" /\ reqs[s].up = u)
      BY <1>1, <1>3, <2>2 DEF InsertRow, ContentInv, ClaimsHold, ClaimHolds, CreationsApart
    <3> QED
      BY <1>5, <1>6, <2>2, <3>1, ClaimSurvives
  <2> QED
    BY <2>1, <2>2
<1>10. CreationsApart'
  BY <1>5 DEF ContentInv, CreationsApart, Idle
<1> QED
  BY <1>7, <1>8, <1>9, <1>10 DEF ContentInv, ClaimsHold

LEMMA LoadPatchContent ==
  ASSUME NEW names, IInv, ContentInv(names), NEW r \in Requests, NEW u \in Uploads,
         NEW vis \in Visibilities \cup {"keep"}, NEW purpose \in BOOLEAN,
         LoadPatch(r, u, vis, purpose)
  PROVE  ContentInv(names)'
<1>1. PICK q : q = [pc |-> IF vis \in {"keep", rows[u].visibility} THEN AfterVisibility(purpose)
                          ELSE "loaded",
                    up |-> u, mem |-> rows[u], vis |-> vis, purpose |-> purpose]
  OBVIOUS
<1>2. ClaimHolds(q) /\ q.pc # "stored"
  BY <1>1 DEF LoadPatch, NoRow, ClaimHolds, AfterVisibility, Locked
<1>3. reqs' = [reqs EXCEPT ![r] = q]
  BY <1>1 DEF LoadPatch
<1> QED
  BY <1>2, <1>3, QuietStep DEF LoadPatch

LEMMA LoadMarkContent ==
  ASSUME NEW names, IInv, ContentInv(names), NEW r \in Requests, NEW u \in Uploads,
         LoadDestroy(r, u) \/ LoadRestore(r, u)
  PROVE  ContentInv(names)'
<1>1. PICK pc \in {"destroy", "restore"} :
        reqs' = [reqs EXCEPT ![r] = [pc |-> pc, up |-> u, mem |-> rows[u]]]
  BY DEF LoadDestroy, LoadRestore
<1>2. PICK q : q = [pc |-> pc, up |-> u, mem |-> rows[u]]
  OBVIOUS
<1>3. ClaimHolds(q) /\ q.pc # "stored"
  BY <1>2 DEF LoadDestroy, LoadRestore, NoRow, ClaimHolds, Locked
<1> QED
  BY <1>1, <1>2, <1>3, QuietStep DEF LoadDestroy, LoadRestore

LEMMA TakeLockContent ==
  ASSUME NEW names, IInv, ContentInv(names), NEW r \in Requests, TakeLock(r)
  PROVE  ContentInv(names)'
<1>1. /\ reqs[r] \in Patching /\ reqs[r].up \in Uploads /\ reqs[r].pc = "loaded"
      /\ UNCHANGED <<rows, files>>
  BY PatchFacts DEF TakeLock
<1>2. CASE Done(r)
  BY <1>1, <1>2, QuietDone
<1>3. CASE rows[reqs[r].up].deleted = "active"
  <2>1. PICK q : q = Holding(reqs[r], "locked", rows[reqs[r].up])
    OBVIOUS
  <2>2. q.pc = "locked" /\ q.up = reqs[r].up /\ q.mem = rows[reqs[r].up]
    BY <1>1, <2>1 DEF Holding, Patching
  <2>3. ClaimHolds(q)
    BY <1>3, <2>2 DEF ClaimHolds, NoRow
  <2>4. reqs' = [reqs EXCEPT ![r] = q]
    BY <1>3, <2>1 DEF TakeLock
  <2> QED
    BY <1>1, <2>2, <2>3, <2>4, QuietStep
<1> QED
  BY <1>2, <1>3 DEF TakeLock

\* The row of the upload r updates, and where it would be retargeted to.
LEMMA LockedFacts ==
  ASSUME NEW names, IInv, ContentInv(names), NEW r \in Requests, reqs[r].pc \in Locked
  PROVE  /\ reqs[r] \in Patching /\ reqs[r].up \in Uploads /\ reqs[r].vis \in Visibilities
         /\ reqs[r].mem = rows[reqs[r].up] /\ SoundRow(rows[reqs[r].up])
         /\ rows[reqs[r].up].file \in Paths
         /\ rows[reqs[r].up].file.rel \in names[reqs[r].up]
         /\ lock[reqs[r].up] = r
<1>1. /\ reqs[r] \in Patching /\ reqs[r].up \in Uploads /\ reqs[r].vis \in Visibilities
      /\ SoundRow(reqs[r].mem)
  BY PatchFacts DEF Locked
<1>2. reqs[r].mem = rows[reqs[r].up] /\ rows[reqs[r].up] # NoRow
  BY DEF ContentInv, ClaimsHold, ClaimHolds, Locked
<1>3. rows[reqs[r].up].file \in Paths
  BY <1>1, <1>2 DEF SoundRow, Row
<1>4. lock[reqs[r].up] = r
  BY <1>1, TypeParts DEF IInv, Holds
<1> QED
  BY <1>1, <1>2, <1>3, <1>4 DEF ContentInv, ContentThere

LEMMA CommitPairContent ==
  ASSUME NEW names, NamesSeparate(names), IInv, ContentInv(names), NEW r \in Requests,
         reqs[r].pc \in Locked,
         CommitPair(r), files' = files
  PROVE  ContentInv(names)'
<1>1. PICK u \in Uploads : u = reqs[r].up
  BY LockedFacts
<1>2. PICK vis \in Visibilities : vis = reqs[r].vis
  BY LockedFacts
<1>3. PICK new : new = TargetPath(rows[u].file, vis)
  OBVIOUS
<1>4. /\ reqs[r] \in Patching /\ SoundRow(rows[u]) /\ reqs[r].mem = rows[u]
      /\ rows[u].file \in Paths /\ lock[u] = r
  BY <1>1, LockedFacts
<1>5. PICK row : row = Retargeted(rows[u], new, vis)
  OBVIOUS
<1>6. SoundRow(row)
  BY <1>3, <1>4, <1>5, RetargetedRowIsSound
<1>7. rows[u] # NoRow /\ row # NoRow
  BY <1>4, <1>6, RowIsNotNoRow DEF SoundRow
<1>8. row.file = new /\ new.rel = rows[u].file.rel
  BY <1>3, <1>4, <1>5, TargetKeepsName DEF SoundRow, Row, Retargeted
<1>9. PICK q : q = Holding(reqs[r], AfterVisibility(reqs[r].purpose), row)
  OBVIOUS
<1>10. q.pc \in {"purpose", "save"} /\ q.up = u /\ q.mem = row
  BY <1>1, <1>4, <1>9 DEF Holding, Patching, AfterVisibility
<1>11. rows' = [rows EXCEPT ![u] = row] /\ reqs' = [reqs EXCEPT ![r] = q]
  BY <1>1, <1>2, <1>3, <1>4, <1>5, <1>9 DEF CommitPair
<1>12. Writable(u, r)
  BY <1>4 DEF Writable
<1> QED
  BY <1>7, <1>8, <1>10, <1>11, <1>12, WriteStep

\* An update goes on with the instance it holds.
LEMMA GoToContent ==
  ASSUME NEW names, IInv, ContentInv(names), NEW r \in Requests, NEW pc, GoTo(r, pc),
         UNCHANGED <<rows, files>>,
         reqs[r].pc \in {"locked", "purpose"}, pc \in {"checked", "save"},
         pc = "checked" => /\ reqs[r].pc = "locked"
                           /\ reqs[r].mem.file # TargetPath(reqs[r].mem.file, reqs[r].vis)
  PROVE  ContentInv(names)'
<1>1. PICK q : q = [reqs[r] EXCEPT !.pc = pc]
  OBVIOUS
<1>2. reqs[r] \in Patching
  BY PatchFacts
<1>3. q.pc = pc /\ q.up = reqs[r].up /\ q.mem = reqs[r].mem /\ q.vis = reqs[r].vis
  BY <1>1, <1>2 DEF Patching
<1>4. ClaimHolds(reqs[r])
  BY DEF ContentInv, ClaimsHold
<1>5. ClaimHolds(q) /\ q.pc # "stored"
  BY <1>3, <1>4 DEF ClaimHolds, Locked
<1>6. reqs' = [reqs EXCEPT ![r] = q]
  BY <1>1 DEF GoTo
<1> QED
  BY <1>5, <1>6, QuietStep

LEMMA CheckFilesContent ==
  ASSUME NEW names, NamesSeparate(names), IInv, ContentInv(names), NEW r \in Requests,
         CheckFiles(r)
  PROVE  ContentInv(names)'
<1>1. reqs[r].pc = "locked" /\ files' = files
  BY DEF CheckFiles
<1>2. \/ CommitPair(r) \/ Fail(r)
      \/ /\ GoTo(r, "checked") /\ rows' = rows
         /\ reqs[r].mem.file # TargetPath(reqs[r].mem.file, reqs[r].vis)
  BY DEF CheckFiles
<1>3. CASE CommitPair(r)
  BY <1>1, <1>3, CommitPairContent DEF Locked
<1>4. CASE Fail(r)
  BY <1>1, <1>4, QuietDone DEF Fail
<1>5. CASE /\ GoTo(r, "checked") /\ rows' = rows
           /\ reqs[r].mem.file # TargetPath(reqs[r].mem.file, reqs[r].vis)
  BY <1>1, <1>5, GoToContent
<1> QED
  BY <1>2, <1>3, <1>4, <1>5

\* What os.replace moves is the upload's own, and so is what it overwrites.
LEMMA MoveFileContent ==
  ASSUME NEW names, NamesSeparate(names), IInv, ContentInv(names), NEW r \in Requests,
         MoveFile(r)
  PROVE  ContentInv(names)'
<1>1. reqs[r].pc = "checked"
  BY DEF MoveFile
<1>2. PICK u \in Uploads : u = reqs[r].up
  BY <1>1, LockedFacts DEF Locked
<1>3. PICK old \in Paths : old = reqs[r].mem.file
  BY <1>1, LockedFacts DEF Locked
<1>4. PICK new \in Paths : new = TargetPath(old, reqs[r].vis) /\ new.rel = old.rel
  BY <1>1, <1>3, LockedFacts, TargetKeepsName DEF Locked
<1>5. /\ reqs[r] \in Patching /\ reqs[r].mem = rows[u] /\ old = rows[u].file
      /\ old.rel \in names[u] /\ lock[u] = r
  BY <1>1, <1>2, <1>3, LockedFacts DEF Locked
<1>6. old # new /\ rows[u] # NoRow
  BY <1>1, <1>2, <1>3, <1>4 DEF ContentInv, ClaimsHold, ClaimHolds
<1>7. CASE ~Exists(old)
  BY <1>3, <1>7, QuietDone DEF MoveFile, Fail
<1>8. CASE Exists(old)
  <2>1. rows' = rows /\ lock' = lock
    BY <1>3, <1>8 DEF MoveFile
  <2>2. files[old] = u
    BY <1>5, <1>8, FileAtOwnName
  <2>3. files' = [files EXCEPT ![new] = files[old], ![old] = Nobody]
    BY <1>3, <1>4, <1>8 DEF MoveFile
  <2>4. files \in [Paths -> Uploads \cup {Nobody}]
    BY DEF IInv, TypeOK
  <2>5. \A p \in Paths : files'[p] = IF p = old THEN Nobody ELSE IF p = new THEN u ELSE files[p]
    BY <1>6, <2>2, <2>3, <2>4
  <2>6. PICK q : q = [reqs[r] EXCEPT !.pc = "moved"]
    OBVIOUS
  <2>7. q.pc = "moved" /\ q.up = u /\ q.mem = rows[u] /\ q.vis = reqs[r].vis
    BY <1>2, <1>5, <2>6 DEF Patching
  <2>8. \A s \in Requests : reqs'[s] = IF s = r THEN q ELSE reqs[s]
    BY <1>3, <1>8, <2>6 DEF MoveFile, GoTo, IInv, TypeOK
  <2>9. StepOn(u, names)
    BY <1>4, <1>5, <2>1, <2>5 DEF StepOn
  <2>10. ContentThere(names)'
    <3>1. (rows[u].file.rel \in names[u] /\ Somewhere(u, rows[u].file.rel))'
      BY <1>4, <1>5, <1>6, <2>1, <2>5 DEF Somewhere
    <3> QED
      BY <2>9, <3>1, ContentSurvives DEF ContentThere
  <2>11. Named(names)'
    BY <1>4, <1>5, <2>5 DEF ContentInv, Named
  <2>12. ASSUME NEW s \in Requests PROVE ClaimHolds(reqs[s])'
    <3>1. CASE s = r
      BY <1>3, <1>4, <1>5, <1>6, <2>1, <2>5, <2>7, <2>8, <3>1 DEF ClaimHolds
    <3>2. CASE s # r
      <4>1. reqs[s].pc # "idle" /\ reqs[s].up = u => reqs[s].pc \notin Locked \cup {"stored"}
        BY <1>5, <1>6, <3>2, LockExcludes DEF Writable, ContentInv, ClaimsHold, ClaimHolds
      <4> QED
        BY <1>6, <2>1, <2>8, <2>9, <3>2, <4>1, ClaimSurvives
    <3> QED
      BY <3>1, <3>2
  <2>13. CreationsApart'
    BY <2>7, <2>8 DEF ContentInv, CreationsApart
  <2> QED
    BY <2>10, <2>11, <2>12, <2>13 DEF ContentInv, ClaimsHold
<1> QED
  BY <1>7, <1>8

LEMMA CommitMoveContent ==
  ASSUME NEW names, NamesSeparate(names), IInv, ContentInv(names), NEW r \in Requests,
         CommitMove(r)
  PROVE  ContentInv(names)'
BY CommitPairContent DEF CommitMove, Locked

LEMMA SavePurposeContent ==
  ASSUME NEW names, IInv, ContentInv(names), NEW r \in Requests, SavePurpose(r)
  PROVE  ContentInv(names)'
BY QuietDone, GoToContent DEF SavePurpose

\* A request that is over has written a row under the name it had.
LEMMA LastWriteContent ==
  ASSUME NEW names, NamesSeparate(names), IInv, ContentInv(names), NEW r \in Requests,
         Done(r), files' = files,
         NEW row, SoundRow(row), reqs[r].pc \notin {"idle", "stored"},
         row.file.rel = reqs[r].mem.file.rel,
         Writable(reqs[r].up, r), rows' = [rows EXCEPT ![reqs[r].up] = row]
  PROVE  ContentInv(names)'
<1>1. PICK u \in Uploads : u = reqs[r].up
  BY UpOf
<1>2. rows[u] # NoRow /\ row # NoRow /\ row.file.rel = rows[u].file.rel
  BY <1>1, RowIsNotNoRow DEF SoundRow, ContentInv, ClaimsHold, ClaimHolds
<1>3. PICK q : q = Idle
  OBVIOUS
<1>4. q.pc = "idle" /\ reqs' = [reqs EXCEPT ![r] = q]
  BY <1>3 DEF Idle, Done
<1> QED
  BY <1>1, <1>2, <1>4, WriteStep

LEMMA SavePatchedContent ==
  ASSUME NEW names, NamesSeparate(names), IInv, ContentInv(names), NEW r \in Requests,
         SavePatched(r)
  PROVE  ContentInv(names)'
<1>1. PICK row : row = reqs[r].mem
  OBVIOUS
<1>2. SoundRow(row)
  BY <1>1, PatchFacts DEF SavePatched
<1> QED
  BY <1>1, <1>2, LastWriteContent DEF SavePatched

LEMMA MarkDeletedContent ==
  ASSUME NEW names, NamesSeparate(names), IInv, ContentInv(names), NEW r \in Requests,
         MarkDeleted(r)
  PROVE  ContentInv(names)'
<1>1. PICK u \in Uploads : u = reqs[r].up
  BY MarkFacts DEF MarkDeleted
<1>2. rows[u] # NoRow /\ reqs[r].mem.file.rel = rows[u].file.rel
  BY <1>1 DEF MarkDeleted, ContentInv, ClaimsHold, ClaimHolds
<1>3. SoundRow(rows[u])
  BY <1>1, <1>2 DEF IInv, RowsSound
<1>4. PICK row : row = [rows[u] EXCEPT !.deleted = "trashed"]
  OBVIOUS
<1>5. SoundRow(row) /\ row.file = rows[u].file
  BY <1>3, <1>4, MarkedRowIsSound DEF Ages, SoundRow, Row
<1> QED
  BY <1>1, <1>2, <1>4, <1>5, LastWriteContent DEF MarkDeleted

LEMMA MarkRestoredContent ==
  ASSUME NEW names, NamesSeparate(names), IInv, ContentInv(names), NEW r \in Requests,
         MarkRestored(r)
  PROVE  ContentInv(names)'
<1>1. SoundRow(reqs[r].mem)
  BY MarkFacts DEF MarkRestored
<1>2. PICK row : row = [reqs[r].mem EXCEPT !.deleted = "active"]
  OBVIOUS
<1>3. SoundRow(row) /\ row.file = reqs[r].mem.file
  BY <1>1, <1>2, MarkedRowIsSound DEF Ages, SoundRow, Row
<1> QED
  BY <1>2, <1>3, LastWriteContent DEF MarkRestored

LEMMA CrashContent ==
  ASSUME NEW names, IInv, ContentInv(names), NEW r \in Requests, Crash(r)
  PROVE  ContentInv(names)'
BY QuietDone DEF Crash

-------------------------------------------------------------------------------
(* Rows that are locked                                                    *)

\* A write by a request without the lock is of another row.
LEMMA LockedRowStays ==
  ASSUME IInv, NEW u \in Uploads, lock[u] # Nobody,
         NEW s \in Requests, reqs[s].pc \notin Locked \cup {"idle"},
         Writable(reqs[s].up, s) \/ rows[reqs[s].up] = NoRow, NEW row,
         rows' = [rows EXCEPT ![reqs[s].up] = row]
  PROVE  rows'[u] = rows[u]
<1>1. reqs[s].up \in Uploads
  BY UpOf
<1>2. lock[u] # s
  BY TypeParts DEF IInv, Holds
<1>3. reqs[s].up # u
  BY <1>2 DEF Writable, IInv, LockedRowsExist
<1> QED
  BY <1>1, <1>3 DEF IInv, TypeOK

\* A request that ends its transaction finds the content at the path it writes.
LEMMA CommitFindsFile ==
  ASSUME NEW names, NamesSeparate(names), IInv, ContentInv(names), NEW s \in Requests,
         NEW u \in Uploads,
         lock[u] # Nobody, CommitPair(s), CheckFiles(s) \/ CommitMove(s),
         rows'[u].file # rows[u].file
  PROVE  files[rows'[u].file] = u
<1>1. reqs[s].pc \in {"locked", "moved"}
  BY DEF CheckFiles, CommitMove
<1>2. PICK v \in Uploads : v = reqs[s].up
  BY <1>1, LockedFacts DEF Locked
<1>3. PICK old \in Paths : old = reqs[s].mem.file /\ old = rows[v].file
  BY <1>1, <1>2, LockedFacts DEF Locked
<1>4. PICK new \in Paths : new = TargetPath(old, reqs[s].vis) /\ new.rel = old.rel
  BY <1>1, <1>3, LockedFacts, TargetKeepsName DEF Locked
<1>5. old.rel \in names[v] /\ SoundRow(rows[v])
  BY <1>1, <1>2, <1>3, LockedFacts DEF Locked
<1>6. \A w \in Uploads : rows'[w] = IF w = v THEN Retargeted(rows[v], new, reqs[s].vis)
                                    ELSE rows[w]
  BY <1>2, <1>3, <1>4 DEF CommitPair, IInv, TypeOK
<1>7. u = v /\ rows'[u].file = new /\ old # new
  BY <1>3, <1>5, <1>6 DEF Retargeted, SoundRow, Row
<1>8. CASE reqs[s].pc = "moved"
  BY <1>2, <1>3, <1>4, <1>7, <1>8 DEF ContentInv, ClaimsHold, ClaimHolds
<1>9. CASE reqs[s].pc = "locked"
  <2>1. Exists(new) \/ rows' = rows
    BY <1>3, <1>4, <1>7, <1>9 DEF CheckFiles, CommitMove, Fail
  <2> QED
    BY <1>4, <1>5, <1>7, <2>1, FileAtOwnName
<1> QED
  BY <1>1, <1>8, <1>9

-------------------------------------------------------------------------------
(* The theorems on content                                                 *)

LEMMA InitIsContent ==
  ASSUME NEW names, Init
  PROVE  ContentInv(names)
BY DEF Init, Idle, ContentInv, ContentThere, Named, ClaimsHold, ClaimHolds, CreationsApart, Locked

\* As long as only requests act, and store files under names of their uploads.
LEMMA RequestsKeepContent ==
  ASSUME NEW names, NamesSeparate(names), IInv, ContentInv(names), RequestsAct,
         \A r \in Requests, u \in Uploads, vis \in Visibilities, rel \in RelPaths :
           StoreFile(r, u, vis, rel) => rel \in names[u]
  PROVE  ContentInv(names)'
<1>1. PICK r \in Requests : Begin(r) \/ Step(r) \/ Crash(r)
  BY DEF RequestsAct
<1>2. CASE Begin(r)
  BY <1>2, StoreFileContent, LoadPatchContent, LoadMarkContent DEF Begin
<1>3. CASE Step(r)
  BY <1>3, InsertRowContent, TakeLockContent, CheckFilesContent, MoveFileContent,
     CommitMoveContent, SavePurposeContent, SavePatchedContent, MarkDeletedContent,
     MarkRestoredContent DEF Step
<1>4. CASE Crash(r)
  BY <1>4, CrashContent
<1> QED
  BY <1>1, <1>2, <1>3, <1>4

LEMMA StutterKeepsContent ==
  ASSUME NEW names, ContentInv(names), UNCHANGED vars
  PROVE  ContentInv(names)'
BY DEF vars, ContentInv, ContentThere, Somewhere, Named, ClaimsHold, ClaimHolds, CreationsApart

\* A step that changes the path of a locked row is the end of a transaction.
LEMMA RequestsMoveToFile ==
  ASSUME NEW names, NamesSeparate(names), IInv, ContentInv(names), RequestsAct
  PROVE  MovedToFile
<1> SUFFICES ASSUME NEW u \in Uploads, lock[u] # Nobody, rows'[u].file # rows[u].file
             PROVE  files[rows'[u].file] = u
  BY DEF MovedToFile
<1>1. rows' # rows
  OBVIOUS
<1>2. PICK s \in Requests : Begin(s) \/ Step(s) \/ Crash(s)
  BY DEF RequestsAct
<1>3. Step(s) /\ ~TakeLock(s) /\ ~MoveFile(s) /\ ~SavePurpose(s)
  BY <1>1, <1>2 DEF Begin, StoreFile, LoadPatch, LoadDestroy, LoadRestore, TakeLock, MoveFile, Fail,
     SavePurpose, Crash
<1>4. CASE InsertRow(s)
  <2>1. rows[reqs[s].up] = NoRow
    BY <1>4 DEF InsertRow, ContentInv, ClaimsHold, ClaimHolds
  <2> QED
    BY <1>4, <2>1, LockedRowStays DEF InsertRow, Locked
<1>5. CASE SavePatched(s) \/ MarkDeleted(s) \/ MarkRestored(s)
  <2>1. /\ reqs[s].pc \notin Locked \cup {"idle"} /\ Writable(reqs[s].up, s)
        /\ \E row : rows' = [rows EXCEPT ![reqs[s].up] = row]
    BY <1>1, <1>5 DEF SavePatched, MarkDeleted, MarkRestored, Locked
  <2> QED
    BY <2>1, LockedRowStays
<1>6. CASE CheckFiles(s) \/ CommitMove(s)
  <2>1. CommitPair(s)
    BY <1>1, <1>6 DEF CheckFiles, CommitMove, Fail
  <2> QED
    BY <1>6, <2>1, CommitFindsFile
<1> QED
  BY <1>3, <1>4, <1>5, <1>6 DEF Step

\* What holds as long as the cleanup does not run.
UncleanedInv == IInv /\ ContentInv(RelPathsOf) /\ cleaner = NotCleaning

\* Without the cleanup only the requests act.
LEMMA OnlyRequestsAct ==
  ASSUME NoCleanup, UncleanedInv, Next
  PROVE  RequestsAct /\ cleaner' = NotCleaning
<1>1. ~Clean /\ ~CleanRowFails /\ ~CrashCleaner
  BY DEF NoCleanup, UncleanedInv, Clean, Expire, StartCleanup, CleanFile, CleanRow,
     CleanRowFails, CrashCleaner, NotCleaning
<1>2. PICK r \in Requests : Begin(r) \/ Step(r) \/ Crash(r)
  BY <1>1 DEF Next, Work
<1>3. Begin(r) => cleaner' = cleaner
  BY DEF Begin, StoreFile, LoadPatch, LoadDestroy, LoadRestore
<1>4. Step(r) \/ Crash(r) => cleaner' = cleaner
  BY DEF Step, InsertRow, TakeLock, CheckFiles, MoveFile, CommitMove, SavePurpose, SavePatched,
     MarkDeleted, MarkRestored, Crash
<1> QED
  BY <1>2, <1>3, <1>4 DEF UncleanedInv, RequestsAct

LEMMA NextKeepsUncleaned ==
  ASSUME NoCleanup, NamesSeparate(RelPathsOf), UncleanedInv, [Next]_vars
  PROVE  UncleanedInv'
<1>1. IInv /\ ContentInv(RelPathsOf) /\ IInv'
  BY NextKeepsIInv DEF UncleanedInv
<1>2. CASE UNCHANGED vars
  BY <1>1, <1>2, StutterKeepsContent DEF vars, UncleanedInv
<1>3. CASE Next
  <2>1. RequestsAct /\ cleaner' = NotCleaning
    BY <1>3, OnlyRequestsAct
  <2>2. \A r \in Requests, u \in Uploads, vis \in Visibilities, rel \in RelPaths :
          StoreFile(r, u, vis, rel) => rel \in RelPathsOf[u]
    BY DEF StoreFile
  <2>3. ContentInv(RelPathsOf)'
    BY <1>1, <2>1, <2>2, RequestsKeepContent
  <2> QED
    BY <1>1, <2>1, <2>3 DEF UncleanedInv
<1> QED
  BY <1>2, <1>3

\* The inductive invariant of every behaviour without the cleanup.
THEOREM UncleanedInductive ==
  ASSUME NoCleanup, NamesSeparate(RelPathsOf)
  PROVE  Spec => []UncleanedInv
<1>1. Init => UncleanedInv
  BY InitIsContent, InitIsSound DEF Init, UncleanedInv
<1>2. UncleanedInv /\ [Next]_vars => UncleanedInv'
  BY NextKeepsUncleaned
<1> QED
  BY <1>1, <1>2, PTL DEF Spec

LEMMA ContentIsRecoverable ==
  ASSUME NEW names, IInv, ContentInv(names)
  PROVE  ContentRecoverable
<1> SUFFICES ASSUME NEW u \in Uploads, rows[u] # NoRow
             PROVE  \E path \in {rows[u].file, Twin(rows[u].file)} : files[path] = u
  BY DEF ContentRecoverable
<1>1. rows[u].file \in Paths
  BY DEF IInv, RowsSound, SoundRow, Row
<1>2. Somewhere(u, rows[u].file.rel)
  BY DEF ContentInv, ContentThere
<1> QED
  BY <1>1, <1>2, TwinsShareName DEF Somewhere

\* As long as the cleanup does not run and no two uploads share a name, the
\* content of every upload is where its row says or where the next change of
\* visibility finds it, however requests overlap and whenever they die
\* (UploadService.change_visibility, perform_update's last save).
THEOREM ContentStays ==
  ASSUME NoCleanup, NamesSeparate(RelPathsOf)
  PROVE  Spec => []ContentRecoverable
<1>1. UncleanedInv => ContentRecoverable
  BY ContentIsRecoverable DEF UncleanedInv
<1> QED
  BY <1>1, UncleanedInductive, PTL

\* Under the same assumptions a change of visibility writes a new path only
\* where the upload's file is already (UploadService.change_visibility).
THEOREM MovesFindTheirFile ==
  ASSUME NoCleanup, NamesSeparate(RelPathsOf)
  PROVE  Spec => [][MovedToFile]_vars
<1>1. UncleanedInv /\ [Next]_vars => [MovedToFile]_vars
  BY OnlyRequestsAct, RequestsMoveToFile DEF UncleanedInv
<1> QED
  BY <1>1, UncleanedInductive, PTL DEF Spec

-------------------------------------------------------------------------------
(* Requests that do not overlap, and the cleanup                           *)

\* Where the content of u is.
OnlyAt(u, p) == \A path \in Paths : files[path] = u <=> path = p
Nowhere(u) == \A path \in Paths : files[path] # u

Creating(q, u) == q.pc = "stored" /\ q.up = u
Moving(q, u) == q.pc = "moved" /\ q.up = u

\* The cleanup has deleted the file of u, and its row is next.
Losing(u) == cleaner.pc = "row" /\ cleaner.up = u

\* The content of an upload is at the path of its row and nowhere else, unless
\* a request is moving it or the cleanup has deleted it; an upload that is not
\* there, nor about to be, has none.
RowsPlaced ==
  \A u \in Uploads :
    rows[u] # NoRow /\ ~Losing(u) /\ (\A r \in Requests : ~Moving(reqs[r], u)) =>
      OnlyAt(u, rows[u].file)
NoRowNoFile ==
  \A u \in Uploads :
    rows[u] = NoRow /\ (\A r \in Requests : ~Creating(reqs[r], u)) => Nowhere(u)

\* What the one request relies on: it holds its row as it is, nobody else
\* creates or moves a file.
SerialClaim(q) ==
  /\ q.pc # "restore"
  /\ q.pc = "stored" => rows[q.up] = NoRow /\ OnlyAt(q.up, q.row.file)
  /\ q.pc \notin {"idle", "stored"} => q.mem = rows[q.up] /\ rows[q.up].deleted = "active"
  /\ q.pc = "checked" => ~Exists(TargetPath(q.mem.file, q.vis))
  /\ q.pc = "moved" => OnlyAt(q.up, TargetPath(q.mem.file, q.vis))

SerialClaims == \A r \in Requests : SerialClaim(reqs[r])

\* The cleanup deals with expired uploads, each at the path of its row.
CleanerTracks ==
  /\ \A x \in cleaner.pending :
       /\ rows[x.up].deleted = "expired" /\ rows[x.up].file = x.file /\ ~Losing(x.up)
  /\ \A u \in Uploads : Losing(u) => rows[u].deleted = "expired" /\ Nowhere(u)

SerialInv == Alone /\ RowsPlaced /\ NoRowNoFile /\ SerialClaims /\ CleanerTracks

\* What is there and not expired is not being deleted.
LEMMA NotLosing ==
  ASSUME SerialInv, NEW u \in Uploads, rows[u].deleted # "expired"
  PROVE  ~Losing(u)
BY DEF SerialInv, CleanerTracks

\* All requests but r are over.
OthersIdle(r) == \A s \in Requests : s # r => reqs[s] = Idle

LEMMA OneIsBusy ==
  ASSUME Alone, NEW r \in Requests, reqs[r] # Idle
  PROVE  OthersIdle(r)
BY DEF Alone, OthersIdle

LEMMA OneBegins ==
  ASSUME IInv, Alone', NEW r \in Requests, NEW q, q # Idle, reqs' = [reqs EXCEPT ![r] = q]
  PROVE  OthersIdle(r)
BY DEF Alone, OthersIdle, IInv, TypeOK

\* A step of the one request, which works on u and leaves the others alone.
LEMMA SerialStep ==
  ASSUME IInv, SerialInv, NEW r \in Requests, OthersIdle(r), NEW u \in Uploads,
         NEW q, reqs' = [reqs EXCEPT ![r] = q], cleaner' = cleaner,
         reqs[r].pc # "idle" => reqs[r].up = u,
         q.pc # "idle" => q.up = u,
         rows[u].deleted # "expired",
         \A w \in Uploads : w # u => rows'[w] = rows[w],
         \A w \in Uploads, path \in Paths : w # u => (files'[path] = w <=> files[path] = w),
         rows'[u] # NoRow /\ q.pc # "moved" => OnlyAt(u, rows[u].file)',
         rows'[u] = NoRow /\ q.pc # "stored" => Nowhere(u)',
         SerialClaim(q)'
  PROVE  SerialInv'
<1>1. \A s \in Requests : reqs'[s] = IF s = r THEN q ELSE reqs[s]
  BY DEF IInv, TypeOK
<1>2. \A s \in Requests : s # r => reqs[s] = Idle /\ reqs'[s] = Idle
  BY <1>1 DEF OthersIdle
<1>3. ~Losing(u) /\ \A w \in Uploads : Losing(w)' = Losing(w)
  BY NotLosing DEF Losing
<1>4. Alone'
  BY <1>2 DEF Alone
<1>5. RowsPlaced'
  <2> SUFFICES ASSUME NEW w \in Uploads, rows'[w] # NoRow, ~Losing(w),
                      \A s \in Requests : ~Moving(reqs'[s], w)
               PROVE  OnlyAt(w, rows[w].file)'
    BY <1>3 DEF RowsPlaced, Moving
  <2>1. CASE w = u
    BY <1>1, <2>1 DEF Moving
  <2>2. CASE w # u
    <3>1. \A s \in Requests : ~Moving(reqs[s], w)
      BY <1>2, <2>2 DEF Moving, Idle
    <3>2. rows'[w] = rows[w] /\ OnlyAt(w, rows[w].file)
      BY <2>2, <3>1 DEF SerialInv, RowsPlaced
    <3> QED
      BY <2>2, <3>2 DEF OnlyAt
  <2> QED
    BY <2>1, <2>2
<1>6. NoRowNoFile'
  <2> SUFFICES ASSUME NEW w \in Uploads, rows'[w] = NoRow,
                      \A s \in Requests : ~Creating(reqs'[s], w)
               PROVE  Nowhere(w)'
    BY DEF NoRowNoFile, Creating
  <2>1. CASE w = u
    BY <1>1, <2>1 DEF Creating
  <2>2. CASE w # u
    <3>1. \A s \in Requests : ~Creating(reqs[s], w)
      BY <1>2, <2>2 DEF Creating, Idle
    <3>2. Nowhere(w)
      BY <2>2, <3>1 DEF SerialInv, NoRowNoFile
    <3> QED
      BY <2>2, <3>2 DEF Nowhere
  <2> QED
    BY <2>1, <2>2
<1>7. SerialClaims'
  <2> SUFFICES ASSUME NEW s \in Requests PROVE SerialClaim(reqs[s])'
    BY DEF SerialClaims
  <2>1. CASE s = r
    BY <1>1, <2>1 DEF SerialClaim, OnlyAt, Exists
  <2>2. CASE s # r
    BY <1>2, <2>2 DEF SerialClaim, Idle
  <2> QED
    BY <2>1, <2>2
<1>8. CleanerTracks'
  <2>1. ASSUME NEW x \in cleaner.pending
        PROVE  rows'[x.up].deleted = "expired" /\ rows'[x.up].file = x.file /\ ~Losing(x.up)'
    BY <1>3, CleanerFacts DEF SerialInv, CleanerTracks
  <2>2. ASSUME NEW w \in Uploads, Losing(w)
        PROVE  rows'[w].deleted = "expired" /\ Nowhere(w)'
    BY <1>3, <2>2 DEF SerialInv, CleanerTracks, Nowhere
  <2> QED
    BY <1>3, <2>1, <2>2 DEF CleanerTracks
<1> QED
  BY <1>4, <1>5, <1>6, <1>7, <1>8 DEF SerialInv

\* The upload of the request, and where its content is.
LEMMA SerialFacts ==
  ASSUME IInv, SerialInv, NEW r \in Requests, reqs[r] # Idle
  PROVE  /\ OthersIdle(r) /\ reqs[r].up \in Uploads /\ SerialClaim(reqs[r])
         /\ reqs[r].pc # "idle"
         /\ rows[reqs[r].up].deleted # "expired"
         /\ reqs[r].pc \notin {"stored", "moved"} =>
              /\ rows[reqs[r].up] # NoRow /\ reqs[r].mem = rows[reqs[r].up]
              /\ OnlyAt(reqs[r].up, rows[reqs[r].up].file)
<1>1. OthersIdle(r)
  BY OneIsBusy DEF SerialInv
<1>2. reqs[r].pc # "idle" /\ reqs[r].up \in Uploads
  BY UpOf, RequestKinds DEF IInv, TypeOK
<1>3. SerialClaim(reqs[r])
  BY DEF SerialInv, SerialClaims
<1>4. rows[reqs[r].up].deleted # "expired"
  BY <1>2, <1>3 DEF SerialClaim, NoRow
<1>5. ASSUME reqs[r].pc \notin {"stored", "moved"}
      PROVE  /\ rows[reqs[r].up] # NoRow /\ reqs[r].mem = rows[reqs[r].up]
             /\ OnlyAt(reqs[r].up, rows[reqs[r].up].file)
  <2>1. rows[reqs[r].up] # NoRow /\ reqs[r].mem = rows[reqs[r].up]
    BY <1>2, <1>3, <1>5 DEF SerialClaim, NoRow
  <2>2. \A s \in Requests : ~Moving(reqs[s], reqs[r].up)
    BY <1>1, <1>5 DEF OthersIdle, Moving, Idle
  <2>3. ~Losing(reqs[r].up)
    BY <1>2, <1>4, NotLosing
  <2> QED
    BY <1>2, <2>1, <2>2, <2>3 DEF SerialInv, RowsPlaced
<1> QED
  BY <1>1, <1>2, <1>3, <1>4, <1>5

LEMMA StoreFileSerial ==
  ASSUME IInv, SerialInv, Alone', NEW r \in Requests, NEW u \in Uploads,
         NEW vis \in Visibilities, NEW rel \in RelPaths, StoreFile(r, u, vis, rel)
  PROVE  SerialInv'
<1>1. PICK path \in Paths : path = PathFor(vis, rel)
  BY DEF PathFor, Paths
<1>2. PICK row : row = [file |-> path, visibility |-> vis, deleted |-> "active"]
  OBVIOUS
<1>3. PICK q : q = [pc |-> "stored", up |-> u, row |-> row]
  OBVIOUS
<1>4. /\ reqs' = [reqs EXCEPT ![r] = q] /\ reqs[r] = Idle /\ rows[u] = NoRow
      /\ ~Exists(path) /\ Nowhere(u) /\ UNCHANGED <<rows, cleaner>>
  BY <1>1, <1>2, <1>3 DEF StoreFile, Nowhere
<1>5. \A p \in Paths : files'[p] = IF p = path THEN u ELSE files[p]
  BY <1>1 DEF StoreFile, IInv, TypeOK
<1>6. q.pc = "stored" /\ q.up = u /\ q.row.file = path /\ q # Idle
  BY <1>2, <1>3 DEF Idle
<1>7. OthersIdle(r)
  BY <1>4, <1>6, OneBegins
<1>8. \A w \in Uploads, p \in Paths : w # u => (files'[p] = w <=> files[p] = w)
  BY <1>4, <1>5, NobodyIsNobody DEF Exists
<1>9. SerialClaim(q)'
  BY <1>4, <1>5, <1>6 DEF SerialClaim, OnlyAt, Nowhere
<1>10. reqs[r].pc = "idle" /\ rows[u].deleted # "expired" /\ rows'[u] = NoRow
  BY <1>4 DEF Idle, NoRow
<1>11. \A w \in Uploads : rows'[w] = rows[w]
  BY <1>4
<1> QED
  BY <1>4, <1>6, <1>7, <1>8, <1>9, <1>10, <1>11, SerialStep

\* What a request that has just read the row of u holds.
HasRead(q, u) == q.pc \in {"loaded", "purpose", "save", "destroy"} /\ q.up = u /\ q.mem = rows[u]

\* The other requests begin with what the table holds.
LEMMA LoadSerial ==
  ASSUME IInv, SerialInv, Alone', NEW r \in Requests, NEW u \in Uploads,
         reqs[r] = Idle, rows[u].deleted = "active",
         NEW q, HasRead(q, u),
         reqs' = [reqs EXCEPT ![r] = q], UNCHANGED <<rows, files, cleaner>>
  PROVE  SerialInv'
<1>1. OthersIdle(r)
  <2>1. q # Idle
    BY DEF HasRead, Idle
  <2> QED
    BY <2>1, OneBegins
<1>2. rows[u] # NoRow /\ ~Losing(u)
  BY NotLosing DEF NoRow
<1>3. \A s \in Requests : ~Moving(reqs[s], u)
  BY <1>1 DEF OthersIdle, Moving, Idle
<1>4. OnlyAt(u, rows[u].file)
  BY <1>2, <1>3 DEF SerialInv, RowsPlaced
<1>5. SerialClaim(q)'
  BY DEF HasRead, SerialClaim
<1>6. OnlyAt(u, rows[u].file)'
  BY <1>4 DEF OnlyAt
<1>7. reqs[r].pc = "idle"
  BY DEF Idle
<1> QED
  BY <1>1, <1>2, <1>5, <1>6, <1>7, SerialStep DEF HasRead

LEMMA BeginSerial ==
  ASSUME IInv, SerialInv, Alone', NoRestore', NEW r \in Requests, Begin(r)
  PROVE  SerialInv'
<1>1. ASSUME NEW u \in Uploads, NEW vis \in Visibilities \cup {"keep"}, NEW purpose \in BOOLEAN,
             LoadPatch(r, u, vis, purpose)
      PROVE  SerialInv'
  <2>1. PICK q : q = [pc |-> IF vis \in {"keep", rows[u].visibility}
                             THEN AfterVisibility(purpose) ELSE "loaded",
                      up |-> u, mem |-> rows[u], vis |-> vis, purpose |-> purpose]
    OBVIOUS
  <2>2. HasRead(q, u)
    BY <2>1 DEF HasRead, AfterVisibility
  <2>3. reqs' = [reqs EXCEPT ![r] = q]
    BY <1>1, <2>1 DEF LoadPatch
  <2>4. reqs[r] = Idle /\ rows[u].deleted = "active" /\ UNCHANGED <<rows, files, cleaner>>
    BY <1>1 DEF LoadPatch
  <2> QED
    BY <2>2, <2>3, <2>4, LoadSerial
<1>2. ASSUME NEW u \in Uploads, LoadDestroy(r, u) PROVE SerialInv'
  <2>1. PICK q : q = [pc |-> "destroy", up |-> u, mem |-> rows[u]]
    OBVIOUS
  <2>2. HasRead(q, u)
    BY <2>1 DEF HasRead
  <2>3. reqs' = [reqs EXCEPT ![r] = q]
    BY <1>2, <2>1 DEF LoadDestroy
  <2>4. reqs[r] = Idle /\ rows[u].deleted = "active" /\ UNCHANGED <<rows, files, cleaner>>
    BY <1>2 DEF LoadDestroy
  <2> QED
    BY <2>2, <2>3, <2>4, LoadSerial
<1>3. ASSUME NEW u \in Uploads, LoadRestore(r, u) PROVE FALSE
  BY <1>3 DEF LoadRestore, NoRestore, IInv, TypeOK
<1> QED
  BY <1>1, <1>2, <1>3, StoreFileSerial DEF Begin

\* A request that has its row in memory goes on to q, or ends.
LEMMA SameRowSerial ==
  ASSUME IInv, SerialInv, NEW r \in Requests, reqs[r] # Idle,
         reqs[r].pc \notin {"stored", "moved"}, NEW q, reqs' = [reqs EXCEPT ![r] = q],
         UNCHANGED <<rows, files, cleaner>>,
         q.pc \in {"idle", "locked", "checked", "purpose", "save"},
         q.pc # "idle" => q.up = reqs[r].up /\ q.mem = rows[reqs[r].up],
         q.pc = "checked" => ~Exists(TargetPath(q.mem.file, q.vis))
  PROVE  SerialInv'
<1>1. PICK u \in Uploads : u = reqs[r].up
  BY SerialFacts
<1>2. /\ OthersIdle(r) /\ rows[u] # NoRow /\ rows[u].deleted # "expired"
      /\ OnlyAt(u, rows[u].file)
  BY <1>1, SerialFacts
<1>3. rows[u].deleted = "active"
  BY <1>1, SerialFacts DEF SerialClaim
<1>4. SerialClaim(q)'
  BY <1>1, <1>3 DEF SerialClaim, Exists
<1>5. OnlyAt(u, rows[u].file)'
  BY <1>2 DEF OnlyAt
<1> QED
  BY <1>1, <1>2, <1>4, <1>5, SerialStep

LEMMA DoneSerial ==
  ASSUME IInv, SerialInv, NEW r \in Requests, reqs[r] # Idle,
         reqs[r].pc \notin {"stored", "moved"}, Done(r), UNCHANGED <<rows, files, cleaner>>
  PROVE  SerialInv'
<1>1. PICK q : q = Idle
  OBVIOUS
<1>2. q.pc = "idle" /\ reqs' = [reqs EXCEPT ![r] = q]
  BY <1>1 DEF Idle, Done
<1> QED
  BY <1>2, SameRowSerial

LEMMA GoToSerial ==
  ASSUME IInv, SerialInv, NEW r \in Requests, reqs[r].pc \in {"locked", "purpose"}, NEW pc,
         GoTo(r, pc), UNCHANGED <<rows, files, cleaner>>, pc \in {"checked", "save"},
         pc = "checked" => ~Exists(TargetPath(reqs[r].mem.file, reqs[r].vis))
  PROVE  SerialInv'
<1>1. PICK q : q = [reqs[r] EXCEPT !.pc = pc]
  OBVIOUS
<1>2. reqs[r] \in Patching /\ reqs[r] # Idle
  BY PatchFacts DEF Idle
<1>3. q.pc = pc /\ q.up = reqs[r].up /\ q.mem = reqs[r].mem /\ q.vis = reqs[r].vis
  BY <1>1, <1>2 DEF Patching
<1>4. reqs[r].mem = rows[reqs[r].up]
  BY <1>2, SerialFacts
<1>5. reqs' = [reqs EXCEPT ![r] = q]
  BY <1>1 DEF GoTo
<1> QED
  BY <1>2, <1>3, <1>4, <1>5, SameRowSerial

LEMMA InsertRowSerial ==
  ASSUME IInv, SerialInv, NEW r \in Requests, InsertRow(r)
  PROVE  SerialInv'
<1>1. reqs[r] # Idle /\ reqs[r].pc = "stored"
  BY DEF InsertRow, Idle
<1>2. PICK u \in Uploads : u = reqs[r].up
  BY <1>1, SerialFacts
<1>3. PICK row : row = reqs[r].row
  OBVIOUS
<1>4. OthersIdle(r) /\ rows[u].deleted # "expired" /\ OnlyAt(u, row.file)
  BY <1>1, <1>2, <1>3, SerialFacts DEF SerialClaim
<1>5. \A w \in Uploads : rows'[w] = IF w = u THEN row ELSE rows[w]
  BY <1>2, <1>3 DEF InsertRow, IInv, TypeOK
<1>6. row # NoRow
  BY <1>1, <1>3, RowIsNotNoRow DEF IInv, RequestsSound, SoundRequest, SoundRow
<1>7. PICK q : q = Idle
  OBVIOUS
<1>8. q.pc = "idle" /\ reqs' = [reqs EXCEPT ![r] = q] /\ UNCHANGED <<files, cleaner>>
  BY <1>7 DEF InsertRow, Idle, Done
<1>9. SerialClaim(q)'
  BY <1>8 DEF SerialClaim
<1>10. OnlyAt(u, rows[u].file)'
  BY <1>4, <1>5, <1>8 DEF OnlyAt
<1> QED
  BY <1>2, <1>4, <1>5, <1>6, <1>8, <1>9, <1>10, SerialStep

LEMMA TakeLockSerial ==
  ASSUME IInv, SerialInv, NEW r \in Requests, TakeLock(r)
  PROVE  SerialInv'
<1>1. reqs[r] # Idle /\ reqs[r].pc = "loaded" /\ UNCHANGED <<rows, files, cleaner>>
  BY DEF TakeLock, Idle
<1>2. CASE Done(r)
  BY <1>1, <1>2, DoneSerial
<1>3. CASE rows[reqs[r].up].deleted = "active"
  <2>1. PICK q : q = Holding(reqs[r], "locked", rows[reqs[r].up])
    OBVIOUS
  <2>2. q.pc = "locked" /\ q.up = reqs[r].up /\ q.mem = rows[reqs[r].up]
    BY <1>1, <2>1, PatchFacts DEF Holding, Patching
  <2>3. reqs' = [reqs EXCEPT ![r] = q]
    BY <1>3, <2>1 DEF TakeLock
  <2> QED
    BY <1>1, <2>2, <2>3, SameRowSerial
<1> QED
  BY <1>2, <1>3 DEF TakeLock

\* A transaction that ends finds the content where it says.
LEMMA CommitPairSerial ==
  ASSUME IInv, SerialInv, NEW r \in Requests, reqs[r].pc \in Locked, CommitPair(r),
         UNCHANGED <<files, cleaner>>,
         OnlyAt(reqs[r].up, TargetPath(reqs[r].mem.file, reqs[r].vis))
  PROVE  SerialInv'
<1>1. reqs[r] # Idle
  BY DEF Locked, Idle
<1>2. PICK u \in Uploads : u = reqs[r].up
  BY <1>1, SerialFacts
<1>3. /\ reqs[r] \in Patching /\ SoundRow(reqs[r].mem) /\ reqs[r].vis \in Visibilities
      /\ reqs[r].mem = rows[u] /\ rows[u].deleted = "active" /\ OthersIdle(r)
  BY <1>1, <1>2, PatchFacts, SerialFacts DEF Locked, SerialClaim
<1>4. PICK new : new = TargetPath(rows[u].file, reqs[r].vis)
  OBVIOUS
<1>5. PICK row : row = Retargeted(rows[u], new, reqs[r].vis)
  OBVIOUS
<1>6. SoundRow(row)
  BY <1>3, <1>4, <1>5, RetargetedRowIsSound DEF SoundRow, Row
<1>7. row # NoRow /\ row.file = new /\ row.deleted = "active"
  BY <1>3, <1>5, <1>6, RowIsNotNoRow DEF SoundRow, Row, Retargeted
<1>8. PICK q : q = Holding(reqs[r], AfterVisibility(reqs[r].purpose), row)
  OBVIOUS
<1>9. q.pc \in {"purpose", "save"} /\ q.up = u /\ q.mem = row
  BY <1>2, <1>3, <1>8 DEF Holding, Patching, AfterVisibility
<1>10. /\ \A w \in Uploads : rows'[w] = IF w = u THEN row ELSE rows[w]
       /\ reqs' = [reqs EXCEPT ![r] = q]
  BY <1>2, <1>3, <1>4, <1>5, <1>8 DEF CommitPair, IInv, TypeOK
<1>11. SerialClaim(q)'
  BY <1>7, <1>9, <1>10 DEF SerialClaim
<1>12. OnlyAt(u, rows[u].file)'
  BY <1>2, <1>3, <1>4, <1>7, <1>10 DEF OnlyAt
<1> QED
  BY <1>2, <1>3, <1>7, <1>9, <1>10, <1>11, <1>12, SerialStep

LEMMA CheckFilesSerial ==
  ASSUME IInv, SerialInv, NEW r \in Requests, CheckFiles(r)
  PROVE  SerialInv'
<1>1. reqs[r].pc = "locked" /\ reqs[r] # Idle /\ UNCHANGED <<files, cleaner>>
  BY DEF CheckFiles, Idle
<1>2. PICK old : old = reqs[r].mem.file
  OBVIOUS
<1>3. PICK new : new = TargetPath(old, reqs[r].vis)
  OBVIOUS
<1>4. OnlyAt(reqs[r].up, old) /\ reqs[r].up \in Uploads
  BY <1>1, <1>2, SerialFacts
<1>5. old \in Paths
  BY <1>1, <1>2, PatchFacts DEF SoundRow, Row
<1>6. Exists(old)
  BY <1>4, <1>5, NobodyIsNobody DEF OnlyAt, Exists
<1>7. \/ old = new /\ CommitPair(r)
      \/ Fail(r)
      \/ ~Exists(new) /\ GoTo(r, "checked") /\ UNCHANGED <<rows, lock>>
  BY <1>2, <1>3, <1>6 DEF CheckFiles
<1>8. CASE old = new /\ CommitPair(r)
  BY <1>1, <1>2, <1>3, <1>4, <1>8, CommitPairSerial DEF Locked
<1>9. CASE Fail(r)
  BY <1>1, <1>9, DoneSerial DEF Fail
<1>10. CASE ~Exists(new) /\ GoTo(r, "checked") /\ UNCHANGED <<rows, lock>>
  BY <1>1, <1>2, <1>3, <1>10, GoToSerial
<1> QED
  BY <1>7, <1>8, <1>9, <1>10

\* os.replace takes a name that is still free.
LEMMA MoveFileSerial ==
  ASSUME IInv, SerialInv, NEW r \in Requests, MoveFile(r)
  PROVE  SerialInv'
<1>1. reqs[r].pc = "checked" /\ reqs[r] # Idle /\ cleaner' = cleaner
  BY DEF MoveFile, Idle
<1>2. PICK u \in Uploads : u = reqs[r].up
  BY <1>1, SerialFacts
<1>3. PICK old \in Paths : old = reqs[r].mem.file
  BY <1>1, PatchFacts DEF SoundRow, Row
<1>4. PICK new \in Paths : new = TargetPath(old, reqs[r].vis)
  BY <1>1, <1>3, PatchFacts, TargetKeepsName DEF Locked
<1>5. /\ reqs[r] \in Patching /\ reqs[r].mem = rows[u] /\ rows[u].deleted = "active"
      /\ OthersIdle(r) /\ OnlyAt(u, old) /\ ~Exists(new)
  BY <1>1, <1>2, <1>3, <1>4, PatchFacts, SerialFacts DEF SerialClaim
<1>6. files[old] = u /\ files[new] = Nobody /\ old # new /\ Exists(old)
  BY <1>5, NobodyIsNobody DEF OnlyAt, Exists
<1>7. /\ rows' = rows /\ GoTo(r, "moved")
      /\ files' = [files EXCEPT ![new] = files[old], ![old] = Nobody]
  BY <1>3, <1>4, <1>6 DEF MoveFile
<1>8. \A p \in Paths : files'[p] = IF p = old THEN Nobody ELSE IF p = new THEN u ELSE files[p]
  BY <1>6, <1>7 DEF IInv, TypeOK
<1>9. PICK q : q = [reqs[r] EXCEPT !.pc = "moved"]
  OBVIOUS
<1>10. q.pc = "moved" /\ q.up = u /\ q.mem = rows[u] /\ q.vis = reqs[r].vis
  BY <1>2, <1>5, <1>9 DEF Patching
<1>11. reqs' = [reqs EXCEPT ![r] = q]
  BY <1>7, <1>9 DEF GoTo
<1>12. \A w \in Uploads, p \in Paths : w # u => (files'[p] = w <=> files[p] = w)
  BY <1>6, <1>8, NobodyIsNobody
<1>13. SerialClaim(q)'
  <2>1. \A p \in Paths : files'[p] = u <=> p = new
    BY <1>5, <1>6, <1>8, NobodyIsNobody DEF OnlyAt
  <2>2. TargetPath(q.mem.file, q.vis) = new
    BY <1>3, <1>4, <1>5, <1>10
  <2> QED
    BY <1>5, <1>7, <1>10, <2>1, <2>2 DEF SerialClaim, OnlyAt
<1>14. rows[u].deleted # "expired" /\ rows'[u] # NoRow /\ \A w \in Uploads : rows'[w] = rows[w]
  BY <1>5, <1>7 DEF NoRow
<1> QED
  BY <1>1, <1>2, <1>5, <1>10, <1>11, <1>12, <1>13, <1>14, SerialStep

LEMMA CommitMoveSerial ==
  ASSUME IInv, SerialInv, NEW r \in Requests, CommitMove(r)
  PROVE  SerialInv'
<1>1. reqs[r].pc = "moved"
  BY DEF CommitMove
<1>2. OnlyAt(reqs[r].up, TargetPath(reqs[r].mem.file, reqs[r].vis))
  BY <1>1 DEF SerialInv, SerialClaims, SerialClaim
<1> QED
  BY <1>1, <1>2, CommitPairSerial DEF CommitMove, Locked

LEMMA SavePurposeSerial ==
  ASSUME IInv, SerialInv, NEW r \in Requests, SavePurpose(r)
  PROVE  SerialInv'
<1>1. reqs[r].pc = "purpose" /\ reqs[r] # Idle /\ UNCHANGED <<rows, files, cleaner>>
  BY DEF SavePurpose, Idle
<1> QED
  BY <1>1, DoneSerial, GoToSerial DEF SavePurpose

\* The row the serializer saves is the row as it is.
LEMMA SavePatchedSerial ==
  ASSUME IInv, SerialInv, NEW r \in Requests, SavePatched(r)
  PROVE  SerialInv'
<1>1. reqs[r].pc = "save" /\ reqs[r] # Idle /\ Done(r) /\ UNCHANGED <<files, cleaner>>
  BY DEF SavePatched, Idle
<1>2. reqs[r].mem = rows[reqs[r].up] /\ reqs[r].up \in Uploads
  BY <1>1, SerialFacts
<1>3. rows' = rows
  BY <1>2 DEF SavePatched, IInv, TypeOK
<1> QED
  BY <1>1, <1>3, DoneSerial

LEMMA MarkDeletedSerial ==
  ASSUME IInv, SerialInv, NEW r \in Requests, MarkDeleted(r)
  PROVE  SerialInv'
<1>1. reqs[r].pc = "destroy" /\ reqs[r] # Idle
  BY DEF MarkDeleted, Idle
<1>2. PICK u \in Uploads : u = reqs[r].up
  BY <1>1, SerialFacts
<1>3. /\ OthersIdle(r) /\ rows[u] # NoRow /\ rows[u].deleted # "expired"
      /\ OnlyAt(u, rows[u].file)
  BY <1>1, <1>2, SerialFacts
<1>4. PICK row : row = [rows[u] EXCEPT !.deleted = "trashed"]
  OBVIOUS
<1>5. SoundRow(rows[u])
  BY <1>3 DEF IInv, RowsSound
<1>6. SoundRow(row) /\ row.file = rows[u].file
  BY <1>4, <1>5, MarkedRowIsSound DEF Ages, SoundRow, Row
<1>7. row # NoRow
  BY <1>6, RowIsNotNoRow DEF SoundRow
<1>8. /\ \A w \in Uploads : rows'[w] = IF w = u THEN row ELSE rows[w]
      /\ UNCHANGED <<files, cleaner>>
  BY <1>2, <1>3, <1>4 DEF MarkDeleted, IInv, TypeOK
<1>9. PICK q : q = Idle
  OBVIOUS
<1>10. q.pc = "idle" /\ reqs' = [reqs EXCEPT ![r] = q]
  BY <1>9 DEF MarkDeleted, Done, Idle
<1>11. SerialClaim(q)'
  BY <1>10 DEF SerialClaim
<1>12. OnlyAt(u, rows[u].file)'
  BY <1>3, <1>6, <1>8 DEF OnlyAt
<1> QED
  BY <1>2, <1>3, <1>7, <1>8, <1>10, <1>11, <1>12, SerialStep

LEMMA StepSerial ==
  ASSUME IInv, SerialInv, NEW r \in Requests, Step(r)
  PROVE  SerialInv'
<1>1. ~MarkRestored(r)
  BY DEF MarkRestored, SerialInv, SerialClaims, SerialClaim
<1> QED
  BY <1>1, InsertRowSerial, TakeLockSerial, CheckFilesSerial, MoveFileSerial, CommitMoveSerial,
     SavePurposeSerial, SavePatchedSerial, MarkDeletedSerial DEF Step

-------------------------------------------------------------------------------
(* The cleanup beside a request                                            *)

\* The upload of a request is neither expired nor being deleted.
LEMMA RequestsSpared ==
  ASSUME IInv, SerialInv, NEW s \in Requests, reqs[s].pc # "idle"
  PROVE  reqs[s].up \in Uploads /\ rows[reqs[s].up].deleted # "expired"
BY SerialFacts DEF Idle

\* A step of the cleanup that changes what is said of u alone, which no request
\* is about.
LEMMA SerialCleaning ==
  ASSUME IInv, SerialInv, reqs' = reqs, NEW u \in Uploads, rows[u] # NoRow,
         \A s \in Requests : reqs[s].pc # "idle" => reqs[s].up # u,
         \A w \in Uploads : w # u => rows'[w] = rows[w] /\ (Losing(w)' <=> Losing(w)),
         \A w \in Uploads, path \in Paths : w # u => (files'[path] = w <=> files[path] = w),
         \A path \in Paths : files[path] = Nobody => files'[path] = Nobody,
         rows'[u] # NoRow /\ ~Losing(u)' => OnlyAt(u, rows[u].file)',
         rows'[u] = NoRow => Nowhere(u)',
         CleanerTracks'
  PROVE  SerialInv'
<1>1. Alone'
  BY DEF SerialInv, Alone
<1>2. RowsPlaced'
  <2> SUFFICES ASSUME NEW w \in Uploads, rows'[w] # NoRow, ~Losing(w)',
                      \A s \in Requests : ~Moving(reqs[s], w)
               PROVE  OnlyAt(w, rows[w].file)'
    BY DEF RowsPlaced, Moving
  <2>1. CASE w # u
    <3>1. rows'[w] = rows[w] /\ OnlyAt(w, rows[w].file)
      BY <2>1 DEF SerialInv, RowsPlaced
    <3> QED
      BY <2>1, <3>1 DEF OnlyAt
  <2> QED
    BY <2>1
<1>3. NoRowNoFile'
  <2> SUFFICES ASSUME NEW w \in Uploads, rows'[w] = NoRow,
                      \A s \in Requests : ~Creating(reqs[s], w)
               PROVE  Nowhere(w)'
    BY DEF NoRowNoFile, Creating
  <2>1. CASE w # u
    <3>1. Nowhere(w)
      BY <2>1 DEF SerialInv, NoRowNoFile
    <3> QED
      BY <2>1, <3>1 DEF Nowhere
  <2> QED
    BY <2>1
<1>4. SerialClaims'
  <2> SUFFICES ASSUME NEW s \in Requests PROVE SerialClaim(reqs[s])'
    BY DEF SerialClaims
  <2>1. SerialClaim(reqs[s])
    BY DEF SerialInv, SerialClaims
  <2>2. CASE reqs[s].pc = "idle"
    BY <2>2 DEF SerialClaim
  <2>3. CASE reqs[s].pc # "idle"
    <3>1. PICK v \in Uploads : v = reqs[s].up
      BY <2>3, RequestsSpared
    <3>2. v # u /\ rows'[v] = rows[v]
      BY <2>3, <3>1
    <3>3. \A path \in Paths : files'[path] = v <=> files[path] = v
      BY <3>2
    <3>4. reqs[s].pc = "checked" =>
            TargetPath(reqs[s].mem.file, reqs[s].vis) \in Paths
      BY ClaimPaths DEF Locked
    <3> QED
      BY <2>1, <3>1, <3>2, <3>3, <3>4 DEF SerialClaim, OnlyAt, Exists
  <2> QED
    BY <2>2, <2>3
<1> QED
  BY <1>1, <1>2, <1>3, <1>4 DEF SerialInv

\* An upload that is there and that no request is about is at its path.
LEMMA PlacedAtRest ==
  ASSUME SerialInv, NEW u \in Uploads, rows[u] # NoRow, ~Losing(u),
         \A s \in Requests : reqs[s].pc # "idle" => reqs[s].up # u
  PROVE  OnlyAt(u, rows[u].file)
BY DEF SerialInv, RowsPlaced, Moving

LEMMA ExpireSerial ==
  ASSUME IInv, SerialInv, NEW u \in Uploads, Expire(u)
  PROVE  SerialInv'
<1>1. rows[u].deleted = "trashed" /\ UNCHANGED <<files, reqs, cleaner>>
  BY DEF Expire
<1>2. rows[u] # NoRow /\ ~Losing(u)
  BY <1>1, NotLosing DEF NoRow
<1>3. \A s \in Requests : reqs[s].pc # "idle" => reqs[s].up # u
  BY <1>1 DEF SerialInv, SerialClaims, SerialClaim, NoRow
<1>4. PICK row : row = [rows[u] EXCEPT !.deleted = "expired"]
  OBVIOUS
<1>5. SoundRow(rows[u])
  BY <1>2 DEF IInv, RowsSound
<1>6. row.file = rows[u].file /\ row # NoRow
  BY <1>4, <1>5, MarkedRowIsSound, RowIsNotNoRow DEF Ages, SoundRow, Row
<1>7. \A w \in Uploads : rows'[w] = IF w = u THEN row ELSE rows[w]
  BY <1>4 DEF Expire, IInv, TypeOK
<1>8. OnlyAt(u, rows[u].file)
  BY <1>2, <1>3, PlacedAtRest
<1>9. OnlyAt(u, rows[u].file)'
  BY <1>1, <1>6, <1>7, <1>8 DEF OnlyAt
<1>10. CleanerTracks'
  <2>1. \A x \in cleaner.pending : x.up \in Uploads /\ x.up # u
    BY <1>1, CleanerFacts DEF SerialInv, CleanerTracks
  <2> QED
    BY <1>1, <1>2, <1>7, <2>1 DEF SerialInv, CleanerTracks, Losing, Nowhere
<1> QED
  BY <1>1, <1>2, <1>3, <1>6, <1>7, <1>9, <1>10, SerialCleaning DEF Losing

LEMMA StartCleanupSerial ==
  ASSUME IInv, SerialInv, StartCleanup
  PROVE  SerialInv'
<1>1. UNCHANGED <<rows, files, reqs>> /\ cleaner = NotCleaning
  BY DEF StartCleanup
<1>2. /\ cleaner'.pc = "files"
      /\ \A x \in cleaner'.pending :
           \E u \in Uploads : rows[u].deleted = "expired" /\ x = [up |-> u, file |-> rows[u].file]
  BY DEF StartCleanup
<1>3. \A u \in Uploads : ~Losing(u) /\ ~Losing(u)'
  BY <1>1, <1>2 DEF Losing, NotCleaning
<1>4. \A x \in cleaner'.pending :
        rows[x.up].deleted = "expired" /\ rows[x.up].file = x.file /\ ~Losing(x.up)'
  BY <1>2, <1>3
<1>5. CleanerTracks'
  BY <1>1, <1>3, <1>4 DEF CleanerTracks
<1>6. RowsPlaced'
  BY <1>1, <1>3 DEF SerialInv, RowsPlaced, OnlyAt, Moving
<1>7. NoRowNoFile' /\ Alone'
  BY <1>1 DEF SerialInv, NoRowNoFile, Nowhere, Creating, Alone
<1>8. SerialClaims'
  BY <1>1 DEF SerialInv, SerialClaims, SerialClaim, OnlyAt, Exists
<1> QED
  BY <1>5, <1>6, <1>7, <1>8 DEF SerialInv

\* The file that is deleted is that of the upload the query returned.
LEMMA CleanFileSerial ==
  ASSUME IInv, SerialInv, NEW x \in [up : Uploads, file : Paths], CleanFile(x)
  PROVE  SerialInv'
<1>1. /\ cleaner.pc = "files" /\ x \in cleaner.pending /\ UNCHANGED <<rows, reqs>>
      /\ cleaner' = [pc |-> "row", pending |-> cleaner.pending \ {x}, up |-> x.up]
  BY DEF CleanFile
<1>2. PICK u \in Uploads : u = x.up
  OBVIOUS
<1>3. \A w \in Uploads : ~Losing(w) /\ (Losing(w)' <=> w = u)
  BY <1>1, <1>2 DEF Losing
<1>4. rows[u].deleted = "expired" /\ rows[u].file = x.file /\ rows[u] # NoRow
  BY <1>1, <1>2 DEF SerialInv, CleanerTracks, NoRow
<1>5. \A s \in Requests : reqs[s].pc # "idle" => reqs[s].up # u
  BY <1>4, RequestsSpared
<1>6. OnlyAt(u, x.file)
  BY <1>3, <1>4, <1>5, PlacedAtRest
<1>7. \A p \in Paths : files'[p] = IF p = x.file THEN Nobody ELSE files[p]
  BY DEF CleanFile, IInv, TypeOK
<1>8. \A w \in Uploads, p \in Paths : w # u => (files'[p] = w <=> files[p] = w)
  BY <1>6, <1>7, NobodyIsNobody DEF OnlyAt
<1>9. Nowhere(u)'
  BY <1>6, <1>7, NobodyIsNobody DEF OnlyAt, Nowhere
<1>10. CleanerTracks'
  <2>1. ASSUME NEW y \in cleaner.pending \ {x}
        PROVE  rows[y.up].deleted = "expired" /\ rows[y.up].file = y.file /\ y.up # u
    <3>1. rows[y.up].deleted = "expired" /\ rows[y.up].file = y.file
      BY DEF SerialInv, CleanerTracks
    <3>2. y \in [up : Uploads, file : Paths]
      BY CleanerFacts
    <3> QED
      BY <1>2, <1>4, <3>1, <3>2
  <2>2. cleaner'.pending = cleaner.pending \ {x}
    BY <1>1
  <2>3. \A y \in cleaner.pending \ {x} : y.up \in Uploads
    BY CleanerFacts
  <2> QED
    BY <1>1, <1>3, <1>4, <1>9, <2>1, <2>2, <2>3 DEF CleanerTracks
<1>11. \A p \in Paths : files[p] = Nobody => files'[p] = Nobody
  BY <1>7
<1>12. \A w \in Uploads : w # u => rows'[w] = rows[w] /\ (Losing(w)' <=> Losing(w))
  BY <1>1, <1>3
<1>13. rows'[u] # NoRow /\ Losing(u)'
  BY <1>1, <1>3, <1>4
<1> QED
  BY <1>1, <1>4, <1>5, <1>8, <1>10, <1>11, <1>12, <1>13, SerialCleaning

LEMMA CleanRowSerial ==
  ASSUME IInv, SerialInv, CleanRow
  PROVE  SerialInv'
<1>1. cleaner.pc = "row" /\ UNCHANGED <<files, reqs>>
  BY DEF CleanRow
<1>2. PICK u \in Uploads : u = cleaner.up
  BY <1>1, CleanerFacts
<1>3. rows[u].deleted = "expired" /\ rows[u] # NoRow /\ Nowhere(u)
  BY <1>1, <1>2 DEF Losing, SerialInv, CleanerTracks, NoRow
<1>4. \A s \in Requests : reqs[s].pc # "idle" => reqs[s].up # u
  BY <1>3, RequestsSpared
<1>5. \A w \in Uploads : rows'[w] = IF w = u THEN NoRow ELSE rows[w]
  BY <1>2 DEF CleanRow, IInv, TypeOK
<1>6. cleaner'.pc \in {"idle", "files"} /\ cleaner'.pending \in SUBSET cleaner.pending
  BY DEF CleanRow, Cleaned, NotCleaning
<1>7. \A w \in Uploads : ~Losing(w)' /\ (w # u => ~Losing(w))
  BY <1>2, <1>6 DEF Losing
<1>8. CleanerTracks'
  <2>1. \A x \in cleaner.pending : x.up \in Uploads /\ x.up # u
    BY <1>1, <1>2, CleanerFacts DEF SerialInv, CleanerTracks, Losing
  <2> QED
    BY <1>5, <1>6, <1>7, <2>1 DEF SerialInv, CleanerTracks
<1>9. Nowhere(u)'
  BY <1>1, <1>3 DEF Nowhere
<1>10. \A w \in Uploads : w # u => rows'[w] = rows[w] /\ (Losing(w)' <=> Losing(w))
  BY <1>5, <1>7
<1>11. rows'[u] = NoRow
  BY <1>5
<1> QED
  BY <1>1, <1>3, <1>4, <1>8, <1>9, <1>10, <1>11, SerialCleaning

LEMMA WorkSerial ==
  ASSUME IInv, SerialInv, Work, Alone', NoRestore'
  PROVE  SerialInv'
BY BeginSerial, StepSerial, ExpireSerial, StartCleanupSerial, CleanFileSerial, CleanRowSerial
   DEF Work, Clean

LEMMA StutterSerial ==
  ASSUME SerialInv, UNCHANGED vars
  PROVE  SerialInv'
<1>1. Alone' /\ NoRowNoFile' /\ CleanerTracks'
  BY DEF vars, SerialInv, Alone, NoRowNoFile, Creating, CleanerTracks, Losing, Nowhere
<1>2. RowsPlaced'
  BY DEF vars, SerialInv, RowsPlaced, Losing, Moving, OnlyAt
<1>3. SerialClaims'
  BY DEF vars, SerialInv, SerialClaims, SerialClaim, OnlyAt, Exists
<1> QED
  BY <1>1, <1>2, <1>3 DEF SerialInv

LEMMA InitIsSerial ==
  ASSUME Init
  PROVE  SerialInv
<1>1. Alone /\ SerialClaims
  BY DEF Init, Alone, SerialClaims, SerialClaim, Idle
<1>2. RowsPlaced /\ NoRowNoFile /\ CleanerTracks
  BY NobodyIsNobody DEF Init, RowsPlaced, NoRowNoFile, Nowhere, CleanerTracks, Losing, NotCleaning
<1> QED
  BY <1>1, <1>2 DEF SerialInv

-------------------------------------------------------------------------------
(* The scenarios                                                           *)

\* The inductive invariants of the scenarios.
ScenarioInv ==
  /\ IInv
  /\ scenario = "uncleaned" => ContentInv(OwnNames)
  /\ scenario = "serial" => SerialInv

LEMMA OwnNamesAreSeparate == NamesSeparate(OwnNames)
BY NamesDiffer DEF NamesSeparate, OwnNames

LEMMA ScenariosAreNext == MCNext => Next
BY DEF MCNext, RequestsAct, Work, Next

LEMMA UncleanedStep ==
  ASSUME IInv, ContentInv(OwnNames), RequestsAct, Named(OwnNames)'
  PROVE  ContentInv(OwnNames)'
<1>1. ASSUME NEW r \in Requests, NEW u \in Uploads, NEW vis \in Visibilities,
             NEW rel \in RelPaths, StoreFile(r, u, vis, rel)
      PROVE  rel \in OwnNames[u]
  <2>1. PathFor(vis, rel) \in Paths /\ PathFor(vis, rel).rel = rel
    BY DEF PathFor, Paths
  <2>2. files'[PathFor(vis, rel)] = u
    BY <1>1, <2>1 DEF StoreFile, IInv, TypeOK
  <2> QED
    BY <2>1, <2>2, NobodyIsNobody DEF Named
<1> QED
  BY <1>1, OwnNamesAreSeparate, RequestsKeepContent

\* The inductive invariants of the three scenarios hold in every reachable state.
THEOREM ScenarioInductive == MCSpec => []ScenarioInv
<1>1. MCInit => ScenarioInv
  BY InitIsSound, InitIsContent, InitIsSerial DEF MCInit, ScenarioInv
<1>2. ASSUME ScenarioInv, [MCNext]_mcvars PROVE ScenarioInv'
  <2>1. IInv /\ IInv' /\ scenario' = scenario
    BY <1>2, ScenariosAreNext, NextKeepsIInv DEF ScenarioInv, MCNext, mcvars
  <2>2. CASE UNCHANGED vars
    BY <1>2, <2>1, <2>2, StutterKeepsContent, StutterSerial DEF ScenarioInv
  <2>3. CASE MCNext
    <3>1. ASSUME scenario = "uncleaned" PROVE ContentInv(OwnNames)'
      BY <1>2, <2>1, <2>3, <3>1, UncleanedStep DEF ScenarioInv, MCNext
    <3>2. ASSUME scenario = "serial" PROVE SerialInv'
      BY <1>2, <2>1, <2>3, <3>2, WorkSerial DEF ScenarioInv, MCNext
    <3> QED
      BY <2>1, <3>1, <3>2 DEF ScenarioInv
  <2> QED
    BY <1>2, <2>2, <2>3 DEF mcvars
<1> QED
  BY <1>1, <1>2, PTL DEF MCSpec

\* Without the cleanup the content of two uploads with names of their own stays
\* where it is found, whatever overlaps and whoever dies.
THEOREM UncleanedContentStays == MCSpec => []UncleanedContentRecoverable
<1>1. ScenarioInv => UncleanedContentRecoverable
  BY ContentIsRecoverable DEF ScenarioInv, UncleanedContentRecoverable
<1> QED
  BY <1>1, ScenarioInductive, PTL

\* And a change of visibility writes a new path only where the file is already.
THEOREM UncleanedMovesFindFile == MCSpec => UncleanedMoveFindsFile
<1>1. ScenarioInv /\ [MCNext]_mcvars => [scenario = "uncleaned" => MovedToFile]_mcvars
  BY OwnNamesAreSeparate, RequestsMoveToFile DEF ScenarioInv, MCNext
<1> QED
  BY <1>1, ScenarioInductive, PTL DEF MCSpec, UncleanedMoveFindsFile

\* The upload is at its path when all requests are over and it is not being
\* deleted.
LEMMA RestsAtPath ==
  ASSUME SerialInv, \A r \in Requests : reqs[r] = Idle, NEW u \in Uploads,
         rows[u] # NoRow, ~Losing(u)
  PROVE  OnlyAt(u, rows[u].file)
BY PlacedAtRest DEF Idle

\* Uploads that compete for names serve their own content, as long as requests do
\* not overlap: the storage never hands out a name that is taken, no move
\* overwrites, and the cleanup deletes no file but that of the upload it found.
THEOREM SerialFilesAreOwn == MCSpec => []SerialServedFileIsOwn
<1>1. ScenarioInv => SerialServedFileIsOwn
  <2> SUFFICES ASSUME IInv, SerialInv, \A r \in Requests : reqs[r] = Idle,
                      NEW u \in Uploads, rows[u].deleted \in {"active", "trashed"}
               PROVE  files[rows[u].file] = u
    BY DEF ScenarioInv, SerialServedFileIsOwn, ServedFileIsOwn
  <2>1. rows[u] # NoRow /\ ~Losing(u)
    BY NotLosing DEF NoRow
  <2>2. rows[u].file \in Paths
    BY <2>1 DEF IInv, RowsSound, SoundRow, Row
  <2> QED
    BY <2>1, <2>2, RestsAtPath DEF OnlyAt
<1> QED
  BY <1>1, ScenarioInductive, PTL

\* Under the same condition every URL the API shows leads to the upload's content,
\* and the media location gives out no private upload (get_url, content, nginx).
THEOREM SerialUrlsAreGood == MCSpec => []SerialUrlsLeadToContent
<1>1. ScenarioInv => SerialUrlsLeadToContent
  <2> SUFFICES ASSUME IInv, SerialInv, \A r \in Requests : reqs[r] = Idle
               PROVE  UrlsLeadToContent
    BY DEF ScenarioInv, SerialUrlsLeadToContent, UrlsLeadToContent
  <2>1. ASSUME NEW u \in Uploads, rows[u].deleted = "active"
        PROVE  /\ files[rows[u].file] = u /\ rows[u].file.area = rows[u].visibility
               /\ rows[u].visibility \in Visibilities
    <3>1. rows[u] # NoRow /\ ~Losing(u)
      BY <2>1, NotLosing DEF NoRow
    <3>2. SoundRow(rows[u])
      BY <3>1 DEF IInv, RowsSound
    <3> QED
      BY <3>1, <3>2, RestsAtPath DEF OnlyAt, SoundRow, Row
  <2>2. ASSUME NEW u \in Uploads, NEW viewer \in Viewers
        PROVE  /\ UrlFor(u, viewer).kind = "content" => ContentOf(u, viewer) = u
               /\ UrlFor(u, viewer).kind = "media" => Serve(UrlFor(u, viewer).path) = u
    <3>1. CASE rows[u].deleted # "active"
      BY <3>1 DEF UrlFor, NoUrl
    <3>2. CASE rows[u].deleted = "active" /\ rows[u].visibility = "public"
      BY <2>1, <3>2 DEF UrlFor, MediaUrl, Serve
    <3>3. CASE rows[u].deleted = "active" /\ rows[u].visibility # "public"
      BY <2>1, <3>3 DEF UrlFor, NoUrl, ContentUrl, ContentOf
    <3> QED
      BY <3>1, <3>2, <3>3
  <2>3. ASSUME NEW path \in Paths, Serve(path) # Nobody, rows[Serve(path)] # NoRow
        PROVE  rows[Serve(path)].visibility = "public"
    <3>1. PICK u : u = Serve(path)
      OBVIOUS
    <3>2. path.area # "private" /\ u = files[path]
      BY <2>3, <3>1 DEF Serve
    <3>3. path.area = "public" /\ files[path] \in Uploads \cup {Nobody}
      BY <3>2 DEF Paths, Visibilities, IInv, TypeOK
    <3>4. u \in Uploads /\ rows[u] # NoRow
      BY <2>3, <3>1, <3>2, <3>3
    <3>5. ~Losing(u)
      BY <3>2, <3>4 DEF SerialInv, CleanerTracks, Nowhere
    <3>6. path = rows[u].file
      BY <3>2, <3>4, <3>5, RestsAtPath DEF OnlyAt
    <3> QED
      BY <3>1, <3>3, <3>4, <3>6 DEF IInv, RowsSound, SoundRow
  <2> QED
    BY <2>2, <2>3 DEF UrlsLeadToContent
<1> QED
  BY <1>1, ScenarioInductive, PTL

===============================================================================
