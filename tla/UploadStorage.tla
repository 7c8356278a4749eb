----------------------------- MODULE UploadStorage -----------------------------
(***************************************************************************)
(* Uploads live twice: as rows of the uploads table and as files of the    *)
(* media directory, and no transaction covers both.  This module has the   *)
(* requests of UploadViewSet, each split where another request, the        *)
(* cleanup command or a crash can come in between, and the cleanup.        *)
(***************************************************************************)
EXTENDS Naturals, FiniteSets

CONSTANTS
  Uploads,    \* primary keys (UUIDs) of uploads
  Requests,   \* slots for requests in flight
  Kinds,      \* which operations happen
  RelPaths,   \* <purpose>/<date>/<hash8><ext>
  RelPathsOf, \* RelPathsOf[u]: the names the storage may choose for u's file
  Nobody      \* no upload, no request, no row

AllKinds == {"create", "patch", "destroy", "restore", "cleanup", "crash", "db_error"}

ASSUME KindsKnown == Kinds \subseteq AllKinds
ASSUME NamesKnown == RelPathsOf \in [Uploads -> SUBSET RelPaths]
ASSUME NobodyIsNobody == Nobody \notin Uploads \cup Requests

VARIABLES
  rows,     \* the uploads table
  files,    \* whose content is at each path of the storage
  lock,     \* the request that holds the lock on each row
  reqs,     \* what each request slot is doing
  cleaner   \* the cleanup command

vars == <<rows, files, lock, reqs, cleaner>>

-------------------------------------------------------------------------------
(* State                                                                   *)

Visibilities == {"public", "private"}

\* area "private" is the private/ prefix, area "public" its absence.
Paths == [area : Visibilities, rel : RelPaths]

\* deleted_at: null, recent, or before the cleanup's cutoff.
Ages == {"active", "trashed", "expired"}

Row == [file : Paths, visibility : Visibilities, deleted : Ages]
NoRow == [deleted |-> "none"]

Idle == [pc |-> "idle"]

\* A creation whose file is stored and whose row is not inserted.
Storing == [pc : {"stored"}, up : Uploads, row : Row]

\* An update; mem is the instance in memory.  It sends a visibility, a
\* purpose, or both.  loaded: not in change_visibility yet; locked, checked,
\* moved: inside it, the row locked; purpose, save: the two writes after it.
Patching == [pc : {"loaded", "locked", "checked", "moved", "purpose", "save"},
             up : Uploads, mem : Row, vis : Visibilities \cup {"keep"},
             purpose : BOOLEAN]

\* A soft deletion or a restore that has read its upload.
Marking == [pc : {"destroy", "restore"}, up : Uploads, mem : Row]

Request == {Idle} \cup Storing \cup Patching \cup Marking

\* What the cleanup's query returned and it has not dealt with yet, and the
\* upload whose file it has deleted and whose row it has not.
Cleaner == [pc : {"idle", "files"}, pending : SUBSET [up : Uploads, file : Paths]]
           \cup [pc : {"row"}, pending : SUBSET [up : Uploads, file : Paths], up : Uploads]

NotCleaning == [pc |-> "idle", pending |-> {}]

Init ==
  /\ rows = [u \in Uploads |-> NoRow]
  /\ files = [path \in Paths |-> Nobody]
  /\ lock = [u \in Uploads |-> Nobody]
  /\ reqs = [r \in Requests |-> Idle]
  /\ cleaner = NotCleaning

Exists(path) == files[path] # Nobody

\* A write waits for a lock another request holds on the row.
Writable(u, r) == lock[u] \in {Nobody, r}

GoTo(r, pc) == reqs' = [reqs EXCEPT ![r].pc = pc]
Done(r) == reqs' = [reqs EXCEPT ![r] = Idle]

-------------------------------------------------------------------------------
(* Creating                                                                *)

\* get_upload_path
PathFor(visibility, rel) == [area |-> visibility, rel |-> rel]

\* FileField.pre_save: the storage finds a name that is free and takes it.
StoreFile(r, u, vis, rel) ==
  /\ "create" \in Kinds
  /\ reqs[r] = Idle
  /\ rows[u] = NoRow
  /\ \A path \in Paths : files[path] # u
  /\ \A s \in Requests : reqs[s] # Idle => reqs[s].up # u
  /\ rel \in RelPathsOf[u]
  /\ ~Exists(PathFor(vis, rel))
  /\ files' = [files EXCEPT ![PathFor(vis, rel)] = u]
  /\ reqs' = [reqs EXCEPT ![r] =
       [pc |-> "stored", up |-> u,
        row |-> [file |-> PathFor(vis, rel), visibility |-> vis, deleted |-> "active"]]]
  /\ UNCHANGED <<rows, lock, cleaner>>

InsertRow(r) ==
  /\ reqs[r].pc = "stored"
  /\ rows' = [rows EXCEPT ![reqs[r].up] = reqs[r].row]
  /\ Done(r)
  /\ UNCHANGED <<files, lock, cleaner>>

-------------------------------------------------------------------------------
(* Updating: perform_update and UploadService.change_visibility            *)

\* The purpose is saved when it was sent, then the serializer saves.
AfterVisibility(purpose) == IF purpose THEN "purpose" ELSE "save"

\* get_object, and the unlocked early return when nothing is to change.
LoadPatch(r, u, vis, purpose) ==
  /\ "patch" \in Kinds
  /\ reqs[r] = Idle
  /\ rows[u].deleted = "active"
  /\ vis # "keep" \/ purpose
  /\ reqs' = [reqs EXCEPT ![r] =
       [pc |-> IF vis \in {"keep", rows[u].visibility} THEN AfterVisibility(purpose)
               ELSE "loaded",
        up |-> u, mem |-> rows[u], vis |-> vis, purpose |-> purpose]]
  /\ UNCHANGED <<rows, files, lock, cleaner>>

\* An update at its next point, with another instance in memory.
Holding(q, pc, mem) == [q EXCEPT !.pc = pc, !.mem = mem]

\* select_for_update on the active uploads: the instance is read afresh.
TakeLock(r) ==
  /\ reqs[r].pc = "loaded"
  /\ LET u == reqs[r].up IN
     /\ lock[u] = Nobody
     /\ IF rows[u].deleted = "active"
        THEN /\ lock' = [lock EXCEPT ![u] = r]
             /\ reqs' = [reqs EXCEPT ![r] = Holding(@, "locked", rows[u])]
        ELSE Done(r) /\ UNCHANGED lock
  /\ UNCHANGED <<rows, files, cleaner>>

\* Mutant: the private/ prefix is never removed.
TargetStuck(path, visibility) == [path EXCEPT !.area = "private"]

\* _target_path
TargetPath(path, visibility) == [path EXCEPT !.area = visibility]

\* The two attributes change_visibility sets.
Retargeted(row, path, vis) == [row EXCEPT !.file = path, !.visibility = vis]

\* The end of the transaction: the two columns are written together.
CommitPair(r) ==
  LET u == reqs[r].up
      vis == reqs[r].vis
      new == TargetPath(reqs[r].mem.file, vis) IN
  /\ rows' = [rows EXCEPT ![u] = Retargeted(@, new, vis)]
  /\ lock' = [lock EXCEPT ![u] = Nobody]
  /\ reqs' = [reqs EXCEPT ![r] =
       Holding(@, AfterVisibility(@.purpose), Retargeted(@.mem, new, vis))]

\* An exception: the transaction rolls back, the client gets a 409.
Fail(r) ==
  /\ lock' = [lock EXCEPT ![reqs[r].up] = Nobody]
  /\ Done(r)
  /\ UNCHANGED rows

\* Mutant: the target is not looked at.
CheckFilesBlindly(r) ==
  /\ reqs[r].pc = "locked"
  /\ LET old == reqs[r].mem.file
         new == TargetPath(old, reqs[r].vis) IN
     \/ old = new /\ CommitPair(r)
     \/ old # new /\ ~Exists(old) /\ Exists(new) /\ CommitPair(r)
     \/ old # new /\ ~Exists(old) /\ ~Exists(new) /\ Fail(r)
     \/ old # new /\ Exists(old) /\ GoTo(r, "checked") /\ UNCHANGED <<rows, lock>>
  /\ UNCHANGED <<files, cleaner>>

\* Mutant: the row is saved before the file is moved.
CheckFilesSavingFirst(r) ==
  /\ reqs[r].pc = "locked"
  /\ LET old == reqs[r].mem.file
         new == TargetPath(old, reqs[r].vis) IN
     \/ old = new /\ CommitPair(r)
     \/ old # new /\ ~Exists(old) /\ Exists(new) /\ CommitPair(r)
     \/ old # new /\ (Exists(old) <=> Exists(new)) /\ Fail(r)
     \/ /\ old # new /\ Exists(old) /\ ~Exists(new) /\ GoTo(r, "checked")
        /\ rows' = [rows EXCEPT ![reqs[r].up].file = new]
        /\ UNCHANGED lock
  /\ UNCHANGED <<files, cleaner>>

\* Mutant: an exception leaves the transaction open.
CheckFilesLeaking(r) ==
  /\ reqs[r].pc = "locked"
  /\ LET old == reqs[r].mem.file
         new == TargetPath(old, reqs[r].vis) IN
     \/ old = new /\ CommitPair(r)
     \/ old # new /\ ~Exists(old) /\ Exists(new) /\ CommitPair(r)
     \/ old # new /\ (Exists(old) <=> Exists(new)) /\ Done(r) /\ UNCHANGED <<rows, lock>>
     \/ /\ old # new /\ Exists(old) /\ ~Exists(new) /\ GoTo(r, "checked")
        /\ UNCHANGED <<rows, lock>>
  /\ UNCHANGED <<files, cleaner>>

\* Under the lock: nothing to move; already moved (only the row lags behind);
\* no file or a foreign one in the way; or ready to be moved.
CheckFiles(r) ==
  /\ reqs[r].pc = "locked"
  /\ LET old == reqs[r].mem.file
         new == TargetPath(old, reqs[r].vis) IN
     \/ old = new /\ CommitPair(r)
     \/ old # new /\ ~Exists(old) /\ Exists(new) /\ CommitPair(r)
     \/ old # new /\ (Exists(old) <=> Exists(new)) /\ Fail(r)
     \/ /\ old # new /\ Exists(old) /\ ~Exists(new) /\ GoTo(r, "checked")
        /\ UNCHANGED <<rows, lock>>
  /\ UNCHANGED <<files, cleaner>>

\* os.replace overwrites whatever has come to the target meanwhile.
MoveFile(r) ==
  /\ reqs[r].pc = "checked"
  /\ LET old == reqs[r].mem.file
         new == TargetPath(old, reqs[r].vis) IN
     IF Exists(old)
     THEN /\ files' = [files EXCEPT ![new] = files[old], ![old] = Nobody]
          /\ GoTo(r, "moved")
          /\ UNCHANGED <<rows, lock>>
     ELSE Fail(r) /\ UNCHANGED files
  /\ UNCHANGED cleaner

CommitMove(r) ==
  /\ reqs[r].pc = "moved"
  /\ CommitPair(r)
  /\ UNCHANGED <<files, cleaner>>

\* save(update_fields=["purpose", "updated_at"]) fails when the row is gone.
SavePurpose(r) ==
  /\ reqs[r].pc = "purpose"
  /\ Writable(reqs[r].up, r)
  /\ IF rows[reqs[r].up] = NoRow THEN Done(r) ELSE GoTo(r, "save")
  /\ UNCHANGED <<rows, files, lock, cleaner>>

\* The serializer's save writes every column from memory, after the lock is
\* released, and inserts the row again when it is gone.
SavePatched(r) ==
  /\ reqs[r].pc = "save"
  /\ Writable(reqs[r].up, r)
  /\ rows' = [rows EXCEPT ![reqs[r].up] = reqs[r].mem]
  /\ Done(r)
  /\ UNCHANGED <<files, lock, cleaner>>

-------------------------------------------------------------------------------
(* Deleting, restoring, cleaning up                                        *)

LoadDestroy(r, u) ==
  /\ "destroy" \in Kinds
  /\ reqs[r] = Idle
  /\ rows[u].deleted = "active"
  /\ reqs' = [reqs EXCEPT ![r] = [pc |-> "destroy", up |-> u, mem |-> rows[u]]]
  /\ UNCHANGED <<rows, files, lock, cleaner>>

LoadRestore(r, u) ==
  /\ "restore" \in Kinds
  /\ reqs[r] = Idle
  /\ rows[u].deleted \in {"trashed", "expired"}
  /\ reqs' = [reqs EXCEPT ![r] = [pc |-> "restore", up |-> u, mem |-> rows[u]]]
  /\ UNCHANGED <<rows, files, lock, cleaner>>

\* Mutant: the file goes with the soft deletion.
MarkDeletedEagerly(r) ==
  /\ reqs[r].pc = "destroy"
  /\ Writable(reqs[r].up, r)
  /\ rows' = IF rows[reqs[r].up] = NoRow THEN rows
             ELSE [rows EXCEPT ![reqs[r].up].deleted = "trashed"]
  /\ files' = [files EXCEPT ![reqs[r].mem.file] = Nobody]
  /\ Done(r)
  /\ UNCHANGED <<lock, cleaner>>

\* perform_destroy writes deleted_at alone, and fails when the row is gone.
MarkDeleted(r) ==
  /\ reqs[r].pc = "destroy"
  /\ Writable(reqs[r].up, r)
  /\ rows' = IF rows[reqs[r].up] = NoRow THEN rows
             ELSE [rows EXCEPT ![reqs[r].up].deleted = "trashed"]
  /\ Done(r)
  /\ UNCHANGED <<files, lock, cleaner>>

\* restore writes every column from memory, and inserts a row that is gone.
MarkRestored(r) ==
  /\ reqs[r].pc = "restore"
  /\ Writable(reqs[r].up, r)
  /\ rows' = [rows EXCEPT ![reqs[r].up] = [reqs[r].mem EXCEPT !.deleted = "active"]]
  /\ Done(r)
  /\ UNCHANGED <<files, lock, cleaner>>

\* deleted_at falls behind the cutoff (30 days by default, --days at will).
Expire(u) ==
  /\ "cleanup" \in Kinds
  /\ rows[u].deleted = "trashed"
  /\ rows' = [rows EXCEPT ![u].deleted = "expired"]
  /\ Writable(u, Nobody)
  /\ UNCHANGED <<files, lock, reqs, cleaner>>

StartCleanup ==
  /\ "cleanup" \in Kinds
  /\ cleaner = NotCleaning
  /\ LET old == {u \in Uploads : rows[u].deleted = "expired"} IN
     /\ old # {}
     /\ cleaner' = [pc |-> "files",
                    pending |-> {[up |-> u, file |-> rows[u].file] : u \in old}]
  /\ UNCHANGED <<rows, files, lock, reqs>>

\* upload.file.delete(save=False): a file that is gone is no error.
CleanFile(x) ==
  /\ cleaner.pc = "files"
  /\ x \in cleaner.pending
  /\ files' = [files EXCEPT ![x.file] = Nobody]
  /\ cleaner' = [pc |-> "row", pending |-> cleaner.pending \ {x}, up |-> x.up]
  /\ UNCHANGED <<rows, lock, reqs>>

\* The command is through with one upload and turns to the next.
Cleaned(c) ==
  cleaner' = IF c.pending = {} THEN NotCleaning
             ELSE [pc |-> "files", pending |-> c.pending]

\* upload.delete() removes the row whatever it has become.
CleanRow ==
  /\ cleaner.pc = "row"
  /\ Writable(cleaner.up, Nobody)
  /\ rows' = [rows EXCEPT ![cleaner.up] = NoRow]
  /\ Cleaned(cleaner)
  /\ UNCHANGED <<files, lock, reqs>>

\* except Exception: the deletion of the row failed and is counted.
CleanRowFails ==
  /\ "db_error" \in Kinds
  /\ cleaner.pc = "row"
  /\ Cleaned(cleaner)
  /\ UNCHANGED <<rows, files, lock, reqs>>

-------------------------------------------------------------------------------
(* Reading: what the API shows of an upload, and what a client gets there  *)

Viewers == {"anonymous", "owner", "other", "admin"}

NoUrl == [kind |-> "none"]
ContentUrl == [kind |-> "content"]
MediaUrl(path) == [kind |-> "media", path |-> path]

\* Mutant: the visibility is not looked at.
UrlForAnyone(u, viewer) ==
  IF rows[u].deleted # "active" THEN NoUrl ELSE MediaUrl(rows[u].file)

\* get_url: the URL of the content action, or that of the file itself.
UrlFor(u, viewer) ==
  IF rows[u].deleted # "active" THEN NoUrl
  ELSE IF rows[u].visibility = "public" THEN MediaUrl(rows[u].file)
  ELSE IF viewer \in {"owner", "admin"} THEN ContentUrl ELSE NoUrl

\* The media location, which refuses whatever is under private/.
Serve(path) == IF path.area = "private" THEN Nobody ELSE files[path]

\* GET .../content; Nobody is a 404.
ContentOf(u, viewer) ==
  IF rows[u].deleted = "active" /\ viewer \in {"owner", "admin"}
     /\ rows[u].visibility # "public"
  THEN files[rows[u].file] ELSE Nobody

-------------------------------------------------------------------------------
(* A worker dies: its transaction is rolled back, the files stay.          *)

Crash(r) ==
  /\ "crash" \in Kinds
  /\ reqs[r] # Idle
  /\ Done(r)
  /\ lock' = [u \in Uploads |-> IF lock[u] = r THEN Nobody ELSE lock[u]]
  /\ UNCHANGED <<rows, files, cleaner>>

CrashCleaner ==
  /\ "crash" \in Kinds
  /\ cleaner # NotCleaning
  /\ cleaner' = NotCleaning
  /\ UNCHANGED <<rows, files, lock, reqs>>

-------------------------------------------------------------------------------
Begin(r) ==
  \E u \in Uploads :
    \/ \E vis \in Visibilities, rel \in RelPaths : StoreFile(r, u, vis, rel)
    \/ \E vis \in Visibilities \cup {"keep"}, purpose \in BOOLEAN :
         LoadPatch(r, u, vis, purpose)
    \/ LoadDestroy(r, u)
    \/ LoadRestore(r, u)

Step(r) ==
  \/ InsertRow(r)
  \/ TakeLock(r) \/ CheckFiles(r) \/ MoveFile(r) \/ CommitMove(r)
  \/ SavePurpose(r) \/ SavePatched(r)
  \/ MarkDeleted(r) \/ MarkRestored(r)

Clean ==
  \/ \E u \in Uploads : Expire(u)
  \/ StartCleanup
  \/ \E x \in [up : Uploads, file : Paths] : CleanFile(x)
  \/ CleanRow

Work == (\E r \in Requests : Begin(r) \/ Step(r)) \/ Clean

Next ==
  \/ Work
  \/ \E r \in Requests : Crash(r)
  \/ CleanRowFails \/ CrashCleaner

Spec == Init /\ [][Next]_vars

-------------------------------------------------------------------------------
(* Properties                                                              *)

\* Every variable has its type, and a row is locked exactly while a request
\* is between taking the lock and the end of its transaction.
TypeOK ==
  /\ rows \in [Uploads -> Row \cup {NoRow}]
  /\ files \in [Paths -> Uploads \cup {Nobody}]
  /\ reqs \in [Requests -> Request]
  /\ cleaner \in Cleaner
  /\ lock \in [Uploads -> Requests \cup {Nobody}]
  /\ \A u \in Uploads, r \in Requests :
       lock[u] = r <=> reqs[r].pc \in {"locked", "checked", "moved"} /\ reqs[r].up = u

\* The row of a private upload names a private/ path and the row of a public
\* one does not, also after stale saves: nginx and the content view trust it.
PrefixTracksVisibility ==
  \A u \in Uploads :
    rows[u] # NoRow => rows[u].file.area = rows[u].visibility

\* The other place the file of an upload may be.
Twin(path) == [path EXCEPT !.area = IF @ = "private" THEN "public" ELSE "private"]

\* Whatever updates overlap and whenever workers die, the content of an
\* upload is where its row says or at the same name across the prefix, where
\* the next change of visibility finds it.
ContentRecoverable ==
  \A u \in Uploads :
    rows[u] # NoRow => \E path \in {rows[u].file, Twin(rows[u].file)} : files[path] = u

\* A transaction that writes a new path to a row ends only once the upload's
\* content is at that path.
MovedToFile ==
  \A u \in Uploads :
    lock[u] # Nobody /\ rows'[u] # NoRow /\ rows'[u].file # rows[u].file =>
      files[rows'[u].file] = u

\* At rest every upload that is not being cleaned up has its own content at
\* its path, even when several uploads compete for the same names.
ServedFileIsOwn ==
  (\A r \in Requests : reqs[r] = Idle) =>
    \A u \in Uploads : rows[u].deleted \in {"active", "trashed"} => files[rows[u].file] = u

\* At rest every URL the API shows leads to the upload's own content, and the
\* media location gives out the content of no private upload.
UrlsLeadToContent ==
  (\A r \in Requests : reqs[r] = Idle) =>
    /\ \A u \in Uploads, viewer \in Viewers :
         /\ UrlFor(u, viewer).kind = "content" => ContentOf(u, viewer) = u
         /\ UrlFor(u, viewer).kind = "media" => Serve(UrlFor(u, viewer).path) = u
    /\ \A path \in Paths :
         Serve(path) # Nobody /\ rows[Serve(path)] # NoRow =>
           rows[Serve(path)].visibility = "public"

\* The cleanup deletes the files of soft-deleted uploads, never of others.
CleanupSparesActive ==
  [][\A u \in Uploads :
       rows[u].deleted = "active" /\ files[rows[u].file] = u
         /\ reqs' = reqs => files'[rows[u].file] = u]_vars

===============================================================================
