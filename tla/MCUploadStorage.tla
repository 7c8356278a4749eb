---------------------------- MODULE MCUploadStorage ----------------------------
(***************************************************************************)
(* Instances of UploadStorage for TLC.  A behaviour is of one scenario:    *)
(*   overlapping  everything at once on one upload: two requests, the      *)
(*                cleanup, crashes, failures of the database;              *)
(*   uncleaned    two requests at once and crashes on two uploads with     *)
(*                different names, and no cleanup;                         *)
(*   serial       one request at a time on three uploads that compete for  *)
(*                two names, and the cleanup at any time; no failure, no   *)
(*                restore.                                                 *)
(* Each restricts the next-state relation of UploadStorage.                *)
(***************************************************************************)
EXTENDS UploadStorage, TLC

CONSTANTS u1, u2, u3, r1, r2, h1, h2, Scenarios

VARIABLE scenario

mcvars == <<vars, scenario>>

\* Content with the same first hash digits: the storage falls back to a
\* second name.
SharedNames == [u \in Uploads |-> RelPaths]

ASSUME NamesDiffer == h1 # h2

\* One upload, or two with names of their own.
OneName == [u \in Uploads |-> IF u = u1 THEN {h1} ELSE {}]
OwnNames == [u \in Uploads |-> IF u = u1 THEN {h1} ELSE IF u = u2 THEN {h2} ELSE {}]

\* Every file has a name of its upload.
Named(names) == \A path \in Paths : files[path] # Nobody => path.rel \in names[files[path]]

\* The requests alone, and workers that die.
RequestsAct == \E r \in Requests : Begin(r) \/ Step(r) \/ Crash(r)

\* Nothing overlaps, and nothing is restored.
Alone == \A r, s \in Requests : reqs[r] # Idle /\ reqs[s] # Idle => r = s
NoRestore == \A r \in Requests : reqs[r].pc # "restore"

MCInit == Init /\ scenario \in Scenarios

MCNext ==
  /\ \/ scenario = "overlapping" /\ Next /\ Named(OneName)'
     \/ scenario = "uncleaned" /\ RequestsAct /\ Named(OwnNames)'
     \/ scenario = "serial" /\ Work /\ Alone' /\ NoRestore'
  /\ UNCHANGED scenario

MCSpec == MCInit /\ [][MCNext]_mcvars

SlotSymmetry == Permutations(Requests)

-------------------------------------------------------------------------------
(* Properties of single scenarios                                          *)

\* Whatever updates overlap and whenever workers die, the content of an
\* upload stays where its row or a change of visibility finds it
\* (UploadService.change_visibility), as long as no cleanup runs.
UncleanedContentRecoverable == scenario = "uncleaned" => ContentRecoverable

\* A change of visibility writes a new path only once the file is there
\* (UploadService.change_visibility), as long as no cleanup runs.
UncleanedMoveFindsFile == [][scenario = "uncleaned" => MovedToFile]_mcvars

\* Uploads that compete for names serve their own content (create_upload,
\* change_visibility), as long as requests do not overlap.
SerialServedFileIsOwn == scenario = "serial" => ServedFileIsOwn

\* The URLs lead to the content and private content has no public one
\* (get_url, content, the media location), as long as requests do not overlap.
SerialUrlsLeadToContent == scenario = "serial" => UrlsLeadToContent

===============================================================================
