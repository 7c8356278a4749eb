----------------------------- MODULE MetricIngestion -----------------------------
(***************************************************************************)
(* From the view of a post to its metric record (apps/metrics): the        *)
(* tracking middleware sends an event over the bus to a task, which counts *)
(* it unless its key was added to the cache within the last ttl seconds.   *)
(*                                                                         *)
(* Tasks are acknowledged late and retried after an exception: a view may  *)
(* be processed again by another worker, before or after its key is set.   *)
(* Cache and database are written one after the other, in no transaction.  *)
(***************************************************************************)
EXTENDS Naturals, FiniteSets

CONSTANTS
  Views,       \* requests for posts
  Keys,        \* deduplication keys
  KeyOf,       \* the key of each view's event (generate_key)
  MaxRetries,  \* max_retries of the task
  MaxExpiries, \* bound on how often a key expires
  MaxDeaths    \* bound on the workers that die or are killed

ASSUME ViewsAreFinite == IsFiniteSet(Views)
ASSUME KeyOfViews == KeyOf \in [Views -> Keys]
ASSUME BoundsAreNat == MaxRetries \in Nat /\ MaxExpiries \in Nat /\ MaxDeaths \in Nat

VARIABLES
  task,     \* where each view's event is, and how often it was retried
  keys,     \* the keys in the cache
  cacheUp,  \* whether the cache can be reached
  records,  \* metric records by key
  expired,  \* how often each key has expired
  deaths    \* workers lost so far

vars == <<task, keys, cacheUp, records, expired, deaths>>

-------------------------------------------------------------------------------
Task == [pc : {"new", "untracked", "queued", "running", "adding", "stored", "done", "lost"},
         tries : 0..MaxRetries]

Init ==
  /\ task = [v \in Views |-> [pc |-> "new", tries |-> 0]]
  /\ keys = {}
  /\ cacheUp = TRUE
  /\ records = [k \in Keys |-> 0]
  /\ expired = [k \in Keys |-> 0]
  /\ deaths = 0

Goto(v, pc) == task' = [task EXCEPT ![v].pc = pc]

\* PostViewTrackingMiddleware.__call__
Request == [ok : BOOLEAN, dnt : BOOLEAN, retrieve : BOOLEAN, bot : BOOLEAN]
Tracked(request) == request.ok /\ ~request.dnt /\ request.retrieve /\ ~request.bot

\* The response goes out whether or not the broker took the task.
View(v, request, sent) ==
  /\ task[v].pc = "new"
  /\ Goto(v, IF Tracked(request) /\ sent THEN "queued" ELSE "untracked")
  /\ UNCHANGED <<keys, cacheUp, records, expired, deaths>>

Start(v) ==
  /\ task[v].pc = "queued"
  /\ Goto(v, "running")
  /\ UNCHANGED <<keys, cacheUp, records, expired, deaths>>

\* Mutant: an event counts when the cache does not answer.
DedupOpen(v) ==
  LET k == KeyOf[v] IN
  /\ task[v].pc = "running"
  /\ IF cacheUp THEN keys' = keys \cup {k} ELSE keys' \in {keys, keys \cup {k}}
  /\ Goto(v, IF cacheUp /\ k \in keys THEN "done" ELSE "adding")
  /\ UNCHANGED <<cacheUp, records, expired, deaths>>

\* Mutant: the task waits for the cache.
DedupWaiting(v) ==
  LET k == KeyOf[v] IN
  /\ task[v].pc = "running" /\ cacheUp
  /\ keys' = keys \cup {k}
  /\ Goto(v, IF k \in keys THEN "done" ELSE "adding")
  /\ UNCHANGED <<cacheUp, records, expired, deaths>>

\* is_duplicate: cache.add, which sets the key if it is absent.  With
\* IGNORE_EXCEPTIONS a cache that does not answer makes everything a
\* duplicate, although a command that timed out may have been executed.
Dedup(v) ==
  LET k == KeyOf[v] IN
  /\ task[v].pc = "running"
  /\ IF cacheUp THEN keys' = keys \cup {k} ELSE keys' \in {keys, keys \cup {k}}
  /\ Goto(v, IF cacheUp /\ k \notin keys THEN "adding" ELSE "done")
  /\ UNCHANGED <<cacheUp, records, expired, deaths>>

\* Mutant: the record is built and not saved.
CreateUnsaved(v) ==
  /\ task[v].pc = "adding"
  /\ Goto(v, "stored")
  /\ UNCHANGED <<keys, cacheUp, records, expired, deaths>>

\* MetricRecord.objects.create
Create(v) ==
  /\ task[v].pc = "adding"
  /\ records' = [records EXCEPT ![KeyOf[v]] = @ + 1]
  /\ Goto(v, "stored")
  /\ UNCHANGED <<keys, cacheUp, expired, deaths>>

\* Mutant: one retry too many.
RetriedOnceMore(t) ==
  IF t.tries <= MaxRetries THEN [pc |-> "queued", tries |-> t.tries + 1]
  ELSE [t EXCEPT !.pc = "lost"]

\* autoretry_for, max_retries
Retried(t) ==
  IF t.tries < MaxRetries THEN [pc |-> "queued", tries |-> t.tries + 1]
  ELSE [t EXCEPT !.pc = "lost"]

\* An exception anywhere in the task: the database refuses the record, or the
\* soft time limit strikes, in the call of the cache before or after the key is
\* added, or after the record is stored.
TaskFails(v) ==
  /\ task[v].pc \in {"running", "adding", "stored"}
  /\ task' = [task EXCEPT ![v] = Retried(@)]
  /\ \/ UNCHANGED keys
     \/ task[v].pc = "running" /\ keys' = keys \cup {KeyOf[v]}
  /\ UNCHANGED <<cacheUp, records, expired, deaths>>

Ack(v) ==
  /\ task[v].pc = "stored"
  /\ Goto(v, "done")
  /\ UNCHANGED <<keys, cacheUp, records, expired, deaths>>

\* A worker that dies has not acknowledged, and the broker delivers the task
\* again; one whose child process was killed acknowledges a lost task.
Die(v, pc) ==
  /\ task[v].pc \in {"running", "adding", "stored"}
  /\ deaths < MaxDeaths
  /\ deaths' = deaths + 1
  /\ Goto(v, pc)
  /\ UNCHANGED <<keys, cacheUp, records, expired>>

Expire(k) ==
  /\ k \in keys /\ expired[k] < MaxExpiries
  /\ keys' = keys \ {k}
  /\ expired' = [expired EXCEPT ![k] = @ + 1]
  /\ UNCHANGED <<task, cacheUp, records, deaths>>

CacheToggles ==
  /\ cacheUp' = ~cacheUp
  /\ UNCHANGED <<task, keys, records, expired, deaths>>

Work(v) == Start(v) \/ Dedup(v) \/ Create(v) \/ Ack(v)

Next ==
  \/ \E v \in Views :
       \/ \E request \in Request, sent \in BOOLEAN : View(v, request, sent)
       \/ Work(v)
       \/ TaskFails(v)
       \/ \E pc \in {"queued", "lost"} : Die(v, pc)
  \/ \E k \in Keys : Expire(k)
  \/ CacheToggles

Spec == Init /\ [][Next]_vars

\* The workers keep taking tasks from the queue and going on with them.
FairSpec == Spec /\ \A v \in Views : WF_vars(Work(v))

-------------------------------------------------------------------------------
(* Properties                                                              *)

TypeOK ==
  /\ task \in [Views -> Task]
  /\ keys \subseteq Keys
  /\ cacheUp \in BOOLEAN
  /\ records \in [Keys -> Nat]
  /\ expired \in [Keys -> 0..MaxExpiries]
  /\ deaths \in 0..MaxDeaths

\* The windows of a key that have been opened so far: each addition to the
\* cache opens one, which ends when the key expires.
Windows(k) == expired[k] + (IF k \in keys THEN 1 ELSE 0)

\* A visitor is counted at most once per window (is_duplicate), however often
\* tasks are retried, redelivered or processed at once, and when the cache fails.
OnePerWindow == \A k \in Keys : records[k] <= Windows(k)

\* Every event that was queued is dealt with in the end: retries do not go on
\* for ever (max_retries), nor do deaths.
EveryTaskEnds ==
  \A v \in Views : task[v].pc = "queued" ~> task[v].pc \in {"done", "lost"}

===============================================================================
