-------------------------- MODULE MetricIngestionProofs --------------------------
(***************************************************************************)
(* Theorems about MetricIngestion for any finite number of views, and any  *)
(* keys, retries, expiries and deaths, and about the scenario of           *)
(* MCMetricIngestion in which nothing fails.                               *)
(***************************************************************************)
EXTENDS MCMetricIngestion, FiniteSetTheorems, SequenceTheorems, TLAPS

\* The views whose key was added to the cache and whose record is still due.
Adding(k) == {v \in Views : task[v].pc = "adding" /\ KeyOf[v] = k}

\* Each window pays for one record, stored or due.
WindowsPay == \A k \in Keys : records[k] + Cardinality(Adding(k)) <= Windows(k)

IInv == TypeOK /\ WindowsPay

LEMMA AddingIsFinite ==
  ASSUME IsFiniteSet(Views), NEW k \in Keys
  PROVE  IsFiniteSet(Adding(k)) /\ Cardinality(Adding(k)) \in Nat
<1>1. Adding(k) \subseteq Views
  BY DEF Adding
<1> QED BY <1>1, FS_Subset, FS_CardinalityType

\* A view that is not at work on its record after a step adds nothing.
LEMMA FewerAdding ==
  ASSUME IsFiniteSet(Views), IInv, NEW v \in Views, NEW t \in Task,
         task' = [task EXCEPT ![v] = t], t.pc # "adding", NEW k \in Keys
  PROVE  /\ Cardinality(Adding(k)') \in Nat
         /\ Cardinality(Adding(k)') <= Cardinality(Adding(k))
         /\ task[v].pc = "adding" /\ KeyOf[v] = k =>
              Cardinality(Adding(k)') = Cardinality(Adding(k)) - 1
<1>1. Adding(k)' = Adding(k) \ {v}
  BY DEF Adding, IInv, TypeOK
<1>2. IsFiniteSet(Adding(k))
  BY AddingIsFinite
<1>3. Cardinality(Adding(k) \ {v}) = IF v \in Adding(k) THEN Cardinality(Adding(k)) - 1
                                     ELSE Cardinality(Adding(k))
  BY <1>2, FS_RemoveElement
<1>4. IsFiniteSet(Adding(k) \ {v})
  BY <1>2, FS_RemoveElement
<1>5. Cardinality(Adding(k)) \in Nat /\ Cardinality(Adding(k) \ {v}) \in Nat
  BY <1>2, <1>4, FS_CardinalityType
<1>6. v \in Adding(k) <=> task[v].pc = "adding" /\ KeyOf[v] = k
  BY DEF Adding
<1>7. Cardinality(Adding(k)') = Cardinality(Adding(k) \ {v})
  BY <1>1
<1> QED BY <1>3, <1>5, <1>6, <1>7

LEMMA InitIInv ==
  ASSUME IsFiniteSet(Views), Init
  PROVE  IInv
<1>1. TypeOK
  BY BoundsAreNat DEF Init, TypeOK, Task
<1>2. \A k \in Keys : Adding(k) = {} /\ records[k] = 0 /\ Windows(k) = 0
  BY DEF Init, Adding, Windows
<1> QED BY <1>1, <1>2, FS_EmptySet DEF IInv, WindowsPay

\* A step that moves one task on, adds no window and no record.
LEMMA QuietStep ==
  ASSUME IsFiniteSet(Views), IInv, NEW v \in Views, NEW t \in Task,
         task' = [task EXCEPT ![v] = t], t.pc # "adding",
         records' = records, expired' = expired, keys \subseteq keys', keys' \subseteq Keys,
         cacheUp' \in BOOLEAN, deaths' \in 0..MaxDeaths
  PROVE  IInv'
<1>1. TypeOK'
  BY DEF IInv, TypeOK
<1>2. ASSUME NEW k \in Keys PROVE (records[k] + Cardinality(Adding(k)) <= Windows(k))'
  <2>1. Windows(k) \in Nat /\ Windows(k)' \in Nat /\ Windows(k) <= Windows(k)' /\ records[k] \in Nat
    BY DEF Windows, IInv, TypeOK
  <2>2. records[k] + Cardinality(Adding(k)) <= Windows(k) /\ Cardinality(Adding(k)) \in Nat
    BY AddingIsFinite DEF IInv, WindowsPay
  <2>3. Cardinality(Adding(k)') \in Nat /\ Cardinality(Adding(k)') <= Cardinality(Adding(k))
    BY FewerAdding
  <2> QED BY <2>1, <2>2, <2>3
<1> QED BY <1>1, <1>2 DEF IInv, WindowsPay

LEMMA GotoTask ==
  ASSUME IInv, NEW v \in Views, NEW pc, pc \in {"untracked", "queued", "running", "adding",
         "stored", "done", "lost"}, Goto(v, pc)
  PROVE  \E t \in Task : t.pc = pc /\ task' = [task EXCEPT ![v] = t]
<1>1. task[v] \in Task
  BY DEF IInv, TypeOK
<1>2. [task[v] EXCEPT !.pc = pc] \in Task /\ [task[v] EXCEPT !.pc = pc].pc = pc
  BY <1>1 DEF Task
<1> QED BY <1>2 DEF Goto

\* A step that leaves the tasks alone.
LEMMA SameTasks ==
  ASSUME IInv, task' = task, NEW k \in Keys
  PROVE  Adding(k)' = Adding(k)
BY DEF Adding

LEMMA StepIInv ==
  ASSUME IsFiniteSet(Views), IInv, [Next]_vars
  PROVE  IInv'
<1>1. ASSUME NEW v \in Views, NEW request \in Request, NEW sent \in BOOLEAN,
             View(v, request, sent)
      PROVE  IInv'
  <2>1. PICK t \in Task : t.pc # "adding" /\ task' = [task EXCEPT ![v] = t]
    BY <1>1, GotoTask DEF View
  <2> QED BY <1>1, <2>1, QuietStep DEF View, IInv, TypeOK
<1>2. ASSUME NEW v \in Views, Start(v) PROVE IInv'
  <2>1. PICK t \in Task : t.pc # "adding" /\ task' = [task EXCEPT ![v] = t]
    BY <1>2, GotoTask DEF Start
  <2> QED BY <1>2, <2>1, QuietStep DEF Start, IInv, TypeOK
<1>3. ASSUME NEW v \in Views, Dedup(v) PROVE IInv'
  <2> DEFINE key == KeyOf[v]
  <2>1. key \in Keys
    BY KeyOfViews
  <2>2. CASE cacheUp /\ key \notin keys
    <3>1. PICK t \in Task : t.pc = "adding" /\ task' = [task EXCEPT ![v] = t]
      BY <1>3, <2>2, GotoTask DEF Dedup
    <3>2. keys' = keys \cup {key} /\ UNCHANGED <<cacheUp, records, expired, deaths>>
          /\ task[v].pc = "running"
      BY <1>3, <2>2 DEF Dedup
    <3>3. TypeOK'
      BY <2>1, <3>1, <3>2 DEF IInv, TypeOK
    <3>4. ASSUME NEW k \in Keys PROVE (records[k] + Cardinality(Adding(k)) <= Windows(k))'
      <4>1. records[k] + Cardinality(Adding(k)) <= Windows(k) /\ records[k] \in Nat
            /\ expired[k] \in Nat
        BY DEF IInv, WindowsPay, TypeOK
      <4>2. IsFiniteSet(Adding(k)) /\ Cardinality(Adding(k)) \in Nat
        BY AddingIsFinite
      <4>3. CASE k = key
        <5>1. Adding(k)' = Adding(k) \cup {v} /\ v \notin Adding(k)
          BY <3>1, <3>2, <4>3 DEF Adding, IInv, TypeOK
        <5>2. Cardinality(Adding(k)') = Cardinality(Adding(k)) + 1
          BY <4>2, <5>1, FS_AddElement
        <5>3. Windows(k)' = Windows(k) + 1
          BY <2>2, <3>2, <4>1, <4>3 DEF Windows
        <5>4. Windows(k) \in Nat
          BY <4>1 DEF Windows
        <5> QED BY <3>2, <4>1, <4>2, <5>2, <5>3, <5>4
      <4>4. CASE k # key
        <5>1. Adding(k)' = Adding(k)
          BY <3>1, <3>2, <4>4 DEF Adding, IInv, TypeOK
        <5>2. Windows(k)' = Windows(k)
          BY <3>2, <4>4 DEF Windows
        <5> QED BY <3>2, <4>1, <5>1, <5>2
      <4> QED BY <4>3, <4>4
    <3> QED BY <3>3, <3>4 DEF IInv, WindowsPay
  <2>3. CASE ~(cacheUp /\ key \notin keys)
    <3>1. PICK t \in Task : t.pc # "adding" /\ task' = [task EXCEPT ![v] = t]
      BY <1>3, <2>3, GotoTask DEF Dedup
    <3>2. keys \subseteq keys' /\ keys' \subseteq Keys
      BY <1>3, <2>1 DEF Dedup, IInv, TypeOK
    <3> QED BY <1>3, <3>1, <3>2, QuietStep DEF Dedup, IInv, TypeOK
  <2> QED BY <2>2, <2>3
<1>4. ASSUME NEW v \in Views, Create(v) PROVE IInv'
  <2> DEFINE key == KeyOf[v]
  <2>1. key \in Keys /\ records' = [records EXCEPT ![key] = @ + 1]
        /\ UNCHANGED <<keys, cacheUp, expired, deaths>> /\ task[v].pc = "adding"
    BY <1>4, KeyOfViews DEF Create
  <2>2. PICK t \in Task : t.pc # "adding" /\ task' = [task EXCEPT ![v] = t]
    BY <1>4, GotoTask DEF Create
  <2>3. TypeOK'
    BY <2>1, <2>2 DEF IInv, TypeOK
  <2>4. ASSUME NEW k \in Keys PROVE (records[k] + Cardinality(Adding(k)) <= Windows(k))'
    <3>1. records[k] + Cardinality(Adding(k)) <= Windows(k) /\ records[k] \in Nat
          /\ Windows(k)' = Windows(k) /\ Windows(k) \in Nat
      BY <2>1 DEF IInv, WindowsPay, TypeOK, Windows
    <3>2. Cardinality(Adding(k)) \in Nat
      BY AddingIsFinite
    <3>3. /\ Cardinality(Adding(k)') \in Nat /\ Cardinality(Adding(k)') <= Cardinality(Adding(k))
          /\ k = key => Cardinality(Adding(k)') = Cardinality(Adding(k)) - 1
      BY <2>1, <2>2, FewerAdding
    <3>4. records'[k] = IF k = key THEN records[k] + 1 ELSE records[k]
      BY <2>1 DEF IInv, TypeOK
    <3> QED BY <3>1, <3>2, <3>3, <3>4
  <2> QED BY <2>3, <2>4 DEF IInv, WindowsPay
<1>5. ASSUME NEW v \in Views, TaskFails(v) PROVE IInv'
  <2>1. Retried(task[v]) \in Task /\ Retried(task[v]).pc # "adding"
    BY BoundsAreNat DEF Retried, Task, IInv, TypeOK
  <2>2. task' = [task EXCEPT ![v] = Retried(task[v])]
    BY <1>5 DEF TaskFails
  <2>3. keys \subseteq keys' /\ keys' \subseteq Keys
    BY <1>5, KeyOfViews DEF TaskFails, IInv, TypeOK
  <2> QED BY <1>5, <2>1, <2>2, <2>3, QuietStep DEF TaskFails, IInv, TypeOK
<1>6. ASSUME NEW v \in Views, Ack(v) PROVE IInv'
  <2>1. PICK t \in Task : t.pc # "adding" /\ task' = [task EXCEPT ![v] = t]
    BY <1>6, GotoTask DEF Ack
  <2> QED BY <1>6, <2>1, QuietStep DEF Ack, IInv, TypeOK
<1>7. ASSUME NEW v \in Views, NEW pc \in {"queued", "lost"}, Die(v, pc) PROVE IInv'
  <2>1. PICK t \in Task : t.pc # "adding" /\ task' = [task EXCEPT ![v] = t]
    BY <1>7, GotoTask DEF Die
  <2>2. deaths' \in 0..MaxDeaths
    BY <1>7, BoundsAreNat DEF Die, IInv, TypeOK
  <2> QED BY <1>7, <2>1, <2>2, QuietStep DEF Die, IInv, TypeOK
<1>8. ASSUME NEW key \in Keys, Expire(key) PROVE IInv'
  <2>1. keys' = keys \ {key} /\ key \in keys /\ expired' = [expired EXCEPT ![key] = @ + 1]
        /\ expired[key] < MaxExpiries /\ UNCHANGED <<task, cacheUp, records, deaths>>
    BY <1>8 DEF Expire
  <2>2. TypeOK'
    BY <2>1, BoundsAreNat DEF IInv, TypeOK
  <2>3. \A k \in Keys : Windows(k)' = Windows(k) /\ Adding(k)' = Adding(k)
    BY <2>1, SameTasks, BoundsAreNat DEF Windows, IInv, TypeOK
  <2> QED BY <2>1, <2>2, <2>3 DEF IInv, WindowsPay
<1>9. CASE CacheToggles \/ UNCHANGED vars
  <2>1. UNCHANGED <<task, keys, records, expired, deaths>> /\ cacheUp' \in BOOLEAN
    BY <1>9 DEF CacheToggles, vars, IInv, TypeOK
  <2>2. \A k \in Keys : Windows(k)' = Windows(k) /\ Adding(k)' = Adding(k)
    BY <2>1, SameTasks DEF Windows
  <2> QED BY <2>1, <2>2 DEF IInv, TypeOK, WindowsPay
<1> QED BY <1>1, <1>2, <1>3, <1>4, <1>5, <1>6, <1>7, <1>8, <1>9 DEF Next, Work

\* The inductive invariant holds in every reachable state.
THEOREM Invariant == Spec => []IInv
BY ViewsAreFinite, InitIInv, StepIInv, PTL DEF Spec

\* The tasks stay within their retries, the caches and records keep their types.
THEOREM TypeCorrect == Spec => []TypeOK
<1>1. IInv => TypeOK
  BY DEF IInv
<1> QED BY <1>1, Invariant, PTL

\* A visitor is counted at most once per window of his key.
THEOREM CountedOnce == Spec => []OnePerWindow
<1>1. IInv => OnePerWindow
  <2> SUFFICES ASSUME IInv, NEW k \in Keys PROVE records[k] <= Windows(k)
    BY DEF OnePerWindow
  <2>1. records[k] \in Nat /\ Windows(k) \in Nat
        /\ records[k] + Cardinality(Adding(k)) <= Windows(k)
    BY DEF IInv, TypeOK, WindowsPay, Windows
  <2> QED BY <2>1, ViewsAreFinite, AddingIsFinite
<1> QED BY <1>1, Invariant, PTL

-------------------------------------------------------------------------------
(* Nothing fails                                                           *)

\* A key in the cache has its record or somebody who is about to store it,
\* a record has a view that stored it, and a view that has got as far as the
\* cache has left its key there, unless it has expired.
CalmInv ==
  /\ cacheUp
  /\ \A k \in keys : records[k] > 0 \/ \E v \in Views : task[v].pc = "adding" /\ KeyOf[v] = k
  /\ \A k \in Keys :
       records[k] > 0 => \E v \in Views : task[v].pc \in {"stored", "done"} /\ KeyOf[v] = k
  /\ \A v \in Views :
       task[v].pc \in {"adding", "stored", "done"} /\ expired[KeyOf[v]] = 0 => KeyOf[v] \in keys

ScenarioInv == IInv /\ (scenario = "calm" => CalmInv)

LEMMA CalmInit ==
  ASSUME Init
  PROVE  CalmInv
BY DEF Init, CalmInv

\* A step that touches neither the cache nor the records, and moves no task to
\* or from the points the invariant speaks of.
LEMMA CalmGoto ==
  ASSUME IInv, CalmInv, NEW v \in Views, NEW pc \in {"untracked", "queued", "running"},
         task[v].pc \in {"new", "queued"}, Goto(v, pc),
         UNCHANGED <<keys, cacheUp, records, expired>>
  PROVE  CalmInv'
<1>1. task' = [task EXCEPT ![v] = task'[v]] /\ task'[v].pc = pc
      /\ \A u \in Views : u # v => task'[u] = task[u]
  BY DEF Goto, IInv, TypeOK, Task
<1> QED BY <1>1 DEF CalmInv

LEMMA CalmStep ==
  ASSUME IInv, CalmInv, Next, Calm
  PROVE  CalmInv'
<1>1. ASSUME NEW v \in Views, NEW request \in Request, NEW sent \in BOOLEAN,
             View(v, request, sent)
      PROVE  CalmInv'
  BY <1>1, CalmGoto DEF View
<1>2. ASSUME NEW v \in Views, Start(v) PROVE CalmInv'
  BY <1>2, CalmGoto DEF Start
<1>3. ASSUME NEW v \in Views, Dedup(v) PROVE CalmInv'
  <2>1. KeyOf[v] \in Keys /\ cacheUp
    BY KeyOfViews DEF CalmInv
  <2>2. /\ keys' = keys \cup {KeyOf[v]}
        /\ task'[v].pc = IF KeyOf[v] \in keys THEN "done" ELSE "adding"
        /\ task[v].pc = "running"
        /\ \A u \in Views : u # v => task'[u] = task[u]
        /\ UNCHANGED <<cacheUp, records, expired>>
    BY <1>3, <2>1 DEF Dedup, Goto, IInv, TypeOK, Task
  <2>3. \A u \in Views : task[u].pc \in {"adding", "stored", "done"} => task'[u] = task[u]
    BY <2>2
  <2>4. ASSUME NEW k \in keys'
        PROVE  records'[k] > 0 \/ \E u \in Views : task'[u].pc = "adding" /\ KeyOf[u] = k
    <3>1. CASE k \in keys
      BY <2>2, <2>3, <3>1 DEF CalmInv
    <3>2. CASE k \notin keys
      BY <2>2, <3>2
    <3> QED BY <3>1, <3>2
  <2>5. ASSUME NEW k \in Keys, records'[k] > 0
        PROVE  \E u \in Views : task'[u].pc \in {"stored", "done"} /\ KeyOf[u] = k
    BY <2>2, <2>3, <2>5 DEF CalmInv
  <2>6. ASSUME NEW u \in Views, task'[u].pc \in {"adding", "stored", "done"},
               expired'[KeyOf[u]] = 0
        PROVE  KeyOf[u] \in keys'
    BY <2>2, <2>6 DEF CalmInv
  <2> QED BY <2>1, <2>2, <2>4, <2>5, <2>6 DEF CalmInv
<1>4. ASSUME NEW v \in Views, Create(v) PROVE CalmInv'
  <2>1. KeyOf[v] \in Keys
    BY KeyOfViews
  <2>2. /\ task[v].pc = "adding" /\ task'[v].pc = "stored"
        /\ \A u \in Views : u # v => task'[u] = task[u]
        /\ \A k \in Keys : records'[k] = IF k = KeyOf[v] THEN records[k] + 1 ELSE records[k]
        /\ \A k \in Keys : records[k] \in Nat
        /\ keys \subseteq Keys
        /\ UNCHANGED <<keys, cacheUp, expired>>
    BY <1>4, <2>1 DEF Create, Goto, IInv, TypeOK, Task
  <2>3. ASSUME NEW k \in keys
        PROVE  records'[k] > 0 \/ \E u \in Views : task'[u].pc = "adding" /\ KeyOf[u] = k
    <3>1. CASE k = KeyOf[v]
      BY <2>1, <2>2, <3>1
    <3>2. CASE k # KeyOf[v]
      BY <2>2, <3>2 DEF CalmInv
    <3> QED BY <3>1, <3>2
  <2>4. ASSUME NEW k \in Keys, records'[k] > 0
        PROVE  \E u \in Views : task'[u].pc \in {"stored", "done"} /\ KeyOf[u] = k
    <3>1. CASE k = KeyOf[v]
      BY <2>2, <3>1
    <3>2. CASE k # KeyOf[v]
      <4>1. PICK u \in Views : task[u].pc \in {"stored", "done"} /\ KeyOf[u] = k
        BY <2>2, <2>4, <3>2 DEF CalmInv
      <4> QED BY <2>2, <4>1
    <3> QED BY <3>1, <3>2
  <2>5. ASSUME NEW u \in Views, task'[u].pc \in {"adding", "stored", "done"},
               expired'[KeyOf[u]] = 0
        PROVE  KeyOf[u] \in keys'
    BY <2>2, <2>5 DEF CalmInv
  <2> QED BY <2>2, <2>3, <2>4, <2>5 DEF CalmInv
<1>5. ASSUME NEW v \in Views, TaskFails(v) PROVE FALSE
  BY <1>5 DEF Calm
<1>6. ASSUME NEW v \in Views, Ack(v) PROVE CalmInv'
  <2>1. /\ task[v].pc = "stored" /\ task'[v].pc = "done"
        /\ \A u \in Views : u # v => task'[u] = task[u]
        /\ UNCHANGED <<keys, cacheUp, records, expired>>
    BY <1>6 DEF Ack, Goto, IInv, TypeOK, Task
  <2>2. ASSUME NEW k \in Keys, records'[k] > 0
        PROVE  \E u \in Views : task'[u].pc \in {"stored", "done"} /\ KeyOf[u] = k
    <3>1. PICK u \in Views : task[u].pc \in {"stored", "done"} /\ KeyOf[u] = k
      BY <2>1, <2>2 DEF CalmInv
    <3> QED BY <2>1, <3>1
  <2> QED BY <2>1, <2>2 DEF CalmInv
<1>7. ASSUME NEW v \in Views, NEW pc \in {"queued", "lost"}, Die(v, pc) PROVE FALSE
  BY <1>7 DEF Calm, Die, IInv, TypeOK
<1>8. ASSUME NEW key \in Keys, Expire(key) PROVE CalmInv'
  <2>1. /\ UNCHANGED <<task, cacheUp, records>>
        /\ keys' = keys \ {key}
        /\ \A k \in Keys : expired'[k] = IF k = key THEN expired[k] + 1 ELSE expired[k]
        /\ \A k \in Keys : expired[k] \in Nat
    BY <1>8, BoundsAreNat DEF Expire, IInv, TypeOK
  <2>2. ASSUME NEW v \in Views, task[v].pc \in {"adding", "stored", "done"},
               expired'[KeyOf[v]] = 0
        PROVE  KeyOf[v] \in keys'
    <3>1. KeyOf[v] \in Keys
      BY KeyOfViews
    <3>2. KeyOf[v] # key /\ expired[KeyOf[v]] = 0
      BY <2>1, <2>2, <3>1
    <3> QED BY <2>1, <2>2, <3>2 DEF CalmInv
  <2> QED BY <2>1, <2>2 DEF CalmInv
<1>9. CacheToggles => FALSE
  BY DEF Calm
<1> QED BY <1>1, <1>2, <1>3, <1>4, <1>5, <1>6, <1>7, <1>8, <1>9 DEF Next, Work

-------------------------------------------------------------------------------
(* Keys: what anonymize_ip and generate_key tell apart                     *)

\* Sequences written out.
LEMMA OneAndTwo ==
  ASSUME NEW P, NEW x \in P, NEW y \in P
  PROVE  /\ <<x>> \in Seq(P) /\ Len(<<x>>) = 1
         /\ <<x, y>> \in Seq(P) /\ Len(<<x, y>>) = 2
OBVIOUS

\* A prefix of a sequence.
LEMMA Prefix ==
  ASSUME NEW P, NEW s \in Seq(P), NEW n \in Nat, n <= Len(s)
  PROVE  SubSeq(s, 1, n) \in Seq(P) /\ Len(SubSeq(s, 1, n)) = n
<1>1. Len(s) \in Nat /\ \A i \in 1..n : s[i] \in P
  BY LenProperties
<1>2. 1 \in Int /\ n \in Int
  OBVIOUS
<1> QED BY <1>1, <1>2, SubSeqProperties

\* Two joined sequences are the same if the first ones are as long.
LEMMA SameLength ==
  ASSUME NEW P, NEW a \in Seq(P), NEW b \in Seq(P), NEW c \in Seq(P), NEW d \in Seq(P),
         a \o b = c \o d, Len(a) = Len(c)
  PROVE  a = c /\ b = d
<1>1. /\ Len(a \o b) = Len(a) + Len(b) /\ Len(c \o d) = Len(c) + Len(d)
      /\ \A i \in 1..Len(a) + Len(b) : (a \o b)[i] = IF i <= Len(a) THEN a[i] ELSE b[i - Len(a)]
      /\ \A i \in 1..Len(c) + Len(d) : (c \o d)[i] = IF i <= Len(c) THEN c[i] ELSE d[i - Len(c)]
      /\ Len(a) \in Nat /\ Len(b) \in Nat /\ Len(c) \in Nat /\ Len(d) \in Nat
  BY ConcatProperties, LenProperties
<1>2. Len(b) = Len(d)
  BY <1>1
<1>3. \A i \in 1..Len(a) : a[i] = c[i]
  BY <1>1, <1>2
<1>4. a = c
  BY <1>3, SeqEqual
<1> QED BY <1>4, ConcatSimplifications

\* What is added to a prefix of four groups, and of three bytes.
Tail6 == <<<<"">>, <<"">>>>
Tail4 == <<"0">>

LEMMA TailsArePossible ==
  ASSUME NEW T, Padding(T)
  PROVE  Tail6 \in Seq(Seq(T)) /\ Len(Tail6) = 2 /\ Tail4 \in Seq(T) /\ Len(Tail4) = 1
<1>1. PICK e : e = ""
  BY Zenon
<1>2. PICK z : z = "0"
  BY Zenon
<1>3. e \in T /\ z \in T
  BY <1>1, <1>2, Zenon DEF Padding
<1>4. Tail6 = <<<<e>>, <<e>>>> /\ Tail4 = <<z>>
  BY <1>1, <1>2, Zenon DEF Tail4, Tail6
<1>5. <<e>> \in Seq(T) /\ <<z>> \in Seq(T) /\ Len(<<z>>) = 1
  BY <1>3, OneAndTwo
<1>6. <<<<e>>, <<e>>>> \in Seq(Seq(T)) /\ Len(<<<<e>>, <<e>>>>) = 2
  BY <1>5, OneAndTwo
<1> QED BY <1>4, <1>5, <1>6

\* There is a number of parts to keep of every address.
LEMMA SixHasPrefix ==
  ASSUME NEW ip
  PROVE  \E n \in Nat : n = IF Len(ip) >= 4 THEN 4 ELSE 3
<1>1. 4 \in Nat /\ 3 \in Nat
  OBVIOUS
<1> QED BY <1>1, Zenon

\* What is left of an IPv6 address: its first four parts, or all three of the shortest.
LEMMA PrefixOfSix ==
  ASSUME NEW T, Padding(T), NEW ip \in Ip6(T), NEW n \in Nat,
         n = IF Len(ip) >= 4 THEN 4 ELSE 3
  PROVE  /\ AnonymizeIp(ip) = SubSeq(ip, 1, n) \o Tail6
         /\ SubSeq(ip, 1, n) \in Seq(Seq(T)) /\ Len(SubSeq(ip, 1, n)) = n
         /\ AnonymizeIp(ip) \in Seq(Seq(T)) /\ Len(AnonymizeIp(ip)) = n + 2
         /\ \A i \in 1..n : SubSeq(ip, 1, n)[i] = ip[i]
<1>1. ip \in Seq(Seq(T)) /\ Len(ip) \in 3..8
  BY Zenon DEF Ip6
<1>2. PICK len \in 3..8 : len = Len(ip)
  BY <1>1
<1>3. n <= len /\ 4 \in Nat /\ len # 1 /\ len > 1
  BY <1>2
<1>4. Smaller(4, len) = n
  BY <1>2, SMTT(30) DEF Smaller
<1>5. HasColon(ip)
  BY <1>2, <1>3 DEF HasColon
<1>6. AnonymizeIp(ip) = SubSeq(ip, 1, n) \o Tail6
  <2>1. Network(ip) = SubSeq(ip, 1, Smaller(4, Len(ip))) \o Tail6
    BY Zenon DEF Network, Tail6
  <2>2. AnonymizeIp(ip) = Network(ip)
    BY <1>5, Zenon DEF AnonymizeIp
  <2> QED BY <1>2, <1>4, <2>1, <2>2
<1>7. SubSeq(ip, 1, n) \in Seq(Seq(T)) /\ Len(SubSeq(ip, 1, n)) = n
  BY <1>1, <1>2, <1>3, Prefix
<1>8. \A i \in 1..n : SubSeq(ip, 1, n)[i] = ip[i]
  BY <1>1, <1>2, <1>3
<1>9. Tail6 \in Seq(Seq(T)) /\ Len(Tail6) = 2
  BY TailsArePossible
<1>10. /\ SubSeq(ip, 1, n) \o Tail6 \in Seq(Seq(T))
       /\ Len(SubSeq(ip, 1, n) \o Tail6) = Len(SubSeq(ip, 1, n)) + Len(Tail6)
  BY <1>7, <1>9, ConcatProperties
<1> QED BY <1>6, <1>7, <1>8, <1>9, <1>10

LEMMA PrefixOfFour ==
  ASSUME NEW T, Padding(T), NEW ip \in Ip4(T)
  PROVE  /\ AnonymizeIp(ip) = << NetworkOf(ip) \o Tail4 >> /\ NetworkShown(ip)
         /\ NetworkOf(ip) \in Seq(T) /\ Len(NetworkOf(ip)) = 3
         /\ AnonymizeIp(ip) \in Seq(Seq(T)) /\ Len(AnonymizeIp(ip)) = 1
<1>1. /\ ip \in Seq(Seq(T)) /\ Len(ip) = 1 /\ Len(ip[1]) = 4 /\ ip[1] \in Seq(T)
      /\ 3 <= Len(ip[1]) /\ 3 \in Nat
  <2>1. ip \in Seq(Seq(T)) /\ Len(ip) = 1 /\ Len(ip[1]) = 4
    BY Zenon DEF Ip4
  <2>2. ip \in [1..Len(ip) -> Seq(T)]
    BY <2>1, LenProperties
  <2>3. ip[1] \in Seq(T)
    BY <2>1, <2>2
  <2> QED BY <2>1, <2>3
<1>2. AnonymizeIp(ip) = << NetworkOf(ip) \o Tail4 >> /\ NetworkOf(ip) = SubSeq(ip[1], 1, 3)
  BY <1>1 DEF AnonymizeIp, HasColon, NetworkOf, Tail4
<1>3. NetworkOf(ip) \in Seq(T) /\ Len(NetworkOf(ip)) = 3
  BY <1>1, <1>2, Prefix
<1>4. NetworkOf(ip) \o Tail4 \in Seq(T)
  BY <1>3, TailsArePossible, ConcatProperties
<1>5. NetworkShown(ip)
  BY <1>1 DEF NetworkShown, HasColon
<1> QED BY <1>2, <1>3, <1>4, <1>5, OneAndTwo

\* anonymize_ip gives an address that shows its network the prefix of exactly those
\* that show the same one, whatever other addresses there are.
LEMMA PrefixIsNetwork ==
  ASSUME NEW T, Padding(T), NEW a \in Ip6(T) \cup Ip4(T), NEW b \in Ip6(T) \cup Ip4(T),
         NetworkShown(a)
  PROVE  AnonymizeIp(a) = AnonymizeIp(b) <=> NetworkShown(b) /\ NetworkOf(a) = NetworkOf(b)
<1>1. ASSUME NEW x \in Ip6(T)
      PROVE  /\ HasColon(x) /\ Len(x) \in Nat
             /\ NetworkShown(x) <=> Len(x) >= 4 /\ \A i \in 1..4 : x[i] # Gap
             /\ NetworkOf(x) = SubSeq(x, 1, 4)
  <2>1. Len(x) \in 3..8
    BY <1>1, Zenon DEF Ip6
  <2>2. HasColon(x)
    BY <2>1, SMTT(30) DEF HasColon
  <2> HIDE DEF HasColon
  <2> QED BY <2>1, <2>2 DEF NetworkShown, NetworkOf
<1>2. CASE a \in Ip6(T) /\ b \in Ip6(T)
  <2>1. /\ Len(a) >= 4 /\ \A i \in 1..4 : a[i] # Gap
        /\ NetworkOf(a) = SubSeq(a, 1, 4)
    BY <1>1, <1>2
  <2>2. /\ AnonymizeIp(a) = NetworkOf(a) \o Tail6 /\ Len(AnonymizeIp(a)) = 6
        /\ NetworkOf(a) \in Seq(Seq(T)) /\ \A i \in 1..4 : NetworkOf(a)[i] = a[i]
    <3>1. PICK n \in Nat : n = 4 /\ n = IF Len(a) >= 4 THEN 4 ELSE 3
      BY <2>1
    <3>2. /\ AnonymizeIp(a) = SubSeq(a, 1, n) \o Tail6 /\ Len(AnonymizeIp(a)) = n + 2
          /\ SubSeq(a, 1, n) \in Seq(Seq(T)) /\ \A i \in 1..n : SubSeq(a, 1, n)[i] = a[i]
      BY <1>2, <3>1, PrefixOfSix
    <3> QED BY <2>1, <3>1, <3>2
  <2>3. CASE Len(b) >= 4
    <3>1. /\ AnonymizeIp(b) = NetworkOf(b) \o Tail6
          /\ NetworkOf(b) \in Seq(Seq(T)) /\ \A i \in 1..4 : NetworkOf(b)[i] = b[i]
      <4>1. PICK n \in Nat : n = 4 /\ n = IF Len(b) >= 4 THEN 4 ELSE 3
        BY <2>3
      <4>2. /\ AnonymizeIp(b) = SubSeq(b, 1, n) \o Tail6
            /\ SubSeq(b, 1, n) \in Seq(Seq(T)) /\ \A i \in 1..n : SubSeq(b, 1, n)[i] = b[i]
        BY <1>2, <4>1, PrefixOfSix
      <4>3. NetworkOf(b) = SubSeq(b, 1, n)
        BY <1>1, <1>2, <4>1
      <4> QED BY <4>1, <4>2, <4>3
    <3>2. Tail6 \in Seq(Seq(T))
      BY TailsArePossible
    <3>3. NetworkOf(a) \o Tail6 = NetworkOf(b) \o Tail6 => NetworkOf(a) = NetworkOf(b)
      BY <2>2, <3>1, <3>2, ConcatSimplifications
    <3>4. NetworkOf(a) = NetworkOf(b) => \A i \in 1..4 : b[i] # Gap
      BY <2>1, <2>2, <3>1
    <3>5. NetworkOf(a) = NetworkOf(b) => NetworkShown(b)
      BY <1>1, <1>2, <2>3, <3>4
    <3> QED BY <2>2, <3>1, <3>3, <3>5
  <2>4. CASE ~(Len(b) >= 4)
    <3>1. Len(AnonymizeIp(b)) = 5
      <4>1. PICK n \in Nat : n = 3 /\ n = IF Len(b) >= 4 THEN 4 ELSE 3
        BY <2>4
      <4>2. Len(AnonymizeIp(b)) = n + 2
        BY <1>2, <4>1, PrefixOfSix
      <4> QED BY <4>1, <4>2
    <3>2. ~NetworkShown(b)
      BY <1>1, <1>2, <2>4
    <3>3. Len(AnonymizeIp(a)) = 6
      BY <2>2
    <3>4. AnonymizeIp(a) # AnonymizeIp(b)
      BY <3>1, <3>3
    <3> QED BY <3>2, <3>4
  <2> QED BY <2>3, <2>4
<1>3. CASE a \in Ip4(T) /\ b \in Ip4(T)
  <2>1. /\ AnonymizeIp(a) = << NetworkOf(a) \o Tail4 >>
        /\ AnonymizeIp(b) = << NetworkOf(b) \o Tail4 >>
        /\ NetworkOf(a) \in Seq(T) /\ NetworkOf(b) \in Seq(T) /\ NetworkShown(b)
    BY <1>3, PrefixOfFour
  <2>2. NetworkOf(a) \o Tail4 = NetworkOf(b) \o Tail4 => NetworkOf(a) = NetworkOf(b)
    BY <2>1, TailsArePossible, ConcatSimplifications
  <2>3. AnonymizeIp(a)[1] = NetworkOf(a) \o Tail4 /\ AnonymizeIp(b)[1] = NetworkOf(b) \o Tail4
    BY <2>1
  <2> QED BY <2>1, <2>2, <2>3
<1>4. ASSUME NEW x \in Ip6(T), NEW y \in Ip4(T)
      PROVE  /\ AnonymizeIp(x) # AnonymizeIp(y)
             /\ NetworkShown(x) => NetworkOf(x) # NetworkOf(y)
  <2>1. Len(AnonymizeIp(x)) # 1
    <3>1. PICK n \in Nat : n = IF Len(x) >= 4 THEN 4 ELSE 3
      BY SixHasPrefix
    <3>2. Len(AnonymizeIp(x)) = n + 2
      BY <3>1, PrefixOfSix, ZenonT(60)
    <3> QED BY <3>2
  <2>2. NetworkShown(x) => Len(NetworkOf(x)) = 4
    BY <1>1, PrefixOfSix
  <2>3. Len(AnonymizeIp(y)) = 1 /\ Len(NetworkOf(y)) = 3
    BY PrefixOfFour
  <2> QED BY <2>1, <2>2, <2>3
<1> QED BY <1>2, <1>3, <1>4

LEMMA PrefixIsText ==
  ASSUME NEW T, Padding(T), NEW ip \in Ip6(T) \cup Ip4(T)
  PROVE  AnonymizeIp(ip) \in Seq(Seq(T))
<1>1. PICK n \in Nat : n = IF Len(ip) >= 4 THEN 4 ELSE 3
  BY SixHasPrefix
<1> QED BY <1>1, PrefixOfSix, PrefixOfFour

\* One round of the loop over the fields.
Round(event, joined) ==
  [i \in 0..Len(Fields) |-> IF i = 0 THEN <<>> ELSE joined[i - 1] \o event[Fields[i]]]

LEMMA FieldsAre ==
  /\ Len(Fields) = 5
  /\ Fields[1] = "post_slug" /\ Fields[2] = "ip_prefix" /\ Fields[3] = "browser"
  /\ Fields[4] = "os" /\ Fields[5] = "device"
BY DEF Fields

\* The loop is a fixed point of its rounds: what it ends with, and that there is one.
LEMMA RoundFixed ==
  ASSUME NEW event, NEW j, j = Round(event, j)
  PROVE  j[5] = ((((<<>> \o event["post_slug"]) \o event["ip_prefix"]) \o event["browser"])
                  \o event["os"]) \o event["device"]
<1>1. \A i \in 0..5 : j[i] = IF i = 0 THEN <<>> ELSE j[i - 1] \o event[Fields[i]]
  <2>1. \A i \in 0..5 : Round(event, j)[i] = IF i = 0 THEN <<>> ELSE j[i - 1] \o event[Fields[i]]
    BY FieldsAre DEF Round
  <2> QED BY <2>1
<1>2. 1 - 1 = 0 /\ 2 - 1 = 1 /\ 3 - 1 = 2 /\ 4 - 1 = 3 /\ 5 - 1 = 4
  OBVIOUS
<1>3. {0, 1, 2, 3, 4, 5} \subseteq 0..5 /\ 1 # 0 /\ 2 # 0 /\ 3 # 0 /\ 4 # 0 /\ 5 # 0
  OBVIOUS
<1>4. /\ j[0] = <<>>
      /\ j[1] = j[1 - 1] \o event[Fields[1]]
      /\ j[2] = j[2 - 1] \o event[Fields[2]]
      /\ j[3] = j[3 - 1] \o event[Fields[3]]
      /\ j[4] = j[4 - 1] \o event[Fields[4]]
      /\ j[5] = j[5 - 1] \o event[Fields[5]]
  BY <1>1, <1>3, Zenon
<1> QED BY <1>2, <1>4, FieldsAre, Zenon

LEMMA RoundHasFixpoint ==
  ASSUME NEW event
  PROVE  \E j : j = Round(event, j)
<1>1. PICK a1 : a1 = <<>> \o event["post_slug"]
  OBVIOUS
<1>2. PICK a2 : a2 = a1 \o event["ip_prefix"]
  OBVIOUS
<1>3. PICK a3 : a3 = a2 \o event["browser"]
  OBVIOUS
<1>4. PICK a4 : a4 = a3 \o event["os"]
  OBVIOUS
<1>5. PICK a5 : a5 = a4 \o event["device"]
  OBVIOUS
<1>6. PICK h : h = [i \in 0..5 |-> IF i = 0 THEN <<>> ELSE IF i = 1 THEN a1 ELSE
                     IF i = 2 THEN a2 ELSE IF i = 3 THEN a3 ELSE IF i = 4 THEN a4 ELSE a5]
  OBVIOUS
<1>7. h[0] = <<>> /\ h[1] = a1 /\ h[2] = a2 /\ h[3] = a3 /\ h[4] = a4 /\ h[5] = a5
  BY <1>6
<1>8. ASSUME NEW i \in 0..5
      PROVE  h[i] = IF i = 0 THEN <<>> ELSE h[i - 1] \o event[Fields[i]]
  <2>1. i = 0 \/ i = 1 \/ i = 2 \/ i = 3 \/ i = 4 \/ i = 5
    OBVIOUS
  <2>2. 1 - 1 = 0 /\ 2 - 1 = 1 /\ 3 - 1 = 2 /\ 4 - 1 = 3 /\ 5 - 1 = 4
    OBVIOUS
  <2>3. CASE i = 0
    BY <2>3, <1>7
  <2>4. CASE i = 1
    <3>1. h[i] = h[i - 1] \o event[Fields[i]]
      BY <2>4, <2>2, <1>1, <1>7, FieldsAre, Zenon
    <3> QED BY <3>1, <2>4
  <2>5. CASE i = 2
    <3>1. h[i] = h[i - 1] \o event[Fields[i]]
      BY <2>5, <2>2, <1>2, <1>7, FieldsAre, Zenon
    <3> QED BY <3>1, <2>5
  <2>6. CASE i = 3
    <3>1. h[i] = h[i - 1] \o event[Fields[i]]
      BY <2>6, <2>2, <1>3, <1>7, FieldsAre, Zenon
    <3> QED BY <3>1, <2>6
  <2>7. CASE i = 4
    <3>1. h[i] = h[i - 1] \o event[Fields[i]]
      BY <2>7, <2>2, <1>4, <1>7, FieldsAre, Zenon
    <3> QED BY <3>1, <2>7
  <2>8. CASE i = 5
    <3>1. h[i] = h[i - 1] \o event[Fields[i]]
      BY <2>8, <2>2, <1>5, <1>7, FieldsAre, Zenon
    <3> QED BY <3>1, <2>8
  <2> QED BY <2>1, <2>3, <2>4, <2>5, <2>6, <2>7, <2>8
<1>9. h = [i \in 0..5 |-> h[i]]
  BY <1>6
<1>10. h = Round(event, h)
  BY <1>8, <1>9, FieldsAre DEF Round
<1> QED BY <1>10

\* generate_key joins the configured fields in their order.
LEMMA KeyIsJoined ==
  ASSUME NEW event
  PROVE  GenerateKey(event) =
           ((((<<>> \o event["post_slug"]) \o event["ip_prefix"]) \o event["browser"])
             \o event["os"]) \o event["device"]
<1> DEFINE j == CHOOSE g : g = Round(event, g)
<1>1. GenerateKey(event) = j[Len(Fields)]
  BY DEF GenerateKey, Round
<1>2. j = Round(event, j)
  BY RoundHasFixpoint
<1> HIDE DEF j
<1> QED BY <1>1, <1>2, RoundFixed, FieldsAre

\* Or the last ones.
LEMMA SameEnd ==
  ASSUME NEW P, NEW a \in Seq(P), NEW b \in Seq(P), NEW c \in Seq(P), NEW d \in Seq(P),
         a \o b = c \o d, Len(b) = Len(d)
  PROVE  a = c /\ b = d
<1>1. /\ Len(a \o b) = Len(a) + Len(b) /\ Len(c \o d) = Len(c) + Len(d)
      /\ Len(a) \in Nat /\ Len(b) \in Nat /\ Len(c) \in Nat /\ Len(d) \in Nat
  BY ConcatProperties, LenProperties
<1>2. Len(a) = Len(c)
  BY <1>1
<1> QED BY <1>2, SameLength

\* z is a followed by b; z is the five fields of a key one after the other.
Joins(z, a, b) == z = a \o b
JoinsFields(z, a1, a2, a3, a4, a5) == z = ((((<<>> \o a1) \o a2) \o a3) \o a4) \o a5

\* The same with the values in between.
JoinsStepwise(T, z, a1, a2, a3, a4, a5) ==
  \E x2, x3, x4 \in Seq(Seq(T)) :
    x2 = a1 \o a2 /\ Joins(x3, x2, a3) /\ Joins(x4, x3, a4) /\ Joins(z, x4, a5)

\* The last field, of one part, can be told from what is before it.
LEMMA LastWord ==
  ASSUME NEW T, NEW z, NEW a \in Seq(Seq(T)), NEW b \in Words(T), NEW c \in Seq(Seq(T)),
         NEW d \in Words(T), Joins(z, a, b), Joins(z, c, d)
  PROVE  a = c /\ b = d
<1>1. b \in Seq(Seq(T)) /\ d \in Seq(Seq(T)) /\ Len(b) = 1 /\ Len(d) = 1
  BY Zenon DEF Words
<1>2. a \o b = c \o d
  BY DEF Joins
<1> QED BY <1>1, <1>2, SameEnd

LEMMA JoinedParts ==
  ASSUME NEW T, NEW z, NEW a \in Seq(Seq(T)), NEW b \in Words(T), Joins(z, a, b)
  PROVE  z \in Seq(Seq(T))
<1>1. b \in Seq(Seq(T))
  BY Zenon DEF Words
<1> QED BY <1>1, ConcatProperties DEF Joins

LEMMA FieldsJoined ==
  ASSUME NEW T, NEW z, NEW a1 \in Words(T), NEW a2 \in Seq(Seq(T)), NEW a3 \in Words(T),
         NEW a4 \in Words(T), NEW a5 \in Words(T), JoinsFields(z, a1, a2, a3, a4, a5)
  PROVE  JoinsStepwise(T, z, a1, a2, a3, a4, a5)
<1>1. a1 \in Seq(Seq(T))
  BY Zenon DEF Words
<1>2. PICK x2 : x2 = a1 \o a2
  OBVIOUS
<1>3. PICK x3 : x3 = x2 \o a3
  OBVIOUS
<1>4. PICK x4 : x4 = x3 \o a4
  OBVIOUS
<1>5. <<>> \o a1 = a1
  BY <1>1, ConcatEmptySeq
<1>6. Joins(x3, x2, a3) /\ Joins(x4, x3, a4) /\ Joins(z, x4, a5)
  BY <1>2, <1>3, <1>4, <1>5, Zenon DEF Joins, JoinsFields
<1>7. x2 \in Seq(Seq(T))
  BY <1>1, <1>2, ConcatProperties
<1>8. x3 \in Seq(Seq(T)) /\ x4 \in Seq(Seq(T))
  BY <1>6, <1>7, JoinedParts
<1> QED BY <1>2, <1>6, <1>7, <1>8 DEF JoinsStepwise

LEMMA FieldsApart ==
  ASSUME NEW T, NEW z,
         NEW a1 \in Words(T), NEW a2 \in Seq(Seq(T)), NEW a3 \in Words(T), NEW a4 \in Words(T),
         NEW a5 \in Words(T), JoinsFields(z, a1, a2, a3, a4, a5),
         NEW b1 \in Words(T), NEW b2 \in Seq(Seq(T)), NEW b3 \in Words(T), NEW b4 \in Words(T),
         NEW b5 \in Words(T), JoinsFields(z, b1, b2, b3, b4, b5)
  PROVE  a1 = b1 /\ a2 = b2 /\ a3 = b3 /\ a4 = b4 /\ a5 = b5
<1>1. PICK x2, x3, x4 \in Seq(Seq(T)) :
        x2 = a1 \o a2 /\ Joins(x3, x2, a3) /\ Joins(x4, x3, a4) /\ Joins(z, x4, a5)
  <2>1. JoinsStepwise(T, z, a1, a2, a3, a4, a5)
    BY FieldsJoined
  <2> QED BY <2>1 DEF JoinsStepwise
<1>2. PICK y2, y3, y4 \in Seq(Seq(T)) :
        y2 = b1 \o b2 /\ Joins(y3, y2, b3) /\ Joins(y4, y3, b4) /\ Joins(z, y4, b5)
  <2>1. JoinsStepwise(T, z, b1, b2, b3, b4, b5)
    BY FieldsJoined
  <2> QED BY <2>1 DEF JoinsStepwise
<1>3. x4 = y4 /\ a5 = b5
  BY <1>1, <1>2, LastWord
<1>4. x3 = y3 /\ a4 = b4
  BY <1>1, <1>2, <1>3, LastWord
<1>5. x2 = y2 /\ a3 = b3
  BY <1>1, <1>2, <1>4, LastWord
<1>6. a1 \in Seq(Seq(T)) /\ b1 \in Seq(Seq(T)) /\ Len(a1) = 1 /\ Len(b1) = 1
  BY Zenon DEF Words
<1>7. a1 = b1 /\ a2 = b2
  BY <1>1, <1>2, <1>5, <1>6, SameLength
<1> QED BY <1>3, <1>4, <1>5, <1>7

\* A request whose address shows its network has the key of exactly those requests
\* that are for the same post, from the same network, shown, and with the same agent
\* (anonymize_ip, generate_key): the parts joined with ":" can be told apart again,
\* for any texts and any addresses, shortened or not.
THEOREM KeysAreOfVisitors ==
  ASSUME NEW T, Padding(T), NEW p \in PostRequests(T), NEW q \in PostRequests(T),
         NetworkShown(p.ip)
  PROVE  KeyOfRequest(p) = KeyOfRequest(q) <=>
           /\ NetworkShown(q.ip)
           /\ p.slug = q.slug /\ NetworkOf(p.ip) = NetworkOf(q.ip)
           /\ p.browser = q.browser /\ p.os = q.os /\ p.device = q.device
<1>1. ASSUME NEW r \in PostRequests(T)
      PROVE  /\ r.slug \in Words(T) /\ r.browser \in Words(T) /\ r.os \in Words(T)
             /\ r.device \in Words(T) /\ AnonymizeIp(r.ip) \in Seq(Seq(T))
             /\ r.ip \in Ip6(T) \cup Ip4(T)
  <2>1. /\ r.slug \in Words(T) /\ r.browser \in Words(T) /\ r.os \in Words(T)
        /\ r.device \in Words(T) /\ r.ip \in Ip6(T) \cup Ip4(T)
    BY DEF PostRequests
  <2> QED BY <2>1, PrefixIsText
<1>2. ASSUME NEW r \in PostRequests(T)
      PROVE  JoinsFields(KeyOfRequest(r), r.slug, AnonymizeIp(r.ip), r.browser,
                         r.os, r.device)
  <2>1. PICK e : e = PostViewEvent(r)
    OBVIOUS
  <2>2. /\ e["post_slug"] = r.slug /\ e["ip_prefix"] = AnonymizeIp(r.ip)
        /\ e["browser"] = r.browser /\ e["os"] = r.os /\ e["device"] = r.device
    BY <2>1 DEF PostViewEvent
  <2> QED BY <2>1, <2>2, KeyIsJoined DEF JoinsFields, KeyOfRequest
<1>3. ASSUME KeyOfRequest(p) = KeyOfRequest(q)
      PROVE  /\ p.slug = q.slug /\ AnonymizeIp(p.ip) = AnonymizeIp(q.ip)
             /\ p.browser = q.browser /\ p.os = q.os /\ p.device = q.device
  <2>1. PICK z : z = KeyOfRequest(p)
    OBVIOUS
  <2>2. /\ JoinsFields(z, p.slug, AnonymizeIp(p.ip), p.browser, p.os, p.device)
        /\ JoinsFields(z, q.slug, AnonymizeIp(q.ip), q.browser, q.os, q.device)
    BY <1>2, <1>3, <2>1
  <2> QED BY <1>1, <2>2, FieldsApart
<1>4. ASSUME /\ p.slug = q.slug /\ AnonymizeIp(p.ip) = AnonymizeIp(q.ip)
             /\ p.browser = q.browser /\ p.os = q.os /\ p.device = q.device
      PROVE  KeyOfRequest(p) = KeyOfRequest(q)
  BY <1>2, <1>4 DEF JoinsFields
<1>5. AnonymizeIp(p.ip) = AnonymizeIp(q.ip) <=>
        NetworkShown(q.ip) /\ NetworkOf(p.ip) = NetworkOf(q.ip)
  BY <1>1, PrefixIsNetwork
<1> QED BY <1>3, <1>4, <1>5

\* A view whose address shows its network has the key of exactly the views that are
\* by the same visitor.
LEMMA KeysTellVisitors ==
  ASSUME NEW u \in Views, NEW v \in Views, NetworkShown(RequestOf[u].ip)
  PROVE  KeyOf[v] = KeyOf[u] <=> NetworkShown(RequestOf[v].ip) /\ Visitor(v) = Visitor(u)
<1>1. PICK p, q \in PostRequests(Texts) : p = RequestOf[u] /\ q = RequestOf[v]
  BY RequestsAreValid
<1>2. KeyOf[u] = KeyOf[v] <=> KeyOfRequest(p) = KeyOfRequest(q)
  BY <1>1, KeysAreOfEvents
<1>3. KeyOfRequest(p) = KeyOfRequest(q) <=>
        /\ NetworkShown(q.ip)
        /\ p.slug = q.slug /\ NetworkOf(p.ip) = NetworkOf(q.ip)
        /\ p.browser = q.browser /\ p.os = q.os /\ p.device = q.device
  BY <1>1, PaddingIsText, KeysAreOfVisitors
<1> QED BY <1>1, <1>2, <1>3 DEF Visitor

-------------------------------------------------------------------------------
(* Counting visitors                                                       *)

\* In the end every key that was tracked has one record, and no other has any.
LEMMA CalmCounts ==
  ASSUME IInv, CalmInv, expired = [k \in Keys |-> 0],
         \A v \in Views : task[v].pc \in {"new", "untracked", "done"}, NEW k \in Keys
  PROVE  records[k] = IF \E v \in {u \in Views : task[u].pc = "done"} : KeyOf[v] = k
                      THEN 1 ELSE 0
<1>1. records[k] \in Nat /\ records[k] <= 1
  <2>1. records[k] \in Nat /\ Windows(k) \in Nat /\ Windows(k) <= 1
        /\ records[k] + Cardinality(Adding(k)) <= Windows(k)
    BY DEF IInv, TypeOK, WindowsPay, Windows
  <2> QED BY <2>1, ViewsAreFinite, AddingIsFinite
<1>2. records[k] > 0 => \E v \in Views : task[v].pc = "done" /\ KeyOf[v] = k
  BY DEF CalmInv
<1>3. ASSUME NEW v \in Views, task[v].pc = "done", KeyOf[v] = k PROVE records[k] > 0
  <2>1. k \in keys
    BY <1>3 DEF CalmInv
  <2> QED BY <2>1 DEF CalmInv
<1> QED BY <1>1, <1>2, <1>3

\* The inductive invariants of both scenarios hold in every reachable state.
THEOREM ScenarioInductive == MCSpec => []ScenarioInv
<1>1. MCInit => ScenarioInv
  BY ViewsAreFinite, InitIInv, CalmInit DEF MCInit, ScenarioInv
<1>2. ASSUME ScenarioInv, [MCNext]_mcvars PROVE ScenarioInv'
  <2>1. [Next]_vars /\ UNCHANGED scenario
    BY <1>2 DEF MCNext, mcvars
  <2>2. IInv'
    BY <1>2, <2>1, ViewsAreFinite, StepIInv DEF ScenarioInv
  <2>3. ASSUME scenario = "calm" PROVE CalmInv'
    <3>1. CASE UNCHANGED vars
      BY <1>2, <2>3, <3>1 DEF ScenarioInv, CalmInv, vars
    <3>2. CASE Next /\ Calm
      BY <1>2, <2>3, <3>2, CalmStep DEF ScenarioInv
    <3> QED BY <1>2, <2>3, <3>1, <3>2 DEF MCNext, mcvars
  <2> QED BY <2>1, <2>2, <2>3 DEF ScenarioInv
<1> QED BY <1>1, <1>2, PTL DEF MCSpec

\* Nothing fails and no key expires: there is one record for every key, and every
\* visitor whose address shows its network has one of his own, for any views from
\* any addresses.
THEOREM OneRecordPerVisitor == MCSpec => []VisitorsCountedOnce
<1>1. ScenarioInv => VisitorsCountedOnce
  BY CalmCounts, KeysTellVisitors DEF ScenarioInv, VisitorsCountedOnce
<1> QED BY <1>1, ScenarioInductive, PTL

===============================================================================
