------------------------------ MODULE SlugSaveProofs ------------------------------
(***************************************************************************)
(* Theorems about SlugSave for any number of rows, rivals and retries.     *)
(***************************************************************************)
EXTENDS MCSlugSave, FiniteSetTheorems, TLAPS

\* What save s owes to its rivals: a commit for every attempt it has lost,
\* one more when its present choice has been taken, and none for the first
\* attempt with a given slug.
Lost(s) ==
  savers[s].failures
    + (IF \/ savers[s].pc = "conflict" /\ savers[s].error = "slug"
          \/ /\ savers[s].pc \in {"write", "conflict"}
             /\ Exists(savers[s].slug, savers[s].row)
       THEN 1 ELSE 0)

Credit(s) == IF savers[s].given THEN 1 ELSE 0

LossesAreRivals ==
  \A s \in Savers : savers[s] # Idle => Lost(s) <= commits + Credit(s)

\* A give-up comes after exactly MaxRetries losses, any other state before.
FailuresBounded ==
  \A s \in Savers : savers[s] # Idle =>
    /\ savers[s].failures <= MaxRetries
    /\ savers[s].pc = "exhausted" => savers[s].failures = MaxRetries
    /\ savers[s].pc # "exhausted" => savers[s].failures < MaxRetries

IInv == TypeOK /\ LossesAreRivals /\ FailuresBounded

LEMMA CandidateIsSlug ==
  ASSUME NEW base \in Bases, NEW k \in Nat
  PROVE  Candidate(base, k) \in Slugs
BY BasesAreSlugs DEF Candidate, Slugs

\* The part of the invariant about one slot.
SlotSound(s) ==
  /\ savers[s] \in {Idle} \cup Save
  /\ savers[s] # Idle =>
       /\ Lost(s) <= commits + Credit(s)
       /\ savers[s].failures <= MaxRetries
       /\ savers[s].pc = "exhausted" => savers[s].failures = MaxRetries
       /\ savers[s].pc # "exhausted" => savers[s].failures < MaxRetries

\* A busy slot has lost no more than it owes, and losing adds at most one.
LEMMA LostRange ==
  ASSUME NEW s \in Savers, savers[s] \in Save
  PROVE  /\ Lost(s) \in Nat /\ Credit(s) \in Nat
         /\ savers[s].failures <= Lost(s) /\ Lost(s) <= savers[s].failures + 1
BY DEF Lost, Credit, Save

\* A step of slot r that keeps the table and leaves r sound keeps the invariant.
LEMMA OwnStep ==
  ASSUME IInv, NEW r \in Savers, NEW q, savers' = [savers EXCEPT ![r] = q],
         table' = table, commits' = commits, starts' \in 0..MaxStarts, SlotSound(r)'
  PROVE  IInv'
<1>1. \A s \in Savers : s # r => savers'[s] = savers[s]
  BY DEF IInv, TypeOK
<1>2. savers' \in [Savers -> {Idle} \cup Save]
  BY DEF IInv, TypeOK, SlotSound
<1>3. ASSUME NEW s \in Savers, s # r PROVE Lost(s)' = Lost(s) /\ Credit(s)' = Credit(s)
  BY <1>1, <1>3 DEF Lost, Credit, Exists
<1> QED BY <1>1, <1>2, <1>3 DEF IInv, TypeOK, LossesAreRivals, FailuresBounded, SlotSound

\* A commit or a removal changes the table under everybody's feet.
LEMMA TableStep ==
  ASSUME IInv, NEW s \in Savers, savers'[s] = savers[s], savers[s] # Idle,
         commits' = commits + 1
  PROVE  (Lost(s) <= commits + Credit(s))'
<1>1. savers[s] \in Save /\ commits \in Nat
  BY DEF IInv, TypeOK
<1>2. savers[s].failures <= commits + Credit(s)
  BY <1>1, LostRange DEF IInv, LossesAreRivals, Save
<1>3. Credit(s)' = Credit(s) /\ Credit(s) \in Nat /\ savers[s].failures \in Nat
  BY <1>1 DEF Credit, Save
<1>4. Lost(s)' <= savers[s].failures + 1 /\ Lost(s)' \in Nat
  BY <1>1, <1>3 DEF Lost
<1> QED BY <1>1, <1>2, <1>3, <1>4

LEMMA InitIInv == Init => IInv
BY MaxStartsIsNat DEF Init, IInv, TypeOK, LossesAreRivals, FailuresBounded, NoSlug, Slugs

\* A save that begins owes nothing.
LEMMA StartStep ==
  ASSUME IInv, NEW r \in Savers, Begin(r)
  PROVE  IInv'
<1>1. ASSUME NEW p \in Rows, NEW base \in Bases, StartCreate(r, p, base)
      PROVE  IInv'
  <2> DEFINE q == [pc |-> "probe", row |-> p, base |-> base, slug |-> NoSlug,
                   k |-> 0, failures |-> 0, given |-> FALSE, error |-> "none"]
  <2>1. savers' = [savers EXCEPT ![r] = q] /\ table' = table /\ commits' = commits
        /\ starts' \in 0..MaxStarts
    BY <1>1, MaxStartsIsNat DEF StartCreate, Start, IInv, TypeOK
  <2>2. q \in Save /\ q # Idle
    BY MaxRetriesIsPositive DEF Save, NoSlug, Slugs, Idle
  <2>3. savers'[r] = q
    BY <2>1 DEF IInv, TypeOK
  <2>4. SlotSound(r)'
    BY <2>1, <2>2, <2>3, MaxRetriesIsPositive DEF SlotSound, Lost, Credit, IInv, TypeOK
  <2> HIDE DEF q
  <2> QED BY <2>1, <2>4, OwnStep
<1>2. ASSUME NEW p \in Rows, NEW base \in Bases, NEW slug \in Requested \cup {table[p]},
             StartUpdate(r, p, base, slug)
      PROVE  IInv'
  <2> DEFINE q == [pc |-> "write", row |-> p, base |-> base, slug |-> slug,
                   k |-> 0, failures |-> 0, given |-> TRUE, error |-> "none"]
  <2>1. savers' = [savers EXCEPT ![r] = q] /\ table' = table /\ commits' = commits
        /\ starts' \in 0..MaxStarts
    BY <1>2, MaxStartsIsNat DEF StartUpdate, Start, IInv, TypeOK
  <2>2. slug \in Slugs
    BY RequestedAreSlugs DEF IInv, TypeOK, Slugs
  <2>3. q \in Save /\ q # Idle
    BY <2>2, MaxRetriesIsPositive DEF Save, Idle
  <2>4. savers'[r] = q
    BY <2>1 DEF IInv, TypeOK
  <2>5. SlotSound(r)'
    BY <2>1, <2>3, <2>4, MaxRetriesIsPositive DEF SlotSound, Lost, Credit, IInv, TypeOK
  <2> HIDE DEF q
  <2> QED BY <2>1, <2>5, OwnStep
<1> QED BY <1>1, <1>2 DEF Begin

\* A probe moves on to the next suffix or chooses a slug that is free.
LEMMA ProbeStep ==
  ASSUME IInv, NEW r \in Savers, Probe(r)
  PROVE  IInv'
<1> DEFINE c == Candidate(savers[r].base, savers[r].k)
<1>1. savers[r] \in Save /\ savers[r] # Idle
  BY DEF Probe, IInv, TypeOK, Idle
<1>2. c \in Slugs
  BY <1>1, CandidateIsSlug DEF Save
<1>3. table' = table /\ commits' = commits /\ starts' \in 0..MaxStarts
  BY DEF Probe, IInv, TypeOK
<1>4. savers[r].failures <= commits + Credit(r) /\ savers[r].failures < MaxRetries
      /\ savers[r].failures <= MaxRetries
  <2>1. Lost(r) <= commits + Credit(r) /\ commits \in Nat
    BY <1>1 DEF IInv, TypeOK, LossesAreRivals
  <2>2. savers[r].failures <= commits + Credit(r)
    BY <1>1, <2>1, LostRange DEF Save
  <2> QED BY <1>1, <2>2 DEF Probe, IInv, FailuresBounded
<1> HIDE DEF c
<1>5. CASE Exists(c, savers[r].row)
  <2> DEFINE q == [savers[r] EXCEPT !.k = @ + 1]
  <2>1. savers' = [savers EXCEPT ![r] = q]
    BY <1>5 DEF Probe, c
  <2>2. q \in Save /\ q # Idle /\ q.pc = "probe" /\ q.failures = savers[r].failures
        /\ q.given = savers[r].given
    BY <1>1 DEF Save, Probe, Idle
  <2>3. savers'[r] = q
    BY <2>1 DEF IInv, TypeOK
  <2> HIDE DEF q
  <2>4. Lost(r)' = savers[r].failures /\ Credit(r)' = Credit(r)
    BY <1>1, <2>2, <2>3 DEF Lost, Credit, Save
  <2>5. SlotSound(r)'
    BY <1>3, <1>4, <2>2, <2>3, <2>4 DEF SlotSound
  <2> QED BY <1>3, <2>1, <2>5, OwnStep
<1>6. CASE ~Exists(c, savers[r].row)
  <2> DEFINE q == [savers[r] EXCEPT !.slug = c, !.pc = "write"]
  <2>1. savers' = [savers EXCEPT ![r] = q]
    BY <1>6 DEF Probe, c
  <2>2. q \in Save /\ q # Idle /\ q.pc = "write" /\ q.failures = savers[r].failures
        /\ q.given = savers[r].given /\ q.slug = c /\ q.row = savers[r].row
    BY <1>1, <1>2 DEF Save, Idle
  <2>3. savers'[r] = q
    BY <2>1 DEF IInv, TypeOK
  <2> HIDE DEF q
  <2>4. Lost(r)' = savers[r].failures /\ Credit(r)' = Credit(r)
    BY <1>1, <1>3, <1>6, <2>2, <2>3 DEF Lost, Credit, Exists, Save
  <2>5. SlotSound(r)'
    BY <1>3, <1>4, <2>2, <2>3, <2>4 DEF SlotSound
  <2> QED BY <1>3, <2>1, <2>5, OwnStep
<1> QED BY <1>5, <1>6

\* A write either commits, and everybody else may have lost to it, or is lost.
LEMMA WriteStep ==
  ASSUME IInv, NEW r \in Savers, Write(r)
  PROVE  IInv'
<1>1. savers[r] \in Save /\ savers[r] # Idle
  BY DEF Write, IInv, TypeOK, Idle
<1>2. starts' \in 0..MaxStarts
  BY DEF Write, IInv, TypeOK
<1>3. CASE Exists(savers[r].slug, savers[r].row)
  <2> DEFINE q == [savers[r] EXCEPT !.pc = "conflict", !.error = "slug"]
  <2>1. savers' = [savers EXCEPT ![r] = q] /\ table' = table /\ commits' = commits
    BY <1>3 DEF Write
  <2>2. q \in Save /\ q # Idle /\ q.pc = "conflict" /\ q.failures = savers[r].failures
        /\ q.given = savers[r].given /\ q.error = "slug"
    BY <1>1 DEF Save, Idle
  <2>3. savers'[r] = q
    BY <2>1 DEF IInv, TypeOK
  <2> HIDE DEF q
  <2>4. Lost(r)' = savers[r].failures + 1 /\ Lost(r) = savers[r].failures + 1
    BY <1>3, <2>2, <2>3 DEF Lost, Write
  <2>5. Credit(r)' = Credit(r)
    BY <2>2, <2>3 DEF Credit
  <2>6. SlotSound(r)'
    BY <1>1, <2>1, <2>2, <2>3, <2>4, <2>5
       DEF SlotSound, Write, IInv, LossesAreRivals, FailuresBounded
  <2> QED BY <1>2, <2>1, <2>6, OwnStep
<1>4. CASE ~Exists(savers[r].slug, savers[r].row)
  <2>1. table' = [table EXCEPT ![savers[r].row] = savers[r].slug]
        /\ savers' = [savers EXCEPT ![r] = Idle] /\ commits' = commits + 1
    BY <1>4 DEF Write
  <2>2. TypeOK'
    BY <1>1, <1>2, <2>1 DEF IInv, TypeOK, Save
  <2>3. ASSUME NEW s \in Savers, savers'[s] # Idle
        PROVE  savers'[s] = savers[s] /\ savers[s] # Idle
    BY <2>1, <2>3 DEF IInv, TypeOK
  <2>4. LossesAreRivals'
    BY <2>1, <2>3, TableStep DEF LossesAreRivals
  <2>5. FailuresBounded'
    BY <2>3 DEF IInv, FailuresBounded
  <2> QED BY <2>2, <2>4, <2>5 DEF IInv
<1> QED BY <1>3, <1>4

\* The error of another constraint owes nothing of its own.
LEMMA WriteFailsStep ==
  ASSUME IInv, NEW r \in Savers, WriteFails(r)
  PROVE  IInv'
<1>1. savers[r] \in Save /\ savers[r] # Idle /\ savers[r].pc = "write"
  BY DEF WriteFails, IInv, TypeOK, Idle
<1>2. table' = table /\ commits' = commits /\ starts' \in 0..MaxStarts
  BY DEF WriteFails, IInv, TypeOK
<1>3. PICK q : q = [savers[r] EXCEPT !.pc = "conflict", !.error = "other"]
  OBVIOUS
<1>4. savers' = [savers EXCEPT ![r] = q] /\ savers'[r] = q
  BY <1>3 DEF WriteFails, IInv, TypeOK
<1>5. /\ q \in Save /\ q # Idle /\ q.pc = "conflict" /\ q.failures = savers[r].failures
      /\ q.given = savers[r].given /\ q.error = "other"
      /\ q.slug = savers[r].slug /\ q.row = savers[r].row
  BY <1>1, <1>3 DEF Save, Idle
<1>6. Lost(r)' = Lost(r)
  BY <1>1, <1>2, <1>4, <1>5 DEF Lost, Exists
<1>7. Credit(r)' = Credit(r)
  BY <1>4, <1>5 DEF Credit
<1>8. SlotSound(r)'
  BY <1>1, <1>2, <1>4, <1>5, <1>6, <1>7
     DEF SlotSound, IInv, LossesAreRivals, FailuresBounded
<1> QED
  BY <1>2, <1>4, <1>8, OwnStep

\* A lost attempt is counted once the row that took the slug is still seen.
LEMMA ResolveStep ==
  ASSUME IInv, NEW r \in Savers, Resolve(r)
  PROVE  IInv'
<1>1. savers[r] \in Save /\ savers[r] # Idle /\ savers[r].pc = "conflict"
  BY DEF Resolve, IInv, TypeOK, Idle
<1>2. table' = table /\ commits' = commits /\ starts' \in 0..MaxStarts
  BY DEF Resolve, IInv, TypeOK
<1>3. /\ savers[r].failures <= commits + Credit(r) /\ savers[r].failures < MaxRetries
      /\ savers[r].failures \in Nat
      /\ Exists(savers[r].slug, savers[r].row) => savers[r].failures + 1 <= commits + Credit(r)
  <2>1. savers[r].failures < MaxRetries /\ Lost(r) <= commits + Credit(r)
    BY <1>1 DEF IInv, LossesAreRivals, FailuresBounded
  <2>2. /\ savers[r].failures \in Nat /\ Lost(r) \in Nat /\ Credit(r) \in Nat
        /\ savers[r].failures <= Lost(r) /\ commits \in Nat
    BY <1>1, LostRange DEF Save, IInv, TypeOK
  <2>3. Exists(savers[r].slug, savers[r].row) => Lost(r) = savers[r].failures + 1
    BY <1>1 DEF Lost
  <2> QED
    BY <2>1, <2>2, <2>3
<1>4. CASE Exists(savers[r].slug, savers[r].row)
  <2> DEFINE q == Again(savers[r])
  <2>1. savers' = [savers EXCEPT ![r] = q]
    BY <1>4 DEF Resolve
  <2>2. q \in Save /\ q # Idle /\ q.pc \in {"exhausted", "probe"}
        /\ q.failures = savers[r].failures + 1 /\ q.given = savers[r].given
        /\ (q.pc = "exhausted" <=> q.failures = MaxRetries)
    <3> DEFINE lost == [savers[r] EXCEPT !.slug = NoSlug, !.k = 0, !.failures = @ + 1,
                                         !.error = "none"]
    <3>1. lost \in Save /\ lost.failures = savers[r].failures + 1
          /\ lost.given = savers[r].given
      <4>1. NoSlug \in Slugs
        BY DEF NoSlug, Slugs
      <4>2. savers[r].failures + 1 \in 0..MaxRetries
        BY <1>3, MaxRetriesIsPositive
      <4> QED BY <1>1, <4>1, <4>2 DEF Save
    <3> HIDE DEF lost
    <3>2. q = [lost EXCEPT !.pc = IF lost.failures = MaxRetries THEN "exhausted"
                                  ELSE "probe"]
      BY DEF Again, lost
    <3> HIDE DEF q
    <3> QED BY <3>1, <3>2 DEF Save, Idle
  <2>3. savers'[r] = q
    BY <2>1 DEF IInv, TypeOK
  <2> HIDE DEF q
  <2>4. Lost(r)' = savers[r].failures + 1 /\ Credit(r)' = Credit(r)
    BY <1>3, <2>2, <2>3 DEF Lost, Credit
  <2>5. SlotSound(r)'
    BY <1>2, <1>3, <1>4, <2>2, <2>3, <2>4, MaxRetriesIsPositive DEF SlotSound
  <2> QED BY <1>2, <2>1, <2>5, OwnStep
<1>5. CASE ~Exists(savers[r].slug, savers[r].row)
  <2> DEFINE q == [savers[r] EXCEPT !.pc = "raised"]
  <2>1. savers' = [savers EXCEPT ![r] = q]
    BY <1>5 DEF Resolve
  <2>2. q \in Save /\ q # Idle /\ q.pc = "raised" /\ q.failures = savers[r].failures
        /\ q.given = savers[r].given
    BY <1>1 DEF Save, Idle
  <2>3. savers'[r] = q
    BY <2>1 DEF IInv, TypeOK
  <2> HIDE DEF q
  <2>4. Lost(r)' = savers[r].failures /\ Credit(r)' = Credit(r) /\ Credit(r) \in Nat
    BY <1>3, <2>2, <2>3 DEF Lost, Credit
  <2>5. SlotSound(r)'
    BY <1>2, <1>3, <2>2, <2>3, <2>4, MaxRetriesIsPositive DEF SlotSound, IInv, TypeOK
  <2> QED BY <1>2, <2>1, <2>5, OwnStep
<1> QED BY <1>4, <1>5

\* The removal of a row only makes slugs free.
LEMMA RemoveStep ==
  ASSUME IInv, NEW p \in Rows, Remove(p)
  PROVE  IInv'
<1>1. TypeOK'
  BY DEF Remove, IInv, TypeOK, NoSlug, Slugs
<1>2. ASSUME NEW s \in Savers, savers[s] # Idle
      PROVE  Lost(s)' <= commits + Credit(s)
  <2>1. savers[s] \in Save /\ savers' = savers
    BY <1>2 DEF Remove, IInv, TypeOK
  <2>2. CASE Lost(s)' <= Lost(s)
    BY <1>2, <2>1, <2>2, LostRange DEF IInv, TypeOK, LossesAreRivals, Lost, Save, Credit
  <2>3. \A slug, q : Exists(slug, q)' => Exists(slug, q)
    BY DEF Exists, Remove, IInv, TypeOK
  <2>4. Lost(s)' <= Lost(s)
    BY <2>1, <2>3 DEF Lost, Save
  <2> QED BY <2>2, <2>4
<1> QED BY <1>1, <1>2 DEF Remove, IInv, LossesAreRivals, FailuresBounded, Credit

-------------------------------------------------------------------------------

\* Every step preserves the invariant.
LEMMA StepIInv == IInv /\ [Next]_vars => IInv'
<1> SUFFICES ASSUME IInv, [Next]_vars PROVE IInv'
  OBVIOUS
<1>1. ASSUME NEW s \in Savers, Begin(s) \/ Step(s) PROVE IInv'
  BY <1>1, StartStep, ProbeStep, WriteStep, WriteFailsStep, ResolveStep DEF Step
<1>2. ASSUME NEW p \in Rows, Remove(p) PROVE IInv'
  BY <1>2, RemoveStep
<1>3. CASE UNCHANGED vars
  BY <1>3 DEF vars, IInv, TypeOK, LossesAreRivals, FailuresBounded, Lost, Credit, Exists
<1> QED BY <1>1, <1>2, <1>3 DEF Next

\* The inductive invariant holds in every reachable state.
THEOREM Inductive == Spec => []IInv
BY InitIInv, StepIInv, PTL DEF Spec

\* Slugs, saves and counters keep their types: above all no save makes more
\* than slug_max_retries attempts.
THEOREM TypeCorrect == Spec => []TypeOK
<1>1. IInv => TypeOK
  BY DEF IInv
<1> QED BY <1>1, Inductive, PTL

\* A save that gives up has lost every attempt to a commit of its own, the
\* first excepted when its slug was given: retries are never used up without
\* as many rivals.
THEOREM GivingUpNeedsRivals == Spec => []ExhaustionNeedsRivals
<1>1. IInv => ExhaustionNeedsRivals
  <2> SUFFICES ASSUME IInv, NEW s \in Savers, savers[s].pc = "exhausted"
               PROVE  commits >= IF savers[s].given THEN MaxRetries - 1 ELSE MaxRetries
    BY DEF ExhaustionNeedsRivals
  <2>1. savers[s] \in Save /\ savers[s] # Idle
    BY DEF IInv, TypeOK, Idle
  <2>2. savers[s].failures = MaxRetries /\ Lost(s) <= commits + Credit(s)
    BY <2>1 DEF IInv, FailuresBounded, LossesAreRivals
  <2>3. savers[s].failures <= Lost(s) /\ Lost(s) \in Nat /\ commits \in Nat
    BY <2>1, LostRange DEF IInv, TypeOK
  <2> QED BY <2>1, <2>2, <2>3, MaxRetriesIsPositive DEF Credit, Save
<1> QED BY <1>1, Inductive, PTL

-------------------------------------------------------------------------------
(* Without slugs asked for and without removals                            *)

\* The unique index.
TableUnique == \A p, q \in Rows : table[p] # NoSlug /\ table[p] = table[q] => p = q

\* A save with a given slug writes what its row has already; any other save is
\* of a row that is not there yet, what took its slug or made it pass over one
\* is still there, and no error it raises is the slug's.
SaveKept(s) ==
  savers[s] # Idle =>
    /\ savers[s].given =>
         /\ savers[s].pc \in {"write", "conflict", "raised"}
         /\ table[savers[s].row] # NoSlug
         /\ savers[s].slug = table[savers[s].row]
    /\ ~savers[s].given => table[savers[s].row] = NoSlug
    /\ savers[s].pc = "conflict" =>
         savers[s].error = "other" \/ Exists(savers[s].slug, savers[s].row)
    /\ savers[s].pc = "raised" => savers[s].error = "other"
    /\ \A j \in Nat : j < savers[s].k => Exists(Candidate(savers[s].base, j), savers[s].row)

\* A row that is being created is in one request's hands.
CreationsApart ==
  \A r, s \in Savers :
    /\ savers[r] # Idle /\ ~savers[r].given
    /\ savers[s] # Idle /\ savers[s].row = savers[r].row
    => r = s

KeptInv == TableUnique /\ (\A s \in Savers : SaveKept(s)) /\ CreationsApart

\* As long as rows keep their slugs, a slug that is taken stays taken.
LEMMA TakenStays ==
  ASSUME \A p \in Rows : table[p] # NoSlug => table'[p] = table[p], NEW slug, NEW p
  PROVE  Exists(slug, p) => Exists(slug, p)'
BY DEF Exists

\* A slot goes on with its row and its slug, or ends, and the table stays.
LEMMA KeptStep ==
  ASSUME IInv, KeptInv, NEW r \in Savers, NEW q, savers' = [savers EXCEPT ![r] = q],
         table' = table, SaveKept(r)',
         q # Idle => /\ savers[r] # Idle
                     /\ q.row = savers[r].row /\ q.given = savers[r].given
  PROVE  KeptInv'
<1>1. \A s \in Savers : savers'[s] = IF s = r THEN q ELSE savers[s]
  BY DEF IInv, TypeOK
<1>2. ASSUME NEW s \in Savers PROVE SaveKept(s)'
  <2>1. CASE s = r
    BY <2>1
  <2>2. CASE s # r
    BY <1>1, <2>2 DEF KeptInv, SaveKept, Exists
  <2> QED
    BY <2>1, <2>2
<1>3. CreationsApart'
  BY <1>1 DEF KeptInv, CreationsApart
<1>4. TableUnique'
  BY DEF KeptInv, TableUnique
<1> QED
  BY <1>2, <1>3, <1>4 DEF KeptInv

\* What is known of a save of row p when it begins.
Begun(q, p) ==
  /\ q # Idle /\ q.row = p /\ q.k = 0
  /\ q.given => q.pc = "write" /\ q.slug = table[p] /\ table[p] # NoSlug
  /\ ~q.given => q.pc = "probe" /\ table[p] = NoSlug /\ ~Busy(p)

LEMMA KeptStart ==
  ASSUME IInv, KeptInv, NEW r \in Savers, NEW p \in Rows, NEW base \in Bases,
         StartCreate(r, p, base) \/ StartUpdate(r, p, base, table[p])
  PROVE  KeptInv'
<1>1. PICK q : Begun(q, p) /\ savers' = [savers EXCEPT ![r] = q] /\ table' = table
  <2>1. CASE StartCreate(r, p, base)
    <3>1. PICK q : q = [pc |-> "probe", row |-> p, base |-> base, slug |-> NoSlug,
                        k |-> 0, failures |-> 0, given |-> FALSE, error |-> "none"]
      OBVIOUS
    <3>2. Begun(q, p)
      BY <2>1, <3>1 DEF Begun, StartCreate, Idle
    <3>3. savers' = [savers EXCEPT ![r] = q] /\ table' = table
      BY <2>1, <3>1 DEF StartCreate, Start
    <3> QED
      BY <3>2, <3>3
  <2>2. CASE StartUpdate(r, p, base, table[p])
    <3>1. PICK q : q = [pc |-> "write", row |-> p, base |-> base, slug |-> table[p],
                        k |-> 0, failures |-> 0, given |-> TRUE, error |-> "none"]
      OBVIOUS
    <3>2. Begun(q, p)
      BY <2>2, <3>1 DEF Begun, StartUpdate, Idle
    <3>3. savers' = [savers EXCEPT ![r] = q] /\ table' = table
      BY <2>2, <3>1 DEF StartUpdate, Start
    <3> QED
      BY <3>2, <3>3
  <2> QED
    BY <2>1, <2>2
<1>2. \A s \in Savers : savers'[s] = IF s = r THEN q ELSE savers[s]
  BY <1>1 DEF IInv, TypeOK
<1>3. ASSUME NEW s \in Savers PROVE SaveKept(s)'
  <2>1. CASE s = r
    BY <1>1, <1>2, <2>1 DEF Begun, SaveKept
  <2>2. CASE s # r
    BY <1>1, <1>2, <2>2 DEF KeptInv, SaveKept, Exists
  <2> QED
    BY <2>1, <2>2
<1>4. ASSUME NEW s \in Savers, savers[s] # Idle, savers[s].row = p,
             ~q.given \/ ~savers[s].given
      PROVE  FALSE
  BY <1>1, <1>4 DEF Begun, Busy, KeptInv, SaveKept
<1>5. CreationsApart'
  BY <1>1, <1>2, <1>4 DEF Begun, KeptInv, CreationsApart
<1>6. TableUnique'
  BY <1>1 DEF KeptInv, TableUnique
<1> QED
  BY <1>3, <1>5, <1>6 DEF KeptInv

LEMMA KeptProbe ==
  ASSUME IInv, KeptInv, NEW r \in Savers, Probe(r)
  PROVE  KeptInv'
<1> DEFINE c == Candidate(savers[r].base, savers[r].k)
<1>1. /\ savers[r] \in Save /\ savers[r] # Idle /\ savers[r].pc = "probe"
      /\ SaveKept(r) /\ table' = table
  BY DEF Probe, IInv, TypeOK, Idle, KeptInv
<1>2. ~savers[r].given
  BY <1>1 DEF SaveKept
<1>3. CASE Exists(c, savers[r].row)
  <2>1. PICK q : q = [savers[r] EXCEPT !.k = @ + 1]
    OBVIOUS
  <2>2. /\ q.pc = "probe" /\ q.row = savers[r].row /\ q.base = savers[r].base
        /\ q.given = savers[r].given /\ q.k = savers[r].k + 1 /\ savers[r].k \in Nat
    BY <1>1, <2>1 DEF Save
  <2>3. savers' = [savers EXCEPT ![r] = q] /\ savers'[r] = q
    BY <1>3, <2>1 DEF Probe, IInv, TypeOK
  <2>4. \A j \in Nat : j < q.k => j < savers[r].k \/ j = savers[r].k
    BY <2>2
  <2>5. SaveKept(r)'
    BY <1>1, <1>2, <1>3, <2>2, <2>3, <2>4 DEF SaveKept, Exists
  <2> QED
    BY <1>1, <2>2, <2>3, <2>5, KeptStep
<1>4. CASE ~Exists(c, savers[r].row)
  <2>1. PICK q : q = [savers[r] EXCEPT !.slug = c, !.pc = "write"]
    OBVIOUS
  <2>2. /\ q.pc = "write" /\ q.row = savers[r].row /\ q.base = savers[r].base
        /\ q.given = savers[r].given /\ q.k = savers[r].k
    BY <1>1, <2>1 DEF Save
  <2>3. savers' = [savers EXCEPT ![r] = q] /\ savers'[r] = q
    BY <1>4, <2>1 DEF Probe, IInv, TypeOK
  <2>4. SaveKept(r)'
    BY <1>1, <1>2, <2>2, <2>3 DEF SaveKept, Exists
  <2> QED
    BY <1>1, <2>2, <2>3, <2>4, KeptStep
<1> QED
  BY <1>3, <1>4

\* Only a creation's commit changes the table, and only where there is no row.
LEMMA KeptWrite ==
  ASSUME IInv, KeptInv, NEW r \in Savers, Write(r)
  PROVE  KeptInv'
<1>1. /\ savers[r] \in Save /\ savers[r] # Idle /\ savers[r].pc = "write"
      /\ SaveKept(r)
  BY DEF Write, IInv, TypeOK, Idle, KeptInv
<1>2. CASE Exists(savers[r].slug, savers[r].row)
  <2>1. PICK q : q = [savers[r] EXCEPT !.pc = "conflict", !.error = "slug"]
    OBVIOUS
  <2>2. /\ q.pc = "conflict" /\ q.row = savers[r].row /\ q.base = savers[r].base
        /\ q.given = savers[r].given /\ q.k = savers[r].k /\ q.slug = savers[r].slug
    BY <1>1, <2>1 DEF Save
  <2>3. savers' = [savers EXCEPT ![r] = q] /\ savers'[r] = q /\ table' = table
    BY <1>2, <2>1 DEF Write, IInv, TypeOK
  <2>4. ~savers[r].given
    BY <1>1, <1>2 DEF SaveKept, KeptInv, TableUnique, Exists, Save
  <2>5. SaveKept(r)'
    BY <1>1, <1>2, <2>2, <2>3, <2>4 DEF SaveKept, Exists
  <2> QED
    BY <1>1, <2>2, <2>3, <2>5, KeptStep
<1>3. CASE ~Exists(savers[r].slug, savers[r].row)
  <2>1. PICK p \in Rows : p = savers[r].row
    BY <1>1 DEF Save
  <2>2. \A w \in Rows : table'[w] = IF w = p THEN savers[r].slug ELSE table[w]
    BY <1>3, <2>1 DEF Write, IInv, TypeOK
  <2>3. \A s \in Savers : savers'[s] = IF s = r THEN Idle ELSE savers[s]
    BY <1>3 DEF Write, IInv, TypeOK
  <2>4. \A w \in Rows : table[w] # NoSlug => table'[w] = table[w]
    BY <1>1, <2>1, <2>2 DEF SaveKept
  <2>5. TableUnique'
    BY <1>3, <2>1, <2>2 DEF KeptInv, TableUnique, Exists
  <2>6. ASSUME NEW s \in Savers PROVE SaveKept(s)'
    <3>1. CASE savers'[s] = Idle
      BY <3>1 DEF SaveKept
    <3>2. CASE savers'[s] # Idle
      <4>1. s # r /\ savers'[s] = savers[s] /\ savers[s] \in Save /\ SaveKept(s)
        BY <2>3, <3>2 DEF IInv, TypeOK, KeptInv
      <4>2. savers[s].row \in Rows
        BY <4>1 DEF Save
      <4>3. ~savers[s].given => table'[savers[s].row] = table[savers[s].row]
        BY <1>1, <2>1, <2>2, <2>3, <3>2, <4>1, <4>2 DEF KeptInv, CreationsApart
      <4>4. savers[s].given => table'[savers[s].row] = table[savers[s].row]
        BY <2>4, <3>2, <4>1, <4>2 DEF SaveKept
      <4>5. \A slug : Exists(slug, savers[s].row) => Exists(slug, savers[s].row)'
        BY <2>4, TakenStays, <4>1 DEF Exists
      <4> QED
        BY <3>2, <4>1, <4>3, <4>4, <4>5 DEF SaveKept, Exists
    <3> QED
      BY <3>1, <3>2
  <2>7. CreationsApart'
    BY <2>3 DEF KeptInv, CreationsApart
  <2> QED
    BY <2>5, <2>6, <2>7 DEF KeptInv
<1> QED
  BY <1>2, <1>3

\* An error of another constraint leaves the row and the slug of the save alone.
LEMMA KeptWriteFails ==
  ASSUME IInv, KeptInv, NEW r \in Savers, WriteFails(r)
  PROVE  KeptInv'
<1>1. /\ savers[r] \in Save /\ savers[r] # Idle /\ savers[r].pc = "write"
      /\ SaveKept(r) /\ table' = table
  BY DEF WriteFails, IInv, TypeOK, Idle, KeptInv
<1>2. PICK q : q = [savers[r] EXCEPT !.pc = "conflict", !.error = "other"]
  OBVIOUS
<1>3. /\ q.pc = "conflict" /\ q.row = savers[r].row /\ q.base = savers[r].base
      /\ q.given = savers[r].given /\ q.k = savers[r].k /\ q.slug = savers[r].slug
      /\ q.error = "other"
  BY <1>1, <1>2 DEF Save
<1>4. savers' = [savers EXCEPT ![r] = q] /\ savers'[r] = q
  BY <1>2 DEF WriteFails, IInv, TypeOK
<1>5. SaveKept(r)'
  BY <1>1, <1>3, <1>4 DEF SaveKept, Exists
<1> QED
  BY <1>1, <1>3, <1>4, <1>5, KeptStep

\* Only the slug of a creation can be another row's: the save of any other raises.
LEMMA KeptResolve ==
  ASSUME IInv, KeptInv, NEW r \in Savers, Resolve(r)
  PROVE  KeptInv'
<1>1. /\ savers[r] \in Save /\ savers[r] # Idle /\ savers[r].pc = "conflict"
      /\ SaveKept(r) /\ table' = table
  BY DEF Resolve, IInv, TypeOK, Idle, KeptInv
<1>2. CASE Exists(savers[r].slug, savers[r].row)
  <2>1. PICK q : q = Again(savers[r])
    OBVIOUS
  <2>2. /\ q.pc \in {"exhausted", "probe"} /\ q.row = savers[r].row /\ q.k = 0
        /\ q.given = savers[r].given
    BY <1>1, <2>1 DEF Save, Again
  <2>3. savers' = [savers EXCEPT ![r] = q] /\ savers'[r] = q
    BY <1>2, <2>1 DEF Resolve, IInv, TypeOK
  <2>4. ~savers[r].given
    BY <1>1, <1>2 DEF SaveKept, KeptInv, TableUnique, Exists, Save
  <2>5. SaveKept(r)'
    BY <1>1, <2>2, <2>3, <2>4 DEF SaveKept
  <2> QED
    BY <1>1, <2>2, <2>3, <2>5, KeptStep
<1>3. CASE ~Exists(savers[r].slug, savers[r].row)
  <2>1. PICK q : q = [savers[r] EXCEPT !.pc = "raised"]
    OBVIOUS
  <2>2. /\ q.pc = "raised" /\ q.row = savers[r].row /\ q.base = savers[r].base
        /\ q.given = savers[r].given /\ q.k = savers[r].k /\ q.slug = savers[r].slug
        /\ q.error = savers[r].error
    BY <1>1, <2>1 DEF Save
  <2>3. savers' = [savers EXCEPT ![r] = q] /\ savers'[r] = q
    BY <1>3, <2>1 DEF Resolve, IInv, TypeOK
  <2>4. SaveKept(r)'
    BY <1>1, <1>3, <2>2, <2>3 DEF SaveKept, Exists
  <2> QED
    BY <1>1, <2>2, <2>3, <2>4, KeptStep
<1> QED
  BY <1>2, <1>3

LEMMA InitKept == Init => KeptInv
BY DEF Init, KeptInv, TableUnique, SaveKept, CreationsApart

LEMMA StepKept ==
  ASSUME IInv, KeptInv, [CreatesNext]_vars
  PROVE  KeptInv'
<1>1. ASSUME NEW s \in Savers, NEW p \in Rows, NEW base \in Bases,
             StartCreate(s, p, base) \/ StartUpdate(s, p, base, table[p])
      PROVE  KeptInv'
  BY <1>1, KeptStart
<1>2. ASSUME NEW s \in Savers, Step(s) PROVE KeptInv'
  BY <1>2, KeptProbe, KeptWrite, KeptWriteFails, KeptResolve DEF Step
<1>3. CASE UNCHANGED vars
  BY <1>3 DEF vars, KeptInv, TableUnique, SaveKept, CreationsApart, Exists
<1> QED
  BY <1>1, <1>2, <1>3 DEF CreatesNext

-------------------------------------------------------------------------------
(* Every save, committed or in flight, has been started once               *)

InFlight == {s \in Savers : savers[s] # Idle}

BudgetKept == IsFiniteSet(InFlight) /\ commits + Cardinality(InFlight) <= starts

LEMMA InitBudget == Init => BudgetKept
<1> SUFFICES ASSUME Init PROVE BudgetKept
  OBVIOUS
<1>1. InFlight = {}
  BY DEF Init, InFlight
<1> QED
  BY <1>1, FS_EmptySet DEF Init, BudgetKept

\* A step of a save that goes on.
LEMMA BudgetStays ==
  ASSUME IInv, BudgetKept, InFlight' = InFlight, UNCHANGED <<starts, commits>>
  PROVE  BudgetKept'
BY DEF BudgetKept

LEMMA StepBudget ==
  ASSUME IInv, BudgetKept, [Next]_vars
  PROVE  BudgetKept'
<1>1. /\ IsFiniteSet(InFlight) /\ Cardinality(InFlight) \in Nat
      /\ commits \in Nat /\ starts \in Nat /\ commits + Cardinality(InFlight) <= starts
  BY FS_CardinalityType DEF BudgetKept, IInv, TypeOK
<1>2. ASSUME NEW r \in Savers, Begin(r) PROVE BudgetKept'
  <2>1. PICK q : q # Idle /\ Start(r, q)
    BY <1>2 DEF Begin, StartCreate, StartUpdate, Idle
  <2>2. InFlight' = InFlight \cup {r} /\ r \notin InFlight
    BY <2>1 DEF Start, InFlight, IInv, TypeOK
  <2>3. IsFiniteSet(InFlight') /\ Cardinality(InFlight') = Cardinality(InFlight) + 1
    BY <1>1, <2>2, FS_AddElement
  <2> QED
    BY <1>1, <2>1, <2>3 DEF Start, BudgetKept
<1>3. ASSUME NEW r \in Savers, Step(r) PROVE BudgetKept'
  <2>1. r \in InFlight
    BY <1>3 DEF Step, Probe, Write, WriteFails, Resolve, InFlight, Idle
  <2>2. CASE UNCHANGED <<starts, commits>> /\ savers'[r] # Idle
    <3>1. \A s \in Savers : s # r => savers'[s] = savers[s]
      BY <1>3 DEF Step, Probe, Write, WriteFails, Resolve, IInv, TypeOK
    <3>2. InFlight' = InFlight
      BY <2>1, <2>2, <3>1 DEF InFlight
    <3> QED
      BY <2>2, <3>2, BudgetStays
  <2>3. CASE savers' = [savers EXCEPT ![r] = Idle] /\ commits' = commits + 1 /\ starts' = starts
    <3>1. InFlight' = InFlight \ {r}
      BY <2>1, <2>3 DEF InFlight, IInv, TypeOK
    <3>2. IsFiniteSet(InFlight') /\ Cardinality(InFlight') = Cardinality(InFlight) - 1
      BY <1>1, <2>1, <3>1, FS_RemoveElement
    <3> QED
      BY <1>1, <2>3, <3>2 DEF BudgetKept
  <2>4. savers[r] \in Save
    BY <2>1 DEF InFlight, IInv, TypeOK
  <2>5. CASE Probe(r)
    <3>1. savers'[r].pc \in {"probe", "write"}
      BY <2>4, <2>5 DEF Probe, Save, IInv, TypeOK
    <3>2. savers'[r] # Idle
      BY <3>1 DEF Idle
    <3>3. UNCHANGED <<starts, commits>>
      BY <2>5 DEF Probe
    <3> QED
      BY <2>2, <3>2, <3>3
  <2>6. CASE Write(r)
    <3>1. CASE Exists(savers[r].slug, savers[r].row)
      <4>1. savers'[r].pc = "conflict" /\ UNCHANGED <<starts, commits>>
        BY <2>4, <2>6, <3>1 DEF Write, Save, IInv, TypeOK
      <4> QED
        BY <2>2, <4>1 DEF Idle
    <3>2. CASE ~Exists(savers[r].slug, savers[r].row)
      BY <2>3, <2>6, <3>2 DEF Write
    <3> QED
      BY <3>1, <3>2
  <2>7. CASE Resolve(r)
    <3>1. savers'[r].pc \in {"raised", "exhausted", "probe"}
      BY <2>4, <2>7 DEF Resolve, Again, Save, IInv, TypeOK
    <3> QED
      BY <2>2, <2>7, <3>1 DEF Resolve, Idle
  <2>8. CASE WriteFails(r)
    <3>1. savers'[r].pc = "conflict" /\ UNCHANGED <<starts, commits>>
      BY <2>4, <2>8 DEF WriteFails, Save, IInv, TypeOK
    <3> QED
      BY <2>2, <3>1 DEF Idle
  <2> QED
    BY <1>3, <2>5, <2>6, <2>7, <2>8 DEF Step
<1>4. ASSUME NEW p \in Rows, Remove(p) PROVE BudgetKept'
  BY <1>4, BudgetStays DEF Remove, InFlight
<1>5. CASE UNCHANGED vars
  BY <1>5, BudgetStays DEF vars, InFlight
<1> QED
  BY <1>2, <1>3, <1>4, <1>5 DEF Next

-------------------------------------------------------------------------------
(* The theorems on creations                                               *)

CreatesInv == IInv /\ KeptInv /\ BudgetKept

LEMMA CreatesAreSteps == [CreatesNext]_vars => [Next]_vars
BY DEF CreatesNext, Next, Begin

LEMMA InitCreates == Init => CreatesInv
BY InitIInv, InitKept, InitBudget DEF CreatesInv

LEMMA StepCreates == CreatesInv /\ [CreatesNext]_vars => CreatesInv'
BY CreatesAreSteps, StepIInv, StepKept, StepBudget DEF CreatesInv

\* The inductive invariant of every behaviour of creations and of updates that
\* keep the slug.
THEOREM CreatesInductive == CreatesSpec => []CreatesInv
BY InitCreates, StepCreates, PTL DEF CreatesSpec

LEMMA CreatesTakeFirst == CreatesInv => SmallestSuffix
<1> SUFFICES ASSUME CreatesInv, NEW s \in Savers,
                    savers[s].pc \in {"probe", "write", "conflict"},
                    NEW j \in 0..savers[s].k, j < savers[s].k
             PROVE  Exists(Candidate(savers[s].base, j), savers[s].row)
  BY DEF SmallestSuffix
<1>1. savers[s] # Idle /\ SaveKept(s) /\ j \in Nat
  BY DEF CreatesInv, KeptInv, Idle
<1> QED
  BY <1>1 DEF SaveKept

\* A creation takes the first slug that is free: every smaller one it has
\* passed over is in use (_generate_unique_slug), as long as no slug is given up.
THEOREM FirstFreeIsTaken == CreatesSpec => []SmallestSuffix
BY CreatesInductive, CreatesTakeFirst, PTL

\* No slug makes a save fail: neither for want of retries nor with the error of
\* the slug's index.
NoSlugFailsASave ==
  \A s \in Savers :
    /\ savers[s].pc # "exhausted"
    /\ savers[s].pc = "raised" => savers[s].error = "other"

LEMMA CreatesSucceed == CreatesInv /\ starts <= MaxRetries => NoSlugFailsASave
<1> SUFFICES ASSUME CreatesInv, starts <= MaxRetries,
                    NEW s \in Savers,
                    \/ savers[s].pc = "exhausted"
                    \/ savers[s].pc = "raised" /\ savers[s].error # "other"
             PROVE  FALSE
  BY DEF NoSlugFailsASave
<1>1. savers[s] \in Save /\ savers[s] # Idle /\ SaveKept(s)
  BY DEF CreatesInv, KeptInv, IInv, TypeOK, Idle
<1>2. savers[s].pc = "exhausted" /\ ~savers[s].given
  BY <1>1 DEF SaveKept
<1>3. savers[s].failures = MaxRetries /\ Lost(s) = savers[s].failures /\ Lost(s) <= commits
  BY <1>1, <1>2, LostRange DEF CreatesInv, IInv, TypeOK, FailuresBounded, LossesAreRivals,
     Lost, Credit, Save
<1>4. InFlight # {} /\ IsFiniteSet(InFlight)
  BY <1>1 DEF CreatesInv, BudgetKept, InFlight
<1>5. Cardinality(InFlight) \in Nat /\ Cardinality(InFlight) # 0
  BY <1>4, FS_CardinalityType, FS_EmptySet
<1>6. commits + Cardinality(InFlight) <= starts /\ commits \in Nat /\ starts \in Nat
  BY DEF CreatesInv, BudgetKept, IInv, TypeOK
<1> QED
  BY <1>3, <1>5, <1>6, MaxRetriesIsPositive

\* As long as no slug is asked for or given up and no more saves are made than
\* slug_max_retries, none of them fails on account of its slug, for any titles and
\* whatever else is wrong with the rows: a save ends in its commit or raises the
\* error of another constraint again (SlugMixin.save).
THEOREM NoSlugFailsACreation == CreatesSpec => [](starts <= MaxRetries => NoSlugFailsASave)
BY CreatesInductive, CreatesSucceed, PTL

-------------------------------------------------------------------------------
(* The same of the behaviours the run explores                             *)

\* The scenario "creates" is a behaviour of creations with few enough saves.
LEMMA MCStepCreates ==
  ASSUME scenario = "creates" => CreatesInv /\ starts <= MaxRetries, [MCNext]_mcvars
  PROVE  (scenario = "creates" => CreatesInv /\ starts <= MaxRetries)'
<1>1. CASE MCNext /\ scenario = "creates"
  BY <1>1, StepCreates DEF MCNext
<1>2. CASE MCNext /\ scenario # "creates"
  BY <1>2 DEF MCNext
<1>3. CASE UNCHANGED mcvars
  BY <1>3, StepCreates DEF mcvars, vars
<1> QED
  BY <1>1, <1>2, <1>3

LEMMA MCCreates == MCSpec => [](scenario = "creates" => CreatesInv /\ starts <= MaxRetries)
<1>1. MCInit => (scenario = "creates" => CreatesInv /\ starts <= MaxRetries)
  BY InitCreates, MaxRetriesIsPositive DEF MCInit, Init
<1> QED
  BY <1>1, MCStepCreates, PTL DEF MCSpec

\* In the scenario "creates" the only error a save raises is that of a constraint
\* other than the slug's (SlugMixin.save).
THEOREM MCNoSlugFailsACreation == MCSpec => []SlugsFailNoCreation
<1>1. (scenario = "creates" => CreatesInv /\ starts <= MaxRetries) => SlugsFailNoCreation
  BY CreatesSucceed DEF SlugsFailNoCreation, NoSlugFailsASave
<1> QED
  BY <1>1, MCCreates, PTL

\* In the scenario "creates" a creation takes the first free slug
\* (_generate_unique_slug).
THEOREM MCFirstFreeIsTaken == MCSpec => []CreationsTakeFirstFree
<1>1. (scenario = "creates" => CreatesInv /\ starts <= MaxRetries) => CreationsTakeFirstFree
  BY CreatesTakeFirst DEF CreationsTakeFirstFree
<1> QED
  BY <1>1, MCCreates, PTL

===============================================================================
