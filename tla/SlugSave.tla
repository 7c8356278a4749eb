-------------------------------- MODULE SlugSave --------------------------------
(***************************************************************************)
(* SlugMixin.save: how posts, categories and tags get a unique slug when   *)
(* several requests save at once (apps/content/mixins.py).                 *)
(*                                                                         *)
(* A save with no slug probes base, base-1, base-2, ... one SELECT at a    *)
(* time and then writes; another save may commit the chosen slug between   *)
(* the probe and the write.  The unique index then rejects the write, and  *)
(* the save starts over, a bounded number of times.  A write may also be   *)
(* rejected by another constraint: a unique name, a foreign key.           *)
(*                                                                         *)
(* A slug is a sequence: a base, the slugify of a title, or a base with    *)
(* one number appended.  The empty sequence means "no row".                *)
(***************************************************************************)
EXTENDS Naturals, Sequences, FiniteSets

CONSTANTS
  Rows,        \* primary keys the table may come to hold
  Savers,      \* slots for saves in flight
  Bases,       \* the slugs titles give
  Requested,   \* slugs a PATCH may ask for
  MaxRetries,  \* slug_max_retries
  MaxStarts    \* bound on the saves of one behaviour

ASSUME BasesAreSlugs == Bases \subseteq Seq(Nat) \ {<<>>}
ASSUME RequestedAreSlugs == Requested \subseteq Seq(Nat) \ {<<>>}
ASSUME MaxRetriesIsPositive == MaxRetries \in Nat \ {0}
ASSUME MaxStartsIsNat == MaxStarts \in Nat

VARIABLES
  table,    \* the committed slug of each primary key
  savers,   \* what each slot is doing
  starts,   \* how many saves have begun
  commits   \* how many have been committed

vars == <<table, savers, starts, commits>>

-------------------------------------------------------------------------------
NoSlug == <<>>
Slugs == Seq(Nat)

\* The k-th slug probed for a base.
Candidate(base, k) == IF k = 0 THEN base ELSE Append(base, k)

Idle == [pc |-> "idle"]

\* row and base identify the object; slug is its attribute, NoSlug for None;
\* k counts the probes of this attempt and failures the attempts lost; error is
\* the constraint that rejected the last write.
Save == [pc : {"probe", "write", "conflict", "raised", "exhausted"}, row : Rows,
         base : Bases, slug : Slugs, k : Nat, failures : 0..MaxRetries, given : BOOLEAN,
         error : {"none", "slug", "other"}]

Init ==
  /\ table = [p \in Rows |-> NoSlug]
  /\ savers = [s \in Savers |-> Idle]
  /\ starts = 0
  /\ commits = 0

\* _slug_exists: some other row of the table, deleted posts included, has it.
Exists(slug, p) == \E q \in Rows \ {p} : table[q] # NoSlug /\ table[q] = slug

Busy(p) == \E s \in Savers : savers[s] # Idle /\ savers[s].row = p

Start(s, save) ==
  /\ savers[s] = Idle
  /\ starts < MaxStarts
  /\ starts' = starts + 1
  /\ savers' = [savers EXCEPT ![s] = save]
  /\ UNCHANGED <<table, commits>>

\* A create: a fresh primary key, and no slug yet.
StartCreate(s, p, base) ==
  /\ table[p] = NoSlug /\ ~Busy(p)
  /\ Start(s, [pc |-> "probe", row |-> p, base |-> base, slug |-> NoSlug,
               k |-> 0, failures |-> 0, given |-> FALSE, error |-> "none"])

\* An update: the object has the slug it was read with or the one the client
\* asks for, and _set_slug keeps it.
StartUpdate(s, p, base, slug) ==
  /\ table[p] # NoSlug
  /\ slug = table[p] \/ slug \in Requested
  /\ Start(s, [pc |-> "write", row |-> p, base |-> base, slug |-> slug,
               k |-> 0, failures |-> 0, given |-> TRUE, error |-> "none"])

\* Mutant: the counter is not advanced.
ProbeStuck(s) ==
  /\ savers[s].pc = "probe"
  /\ LET c == Candidate(savers[s].base, savers[s].k) IN
     savers' = IF Exists(c, savers[s].row)
               THEN savers
               ELSE [savers EXCEPT ![s].slug = c, ![s].pc = "write"]
  /\ UNCHANGED <<table, starts, commits>>

\* Mutant: the suffix grows by two.
ProbeSkipping(s) ==
  /\ savers[s].pc = "probe"
  /\ LET c == Candidate(savers[s].base, savers[s].k) IN
     savers' = IF Exists(c, savers[s].row)
               THEN [savers EXCEPT ![s].k = @ + 2]
               ELSE [savers EXCEPT ![s].slug = c, ![s].pc = "write"]
  /\ UNCHANGED <<table, starts, commits>>

\* One turn of the loop of _generate_unique_slug.
Probe(s) ==
  /\ savers[s].pc = "probe"
  /\ LET c == Candidate(savers[s].base, savers[s].k) IN
     savers' = IF Exists(c, savers[s].row)
               THEN [savers EXCEPT ![s].k = @ + 1]
               ELSE [savers EXCEPT ![s].slug = c, ![s].pc = "write"]
  /\ UNCHANGED <<table, starts, commits>>

\* super().save and commit: the unique index decides.
Write(s) ==
  /\ savers[s].pc = "write"
  /\ IF Exists(savers[s].slug, savers[s].row)
     THEN /\ savers' = [savers EXCEPT ![s].pc = "conflict", ![s].error = "slug"]
          /\ UNCHANGED <<table, commits>>
     ELSE /\ table' = [table EXCEPT ![savers[s].row] = savers[s].slug]
          /\ savers' = [savers EXCEPT ![s] = Idle]
          /\ commits' = commits + 1
  /\ UNCHANGED starts

\* Another constraint rejects the write, whether or not the slug is free.
WriteFails(s) ==
  /\ savers[s].pc = "write"
  /\ savers' = [savers EXCEPT ![s].pc = "conflict", ![s].error = "other"]
  /\ UNCHANGED <<table, starts, commits>>

\* Mutants: an attempt is counted twice, so that the bound is missed; the lost
\* slug is kept for the next attempt.
AgainTwice(save) ==
  LET lost == [save EXCEPT !.slug = NoSlug, !.k = 0, !.failures = @ + 2, !.error = "none"] IN
  [lost EXCEPT !.pc = IF lost.failures = MaxRetries THEN "exhausted" ELSE "probe"]
AgainSameSlug(save) ==
  IF save.failures + 1 = MaxRetries
  THEN [save EXCEPT !.pc = "exhausted", !.failures = @ + 1]
  ELSE [save EXCEPT !.pc = "write", !.failures = @ + 1, !.error = "none"]

\* What an attempt lost to another row leads to.
Again(save) ==
  LET lost == [save EXCEPT !.slug = NoSlug, !.k = 0, !.failures = @ + 1, !.error = "none"] IN
  [lost EXCEPT !.pc = IF lost.failures = MaxRetries THEN "exhausted" ELSE "probe"]

\* Mutant: every integrity error is raised again.
ResolveRaises(s) ==
  /\ savers[s].pc = "conflict"
  /\ savers' = [savers EXCEPT ![s].pc = "raised"]
  /\ UNCHANGED <<table, starts, commits>>

\* except IntegrityError: whatever constraint it was, if no other row has the
\* slug the error is raised again, else the slug is forgotten and generated anew.
Resolve(s) ==
  /\ savers[s].pc = "conflict"
  /\ savers' = [savers EXCEPT ![s] =
       IF Exists(@.slug, @.row) THEN Again(@) ELSE [@ EXCEPT !.pc = "raised"]]
  /\ UNCHANGED <<table, starts, commits>>

\* A category or a tag is deleted for good.
Remove(p) ==
  /\ table[p] # NoSlug
  /\ table' = [table EXCEPT ![p] = NoSlug]
  /\ UNCHANGED <<savers, starts, commits>>

-------------------------------------------------------------------------------
Begin(s) ==
  \E p \in Rows, base \in Bases :
    \/ StartCreate(s, p, base)
    \/ \E slug \in Requested \cup {table[p]} : StartUpdate(s, p, base, slug)

Step(s) == Probe(s) \/ Write(s) \/ WriteFails(s) \/ Resolve(s)

Next == (\E s \in Savers : Begin(s) \/ Step(s)) \/ \E p \in Rows : Remove(p)

Spec == Init /\ [][Next]_vars

\* The same without slugs that are asked for or given up: creations, and
\* updates that keep the slug.
CreatesNext ==
  \E s \in Savers :
    \/ \E p \in Rows, base \in Bases :
         StartCreate(s, p, base) \/ StartUpdate(s, p, base, table[p])
    \/ Step(s)

CreatesSpec == Init /\ [][CreatesNext]_vars

\* A worker that has begun a save goes on with it.
FairSpec == Spec /\ \A s \in Savers : WF_vars(Step(s))

-------------------------------------------------------------------------------
(* Properties                                                              *)

\* Every variable has its type, and no attempt is counted beyond MaxRetries
\* (the bounded loop of save).
TypeOK ==
  /\ table \in [Rows -> Slugs]
  /\ savers \in [Savers -> {Idle} \cup Save]
  /\ starts \in 0..MaxStarts
  /\ commits \in Nat

\* A save gives up only after it has lost a distinct commit of a rival for
\* each of its attempts; the first one is free when the slug was given.
ExhaustionNeedsRivals ==
  \A s \in Savers :
    savers[s].pc = "exhausted" =>
      commits >= IF savers[s].given THEN MaxRetries - 1 ELSE MaxRetries

\* Every slug a creation has passed over is in use (_generate_unique_slug).
SmallestSuffix ==
  \A s \in Savers :
    savers[s].pc \in {"probe", "write", "conflict"} =>
      \A j \in 0..savers[s].k :
        j < savers[s].k => Exists(Candidate(savers[s].base, j), savers[s].row)

\* Every save ends, in a commit or in an error.
EverySaveEnds ==
  \A s \in Savers : savers[s] # Idle ~> savers[s].pc \in {"idle", "raised", "exhausted"}

===============================================================================
