------------------------------- MODULE MCSlugSave -------------------------------
(***************************************************************************)
(* Instances of SlugSave for TLC.  The title "a" gives the slug <<0>>, and *)
(* the title "a 1" gives <<0, 1>>, which is also the first suffix of "a".  *)
(* A behaviour is of one scenario:                                         *)
(*   creates  as many saves as each has attempts, none with a slug it asks *)
(*            for, and no row removed;                                     *)
(*   errors   as many, some asking for the slug of "a", and rows removed;  *)
(*   rivals   more saves than that, and no errors but the slug's.          *)
(***************************************************************************)
EXTENDS SlugSave, TLC

CONSTANTS s1, s2, s3, w1, w2, w3

VARIABLE scenario

mcvars == <<vars, scenario>>

A == <<0>>
A1 == <<0, 1>>
ClashingBases == {A, A1}
OneRequested == {A}

MCInit == Init /\ scenario \in {"creates", "errors", "rivals"}

\* The saves that another constraint has rejected.
OtherErrors == {s \in Savers : savers[s] # Idle /\ savers[s].error = "other"}

MCNext ==
  /\ \/ scenario = "creates" /\ CreatesNext /\ starts' <= MaxRetries
     \/ scenario = "errors" /\ Next /\ starts' <= MaxRetries
     \/ scenario = "rivals" /\ Next /\ OtherErrors' = {}
  /\ UNCHANGED scenario

\* A worker that has begun a save goes on with it.
MCStep(s) == Step(s) /\ UNCHANGED scenario

MCSpec ==
  /\ MCInit
  /\ [][MCNext]_mcvars
  /\ \A s \in Savers : WF_mcvars(MCStep(s))

-------------------------------------------------------------------------------
(* Properties of the scenario creates                                      *)

\* No save fails on account of its slug as long as none is asked for or given up
\* and no more than slug_max_retries saves are made: the only error is that of
\* another constraint, raised again (SlugMixin.save).
SlugsFailNoCreation ==
  scenario = "creates" =>
    \A s \in Savers :
      /\ savers[s].pc # "exhausted"
      /\ savers[s].pc = "raised" => savers[s].error = "other"

\* As long as no slug is given up, a creation takes the first free one: every
\* smaller one is in use (_generate_unique_slug).
CreationsTakeFirstFree == scenario = "creates" => SmallestSuffix

===============================================================================
