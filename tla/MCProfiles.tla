------------------------------- MODULE MCProfiles -------------------------------
(***************************************************************************)
(* Instances of Profiles for TLC.  In the scenario "serial" one request is *)
(* answered before the next begins.                                        *)
(***************************************************************************)
EXTENDS Profiles, TLC

CONSTANTS r1, r2

VARIABLE scenario

mcvars == <<vars, scenario>>
MCInit == Init /\ scenario \in {"concurrent", "serial"}
OneAtATime ==
  scenario = "serial" => \A a, b \in Requests : reqs'[a] # Idle /\ reqs'[b] # Idle => a = b
MCNext == Next /\ UNCHANGED scenario /\ OneAtATime
MCSpec == MCInit /\ [][MCNext]_mcvars

Symmetry == Permutations(Requests)

Lnk(id, platform, site) == [id |-> id, platform |-> platform, site |-> site]

\* A list as the set of its items, each with its place.
Placed(list) == {list[n] @@ [place |-> n] : n \in DOMAIN list}

\* Nothing, one new or known link, a swap of two platforms, partial items, an
\* address that does not fit, two items for one link, and the key of another
\* profile's link.
MCLists ==
  {Placed(list) : list \in
    {<<>>, <<Lnk(0, "x", "x")>>, <<Lnk(1, "x", "x")>>, <<Lnk(0, "x", "github")>>,
     <<Lnk(0, "x", "x"), Lnk(0, "github", "github")>>,
     <<Lnk(1, "github", "github"), Lnk(2, "x", "x")>>,
     <<Lnk(1, "x", Absent)>>, <<Lnk(0, "x", Absent), Lnk(0, Absent, "x")>>,
     <<Lnk(1, Absent, Absent), Lnk(0, "github", "github")>>,
     <<Lnk(1, "x", "x"), Lnk(1, "github", "github")>>,
     <<Lnk(4, "x", "x")>>}}

\* When nothing happens in between, a request that does not give the visibility
\* leaves it as it is ("Only provided fields are updated", the schema of PATCH).
OnlyProvidedFields == [][scenario = "serial" => KeepsWhatIsNotGiven]_mcvars

===============================================================================
