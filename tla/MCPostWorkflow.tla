----------------------------- MODULE MCPostWorkflow -----------------------------
(***************************************************************************)
(* Instances of PostWorkflow for TLC.  A behaviour is of one scenario:     *)
(*   overlapping  three requests of every kind at once on one post;        *)
(*   locked       three requests at once, none of them an update, on two   *)
(*                posts of different authors, one an administrator;        *)
(*   serial       requests of every kind of both users on the one post,    *)
(*                one at a time.                                           *)
(***************************************************************************)
EXTENDS PostWorkflow, TLC

CONSTANTS p1, p2, alice, root, r1, r2, r3, t1, Scenarios

VARIABLE scenario

mcvars == <<vars, scenario>>

TwoOwners == [p \in Posts |-> IF p = p1 THEN alice ELSE root]

\* The clients of the larger scenarios send one title and no tag.
OneTitle == {data \in UpdateData : data.title \in {t1, Absent} /\ data.tags \in {{}, Absent}}

NoUpdate == \A r \in Requests : reqs'[r] # Idle => reqs'[r].kind # "update"

OneAtATime == \A a, b \in Requests : reqs'[a] # Idle /\ reqs'[b] # Idle => a = b

MCInit == Init /\ scenario \in Scenarios

MCNext ==
  /\ \/ /\ scenario = "overlapping"
        /\ \E r \in Requests : Begin(r, Posts \cap {p1}, OneTitle) \/ Finish(r)
     \/ /\ scenario = "locked"
        /\ (\E r \in Requests : Begin(r, Posts, OneTitle) \/ Finish(r)) \/ Tick
        /\ NoUpdate
     \/ /\ scenario = "serial"
        /\ (\E r \in Requests : Begin(r, Posts \cap {p1}, UpdateData) \/ Finish(r)) \/ Tick
        /\ OneAtATime
  /\ UNCHANGED scenario

MCSpec == MCInit /\ [][MCNext]_mcvars

SlotSymmetry == Permutations(Requests)

-------------------------------------------------------------------------------
(* Properties of single scenarios                                          *)

\* Without updates the requests implement the life cycle readers are promised,
\* however they overlap (transition_to).
LockedImplementsLifecycle ==
  /\ scenario = "locked" => Lifecycle!Init
  /\ [][scenario = "locked" => [Lifecycle!Next]_(Lifecycle!vars)]_mcvars

\* While a post is published no update changes its title or its tags
\* (PostUpdateSerializer.validate), as long as requests do not overlap; the tags
\* it was created with may still be on their way.
SerialPublishedFrozen == [][scenario = "serial" => PublishedStaysFrozen]_mcvars

\* No post is published without content (PostStatusSerializer.validate), as long
\* as requests do not overlap.
SerialPublishedWithContent == [][scenario = "serial" => PublicationHasContent]_mcvars

\* A status moves only along ALLOWED_TRANSITIONS, as long as requests do not
\* overlap.
SerialTransitionsFollowTable == [][scenario = "serial" => OnTable]_mcvars

\* The date of the first publication survives archiving, deleting, restoring
\* and publishing again (transition_to sets it only when it is null), as long as
\* requests do not overlap.
SerialFirstPublicationKept == [][scenario = "serial" => DatesStay]_mcvars

===============================================================================
