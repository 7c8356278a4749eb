------------------------------- MODULE MCThrottle -------------------------------
(***************************************************************************)
(* Instances of Throttle for TLC.  No two routes share a scope, so each    *)
(* behaviour asks for one route only.  In the serial ones the requests do  *)
(* not overlap, take no time worth the name and find the cache up.         *)
(***************************************************************************)
EXTENDS Throttle, TLC

CONSTANTS
  r1, r2, u1, u2, ip,
  MaxOverlapping,     \* bound on the requests of a behaviour in which they overlap
  MaxOverlappingTime  \* bound on its clock

VARIABLES
  serial,  \* whether this is a serial behaviour
  route,   \* the route it asks for
  asked    \* the requests so far, when they overlap

mcvars == <<vars, serial, route, asked>>

\* The rates and windows of the settings, scaled down.
MCRate == [s \in AllScopes |-> IF s \in {"upload_hour", "login"} THEN 2 ELSE 1]
MCWindow ==
  [s \in AllScopes |-> IF s \in {"upload_hour", "login"} THEN 3
                      ELSE IF s = "upload_burst" THEN 1 ELSE 2]

Arrives == \E r \in Requests : reqs[r] = Idle /\ reqs'[r] # Idle

OneAtATime ==
  /\ ~CacheToggles
  /\ Arrives => \A r \in Requests : reqs[r] = Idle
  /\ now' # now => \A r \in Requests : reqs[r] = Idle
  /\ UNCHANGED asked

Overlapping ==
  /\ asked' = IF Arrives THEN asked + 1 ELSE asked
  /\ asked' <= MaxOverlapping
  /\ now' <= MaxOverlappingTime

MCInit ==
  /\ Init
  /\ asked = 0
  /\ \/ serial = TRUE /\ route \in Routes
     \/ serial = FALSE /\ route \in {"upload", "login"}

MCNext ==
  /\ Next
  /\ \A r \in {s \in Requests : reqs'[s] # Idle} : reqs'[r].route = route
  /\ IF serial THEN OneAtATime ELSE Overlapping
  /\ UNCHANGED <<serial, route>>

MCSpec == MCInit /\ [][MCNext]_mcvars

\* RatesKept where nothing overlaps.  When requests overlap, two of them can
\* read the same history and the later write forgets the earlier one.
SerialRatesKept == serial => RatesKept

MCSymmetry == Permutations(Requests)

===============================================================================
