-------------------------------- MODULE Throttle --------------------------------
(***************************************************************************)
(* Rate limits (config/throttle.py).  A request is put before the          *)
(* throttles of its route, one after the other, also when one has refused. *)
(* Each of them keeps, in the cache, the times at which it let the same    *)
(* identity through.  That history is read and written back without a      *)
(* lock, and the cache of the production settings answers with nothing,    *)
(* and swallows what it is given, while it is down.                        *)
(***************************************************************************)
EXTENDS Naturals, SequencesExt

CONSTANTS
  Requests,   \* slots for requests in flight
  Users,      \* authenticated users
  Addresses,  \* client addresses
  Anonymous,  \* no user
  Rate,       \* Rate[s]: how many requests scope s lets through ...
  Window,     \* Window[s]: ... in how much time
  Routes,     \* the routes asked for
  MaxTime     \* bound on the clock

AllScopes == {"anon_read", "user_read", "login", "token", "write",
              "upload_hour", "upload_burst", "password_change"}
AllRoutes == {"read", "write", "upload", "login", "token", "password"}

ASSUME RatesArePositive == Rate \in [AllScopes -> Nat \ {0}]
ASSUME WindowsArePositive == Window \in [AllScopes -> Nat \ {0}]
ASSUME RoutesKnown == Routes \subseteq AllRoutes
ASSUME MaxTimeIsNat == MaxTime \in Nat

VARIABLES
  now,       \* the clock
  cacheUp,   \* whether the cache can be reached
  history,   \* the cache: when each scope let each identity through, newest first
  reqs,      \* what each request slot is doing
  admitted,  \* every admission by each scope of each client, for the properties
  passed     \* those of requests that all their throttles let through

vars == <<now, cacheUp, history, reqs, admitted, passed>>

-------------------------------------------------------------------------------
(* Which throttles, and whom they see                                      *)

Visitor == [user : Users \cup {Anonymous}, ip : Addresses]

\* The permissions come first: nobody uploads or changes a password anonymously.
MayAsk(route, who) == route \in {"upload", "password"} => who.user # Anonymous

\* get_throttles of the mixin and of UserViewSet; throttle_classes in the urls.
Throttles(route, who) ==
  CASE route = "upload"   -> <<"upload_hour", "upload_burst">>
    [] route = "read"     -> IF who.user = Anonymous THEN <<"anon_read">> ELSE <<"user_read">>
    [] route = "write"    -> <<"write">>
    [] route = "login"    -> <<"login">>
    [] route = "token"    -> <<"token">>
    [] route = "password" -> <<"password_change">>

Identities == Users \cup Addresses

\* The views that hand out tokens authenticate nobody.
Client(route, who) ==
  IF who.user = Anonymous \/ route \in {"login", "token"} THEN who.ip ELSE who.user

\* get_cache_key
Identity(route, who) == Client(route, who)

-------------------------------------------------------------------------------
Times == Seq(0..MaxTime)

Idle == [pc |-> "idle"]

\* ask: before a throttle or, with none to do, before the view; put: admitted
\* by the throttle Head(todo), which has not written the history yet.
Request ==
  {Idle}
  \cup [pc : {"ask", "put"}, route : Routes, who : Visitor, todo : Seq(AllScopes),
        refused : BOOLEAN, seen : Times]

Nothing == [s \in AllScopes |-> [i \in Identities |-> <<>>]]

Init ==
  /\ now = 0
  /\ cacheUp = TRUE
  /\ history = Nothing
  /\ reqs = [r \in Requests |-> Idle]
  /\ admitted = Nothing
  /\ passed = Nothing

Arrive(r, route, who) ==
  /\ reqs[r] = Idle
  /\ MayAsk(route, who)
  /\ reqs' = [reqs EXCEPT ![r] =
       [pc |-> "ask", route |-> route, who |-> who, todo |-> Throttles(route, who),
        refused |-> FALSE, seen |-> <<>>]]
  /\ UNCHANGED <<now, cacheUp, history, admitted, passed>>

\* Mutant: nothing is ever forgotten.
RecentAll(times, s) == times

\* Whether an admission still counts: it is younger than the window.
Young(t, s) == t + Window[s] > now

\* Old admissions are dropped from the end of the history, up to the first
\* that still counts.
Recent(times, s) ==
  SubSeq(times, 1, CHOOSE k \in 0..Len(times) :
                     /\ \A i \in k+1..Len(times) : ~Young(times[i], s)
                     /\ k > 0 => Young(times[k], s))

\* Mutant: one admission too many.
FullLate(recent, s) == Len(recent) > Rate[s]

Full(recent, s) == Len(recent) >= Rate[s]

\* Mutant: the answer of the last throttle stands.
RefusedLast(q, full) == full

\* Any refusal is final, but the other throttles are asked all the same.
Refused(q, full) == q.refused \/ full

\* allow_request of one throttle, up to its answer.  A history that has
\* expired in the cache holds nothing recent.
Ask(r) ==
  /\ reqs[r].pc = "ask" /\ reqs[r].todo # <<>>
  /\ LET q == reqs[r]
         s == Head(q.todo)
         stored == IF cacheUp THEN history[s][Identity(q.route, q.who)] ELSE <<>>
         recent == Recent(stored, s)
         full == Full(recent, s)
     IN
     /\ reqs' = [reqs EXCEPT ![r] =
          [q EXCEPT !.pc = IF full THEN "ask" ELSE "put",
                    !.todo = IF full THEN Tail(@) ELSE @,
                    !.refused = Refused(q, full),
                    !.seen = IF full THEN <<>> ELSE <<now>> \o recent]]
     /\ admitted' = IF full THEN admitted
                    ELSE [admitted EXCEPT ![s][Client(q.route, q.who)] = <<now>> \o Recent(@, s)]
  /\ UNCHANGED <<now, cacheUp, history, passed>>

\* throttle_success: the whole history goes back.
Put(r) ==
  /\ reqs[r].pc = "put"
  /\ LET q == reqs[r]
         s == Head(q.todo)
     IN
     /\ history' = IF cacheUp THEN [history EXCEPT ![s][Identity(q.route, q.who)] = q.seen]
                   ELSE history
     /\ reqs' = [reqs EXCEPT ![r] =
          [q EXCEPT !.pc = "ask", !.todo = Tail(@), !.seen = <<>>]]
  /\ UNCHANGED <<now, cacheUp, admitted, passed>>

\* check_throttles: the view runs, or the client gets a 429.
Answer(r) ==
  /\ reqs[r].pc = "ask" /\ reqs[r].todo = <<>>
  /\ LET q == reqs[r]
         charged == ToSet(Throttles(q.route, q.who))
     IN passed' = IF q.refused THEN passed
                  ELSE [s \in AllScopes |->
                         IF s \in charged
                         THEN [passed[s] EXCEPT ![Client(q.route, q.who)] = <<now>> \o Recent(@, s)]
                         ELSE passed[s]]
  /\ reqs' = [reqs EXCEPT ![r] = Idle]
  /\ UNCHANGED <<now, cacheUp, history, admitted>>

Tick ==
  /\ now < MaxTime
  /\ now' = now + 1
  /\ UNCHANGED <<cacheUp, history, reqs, admitted, passed>>

CacheToggles ==
  /\ cacheUp' = ~cacheUp
  /\ UNCHANGED <<now, history, reqs, admitted, passed>>

Next ==
  \/ \E r \in Requests :
       \/ \E route \in Routes, who \in Visitor : Arrive(r, route, who)
       \/ Ask(r) \/ Put(r) \/ Answer(r)
  \/ Tick
  \/ CacheToggles

Spec == Init /\ [][Next]_vars

-------------------------------------------------------------------------------
(* Properties                                                              *)

\* Every variable has its type, and no stored history is longer than the rate.
TypeOK ==
  /\ now \in 0..MaxTime
  /\ cacheUp \in BOOLEAN
  /\ {history, admitted, passed} \subseteq [AllScopes -> [Identities -> Times]]
  /\ \A s \in AllScopes, i \in Identities : Len(history[s][i]) <= Rate[s]
  /\ reqs \in [Requests -> Request]

\* How many of these times lie in the last window of s.
Lately(times, s) == Cardinality({i \in DOMAIN times : Young(times[i], s)})

\* A scope refuses a client only when it has let that same client through as
\* often as its rate within its window: whatever requests overlap, and whether
\* or not the cache answers, no client pays for another one or for requests of
\* long ago (get_cache_key, allow_request).  The client is the user or, where
\* nobody is logged in and on the login and token routes, the address, which
\* all users behind it share.
NoFalseRefusal ==
  [][\A r \in Requests :
       LET q == reqs[r] IN
       q.pc = "ask" /\ reqs'[r] # q /\ reqs'[r] # Idle /\ reqs'[r].pc = "ask" =>
         Lately(admitted[Head(q.todo)][Client(q.route, q.who)], Head(q.todo))
           >= Rate[Head(q.todo)]]_vars

\* The views run for one client at most as often as every limit on their route
\* allows, in every window.
RatesKept ==
  \A s \in AllScopes, i \in Identities : Lately(passed[s][i], s) <= Rate[s]

===============================================================================
