---------------------------- MODULE MCMetricIngestion ----------------------------
(***************************************************************************)
(* Instances of MetricIngestion with the keys of EventKey: each view is a  *)
(* request, and has the key of its request.  In the scenario "calm" the    *)
(* cache answers, the database stores and no worker dies.                  *)
(***************************************************************************)
EXTENDS MetricIngestion, EventKey, TLC

CONSTANTS
  v1, v2, v3, v4,
  Texts,      \* what is between the ":" and the "." of the strings
  RequestOf   \* the request of each view

\* The texts that anonymize_ip puts in.
Padding(T) == "" \in T /\ "0" \in T

\* A string without ":", as slugs are and the names user_agents gives are taken to be;
\* an IPv6 address, as ipware writes it: eight groups or, with "::" for a run of
\* zeros, fewer; and an IPv4 address.
Words(T) == {word \in Seq(Seq(T)) : Len(word) = 1}
Ip6(T) == {ip \in Seq(Seq(T)) : Len(ip) \in 3..8}
Ip4(T) == {ip \in Seq(Seq(T)) : Len(ip) = 1 /\ Len(ip[1]) = 4}

PostRequests(T) ==
  [slug : Words(T), ip : Ip6(T) \cup Ip4(T), browser : Words(T), os : Words(T),
   device : Words(T)]

KeyOfRequest(request) == GenerateKey(PostViewEvent(request))

ASSUME PaddingIsText == Padding(Texts)
ASSUME RequestsAreValid == RequestOf \in [Views -> PostRequests(Texts)]
ASSUME KeysAreOfEvents ==
  \A u, v \in Views :
    KeyOf[u] = KeyOf[v] <=> KeyOfRequest(RequestOf[u]) = KeyOfRequest(RequestOf[v])

\* An IPv6 address whose text begins with its first four groups.  In any other the
\* "::" is among its first four parts, and what anonymize_ip takes for the network
\* are groups of the host, or of another network.
Gap == <<"">>
NetworkShown(ip) == HasColon(ip) => Len(ip) >= 4 /\ \A i \in 1..4 : ip[i] # Gap

\* The first four groups, or the first three bytes, of an address that shows them.
NetworkOf(ip) == IF HasColon(ip) THEN SubSeq(ip, 1, 4) ELSE SubSeq(ip[1], 1, 3)

\* Who a view is by: what the key should tell apart, and nothing else.
Visitor(v) ==
  LET q == RequestOf[v] IN <<q.slug, NetworkOf(q.ip), q.browser, q.os, q.device>>

VARIABLE scenario

mcvars == <<vars, scenario>>

-------------------------------------------------------------------------------
(* The values for TLC                                                      *)

\* a:b:c:d:e:: and a:b::f
Tailed6(a, b, c, d, e) == << <<a>>, <<b>>, <<c>>, <<d>>, <<e>>, <<"">>, <<"">> >>
Short6(a, b, f) == << <<a>>, <<b>>, <<"">>, <<f>> >>

From(ip, os) ==
  [slug |-> Word("post"), ip |-> ip, browser |-> Word("Firefox"), os |-> Word(os),
   device |-> Word("Other")]

MCTexts == {"", "0", "1", "2", "2001", "db8", "b", "post", "Firefox", "Linux", "Windows",
            "Other"}

\* Views from one network, the third with another agent; the address of the last
\* one does not show the network.
MCRequestOf ==
  v1 :> From(Tailed6("2001", "db8", "0", "0", "1"), "Linux")
  @@ v2 :> From(Tailed6("2001", "db8", "0", "0", "2"), "Linux")
  @@ v3 :> From(Tailed6("2001", "db8", "0", "0", "1"), "Windows")
  @@ v4 :> From(Short6("2001", "db8", "b"), "Linux")

\* A key goes by the name of one of the views that have it.
MCKeyOf ==
  LET key == [v \in DOMAIN MCRequestOf |-> KeyOfRequest(MCRequestOf[v])]
  IN [v \in DOMAIN MCRequestOf |-> CHOOSE u \in DOMAIN MCRequestOf : key[u] = key[v]]

-------------------------------------------------------------------------------
Calm ==
  /\ ~CacheToggles /\ deaths' = deaths
  /\ \A v \in Views : ~TaskFails(v)

\* Faults are met by the two views that share a key.
Faulty == task'[v3] = task[v3] /\ task'[v4] = task[v4]

MCInit == Init /\ scenario \in {"calm", "faults"}
MCNext == Next /\ UNCHANGED scenario /\ IF scenario = "calm" THEN Calm ELSE Faulty
MCSpec == MCInit /\ [][MCNext]_mcvars /\ \A v \in Views : WF_vars(Work(v))

\* As long as nothing fails every event that was queued is counted, by its own
\* task or as a duplicate of one that is (ingest_event).
CountedWhenCalm ==
  scenario = "calm" =>
    \A v \in Views : task[v].pc = "queued" ~> records[KeyOf[v]] > 0

\* As long as nothing fails and no key expires, every key that was tracked has one
\* record in the end, and a visitor whose address shows its network has one of
\* his own: all his views lead to it and nobody else's does (generate_key,
\* anonymize_ip).  Nothing is promised of visitors whose addresses do not: the code
\* counts them by host, or two networks as one.
VisitorsCountedOnce ==
  LET Counted == {v \in Views : task[v].pc = "done"}
      Shown == {v \in Counted : NetworkShown(RequestOf[v].ip)}
  IN
  scenario = "calm" /\ expired = [k \in Keys |-> 0]
    /\ (\A v \in Views : task[v].pc \in {"new", "untracked", "done"}) =>
    /\ \A k \in Keys : records[k] = IF \E v \in Counted : KeyOf[v] = k THEN 1 ELSE 0
    /\ \A u \in Shown, v \in Counted :
         KeyOf[v] = KeyOf[u] <=> v \in Shown /\ Visitor(v) = Visitor(u)

===============================================================================
