-------------------------------- MODULE EventKey --------------------------------
(***************************************************************************)
(* The key under which a view is counted once (apps/metrics): the event is *)
(* built from the request, the address is cut to its network, and the      *)
(* configured fields are joined with ":".  A string is the sequence of its *)
(* ":"-separated parts, and a part that of its "."-separated ones, since   *)
(* that is how the code takes addresses apart and puts keys together.      *)
(***************************************************************************)
EXTENDS Naturals, Sequences

\* The string with no ":" and no "." in it.
Word(w) == << <<w>> >>
Empty == Word("")

\* An IPv6 address has a ":", an IPv4 address none.
HasColon(ip) == Len(ip) > 1

Smaller(a, b) == IF a < b THEN a ELSE b

\* Mutant: one group too many.
NetworkWide(ip) == SubSeq(ip, 1, Smaller(5, Len(ip))) \o <<<<"">>, <<"">>>>

\* ":".join(parts[:4]) + "::"
Network(ip) == SubSeq(ip, 1, Smaller(4, Len(ip))) \o <<<<"">>, <<"">>>>

\* anonymize_ip; an address it can make nothing of gives None, then "".
AnonymizeIp(ip) ==
  IF HasColon(ip) THEN Network(ip)
  ELSE IF Len(ip[1]) = 4 THEN << SubSeq(ip[1], 1, 3) \o <<"0">> >>
  ELSE Empty

\* PostViewEvent.from_request, __post_init__ and get_metadata; the referrer and
\* the login are in the record and not in the key.
PostViewEvent(request) ==
  [post_slug |-> request.slug, ip_prefix |-> AnonymizeIp(request.ip),
   browser |-> request.browser, os |-> request.os, device |-> request.device]

\* DEDUP_EVENT_CONFIG
Fields == <<"post_slug", "ip_prefix", "browser", "os", "device">>

\* generate_key: what is hashed.  Joining with ":" concatenates the parts.
GenerateKey(event) ==
  LET joined[i \in 0..Len(Fields)] ==
        IF i = 0 THEN <<>> ELSE joined[i - 1] \o event[Fields[i]]
  IN joined[Len(Fields)]

===============================================================================
