----------------------------- MODULE ProfilesProofs -----------------------------
(***************************************************************************)
(* Theorems about Profiles for any requests, keys and lists of links.      *)
(***************************************************************************)
EXTENDS MCProfiles, TLAPS

Tables == [Ids -> Link \cup {NoLink}]

\* What a request holds of the links is still true: nobody else can commit
\* while it has the row.
ViewIsCurrent ==
  \A r \in Requests : reqs[r].pc = "listed" =>
    reqs[r].existing = LinksOf(links) /\ reqs[r].items \in Accepted(reqs[r].partial)

IInv == TypeOK /\ ViewIsCurrent

LEMMA NoLinkIsNoLink == NoLink \notin Link
BY DEF NoLink, Link

\* The operators on tables of links.

LEMMA CreatedIsLink ==
  ASSUME NEW item \in Item
  PROVE  Created(item) \in Link
BY DEF Created, Filled, Item, Link

LEMMA InsertedType ==
  ASSUME NEW table \in Tables, NEW items \in SUBSET Item, NEW f
  PROVE  Inserted(table, items, f) \in Tables
<1>1. \A i \in Ids : (\E item \in items : f[item] = i) =>
        Created(CHOOSE item \in items : f[item] = i) \in Link
  BY CreatedIsLink
<1> QED BY <1>1 DEF Inserted, Tables

LEMMA InsertedAt ==
  ASSUME NEW table, NEW items, NEW f, NEW i \in Ids
  PROVE  \/ Inserted(table, items, f)[i] = table[i] /\ ~\E item \in items : f[item] = i
         \/ \E item \in items : f[item] = i /\ Inserted(table, items, f)[i] = Created(item)
BY DEF Inserted

\* Every part of these items has a last one (PartsHaveALast).
Ordered(items) ==
  \A part \in SUBSET items :
    part # {} => \E last \in part : \A other \in part : other.place <= last.place

LEMMA LatestIsOne ==
  ASSUME NEW items, Ordered(items), NEW part \in SUBSET items, part # {}
  PROVE  Latest(part) \in part
<1>1. \E last \in part : \A other \in part : other.place <= last.place
  BY DEF Ordered
<1> QED BY <1>1 DEF Latest

\* A patched link is a link.
LEMMA PatchedIsLink ==
  ASSUME NEW link \in Link, NEW items \in SUBSET Item, Ordered(items), NEW i
  PROVE  Patched(link, items, i) \in Link
<1>1. ASSUME NEW field \in {"platform", "site"}
      PROVE  FieldOf(items, i, field, link[field]) \in Platforms \cup {Blank}
  <2>1. CASE Giving(items, i, field) = {}
    BY <2>1 DEF FieldOf, Link
  <2>2. CASE Giving(items, i, field) # {}
    <3>1. Giving(items, i, field) \in SUBSET items
      BY DEF Giving
    <3>2. Latest(Giving(items, i, field)) \in Giving(items, i, field)
      BY <2>2, <3>1, LatestIsOne
    <3>3. PICK item \in items : item = Latest(Giving(items, i, field)) /\ item[field] # Absent
      BY <3>2 DEF Giving
    <3>4. item[field] \in Platforms
      BY <3>3 DEF Item
    <3> QED BY <2>2, <3>3, <3>4 DEF FieldOf
  <2> QED BY <2>1, <2>2
<1> QED BY <1>1 DEF Patched, Link

\* Whole items that passed validation do not part a platform from its site, not
\* even several for one link: the same one is the last to give either.
LEMMA WholeItemsFit ==
  ASSUME NEW items, Ordered(items), NEW i, NEW link, \E item \in items : item.id = i,
         \A item \in items : Valid(item) /\ Whole(item)
  PROVE  Patched(link, items, i).platform = Patched(link, items, i).site
<1>1. Giving(items, i, "platform") = Giving(items, i, "site")
  BY DEF Giving, Whole
<1> DEFINE given == Giving(items, i, "platform")
<1>2. given # {} /\ given \in SUBSET items
  BY DEF Giving, Whole
<1>3. Latest(given) \in items
  BY <1>2, LatestIsOne
<1> HIDE DEF given
<1>4. Latest(given).platform = Latest(given).site
  BY <1>3 DEF Valid
<1>5. Patched(link, items, i) = [platform |-> Latest(given).platform, site |-> Latest(given).site]
  BY <1>1, <1>2 DEF Patched, FieldOf, given
<1> QED BY <1>4, <1>5

LEMMA UpdatedType ==
  ASSUME NEW table \in Tables, NEW matched \in SUBSET Item, NEW done, Ordered(matched),
         \A item \in matched : item.id \in LinksOf(table)
  PROVE  /\ Updated(table, matched, done) \in Tables
         /\ \A i \in Ids : Updated(table, matched, done)[i] # table[i] =>
              /\ \E item \in matched : item.id = i
              /\ Updated(table, matched, done)[i] = Patched(table[i], matched, i)
<1> DEFINE named(i) == \E item \in matched : item.id = i
<1>1. ASSUME NEW i \in Ids, named(i)
      PROVE  Patched(table[i], matched, i) \in Link
  <2>1. table[i] \in Link
    BY <1>1 DEF LinksOf, Tables
  <2> QED BY <2>1, PatchedIsLink
<1>2. Updated(table, matched, done) =
        [i \in Ids |-> IF i \in done /\ named(i) THEN Patched(table[i], matched, i) ELSE table[i]]
  BY DEF Updated
<1> HIDE DEF named
<1>3. Updated(table, matched, done) \in Tables
  BY <1>1, <1>2 DEF Tables
<1>4. ASSUME NEW i \in Ids, Updated(table, matched, done)[i] # table[i]
      PROVE  named(i) /\ Updated(table, matched, done)[i] = Patched(table[i], matched, i)
  BY <1>2, <1>4
<1> QED BY <1>3, <1>4 DEF named

\* What a PUT leaves: items under their own key or a new one.
LEMMA PutOutcome ==
  ASSUME NEW items \in SUBSET Item, NEW table \in Put(items)
  PROVE  /\ table \in Tables
         /\ \A i \in LinksOf(table) : \E item \in items :
              (item.id = i \/ links[i] = NoLink) /\ table[i] = Created(item)
<1> DEFINE empty == [i \in Ids |-> NoLink]
           named == {item \in items : item.id # NoId}
<1>1. PICK f \in KeysFor(items, named) : table = Inserted(empty, items, f)
  BY DEF Put
<1>2. empty \in Tables
  BY DEF Tables
<1> HIDE DEF empty
<1>3. Inserted(empty, items, f) \in Tables
  BY <1>2, InsertedType
<1>4. ASSUME NEW i \in LinksOf(table)
      PROVE  \E item \in items :
               (item.id = i \/ links[i] = NoLink) /\ table[i] = Created(item)
  <2>1. i \in Ids /\ table[i] # NoLink /\ empty[i] = NoLink
    BY DEF LinksOf, empty
  <2>2. PICK item \in items : f[item] = i /\ table[i] = Created(item)
    BY <1>1, <2>1, InsertedAt
  <2>3. item.id = i \/ i \notin LinksOf(links)
    BY <1>1, <2>2 DEF KeysFor
  <2> QED BY <2>1, <2>2, <2>3 DEF LinksOf
<1> QED BY <1>1, <1>3, <1>4

\* The items for existing links.
Matched(items) == {item \in items : item.id \in LinksOf(links)}

\* What a PATCH leaves: links that were sent, as far as they existed.
LEMMA PatchOutcome ==
  ASSUME links \in Tables, NEW items \in SUBSET Item, Ordered(items),
         NEW table \in Patch(LinksOf(links), items)
  PROVE  /\ table \in Tables
         /\ \A i \in LinksOf(table) :
              /\ links[i] = NoLink \/ \E item \in items : item.id = i
              /\ table[i] # links[i] =>
                   \/ \E item \in items : table[i] = Created(item)
                   \/ /\ \E item \in Matched(items) : item.id = i
                      /\ table[i] = Patched(links[i], Matched(items), i)
<1> DEFINE matched == Matched(items)
           sent == {item.id : item \in matched}
<1>1. PICK f, base :
        /\ f \in KeysFor(items \ matched, {})
        /\ base = Inserted(links, items \ matched, f)
        /\ table = [i \in Ids |-> IF i \in ToDelete(LinksOf(links), sent) THEN NoLink
                                  ELSE Updated(base, matched, Ids)[i]]
  BY DEF Patch, Matched
<1>2. /\ base \in Tables
      /\ \A i \in Ids :
           \/ base[i] = links[i] /\ ~\E item \in items \ matched : f[item] = i
           \/ \E item \in items \ matched : f[item] = i /\ base[i] = Created(item)
  <2> DEFINE rest == items \ matched
  <2>1. rest \in SUBSET Item /\ base = Inserted(links, rest, f)
    BY <1>1
  <2> HIDE DEF rest
  <2>2. base \in Tables
    BY <2>1, InsertedType
  <2>3. ASSUME NEW i \in Ids
        PROVE  \/ base[i] = links[i] /\ ~\E item \in rest : f[item] = i
               \/ \E item \in rest : f[item] = i /\ base[i] = Created(item)
    BY <2>1, InsertedAt
  <2> QED BY <2>2, <2>3 DEF rest
<1>3. \A i \in LinksOf(links) : base[i] = links[i] /\ i \in LinksOf(base)
  <2>1. \A i \in LinksOf(links) : ~\E item \in items \ matched : f[item] = i
    BY <1>1 DEF KeysFor, Matched
  <2> HIDE DEF matched
  <2> QED BY <1>2, <2>1 DEF LinksOf
<1> DEFINE updated == Updated(base, matched, Ids)
<1>4. /\ updated \in Tables
      /\ \A i \in Ids : updated[i] # base[i] =>
           (\E item \in matched : item.id = i) /\ updated[i] = Patched(base[i], matched, i)
  <2>1. \A item \in matched : item.id \in LinksOf(base)
    BY <1>3 DEF Matched
  <2>2. matched \in SUBSET Item /\ Ordered(matched)
    BY DEF Matched, Ordered
  <2> HIDE DEF matched
  <2> QED BY <1>2, <2>1, <2>2, UpdatedType
<1>5. \A i \in Ids : table[i] = IF i \in ToDelete(LinksOf(links), sent) THEN NoLink ELSE updated[i]
  BY <1>1
<1>6. table \in Tables
  <2> HIDE DEF updated
  <2>1. table = [i \in Ids |-> IF i \in ToDelete(LinksOf(links), sent) THEN NoLink ELSE updated[i]]
    BY <1>1 DEF updated
  <2> QED BY <1>4, <2>1 DEF Tables
<1> HIDE DEF updated
<1>7. ASSUME NEW i \in LinksOf(table)
      PROVE  /\ links[i] = NoLink \/ \E item \in items : item.id = i
             /\ table[i] # links[i] =>
                  \/ \E item \in items : table[i] = Created(item)
                  \/ /\ \E item \in matched : item.id = i
                     /\ table[i] = Patched(links[i], matched, i)
  <2>1. i \in Ids /\ i \notin ToDelete(LinksOf(links), sent) /\ table[i] = updated[i]
    BY <1>5 DEF LinksOf
  <2>2. CASE i \in LinksOf(links)
    <3>1. i \in sent /\ matched \subseteq items
      BY <2>1, <2>2 DEF ToDelete, Matched
    <3>2. base[i] = links[i]
      BY <1>3, <2>2
    <3> QED BY <1>4, <2>1, <3>1, <3>2
  <2>3. CASE i \notin LinksOf(links)
    <3>1. links[i] = NoLink
      BY <2>1, <2>3 DEF LinksOf
    <3>2. updated[i] = base[i]
      BY <1>4, <2>1, <2>3 DEF Matched
    <3>3. base[i] # links[i] => \E item \in items : base[i] = Created(item)
      BY <1>2, <2>1
    <3> QED BY <2>1, <3>1, <3>2, <3>3
  <2> QED BY <2>2, <2>3
<1> QED BY <1>6, <1>7

\* Every outcome of a list that was accepted is a table of links; one that a
\* list decided holds links it named or new ones, and mismatched ones only
\* where an item was partial.
LEMMA OutcomeSound ==
  ASSUME links \in Tables, NEW q, NEW table \in Outcomes(q), q.partial \in BOOLEAN,
         q.items \in Accepted(q.partial), q.existing = LinksOf(links)
  PROVE  /\ table \in Tables
         /\ \A i \in LinksOf(table) : table[i] # links[i] =>
              /\ links[i] = NoLink \/ \E item \in q.items : item.id = i
              /\ table[i].platform # table[i].site =>
                   q.partial /\ \E item \in q.items : ~Whole(item)
         /\ q.items # NoList => \A i \in LinksOf(table) :
              links[i] = NoLink \/ \E item \in q.items : item.id = i
<1>1. CASE q.items = NoList
  BY <1>1 DEF Outcomes
<1>2. CASE q.items # NoList
  <2>1. /\ q.items \in SUBSET Item /\ Ordered(q.items)
        /\ \A item \in q.items : Valid(item) /\ (q.partial \/ Whole(item))
    BY <1>2, ListsAreItems, PartsHaveALast DEF Accepted, Ordered
  <2>2. ASSUME NEW item \in q.items, Whole(item)
        PROVE  Created(item).platform = Created(item).site
    BY <2>1, <2>2 DEF Valid, Whole, Created, Filled
  <2>5. ASSUME \A item \in q.items : Whole(item), NEW i,
               \E item \in Matched(q.items) : item.id = i
        PROVE  Patched(links[i], Matched(q.items), i).platform
                 = Patched(links[i], Matched(q.items), i).site
    <3>1. Ordered(Matched(q.items)) /\ \A item \in Matched(q.items) : Valid(item) /\ Whole(item)
      BY <2>1, <2>5 DEF Ordered, Matched
    <3> QED BY <2>5, <3>1, WholeItemsFit
  <2>3. CASE q.partial
    <3>1. table \in Patch(LinksOf(links), q.items)
      BY <1>2, <2>3 DEF Outcomes
    <3>2. /\ table \in Tables
          /\ \A i \in LinksOf(table) :
               /\ links[i] = NoLink \/ \E item \in q.items : item.id = i
               /\ table[i] # links[i] =>
                    \/ \E item \in q.items : table[i] = Created(item)
                    \/ /\ \E item \in Matched(q.items) : item.id = i
                       /\ table[i] = Patched(links[i], Matched(q.items), i)
      BY <2>1, <3>1, PatchOutcome
    <3> QED BY <2>2, <2>3, <2>5, <3>2
  <2>4. CASE ~q.partial
    <3>1. table \in Put(q.items)
      BY <1>2, <2>4 DEF Outcomes
    <3>2. /\ table \in Tables
          /\ \A i \in LinksOf(table) : \E item \in q.items :
               (item.id = i \/ links[i] = NoLink) /\ table[i] = Created(item)
      BY <2>1, <3>1, PutOutcome
    <3> QED BY <2>1, <2>2, <2>4, <3>2
  <2> QED BY <2>3, <2>4
<1> QED BY <1>1, <1>2

-------------------------------------------------------------------------------

\* What slot r comes to hold agrees with who has the row.
SlotSound(r) ==
  /\ reqs[r] \in Request
  /\ lock = r <=> reqs[r].pc \in {"saved", "listed"}
  /\ reqs[r].pc = "listed" =>
       reqs[r].existing = LinksOf(links) /\ reqs[r].items \in Accepted(reqs[r].partial)

LEMMA InvBySlot ==
  IInv <=> /\ row \in Row \cup {NoProfile} /\ links \in Tables
           /\ lock \in Requests \cup {Nobody}
           /\ reqs = [r \in Requests |-> reqs[r]]
           /\ \A r \in Requests : SlotSound(r)
BY DEF IInv, TypeOK, ViewIsCurrent, SlotSound, Tables

\* A step of slot r that leaves the links alone.
LEMMA OwnStep ==
  ASSUME IInv, NEW r \in Requests, NEW q, reqs' = [reqs EXCEPT ![r] = q],
         links' = links, row' \in Row \cup {NoProfile}, SlotSound(r)',
         lock' = lock \/ (lock \in {r, Nobody} /\ lock' \in {r, Nobody})
  PROVE  IInv'
<1>1. ASSUME NEW s \in Requests, s # r PROVE SlotSound(s)'
  <2>1. reqs'[s] = reqs[s] /\ SlotSound(s)
    BY <1>1, InvBySlot
  <2>2. lock' = s <=> lock = s
    BY <1>1, NobodyIsNobody
  <2> QED BY <2>1, <2>2 DEF SlotSound, LinksOf
<1>2. reqs' = [s \in Requests |-> reqs'[s]]
  BY InvBySlot
<1>3. lock' \in Requests \cup {Nobody} /\ links' \in Tables
  BY InvBySlot
<1>4. \A s \in Requests : SlotSound(s)'
  BY <1>1
<1> QED BY <1>2, <1>3, <1>4, InvBySlot DEF IInv, TypeOK, ViewIsCurrent, SlotSound, Tables

LEMMA InitIInv == Init => IInv
<1> SUFFICES ASSUME Init PROVE IInv
  OBVIOUS
<1>1. row \in Row
  BY DEF Init, Row
<1>2. links \in [Ids -> Link \cup {NoLink}] /\ reqs \in [Requests -> Request]
  BY DEF Init, Request
<1>3. \A r \in Requests : reqs[r].pc = "idle" /\ lock # r
  BY NobodyIsNobody DEF Init, Idle
<1>4. lock = Nobody
  BY DEF Init
<1> QED BY <1>1, <1>2, <1>3, <1>4 DEF IInv, TypeOK, ViewIsCurrent

LEMMA StepIInv ==
  ASSUME IInv, [Next]_vars
  PROVE  IInv'
<1> USE NobodyIsNobody
<1>1. ASSUME NEW r \in Requests, NEW partial \in BOOLEAN, LoadUpdate(r, partial) PROVE IInv'
  <2>1. row \in Row /\ lock # r
    BY <1>1, InvBySlot DEF LoadUpdate, Exists, SlotSound, Idle
  <2>2. SlotSound(r)'
    BY <1>1, <2>1, InvBySlot DEF LoadUpdate, SlotSound, Request
  <2> QED BY <1>1, <2>1, <2>2, OwnStep DEF LoadUpdate
<1>2. ASSUME NEW r \in Requests, SaveRow(r) PROVE IInv'
  <2>1. reqs[r] \in Request /\ reqs = [s \in Requests |-> reqs[s]] /\ row \in Row \cup {NoProfile}
    BY InvBySlot DEF SlotSound
  <2>2. CASE Exists
    <3>1. PICK public \in {{FALSE}, {TRUE}, {}}, bio \in Bios :
            reqs' = [reqs EXCEPT ![r] = [pc |-> "saved", partial |-> reqs[r].partial,
                       given |-> public # {}, new |-> Merged(reqs[r], public, bio)]]
      BY <1>2, <2>2 DEF SaveRow
    <3>2. Merged(reqs[r], public, bio) \in Row /\ reqs[r].partial \in BOOLEAN
      <4>1. reqs[r].snap \in Row /\ reqs[r].partial \in BOOLEAN
        BY <1>2, <2>1 DEF SaveRow, Request, Idle
      <4> DEFINE told == public = {TRUE}
      <4>2. told \in BOOLEAN
        <5>1. CASE public = {TRUE}
          BY <5>1
        <5>2. CASE public # {TRUE}
          BY <5>2
        <5> QED BY <5>1, <5>2
      <4>3. Merged(reqs[r], public, bio) =
              [public |-> IF public = {} THEN reqs[r].snap.public ELSE told, bio |-> bio]
        BY DEF Merged
      <4> HIDE DEF told
      <4> QED BY <4>1, <4>2, <4>3 DEF Row
    <3> DEFINE given == public # {}
    <3>3. given \in BOOLEAN
      <4>1. CASE public = {}
        BY <4>1
      <4>2. CASE public # {}
        BY <4>2
      <4> QED BY <4>1, <4>2
    <3> HIDE DEF given
    <3>5. reqs'[r] = [pc |-> "saved", partial |-> reqs[r].partial, given |-> given,
                      new |-> Merged(reqs[r], public, bio)]
      BY <2>1, <3>1 DEF given
    <3>6. reqs'[r] \in Request
      BY <3>2, <3>3, <3>5 DEF Request
    <3>4. SlotSound(r)'
      BY <1>2, <2>2, <3>5, <3>6 DEF SaveRow, SlotSound
    <3>7. lock' = r /\ lock = Nobody /\ links' = links /\ row' = row
      BY <1>2, <2>2 DEF SaveRow
    <3> HIDE DEF given
    <3> QED BY <2>1, <3>1, <3>4, <3>7, OwnStep
  <2>3. CASE ~Exists
    <3>1. SlotSound(r)'
      BY <1>2, <2>1, <2>3 DEF SaveRow, Done, SlotSound, Request, Idle
    <3> QED BY <1>2, <2>1, <2>3, <3>1, OwnStep DEF SaveRow, Done
  <2> QED BY <2>2, <2>3
<1>3. ASSUME NEW r \in Requests, ReadLinks(r) PROVE IInv'
  <2>1. PICK items \in Accepted(reqs[r].partial) :
          reqs' = [reqs EXCEPT ![r] =
            [pc |-> "listed", partial |-> reqs[r].partial, given |-> reqs[r].given,
             new |-> reqs[r].new, existing |-> LinksOf(links), items |-> items]]
    BY <1>3 DEF ReadLinks
  <2>2. reqs[r] \in Request /\ lock = r /\ reqs = [s \in Requests |-> reqs[s]]
        /\ row \in Row \cup {NoProfile}
    BY <1>3, InvBySlot DEF SlotSound, ReadLinks
  <2>3. items \in Lists \cup {NoList} /\ LinksOf(links) \in SUBSET Ids
    BY DEF Accepted, LinksOf
  <2>4. reqs[r].partial \in BOOLEAN /\ reqs[r].given \in BOOLEAN /\ reqs[r].new \in Row
    BY <1>3, <2>2 DEF ReadLinks, Request, Idle
  <2>5. reqs'[r] \in Request
    BY <2>1, <2>2, <2>3, <2>4 DEF Request
  <2>6. SlotSound(r)'
    BY <1>3, <2>1, <2>2, <2>5 DEF ReadLinks, SlotSound, LinksOf
  <2> QED BY <1>3, <2>1, <2>2, <2>6, OwnStep DEF ReadLinks
<1>4. ASSUME NEW r \in Requests, Commit(r) PROVE IInv'
  <2>1. reqs[r] \in Request /\ lock = r /\ reqs = [s \in Requests |-> reqs[s]]
        /\ row \in Row \cup {NoProfile} /\ links \in Tables
        /\ reqs[r].existing = LinksOf(links) /\ reqs[r].items \in Accepted(reqs[r].partial)
    BY <1>4, InvBySlot DEF SlotSound, Commit
  <2>2. reqs[r].new \in Row /\ reqs[r].partial \in BOOLEAN
    BY <1>4, <2>1 DEF Commit, Request, Idle
  <2>3. row' \in Row \cup {NoProfile} /\ links' \in Tables
    BY <1>4, <2>1, <2>2, OutcomeSound DEF Commit
  <2>4. lock' = Nobody /\ reqs' = [reqs EXCEPT ![r] = Idle]
    BY <1>4 DEF Commit, Done
  <2>5. ASSUME NEW s \in Requests PROVE SlotSound(s)'
    <3>1. CASE s = r
      BY <2>1, <2>4, <3>1 DEF SlotSound, Request, Idle
    <3>2. CASE s # r
      <4>1. reqs'[s] = reqs[s] /\ SlotSound(s) /\ lock # s
        BY <2>1, <2>4, <3>2, InvBySlot
      <4> QED BY <2>4, <4>1 DEF SlotSound
    <3> QED BY <3>1, <3>2
  <2>6. reqs' = [s \in Requests |-> reqs'[s]]
    BY <2>1, <2>4
  <2> QED BY <2>3, <2>4, <2>5, <2>6 DEF IInv, TypeOK, ViewIsCurrent, SlotSound, Tables
<1>5. ASSUME NEW r \in Requests, LoadToggle(r) PROVE IInv'
  <2>1. row \in Row /\ lock # r
    BY <1>5, InvBySlot DEF LoadToggle, Exists, SlotSound, Idle
  <2>2. SlotSound(r)'
    BY <1>5, <2>1, InvBySlot DEF LoadToggle, SlotSound, Request
  <2> QED BY <1>5, <2>1, <2>2, OwnStep DEF LoadToggle
<1>6. ASSUME NEW r \in Requests, SaveToggle(r) PROVE IInv'
  <2>1. reqs[r] \in Request /\ reqs = [s \in Requests |-> reqs[s]] /\ row \in Row \cup {NoProfile}
    BY InvBySlot DEF SlotSound
  <2>2. row' \in Row \cup {NoProfile}
    <3>1. CASE Exists
      <4>1. row \in Row /\ row' = [row EXCEPT !.public = ~reqs[r].snap.public]
        BY <1>6, <2>1, <3>1 DEF SaveToggle, Exists
      <4>2. (~reqs[r].snap.public) \in BOOLEAN
        OBVIOUS
      <4> QED BY <4>1, <4>2 DEF Row
    <3>2. CASE ~Exists
      BY <1>6, <2>1, <3>2 DEF SaveToggle
    <3> QED BY <3>1, <3>2
  <2>3. SlotSound(r)'
    BY <1>6, <2>1 DEF SaveToggle, Done, SlotSound, Request, Idle
  <2> QED BY <1>6, <2>2, <2>3, OwnStep DEF SaveToggle, Done
<1>7. ASSUME NEW r \in Requests, Crash(r) PROVE IInv'
  <2>1. reqs[r] \in Request /\ reqs = [s \in Requests |-> reqs[s]] /\ row \in Row \cup {NoProfile}
    BY InvBySlot DEF SlotSound
  <2>2. SlotSound(r)'
    BY <1>7, <2>1 DEF Crash, Done, SlotSound, Request, Idle
  <2> QED BY <1>7, <2>1, <2>2, OwnStep DEF Crash, Done
<1>8. CASE DeleteAccount
  <2>1. /\ row' = NoProfile /\ links' \in Tables /\ reqs' = reqs /\ lock' = lock
        /\ \A r \in Requests : lock # r
    BY <1>8 DEF DeleteAccount, Tables
  <2>2. \A r \in Requests : SlotSound(r)'
    BY <2>1, InvBySlot DEF SlotSound
  <2> QED BY <2>1, <2>2, InvBySlot DEF IInv, TypeOK, ViewIsCurrent, SlotSound, Tables
<1>9. CASE UNCHANGED vars
  BY <1>9 DEF vars, IInv, TypeOK, ViewIsCurrent, LinksOf
<1> QED BY <1>1, <1>2, <1>3, <1>4, <1>5, <1>6, <1>7, <1>8, <1>9 DEF Next

\* The inductive invariant holds in every reachable state.
THEOREM Invariant == Spec => []IInv
BY InitIInv, StepIInv, PTL DEF Spec

\* The row is locked by exactly the request whose transaction is open.
THEOREM TypeCorrect == Spec => []TypeOK
<1>1. IInv => TypeOK
  BY DEF IInv
<1> QED BY <1>1, Invariant, PTL

\* Only a commit changes links without removing all of them.
LEMMA CommitChangesLinks ==
  ASSUME IInv, [Next]_vars, NEW i \in LinksOf(links'), links' # links
  PROVE  \E r \in Requests : Commit(r) /\ links' \in Outcomes(reqs[r])
<1>1. ~DeleteAccount
  BY DEF DeleteAccount, LinksOf
<1>2. PICK r \in Requests : Commit(r)
  BY <1>1 DEF Next, vars, LoadUpdate, SaveRow, ReadLinks, LoadToggle, SaveToggle, Crash
<1> QED BY <1>2 DEF Commit

\* The links that are left after a list was committed are that request's.
THEOREM LinksAreOneRequests == Spec => OneRequestsLinks
<1> DEFINE A == \A r \in Requests : CommitsList(r) =>
       \A i \in LinksOf(links') :
         links[i] = NoLink \/ \E item \in reqs[r].items : item.id = i
<1>1. IInv /\ [Next]_vars => A
  <2> SUFFICES ASSUME IInv, [Next]_vars, NEW r \in Requests, CommitsList(r),
                      NEW i \in LinksOf(links')
               PROVE  links[i] = NoLink \/ \E item \in reqs[r].items : item.id = i
    OBVIOUS
  <2>1. PICK s \in Requests : Commit(s) /\ links' \in Outcomes(reqs[s])
    BY CommitChangesLinks DEF CommitsList
  <2>2. s = r
    BY <2>1, InvBySlot DEF Commit, CommitsList, SlotSound
  <2>3. links \in Tables /\ reqs[r] \in Request /\ reqs[r].existing = LinksOf(links)
        /\ reqs[r].items \in Accepted(reqs[r].partial)
    BY InvBySlot DEF SlotSound, CommitsList
  <2>4. reqs[r].partial \in BOOLEAN
    BY <2>3 DEF CommitsList, Request, Idle
  <2> QED BY <2>1, <2>2, <2>3, <2>4, OutcomeSound DEF CommitsList
<1> QED BY <1>1, Invariant, PTL DEF Spec, OneRequestsLinks

\* A link that does not fit its platform comes from a partial item.
THEOREM MismatchIsPartial == Spec => MismatchNeedsPartialItem
<1> DEFINE A == \A i \in LinksOf(links') :
       links'[i] # links[i] /\ links'[i].platform # links'[i].site =>
         \E r \in Requests : reqs[r].pc = "listed" /\ reqs[r].partial
                             /\ \E item \in reqs[r].items : ~Whole(item)
<1>1. IInv /\ [Next]_vars => A
  <2> SUFFICES ASSUME IInv, [Next]_vars, NEW i \in LinksOf(links'), links'[i] # links[i],
                      links'[i].platform # links'[i].site
               PROVE  \E r \in Requests : reqs[r].pc = "listed" /\ reqs[r].partial
                             /\ \E item \in reqs[r].items : ~Whole(item)
    OBVIOUS
  <2>1. PICK r \in Requests : Commit(r) /\ links' \in Outcomes(reqs[r])
    BY CommitChangesLinks
  <2>2. links \in Tables /\ reqs[r] \in Request /\ reqs[r].existing = LinksOf(links)
        /\ reqs[r].items \in Accepted(reqs[r].partial) /\ reqs[r].pc = "listed"
    BY <2>1, InvBySlot DEF SlotSound, Commit
  <2>3. reqs[r].partial \in BOOLEAN
    BY <2>2 DEF Request, Idle
  <2> QED BY <2>1, <2>2, <2>3, OutcomeSound
<1> QED BY <1>1, Invariant, PTL DEF Spec, MismatchNeedsPartialItem


\* The queryset and the serializer agree on who sees the profile, whatever its
\* row has become (visible_for, editable_by, to_representation).
THEOREM QuerysetAndSerializerAgree == Spec => []LayersAgree
<1>1. TypeOK => LayersAgree
  BY DEF LayersAgree, Viewers, VisibleFor, Shown, EditableBy
<1> QED BY <1>1, TypeCorrect, PTL

-------------------------------------------------------------------------------
(* One request at a time                                                   *)

\* What a request has read of the profile is still true, unless the account is
\* gone, and it goes on to write the visibility it found if it was given none.
RequestCurrent(r) ==
  /\ reqs[r].pc = "loaded" => row \in {NoProfile, reqs[r].snap}
  /\ reqs[r].pc \in {"saved", "listed"} /\ ~reqs[r].given =>
       row.public = reqs[r].new.public

AtMostOne == \A a, b \in Requests : reqs[a] # Idle /\ reqs[b] # Idle => a = b

SerialInv == AtMostOne /\ \A r \in Requests : RequestCurrent(r)

\* The step of the one request there is.
LEMMA SerialStep ==
  ASSUME IInv, AtMostOne, NEW r \in Requests, NEW q, reqs' = [reqs EXCEPT ![r] = q],
         reqs[r] # Idle \/ (AtMostOne' /\ q # Idle), RequestCurrent(r)'
  PROVE  SerialInv'
<1>1. \A s \in Requests : reqs'[s] = IF s = r THEN q ELSE reqs[s]
  BY DEF IInv, TypeOK
<1>2. \A s \in Requests : s # r => reqs'[s] = Idle
  BY <1>1 DEF AtMostOne
<1>3. AtMostOne'
  BY <1>2 DEF AtMostOne
<1>4. ASSUME NEW s \in Requests PROVE RequestCurrent(s)'
  BY <1>2 DEF RequestCurrent, Idle
<1> QED BY <1>3, <1>4 DEF SerialInv

LEMMA StepSerial ==
  ASSUME IInv, SerialInv, [Next]_vars, AtMostOne'
  PROVE  SerialInv'
<1>1. ASSUME NEW r \in Requests
      PROVE  /\ reqs[r] \in Request /\ reqs = [reqs EXCEPT ![r] = reqs[r]]
             /\ reqs[r].pc # "idle" => reqs[r] # Idle
             /\ RequestCurrent(r) /\ AtMostOne
             /\ \A q : [reqs EXCEPT ![r] = q][r] = q
  BY DEF IInv, TypeOK, SerialInv, Idle
<1>2. ASSUME NEW r \in Requests, NEW partial \in BOOLEAN, LoadUpdate(r, partial)
      PROVE  SerialInv'
  <2>1. PICK q : q = [pc |-> "loaded", partial |-> partial, snap |-> row]
    OBVIOUS
  <2>2. reqs' = [reqs EXCEPT ![r] = q] /\ row' = row
    BY <1>2, <2>1 DEF LoadUpdate
  <2>3. q # Idle /\ q.pc = "loaded" /\ q.snap = row
    BY <2>1 DEF Idle
  <2>4. RequestCurrent(r)'
    BY <1>1, <2>2, <2>3 DEF RequestCurrent
  <2> QED BY <1>1, <2>2, <2>3, <2>4, SerialStep
<1>3. ASSUME NEW r \in Requests, SaveRow(r) PROVE SerialInv'
  <2>1. reqs[r] # Idle /\ reqs[r].pc = "loaded" /\ row' = row
    BY <1>1, <1>3 DEF SaveRow
  <2>2. CASE Exists
    <3>1. PICK public, bio, q :
            /\ q = [pc |-> "saved", partial |-> reqs[r].partial, given |-> public # {},
                    new |-> Merged(reqs[r], public, bio)]
            /\ reqs' = [reqs EXCEPT ![r] = q]
      BY <1>3, <2>2 DEF SaveRow
    <3>2. q.pc = "saved" /\ (~q.given => public = {}) /\ q.new = Merged(reqs[r], public, bio)
      BY <3>1
    <3>3. row = reqs[r].snap
      BY <1>1, <2>1, <2>2 DEF RequestCurrent, Exists
    <3>4. public = {} => q.new.public = row.public
      BY <3>2, <3>3 DEF Merged
    <3>5. reqs'[r] = q
      BY <1>1, <3>1
    <3>6. RequestCurrent(r)'
      BY <2>1, <3>2, <3>4, <3>5 DEF RequestCurrent
    <3> QED BY <1>1, <2>1, <3>1, <3>6, SerialStep
  <2>3. CASE ~Exists
    <3>1. reqs' = [reqs EXCEPT ![r] = Idle]
      BY <1>3, <2>3 DEF SaveRow, Done
    <3>2. RequestCurrent(r)'
      BY <1>1, <3>1 DEF RequestCurrent, Idle
    <3> QED BY <1>1, <2>1, <3>1, <3>2, SerialStep
  <2> QED BY <2>2, <2>3
<1>4. ASSUME NEW r \in Requests, ReadLinks(r) PROVE SerialInv'
  <2>1. PICK items, q :
          /\ q = [pc |-> "listed", partial |-> reqs[r].partial, given |-> reqs[r].given,
                  new |-> reqs[r].new, existing |-> LinksOf(links), items |-> items]
          /\ reqs' = [reqs EXCEPT ![r] = q]
    BY <1>4 DEF ReadLinks
  <2>2. q.pc = "listed" /\ q.given = reqs[r].given /\ q.new = reqs[r].new
    BY <2>1
  <2>3. reqs[r].pc = "saved" /\ row' = row
    BY <1>4 DEF ReadLinks
  <2>4. RequestCurrent(r)'
    BY <1>1, <2>1, <2>2, <2>3 DEF RequestCurrent
  <2> QED BY <1>1, <2>1, <2>3, <2>4, SerialStep
<1>5. ASSUME NEW r \in Requests, reqs[r] # Idle, Done(r) PROVE SerialInv'
  <2>1. RequestCurrent(r)'
    BY <1>1, <1>5 DEF Done, RequestCurrent, Idle
  <2> QED BY <1>1, <1>5, <2>1, SerialStep DEF Done
<1>6. ASSUME NEW r \in Requests, Commit(r) \/ SaveToggle(r) \/ Crash(r) PROVE SerialInv'
  BY <1>1, <1>5, <1>6 DEF Commit, SaveToggle, Crash, Idle
<1>7. ASSUME NEW r \in Requests, LoadToggle(r) PROVE SerialInv'
  <2>1. PICK q : q = [pc |-> "toggle", snap |-> row]
    OBVIOUS
  <2>2. reqs' = [reqs EXCEPT ![r] = q] /\ q.pc = "toggle" /\ q # Idle
    BY <1>7, <2>1 DEF LoadToggle, Idle
  <2>3. RequestCurrent(r)'
    BY <1>1, <2>2 DEF RequestCurrent
  <2> QED BY <1>1, <2>2, <2>3, SerialStep
<1>8. CASE DeleteAccount
  <2>1. reqs' = reqs /\ row' = NoProfile /\ lock = Nobody
    BY <1>8 DEF DeleteAccount
  <2>2. \A r \in Requests : reqs[r].pc \notin {"saved", "listed"}
    BY <2>1, NobodyIsNobody DEF IInv, TypeOK
  <2>3. \A r \in Requests : RequestCurrent(r)'
    BY <2>1, <2>2 DEF RequestCurrent
  <2> QED BY <2>3 DEF SerialInv
<1>9. CASE UNCHANGED vars
  BY <1>9 DEF vars, SerialInv, AtMostOne, RequestCurrent
<1> QED BY <1>2, <1>3, <1>4, <1>6, <1>7, <1>8, <1>9 DEF Next

\* Only a commit or a crash ends a request that has its list.
LEMMA SerialKeeps ==
  ASSUME IInv, SerialInv, [Next]_vars
  PROVE  KeepsWhatIsNotGiven
<1> SUFFICES ASSUME NEW r \in Requests, reqs[r].pc = "listed", reqs'[r] = Idle,
                    ~reqs[r].given, row' # row
             PROVE  row'.public = row.public
  BY DEF KeepsWhatIsNotGiven
<1>1. lock = r /\ reqs[r] # Idle /\ RequestCurrent(r)
  BY DEF IInv, TypeOK, SerialInv, Idle
<1>2. Commit(r)
  <2>1. PICK s \in Requests : Commit(s) \/ SaveToggle(s)
    BY <1>1, NobodyIsNobody DEF Next, vars, LoadUpdate, SaveRow, ReadLinks, LoadToggle,
       Crash, DeleteAccount
  <2>2. reqs[s] # Idle
    BY <2>1 DEF Commit, SaveToggle, Idle
  <2>3. s = r
    BY <1>1, <2>2 DEF SerialInv, AtMostOne
  <2> QED BY <2>1, <2>3 DEF SaveToggle
<1>3. row' = reqs[r].new
  BY <1>2 DEF Commit
<1> QED BY <1>1, <1>3 DEF RequestCurrent

LEMMA MCStepSerial ==
  ASSUME IInv, scenario = "serial" => SerialInv, [MCNext]_mcvars
  PROVE  /\ (IInv /\ (scenario = "serial" => SerialInv))'
         /\ scenario = "serial" => KeepsWhatIsNotGiven
<1>1. [Next]_vars /\ scenario' = scenario
  BY DEF MCNext, mcvars
<1>2. scenario = "serial" /\ SerialInv => AtMostOne'
  BY DEF MCNext, mcvars, vars, OneAtATime, AtMostOne, SerialInv
<1> QED BY <1>1, <1>2, StepIInv, StepSerial, SerialKeeps

\* A request that does not give the visibility leaves it as it is, when nothing
\* but the deletion of the account happens between its steps (PATCH of profiles).
THEOREM PatchKeepsWhatIsNotGiven == MCSpec => OnlyProvidedFields
<1> DEFINE Inv == IInv /\ (scenario = "serial" => SerialInv)
           Keeps == scenario = "serial" => KeepsWhatIsNotGiven
<1>1. MCInit => Inv
  BY InitIInv DEF MCInit, Init, SerialInv, AtMostOne, RequestCurrent, Idle
<1>2. Inv /\ [MCNext]_mcvars => Inv' /\ Keeps
  BY MCStepSerial
<1>3. MCSpec => [][Keeps]_mcvars
  <2> HIDE DEF Inv, Keeps
  <2> QED BY <1>1, <1>2, PTL DEF MCSpec
<1> QED BY <1>3 DEF OnlyProvidedFields

===============================================================================
