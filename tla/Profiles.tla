-------------------------------- MODULE Profiles --------------------------------
(***************************************************************************)
(* One profile and its social media links (apps/accounts, profiles), under *)
(* concurrent PUT, PATCH and toggle requests of its owner and of           *)
(* administrators, and the deletion of the account.                        *)
(*                                                                         *)
(* A request reads the profile, opens a transaction, writes the whole row, *)
(* whose X lock it keeps, and then replaces (PUT) or reconciles (PATCH) the *)
(* links.  Nothing of it is seen before the commit.                        *)
(***************************************************************************)
EXTENDS Naturals, FiniteSets

CONSTANTS
  Requests,   \* slots for requests in flight
  Ids,        \* primary keys of the links table
  Taken,      \* those of the links of other profiles
  Platforms,  \* the platforms, each also the name of its site
  Bios,       \* contents of the text fields
  Lists,      \* the lists of links clients send: sets of items with their places
  Nobody

VARIABLES
  row,    \* the profile's row
  links,  \* its links by primary key
  lock,   \* the request whose transaction holds the row
  reqs    \* what each request slot is doing

vars == <<row, links, lock, reqs>>

-------------------------------------------------------------------------------
Row == [public : BOOLEAN, bio : Bios]
NoProfile == [public |-> FALSE]

\* A column that was left out of an INSERT holds the empty string.
Absent == "absent"
Blank == "blank"
Link == [platform : Platforms \cup {Blank}, site : Platforms \cup {Blank}]
NoLink == [platform |-> "none"]
LinksOf(table) == {i \in Ids : table[i] # NoLink}

\* An item of a payload and its place there; a PATCH may leave out either field.
NoId == 0
Item == [id : Ids \cup {NoId}, platform : Platforms \cup {Absent}, site : Platforms \cup {Absent},
         place : Nat]
Whole(item) == item.platform # Absent /\ item.site # Absent

ASSUME IdsAreKeys == Ids \subseteq Nat \ {NoId} /\ Taken \subseteq Ids
ASSUME ListsAreItems == Lists \subseteq SUBSET Item
ASSUME OneItemPerPlace == \A items \in Lists : \A a, b \in items : a # b => a.place # b.place
ASSUME PartsHaveALast ==
  \A items \in Lists : \A part \in SUBSET items :
    part # {} => \E last \in part : \A other \in part : other.place <= last.place
ASSUME NobodyIsNobody == Nobody \notin Requests

\* Mutant: any address goes with any platform.
ValidAlways(item) == TRUE

\* _platform_url_ok: platform and site are compared only when both are there.  A
\* site is one of Platforms because the address's own validator accepts no other.
Valid(item) == Whole(item) => item.platform = item.site

\* The lists that pass validation, and no list at all.
NoList == {[id |-> NoId, platform |-> "none", site |-> "none", place |-> 0]}
Accepted(partial) ==
  {NoList} \cup {items \in Lists : \A item \in items : Valid(item) /\ (partial \/ Whole(item))}

Idle == [pc |-> "idle"]
Request ==
  {Idle}
  \cup [pc : {"loaded"}, partial : BOOLEAN, snap : Row]
  \cup [pc : {"toggle"}, snap : Row]
  \cup [pc : {"saved"}, partial : BOOLEAN, given : BOOLEAN, new : Row]
  \cup [pc : {"listed"}, partial : BOOLEAN, given : BOOLEAN, new : Row,
        existing : SUBSET Ids, items : Lists \cup {NoList}]

Init ==
  /\ row \in [public : {FALSE}, bio : Bios]
  /\ links = [i \in Ids |-> NoLink]
  /\ lock = Nobody
  /\ reqs = [r \in Requests |-> Idle]

Exists == row # NoProfile
Done(r) == reqs' = [reqs EXCEPT ![r] = Idle]

-------------------------------------------------------------------------------
(* Who sees what: the queryset and the serializer decide each for itself   *)

Viewers == {"anonymous", "stranger", "owner", "admin"}

\* Mutant: the owner is treated like anybody else.
VisibleForOthers(viewer) == viewer = "admin" \/ row.public

\* ProfileQuerySet.visible_for, editable_by and me
VisibleFor(viewer) == viewer \in {"admin", "owner"} \/ row.public
EditableBy(viewer) == viewer \in {"admin", "owner"}
IsMe(viewer) == viewer = "owner"

\* PublicProfileSerializer.to_representation, with IsOwner
Shown(viewer) == row.public \/ (viewer # "anonymous" /\ viewer \in {"admin", "owner"})

-------------------------------------------------------------------------------
(* PUT and PATCH                                                           *)

\* update, partial_update (editable_by) and me (PUT, PATCH)
LoadUpdate(r, partial) ==
  /\ reqs[r] = Idle /\ Exists
  /\ \E viewer \in Viewers : EditableBy(viewer) \/ IsMe(viewer)
  /\ reqs' = [reqs EXCEPT ![r] = [pc |-> "loaded", partial |-> partial, snap |-> row]]
  /\ UNCHANGED <<row, links, lock>>

\* Mutant: a PATCH takes an unchecked box for FALSE.
MergedUnchecked(q, public, bio) == [public |-> public # {TRUE} /\ public # {}, bio |-> bio]

\* The row that is written: the snapshot with the fields of the payload.
Merged(q, public, bio) ==
  [public |-> IF public = {} THEN q.snap.public ELSE public = {TRUE}, bio |-> bio]

\* _patch_instance, _put_instance: instance.save() waits for the row's lock.
\* A row that is gone would be inserted again; its foreign key refuses that.
SaveRow(r) ==
  /\ reqs[r].pc = "loaded" /\ lock = Nobody
  /\ IF Exists
     THEN /\ \E public \in {{FALSE}, {TRUE}} \cup (IF reqs[r].partial THEN {{}} ELSE {}) :
               \E bio \in Bios :
                 reqs' = [reqs EXCEPT ![r] = [pc |-> "saved", partial |-> reqs[r].partial,
                            given |-> public # {}, new |-> Merged(reqs[r], public, bio)]]
          /\ lock' = r
     ELSE Done(r) /\ UNCHANGED lock
  /\ UNCHANGED <<row, links>>

ReadLinks(r) ==
  /\ reqs[r].pc = "saved"
  /\ \E items \in Accepted(reqs[r].partial) :
       reqs' = [reqs EXCEPT ![r] =
         [pc |-> "listed", partial |-> reqs[r].partial, given |-> reqs[r].given,
          new |-> reqs[r].new, existing |-> LinksOf(links), items |-> items]]
  /\ UNCHANGED <<row, links, lock>>

\* unique (profile, platform) and unique (profile, url)
Distinct(table) ==
  \A i, j \in LinksOf(table) :
    i # j => table[i].platform # table[j].platform /\ table[i].site # table[j].site

Filled(field) == IF field = Absent THEN Blank ELSE field
Created(item) == [platform |-> Filled(item.platform), site |-> Filled(item.site)]

\* table with the items inserted under the keys that f gives them
Inserted(table, items, f) ==
  [i \in Ids |-> IF \E item \in items : f[item] = i
                 THEN Created(CHOOSE item \in items : f[item] = i) ELSE table[i]]

\* The keys that items may be inserted with: its own for one in keep, a new
\* one for the others.
KeysFor(items, keep) ==
  {f \in [items -> Ids \ Taken] :
     /\ \A a, b \in items : a # b => f[a] # f[b]
     /\ \A item \in items : IF item \in keep THEN f[item] = item.id
                            ELSE f[item] \notin LinksOf(links)}

\* _put_social_media: everything goes, then everything sent comes, with the
\* key it was sent with or a new one.
Put(items) ==
  {table \in {Inserted([i \in Ids |-> NoLink], items, f) :
                f \in KeysFor(items, {item \in items : item.id # NoId})} : Distinct(table)}

\* The items for link i that give the field, and the last of some items.
Giving(items, i, field) == {item \in items : item.id = i /\ item[field] # Absent}
Latest(items) == CHOOSE item \in items : \A other \in items : other.place <= item.place

\* Several items may be for one link: the last one that gives a field counts.
FieldOf(items, i, field, old) ==
  IF Giving(items, i, field) = {} THEN old ELSE Latest(Giving(items, i, field))[field]

Patched(link, items, i) ==
  [platform |-> FieldOf(items, i, "platform", link.platform),
   site |-> FieldOf(items, i, "site", link.site)]

\* The rows with a key in done are updated.
Updated(table, matched, done) ==
  [i \in Ids |-> IF i \in done /\ \E item \in matched : item.id = i
                 THEN Patched(table[i], matched, i) ELSE table[i]]

\* Mutant: what was not sent stays.
ToDeleteNone(existing, sent) == {}

ToDelete(existing, sent) == existing \ sent

\* _patch_social_media: what is not among the existing links is created, the
\* others are updated row by row, and those that were not sent are deleted.
Patch(existing, items) ==
  LET matched == {item \in items : item.id \in existing}
      sent == {item.id : item \in matched} IN
  {[i \in Ids |-> IF i \in ToDelete(existing, sent) THEN NoLink
                  ELSE Updated(table, matched, Ids)[i]] :
     table \in {t \in {Inserted(links, items \ matched, f) : f \in KeysFor(items \ matched, {})} :
       Distinct(t) /\ \A k \in sent : Distinct(Updated(t, matched, {i \in Ids : i <= k}))}}

Outcomes(q) ==
  CASE q.items = NoList -> {links}
    [] q.items # NoList /\ q.partial -> Patch(q.existing, q.items)
    [] q.items # NoList /\ ~q.partial -> Put(q.items)

\* Mutant: a failed transaction leaves the row locked.
CommitKeepsLock(r) ==
  /\ reqs[r].pc = "listed"
  /\ IF Outcomes(reqs[r]) = {} THEN UNCHANGED <<row, links, lock>>
     ELSE row' = reqs[r].new /\ links' \in Outcomes(reqs[r]) /\ lock' = Nobody
  /\ Done(r)

\* An integrity error rolls everything back.
Commit(r) ==
  /\ reqs[r].pc = "listed"
  /\ IF Outcomes(reqs[r]) = {} THEN UNCHANGED <<row, links>>
     ELSE row' = reqs[r].new /\ links' \in Outcomes(reqs[r])
  /\ lock' = Nobody
  /\ Done(r)

-------------------------------------------------------------------------------
(* The rest                                                                *)

\* toggle_public
LoadToggle(r) ==
  /\ reqs[r] = Idle /\ Exists
  /\ reqs' = [reqs EXCEPT ![r] = [pc |-> "toggle", snap |-> row]]
  /\ UNCHANGED <<row, links, lock>>

SaveToggle(r) ==
  /\ reqs[r].pc = "toggle" /\ lock = Nobody
  /\ row' = IF Exists THEN [row EXCEPT !.public = ~reqs[r].snap.public] ELSE row
  /\ Done(r)
  /\ UNCHANGED <<links, lock>>

\* The account goes, and the profile and its links with it.
DeleteAccount ==
  /\ Exists /\ lock = Nobody
  /\ row' = NoProfile
  /\ links' = [i \in Ids |-> NoLink]
  /\ UNCHANGED <<lock, reqs>>

Crash(r) ==
  /\ reqs[r] # Idle
  /\ lock' = IF lock = r THEN Nobody ELSE lock
  /\ Done(r)
  /\ UNCHANGED <<row, links>>

Next ==
  \/ \E r \in Requests :
       \/ \E partial \in BOOLEAN : LoadUpdate(r, partial)
       \/ SaveRow(r) \/ ReadLinks(r) \/ Commit(r)
       \/ LoadToggle(r) \/ SaveToggle(r) \/ Crash(r)
  \/ DeleteAccount

Spec == Init /\ [][Next]_vars

-------------------------------------------------------------------------------
(* Properties                                                              *)

\* Every variable has its type, and the row is locked by exactly the request
\* whose transaction is open.
TypeOK ==
  /\ row \in Row \cup {NoProfile}
  /\ links \in [Ids -> Link \cup {NoLink}]
  /\ lock \in Requests \cup {Nobody}
  /\ reqs \in [Requests -> Request]
  /\ \A r \in Requests : lock = r <=> reqs[r].pc \in {"saved", "listed"}

\* r commits with a list of links.
CommitsList(r) ==
  reqs[r].pc = "listed" /\ reqs'[r] = Idle /\ reqs[r].items # NoList /\ links' # links

\* After a request with a list has committed, every link was named by it or is
\* new: no link another request added in between is left over.  It is the lock
\* of the row's save, taken before the links are read, that keeps two
\* reconciliations apart (update, _patch_social_media).
OneRequestsLinks ==
  [][\A r \in Requests : CommitsList(r) =>
       \A i \in LinksOf(links') :
         links[i] = NoLink \/ \E item \in reqs[r].items : item.id = i]_vars

\* A link comes to point to the site of another platform only through an item
\* that leaves one of the two out (_platform_url_ok sees the item, not the link).
MismatchNeedsPartialItem ==
  [][\A i \in LinksOf(links') :
       links'[i] # links[i] /\ links'[i].platform # links'[i].site =>
         \E r \in Requests : reqs[r].pc = "listed" /\ reqs[r].partial
                             /\ \E item \in reqs[r].items : ~Whole(item)]_vars

\* The queryset lets a viewer have the profile exactly when the serializer
\* fills it in, and whoever may edit it may see it.
LayersAgree ==
  Exists => \A viewer \in Viewers :
              (VisibleFor(viewer) <=> Shown(viewer)) /\ (EditableBy(viewer) => VisibleFor(viewer))

\* A commit that was not given the visibility leaves it as it is.
KeepsWhatIsNotGiven ==
  \A r \in Requests :
    reqs[r].pc = "listed" /\ reqs'[r] = Idle /\ ~reqs[r].given => row'.public = row.public

===============================================================================
