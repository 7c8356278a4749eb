\* Overlapping requests of every kind, overlapping ones without updates, and
\* requests one at a time.
SPECIFICATION MCSpec
CONSTANTS
  p1 = p1  p2 = p2  alice = alice  root = root  r1 = r1  r2 = r2  r3 = r3  t1 = t1
  Scenarios = {"overlapping", "locked", "serial"}
  Posts = {p1, p2}
  Users = {alice, root}
  Admins = {root}
  Author <- TwoOwners
  Requests = {r1, r2, r3}
  Kinds <- AllKinds
  Titles = {t1, t2}
  Contents = {none, text}
  NoContent = none
  Tags = {tag1}
  Absent = absent
  MaxTime = 2
SYMMETRY SlotSymmetry
INVARIANTS TypeOK PublishedHasTimestamp
PROPERTIES
  OnlyStaleUpdatesLeaveTheTable LockedImplementsLifecycle
  SerialPublishedFrozen SerialPublishedWithContent
  SerialTransitionsFollowTable SerialFirstPublicationKept
