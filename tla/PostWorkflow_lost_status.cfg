\* Two overlapping requests of every kind: a PATCH that read the draft makes the
\* published post a draft again.
SPECIFICATION Spec
CONSTANTS
  alice = alice
  Posts = {p1}
  Users = {alice}
  Admins = {}
  Author <- OnlyAuthor
  Requests = {r1, r2}
  Kinds <- AllKinds
  Titles = {t1}
  Contents = {none, text}
  NoContent = none
  Tags = {}
  Absent = absent
  MaxTime = 1
PROPERTY TransitionsFollowTable
