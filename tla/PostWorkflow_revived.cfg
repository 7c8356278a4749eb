\* Two overlapping requests, none of them an update: a change of status that was
\* validated before the deletion takes the post out of the trash.
SPECIFICATION Spec
CONSTANTS
  alice = alice
  Posts = {p1}
  Users = {alice}
  Admins = {}
  Author <- OnlyAuthor
  Requests = {r1, r2}
  Kinds <- WithoutUpdates
  Titles = {t1}
  Contents = {none, text}
  NoContent = none
  Tags = {}
  Absent = absent
  MaxTime = 1
PROPERTY OnlyRestoresRevive
