\* A restore between the query and the deletions of the cleanup.
SPECIFICATION MCSpec
CONSTANTS
  u1 = u1  u2 = u2  u3 = u3  r1 = r1  r2 = r2  h1 = h1  h2 = h2
  Scenarios = {"overlapping"}
  Uploads = {u1, u2, u3}
  Requests = {r1, r2}
  Kinds <- AllKinds
  RelPaths = {h1, h2}
  RelPathsOf <- SharedNames
  Nobody = Nobody
PROPERTY CleanupSparesActive
\* After crashed creations every name may be taken and no row be there.
CHECK_DEADLOCK FALSE
