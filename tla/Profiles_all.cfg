\* Two overlapping requests, and one at a time.
SPECIFICATION MCSpec
CONSTANTS
  r1 = r1  r2 = r2
  Requests = {r1, r2}
  Ids = {1, 2, 3, 4}
  Taken = {4}
  Platforms = {"x", "github"}
  Bios = {"long", "short"}
  Lists <- MCLists
  Nobody = Nobody
SYMMETRY Symmetry
INVARIANTS TypeOK LayersAgree
PROPERTIES OneRequestsLinks MismatchNeedsPartialItem OnlyProvidedFields
\* After the deletion of the account nothing is left to do.
CHECK_DEADLOCK FALSE
