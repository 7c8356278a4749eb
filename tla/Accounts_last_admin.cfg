\* Two administrators demote each other at once.
SPECIFICATION MCSpec
CONSTANTS
  ann = ann  bob = bob  cyd = cyd  r1 = r1  r2 = r2  t1 = t1  t2 = t2
  Users = {ann, bob}
  Founders = {ann, bob}
  Requests = {r1, r2}
  Tokens = {t1}
  Kinds <- RoleKinds
  MaxChanges = 0
  Nobody = Nobody
PROPERTIES LastAdminKept
CHECK_DEADLOCK FALSE
