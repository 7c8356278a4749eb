\* Two overlapping requests of every kind, by two administrators and a newcomer.
SPECIFICATION MCSpec
CONSTANTS
  ann = ann  bob = bob  cyd = cyd  r1 = r1  r2 = r2  t1 = t1  t2 = t2
  Users = {ann, bob, cyd}
  Founders = {ann, bob}
  Requests = {r1, r2}
  Tokens = {t1, t2}
  Kinds <- AllKinds
  MaxChanges = 1
  Nobody = Nobody
SYMMETRY Symmetry
INVARIANTS TypeOK ChangeRevokes ProfileUnlessCrash
PROPERTIES AdminsAreMadeByOthers LastDemotionIsStale
\* Nobody is left to act after a deletion of every account.
CHECK_DEADLOCK FALSE
