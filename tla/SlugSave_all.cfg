\* Saves at once: few enough for the retries, and too many, with given slugs
\* and removals.
SPECIFICATION MCSpec
CONSTANTS
  s1 = s1  s2 = s2  s3 = s3  w1 = w1  w2 = w2  w3 = w3
  Rows = {w1, w2, w3}
  Savers = {s1, s2, s3}
  Bases <- ClashingBases
  Requested <- OneRequested
  MaxRetries = 3
  MaxStarts = 4
INVARIANTS TypeOK ExhaustionNeedsRivals SlugsFailNoCreation CreationsTakeFirstFree
PROPERTY EverySaveEnds
\* The behaviour ends when MaxStarts saves have been made.
CHECK_DEADLOCK FALSE
