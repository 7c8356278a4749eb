\* Overlapping views of four hosts of one network, without faults and with all of them.
SPECIFICATION MCSpec
CONSTANTS
  v1 = v1  v2 = v2  v3 = v3  v4 = v4
  Views = {v1, v2, v3, v4}
  Keys = {v1, v2, v3, v4}
  KeyOf <- MCKeyOf
  Texts <- MCTexts
  RequestOf <- MCRequestOf
  MaxRetries = 2
  MaxExpiries = 2
  MaxDeaths = 1
INVARIANTS TypeOK OnePerWindow VisitorsCountedOnce
PROPERTIES EveryTaskEnds CountedWhenCalm
\* When every view is dealt with nothing is left to do.
CHECK_DEADLOCK FALSE
