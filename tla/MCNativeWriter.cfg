CONSTANTS
  Threads = {t1, t2}
  MaxInsns = 2
  MaxCalls = 2
  RingRecs = 2
  SimdRingRecs = 2
  Stride = 2
  RecUnits = 2
  Agent = agent
  NoOne = none
SPECIFICATION FairSpec
INVARIANTS RunsTrue RingBounded SealedExact
PROPERTIES ImplementsRecordLog SealedFrozen EndingEnds
