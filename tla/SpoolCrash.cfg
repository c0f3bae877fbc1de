SPECIFICATION FairSpec
CONSTANTS
  r1 = r1
  r2 = r2
  f1 = f1
  Recoverers = {r1, r2}
  Finalizers = {f1}
  NumCalls = 2
  NumArtifacts = 1
  NumChunks = 2
  MaxFaults = 2
INVARIANTS RecoveryTrue MovedOnce
PROPERTIES CommittedStays Recovered
