CONSTANTS
  Threads = {t1, t2}
  Rpc = rpc
  NoThread = none
  MaxCalls = 3
  MaxRuns = 3
  MaxInits = 2
  Overlap = FALSE
  MayFail = TRUE
  MayInterrupt = TRUE
SPECIFICATION FairSpec
INVARIANTS CaptureTrue StatusTrue
PROPERTIES PublishedIsFinal ReturnedIsSettled
