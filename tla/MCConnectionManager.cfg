CONSTANTS
  Calls = {c1, c2}
  Keys = {k1}
  NoKey = none
  Retries = 1
  MaxConcurrent = 1
  MaxVersion = 2
SPECIFICATION FairSpec
INVARIANTS TypeOK QueueIsExact WaitsForSomething
PROPERTIES CachesOwnAnswer CallsSettle LoopsEnd
