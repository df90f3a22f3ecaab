CONSTANTS
  FeedList <- MCFeedList
  Answers <- MCAnswers
  Refreshes = {r1, r2}
  MaxAge = 1
  MaxDrift = 2
  JumpPercent = 15
  Scale = 2000
  Taker = 2
  Slip = 1
  MinSpread = 1
  Capital = 1000
  Gas = 100
  HalfCent = 1
  Lifetime = 2
  Period = 2
  MaxTime = 4
SPECIFICATION Spec
INVARIANTS TypeOK ChainsAreDominated ExpiredIsBeingReplaced
PROPERTIES JumpsAreAnnounced CacheStepsBackLittle
CHECK_DEADLOCK FALSE
