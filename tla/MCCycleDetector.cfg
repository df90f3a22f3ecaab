CONSTANTS
  usdt = usdt
  btc = btc
  eth = eth
  v1 = v1
  v2 = v2
  Assets = {usdt, btc, eth}
  Venues = {v1, v2}
  Links <- MCLinks
  Weights <- MCWeights
  Root = usdt
  Null = Null
  Infinity = Infinity
  Tolerance = 1
  MinGain = 1
  HopLimits = {2, 3}
  MaxEdges = 4
SPECIFICATION FairSpec
INVARIANTS TypeOK ReportedIsCycle ReportedGains SilenceIsSafe VisitedIsPath SearchIsExact
PROPERTY CallsReturn
