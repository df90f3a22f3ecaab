CONSTANTS
  usdt = usdt
  btc = btc
  eth = eth
  v1 = v1
  v2 = v2
  Assets = {usdt, btc}
  Venues = {v1, v2}
  Links <- MCLinks
  Weights <- MCWeights
  Root = usdt
  Null = Null
  Infinity = Infinity
  Tolerance = 1
  MinGain = 1
  HopLimits = {2}
  MaxEdges = 2
SPECIFICATION Spec
INVARIANT NegativeCyclesReported
