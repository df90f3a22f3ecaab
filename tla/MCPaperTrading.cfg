CONSTANTS
  binance = binance
  bybit = bybit
  curve = curve
  usdt = usdt
  btc = btc
  Venues = {binance, bybit, curve}
  Listed = {binance, bybit}
  Tokens = {usdt, btc}
  USDT = usdt
  Legs <- MCLegs
  Opportunities <- MCOpportunities
  Executions = {x1, x2, x3}
  SlipScale = 2000
  FeeScale = 1000
  Cent = 4000
  Lot = 4
  ListedFunds = 40000000
  LazyFunds = 16000000
  MaxExecutions = 4
SPECIFICATION Spec
INVARIANTS TypeOK LedgerAgrees ReportsAreCash
CHECK_DEADLOCK FALSE
