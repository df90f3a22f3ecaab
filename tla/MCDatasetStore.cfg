CONSTANTS
  btc = btc
  spot = spot
  joined = joined
  Keys = {btc}
  Markets = {spot, joined}
  KeyOf <- MCKeyOf
  MarketLists <- MCMarketLists
  Batches = {b1, b2}
  MaxWrites = 3
  Reads = {r1}
SPECIFICATION Spec
SYMMETRY AnyBatch
INVARIANTS TypeOK ReportsHold StaleReadsExplained AbsenceExplained
