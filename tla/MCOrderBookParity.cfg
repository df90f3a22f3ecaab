SPECIFICATION Spec
CONSTANTS
  Prices = {1}
  MaxAmount = 1
  MaxSeq = 4
  ClockSeq = 9
  Sequencing = {TRUE}
  Chained = TRUE
  ResyncCallback = TRUE
  Requests = {r1, r2}
  NoView = NoView
PROPERTY ResyncKeepsUpdates
