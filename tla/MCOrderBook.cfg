SPECIFICATION Spec
CONSTANTS
  Prices = {1, 2}
  MaxAmount = 1
  MaxSeq = 3
  ClockSeq = 9
  Sequencing = {TRUE, FALSE}
  Chained = TRUE
  ResyncCallback = TRUE
  Requests = {r1, r2}
  NoView = NoView
INVARIANTS TypeOK BookIsVenueImage CrossedOnlyByVenue SuspicionExplained
PROPERTIES ImplementsReplica
SYMMETRY RequestSymmetry
