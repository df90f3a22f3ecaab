CONSTANTS
  spot = spot
  perp = perp
  Symbols = {spot, perp}
  Cut <- MCCut
  Keys <- MCKeys
  Reconnects = {r1}
  MaxBeats = 2
SPECIFICATION Spec
INVARIANT EveryStreamResumes
