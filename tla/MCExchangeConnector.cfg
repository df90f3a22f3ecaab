CONSTANTS
  spot = spot
  perp = perp
  Symbols = {spot, perp}
  Cut <- MCCut
  Keys <- MCKeys
  Reconnects = {r1, r2}
  MaxBeats = 3
SPECIFICATION FairSpec
INVARIANTS TypeOK LeaksAreCounted StatusAgrees ReconnectResumes
PROPERTY ReconnectsEnd
