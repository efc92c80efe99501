SPECIFICATION MCSpec
CONSTANTS
  Procs = {p1}
  asset = asset
  Others = {asset}
  intro = intro
  Empty = Empty
  Texts = {intro, Empty}
  Sections <- MCSections
  Anchors <- MCAnchors
  Requests <- MCRequests
  MaxSeals = 2
  MaxCrashes = 0
  MaxSaves = 1
INVARIANT NeverSealedTwice
CHECK_DEADLOCK FALSE
