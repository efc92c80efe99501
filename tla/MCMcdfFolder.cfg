SPECIFICATION MCSpec
CONSTANTS
  Procs = {p1, p2}
  asset = asset
  Others = {asset}
  intro = intro
  Empty = Empty
  Texts = {intro, Empty}
  Sections <- MCSections
  Anchors <- MCAnchors
  Requests <- MCRequests
  MaxSeals = 2
  MaxCrashes = 1
  MaxSaves = 1
INVARIANTS  RoundTrip IntegrityWithoutKey AttestationTruthful
 
SYMMETRY Symmetry
CHECK_DEADLOCK FALSE
