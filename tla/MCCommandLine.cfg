CONSTANTS
  None     = None
  Torn     = Torn
  Occupied = Occupied
  Missing  = Missing
  t1       = t1
  t2       = t2
  crlf     = crlf
  picture  = picture
  Texts    = {t1, t2}
  Canonical <- MCCanonical
  Pictures = {picture}
  Imports  <- MCImports
  Worlds   <- MCWorlds
  MaxCommands = 2
  MaxTroubles = 2
SPECIFICATION Spec
CHECK_DEADLOCK FALSE
INVARIANTS SuccessDelivers  VerifiedWasSigned
