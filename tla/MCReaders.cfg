CONSTANTS
  Block       = 3
  Names       <- MCNames
  PathOrder   <- MCOrder
  Contents    = {1, 2, 3, 4, 5, 6, 7, 8, 9, 10, 11, 12, 13, 14, 15, 16, 17, 18, 19, 20, 21, 22, 23, 24, 25, 26, 27, 28, 29, 30, 31, 32, 33, 34, 35, 36, 37, 38, 39, 40, 41, 42}
  Size        <- MCSize
  Garbage     <- MCGarbage
  Escaping    = {"../up"}
  Foreign     = {"C:x"}
  NameBytes   <- MCNameBytes
  ReaderBytes = 3
  EntryBytes  = 2
  Align       = 2
  Overhead    = 7
  EntrySize   = 2
  Window      = 2
  Rooms       <- MCRooms
  Spans       = {0, 1, 3}
  Signatures  <- MCSignatures
  Inherited   = {"constructor"}
  Documents   <- MCDocuments
  Meaning     <- MCMeaning
  Extras      <- MCExtras
  MaxDamage   = 2
SPECIFICATION Spec
CHECK_DEADLOCK FALSE
INVARIANTS ArenaLayout ArenaSuffices ReadsInside   
