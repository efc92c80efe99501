CONSTANTS
  Indents    = {0, 2, 4}
  MaxLines   = 4
  NoLink     = NoLink
  Targets    = {"assets/x", "/u"}
  Members    = {"assets/x"}
  Buffers    = {2, 4, 6, 9, 12, 30}
  MaxBlocks  = 3
  MaxHeads   = 3
  MaxPieces  = 3
  MaxNesting = 2
  MaxOpened  = 5
  MaxTexts   = 3
  Vocabularies  <- MCVocabularies
  MaxDeep       = 6
  OtherScript   = OtherScript
  ChapterTitles <- MCChapterTitles
  Folders       <- MCFolders
  References    <- MCReferences
  Stem          <- MCStem
  Archived      <- MCArchived
  SlugLength    = 3
  MaxParts      = 4
INIT MCInit
NEXT MCNext
CHECK_DEADLOCK FALSE
INVARIANTS   WalkTellsTheWhole IdsAreTheirs TextBlocksAgree KeepsText BookIsBound
