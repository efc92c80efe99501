SPECIFICATION Spec
CONSTANTS
  a = a
  aRaw = aRaw
  b = b
  Blank = Blank
  Cipher = Cipher
  None = None
  Values = {a, aRaw, b, Blank, Cipher}
  Canonical <- MCCanonical
  Archives <- MCArchives
  Folders <- MCFolders
  Imports <- MCImports
  Layouts <- MCLayouts
  Typeable = {aRaw, b}
  Fillable = {a}
  Tickable <- MCTickable
  Faults = {"members", "manifest", "archive", "seal"}
  MaxEdits = 2
  MaxForms = 1
  MaxImages = 1
  MaxLog = 1
  MaxSeals = 1
  MaxFaults = 1
  MaxInputs = 3
  MaxSteps = 4
INVARIANTS  CleanIsSaved  WatchedTextIsCurrent
PROPERTIES EditsSurvive ArchiveKeepsAll
CHECK_DEADLOCK FALSE
