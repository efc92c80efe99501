SPECIFICATION Spec
CONSTANTS
  a = a
  aRaw = aRaw
  b = b
  pic = pic
  one = one
  oneRaw = oneRaw
  f1 = f1
  f2 = f2
  Empty = Empty
  EmptyForm = EmptyForm
  None = None
  Texts = {a, aRaw, b, pic, Empty}
  Forms = {one, oneRaw, EmptyForm}
  Canonical <- MCCanonical
  Anchors <- MCAnchors
  Declared <- MCDeclared
  Pictured <- MCPictured
  Fresh <- MCFresh
  Converted <- MCConverted
  Disk <- MCDisk
  Typeable = {b}
  Fillable = {EmptyForm}
  Droppable = {f2}
  MaxTasks = 2
  MaxAssets = 1
  MaxLog = 2
  MaxSeals = 1
  MaxInputs = 2
  MaxSteps = 5
INVARIANTS CleanIsWritten HandleIsThisDocument VerdictIsOfTheSave 
PROPERTIES  OnlyLateResultsLose
CHECK_DEADLOCK FALSE
