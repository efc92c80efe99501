SPECIFICATION Spec
CONSTANTS
  Procs = {cli, studio}
  Events = {created, signed}
  MaxLines = 3
  MaxDamage = 1
INVARIANTS CheckpointCommits 
PROPERTIES BrokenStaysBroken InnerChangeBreaks
SYMMETRY Symmetry
CHECK_DEADLOCK FALSE
