SPECIFICATION Spec
CONSTANTS
  MaxDocs = 2
  MaxJobs = 2
INVARIANT OneOwner
PROPERTIES QuitEnds KeepsExpectations
