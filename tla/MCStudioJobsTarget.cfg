SPECIFICATION Spec
CONSTANTS
  MaxDocs = 1
  MaxJobs = 1
INVARIANT TargetIsThere
