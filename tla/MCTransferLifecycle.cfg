SPECIFICATION MCSpec
CONSTANTS
  TaskIds = {1, 2, 3, 4, 5}
  Profiles = {"a", "b", "c"}
  ProfileOf <- ThreeProfiles
  MaxAttempts <- Attempts
  InitialBackoff = 1
  MaxBackoff = 1
  ExpectedSize <- Sizes
  PauseSupported = {1}
  ResumeSupported = {1}
  MaxTasks = 3
  MaxConcurrent = 2
  MaxPerProfile = 1
  OfferedPolicies = {"Fail", "Resume"}
  MaxTime = 2
  MaxBytes = 3
  RevisionCap = 9
INVARIANTS
  MemoryMatchesStore
  TokenDiscipline
  RowsWithinLimits
PROPERTIES
  RowsOnlyAdvance
  CompletionIsWitnessed
