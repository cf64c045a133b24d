SPECIFICATION ExecSpec
CONSTANTS
  TaskIds = {1, 2}
  Profiles = {"a"}
  ProfileOf <- OneProfile
  MaxAttempts <- OneAttempt
  InitialBackoff = 1
  MaxBackoff = 1
  ExpectedSize <- SizeUnknown
  PauseSupported = {}
  ResumeSupported = {1}
  MaxTasks = 2
  MaxConcurrent = 2
  MaxPerProfile = 2
  OfferedPolicies = {"Fail"}
  MaxTime = 0
  MaxBytes = 2
  RevisionCap <- NoCap
  Handles = {1, 2}
  HandleOf <- OwnHandle
  SourceSize <- SizeOne
  MaxJobs = 2
  StoreMayFail = FALSE
  ClockMayGoBack = FALSE
  MayStop = {}
  OutsiderWrites = FALSE
INVARIANTS
  WorkersMatchRuns
CHECK_DEADLOCK FALSE
