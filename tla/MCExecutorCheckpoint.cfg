SPECIFICATION ExecSpec
CONSTANTS
  TaskIds = {1}
  Profiles = {"a"}
  ProfileOf <- OneProfile
  MaxAttempts <- TwoAttempts
  InitialBackoff = 1
  MaxBackoff = 1
  ExpectedSize <- SizeUnknown
  PauseSupported = {}
  ResumeSupported = {1}
  MaxTasks = 1
  MaxConcurrent = 1
  MaxPerProfile = 1
  OfferedPolicies = {"Fail"}
  MaxTime = 1
  MaxBytes = 2
  RevisionCap <- NoCap
  Handles = {1}
  HandleOf <- OwnHandle
  SourceSize <- SizeTwo
  MaxJobs = 1
  StoreMayFail = FALSE
  ClockMayGoBack = FALSE
  MayStop = {}
  OutsiderWrites = FALSE
INVARIANT
  CheckpointIsSafe
