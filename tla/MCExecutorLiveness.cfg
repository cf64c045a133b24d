SPECIFICATION FairSpec
CONSTANTS
  TaskIds = {1, 2}
  Profiles = {"a"}
  ProfileOf <- OneProfile
  MaxAttempts <- OneAttempt
  InitialBackoff = 1
  MaxBackoff = 1
  ExpectedSize <- SizeUnknown
  PauseSupported = {}
  ResumeSupported = {1}
  MaxTasks = 2
  MaxConcurrent = 1
  MaxPerProfile = 1
  OfferedPolicies = {"Fail"}
  MaxTime = 0
  MaxBytes = 2
  RevisionCap <- NoCap
  Handles = {1, 2}
  HandleOf <- OwnHandle
  SourceSize <- SizeOne
  MaxJobs = 1
  StoreMayFail = FALSE
  ClockMayGoBack = FALSE
  MayStop = {}
  OutsiderWrites = FALSE
PROPERTIES
  TasksMoveOn
CHECK_DEADLOCK FALSE
