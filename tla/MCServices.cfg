SPECIFICATION MCSpec
CONSTANTS
  Writers = {"a", "b"}
  SizeOf <- MCSizeOf
  Expecting = {"b"}
  MaxRuns = 2
  Delayed = {"truncate", "write", "rename", "remove"}
  ReadSizes = {0, 1, 2, 3}
  MaxStamp = 2
  MaxChunk = 2
  MaxReadRuns = 2
  MaxEdits = 2
  Outsiders = TRUE
  FreshAfter = 1
  MaxStale = 2
  SampleDeadline = 1
  InitialBackoff = 1
  MaxBackoff = 2
  Links = {"a", "b"}
  Width32 = 2
  DumpDeadline = 1
  MaxDumpAttempts = 2
  MaxRateInterval = 2
  MaxClock = 3
  MaxKernelSteps = 2
  Cgroups = {7, 8, 9}
  Cpus = {1, 2}
  Contexts = {"task", "softirq"}
  Bindings <- MCBindings
  MaxCgroups = 2
  MaxApplications = 2
  CounterMax = 2
  MaxPackets = 3
  FreshFor = 1
  RetainFor = 2
  Processes = {1, 2, 3}
  Desktops = {"d"}
  Opaques = {"s", "t"}
  Pids = {1, 2}
  MaxChanges = 2
  MaxTicks = 1
  MinInterval = 1
  MaxInterval = 1
INVARIANTS
  AcknowledgedIsKept
  DownloadIsOneVersion
  FtpsIsPrivate
  TelemetryIsHonest
  StopLeavesNothing
  NetworkFiguresAreReal
  NetworkIsHonest
  ProcessFiguresAreReal
PROPERTIES
  ImplementsReplace
CHECK_DEADLOCK FALSE
