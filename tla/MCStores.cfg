SPECIFICATION MCSpec
CONSTANTS
  Apps = {"editor", "browser"}
  MaxTime = 3
  Disturbances = 2
  MaxEventGap = 2
  MaxDrift = 1
  Minute = 2
  Horizon = 13
  MaxGaps = 1
  DailyDays = 6
  WeeklyWeeks = 0
  Watched <- MCWatched
  Openers = {"p", "q"}
  MaxDeaths = 2
  NoteIds = {"n1"}
  Editors = {"ann", "bob"}
  Drafts <- MCDrafts
  TagKey <- MCTagKey
  Times = {1, 2}
  Policies <- MCPolicies
  MaxRevision = 3
  QueueSize = 1
  Uploads = {"u1", "u2"}
  BodyOf <- MCBodyOf
  MaxSessions = 2
  MaxStaged = 2
  MaxUploadChunk = 1
  IdleTtl = 1
  MaxRetries = 2
  Current = 3
  MaxNoteCrashes = 2
  NotePool <- MCNotePool
  NoteQueries <- MCNoteQueries
  MaxPage = 2
  MaxOffset = 2
  ExportMax = 14
  JsonHead = 2
  SeparatorSize <- MCSeparatorSize
  ProfileIds = {1, 2}
  Callers = {p, q}
  MaxProfileRevision = 1
  MaxTasks = 1
  PageLimit = 1
  Protocols = {"ssh", "smb"}
  Secrets = {"s1", "s2"}
  MaxJumpHosts = 2
SYMMETRY CallerSymmetry
INVARIANTS
  TimeIsAccounted
  TrackingIsHonest
  SummariesAreHonest
  UpgradeIsReversible
  ReadsAreWhole
  ProfilesAreKept
  ConnectsArePrivate
PROPERTIES
  OpensSafely
  EditsAreKept
  UploadsAreWhole
CHECK_DEADLOCK FALSE
