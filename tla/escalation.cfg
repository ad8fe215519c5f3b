\* Two requests at a time around one process.
\* The bounds on runs, batches and draws let it stop.
SPECIFICATION Spec
CONSTANTS
  None = None
  Engines = {"f1", "f2"}
  Mailboxes = {"m1", "m2"}
  Requests = {"r1", "r2"}
  MaxOpen = 1
  MaxRuns = 3
  MaxEdits = 1
  Managers = {"m1", "m2"}
  Projects = {"p1", "p2"}
  Addresses = {1}
  MaxEffort = 1
  Thresholds = {0, 1}
  MaxHistory = 3
  ProjectIds = {"i1"}
  ProjectNames = {"p1"}
  Listed = {"e1", "e2"}
  Scores = {80, 96, 100}
  MaxRows = 2
  Tracked = {"e1", "e2"}
  Batches = {"b1", "b2"}
  Kinds = {"resolve", "acknowledge", "reescalate", "broadcast"}
  Started = {"AWAITING_RESPONSE"}
  MaxTicks = 2
  Series = {"EVT", "ACT"}
  YearInCode = {"ACT"}
  MaxYear = 2
  MaxDraws = 4
  AuditedBy = {"over", "missing", "rate", "cost", "master", "opportunities"}
  Numbers = {"n1"}
  Tabs = {"a", "b"}
  Days = {20, 40}
  Totals = {5, 40}
  Months = {1}
  Columns = {"customer"}
  Products = {"others", "placeholder"}
  Facts = {"closed", "started"}
  Probabilities = {60, 90}
  BcsFlags = {"hash"}
  Rules = {"number missing", "unknown column", "listed"}
  Limits = {30, 10}
  MaxCells = 2
  MaxUploads = 1
  Owners = {"p", "q"}
  FileOps = {"upload", "save", "discard", "promote", "snapshot"}
  MaxPuts = 3
  MaxFiles = 1
  MaxDrafts = 2
  MaxVersions = 2
  Users = {"u1", "u2"}
  Admins = {}
  MaxAttachments = 1
  MaxAttached = 4
INVARIANT TypeOK
INVARIANT EntriesFollowRuns
INVARIANT AddressIsUnambiguous
INVARIANT FreshWithinItsYear
INVARIANT AuditsAddUp
PROPERTY DeletionsAreContained
PROPERTY LevelsAreEarned
 
 
CHECK_DEADLOCK FALSE
