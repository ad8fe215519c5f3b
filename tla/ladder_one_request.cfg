\* Every endpoint, one request at a time: long legal sequences of calls.
\* UpdaterNullable = TRUE lets answers through signed links commit too.
SPECIFICATION Spec
CONSTANTS
  None = None
  UpdaterNullable = TRUE
  Users = {u1, u2}
  Admins = {u1, u2}
  Slots = {w1}
  Sweeps = {}
  Handlers = {"patchEntry", "addEvent", "transition", "saveDraft", "discardDraft", "send", "forceReescalate", "verify", "revertVerification", "snooze", "publicResponse", "reconcile"}
  Overrides = {"NEW", "RESPONDED", "RESOLVED"}
  Deadlines = {}
  LockTicks = 1
  SlaTicks = 1
  L2Ticks = 1
  SnoozeTicks = 1
  MaxNow = 2
  MaxDue = 3
  MaxContacts = 1
SYMMETRY Symmetry
INVARIANT TypeOK
PROPERTY NothingIsTakenBack
