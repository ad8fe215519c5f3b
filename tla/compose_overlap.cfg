\* Two requests in flight on the compose and verification endpoints.
SPECIFICATION Spec
CONSTANTS
  None = None
  UpdaterNullable = TRUE
  Users = {u1, u2}
  Admins = {u1, u2}
  Slots = {w1, w2}
  Sweeps = {}
  Handlers = {"saveDraft", "discardDraft", "send", "addEvent", "forceReescalate", "verify"}
  Overrides = {}
  Deadlines = {}
  LockTicks = 1
  SlaTicks = 1
  L2Ticks = 1
  SnoozeTicks = 1
  MaxNow = 2
  MaxDue = 2
  MaxContacts = 2
SYMMETRY Symmetry
INVARIANT CountersMatchLog
INVARIANT DraftLock
INVARIANT DraftedHasDraft
