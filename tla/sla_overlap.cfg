\* One SLA run at a time beside a request in flight.
SPECIFICATION FairSpec
CONSTANTS
  None = None
  UpdaterNullable = TRUE
  Users = {u1}
  Admins = {u1}
  Slots = {w1}
  Sweeps = {k1}
  Handlers = {"send", "transition", "forceReescalate", "snooze"}
  Overrides = {}
  Deadlines = {}
  LockTicks = 1
  SlaTicks = 1
  L2Ticks = 1
  SnoozeTicks = 1
  MaxNow = 2
  MaxDue = 2
  MaxContacts = 1
INVARIANT EachRungQueuedOnce
PROPERTY BreachIsEscalated
