\* A verification commits while the SLA run is inside its transaction.
SPECIFICATION Spec
CONSTANTS
  None = None
  UpdaterNullable = TRUE
  Users = {u1}
  Admins = {u1}
  Slots = {w1}
  Sweeps = {k1}
  Handlers = {"send", "verify", "revertVerification"}
  Overrides = {}
  Deadlines = {}
  LockTicks = 1
  SlaTicks = 1
  L2Ticks = 1
  SnoozeTicks = 1
  MaxNow = 1
  MaxDue = 1
  MaxContacts = 1
PROPERTY SlaStopsAtResolved
