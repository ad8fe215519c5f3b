\* Two requests and two browsers at a time around one process.
SPECIFICATION FairSpec
CONSTANTS
  None = None
  Gone = Gone
  u1 = u1
  u2 = u2
  Users = {u1, u2}
  Slots = {"s1", "s2"}
  Handlers = {"add", "update", "remove"}
  Overlapping = {"add"}
  Asked = {"viewer", "owner"}
  MaxRows = 3
  Editors = {"b1", "b2"}
  Fields = {"name", "policy"}
  Values = {"x", "y"}
  MaxVersion = 3
  Browsers = {"b1"}
  Procs = {"p1", "p2", "p3"}
  Allowed = {"p1", "p2"}
  MaxSockets = 2
  MaxViews = 4
  Notices = {"n1", "n2"}
  Views = {"v1"}
  Listing = {"d1", "d2"}
  Emails = {"a1", "a2"}
  Names = {"n1"}
  Processes = {"p1"}
  MaxCalls = 2
INVARIANT TypeOK
INVARIANT GrantsDecide
PROPERTY CountedOwnerStays
PROPERTY RowIsVersioned
 
PROPERTY LostToOverlapOnly
 
CHECK_DEADLOCK FALSE
