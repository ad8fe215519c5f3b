\* Two requests at a time.
\* The bounds on puts, calls, saves and runs let it stop.
SPECIFICATION Spec
CONSTANTS
  None = None
  Requests = {"s1", "s2"}
  MaxVersions = 2
  Sessions = {"i1"}
  Codes = {"c1", "c2", "c3"}
  Sigs = {"x"}
  Functions = {"f1", "f2"}
  Questions = {"q1"}
  ComparedWith = {None}
  Chats = {"c1"}
  Savers = {"s1", "s2"}
  MaxEntries = 2
  MaxSaves = 2
  Refs = {"v1"}
  Panes = {"a", "b"}
  Elsewhere = {"o1"}
  MaxDatasets = 1
  MaxIterations = 2
  p1 = p1
  p2 = p2
  Visible = {p1, p2}
  f1 = f1
  f2 = f2
  Opened = {f1, f2}
  LookUps = TRUE
  MaxStarts = 2
  MaxCompleted = 2
  Changes = {"c1", "c2", "c3"}
  Contacts = {"c1"}
  Comments = {"n1"}
  Desked = {1, 2}
  Touching = {2}
  Dialogs = {"acknowledge"}
  MaxChanges = 1
  MaxActs = 3
  Opening = {"send", "broadcast"}
  MaxTexts = 2
  MaxSteps = 2
  Workbooks = {1, 2}
  MaxCompared = 3
  Tabled = {1, 2}
  Owners = {"p", "q"}
  Mails = {"m", "n"}
  Dues = {1}
  People = {"u"}
  Asking = {"r"}
  MaxVersion = 2
  MaxSandboxes = 2
  MaxRules = 2
  MaxAuthored = 3
  MaxOpens = 2
  Uploads = {"w1", "w2"}
  Reads = {1, 2}
  MaxFiles = 2
INVARIANT TypeOK
INVARIANT PilotIsConsistent
 
INVARIANT ClientKeepsItsWord
PROPERTY BrowserFollowsServer
CHECK_DEADLOCK FALSE
