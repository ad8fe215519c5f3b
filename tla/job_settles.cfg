\* A sidecar that knows its jobs by the ids it gave them.
\* A job that has ended leaves nothing to do.
SPECIFICATION FairSpec
CONSTANTS
  None = None
  Slots = {"s1", "s2"}
  MaxRetries = 3
  AsksByRowId = FALSE
PROPERTY JobSettles
CHECK_DEADLOCK FALSE
