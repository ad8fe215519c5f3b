\* Two submits in flight, over links with and without an issue.
\* Once every link has expired nobody can answer any more: the system may stop.
SPECIFICATION FairSpec
CONSTANTS
  None = None
  Links = {l1, l2}
  IssueLinks = {l1}
  Slots = {w1, w2}
  UpdaterNullable = TRUE
  Faults = TRUE
INVARIANT TypeOK
INVARIANT SingleUse
INVARIANT SpentIffRecorded
PROPERTY Implements
 
CHECK_DEADLOCK FALSE
