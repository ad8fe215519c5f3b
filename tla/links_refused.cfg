\* One answer about an issue under the schema as migrated.
\* Once every link has expired nobody can answer any more: the system may stop.
SPECIFICATION FairSpec
CONSTANTS
  None = None
  Links = {l1}
  IssueLinks = {l1}
  Slots = {w1}
  UpdaterNullable = FALSE
  Faults = FALSE
PROPERTY AnswerIsRecorded
CHECK_DEADLOCK FALSE
