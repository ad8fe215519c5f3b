----------------------------- MODULE MCEscalation ------------------------------
(* From a file to the escalations it raises, for TLC: files and their        *)
(* drafts, the attachments of an entry, what the engines find, runs and the  *)
(* statuses of the tracking entries, the address an issue goes to, the       *)
(* levels the runs give, operations on several entries at a time, the        *)
(* display codes all of them draw and the foreign keys their deletions       *)
(* follow. Each is a view of its own of the same tables, so a behaviour      *)
(* follows one of them, the focus, while the others rest.                    *)
EXTENDS Naturals, FiniteSets

CONSTANTS
  None,
  Engines, Mailboxes, Requests, MaxOpen, MaxRuns, MaxEdits,
  Managers, Projects, Addresses, MaxEffort, Thresholds, MaxHistory,
  ProjectIds, ProjectNames, Listed, Scores, MaxRows,
  Tracked, Batches, Kinds, Started, MaxTicks,
  Series, YearInCode, MaxYear, MaxDraws,
  AuditedBy, Numbers, Tabs, Days, Totals, Months, Columns, Products, Facts, Probabilities,
  BcsFlags, Limits, Rules, MaxCells, MaxUploads,
  Owners,
  FileOps, MaxPuts, MaxFiles, MaxDrafts, MaxVersions,
  Users, Admins, MaxAttachments, MaxAttached

VARIABLES
  focus,
  entry, shown, drawn, clock, request, edits, stale,
  sheet, threshold, address, runs, entries,
  pc, rows, issue, keys, todo, index,
  stage, reachable, batch, log, ticks,
  year, counter, taken, call, draws,
  engine, limit, file, selected, uploads, first, last,
  records,
  workbook, files, draft, drafts, stored, puts, doomed, work, promoted, faulty,
  attached, attaching

-----------------------------------------------------------------------------
(* The tables, by what their rows belong to: nobody, a process or a file.    *)

PeopleTables == {"Tenant", "User", "ManagerDirectory", "SystemFunction"}
RuleTables == {"AuditRule", "AiPilotRuleMeta", "AiPilotSandboxSession", "AiPilotAuditLog"}
PersonalTables == {"UserPreference", "ApiToken"}
ObjectTables == {"uploaded_object", "pdf_processing_job", "ai_pilot_job"}
SharedTables == PeopleTables \cup RuleTables \cup PersonalTables \cup ObjectTables
                \cup {"NotificationTemplate"}

ProcessTables ==
  {"Process", "ProcessFunction", "FunctionAuditRequest", "ProcessMember",
   "ProcessMemberScopePermission", "FileDraft"}
DiscussionTables ==
  {"IssueComment", "IssueCorrection", "IssueAcknowledgment", "TrackingEntry",
   "TrackingStageComment", "TrackingAttachment", "TrackingEvent",
   "ComposerNotificationTemplate"}
SideTables ==
  {"Notification", "Job", "WebhookEndpoint", "LiveSession", "SignedLink", "notification_log"}

FileTables == {"WorkbookFile", "FileBlob", "FileVersion", "WorkbookSheet"}
AuditTables == {"AuditRun", "SavedVersion", "AuditIssue", "Export"}

-----------------------------------------------------------------------------
(* The foreign keys: child, what a deletion of the parent does to it,        *)
(* parent.                                                                   *)

On(action, children, parent) == {<<c, action, parent>> : c \in children}

ProcessKeys ==
  On("RESTRICT", {"Process"}, "User") \cup On("RESTRICT", {"Process"}, "Tenant")
  \cup On("CASCADE", {"ManagerDirectory"}, "Tenant")
  \cup On("SET NULL", {"ManagerDirectory"}, "User")
  \cup On("CASCADE", ProcessTables \ {"Process", "FileDraft"}, "Process")
  \cup On("RESTRICT", {"ProcessFunction"}, "SystemFunction")
  \cup On("SET NULL", {"ProcessMemberScopePermission"}, "SystemFunction")
  \cup On("CASCADE", {"ProcessMember"}, "User")
  \cup On("CASCADE", {"ProcessMemberScopePermission"}, "ProcessMember")

FileKeys ==
  On("CASCADE", {"WorkbookFile", "FileDraft"}, "Process")
  \cup On("RESTRICT", {"WorkbookFile", "FileDraft"}, "SystemFunction")
  \cup On("RESTRICT", {"WorkbookFile", "FileVersion"}, "User")
  \cup On("CASCADE", {"FileDraft"}, "User")
  \cup On("CASCADE", {"FileBlob", "FileVersion", "WorkbookSheet"}, "WorkbookFile")

ObjectKeys ==
  On("SET NULL", {"WorkbookFile", "FileVersion", "FileDraft", "AiPilotSandboxSession"},
     "uploaded_object")
  \cup On("RESTRICT", {"pdf_processing_job"}, "uploaded_object")

PilotKeys ==
  On("RESTRICT", {"AuditRule", "AiPilotSandboxSession"}, "SystemFunction")
  \cup On("CASCADE", {"AiPilotRuleMeta"}, "AuditRule")
  \cup On("RESTRICT", {"AiPilotRuleMeta", "AiPilotSandboxSession", "AiPilotAuditLog"}, "User")
  \cup On("SET NULL", {"AiPilotRuleMeta"}, "AiPilotSandboxSession")

PilotJobKeys == On("CASCADE", {"ai_pilot_job"}, "AiPilotSandboxSession")

AuditKeys ==
  On("CASCADE", {"AuditRun", "SavedVersion"}, "Process")
  \cup On("CASCADE", {"AuditRun"}, "WorkbookFile")
  \cup On("RESTRICT", {"AuditRun", "SavedVersion"}, "User")
  \cup On("CASCADE", {"SavedVersion", "AuditIssue"}, "AuditRun")
  \cup On("RESTRICT", {"AuditIssue"}, "AuditRule")

\* Mutant: an attachment keeps its entry.
AttachmentsStay ==
  On("CASCADE", DiscussionTables \ {"TrackingAttachment"}, "Process")
  \cup On("RESTRICT", {"TrackingAttachment"}, "TrackingEntry")

DiscussionKeys ==
  On("CASCADE", DiscussionTables \ {"TrackingStageComment", "TrackingAttachment", "TrackingEvent"},
     "Process")
  \cup On("CASCADE", {"TrackingStageComment", "TrackingAttachment", "TrackingEvent"},
          "TrackingEntry")
  \cup On("RESTRICT", {"IssueComment", "IssueCorrection", "IssueAcknowledgment",
                       "TrackingStageComment", "TrackingAttachment"}, "User")
  \cup On("SET NULL", {"TrackingEntry", "TrackingEvent", "ComposerNotificationTemplate"}, "User")

SideKeys ==
  On("SET NULL", {"NotificationTemplate"}, "Tenant")
  \cup On("CASCADE", SideTables \cup {"ActivityLog", "Export"}, "Process")
  \cup On("SET NULL", {"Notification", "notification_log"}, "TrackingEntry")
  \cup On("SET NULL", {"Notification"}, "ComposerNotificationTemplate")
  \cup On("SET NULL", {"Export"}, "AuditRun") \cup On("SET NULL", {"Export"}, "SavedVersion")
  \cup On("SET NULL", {"Notification", "ActivityLog", "Export", "Job", "WebhookEndpoint",
                       "SignedLink"}, "User")
  \cup On("RESTRICT", {"notification_log"}, "User")
  \cup On("CASCADE", {"UserPreference", "ApiToken", "LiveSession"}, "User")

Keys == ProcessKeys \cup FileKeys \cup ObjectKeys \cup PilotKeys \cup PilotJobKeys
        \cup AuditKeys \cup DiscussionKeys \cup SideKeys

\* The references of a table.
Tables == SharedTables \cup ProcessTables \cup DiscussionTables \cup SideTables
          \cup FileTables \cup AuditTables \cup {"ActivityLog"}
KeysFrom == [table \in Tables |-> {k \in Keys : k[1] = table}]

-----------------------------------------------------------------------------
(* What the data client is told of them (schema-map.ts): the relations its   *)
(* queries may follow, as <<the table with the key, the table it names>>.    *)

ProcessRelations ==
  {<<"ProcessMember", "Process">>, <<"ProcessFunction", "Process">>, <<"Process", "Tenant">>,
   <<"Process", "User">>, <<"WorkbookFile", "Process">>, <<"AuditRun", "Process">>,
   <<"SavedVersion", "Process">>, <<"TrackingEntry", "Process">>,
   <<"ProcessMember", "User">>, <<"ProcessMemberScopePermission", "ProcessMember">>}

FileRelations ==
  {<<t, "WorkbookFile">> : t \in {"WorkbookSheet", "FileBlob", "FileVersion", "AuditRun"}}
  \cup {<<"WorkbookFile", "Process">>, <<"WorkbookFile", "User">>, <<"FileVersion", "User">>}

RuleRelations ==
  {<<"AiPilotRuleMeta", "AuditRule">>, <<"AiPilotRuleMeta", "User">>, <<"AiPilotAuditLog", "User">>}

AuditRelations ==
  {<<"AuditIssue", "AuditRun">>, <<"AuditRun", "WorkbookFile">>, <<"AuditRun", "Process">>,
   <<"AuditRun", "User">>, <<"SavedVersion", "AuditRun">>, <<"SavedVersion", "User">>,
   <<"AuditIssue", "AuditRule">>}
  \cup {<<t, "User">> : t \in {"IssueComment", "IssueCorrection", "IssueAcknowledgment"}}

TrackingRelations ==
  {<<"TrackingEntry", "Process">>, <<"TrackingEntry", "User">>}
  \cup {<<t, u>> : t \in {"TrackingStageComment", "TrackingAttachment", "TrackingEvent"},
                  u \in {"TrackingEntry", "User"}}

Relations == ProcessRelations \cup FileRelations \cup RuleRelations \cup AuditRelations
             \cup TrackingRelations

-----------------------------------------------------------------------------
Runs == INSTANCE AuditRuns WITH Keys <- Mailboxes
LevelsOf == INSTANCE EscalationLevels
Addressing == INSTANCE IssueAddressing WITH
  Ids <- ProjectIds, Entries <- Listed, Projects <- ProjectNames
Bulk == INSTANCE TrackingBulk WITH Entries <- Tracked, address <- reachable
Codes == INSTANCE DisplayCodes

\* A condition of an AI rule, and the rules by their names in the .cfg.
Condition(column, op, texts) == [op |-> op, column |-> column, texts |-> texts]
Logic ==
  [r \in Rules |->
     CASE r = "number missing" -> Condition("projectNo", "isBlank", {})
       [] r = "unknown column" ->
            [op |-> "and", children |->
               {Condition("projectNo", "!=", {}), Condition("Owner", "isBlank", {})}]
       [] r = "listed" ->
            [op |-> "or", children |->
               {Condition("projectNo", ">", {}),
                [op |-> "and", children |-> {Condition("projectNo", "isNotMissing", {}),
                                             Condition("projectNo", "isOneOf", Numbers)}]}]]

Found == INSTANCE AuditEngines WITH Sheets <- Tabs
Deletions == INSTANCE RecordGraph WITH
  Projects <- Owners, Books <- [b \in {"x", "z"} |-> IF b = "z" THEN "q" ELSE "p"],
  ProcessTables <- ProcessTables \cup DiscussionTables \cup SideTables,
  FileTables <- FileTables \cup AuditTables,
  ForeignKeys <- KeysFrom, rows <- records
Vault == INSTANCE FileVault WITH Slots <- Requests, Ops <- FileOps, file <- workbook
Attached == INSTANCE Attachments WITH MaxRows <- MaxAttached, rows <- attached, call <- attaching

\* The bounds are numbers; there is a first year.
Bounds == MaxYear \in Nat \ {0} /\ MaxDraws \in Nat

\* NULL is no request and no entry, the resolved column no engine.
ConstantsDiffer ==
  /\ None \notin Requests /\ None \notin Runs!Entries /\ "resolved" \notin Engines
  /\ MaxOpen \in Nat /\ MaxRuns \in Nat /\ MaxEdits \in Nat

\* The directory is finite, and its entries are none of the other things the
\* index holds.
DirectoryIsFinite ==
  IsFiniteSet(Listed) /\ None \notin Listed /\ "tie" \notin Listed /\ None # "tie"

\* The bounds are numbers, and None is no object and no draft row.
VaultBounds ==
  /\ MaxPuts \in Nat /\ MaxFiles \in Nat /\ MaxDrafts \in Nat
  /\ None \notin Nat /\ None \notin Vault!Draft

\* MAX_ATTACHMENTS_PER_ENTRY is positive; None is no call.
AttachmentBounds ==
  MaxAttachments \in Nat \ {0} /\ IsFiniteSet(Requests) /\ None \notin Attached!Calls

\* The six engines, days that are numbers, and months counted from one.
EngineBounds ==
  /\ AuditedBy \subseteq {"over", "missing", "rate", "cost", "master", "opportunities"}
  /\ Days \subseteq Nat /\ Totals \subseteq Nat
  /\ IsFiniteSet(Months) /\ Months = 1..Cardinality(Months)

\* The bounds are numbers, operations start in stages of the ladder, and the
\* engine's default threshold is among those that are set.
TypeBounds ==
  /\ MaxHistory \in Nat /\ MaxRows \in Nat /\ MaxUploads \in Nat /\ MaxAttached \in Nat
  /\ Started \subseteq Bulk!Stages /\ Found!DefaultLimit \in Limits

ASSUME ConstantsAreApart ==
  /\ Bounds /\ ConstantsDiffer /\ DirectoryIsFinite /\ VaultBounds /\ AttachmentBounds
  /\ EngineBounds /\ TypeBounds

audit == <<entry, shown, drawn, clock, request, edits, stale>>
levels == <<sheet, threshold, address, runs, entries>>
addressing == <<pc, rows, issue, keys, todo, index>>
bulk == <<stage, reachable, batch, log, ticks>>
codes == <<year, counter, taken, call, draws>>
findings == <<engine, limit, file, selected, uploads, first, last>>
vault == <<workbook, files, draft, drafts, stored, puts, doomed, work, promoted, faulty>>
attachments == <<attached, attaching>>

vars == <<focus, audit, levels, addressing, bulk, codes, findings, records, vault, attachments>>

Init ==
  /\ focus \in {"audit", "levels", "addressing", "bulk", "codes", "findings",
                "records", "vault", "attachments"}
  /\ Runs!Init /\ LevelsOf!Init /\ Addressing!Init /\ Bulk!Init /\ Codes!Init
  /\ Found!Init /\ Vault!Init /\ Attached!Init
  /\ IF focus = "records" THEN Deletions!Init ELSE records = {}
  \* What rests starts in one state.
  /\ focus # "levels" => sheet = CHOOSE s \in LevelsOf!Sheets : TRUE
  /\ focus # "levels" => threshold = CHOOSE t \in Thresholds : TRUE
  /\ focus # "addressing" => issue.id = None /\ issue.address = None
  /\ focus # "bulk" => \A e \in Tracked : reachable[e]
  /\ focus # "findings" => engine = CHOOSE e \in AuditedBy : TRUE

Next ==
  /\ UNCHANGED focus
  /\ \/ /\ focus = "audit" /\ Runs!Next
        /\ UNCHANGED <<levels, addressing, bulk, codes, findings, records, vault, attachments>>
     \/ /\ focus = "levels" /\ LevelsOf!Next
        /\ UNCHANGED <<audit, addressing, bulk, codes, findings, records, vault, attachments>>
     \/ /\ focus = "addressing" /\ Addressing!Next
        /\ UNCHANGED <<audit, levels, bulk, codes, findings, records, vault, attachments>>
     \/ /\ focus = "bulk" /\ Bulk!Next
        /\ UNCHANGED <<audit, levels, addressing, codes, findings, records, vault, attachments>>
     \/ /\ focus = "codes" /\ Codes!Next
        /\ UNCHANGED <<audit, levels, addressing, bulk, findings, records, vault, attachments>>
     \/ /\ focus = "findings" /\ Found!Next
        /\ UNCHANGED <<audit, levels, addressing, bulk, codes, records, vault, attachments>>
     \/ /\ focus = "records" /\ Deletions!Next
        /\ UNCHANGED <<audit, levels, addressing, bulk, codes, findings, vault, attachments>>
     \/ /\ focus = "vault" /\ Vault!Next
        /\ UNCHANGED <<audit, levels, addressing, bulk, codes, findings, records, attachments>>
     \/ /\ focus = "attachments" /\ Attached!Next
        /\ UNCHANGED <<audit, levels, addressing, bulk, codes, findings, records, vault>>

Spec == Init /\ [][Next]_vars

\* Of the focus: what rests stays as it started.
TypeOK ==
  CASE focus = "audit" -> Runs!TypeOK
    [] focus = "levels" -> LevelsOf!TypeOK
    [] focus = "addressing" -> Addressing!TypeOK
    [] focus = "bulk" -> Bulk!TypeOK
    [] focus = "codes" -> Codes!TypeOK
    [] focus = "findings" -> Found!TypeOK
    [] focus = "records" -> Deletions!TypeOK
    [] focus = "vault" -> Vault!TypeOK
    [] focus = "attachments" -> Attached!TypeOK

EntriesFollowRuns == focus = "audit" => Runs!EntriesFollowRuns
LevelsAreEarned == LevelsOf!LevelsAreEarned
AddressIsUnambiguous == focus = "addressing" => Addressing!AddressIsUnambiguous
BatchesDoWhatTheySaw == Bulk!BatchesDoWhatTheySaw
FreshWithinItsYear == Codes!FreshWithinItsYear
AuditsAddUp == focus = "findings" => Found!AuditsAddUp
NothingIsLost == Vault!NothingIsLost /\ Attached!AttachmentsStay
DeletionsAreContained ==
  [](focus = "records" => Deletions!Intact) /\ [][Deletions!OnlyItsOwn]_records
=============================================================================
