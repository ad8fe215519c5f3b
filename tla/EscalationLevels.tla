--------------------------- MODULE EscalationLevels ---------------------------
(***************************************************************************)
(* The occurrence level a compose shows for each finding of a manager (L1, *)
(* L2, ...), derived from the audit runs of the process, and the manager   *)
(* identity it hangs on: a run stores the address the directory has for    *)
(* the manager, the history falls back to the directory of today, and the  *)
(* tracking entries keep the key they were made under.                     *)
(***************************************************************************)
EXTENDS Naturals, FiniteSets, Sequences

CONSTANTS
  Managers, Projects,
  Addresses,  \* which of a manager's addresses the directory may hold
  None,
  MaxEffort, Thresholds, \* efforts in a sheet, thresholds of the policy
  MaxHistory             \* bound on the runs

VARIABLES
  sheet,     \* per project, its manager and effort in the latest upload
  threshold, \* of the process's audit policy
  address,   \* per manager, the address of the active directory entry, or None
  runs,      \* the completed runs, in the order they completed
  entries    \* the manager keys of the tracking entries of the process

vars == <<sheet, threshold, address, runs, entries>>

Sheets == [Projects -> Managers \X (0..MaxEffort)]

\* managerKey: the address, or the missing-email bucket of the name.
Keys == Managers \X (Addresses \cup {None})

\* An issue; its project stands for its issueKey.
Issues == [project : Projects, manager : Managers, email : Addresses \cup {None}]

TypeOK ==
  /\ sheet \in Sheets /\ threshold \in Thresholds
  /\ address \in [Managers -> Addresses \cup {None}]
  /\ Len(runs) <= MaxHistory /\ \A n \in DOMAIN runs : runs[n] \subseteq Issues
  /\ entries \subseteq Keys

Init ==
  /\ sheet \in Sheets /\ threshold \in Thresholds
  /\ address = [m \in Managers |-> None]
  /\ runs = <<>> /\ entries = {}

\* computeFindingsHash: the issue keys, not whom they are for.
FindingsHash(n) == <<{i.project : i \in runs[n]}>>

\* Mutant: the history takes each run's address as it was.
StoredKey(i) == <<i.manager, i.email>>

\* resolverForProcess: the address of the issue, else that of the directory now.
HistoryKey(i) == <<i.manager, IF i.email # None THEN i.email ELSE address[i.manager]>>

\* computeOccurrenceLevels: the pair was flagged by the n-th run.
Flagged(n, key, p) == \E i \in runs[n] : i.project = p /\ HistoryKey(i) = key

\* levelFor: the distinct fingerprints that flagged the pair, 1 if none did.
LevelFor(key, p) ==
  LET hashes == {FindingsHash(n) : n \in {k \in DOMAIN runs : Flagged(k, key, p)}} IN
  IF hashes = {} THEN 1 ELSE Cardinality(hashes)

\* aggregateEscalations: the findings of the latest run under an entry's key.
Row(k) ==
  IF runs = <<>> THEN {} ELSE {i \in runs[Len(runs)] : <<i.manager, i.email>> = k}

\* resolveContent: the entry's own address, else the directory's.
ComposeKey(k) == IF k[2] # None THEN k ELSE <<k[1], address[k[1]]>>

\* The lines of a compose for entry k: the level of each finding.
Lines(k) == [p \in {i.project : i \in Row(k)} |-> LevelFor(ComposeKey(k), p)]

\* What a run finds on a sheet, with the addresses
\* resolveIssueEmailsFromDirectory writes onto the issues.
Findings(content) ==
  {[project |-> p, manager |-> content[p][1], email |-> address[content[p][1]]] :
     p \in {q \in Projects : content[q][2] > threshold}}

\* run, with the entries ensureTrackingEntriesExist makes.
Record(run) ==
  /\ Len(runs) < MaxHistory
  /\ runs' = Append(runs, run)
  /\ entries' = entries \cup {<<i.manager, i.email>> : i \in run}

\* A new upload, different from the one before, is audited.
AuditUpload ==
  /\ \E content \in Sheets \ {sheet} : sheet' = content /\ Record(Findings(content))
  /\ UNCHANGED <<threshold, address>>

\* The same upload is audited again.
AuditAgain ==
  /\ Record(Findings(sheet))
  /\ UNCHANGED <<sheet, threshold, address>>

\* updatePolicy.
SetThreshold ==
  /\ \E t \in Thresholds \ {threshold} : threshold' = t
  /\ UNCHANGED <<sheet, address, runs, entries>>

\* DirectoryService.commit, or patchEntry with active: a manager without an
\* active entry gets one.
List(m) ==
  /\ address[m] = None
  /\ \E a \in Addresses : address' = [address EXCEPT ![m] = a]
  /\ UNCHANGED <<sheet, threshold, runs, entries>>

\* archiveBulk, deleteManager.
Unlist(m) ==
  /\ address[m] # None
  /\ address' = [address EXCEPT ![m] = None]
  /\ UNCHANGED <<sheet, threshold, runs, entries>>

Next ==
  \/ AuditUpload \/ AuditAgain \/ SetThreshold
  \/ \E m \in Managers : List(m) \/ Unlist(m)

Spec == Init /\ [][Next]_vars

\* Auditing an upload once more, with the directory and the policy its last
\* audit had, changes no level of any compose: reruns do not escalate.
RerunKeepsLevels ==
  [][AuditAgain /\ runs # <<>> /\ Findings(sheet) = runs[Len(runs)]
       => \A k \in entries : Lines(k)' = Lines(k)]_vars

\* A directory import never lowers a level: findings from the time the manager
\* had no address count for the address the compose now uses.
ListingKeepsLevels ==
  [][(\E m \in Managers : List(m)) =>
       \A k \in entries : \A p \in DOMAIN Lines(k) : Lines(k)[p] <= Lines(k)'[p]]_vars

\* A manager who is flagged for an issue for the first time starts at L1,
\* whatever level others reached on it.
NewcomerStartsAtOne ==
  [][AuditUpload => \A k \in entries' : \A p \in DOMAIN Lines(k)' :
       (\A n \in DOMAIN runs : \A i \in runs[n] : i.project = p => i.manager # k[1])
         => Lines(k)'[p] = 1]_vars

\* Together: levels move with new findings only, never with reruns or imports.
LevelsAreEarned == RerunKeepsLevels /\ ListingKeepsLevels /\ NewcomerStartsAtOne

\* Does not hold: a new upload that flags the same manager for the same issue
\* again advances the level. It may have the fingerprint of an earlier one.
NewUploadAdvances ==
  [][AuditUpload => \A k \in entries : \A p \in DOMAIN Lines(k) \cap DOMAIN Lines(k)' :
       Lines(k)'[p] = Lines(k)[p] + 1]_vars

=============================================================================
