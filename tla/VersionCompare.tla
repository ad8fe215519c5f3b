--------------------------- MODULE VersionCompare ---------------------------
(***************************************************************************)
(* Two saved versions side by side: which of the versions of a function    *)
(* can be compared, which two are, and what the comparison of their        *)
(* findings says.                                                          *)
(*                                                                         *)
(* The findings of a version are a sequence, as they come from the audit.  *)
(* A finding has the key its run gave it, None in results made before keys *)
(* or in the browser, a row, and the two of its fields that may change.    *)
(***************************************************************************)
EXTENDS Naturals, Sequences, FiniteSets

CONSTANTS
  Workbooks,    \* the audited files
  Samples,      \* sequences of findings: records with key, row, status and text
  MaxCompared,  \* bound on the saved versions
  None

VARIABLES
  offered,    \* the versions, newest first: file and findings
  active,     \* the file active in the workspace, None on the page of its own
  selectedId, \* the file selected above the comparison
  fromId,     \* the version on the left
  toId,       \* the version on the right
  viewFilter  \* "all" or "changed-only"

vars == <<offered, active, selectedId, fromId, toId, viewFilter>>

Versions == [file : Workbooks, issues : Samples]

TypeOK ==
  /\ Len(offered) \in 2..MaxCompared /\ \A i \in DOMAIN offered : offered[i] \in Versions
  /\ active \in Workbooks \cup {None} /\ selectedId \in Workbooks
  /\ fromId \in DOMAIN offered /\ toId \in DOMAIN offered
  /\ viewFilter \in {"all", "changed-only"}

-----------------------------------------------------------------------------
(* What differs. *)

\* keyFor.
KeyFor(f) == IF f.key # None THEN <<"key", f.key>> ELSE <<"row", f.row>>

\* issueRowKey.
IssueRowKey(f) == IF f.key # None THEN <<"key", f.key>> ELSE <<"status", f.status>>

Has(findings, k) == \E i \in DOMAIN findings : KeyFor(findings[i]) = k

\* A Map built from a sequence keeps the last of those with one key.
Last(positions) == CHOOSE i \in positions : \A j \in positions : j <= i

Previous(from, f) == from[Last({i \in DOMAIN from : KeyFor(from[i]) = KeyFor(f)})]

\* diffIssue.
Differ(prev, next) == prev.status # next.status \/ prev.text # next.text

\* compareResults, by position: the resolved findings are those of from.
CompareResults(from, to) ==
  LET shared == {i \in DOMAIN to : Has(from, KeyFor(to[i]))}
      changed == {i \in shared : Differ(Previous(from, to[i]), to[i])}
  IN [newIssues |-> DOMAIN to \ shared,
      resolvedIssues |-> {i \in DOMAIN from : ~Has(to, KeyFor(from[i]))},
      changedIssues |-> changed,
      unchangedIssues |-> shared \ changed]

\* summarizeDiff's identical, without hashes.
Identical(from, to) ==
  LET c == CompareResults(from, to) IN
    c.newIssues = {} /\ c.resolvedIssues = {} /\ c.changedIssues = {}

\* Mutant: the left side is looked up in the newer version.
LeftFromTo(from, to, f) == f

\* What the left side of a changed row shows.
Left(from, to, f) ==
  LET own == {i \in DOMAIN from : IssueRowKey(from[i]) = IssueRowKey(f)}
  IN IF own = {} THEN f ELSE from[Last(own)]

\* buildAlignedCompareRows. The rows are sorted by what they show.
AlignedRows(from, to) ==
  LET c == CompareResults(from, to) IN
    {[state |-> "fixed", at |-> i, left |-> from[i], right |-> None] : i \in c.resolvedIssues}
      \cup {[state |-> "new", at |-> i, left |-> None, right |-> to[i]] : i \in c.newIssues}
      \cup {[state |-> "changed", at |-> i, left |-> Left(from, to, to[i]), right |-> to[i]] :
              i \in c.changedIssues}
      \cup {[state |-> "same", at |-> i, left |-> to[i], right |-> to[i]] :
              i \in c.unchangedIssues}

-----------------------------------------------------------------------------
(* What is compared. *)

Group(w) == {i \in DOMAIN offered : offered[i].file = w}
HasSameFileGroup == \E w \in Workbooks : Cardinality(Group(w)) >= 2

\* pickerVersions: those of the selected file, or all when no file has two.
Picker == IF HasSameFileGroup THEN Group(selectedId) ELSE DOMAIN offered

Newest(s) == CHOOSE i \in s : \A j \in s : i <= j
Older(s) == IF s = {Newest(s)} THEN Newest(s) ELSE Newest(s \ {Newest(s)})

\* The group of the active file, or the first with two versions, or the first.
InitialGroup(w) ==
  \/ active # None /\ Group(active) # {} /\ w = active
  \/ /\ active = None \/ Group(active) = {}
     /\ \/ Cardinality(Group(w)) >= 2
        \/ ~HasSameFileGroup /\ 1 \in Group(w)

Init ==
  /\ offered \in UNION {[1..n -> Versions] : n \in 2..MaxCompared}
  /\ active \in Workbooks \cup {None}
  /\ selectedId \in {w \in Workbooks : InitialGroup(w)}
  /\ fromId = Older(Picker) /\ toId = Newest(Picker) /\ viewFilter = "changed-only"

\* Mutant: only the left side follows the file.
ReseedFrom == fromId' = Older(Picker') /\ UNCHANGED toId

\* What does not belong to the group is chosen again while it is rendered.
Reseed ==
  IF HasSameFileGroup
    THEN /\ fromId' = IF fromId \in Picker' THEN fromId ELSE Older(Picker')
         /\ toId' = IF toId \in Picker' THEN toId ELSE Newest(Picker')
    ELSE UNCHANGED <<fromId, toId>>

\* A file with versions is selected above the comparison.
SelectFile(w) ==
  /\ HasSameFileGroup /\ Group(w) # {} /\ w # selectedId /\ selectedId' = w
  /\ UNCHANGED <<offered, active, viewFilter>> /\ Reseed

\* Another file becomes active in the sidebar.
ActiveChanges(w) ==
  /\ active # None /\ w # active /\ active' = w /\ UNCHANGED <<offered, viewFilter>>
  /\ selectedId' = IF Group(w) # {} THEN w ELSE selectedId
  /\ IF selectedId' # selectedId THEN Reseed ELSE UNCHANGED <<fromId, toId>>

\* visibleRows.
VisibleRows ==
  {r \in AlignedRows(offered[fromId].issues, offered[toId].issues) :
     viewFilter = "all" \/ r.state # "same"}

Pick(i, j) ==
  /\ i \in Picker /\ j \in Picker /\ (i = fromId \/ j = toId)
  /\ fromId' = i /\ toId' = j /\ UNCHANGED <<offered, active, selectedId, viewFilter>>

Swap ==
  /\ fromId' = toId /\ toId' = fromId /\ UNCHANGED <<offered, active, selectedId, viewFilter>>

SetViewFilter(x) ==
  /\ viewFilter' = x /\ UNCHANGED <<offered, active, selectedId, fromId, toId>>

Next ==
  \/ Swap \/ \E w \in Workbooks : SelectFile(w) \/ ActiveChanges(w)
  \/ \E i \in DOMAIN offered, j \in DOMAIN offered : Pick(i, j)
  \/ \E x \in {"all", "changed-only"} : SetViewFilter(x)

Spec == Init /\ [][Next]_vars

-----------------------------------------------------------------------------

\* Each finding of a result has a key of its own.
Keyed(findings) ==
  \A i, j \in DOMAIN findings :
    findings[i].key # None /\ (i # j => findings[i].key # findings[j].key)

\* A comparison is on screen whichever file is selected or active: both sides
\* are among the versions that can be picked, and of one file if any file has
\* two versions.
AlwaysCompares == fromId \in Picker /\ toId \in Picker

\* Of results with keys, every finding is in exactly one row, across from
\* itself if the other version has it, and a row is left out only when its
\* sides agree.
OneOf(rows) == \E r \in rows : rows = {r}

ComparisonIsExact ==
  LET from == offered[fromId].issues
      to == offered[toId].issues
      rows == AlignedRows(from, to)
  IN Keyed(from) /\ Keyed(to) =>
       /\ \A i \in DOMAIN from : OneOf({r \in rows : r.state # "new" /\ r.left.key = from[i].key})
       /\ \A i \in DOMAIN to : OneOf({r \in rows : r.state # "fixed" /\ r.right.key = to[i].key})
       /\ \A r \in rows : r.state \in {"changed", "same"} =>
            /\ r.left.key = r.right.key
            /\ r.state = "same" <=> ~Differ(r.left, r.right)
       /\ CompareResults(to, from).newIssues = CompareResults(from, to).resolvedIssues
       /\ Identical(from, to) => {from[i].key : i \in DOMAIN from} = {to[i].key : i \in DOMAIN to}
       /\ viewFilter = "changed-only" => (VisibleRows = {} <=> Identical(from, to))

VersionsCompare == AlwaysCompares /\ ComparisonIsExact

\* Does not hold: results that are called identical have as many findings. Two
\* findings with one key are one.
IdenticalMeansEqual ==
  Identical(offered[fromId].issues, offered[toId].issues) =>
    Len(offered[fromId].issues) = Len(offered[toId].issues)
=============================================================================
