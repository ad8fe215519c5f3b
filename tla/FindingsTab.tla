---------------------------- MODULE FindingsTab ----------------------------
(***************************************************************************)
(* The results tab of the workspace: the findings of the result shown,     *)
(* narrowed by the filters, the search box and the sheets selected in the  *)
(* sidebar, grouped by project; the link of one finding (?issue=...) that  *)
(* is followed once its row is there; and the numbers above the tab.       *)
(*                                                                         *)
(* A finding is a record; a search text is the set of findings it matches, *)
(* so Findings is the empty text. `rule' stands for the category as well.  *)
(***************************************************************************)
EXTENDS Naturals, FiniteSets

CONSTANTS
  Findings,  \* records with key, project, sheet, severity, rule and ai
  Texts,     \* what may be typed: sets of findings
  None

VARIABLES
  result,    \* the findings of the result of the active file, None without one
  selected,  \* the sheets selected in the sidebar
  mounted,   \* whether the tab is open
  filter,    \* severity and rule chosen, None for all
  sheet,     \* the sheet chosen, None for all
  search,    \* the text in the search box
  settled,   \* the text 200 ms later: what the list is filtered by
  opened,    \* expandedProjects
  link,      \* the key in the address, None without one
  target,    \* highlightedRowId: the finding the last link led to
  touched    \* whether the user has changed anything since

local == <<filter, sheet, search, settled, opened, target, touched>>
vars == <<result, selected, mounted, local, link>>

Field == {"severity", "rule"}
Sheets == {f.sheet : f \in Findings}
Projects == {f.project : f \in Findings}
NoFilter == [x \in Field |-> None]

TypeOK ==
  /\ result \in (SUBSET Findings) \cup {None} /\ selected \subseteq Sheets
  /\ mounted \in BOOLEAN /\ touched \in BOOLEAN
  /\ \A x \in Field : filter[x] \in {f[x] : f \in Findings} \cup {None}
  /\ sheet \in Sheets \cup {None}
  /\ search \in Texts \cup {Findings} /\ settled \in Texts \cup {Findings}
  /\ opened \subseteq Projects
  /\ link \in {f.key : f \in Findings} \cup {None} /\ target \in Findings \cup {None}

\* useState: what the tab starts with each time it is opened.
Fresh ==
  /\ filter' = NoFilter /\ sheet' = None /\ search' = Findings /\ settled' = Findings
  /\ opened' = {} /\ target' = None /\ touched' = FALSE

Init ==
  /\ result = None /\ selected = Sheets /\ mounted = FALSE /\ link = None
  /\ filter = NoFilter /\ sheet = None /\ search = Findings /\ settled = Findings
  /\ opened = {} /\ target = None /\ touched = FALSE

\* The sheet filter, or else the sheets selected if there are any.
OfSheet(f) ==
  IF sheet # None THEN f.sheet = sheet ELSE selected = {} \/ f.sheet \in selected

\* filtered.
Rows ==
  {f \in result : OfSheet(f) /\ f \in settled /\ \A x \in Field : filter[x] \in {None, f[x]}}

\* groupByProject: one row for each project, under it those of its findings.
Groups == {[project |-> p, findings |-> {f \in Rows : f.project = p}] : p \in {f.project : f \in Rows}}

\* The rows of single findings on screen.
Shown == UNION {g.findings : g \in {h \in Groups : h.project \in opened}}

\* Mutant: findings of sheets that are not selected are counted.
UnscopedResult == result

\* filterAuditResultBySelectedSheets.
ScopedResult == {f \in result : f.sheet \in selected}

\* computeAuditMetrics.
Metrics == [issues |-> Cardinality({f \in ScopedResult : ~f.ai}),
            aiIssues |-> Cardinality({f \in ScopedResult : f.ai})]

\* Effects run before the next input is handled.
Pending == mounted /\ link # None /\ result # None /\ \E f \in result : f.key = link

\* Mutant: the text stays in the search box.
ClearsButSearch == filter' = NoFilter /\ UNCHANGED search

ClearsFilters == filter' = NoFilter /\ search' = Findings

\* The effect that consumes ?issue=: filters and search cleared, the sheet
\* filter not, the project expanded, the key removed from the address.
Consume ==
  /\ Pending
  /\ target' = CHOOSE f \in result : f.key = link
  /\ ClearsFilters
  /\ opened' = opened \cup {target'.project} /\ touched' = FALSE /\ link' = None
  /\ UNCHANGED <<result, selected, mounted, sheet, settled>>

\* A look-up arrives, a version is loaded, or navigation drops the result.
ResultArrives(r) ==
  /\ ~Pending /\ result' = r
  /\ UNCHANGED <<selected, mounted, local, link>>

\* A run commits its result and opens the tab.
RunCommits(r) ==
  /\ ~Pending /\ result' = r /\ mounted' = TRUE
  /\ IF mounted THEN UNCHANGED local ELSE Fresh
  /\ UNCHANGED <<selected, link>>

\* The link of a finding on another page opens the workspace at this tab.
Follow(k) ==
  /\ ~Pending /\ link' = k /\ mounted' = TRUE /\ result' = None /\ Fresh
  /\ UNCHANGED selected

\* Another tab, and back.
Leave == mounted /\ ~Pending /\ mounted' = FALSE /\ UNCHANGED <<result, selected, local, link>>
Enter == ~mounted /\ mounted' = TRUE /\ Fresh /\ UNCHANGED <<result, selected, link>>

Listed == mounted /\ ~Pending /\ result # None
Rest == <<result, selected, mounted, link, target>>

Type(text) ==
  /\ Listed /\ search' = text /\ touched' = TRUE /\ UNCHANGED <<Rest, filter, sheet, settled, opened>>

\* useDebouncedValue.
Settle ==
  /\ mounted /\ settled # search /\ settled' = search
  /\ UNCHANGED <<Rest, filter, sheet, search, opened, touched>>

SetFilter(x, v) ==
  /\ Listed /\ filter' = [filter EXCEPT ![x] = v] /\ touched' = TRUE
  /\ UNCHANGED <<Rest, sheet, search, settled, opened>>

SetSheet(s) ==
  /\ Listed /\ sheet' = s /\ touched' = TRUE /\ UNCHANGED <<Rest, filter, search, settled, opened>>

\* The button that clears every filter.
Clear ==
  /\ Listed /\ filter' = NoFilter /\ sheet' = None /\ search' = Findings /\ touched' = TRUE
  /\ UNCHANGED <<Rest, settled, opened>>

ToggleProject(p) ==
  /\ Listed /\ touched' = TRUE
  /\ opened' = IF p \in opened THEN opened \ {p} ELSE opened \cup {p}
  /\ UNCHANGED <<Rest, filter, sheet, search, settled>>

SelectSheets(s) ==
  /\ ~Pending /\ selected' = s
  /\ UNCHANGED <<result, mounted, local, link>>

Next ==
  \/ Consume \/ Leave \/ Enter \/ Settle \/ Clear
  \/ \E r \in (SUBSET Findings) \cup {None} : ResultArrives(r)
  \/ \E r \in SUBSET Findings : RunCommits(r)
  \/ \E f \in Findings : Follow(f.key)
  \/ \E text \in Texts \cup {Findings} : Type(text)
  \/ \E x \in Field : \E v \in {f[x] : f \in Findings} \cup {None} : SetFilter(x, v)
  \/ \E s \in Sheets \cup {None} : SetSheet(s)
  \/ \E p \in Projects : ToggleProject(p)
  \/ \E s \in SUBSET Sheets : SelectSheets(s)

Spec == Init /\ [][Next]_vars

-----------------------------------------------------------------------------

Quiet == settled = search /\ ~touched

\* A link of a finding leads to its row: once it has been followed and the
\* search has settled, the row is on screen unless its sheet is hidden.
LinkIsFollowed ==
  target # None /\ Quiet /\ result # None =>
    (target \in result /\ OfSheet(target) => target \in Shown)

\* The numbers above the tab count the findings listed below it when nothing
\* narrows the list and a sheet is selected.
CountsAgree ==
  (result # None /\ filter = NoFilter /\ sheet = None /\ settled = Findings /\ selected # {}) =>
    Metrics.issues + Metrics.aiIssues = Cardinality(Rows)

FindingsAreFound == LinkIsFollowed /\ CountsAgree

\* Does not hold: a link always shows its finding. The sheet chosen, and the
\* sheets selected in the sidebar, are not cleared.
LinkShowsRow == target # None /\ Quiet /\ result # None => (target \in result => target \in Shown)
=============================================================================
