----------------------------- MODULE AuditEngines -----------------------------
(* What the audit engines find in a workbook, how their findings are merged  *)
(* with those of the AI pilot's rules, and how two runs over successive      *)
(* uploads are compared. A row is reduced to what its engine reads of it.    *)
EXTENDS Naturals, FiniteSets, SequencesExt

CONSTANTS
  AuditedBy,     \* the engines in use
  Numbers,       \* project numbers
  Sheets,
  Days,          \* person days a month of a plan can hold
  Totals,        \* person days the column of the totals can hold
  Months,        \* 1, 2, ...: the columns that name a month, in their order
  Columns,       \* required columns of the master data, the product aside
  Products,      \* of "notAssigned", "others", "placeholder" and "named"
  Facts,         \* of an opportunity: "closed" or "started" in the past, "brazil"
  Probabilities,
  BcsFlags,      \* of "blank", "hash" and "code"
  Limits,        \* values the auditor may give pdThreshold
  Rules,         \* the active AI rules of the function
  Logic,         \* of each, its tree
  MaxCells,      \* bound on the rows of a workbook
  MaxUploads     \* bound on the changes between the first run and the last

VARIABLES
  engine,   \* of the function the workbook belongs to
  limit,    \* auditPolicy.pdThreshold of the process
  file,     \* per sheet its rows below the header
  selected, \* the sheets that are valid and isSelected
  uploads,  \* changes so far
  first,    \* the run everything is compared with, or NoRun
  last      \* the latest run

vars == <<engine, limit, file, selected, uploads, first, last>>

\* createDefaultAuditPolicy.
DefaultLimit == 30

Blank == [blank |-> TRUE]
NoNumber == ""

NoDays == 0

\* What each engine reads of a row. parsePdRaw: the days of every month, and of
\* the column whose header names no month; NoDays where a cell is not a number.
PlannedDays == [days : [Months -> Days \cup {NoDays}], total : Totals \cup {NoDays}]

\* readEffortValue.
Effort == [effort : {"absent", "zero", "given"}]

\* classifyRateCell: the months at exactly zero. Here a merged header wins only
\* if it finds more columns; with a month in every header it does not.
RateCells == [zero : SUBSET Months]

\* classifyCostRateCell.
CostCells == [zero : SUBSET Months]

\* isBadValue of the required columns, and the tokens of the product's cell.
MasterCells == [bad : SUBSET Columns, product : SUBSET Products]

\* readBoolean, readNumber, isBcsMissing and isBcsBlank.
OpportunityCells == [facts : SUBSET Facts, probability : Probabilities, bcs : BcsFlags]

Cells ==
  [over |-> PlannedDays, missing |-> Effort, rate |-> RateCells, cost |-> CostCells,
   master |-> MasterCells, opportunities |-> OpportunityCells]

RowsOf(e) == [number : Numbers \cup {NoNumber}, cells : Cells[e]]

Found(rule, about, reason) == [code |-> <<rule, about>>, reason |-> <<rule, reason>>]

\* isPdColumn of a header without a month followed by the cell below it.
NamesMonth(value) == value \in 1..12

\* detectPdColumns: the header is the first row, and on a tie the headers
\* merged with the row below them win. Each column is the cell it holds, with
\* its label: the column and what was merged into its header.
PdColumns(top, c) ==
  LET merged == IF top = Blank THEN [days |-> [m \in Months |-> NoDays], total |-> NoDays]
                ELSE top.cells
  IN {[at |-> m, label |-> <<m, merged.days[m]>>, pd |-> c.days[m]] : m \in Months}
       \cup IF NamesMonth(merged.total)
              THEN LET at == Cardinality(Months) + 1
                   IN {[at |-> at, label |-> <<at, merged.total>>, pd |-> c.total]}
              ELSE {}

\* auditRow of over-planning: the first of the columns with the most days.
OverPlanning(top, c, threshold) ==
  LET read == {k \in PdColumns(top, c) : k.pd # NoDays}
      worst == {k \in read : \A x \in read : x.pd < k.pd \/ (x.pd = k.pd /\ k.at <= x.at)}
  IN {Found("month-pd", "high", <<k.label, k.pd, threshold>>) : k \in {x \in worst : x.pd > threshold}}

\* auditRow of missing-plan. run hands it the policy of its function, which is
\* empty: both toggles are on.
MissingPlan(c) ==
  CASE c.effort = "absent" -> {Found("effort", "missing", c.effort)}
    [] c.effort = "zero" -> {Found("effort", "zero", c.effort)}
    [] OTHER -> {}

\* auditRow of function-rate.
Rate(c) == IF c.zero # {} THEN {Found("rate", "zero", c.zero)} ELSE {}

\* auditRow of internal-cost-rate.
CostRate(c) == IF c.zero # {} THEN {Found("cost", "zero", c.zero)} ELSE {}

\* auditProjectProduct of master-data.
Product(tokens) ==
  LET review == {Found("product", t, tokens) : t \in tokens \cap {"notAssigned", "others"}}
  IN IF tokens = {} \/ (review = {} /\ tokens = {"placeholder"})
       THEN {Found("product", "missing", tokens)} ELSE review

\* auditRow of master-data.
MasterData(c) == {Found("missing", k, k) : k \in c.bad} \cup Product(c.product)

\* auditRow of opportunities, for rows of the category service and, in Brazil,
\* of another business unit. The process's limits do not reach it: run hands
\* it the slice it would look for inside.
Hits(c) ==
  {h \in {"closed", "closed-low", "started-low", "bcs-missing", "bcs-available", "bu"} :
     \/ h = "closed" /\ "closed" \in c.facts
     \/ h = "closed-low" /\ "closed" \in c.facts /\ c.probability < 75
     \/ h = "started-low" /\ "started" \in c.facts /\ c.probability < 90
     \/ h = "bcs-missing" /\ c.probability = 90 /\ c.bcs = "hash"
     \/ h = "bcs-available" /\ c.probability < 90 /\ c.bcs = "code"
     \/ h = "bu" /\ "brazil" \in c.facts}

Opportunities(c) ==
  LET hits == Hits(c) IN
  CASE hits = {} -> {}
    [] Cardinality(hits) = 1 -> {Found("opportunity", CHOOSE h \in hits : TRUE, hits)}
    [] OTHER -> {Found("opportunity", "composite", hits)}

\* runFunctionAudit on one row of a sheet that starts with the row top.
Findings(e, top, r, threshold) ==
  CASE e = "over" -> OverPlanning(top, r.cells, threshold)
    [] e = "missing" -> MissingPlan(r.cells)
    [] e = "rate" -> Rate(r.cells)
    [] e = "cost" -> CostRate(r.cells)
    [] e = "master" -> MasterData(r.cells)
    [] e = "opportunities" -> Opportunities(r.cells)

\* OPERATORS, on the text of a cell: texts are those that equal, contain, start
\* or end with the rule's value, or are one of its values. A project number is
\* no number, so the comparisons of numbers fail.
Holds(op, texts, cell) ==
  CASE op \in {"==", "contains", "startsWith", "endsWith", "isOneOf"} -> cell \in texts
    [] op = "!=" -> cell \notin texts
    [] op \in {"isBlank", "isMissing"} -> cell = NoNumber
    [] op = "isNotMissing" -> cell # NoNumber
    [] op \in {">", "<", ">=", "<=", "%>"} -> FALSE

\* ColumnResolver: of the headers a rule may name, the sheet has the one.
Resolves(column) == column = "projectNo"

\* evaluateLeaf: a condition on a column the sheet lacks is false, isBlank too.
Leaf(n, r) == Resolves(n.column) /\ Holds(n.op, n.texts, r.number)

\* validateSpec lets no tree in that is nested deeper, so evaluateNode does not
\* throw.
Inner(n, r) ==
  CASE n.op = "and" -> \A c \in n.children : Leaf(c, r)
    [] n.op = "or" -> \E c \in n.children : Leaf(c, r)
    [] OTHER -> Leaf(n, r)

\* evaluateNode.
Matches(rule, r) ==
  LET n == Logic[rule] IN
  CASE n.op = "and" -> \A c \in n.children : Inner(c, r)
    [] n.op = "or" -> \E c \in n.children : Inner(c, r)
    [] OTHER -> Leaf(n, r)

\* runAiPilotRules on one row.
PilotFindings(r) == {Found("pilot", k, k) : k \in {x \in Rules : Matches(x, r)}}

\* Mutant: every row is known by its place.
KeyOfPlace(s, i, r, code) == <<s, <<"row", i>>, code>>

\* createIssueKey: a row without a project number is known by its place.
KeyOf(s, i, r, code) ==
  <<s, IF r.number = NoNumber THEN <<"row", i>> ELSE <<"number", r.number>>, code>>

Issue(s, i, r, f) ==
  [id |-> <<s, i, f.code>>, key |-> KeyOf(s, i, r, f.code), row |-> r, reason |-> f.reason]

\* rowsToObjects: blank rows are skipped and keep their place.
Scanned(f, s) == {i \in DOMAIN f[s] : f[s][i] # Blank}

\* Issues of the cells in found, a set of findings per sheet and row.
IssuesOf(found) ==
  UNION {UNION {{Issue(s, i, file[s][i], f) : f \in found[s][i]} :
                  i \in Scanned(file, s)} : s \in selected}

RowsFlagged(issues, s) == {m.id[2] : m \in {x \in issues : x.id[1] = s}}

\* mergeSheetSummaries: a row both flag counts once.
Flagged(ours, theirs, s) == Cardinality(RowsFlagged(ours \cup theirs, s))

\* mergeAuditResults.
Result ==
  LET ours == IssuesOf([s \in selected |-> [i \in Scanned(file, s) |->
                          Findings(engine, file[s][1], file[s][i], limit)]])
      theirs == IssuesOf([s \in selected |->
                            [i \in Scanned(file, s) |-> PilotFindings(file[s][i])]])
  IN [issues |-> ours \cup theirs,
      scanned |-> [s \in selected |-> Cardinality(Scanned(file, s))],
      flagged |-> [s \in selected |-> Flagged(ours, theirs, s)]]

\* A run, and for the properties what it ran on.
Run == [result |-> Result, file |-> file, selected |-> selected,
        limit |-> limit]
NoRun == [result |-> [issues |-> {}, scanned |-> <<>>, flagged |-> <<>>]]

Total(f) == FoldSet(LAMBDA s, n : n + Len(f[s]), 0, Sheets)

Init ==
  /\ engine \in AuditedBy /\ limit = DefaultLimit
  /\ file = [s \in Sheets |-> <<>>] /\ selected = Sheets
  /\ uploads = 0 /\ first = NoRun /\ last = NoRun

\* The workbook is written row by row before its first run.
Write(s, r) ==
  /\ first = NoRun /\ Total(file) < MaxCells
  /\ file' = [file EXCEPT ![s] = Append(@, r)]
  /\ UNCHANGED <<engine, limit, selected, uploads, first, last>>

Changing == first # NoRun /\ uploads < MaxUploads /\ uploads' = uploads + 1

\* A later upload has a row more, one less, or one corrected.
Insert(s, i, r) ==
  /\ Changing /\ Total(file) < MaxCells
  /\ file' = [file EXCEPT ![s] = InsertAt(@, i, r)]
  /\ UNCHANGED <<engine, limit, selected, first, last>>

TakeOut(s, i) ==
  /\ Changing
  /\ file' = [file EXCEPT ![s] = RemoveAt(@, i)]
  /\ UNCHANGED <<engine, limit, selected, first, last>>

Correct(s, i, c) ==
  /\ Changing /\ file[s][i] # Blank
  /\ file' = [file EXCEPT ![s][i].cells = c]
  /\ UNCHANGED <<engine, limit, selected, first, last>>

Select(sheets) ==
  /\ Changing /\ sheets # selected /\ selected' = sheets
  /\ UNCHANGED <<engine, limit, file, first, last>>

SetLimit(d) ==
  /\ Changing /\ d # limit /\ limit' = d
  /\ UNCHANGED <<engine, file, selected, first, last>>

\* run.
Audit ==
  /\ last' = Run
  /\ first' = IF first = NoRun THEN Run ELSE first
  /\ UNCHANGED <<engine, limit, file, selected, uploads>>

Next ==
  \/ \E s \in Sheets :
       \/ \E r \in RowsOf(engine) \cup {Blank} : Write(s, r)
       \/ \E i \in 1..Len(file[s]) + 1, r \in RowsOf(engine) : Insert(s, i, r)
       \/ \E i \in DOMAIN file[s] : TakeOut(s, i) \/ \E c \in Cells[engine] : Correct(s, i, c)
  \/ \E sheets \in SUBSET Sheets : Select(sheets)
  \/ \E d \in Limits : SetLimit(d)
  \/ Audit

Spec == Init /\ [][Next]_vars

TypeOK ==
  /\ engine \in AuditedBy /\ limit \in Limits /\ uploads \in 0..MaxUploads
  /\ selected \subseteq Sheets /\ DOMAIN file = Sheets
  /\ \A s \in Sheets : \A i \in DOMAIN file[s] : file[s][i] \in RowsOf(engine) \cup {Blank}

\* compareResults.
Keys(run) == {m.key : m \in run.result.issues}
Added(from, to) == {m \in to.result.issues : m.key \notin Keys(from)}
Resolved(from, to) == {m \in from.result.issues : m.key \notin Keys(to)}

\* fromMap keeps the last of the issues under a key: by the row it stands in.
Held(from, key) ==
  CHOOSE m \in from.result.issues :
    m.key = key /\ \A x \in from.result.issues : x.key = key => x.id[2] <= m.id[2]
Changed(from, to) ==
  {m \in to.result.issues : m.key \in Keys(from)
                              /\ Held(from, m.key).reason # m.reason}

\* The issues of a run have different ids, and a sheet's count of flagged rows
\* is the number of rows its issues are about, never more than were scanned.
IssuesAddUp ==
  \A run \in {first, last} \ {NoRun} :
    /\ \A m, x \in run.result.issues : m.id = x.id => m = x
    /\ \A s \in run.selected :
         /\ run.result.flagged[s] = Cardinality(RowsFlagged(run.result.issues, s))
         /\ run.result.flagged[s] <= run.result.scanned[s]

\* The rows of the selected sheets that have the number.
Places(run, n) ==
  {p \in UNION {{<<s, i>> : i \in Scanned(run.file, s)} : s \in run.selected} :
     run.file[p[1]][p[2]].number = n}
Alone(run, n) == \A p, x \in Places(run, n) : p = x

\* An issue of a row that has a project number of its own in both uploads, and
\* is the same in both and in the same sheet, is neither new nor resolved nor
\* changed, wherever rows above it were put or taken away, as long as both runs
\* scan the sheet. Over-planning's reasons name the row below the header.
HistoryIsKept ==
  first # NoRun /\ first.limit = last.limit /\ engine # "over" =>
    \A m \in first.result.issues \cup last.result.issues :
      /\ m.row.number # NoNumber
      /\ m.id[1] \in first.selected \cap last.selected
      /\ Alone(first, m.row.number) /\ Alone(last, m.row.number)
      /\ \E i \in DOMAIN first.file[m.id[1]] : first.file[m.id[1]][i] = m.row
      /\ \E i \in DOMAIN last.file[m.id[1]] : last.file[m.id[1]][i] = m.row
      => m \notin Added(first, last) \cup Resolved(first, last) \cup Changed(first, last)

\* Together: what a run says and what a comparison of two runs says.
AuditsAddUp == IssuesAddUp /\ HistoryIsKept

\* Does not hold: two rows of one project that break one rule share a key, and
\* a run compared with itself reports a change.
SameRunSameIssues == first # NoRun /\ first = last => Changed(first, last) = {}

\* Does not hold: an opportunity in which a second check fails is reported as
\* resolved, and as new.
ResolvedIsFixed ==
  first # NoRun => \A m \in Resolved(first, last) :
    m.row.number # NoNumber => \A x \in last.result.issues : x.row.number # m.row.number

\* Does not hold: detectPdColumns merges the first row of the data into the
\* headers, and a total between 1 and 12 in it makes the totals a month. What
\* is found in a row then depends on the row above it.
RowsStandAlone ==
  first # NoRun => \A m \in first.result.issues, x \in last.result.issues :
    m.row = x.row /\ m.id[1] = x.id[1] /\ m.id[3] = x.id[3] /\ first.limit = last.limit
      => m.reason = x.reason
==============================================================================
