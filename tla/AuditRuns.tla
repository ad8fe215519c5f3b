------------------------------ MODULE AuditRuns ------------------------------
(***************************************************************************)
(* Audit runs of the engines of one process, and the tracking entries of   *)
(* its managers that each run reconciles, beside the two handlers that     *)
(* write the same entries from a row they read earlier (patchEntry and     *)
(* upsert). A run draws its code as the first statement of its             *)
(* transaction, and so holds the RUN counter of the process until it ends. *)
(***************************************************************************)
EXTENDS Naturals

CONSTANTS
  Engines,   \* functions with a file in the process
  Keys,      \* manager keys
  Requests,  \* requests that can be under way at a time
  None,
  MaxOpen,   \* bound on the findings of one manager in one run
  MaxRuns,   \* bound on the runs of a behaviour
  MaxEdits   \* bound on its patchEntry and upsert calls

VARIABLES
  entry,   \* per manager key, the tracking entry, or None
  shown,   \* per engine, the run the escalation center shows: latest completedAt
  drawn,   \* who holds the RUN counter row, or None
  clock,   \* completedAt of the run that was computed last
  request, \* per request, its call
  edits,   \* calls of patchEntry and upsert so far
  stale    \* what was overwritten by a handler's earlier read, per key and part

vars == <<entry, shown, drawn, clock, request, edits, stale>>

Findings == [Keys -> 0..MaxOpen]
Statuses == [open : 0..MaxOpen, status : {"na", "open", "resolved"}]
Entries == [byEngine : [Engines -> Statuses], resolved : BOOLEAN]
Parts == Engines \cup {"resolved"}
Idle == [pc |-> "idle"]

TypeOK ==
  /\ entry \in [Keys -> Entries \cup {None}]
  /\ shown \in [Engines -> [at : Nat, open : Findings]]
  /\ drawn \in Requests \cup {None} /\ clock \in 0..MaxRuns /\ edits \in 0..MaxEdits
  /\ stale \subseteq Keys \X Parts
  /\ \A r \in Requests :
       \/ request[r] = Idle
       \/ /\ request[r].pc \in {"loaded", "drawn", "read"}
          /\ request[r].engine \in Engines /\ request[r].open \in Findings
       \/ request[r].pc = "edit" /\ request[r].prior \in Entries \cup {None}

NotAudited == [open |-> 0, status |-> "na"]
NoFindings == [k \in Keys |-> 0]

Init ==
  /\ entry = [k \in Keys |-> None]
  /\ shown = [e \in Engines |-> [at |-> 0, open |-> NoFindings]]
  /\ drawn = None /\ clock = 0 /\ edits = 0 /\ stale = {}
  /\ request = [r \in Requests |-> Idle]

\* recomputeAggregate and globalResolvedFromStatuses: engines that never ran
\* for the entry do not count, and one that did must have.
AllResolved(byEngine) ==
  LET audited == {e \in Engines : byEngine[e].status # "na"} IN
  audited # {} /\ \A e \in audited : byEngine[e].status = "resolved"

\* patchEngineStatus, for one entry of the process.
Reconciled(row, e, open) ==
  LET byEngine == [row.byEngine EXCEPT ![e] =
                     [open |-> open, status |-> IF open > 0 THEN "open" ELSE "resolved"]]
  IN [byEngine |-> byEngine, resolved |-> AllResolved(byEngine)]

\* What ensureTrackingEntriesExist inserts.
NewEntry == [byEngine |-> [e \in Engines |-> NotAudited], resolved |-> FALSE]

\* run: the file is read, and audited, outside the transaction.
LoadFile(r) ==
  /\ request[r] = Idle
  /\ \E e \in Engines, open \in Findings :
       request' = [request EXCEPT ![r] = [pc |-> "loaded", engine |-> e, open |-> open]]
  /\ UNCHANGED <<entry, shown, drawn, clock, edits, stale>>

\* Mutant: a code drawn outside the transaction holds up nobody.
DrawUnlocked(r) == request[r].pc = "loaded"

\* run: nextRunCode waits for the RUN counter row of the process.
DrawRunCode(r) == request[r].pc = "loaded" /\ drawn = None

\* The engine runs; its runAt becomes the completedAt of the run.
Compute(r) ==
  /\ clock < MaxRuns
  /\ DrawRunCode(r)
  /\ drawn' = r
  /\ clock' = clock + 1
  /\ request' = [request EXCEPT ![r] =
       [pc |-> "drawn", engine |-> @.engine, open |-> @.open, at |-> clock + 1]]
  /\ UNCHANGED <<entry, shown, edits, stale>>

\* ensureTrackingEntriesExist, in the transaction of the run.
Ensured(open) == [k \in Keys |-> IF entry[k] = None /\ open[k] > 0 THEN NewEntry ELSE entry[k]]

\* reconcileAfterAudit: new managers get an entry, then all entries are read.
ReadEntries(r) ==
  LET call == request[r] IN
  /\ call.pc = "drawn"
  /\ request' = [request EXCEPT ![r] =
       [pc |-> "read", engine |-> call.engine, open |-> call.open, at |-> call.at, rows |-> Ensured(call.open)]]
  /\ UNCHANGED <<entry, shown, drawn, clock, edits, stale>>

\* Every entry of the process is reconciled from the row that was read.
ReconcileAll(rows, e, open) ==
  [k \in Keys |-> IF rows[k] # None THEN Reconciled(rows[k], e, open[k]) ELSE rows[k]]

\* The run commits: its issues, its completedAt and the entries.
CommitRun(r) ==
  LET call == request[r]
      after == ReconcileAll(call.rows, call.engine, call.open)
  IN
  /\ call.pc = "read"
  /\ entry' = [k \in Keys |-> IF call.rows[k] = None THEN entry[k] ELSE after[k]]
  /\ shown' = [shown EXCEPT ![call.engine] =
       IF call.at > @.at THEN [at |-> call.at, open |-> call.open] ELSE @]
  /\ drawn' = IF drawn = r THEN None ELSE drawn
  /\ request' = [request EXCEPT ![r] = Idle]
  /\ stale' = {s \in stale : call.rows[s[1]] = None \/ s[2] \notin {call.engine, "resolved"}}
  /\ UNCHANGED <<clock, edits>>

\* run: an engine issue without a known rule, or a failed statement.
RollBackRun(r) ==
  /\ request[r].pc \in {"drawn", "read"}
  /\ drawn' = IF drawn = r THEN None ELSE drawn
  /\ request' = [request EXCEPT ![r] = Idle]
  /\ UNCHANGED <<entry, shown, clock, edits, stale>>

\* patchEntry reads the entry before its transaction, upsert as its first
\* statement; only upsert creates an entry that is missing.
ReadPrior(r, k, op) ==
  /\ request[r] = Idle /\ edits < MaxEdits
  /\ op = "patch" => entry[k] # None
  /\ edits' = edits + 1
  /\ request' = [request EXCEPT ![r] = [pc |-> "edit", key |-> k, prior |-> entry[k]]]
  /\ UNCHANGED <<entry, shown, drawn, clock, stale>>

\* What differs between the entry and the one written over it.
Changed(k, written) ==
  {k} \X ({e \in Engines : entry[k] # None /\ entry[k].byEngine[e] # written.byEngine[e]}
             \cup {"resolved"})

\* A run has inserted the entry and not committed: another insert waits.
InsertPending(k) ==
  entry[k] = None /\ \E r \in Requests : request[r].pc = "read" /\ request[r].rows[k] # None

\* resolveProjectStatusesJson and resolved: what the body names, else what was
\* read; the body's statuses are parsed, an empty object to "na" throughout.
WriteEdit(r) ==
  LET call == request[r]
      prior == IF call.prior = None THEN NewEntry ELSE call.prior IN
  /\ call.pc = "edit" /\ ~InsertPending(call.key)
  /\ \E flag \in BOOLEAN, sent \in {prior.byEngine, NewEntry.byEngine} :
       LET written == [byEngine |-> sent, resolved |-> flag] IN
       \* An insert of a key that exists by now violates its unique index.
       IF call.prior = None /\ entry[call.key] # None
         THEN UNCHANGED <<entry, stale>>
         ELSE /\ entry' = [entry EXCEPT ![call.key] = written]
              /\ stale' = stale \cup Changed(call.key, written)
  /\ request' = [request EXCEPT ![r] = Idle]
  /\ UNCHANGED <<shown, drawn, clock, edits>>

Next ==
  \E r \in Requests :
    \/ LoadFile(r) \/ Compute(r) \/ ReadEntries(r) \/ CommitRun(r) \/ RollBackRun(r)
    \/ \E k \in Keys, op \in {"patch", "upsert"} : ReadPrior(r, k, op)
    \/ WriteEdit(r)

Spec == Init /\ [][Next]_vars

\* The per-engine status of an entry is that of the run the escalation center
\* shows for the engine, unless a patch or an upsert wrote another one over it
\* since: overlapping runs of two engines never undo each other.
StatusesMatchShownRuns ==
  \A k \in Keys, e \in Engines :
    entry[k] # None /\ <<k, e>> \notin stale => entry[k].byEngine[e].open = shown[e].open[k]

\* A manager with findings in a shown run has a tracking entry.
FlaggedIsTracked ==
  \A k \in Keys, e \in Engines : shown[e].open[k] > 0 => entry[k] # None

\* An entry whose resolved flag nobody set by hand since the last run is
\* resolved only when no engine has open findings for its manager.
ResolvedIsEarned ==
  \A k \in Keys :
    /\ entry[k] # None /\ entry[k].resolved
    /\ \A part \in Parts : <<k, part>> \notin stale
    => \A e \in Engines : shown[e].open[k] = 0

\* Together: the tracking entries say what the shown runs found.
EntriesFollowRuns == StatusesMatchShownRuns /\ FlaggedIsTracked /\ ResolvedIsEarned
=============================================================================
