--------------------------- MODULE MigrationRunner ---------------------------
(***************************************************************************)
(* Several runs of the migration runner against one database, as when a    *)
(* deployment starts while another one still migrates. A run lists what is *)
(* pending once; each file then has a transaction of its own, under an     *)
(* advisory lock, that looks in the ledger again. (A dry run writes none.) *)
(***************************************************************************)
EXTENDS Naturals

CONSTANTS
  Runners,
  Files,    \* per runner, how many files its checkout has; they are sorted
  None,
  MaxRuns   \* bound on the runs started

VARIABLES
  ledger,  \* _schema_migrations
  ran,     \* per file, how often its SQL was committed
  lock,    \* who holds the advisory lock, or None
  runner,  \* per runner, the run under way
  runs

vars == <<ledger, ran, lock, runner, runs>>

All == 1..Files
Off == [pc |-> "off"]
On == [pc : {"next", "locked", "checked", "done", "failed"}, pending : SUBSET All]

TypeOK ==
  /\ ledger \subseteq All /\ ran \in [All -> Nat]
  /\ lock \in Runners \cup {None} /\ runs \in 0..MaxRuns
  /\ runner \in [Runners -> On \cup {Off}]

Init ==
  /\ \E n \in 0..Files : ledger = 1..n /\ ran = [f \in All |-> IF f <= n THEN 1 ELSE 0]
  /\ lock = None /\ runs = 0
  /\ runner = [r \in Runners |-> Off]

\* ensureLedger, listMigrationFiles, appliedVersions: an older checkout has the
\* first files only.
Start(r) ==
  /\ runner[r].pc \in {"off", "done", "failed"} /\ runs < MaxRuns
  /\ runs' = runs + 1
  /\ \E n \in All :
       runner' = [runner EXCEPT ![r] =
         [pc |-> "next", pending |-> 1..n \ ledger]]
  /\ UNCHANGED <<ledger, ran, lock>>

\* The files are taken in the order of their names.
File(r) == CHOOSE f \in runner[r].pending : \A g \in runner[r].pending : f <= g

\* BEGIN, and pg_advisory_xact_lock: waits while another run is in a file.
Lock(r) ==
  /\ runner[r].pc = "next" /\ runner[r].pending # {} /\ lock = None
  /\ lock' = r
  /\ runner' = [runner EXCEPT ![r].pc = "locked"]
  /\ UNCHANGED <<ledger, ran, runs>>

\* Mutant: the list of pending files is trusted.
TrustsPending(r) == FALSE

\* The ledger is read under the lock.
InLedger(r) == File(r) \in ledger

\* A file another run has applied meanwhile is passed over.
Skip(r) ==
  /\ runner[r].pc = "locked" /\ InLedger(r)
  /\ lock' = None
  /\ runner' = [runner EXCEPT ![r] = [pc |-> "next", pending |-> @.pending \ {File(r)}]]
  /\ UNCHANGED <<ledger, ran, runs>>

Check(r) ==
  /\ runner[r].pc = "locked" /\ ~InLedger(r)
  /\ runner' = [runner EXCEPT ![r].pc = "checked"]
  /\ UNCHANGED <<ledger, ran, lock, runs>>

\* The SQL and the ledger row are committed together, or with --baseline the
\* ledger row alone; the primary key of the ledger takes no file twice.
Apply(r, baseline) ==
  /\ runner[r].pc = "checked" /\ File(r) \notin ledger
  /\ ledger' = ledger \cup {File(r)}
  /\ ran' = IF baseline THEN ran ELSE [ran EXCEPT ![File(r)] = @ + 1]
  /\ lock' = None
  /\ runner' = [runner EXCEPT ![r] = [pc |-> "next", pending |-> @.pending \ {File(r)}]]
  /\ UNCHANGED runs

\* The error is thrown on and ends the run.
AfterFailure(r) == [pc |-> "failed", pending |-> runner[r].pending]

\* A statement fails and the transaction is rolled back.
Fail(r) ==
  /\ runner[r].pc \in {"locked", "checked"}
  /\ lock' = None
  /\ runner' = [runner EXCEPT ![r] = AfterFailure(r)]
  /\ UNCHANGED <<ledger, ran, runs>>

\* The process dies; the database rolls back and frees the lock.
Crash(r) ==
  /\ runner[r].pc \in {"next", "locked", "checked"}
  /\ lock' = IF lock = r THEN None ELSE lock
  /\ runner' = [runner EXCEPT ![r] = Off]
  /\ UNCHANGED <<ledger, ran, runs>>

Finish(r) ==
  /\ runner[r].pc = "next" /\ runner[r].pending = {}
  /\ runner' = [runner EXCEPT ![r].pc = "done"]
  /\ UNCHANGED <<ledger, ran, lock, runs>>

Next == \E r \in Runners :
  \/ Start(r) \/ Lock(r) \/ Skip(r) \/ Check(r)
  \/ \E baseline \in BOOLEAN : Apply(r, baseline)
  \/ Fail(r) \/ Crash(r) \/ Finish(r)

Spec == Init /\ [][Next]_vars

\* The applied files are always the first ones: no file runs on a schema that
\* an earlier one has yet to change, whichever runs overlap, fail or die.
AppliedInOrder == \A f \in ledger : 1..f \subseteq ledger

\* No run loses its file to the primary key of the ledger: what it is about to
\* run nobody ran meanwhile, and nothing runs twice.
NobodyRunsTwice ==
  /\ \A r \in Runners : runner[r].pc = "checked" => File(r) \notin ledger
  /\ \A f \in All : ran[f] <= 1

\* Together: every migration once, in order.
OnceInOrder == AppliedInOrder /\ NobodyRunsTwice
=============================================================================
