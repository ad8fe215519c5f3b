------------------------------ MODULE RecordGraph -------------------------------
(* What goes when a row is deleted: the foreign keys under the deletions the *)
(* services make, over a database with a row of every table in every place:  *)
(* one that belongs to nobody, one for each process, one for each file.      *)

CONSTANTS
  None,
  Projects,       \* processes
  Books,          \* [book -> its process]: workbook files
  SharedTables,   \* tables whose rows belong to no process
  ProcessTables,  \* those with rows of a process
  FileTables,     \* those with rows of a file
  ForeignKeys,    \* [table -> its references: <<table, on deletion, table>>]
  Relations       \* the references a query may follow: <<table, table>>

VARIABLES rows    \* the rows there are: <<table, process, file>>

-----------------------------------------------------------------------------
Places(p) == {b \in DOMAIN Books : Books[b] = p}
RowsOf(p) ==
  {<<t, p, None>> : t \in ProcessTables}
  \cup {<<t, p, b>> : t \in FileTables, b \in Places(p)}
SharedRows == {<<t, None, None>> : t \in SharedTables}

LogRow(p, b) == <<"ActivityLog", p, b>>
LogRows == {LogRow(p, b) : p \in Projects \cup {None}, b \in DOMAIN Books \cup {None}}
AllRows == SharedRows \cup LogRows \cup (UNION {RowsOf(p) : p \in Projects})

-----------------------------------------------------------------------------
\* The row a reference points to: the one in the same file, process or in none.
Parent(row, table) ==
  CASE table \in SharedTables -> <<table, None, None>>
    [] table \in FileTables -> <<table, row[2], row[3]>>
    [] OTHER -> <<table, row[2], None>>

References(row) == {k \in ForeignKeys[row[1]] : k[3] \in SharedTables \/ row[2] # None}

Depend(R, S, action) ==
  {c \in R : \E k \in References(c) : k[2] = action /\ Parent(c, k[3]) \in S}

\* Deleting the rows S: no chain of cascades is longer than four.
Gone(R, S) ==
  LET one == S \cup Depend(R, S, "CASCADE")
      two == one \cup Depend(R, one, "CASCADE")
      three == two \cup Depend(R, two, "CASCADE")
  IN  three \cup Depend(R, three, "CASCADE")
Without(R, S) == R \ Gone(R, S \cap R)

Refused(R, S) == Depend(R, Gone(R, S \cap R), "RESTRICT") # {}

-----------------------------------------------------------------------------
(* What the services delete. Each is one transaction.                        *)

There(table, p) == <<table, p, None>> \in rows

\* The log of the deletion is written first, and refers to the process.
DeleteProcess(p) ==
  /\ There("Process", p)
  /\ LET R == rows \cup {LogRow(p, None)}
         S == {<<"Process", p, None>>}
     IN  ~Refused(R, S) /\ rows' = Without(R, S)

\* Versions, runs and sheets are deleted before the file itself.
DeleteFile(b) ==
  LET p == Books[b]
      At(table) == {<<table, p, b>>}
      R1 == Without(rows, At("SavedVersion"))
      R2 == Without(R1, At("AuditRun"))
      R3 == Without(R2, At("WorkbookSheet"))
  IN  /\ <<"WorkbookFile", p, b>> \in rows
      /\ ~Refused(rows, At("SavedVersion")) /\ ~Refused(R1, At("AuditRun"))
      /\ ~Refused(R3, At("WorkbookFile"))
      /\ rows' = Without(R3, At("WorkbookFile")) \cup {LogRow(p, b)}

\* Templates, members, corrections and drafts of a process.
Deletable == {"ComposerNotificationTemplate", "ProcessMember", "IssueCorrection", "FileDraft"}
Unlogged == {"FileDraft"}

DeleteOne(table, p) ==
  /\ table \in Deletable /\ There(table, p)
  /\ ~Refused(rows, {<<table, p, None>>})
  /\ rows' = Without(rows, {<<table, p, None>>})
             \cup (IF table \in Unlogged THEN {} ELSE {LogRow(p, None)})

\* A manager leaves the directory.
DeleteManager ==
  /\ There("ManagerDirectory", None)
  /\ rows' = Without(rows, {<<"ManagerDirectory", None, None>>}) \cup {LogRow(None, None)}

\* Every six hours: the expired sessions of the sandbox.
ReapSessions ==
  /\ There("AiPilotSandboxSession", None)
  /\ ~Refused(rows, {<<"AiPilotSandboxSession", None, None>>})
  /\ rows' = Without(rows, {<<"AiPilotSandboxSession", None, None>>})

Init == rows = AllRows \ LogRows

Next ==
  \/ \E p \in Projects : DeleteProcess(p)
  \/ \E b \in DOMAIN Books : DeleteFile(b)
  \/ \E table \in Deletable, p \in Projects : DeleteOne(table, p)
  \/ DeleteManager
  \/ ReapSessions

Spec == Init /\ [][Next]_rows

-----------------------------------------------------------------------------
TypeOK == rows \subseteq AllRows

\* No reference that must hold points to a row that is gone, and no deletion
\* the services offer is refused because of a row that still refers to what it
\* takes along (db/migrations, FOREIGN KEY ... ON DELETE).
NothingDangles ==
  /\ \A r \in rows : \A k \in References(r) : k[2] # "SET NULL" => Parent(r, k[3]) \in rows
  /\ \A p \in Projects :
       There("Process", p) => ~Refused(rows, {<<"Process", p, None>>})
  /\ \A b \in DOMAIN Books :
       <<"WorkbookFile", Books[b], b>> \in rows => ~Refused(rows, {<<"WorkbookFile", Books[b], b>>})

\* A query that follows a relation from a row finds the row it names, unless
\* the key may be NULL (schema-map.ts).
RelationsResolve ==
  \A r \in rows : \A rel \in Relations :
    /\ r[1] = rel[1]
    /\ ~\E k \in References(r) : k[3] = rel[2] /\ k[2] = "SET NULL"
    => Parent(r, rel[2]) \in rows

\* A file that was deleted from a process that is still there left its log.
DeletedFilesAreLogged ==
  \A b \in DOMAIN Books :
    There("Process", Books[b]) /\ <<"WorkbookFile", Books[b], b>> \notin rows
      => LogRow(Books[b], b) \in rows

\* What a deletion takes along belongs to what is deleted: what is shared stays
\* but for a manager and a session with its jobs, the rows of a file go only
\* with the file, and the entries, links, comments and logs of a process only
\* with the process.
OnlyItsOwn ==
  \A r \in rows \ rows' :
    /\ r[1] \in SharedTables =>
         r[1] \in {"ManagerDirectory", "AiPilotSandboxSession", "ai_pilot_job"}
    /\ r[3] # None => <<"WorkbookFile", r[2], r[3]>> \notin rows'
    /\ r[2] # None /\ r[3] = None
         /\ r[1] \notin Deletable \cup {"ProcessMemberScopePermission"} =>
         <<"Process", r[2], None>> \notin rows'

Intact == NothingDangles /\ RelationsResolve /\ DeletedFilesAreLogged
DeletionsAreContained == []Intact /\ [][OnlyItsOwn]_rows
=============================================================================
