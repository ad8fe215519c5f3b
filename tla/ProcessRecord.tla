---------------------------- MODULE ProcessRecord ----------------------------
(***************************************************************************)
(* The row of one process as several browsers edit it: update and          *)
(* updatePolicy carry the rowVersion of the copy they were made on in      *)
(* If-Match, read the row again in their transaction, and then write with  *)
(* the version in the WHERE clause. A response may arrive after a newer    *)
(* copy, or never. It implements VersionedRow.                             *)
(***************************************************************************)
EXTENDS Naturals

CONSTANTS
  Editors,    \* browsers, each with at most one save under way
  Fields,     \* name (with description), policy, due (nextAuditDue)
  Values,     \* the values of a field
  Gone,       \* the row after delete
  MaxVersion  \* bound on rowVersion

Rows == [version : Nat, data : [Fields -> Values]]

\* What PATCH may mention, and what PUT of the policy replaces.
Patches == (UNION {[mentioned -> Values] : mentioned \in SUBSET (Fields \ {"policy"})})
             \cup [{"policy"} -> Values]

VARIABLES
  row,  \* the row in the database
  copy, \* per browser, the copy in its store
  base, \* per browser, the copy its last save was made on
  save  \* per browser, the save under way

vars == <<row, copy, base, save>>

\* "sent": before its transaction; "read": it has read the row again, cur;
\* "answered": the answer is on its way, cur is the row it returns.
NoSave == [pc |-> "none"]
Saves == [pc : {"sent"}, patch : Patches]
           \cup [pc : {"read", "answered"}, patch : Patches, cur : Rows]

TypeOK ==
  /\ row \in Rows \cup {Gone}
  /\ copy \in [Editors -> Rows] /\ base \in [Editors -> Rows]
  /\ save \in [Editors -> Saves \cup {NoSave}]

Init ==
  /\ \E v \in Values : row = [version |-> 1, data |-> [f \in Fields |-> v]]
  /\ copy = [e \in Editors |-> row] /\ base = copy
  /\ save = [e \in Editors |-> NoSave]

\* get: the store takes over the row.
Load(e) ==
  /\ row # Gone
  /\ copy' = [copy EXCEPT ![e] = row]
  /\ UNCHANGED <<row, base, save>>

Submit(e, patch) ==
  /\ save[e] = NoSave
  /\ base' = [base EXCEPT ![e] = copy[e]]
  /\ save' = [save EXCEPT ![e] = [pc |-> "sent", patch |-> patch]]
  /\ UNCHANGED <<row, copy>>

\* The findFirst of the transaction.
ReadRow(e) ==
  /\ save[e].pc = "sent"
  /\ save' = [save EXCEPT ![e] =
       IF row = Gone THEN NoSave
       ELSE [pc |-> "read", patch |-> save[e].patch, cur |-> row]]
  /\ UNCHANGED <<row, copy, base>>

\* What updateMany writes: the name falls back to the row read before, the
\* other columns are left out of the statement when the body leaves them out.
Written(e) ==
  [f \in Fields |-> IF f \in DOMAIN save[e].patch THEN save[e].patch[f]
                    ELSE IF f = "name" /\ "policy" \notin DOMAIN save[e].patch
                           THEN save[e].cur.data[f]
                           ELSE row.data[f]]

\* Mutant: the version is compared with the row read at the start of the
\* transaction instead of in the WHERE clause.
AcceptByEarlierRead(e) ==
  /\ save[e].pc = "read" /\ row # Gone
  /\ save[e].cur.version = base[e].version /\ row.version < MaxVersion
  /\ row' = [version |-> row.version + 1, data |-> Written(e)]
  /\ save' = [save EXCEPT ![e] =
       [pc |-> "answered", patch |-> save[e].patch, cur |-> row']]
  /\ UNCHANGED <<copy, base>>

\* updateMany with the expected rowVersion, and the commit.
Accept(e) ==
  /\ save[e].pc = "read" /\ row # Gone
  /\ row.version = base[e].version /\ row.version < MaxVersion
  /\ row' = [version |-> row.version + 1, data |-> Written(e)]
  /\ save' = [save EXCEPT ![e] =
       [pc |-> "answered", patch |-> save[e].patch, cur |-> row']]
  /\ UNCHANGED <<copy, base>>

\* No row has the expected version: row_version_conflict, or not found.
Refuse(e) ==
  /\ save[e].pc = "read"
  /\ row # Gone => row.version # base[e].version
  /\ save' = [save EXCEPT ![e] = NoSave]
  /\ UNCHANGED <<row, copy, base>>

\* The response reaches the store, which takes over the row it carries.
Answer(e) ==
  /\ save[e].pc = "answered"
  /\ copy' = [copy EXCEPT ![e] = save[e].cur]
  /\ save' = [save EXCEPT ![e] = NoSave]
  /\ UNCHANGED <<row, base>>

\* The connection fails: whatever the server does with the request, this
\* browser hears nothing of it.
LoseAnswer(e) ==
  /\ save[e].pc = "answered"
  /\ save' = [save EXCEPT ![e] = NoSave]
  /\ UNCHANGED <<row, copy, base>>

Delete == row # Gone /\ row' = Gone /\ UNCHANGED <<copy, base, save>>

Next ==
  \/ Delete
  \/ \E e \in Editors :
       \/ Load(e) \/ ReadRow(e) \/ Accept(e) \/ Refuse(e) \/ Answer(e) \/ LoseAnswer(e)
       \/ \E patch \in Patches : Submit(e, patch)

Spec == Init /\ [][Next]_vars

-----------------------------------------------------------------------------

\* The process row, written by update and updatePolicy, is a versioned row:
\* every accepted save was computed from the row it replaces.
VR == INSTANCE VersionedRow
        WITH Editors <- Editors, Fields <- Fields, Values <- Values,
             Gone <- Gone, row <- row, base <- base

RowIsVersioned == VR!Spec
=============================================================================
