----------------------------- MODULE Attachments -----------------------------
(***************************************************************************)
(* The attachments of one tracking entry. create counts the active ones    *)
(* before the transaction that inserts the row; patch and remove read the  *)
(* row before they write it, and remove only marks it deleted.             *)
(***************************************************************************)
EXTENDS Naturals, FiniteSets

CONSTANTS
  Users, Admins,
  Requests,
  None,
  MaxAttachments, \* MAX_ATTACHMENTS_PER_ENTRY
  MaxRows         \* bound on the rows made

VARIABLES
  rows,  \* the rows, by the order they were made in
  call   \* per request, the call under way

vars == <<rows, call>>

Rows == [uploader : Users, deleted : BOOLEAN]
Ids == 1..MaxRows

Calls == [op : {"create"}, user : Users]
           \cup [op : {"remove", "patch"}, user : Users, id : Ids]

TypeOK ==
  /\ DOMAIN rows \subseteq Ids /\ \A i \in DOMAIN rows : rows[i] \in Rows
  /\ call \in [Requests -> Calls \cup {None}]

Init == rows = [i \in {} |-> None] /\ call = [q \in Requests |-> None]

Active == {i \in DOMAIN rows : ~rows[i].deleted}

\* create refuses at the limit.
BelowLimit == Cardinality(Active) < MaxAttachments

\* create up to its transaction, which inserts the row.
Count(q, u) ==
  /\ call[q] = None /\ BelowLimit
  /\ call' = [call EXCEPT ![q] = [op |-> "create", user |-> u]]
  /\ UNCHANGED rows

Insert(q) ==
  LET id == Cardinality(DOMAIN rows) + 1 IN
  /\ call[q] # None /\ call[q].op = "create" /\ id \in Ids
  /\ rows' = [i \in 1..id |-> IF i = id THEN [uploader |-> call[q].user, deleted |-> FALSE] ELSE rows[i]]
  /\ call' = [call EXCEPT ![q] = None]

\* remove is for the uploader and for admins.
MayRemove(u, id) == rows[id].uploader = u \/ u \in Admins

Load(q, u, op, id) ==
  /\ call[q] = None /\ id \in Active
  /\ op = "remove" => MayRemove(u, id)
  /\ call' = [call EXCEPT ![q] = [op |-> op, user |-> u, id |-> id]]
  /\ UNCHANGED rows

Remove(q) ==
  /\ call[q] # None /\ call[q].op = "remove"
  /\ rows' = [rows EXCEPT ![call[q].id].deleted = TRUE]
  /\ call' = [call EXCEPT ![q] = None]

\* Mutant: the row is written back as it was read.
WithRowRead(id) == [rows[id] EXCEPT !.deleted = FALSE]

\* patch writes the comment alone, on a row that may have been deleted since.
WithComment(id) == rows[id]

Patch(q) ==
  /\ call[q] # None /\ call[q].op = "patch"
  /\ rows' = [rows EXCEPT ![call[q].id] = WithComment(call[q].id)]
  /\ call' = [call EXCEPT ![q] = None]

Fail(q) == call[q] # None /\ call' = [call EXCEPT ![q] = None] /\ UNCHANGED rows

Next == \E q \in Requests :
  \/ \E u \in Users : Count(q, u) \/ \E op \in {"remove", "patch"}, i \in Ids : Load(q, u, op, i)
  \/ Insert(q) \/ Remove(q) \/ Patch(q) \/ Fail(q)

Spec == Init /\ [][Next]_vars

\* An entry has more attachments than the limit by no more than the creates
\* that were counting side by side.
LimitHolds == Cardinality(Active) <= MaxAttachments + Cardinality(Requests) - 1

\* A deleted attachment stays deleted, and only its uploader or an admin
\* deletes it.
DeletedForGood ==
  [][\A i \in DOMAIN rows :
       /\ rows[i].deleted => rows'[i].deleted
       /\ rows'[i].deleted /\ ~rows[i].deleted =>
            \E q \in Requests : /\ call[q] # None /\ call[q].op = "remove" /\ call[q].id = i
                                /\ call[q].user \in Admins \cup {rows[i].uploader}]_vars

\* Together: overlapping creates and removals stay within the limit and undo
\* nothing.
AttachmentsStay == []LimitHolds /\ DeletedForGood
=============================================================================
