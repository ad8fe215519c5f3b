-------------------------- MODULE IssueAddressing --------------------------
(***************************************************************************)
(* How an issue of a function-rate or cost-rate audit gets a manager and   *)
(* an address: the manager from a mapping file or a master-data run, by    *)
(* project id and else by project name, the address from the same source,  *)
(* and over both the address of the manager directory.                     *)
(*                                                                         *)
(* The rows of the source and the entries of the directory are read        *)
(* without an ORDER BY, so their order is any. An address stands for the   *)
(* directory entry that has it: no two entries of a tenant share one.      *)
(***************************************************************************)
EXTENDS Naturals, Sequences, FiniteSets

CONSTANTS
  Managers,     \* names, after normalisation
  Ids,          \* project ids
  Projects,     \* project names
  Entries,      \* active entries of the directory
  Scores,       \* likeness of a name and an entry, out of 100
  MaxRows,      \* bound on the rows of the source
  None          \* empty, "Unassigned", no address

VARIABLES
  pc,
  rows,    \* the rows of the source, as handed out
  issue,   \* the issue: project id, project name, manager, address
  keys,    \* per entry, the names it goes by: its key and its aliases
  todo,    \* registrations still to be made: entry and name
  index    \* exactEmailByKey: per name None, an entry, or "tie"

vars == <<pc, rows, issue, keys, todo, index>>

\* Whether a row also has an address is left open.
Rows == [id : Ids \cup {None}, project : Projects \cup {None}, manager : Managers \cup {None}]

TypeOK ==
  /\ pc \in {"source", "joined", "mapped", "over"}
  /\ rows \in Seq(Rows) /\ Len(rows) <= MaxRows
  /\ issue \in [id : Ids \cup {None}, project : Projects, manager : Managers \cup {None},
                address : {"mapped", "own", None} \cup Entries]
  /\ keys \in [Entries -> SUBSET Managers]
  /\ todo \subseteq (Entries \X Managers)
  /\ index \in [Managers -> {None, "tie"} \cup Entries]

Init ==
  /\ pc = "source" /\ rows = <<>> /\ todo = {} /\ index = [m \in Managers |-> None]
  /\ issue \in [id : Ids \cup {None}, project : Projects, manager : {None}, address : {"own", None}]
  /\ keys = [e \in Entries |-> {}]

HandRow(row) ==
  /\ pc = "source" /\ Len(rows) < MaxRows /\ rows' = Append(rows, row)
  /\ UNCHANGED <<pc, issue, keys, todo, index>>

Matching(P(_)) == {i \in DOMAIN rows : P(rows[i]) /\ rows[i].manager # None}
First(S) == CHOOSE i \in S : \A j \in S : i <= j

WithProject(p) == Matching(LAMBDA r : r.project = p)

\* byId of buildProjectIdToManagerMap: the first row with the id wins.
ById(id) ==
  LET S == Matching(LAMBDA r : r.id = id)
  IN IF id = None \/ S = {} THEN None ELSE rows[First(S)].manager

\* byName: only a name all of whose rows agree is used.
ByName(p) ==
  LET found == {rows[i].manager : i \in WithProject(p)}
  IN IF Cardinality(found) = 1 THEN CHOOSE m \in found : TRUE ELSE None

\* applyProjectIdToManager.
Join ==
  /\ pc = "source" /\ pc' = "joined"
  /\ issue' = [issue EXCEPT !.manager =
       IF ById(issue.id) # None THEN ById(issue.id) ELSE ByName(issue.project)]
  /\ UNCHANGED <<rows, keys, todo, index>>

\* applyPreResolvedEmails fills an empty address, if a row of the manager has
\* one. Then the directory is read.
MapAddress ==
  /\ pc = "joined" /\ pc' = "mapped"
  /\ \/ UNCHANGED issue
     \/ /\ issue.address = None
        /\ issue.manager # None /\ \E i \in DOMAIN rows : rows[i].manager = issue.manager
        /\ issue' = [issue EXCEPT !.address = "mapped"]
  /\ keys' \in [Entries -> SUBSET Managers]
  /\ todo' = {p \in Entries \X Managers : p[2] \in keys'[p[1]]}
  /\ UNCHANGED <<rows, index>>

\* Mutant: the first entry keeps the name.
TakenFirst(e, held) == IF held = None THEN e ELSE held

\* register: a second address makes the name ambiguous for good.
Taken(e, held) == IF held \in {None, e} THEN e ELSE "tie"

Register(e, m) ==
  /\ pc = "mapped" /\ <<e, m>> \in todo /\ todo' = todo \ {<<e, m>>}
  /\ index' = [index EXCEPT ![m] = Taken(e, index[m])]
  /\ UNCHANGED <<pc, rows, issue, keys>>

\* matchRawNameToDirectoryEntries: the entry most like the name, if it is
\* like enough and no other that is a candidate comes near it.
Likely(score) ==
  {e \in Entries :
     /\ score[e] >= 90
     /\ \A d \in Entries \ {e} : score[d] >= 70 => score[e] - score[d] > 5}

\* resolveIssueEmailsFromDirectory: a name the index does not settle is looked
\* up by likeness.
Resolve ==
  /\ pc = "mapped" /\ todo = {} /\ pc' = "over"
  /\ IF issue.manager = None THEN UNCHANGED issue
     ELSE IF index[issue.manager] \in Entries
       THEN issue' = [issue EXCEPT !.address = index[issue.manager]]
     ELSE \E score \in [Entries -> Scores] :
            IF Likely(score) = {} THEN UNCHANGED issue
            ELSE \E e \in Likely(score) : issue' = [issue EXCEPT !.address = e]
  /\ UNCHANGED <<rows, keys, todo, index>>

Next ==
  \/ \E row \in Rows : HandRow(row)
  \/ Join \/ MapAddress \/ Resolve
  \/ \E e \in Entries, m \in Managers : Register(e, m)

Spec == Init /\ [][Next]_vars

-----------------------------------------------------------------------------

Holders(m) == {e \in Entries : m \in keys[e]}

\* In whatever order the directory is read, a name leads to an entry if and
\* only if that entry is the only one that goes by it.
IndexIsOrderFree ==
  pc = "over" => \A m \in Managers :
    index[m] = IF Holders(m) = {} THEN None
               ELSE IF Cardinality(Holders(m)) > 1 THEN "tie"
               ELSE CHOOSE e \in Holders(m) : TRUE

\* An issue found by its project name gets the manager every row with that
\* name has; rows that contradict each other give it none.
FallbackIsUnambiguous ==
  pc # "source" /\ issue.manager # None =>
    \/ \E i \in DOMAIN rows :
         rows[i].id = issue.id /\ issue.id # None /\ rows[i].manager = issue.manager
    \/ \A i \in WithProject(issue.project) : rows[i].manager = issue.manager

\* Together: an issue reaches a manager only where the data leave no doubt.
AddressIsUnambiguous == IndexIsOrderFree /\ FallbackIsUnambiguous
=============================================================================
