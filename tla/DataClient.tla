------------------------------- MODULE DataClient -------------------------------
(* The data client (pg-data-client.ts): it turns the clauses of the services *)
(* into SQL, where a comparison with NULL is neither true nor false, and     *)
(* runs one statement after the other. Seen on the tracking entries of       *)
(* processes, with the events written in the transaction of each change:     *)
(* the shapes of clauses are those the services use.                         *)
EXTENDS Integers, Sequences, FiniteSets

CONSTANTS
  None,           \* NULL, and no request
  Rows,           \* ids of entries, numbers below 10
  Owners,         \* processes
  Mails,          \* manager keys, unique in a process
  Dues,           \* due dates, positive
  People,         \* users who may be members of a process
  Asking,         \* requests that take more than one statement
  MaxVersion      \* bound: row versions

VARIABLES
  entries,        \* entry -> its row, or None
  events,         \* entry -> how many events its changes have left; -1 once deleted
  owners,         \* process -> its row, or None once deleted
  ask             \* request -> what it has read, or None

clientVars == <<entries, events, owners, ask>>

Present == {e \in Rows : entries[e] # None}

-----------------------------------------------------------------------------
(* SQL's logic: 2 is true, 0 false, 1 unknown.                               *)

Least(S) == CHOOSE x \in S : \A y \in S : x <= y
Most(S) == CHOOSE x \in S : \A y \in S : x >= y
Truth(b) == IF b THEN 2 ELSE 0
Compared(cell, b) == IF cell = None THEN 1 ELSE Truth(b)

\* Mutant: null is compared like any value.
NullIsCompared(cell, value) == Compared(cell, cell = value)

Equals(cell, value) ==
  IF value = None THEN Truth(cell = None) ELSE Compared(cell, cell = value)
IsNotNull(cell) == Truth(cell # None)
AnyOf(cell, values) == IF values = {} THEN 0 ELSE Compared(cell, cell \in values)
AtMost(cell, value) == IF cell = None THEN 1 ELSE Truth(cell <= value)

-----------------------------------------------------------------------------
(* compileConditions: a clause becomes the set of its parts, seen as the     *)
(* values they have on a row. What is undefined is skipped, and so is a      *)
(* combinator none of whose clauses says anything.                           *)

Undefined == {}

AndOf(clauses) == IF UNION clauses = {} THEN {} ELSE {Least(UNION clauses)}

OrOf(clauses) ==
  LET said == clauses \ {{}}
  IN  IF said = {} THEN {} ELSE {Most({Least(parts) : parts \in said})}

NotOf(parts) == IF parts = {} THEN {} ELSE {2 - Least(parts)}

\* compileWhere: the parts are joined with AND, and no parts are no condition.
Holds(parts) == Least({2} \cup parts) = 2

\* EXISTS: the rows a relation joins of which the inner clause holds.
Exists(joined) == {Truth(joined # {})}

ProcessOf(e) == {owners[entries[e].process]} \ {None}

-----------------------------------------------------------------------------
(* The clauses of the services, each with the rows it finds and the ones it  *)
(* is meant to find.                                                         *)

Code(e) == e + 10                          \* a display code is no id
Owner(e) == owners[entries[e].process]

LookUp(x) ==
  [found |-> {e \in Present :
                Holds(OrOf({{Equals(entries[e].id, x)}, {Equals(entries[e].code, x)}}))},
   says |-> {e \in Present : x \in {e, Code(e)}}]

\* An entry's stage is seen as resolved or not.
Overdue(d) ==
  [found |-> {e \in Present :
                Holds(OrOf({{Equals(entries[e].resolved, FALSE), AtMost(entries[e].due, d)}}))},
   says |-> {e \in Present : /\ ~entries[e].resolved
                             /\ entries[e].due \in {due \in Dues : due <= d}}]

StillUsed(k) ==
  [found |-> {e \in Present :
                Holds({Equals(entries[e].resolved, FALSE)}
                      \cup OrOf({{Equals(entries[e].key, k)}})
                      \cup Exists({p \in ProcessOf(e) : Holds({Equals(p.archived, FALSE)})}))},
   says |-> {e \in Present : ~entries[e].resolved /\ entries[e].key = k /\ ~Owner(e).archived}]

\* The ids were collected by a query of their own, and may be none.
InProcesses(u) ==
  LET ids == {p \in Owners : owners[p] # None /\ u \in owners[p].members}
  IN  [found |-> {e \in Present : Holds({AnyOf(entries[e].process, ids)})},
       says |-> {e \in Present : u \in Owner(e).members}]

OfAMember(u, k) ==
  [found |-> {e \in Present :
                Holds({Equals(entries[e].key, k)}
                      \cup Exists({p \in ProcessOf(e) :
                             Holds(Exists({m \in p.members : Holds({Equals(m, u)})}))}))},
   says |-> {e \in Present : entries[e].key = k /\ u \in Owner(e).members}]

NoneOrThis(p, d) ==
  [found |-> {e \in Present :
                Holds({Equals(entries[e].process, p)}
                      \cup OrOf({{Equals(entries[e].due, None)}, {Equals(entries[e].due, d)}}))},
   says |-> {e \in Present : entries[e].process = p /\ entries[e].due \in {None, d}}]

AllButThis(p, x) ==
  [found |-> {e \in Present :
                Holds({Equals(entries[e].process, p)} \cup NotOf({Equals(entries[e].id, x)}))},
   says |-> {e \in Present : entries[e].process = p /\ e # x}]

\* Filters nobody asked for are undefined.
IfAskedFor ==
  [found |-> {e \in Present :
                Holds(Undefined \cup {IsNotNull(entries[e].due)} \cup AndOf({Undefined}))},
   says |-> {e \in Present : entries[e].due # None}]

OfManager(p, k) ==
  [found |-> {e \in Present :
                Holds(AndOf({{Equals(entries[e].process, p)}, {Equals(entries[e].key, k)}}))},
   says |-> {e \in Present : entries[e].process = p /\ entries[e].key = k}]

Clauses ==
  {LookUp(x) : x \in Rows \cup {Code(e) : e \in Rows}}
  \cup {Overdue(d) : d \in Dues} \cup {StillUsed(k) : k \in Mails}
  \cup {InProcesses(u) : u \in People}
  \cup {OfAMember(u, k) : u \in People, k \in Mails}
  \cup {NoneOrThis(p, d) : p \in Owners, d \in Dues}
  \cup {AllButThis(p, x) : p \in Owners, x \in Rows}
  \cup {OfManager(p, k) : p \in Owners, k \in Mails} \cup {IfAskedFor}

-----------------------------------------------------------------------------
(* Answers.                                                                  *)

\* NULLs come last in ascending order; in descending order the services that
\* order by a column with NULLs ask for them last.
Before(x, y, dir) ==
  LET a == entries[x].due   b == entries[y].due
  IN  \/ b = None
      \/ a # None /\ (IF dir = "asc" THEN a <= b ELSE a >= b)

InOrder(S, dir) ==
  {q \in [1..Cardinality(S) -> S] :
     \A i, j \in DOMAIN q : i < j => q[i] # q[j] /\ Before(q[i], q[j], dir)}

\* findMany and findFirst: the filter, then the order, then OFFSET and LIMIT.
FindMany(c, dir, skip, take) ==
  {SubSeq(q, skip + 1, IF take = 0 \/ skip + take > Len(q) THEN Len(q) ELSE skip + take) :
     q \in InOrder(c.found, dir)}

\* count, aggregate and groupBy run the same filter.
Count(c) == Cardinality(c.found)
Highest(c) == LET m == c.found
              IN  IF m = {} THEN None ELSE Most({entries[e].version : e \in m})
GroupByProcess(c) ==
  LET m == c.found
  IN  {<<p, Cardinality({e \in m : entries[e].process = p})>> : p \in {entries[e].process : e \in m}}

-----------------------------------------------------------------------------
(* Writes.                                                                   *)

\* What the tables require of a row that is inserted.
Fits(p, k) == owners[p] # None /\ OfManager(p, k).says = {}

NewRow(e, p, k, d) ==
  [id |-> e, code |-> Code(e), process |-> p, key |-> k, due |-> d, resolved |-> FALSE,
   version |-> 1]

Fresh(e) == entries[e] = None /\ events[e] = 0

Inserted(S, row) ==
  /\ entries' = [e \in Rows |-> IF e \in S THEN row[e] ELSE entries[e]]
  /\ events' = [e \in Rows |-> IF e \in S THEN 1 ELSE events[e]]

\* createMany inserts all of its rows or, when one does not fit, fails:
\* skipDuplicates only skips rows whose id is taken.
CreateMany(S, p, d, key) ==
  /\ \A e \in S : Fresh(e) /\ Fits(p, key[e])
  /\ \A e, f \in S : e # f => key[e] # key[f]
  /\ Inserted(S, [e \in S |-> NewRow(e, p, key[e], d)])
  /\ UNCHANGED <<owners, ask>>

\* An increment is computed by the statement, so it counts the row as it is.
Changed(e, d, flip) ==
  [entries[e] EXCEPT !.due = d, !.resolved = IF flip THEN ~@ ELSE @, !.version = @ + 1]

\* A change writes its event in the same transaction.
Assigned(S, d, flip) ==
  /\ S # {} /\ \A e \in S : entries[e].version < MaxVersion
  /\ entries' = [e \in Rows |-> IF e \in S THEN Changed(e, d, flip) ELSE entries[e]]
  /\ events' = [e \in Rows |-> IF e \in S THEN events[e] + 1 ELSE events[e]]

\* update and updateMany change every row their clause holds of; update throws
\* when there is none.
UpdateMany(c, d, flip) ==
  /\ Assigned(c.found, d, flip)
  /\ UNCHANGED <<owners, ask>>

Gone(S) ==
  /\ entries' = [e \in Rows |-> IF e \in S THEN None ELSE entries[e]]
  /\ events' = [e \in Rows |-> IF e \in S THEN -1 ELSE events[e]]

DeleteMany(c) ==
  /\ c.found # {}
  /\ Gone(c.found)
  /\ UNCHANGED <<owners, ask>>

\* A process takes its entries and their events along.
DeleteProcess(p) ==
  /\ owners[p] # None
  /\ owners' = [owners EXCEPT ![p] = None]
  /\ Gone({e \in Present : entries[e].process = p})
  /\ UNCHANGED ask

-----------------------------------------------------------------------------
(* What takes two statements, with others in between.                        *)

Idle(r) == ask[r] = None

\* upsert looks for the row first.
UpsertFind(r, p, k) ==
  /\ Idle(r)
  /\ ask' = [ask EXCEPT ![r] = [op |-> "upsert", p |-> p, k |-> k,
                                found |-> OfManager(p, k).found # {}]]
  /\ UNCHANGED <<entries, events, owners>>

UpsertWrite(r, e, d) ==
  /\ ~Idle(r) /\ ask[r].op = "upsert"
  /\ ask' = [ask EXCEPT ![r] = None]
  /\ LET m == OfManager(ask[r].p, ask[r].k).found
     IN  \/ ask[r].found /\ Assigned(m, d, FALSE)
         \/ /\ ~ask[r].found /\ Fresh(e) /\ Fits(ask[r].p, ask[r].k)
            /\ Inserted({e}, [f \in {e} |-> NewRow(f, ask[r].p, ask[r].k, d)])
         \* The row was deleted, or another request created it, in between.
         \/ /\ IF ask[r].found THEN m = {} ELSE ~Fits(ask[r].p, ask[r].k)
            /\ UNCHANGED <<entries, events>>
  /\ UNCHANGED owners

\* include: the rows, then in a statement of its own what belongs to them.
LoadRows(r, c) ==
  /\ Idle(r) /\ c.found # {}
  /\ ask' = [ask EXCEPT ![r] =
       [op |-> "rows", rows |-> {[id |-> e, version |-> entries[e].version, events |-> 0] :
                                   e \in c.found}]]
  /\ UNCHANGED <<entries, events, owners>>

\* Mutant: the rows are read again after what belongs to them.
RelationsFirst(r) ==
  /\ ~Idle(r) /\ ask[r].op = "rows"
  /\ ask' = [ask EXCEPT ![r] =
       [op |-> "answered",
        rows |-> {[row EXCEPT !.events = row.version,
                              !.version = IF entries[row.id] = None THEN @ ELSE entries[row.id].version] :
                    row \in ask[r].rows}]]
  /\ UNCHANGED <<entries, events, owners>>

LoadRelations(r) ==
  /\ ~Idle(r) /\ ask[r].op = "rows"
  /\ ask' = [ask EXCEPT ![r] =
       [op |-> "answered",
        rows |-> {[row EXCEPT !.events = events[row.id]] : row \in ask[r].rows}]]
  /\ UNCHANGED <<entries, events, owners>>

Return(r) ==
  /\ ~Idle(r) /\ ask[r].op = "answered"
  /\ ask' = [ask EXCEPT ![r] = None]
  /\ UNCHANGED <<entries, events, owners>>

-----------------------------------------------------------------------------
Init ==
  /\ entries = [e \in Rows |-> None]
  /\ events = [e \in Rows |-> 0]
  \* One process is archived, and has lost its members.
  /\ \E archived \in Owners :
       owners = [p \in Owners |-> [archived |-> p = archived,
                                  members |-> IF p = archived THEN {} ELSE People]]
  /\ ask = [r \in Asking |-> None]

Next ==
  \/ \E S \in (SUBSET Rows) \ {{}}, p \in Owners, d \in Dues \cup {None} :
       \E key \in [S -> Mails] : CreateMany(S, p, d, key)
  \/ \E e \in Rows : DeleteMany(LookUp(e))
  \/ \E e \in Rows, d \in Dues \cup {None}, flip \in BOOLEAN : UpdateMany(LookUp(e), d, flip)
  \/ \E p \in Owners, x \in Rows, d \in Dues : UpdateMany(AllButThis(p, x), d, TRUE)
  \/ \E p \in Owners : DeleteProcess(p)
  \/ \E r \in Asking, p \in Owners, k \in Mails : UpsertFind(r, p, k)
  \/ \E r \in Asking, e \in Rows, d \in Dues \cup {None} : UpsertWrite(r, e, d)
  \/ \E r \in Asking, e \in Rows : LoadRows(r, LookUp(e))
  \/ \E r \in Asking, u \in People : LoadRows(r, InProcesses(u))
  \/ \E r \in Asking : LoadRelations(r) \/ Return(r)

Spec == Init /\ [][Next]_clientVars

-----------------------------------------------------------------------------
TypeOK ==
  /\ \A e \in Rows :
       /\ events[e] \in -1..MaxVersion
       /\ \/ entries[e] = None
          \/ entries[e] \in [id : {e}, code : {Code(e)}, process : Owners, key : Mails,
                             due : Dues \cup {None}, resolved : BOOLEAN, version : 1..MaxVersion]
  /\ \A p \in Owners :
       owners[p] = None \/ owners[p] \in [archived : BOOLEAN, members : SUBSET People]
  /\ DOMAIN ask = Asking

\* A query finds, and an update or a deletion reaches, exactly the rows its
\* clause is meant to say, whatever is NULL in them; a page comes in the order
\* asked for and leaves out nothing that should have come before it
\* (compileConditions, compileOrderBy, findManyImpl).
ClausesMeanWhatTheySay ==
  \A c \in Clauses :
    /\ c.found = c.says
    /\ Count(c) = Cardinality(c.says)
    /\ \A e \in c.says : Highest(c) >= entries[e].version
    /\ \A g \in GroupByProcess(c) :
         g[2] = Cardinality({e \in c.says : entries[e].process = g[1]})
    /\ \A dir \in {"asc", "desc"}, take \in 0..1 :
         \A page \in FindMany(c, dir, 0, take) :
           LET shown == {page[i] : i \in DOMAIN page}
           IN  /\ \A e \in c.says \ shown, f \in shown : Before(f, e, dir)
               /\ take = 0 => shown = c.says
               /\ shown # {} \/ c.says = {}

\* What is read in two statements may have changed in between, but an entry is
\* never shown with less of its history than its row tells of, unless it has
\* been deleted (loadRelations).
HistoryIsNotBehind ==
  \A r \in Asking :
    ~Idle(r) => (ask[r].op = "answered" =>
      \A row \in ask[r].rows : row.events >= row.version \/ row.events = -1)

ClientKeepsItsWord == ClausesMeanWhatTheySay /\ HistoryIsNotBehind
=============================================================================
