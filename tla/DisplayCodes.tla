----------------------------- MODULE DisplayCodes -----------------------------
(***************************************************************************)
(* The codes rows are shown under (EVT-000000001, ACT-2026-00000001, ...). *)
(* nextSequence counts per prefix, scope and UTC year in a row that the    *)
(* drawing transaction holds until it ends; most formats leave the year    *)
(* out of the code, and every displayCode column has a unique index.       *)
(***************************************************************************)
EXTENDS Naturals

CONSTANTS
  Requests,   \* transactions that may be open at a time
  Series,     \* prefixes, each within one scope
  YearInCode, \* those whose format shows the year: PRC and ACT
  None,
  MaxYear,    \* bound on the years, the first is 1
  MaxDraws    \* bound on the codes drawn

VARIABLES
  year,    \* getUTCFullYear
  counter, \* per series and year, the committed currentValue
  taken,   \* per series, the codes in its table
  call,    \* per request, the row it holds and the code it drew
  draws

vars == <<year, counter, taken, call, draws>>

Years == 1..MaxYear
Codes == (Years \cup {None}) \X (1..MaxDraws)
Calls == [series : Series, year : Years, code : Codes]

TypeOK ==
  /\ year \in Years /\ draws \in 0..MaxDraws
  /\ counter \in [Series -> [Years -> 0..MaxDraws]]
  /\ taken \in [Series -> SUBSET Codes]
  /\ call \in [Requests -> Calls \cup {None}]
  /\ \A r \in Requests : call[r] # None =>
       call[r].code[2] = counter[call[r].series][call[r].year] + 1

Init ==
  /\ year = 1 /\ draws = 0
  /\ counter = [s \in Series |-> [y \in Years |-> 0]]
  /\ taken = [s \in Series |-> {}]
  /\ call = [r \in Requests |-> None]

\* What the next*Code functions make of the number.
Format(s, y, n) == <<IF s \in YearInCode THEN y ELSE None, n>>

\* Mutant: the counter is read and written without holding its row.
RowIsThere(s, y) == TRUE

\* The upsert waits while another transaction holds the counter row.
RowIsFree(s, y) ==
  \A r \in Requests : call[r] # None => call[r].series # s \/ call[r].year # y

\* nextSequence, in the transaction of the row the code is for.
Draw(r, s) ==
  /\ call[r] = None /\ draws < MaxDraws
  /\ RowIsFree(s, year)
  /\ draws' = draws + 1
  /\ call' = [call EXCEPT ![r] =
       [series |-> s, year |-> year, code |-> Format(s, year, counter[s][year] + 1)]]
  /\ UNCHANGED <<year, counter, taken>>

Taken(r) == call[r].code \in taken[call[r].series]

\* The row is inserted under a code nobody has, and the counter with it.
Commit(r) ==
  /\ call[r] # None /\ ~Taken(r)
  /\ counter' = [counter EXCEPT ![call[r].series][call[r].year] = call[r].code[2]]
  /\ taken' = [taken EXCEPT ![call[r].series] = @ \cup {call[r].code}]
  /\ call' = [call EXCEPT ![r] = None]
  /\ UNCHANGED <<year, draws>>

\* Another statement fails, or the unique index refuses the code: the counter
\* goes back as well.
RollBack(r) ==
  /\ call[r] # None
  /\ call' = [call EXCEPT ![r] = None]
  /\ UNCHANGED <<year, counter, taken, draws>>

\* A transaction may have drawn its code before midnight.
NewYear ==
  /\ year < MaxYear /\ year' = year + 1
  /\ UNCHANGED <<counter, taken, call, draws>>

Next == NewYear \/ \E r \in Requests : Commit(r) \/ RollBack(r) \/ \E s \in Series : Draw(r, s)

Spec == Init /\ [][Next]_vars

\* Within the first year, and for ever where the code shows its year, a drawn
\* code is new: no transaction meets the unique index, and two open ones never
\* hold the same code.
FreshWithinItsYear ==
  \A r \in Requests :
    /\ call[r] # None /\ (call[r].series \in YearInCode \/ year = 1)
    => /\ ~Taken(r)
       /\ \A q \in Requests \ {r} : call[q] # None =>
            <<call[q].series, call[q].code>> # <<call[r].series, call[r].code>>

\* Codes are unique, as their indexes say: no drawn code is taken.
DrawnCodeIsNew == \A r \in Requests : call[r] # None => ~Taken(r)

=============================================================================
