--------------------------- MODULE UserPreferences ---------------------------
(***************************************************************************)
(* The one JSON column in which three services keep what belongs to a      *)
(* user: the notifications read, the saved escalation views and whether    *)
(* the AI pilot's welcome was dismissed. Each of them reads the column,    *)
(* adds to what it read and writes the whole back, outside any             *)
(* transaction. One user is enough: nothing is shared between two.         *)
(***************************************************************************)
EXTENDS Naturals

CONSTANTS
  Notices, \* in-app notifications that are ever published
  Views,   \* escalation views the user may save
  Slots,   \* requests of this user in flight
  None

\* Everything that may be found in the column, whatever its key.
Items == ({"read"} \X Notices) \cup ({"view"} \X Views) \cup {<<"welcome", None>>}

VARIABLES
  row,       \* the data of the preference row, None while there is no row
  published, \* the notifications in the activity log
  call,      \* per slot, the request in progress
  during     \* per item, the requests that were in flight when it was stored

vars == <<row, published, call, during>>

\* adds: what the request adds, unknown to markAllRead until it has listed the
\* log; seen: the row it has read.
Idle == [pc |-> "idle"]
Calls == {Idle} \cup [pc : {"list", "read", "write", "listThenWrite"},
                      adds : SUBSET Items, seen : (SUBSET Items) \cup {None}]

TypeOK ==
  /\ row \in (SUBSET Items) \cup {None}
  /\ published \subseteq Notices
  /\ call \in [Slots -> Calls]
  /\ during \in [Items -> SUBSET Slots]

Stored == IF row = None THEN {} ELSE row

Init ==
  /\ row = None /\ published = {}
  /\ call = [s \in Slots |-> Idle] /\ during = [i \in Items |-> {}]

\* publish, which the SLA run calls.
Publish(n) ==
  /\ n \notin published /\ published' = published \cup {n}
  /\ UNCHANGED <<row, call, during>>

Begin(s, pc, adds) ==
  /\ call[s] = Idle
  /\ call' = [call EXCEPT ![s] = [pc |-> pc, adds |-> adds, seen |-> None]]
  /\ UNCHANGED <<row, published, during>>

MarkRead(s, n) == n \in published /\ Begin(s, "read", {<<"read", n>>})

MarkAllRead(s) == Begin(s, "list", {})

\* create of the saved views: a new view has a new id.
SaveView(s, v) ==
  /\ <<"view", v>> \notin Stored
  /\ \A t \in Slots : call[t] # Idle => <<"view", v>> \notin call[t].adds
  /\ Begin(s, "read", {<<"view", v>>})

DismissWelcome(s) == Begin(s, "read", {<<"welcome", None>>})

\* findUnique of the preference row. markAllRead sends it together with the
\* query of the log, and either may be answered first.
ReadRow(s) ==
  /\ call[s].pc \in {"read", "list"}
  /\ call' = [call EXCEPT ![s].seen = row,
                ![s].pc = IF @ = "read" THEN "write" ELSE "listThenWrite"]
  /\ UNCHANGED <<row, published, during>>

ListLog(s) ==
  /\ call[s].pc \in {"list", "listThenWrite"}
  /\ call' = [call EXCEPT ![s].adds = {"read"} \X published,
                ![s].pc = IF @ = "list" THEN "read" ELSE "write"]
  /\ UNCHANGED <<row, published, during>>

\* Mutant: only the service's own key is written back.
OwnKeyOnly(c) == {i \in c.seen : \E j \in c.adds : i[1] = j[1]} \cup c.adds

\* The data a request writes over the row it has found.
Merged(c) == c.seen \cup c.adds

\* update by the id of the row that was read, or create when there was none;
\* of two creates the later fails on the unique userId.
Write(s) ==
  LET c == call[s]
      lost == c.seen = None /\ row # None
      new == IF c.seen = None THEN c.adds ELSE Merged(c)
      others == {t \in Slots \ {s} : call[t] # Idle}
  IN
  /\ c.pc = "write"
  /\ row' = IF lost THEN row ELSE new
  /\ during' = [i \in Items |->
       (IF ~lost /\ i \in new \ Stored THEN others ELSE during[i]) \ {s}]
  /\ call' = [call EXCEPT ![s] = Idle]
  /\ UNCHANGED published

Next ==
  \/ \E n \in Notices : Publish(n)
  \/ \E s \in Slots :
       \/ \E n \in Notices : MarkRead(s, n)
       \/ \E v \in Views : SaveView(s, v)
       \/ MarkAllRead(s) \/ DismissWelcome(s)
       \/ ReadRow(s) \/ ListLog(s) \/ Write(s)

Spec == Init /\ [][Next]_vars

-----------------------------------------------------------------------------

\* What is stored can be lost, but only to a request that was in flight when
\* it was stored: no request drops what was there before it started, whichever
\* of the three services it is for.
LostToOverlapOnly ==
  [][\A i \in Items : i \in Stored /\ i \notin Stored' =>
       \E s \in during[i] : call[s] # Idle /\ call'[s] = Idle]_vars
=============================================================================
