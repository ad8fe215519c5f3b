---------------------------- MODULE EscalationDesk -----------------------------
(***************************************************************************)
(* The Escalation Center of one process in one auditor's browser: the rows *)
(* it shows, the events that make it fetch them again, its filters and     *)
(* keyboard cursor, the entries ticked for a bulk action, the dialogs of   *)
(* those actions and the composer for several managers.                    *)
(*                                                                         *)
(* The list comes from one query of React Query: a new fetch cancels the   *)
(* one under way, except before the first rows have come.                  *)
(***************************************************************************)
EXTENDS Naturals

CONSTANTS
  None,
  Entries,      \* tracking entries of the process, numbers in the server's order
  Touching,     \* those with findings in the project of the link
  Dialogs,      \* of {"acknowledge", "snooze"}: bulk actions with a dialog
  MaxChanges,   \* bound: changes of others
  MaxActs       \* bound: what the auditor does, beyond looking

VARIABLES
  table,        \* entry -> its stage on the server
  news,         \* an event about the process is on its way here
  online,       \* the socket is connected
  timer,        \* an event has come, the coalescer waits for more
  list,         \* the rows on the page, None before the first
  fetch,        \* None, or the query under way: [rows |-> None], then its answer
  failed,       \* the last fetch has failed, and the page says so
  unheard,      \* something changed since the last answer without an event that came here
  filter,       \* [stages, project]: the address of the page
  applied,      \* the project of the link has been ticked
  ticked, cursor,
  panel,        \* None, or the row the side panel was opened with
  dialog,       \* dialog -> [open, asked]
  quick,        \* bulk resolutions under way
  composer,     \* [open, drafts, loads]: the composer for several managers
  changes, acts

page == <<list, filter, applied, ticked, cursor>>
bulk == <<dialog, quick, composer>>
deskVars == <<table, news, online, timer, list, fetch, failed, unheard, filter, applied, ticked,
              cursor, panel, dialog, quick, composer, changes, acts>>

Stages == {"open", "late", "responded", "resolved", "verified"}
BulkRequests == [ids : SUBSET Entries, done : BOOLEAN]

-----------------------------------------------------------------------------
(* What is shown, and what follows from it at once.                          *)

Shown(rows, f) ==
  {e \in Entries : /\ rows # None
                   /\ f.stages = {} \/ rows[e] \in f.stages
                   /\ f.project => e \in Touching}

\* computePriority: what is resolved sinks to the end, and of the others the
\* one with most findings comes first.
Before(rows, d, e) ==
  LET weight(x) == IF rows[x] \in {"resolved", "verified"} THEN 0 ELSE x
  IN  weight(d) > weight(e) \/ (weight(d) = weight(e) /\ d < e)

First(rows, S) == {e \in S : \A d \in S \ {e} : Before(rows, e, d)}
Last(rows, S) == {e \in S : \A d \in S \ {e} : Before(rows, d, e)}
After(rows, S, e) == {d \in S : Before(rows, e, d)}
Earlier(rows, S, e) == {d \in S : Before(rows, d, e)}

\* The effects of new rows or a new address: the project of the link is ticked
\* once, and a cursor whose row is not shown any more is dropped.
Settled(rows, f) ==
  LET first == f.project /\ ~applied /\ rows # None
  IN  /\ list' = rows /\ filter' = f
      /\ applied' = (f.project /\ (applied \/ first))
      /\ ticked' = IF first THEN Touching ELSE ticked
      /\ cursor' = IF cursor \in Shown(rows, f) THEN cursor ELSE None

\* The composer loads its drafts when it is opened, and again whenever other
\* entries are ticked behind it.
Reloaded(c, ids) ==
  IF c.open /\ ids # ticked THEN [c EXCEPT !.loads = @ \cup {ids}] ELSE c

-----------------------------------------------------------------------------
(* The list and the events.                                                  *)

\* Mutant: a query under way is joined, as React Query does unless told to cancel.
RefetchJoins ==
  IF fetch # None
  THEN UNCHANGED <<fetch, unheard>>
  ELSE fetch' = [rows |-> None] /\ UNCHANGED unheard

Refetch ==
  IF fetch # None /\ list = None
  THEN /\ unheard' = (unheard \/ fetch.rows # None) /\ UNCHANGED fetch
  ELSE fetch' = [rows |-> None] /\ UNCHANGED unheard

\* A handler that announces what it changed, or one that does not.
Announced(e) ==
  \/ table[e] \in {"open", "late"} /\ table' = [table EXCEPT ![e] = "responded"]
  \/ table[e] \in {"open", "late", "responded"} /\ table' = [table EXCEPT ![e] = "resolved"]
  \/ table[e] = "resolved" /\ table' = [table EXCEPT ![e] = "verified"]
  \/ table[e] = "verified" /\ table' = [table EXCEPT ![e] = "resolved"]
Silent(e) == table[e] = "open" /\ table' = [table EXCEPT ![e] = "late"]

Heard(some) == news' = (news \/ (some /\ online)) /\ unheard' = (unheard \/ (some /\ ~online))

Change(e) ==
  /\ changes < MaxChanges /\ changes' = changes + 1
  /\ \/ Announced(e) /\ Heard(TRUE)
     \/ Silent(e) /\ unheard' = TRUE /\ UNCHANGED news
  /\ UNCHANGED <<online, timer, page, fetch, failed, panel, bulk, acts>>

Disconnect ==
  /\ online /\ changes < MaxChanges /\ changes' = changes + 1
  /\ online' = FALSE /\ news' = FALSE /\ unheard' = (unheard \/ news)
  /\ UNCHANGED <<table, timer, page, fetch, failed, panel, bulk, acts>>
Connect ==
  /\ ~online /\ online' = TRUE
  /\ UNCHANGED <<table, news, timer, page, fetch, failed, unheard, panel, bulk, changes, acts>>

\* An event starts the timer of its query again.
Notice ==
  /\ news /\ news' = FALSE /\ timer' = TRUE
  /\ UNCHANGED <<table, online, page, fetch, failed, unheard, panel, bulk, changes, acts>>
Invalidate ==
  /\ timer /\ timer' = FALSE /\ Refetch
  /\ UNCHANGED <<table, news, online, page, failed, panel, bulk, changes, acts>>

Serve ==
  /\ fetch # None /\ fetch.rows = None
  /\ fetch' = [rows |-> table] /\ unheard' = FALSE
  /\ UNCHANGED <<table, news, online, timer, page, failed, panel, bulk, changes, acts>>
Arrive ==
  /\ fetch # None /\ fetch.rows # None
  /\ fetch' = None /\ failed' = FALSE
  /\ Settled(fetch.rows, filter)
  /\ composer' = Reloaded(composer, ticked')
  /\ UNCHANGED <<table, news, online, timer, unheard, panel, dialog, quick, changes, acts>>
FetchFails ==
  /\ fetch # None /\ acts < MaxActs /\ acts' = acts + 1
  /\ fetch' = None /\ failed' = TRUE
  /\ UNCHANGED <<table, news, online, timer, page, unheard, panel, bulk, changes>>

-----------------------------------------------------------------------------
(* The auditor.                                                              *)

Act ==
  /\ acts < MaxActs /\ acts' = acts + 1
  /\ UNCHANGED <<table, news, online, timer, failed, changes>>

\* The button of the header; a resolution recorded in the panel does the same.
Refresh ==
  /\ Act /\ Refetch
  /\ UNCHANGED <<page, panel, bulk>>

AnyDialog == composer.open \/ \E d \in Dialogs : dialog[d].open
\* Dialogs and the panel lie over the page; keys go past them.
Uncovered == ~AnyDialog /\ panel = None

SetFilter(f) ==
  /\ Act /\ Uncovered /\ f # filter
  /\ Settled(list, f) /\ composer' = Reloaded(composer, ticked')
  /\ UNCHANGED <<fetch, unheard, panel, dialog, quick>>

Tick(ids) ==
  /\ ticked' = ids /\ composer' = Reloaded(composer, ids)
  /\ UNCHANGED <<fetch, unheard, list, filter, applied, cursor, panel, dialog, quick>>
ToggleTracking(e) ==
  /\ Act /\ Uncovered /\ e \in Shown(list, filter)
  /\ Tick(IF e \in ticked THEN ticked \ {e} ELSE ticked \cup {e})
ToggleAllVisible ==
  /\ Act /\ Uncovered
  /\ LET visible == Shown(list, filter)
     IN  Tick(IF visible \subseteq ticked THEN ticked \ visible ELSE ticked \cup visible)

\* j, k, Enter and a click. Enter opens the first row when there is no cursor.
MoveCursor ==
  LET S == Shown(list, filter)
  IN  /\ Act /\ S # {}
      /\ \/ cursor = None /\ cursor' \in First(list, S)
         \/ /\ cursor # None
            /\ \/ cursor' \in First(list, After(list, S, cursor))
               \/ cursor' \in Last(list, Earlier(list, S, cursor))
               \/ UNCHANGED cursor /\ {} \in {After(list, S, cursor), Earlier(list, S, cursor)}
      /\ UNCHANGED <<fetch, unheard, list, filter, applied, ticked, panel, bulk>>
OpenPanel(e) ==
  /\ Act /\ e \in Shown(list, filter)
  /\ \/ Uncovered /\ cursor' = e
     \/ UNCHANGED cursor /\ (cursor = e \/ (cursor = None /\ e \in First(list, Shown(list, filter))))
  /\ panel' = [entry |-> e, stage |-> list[e]]
  /\ UNCHANGED <<fetch, unheard, list, filter, applied, ticked, bulk>>

\* Escape reaches every listener: dialogs and panel close, and the ticks go
\* unless a bulk action is open.
Escape ==
  /\ Act
  /\ panel' = None /\ dialog' = [d \in Dialogs |-> [dialog[d] EXCEPT !.open = FALSE]]
  /\ ticked' = IF AnyDialog THEN ticked ELSE {}
  /\ composer' = [composer EXCEPT !.open = FALSE]
  /\ IF composer.open THEN Refetch ELSE UNCHANGED <<fetch, unheard>>
  /\ UNCHANGED <<list, filter, applied, cursor, quick>>

-----------------------------------------------------------------------------
(* Bulk actions: what is ticked when the button is pressed.                  *)

OpenDialog(d) ==
  /\ Act /\ ticked # {} /\ ~dialog[d].open
  /\ dialog' = [dialog EXCEPT ![d].open = TRUE]
  /\ UNCHANGED <<fetch, unheard, page, panel, quick, composer>>
Submit(d) ==
  /\ Act /\ dialog[d].open /\ dialog[d].asked = None
  /\ dialog' = [dialog EXCEPT ![d].asked = [ids |-> ticked, done |-> FALSE]]
  /\ UNCHANGED <<fetch, unheard, page, panel, quick, composer>>
Resolve ==
  /\ Act /\ ticked # {}
  /\ quick' = quick \cup {[ids |-> ticked, done |-> FALSE]}
  /\ UNCHANGED <<fetch, unheard, page, panel, dialog, composer>>

Bulk(ids, from, to) == [e \in Entries |-> IF e \in ids /\ table[e] \in from THEN to ELSE table[e]]

ServeDialog(d) ==
  LET asked == dialog[d].asked
  IN  /\ asked # None /\ ~asked.done
      /\ dialog' = [dialog EXCEPT ![d].asked = [asked EXCEPT !.done = TRUE]]
      /\ IF d = "acknowledge"
         THEN /\ table' = Bulk(asked.ids, {"open", "late"}, "responded")
              /\ Heard(table' # table)
         ELSE UNCHANGED <<table, news, unheard>>
      /\ UNCHANGED <<online, timer, page, fetch, failed, panel, quick, composer, changes, acts>>
ServeResolve(r) ==
  /\ ~r.done /\ quick' = (quick \ {r}) \cup {[r EXCEPT !.done = TRUE]}
  /\ table' = Bulk(r.ids, {"open", "late", "responded"}, "resolved")
  /\ Heard(table' # table)
  /\ UNCHANGED <<online, timer, page, fetch, failed, panel, dialog, composer, changes, acts>>

\* An answer clears the ticks and closes the dialog, whatever was ticked or
\* opened since; a failure leaves both.
AnswerDialog(d) ==
  /\ dialog[d].asked # None /\ dialog[d].asked.done
  /\ dialog' = [dialog EXCEPT ![d] = [open |-> FALSE, asked |-> None]]
  /\ ticked' = {} /\ composer' = Reloaded(composer, {}) /\ Refetch
  /\ UNCHANGED <<table, news, online, timer, list, failed, filter, applied, cursor, panel, quick, changes, acts>>
DialogFails(d) ==
  /\ dialog[d].asked # None /\ acts < MaxActs /\ acts' = acts + 1
  /\ dialog' = [dialog EXCEPT ![d].asked = None]
  /\ UNCHANGED <<table, news, online, timer, page, fetch, failed, unheard, panel, quick, composer, changes>>
AnswerResolve(r) ==
  /\ r.done /\ quick' = quick \ {r} /\ Refetch
  /\ UNCHANGED <<table, news, online, timer, page, failed, panel, dialog, composer, changes, acts>>

-----------------------------------------------------------------------------
(* The composer for several managers.                                        *)

OpenComposer ==
  /\ Act /\ ticked # {} /\ ~composer.open
  /\ composer' = [composer EXCEPT !.open = TRUE, !.loads = @ \cup {ticked}]
  /\ UNCHANGED <<fetch, unheard, page, panel, dialog, quick>>
LoadDrafts(ids) ==
  /\ composer' = [composer EXCEPT !.loads = @ \ {ids}, !.drafts = ids]
  /\ UNCHANGED <<table, news, online, timer, page, fetch, failed, unheard, panel, dialog, quick, changes, acts>>
CloseComposer ==
  /\ Act /\ composer.open
  /\ composer' = [composer EXCEPT !.open = FALSE] /\ Refetch
  /\ UNCHANGED <<page, panel, dialog, quick>>

\* The hand-off only fills a window with links: the server hears nothing of it.
HandOff ==
  /\ Act /\ composer.open /\ composer.drafts # {} /\ Refetch
  /\ UNCHANGED <<page, panel, bulk>>

-----------------------------------------------------------------------------
Filters == [stages : {{}, {"resolved"}}, project : BOOLEAN]

Init ==
  /\ table = [e \in Entries |-> "open"]
  /\ news = FALSE /\ online = TRUE /\ timer = FALSE /\ failed = FALSE /\ unheard = FALSE
  /\ list = None /\ fetch = [rows |-> None]
  /\ filter \in [stages : {{}}, project : BOOLEAN] /\ applied = FALSE
  /\ ticked = {} /\ cursor = None /\ panel = None
  /\ dialog = [d \in Dialogs |-> [open |-> FALSE, asked |-> None]]
  /\ quick = {} /\ composer = [open |-> FALSE, drafts |-> {}, loads |-> {}]
  /\ changes = 0 /\ acts = 0

Next ==
  \/ \E e \in Entries : Change(e) \/ ToggleTracking(e) \/ OpenPanel(e)
  \/ Disconnect \/ Connect \/ Notice \/ Invalidate \/ Serve \/ Arrive \/ FetchFails
  \/ \E f \in Filters : SetFilter(f)
  \/ Refresh \/ ToggleAllVisible \/ MoveCursor \/ Escape \/ Resolve
  \/ \E d \in Dialogs :
       OpenDialog(d) \/ Submit(d) \/ ServeDialog(d) \/ AnswerDialog(d) \/ DialogFails(d)
  \/ \E r \in quick : ServeResolve(r) \/ AnswerResolve(r)
  \/ OpenComposer \/ HandOff \/ CloseComposer \/ \E ids \in composer.loads : LoadDrafts(ids)

Spec == Init /\ [][Next]_deskVars

-----------------------------------------------------------------------------
TypeOK ==
  /\ table \in [Entries -> Stages] /\ {news, online, timer, failed, unheard, applied} \subseteq BOOLEAN
  /\ list = None \/ list \in [Entries -> Stages]
  /\ fetch = None \/ fetch.rows = None \/ fetch.rows \in [Entries -> Stages]
  /\ filter \in Filters /\ ticked \subseteq Entries /\ cursor \in Entries \cup {None}
  /\ panel = None \/ panel \in [entry : Entries, stage : Stages]
  /\ \A d \in Dialogs : dialog[d].asked = None \/ dialog[d].asked \in BulkRequests
  /\ quick \subseteq BulkRequests /\ composer.drafts \subseteq Entries

\* When no event, timer or answer is on its way and the page reports no error,
\* its rows are the server's, but for changes it never heard of: the ones
\* made without an event, while the socket was down, or during the first fetch
\* (EscalationCenter.tsx, useCoalescedInvalidator).
QuietListIsCurrent ==
  (~news /\ ~timer /\ fetch = None /\ ~failed) => (list = table \/ unheard)

\* The keyboard cursor stands on a row that is shown.
CursorIsShown == cursor \in Shown(list, filter) \cup {None}

\* New rows tick nothing and untick nothing but for the project of the link,
\* once, and leave the cursor on its manager wherever the row has moved to.
RowsLeaveTicks ==
  fetch # None /\ fetch' = None =>
    /\ ticked' # ticked => ~applied /\ applied' /\ ticked' = Touching
    /\ cursor' \in {cursor, None}

DeskFollowsServer == [](QuietListIsCurrent /\ CursorIsShown) /\ [][RowsLeaveTicks]_deskVars

\* Does not hold: the drafts shown once all loads have come are those of the
\* entries ticked (BulkComposer.tsx:141).
DraftsAreForTicked == composer.open /\ composer.loads = {} => composer.drafts = ticked

\* Does not hold: the open panel shows its entry as the list does (EscalationPanel.tsx:77).
PanelIsCurrent == panel # None /\ list # None => panel.stage = list[panel.entry]

\* Does not hold: Escape unticks only when no dialog or panel is open (EscalationCenter.tsx:341).
EscapeKeepsTicks == [][panel # None /\ panel' = None /\ ticked' = {} => ticked = {}]_deskVars
=============================================================================
