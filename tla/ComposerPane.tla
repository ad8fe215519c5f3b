------------------------------ MODULE ComposerPane ------------------------------
(***************************************************************************)
(* The composer of one tracking entry in an auditor's browser, with the    *)
(* dialog that broadcasts to every manager: the preview that follows the   *)
(* text, the saves when the page is left, the lock of another auditor seen *)
(* through a poll, and the windows opened on a click and filled when the   *)
(* server has recorded the message.                                        *)
(*                                                                         *)
(* The handlers of the server are one step each here; how they race each   *)
(* other is the subject of TrackingLadder.                                 *)
(***************************************************************************)
EXTENDS Naturals

CONSTANTS
  None,
  Kinds,        \* of {"send", "popup", "broadcast"}: what opens a window
  MaxTexts,     \* bound: texts written
  MaxActs       \* bound: what the auditor, the other one and the network do

VARIABLES
  text,         \* what is in the fields: 0 nothing, 1 the template, then every edit
  written,      \* the highest text so far
  dirty,        \* dirtyRef: to be saved when the page is left
  mounted, readOnly, view,
  preview,      \* [of, loading, failed]
  asked,        \* the texts of previews under way, but for those whose answer is dropped
  poll,         \* None, or the status under way: [locked], None before its answer
  saves,        \* drafts under way: [of, auto, end]
  job,          \* kind -> None, or the request under way: [of, end]
  window,       \* kind -> its last window: [is, of]
  draft,        \* on the server: None or a text
  holder,       \* who holds its lock: None, "me", "other"
  recorded,     \* kind -> texts recorded as handed off, or resolved for a popup
  raced,        \* an edit was made while a save was under way
  overtaken,    \* someone changed the draft since a save of this composer
  acts

screen == <<text, written, dirty, mounted, readOnly, view, preview, asked>>
server == <<draft, holder, recorded>>
paneVars == <<text, written, dirty, mounted, readOnly, view, preview, asked, poll, saves, job,
              window, draft, holder, recorded, raced, overtaken, acts>>

Act == acts < MaxActs /\ acts' = acts + 1
Ends == {None, "done", "nobody", "refused"}

-----------------------------------------------------------------------------
(* The text and its preview.                                                 *)

\* Mutant: an effect that forgets to cancel.
PreviewedAll(t, v) ==
  /\ asked' = IF v = "preview" THEN asked \cup {t} ELSE asked
  /\ preview' = IF v = "preview" THEN [preview EXCEPT !.loading = TRUE] ELSE preview

\* The effect of the preview: it cancels the request under way and starts one.
Previewed(t, v) ==
  /\ asked' = IF v = "preview" THEN {t} ELSE {}
  /\ preview' = IF v = "preview" THEN [preview EXCEPT !.loading = TRUE] ELSE preview

Write(t) ==
  /\ text' = t /\ dirty' = TRUE /\ raced' = (raced \/ saves # {})
  /\ Previewed(t, view)

\* The first answer of templatesQ fills the fields over whatever they hold.
LoadTemplate ==
  /\ mounted /\ text = 0 /\ written = 0 /\ written' = 1 /\ Write(1)
  /\ UNCHANGED <<mounted, readOnly, view, poll, saves, job, window, server, overtaken, acts>>

Edit ==
  /\ mounted /\ ~readOnly /\ written \in 1 .. (MaxTexts - 1)
  /\ written' = written + 1 /\ Write(written + 1)
  /\ UNCHANGED <<mounted, readOnly, view, poll, saves, job, window, server, overtaken, acts>>
Empty ==
  /\ mounted /\ ~readOnly /\ text > 1 /\ Act /\ Write(0)
  /\ UNCHANGED <<written, mounted, readOnly, view, poll, saves, job, window, server, overtaken>>

ToggleView ==
  /\ mounted /\ Act
  /\ view' = IF view = "preview" THEN "edit" ELSE "preview"
  /\ Previewed(text, view')
  /\ UNCHANGED <<text, written, dirty, mounted, readOnly, poll, saves, job, window, server, raced,
                 overtaken>>

AnswerPreview(a) ==
  /\ asked' = asked \ {a} /\ preview' = [of |-> a, loading |-> FALSE, failed |-> FALSE]
  /\ UNCHANGED <<text, written, dirty, mounted, readOnly, view, poll, saves, job, window, server,
                 raced, overtaken, acts>>
PreviewFails(a) ==
  /\ Act /\ asked' = asked \ {a}
  /\ preview' = [preview EXCEPT !.loading = FALSE, !.failed = TRUE]
  /\ UNCHANGED <<text, written, dirty, mounted, readOnly, view, poll, saves, job, window, server,
                 raced, overtaken>>

\* Closing cancels the preview and the poll, and saves nothing.
Closed(closes) ==
  /\ mounted' = (mounted /\ ~closes)
  /\ asked' = IF closes THEN {} ELSE asked
  /\ poll' = IF closes THEN None ELSE poll

-----------------------------------------------------------------------------
(* Drafts and the lock.                                                      *)

Save(auto) == saves' = saves \cup {[of |-> text, auto |-> auto, end |-> None]}

\* The page is hidden or the address changes: useAutosaveOnLeave.
Leave ==
  /\ mounted /\ Act /\ ~readOnly /\ dirty /\ text # 0
  /\ [of |-> text, auto |-> TRUE, end |-> None] \notin saves /\ Save(TRUE)
  /\ UNCHANGED <<screen, poll, job, window, server, raced, overtaken>>
SaveDraft ==
  /\ mounted /\ Act /\ ~readOnly /\ \A s \in saves : s.auto
  /\ Save(FALSE)
  /\ UNCHANGED <<screen, poll, job, window, server, raced, overtaken>>

ServeSave(s) ==
  /\ s.end = None
  /\ saves' = (saves \ {s}) \cup {[s EXCEPT !.end = IF holder = "other" THEN "refused" ELSE "done"]}
  /\ IF holder = "other" THEN UNCHANGED <<draft, holder, overtaken>>
     ELSE draft' = s.of /\ holder' = "me" /\ overtaken' = FALSE
  /\ UNCHANGED <<screen, poll, job, window, recorded, raced, acts>>

\* A save that is lost on the way, or whose answer is: best effort.
SaveFails(s) ==
  /\ s.end = None /\ Act /\ saves' = saves \ {s}
  /\ UNCHANGED <<screen, poll, job, window, server, raced, overtaken>>

\* Mutant: marked as saved whatever the server said.
SavedAnyway(s) ==
  /\ saves' = saves \ {s}
  /\ dirty' = (dirty /\ ~s.auto)

\* Only the save on leaving marks the text as saved, and only when it was.
Saved(s) ==
  /\ saves' = saves \ {s}
  /\ dirty' = (dirty /\ ~(s.auto /\ s.end = "done"))

AnswerSave(s) ==
  /\ s.end # None /\ Saved(s)
  /\ UNCHANGED <<text, written, mounted, readOnly, view, preview, asked, poll, job, window, server,
                 raced, overtaken, acts>>

\* Discard does not ask for the lock; the composer closes.
Discard ==
  /\ mounted /\ Act /\ ~readOnly
  /\ draft' = None /\ holder' = None /\ overtaken' = TRUE /\ Closed(TRUE)
  /\ UNCHANGED <<text, written, dirty, readOnly, view, preview, saves, job, window, recorded, raced>>

\* The other auditor saves, discards or sends; or a lock runs out.
Others ==
  /\ Act
  /\ \/ holder # "me" /\ draft' = None /\ holder' = "other"
     \/ draft' = None /\ holder' = None
     \/ holder # None /\ holder' = None /\ UNCHANGED draft
  /\ overtaken' = (overtaken \/ draft' # draft)
  /\ UNCHANGED <<screen, poll, saves, job, window, recorded, raced>>

\* compose-status, every thirty seconds.
Poll ==
  /\ mounted /\ poll = None /\ Act /\ poll' = [locked |-> None]
  /\ UNCHANGED <<screen, saves, job, window, server, raced, overtaken>>
ServePoll ==
  /\ poll # None /\ poll.locked = None /\ poll' = [locked |-> holder = "other"]
  /\ UNCHANGED <<screen, saves, job, window, server, raced, overtaken, acts>>
AnswerPoll ==
  /\ poll # None /\ poll.locked # None
  /\ readOnly' = poll.locked /\ poll' = None
  /\ UNCHANGED <<text, written, dirty, mounted, view, preview, asked, saves, job, window, server,
                 raced, overtaken, acts>>

-----------------------------------------------------------------------------
(* Windows: opened in the click, filled or closed by the answer.             *)

\* A blocked popup stops a send and a preview; a broadcast goes on without.
Press(k, opens) ==
  /\ Act /\ job[k] = None
  /\ k # "broadcast" => mounted /\ opens
  /\ k = "send" => ~readOnly
  /\ job' = [job EXCEPT ![k] = [of |-> text, end |-> None]]
  /\ window' = [window EXCEPT ![k] = [is |-> IF opens THEN "loading" ELSE "none", of |-> None]]
  /\ UNCHANGED <<screen, poll, saves, server, raced, overtaken>>

ServeJob(k) ==
  /\ job[k] # None /\ job[k].end = None
  /\ \E end \in CASE k = "send" -> {IF holder = "other" THEN "refused" ELSE "done"}
                 [] k = "popup" -> {"done"}
                 [] k = "broadcast" -> {"done", "nobody"} :
       /\ job' = [job EXCEPT ![k].end = end]
       /\ recorded' = IF end = "done" THEN [recorded EXCEPT ![k] = @ \cup {job[k].of}] ELSE recorded
       /\ IF k = "send" /\ end = "done"
          THEN draft' = None /\ holder' = None /\ overtaken' = TRUE
          ELSE UNCHANGED <<draft, holder, overtaken>>
  /\ UNCHANGED <<screen, poll, saves, window, raced, acts>>
\* Lost before the server, or a server that refuses for another reason.
JobFails(k) ==
  /\ job[k] # None /\ job[k].end = None /\ Act
  /\ job' = [job EXCEPT ![k].end = "refused"]
  /\ UNCHANGED <<screen, poll, saves, window, server, raced, overtaken>>

\* Mutant: the error path leaves the loading window.
SettleKeeps(k) ==
  window' = [window EXCEPT ![k] =
    IF @.is = "loading" /\ job[k].end = "done" THEN [is |-> "filled", of |-> job[k].of] ELSE @]

\* onSuccess and onError run whether or not the composer is still there.
Settle(k) ==
  window' = [window EXCEPT ![k] =
    IF @.is # "loading" THEN @
    ELSE IF job[k].end = "done" THEN [is |-> "filled", of |-> job[k].of]
    ELSE [is |-> "closed", of |-> None]]

\* An e-mail whose window was closed on the way stays in the composer.
AnswerJob(k) ==
  /\ job[k] # None /\ job[k].end # None
  /\ Settle(k) /\ job' = [job EXCEPT ![k] = None]
  /\ Closed(mounted /\ k = "send" /\ job[k].end = "done" /\ window[k].is # "closed")
  /\ UNCHANGED <<text, written, dirty, readOnly, view, preview, saves, server, raced, overtaken, acts>>

CloseWindow(k) ==
  /\ window[k].is \in {"loading", "filled"} /\ Act
  /\ window' = [window EXCEPT ![k] = [is |-> "closed", of |-> None]]
  /\ UNCHANGED <<screen, poll, saves, job, server, raced, overtaken>>

\* Opened again, the composer starts from the template, not from the draft.
ClosePane ==
  /\ mounted /\ Act /\ Closed(TRUE)
  /\ UNCHANGED <<text, written, dirty, readOnly, view, preview, saves, job, window, server, raced,
                 overtaken>>

-----------------------------------------------------------------------------
Init ==
  /\ text = 0 /\ written = 0 /\ dirty = TRUE /\ mounted = TRUE /\ readOnly = FALSE
  /\ view = "preview" /\ preview = [of |-> None, loading |-> TRUE, failed |-> FALSE]
  /\ asked = {0} /\ poll = [locked |-> None] /\ saves = {}
  /\ job = [k \in Kinds |-> None] /\ window = [k \in Kinds |-> [is |-> "none", of |-> None]]
  /\ draft = None /\ holder \in {None, "other"} /\ recorded = [k \in Kinds |-> {}]
  /\ raced = FALSE /\ overtaken = FALSE /\ acts = 0

Next ==
  \/ LoadTemplate \/ Edit \/ Empty \/ ToggleView \/ Leave \/ SaveDraft \/ Discard \/ Others
  \/ \E a \in asked : AnswerPreview(a) \/ PreviewFails(a)
  \/ \E s \in saves : ServeSave(s) \/ SaveFails(s) \/ AnswerSave(s)
  \/ Poll \/ ServePoll \/ AnswerPoll \/ ClosePane
  \/ \E k \in Kinds : \/ \E opens \in BOOLEAN : Press(k, opens)
                      \/ ServeJob(k) \/ JobFails(k) \/ AnswerJob(k) \/ CloseWindow(k)

Spec == Init /\ [][Next]_paneVars

-----------------------------------------------------------------------------
Texts == 0 .. MaxTexts
TypeOK ==
  /\ {text, written} \subseteq Texts /\ view \in {"preview", "edit"}
  /\ {dirty, mounted, readOnly, raced, overtaken} \subseteq BOOLEAN
  /\ preview \in [of : Texts \cup {None}, loading : BOOLEAN, failed : BOOLEAN]
  /\ asked \subseteq Texts
  /\ saves \subseteq [of : Texts, auto : BOOLEAN, end : Ends]
  /\ \A k \in Kinds : /\ job[k] = None \/ job[k] \in [of : Texts, end : Ends]
                      /\ window[k] \in [is : {"none", "loading", "filled", "closed"}, of : Texts \cup {None}]
  /\ draft \in Texts \cup {None} /\ holder \in {None, "me", "other"}
  /\ recorded \in [Kinds -> SUBSET Texts]

\* A preview that is not loading and has not failed is of the text in the
\* fields, in whatever order the answers came (Composer.tsx, the effect).
PreviewIsOfText ==
  mounted /\ view = "preview" /\ ~preview.loading /\ ~preview.failed => preview.of = text

\* What the composer takes as saved is the draft on the server, unless it was
\* edited during the save or someone changed the draft afterwards.
CleanIsSaved == ~dirty /\ ~raced /\ ~overtaken => draft = text

\* No window waits for an answer that has come, and one that shows a message
\* to be sent shows one the server has recorded.
WindowsFollowAnswers ==
  \A k \in Kinds : /\ window[k].is = "loading" => job[k] # None
                   /\ window[k].is = "filled" => window[k].of \in recorded[k]

ComposerKeepsItsWord == PreviewIsOfText /\ CleanIsSaved /\ WindowsFollowAnswers
=============================================================================
