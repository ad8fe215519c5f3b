------------------------------ MODULE SandboxModal ------------------------------
(***************************************************************************)
(* The dialog in which an admin authors a rule with the AI pilot: a sample *)
(* is uploaded into a sandbox session, a sheet picked, the rule described, *)
(* generated, reviewed, previewed on the sample and saved.                 *)
(*                                                                         *)
(* The dialog stays mounted while it is closed, so the answers of its      *)
(* requests arrive whatever has become of it, and write to the store of    *)
(* whoever has it open then. A request is one step of the server here; how *)
(* saves race each other there is the subject of AiRules.                  *)
(***************************************************************************)
EXTENDS Naturals, Sequences

CONSTANTS
  None,
  Functions,     \* functions of the audit
  MaxSandboxes,  \* bound: uploads that succeed
  MaxRules,      \* bound: rules generated or edited
  MaxOpens       \* bound: how often the dialog is opened

VARIABLES
  page,      \* of the shell: [open, fn, opens]
  wizard,    \* the store, but for what is persisted
  pending,   \* kind -> the request in flight, with what it was started from, or None
  enhancer,  \* the popover of step 3: [open, asking, offers, of]
  sandbox,   \* the sessions of the server
  minted,    \* rules generated or edited so far
  previewed, \* <<session, rule>> the server has run on the sample
  unsure,    \* rules that were on screen when the preview of another one came back
  crossed    \* an answer came back to a dialog opened later, or to another rule

authoring == <<page, wizard, pending, enhancer, sandbox, minted, previewed, unsure, crossed>>

Kinds == {"upload", "sheet", "generate", "preview", "lite", "save"}
SampleSheets == {<<"A">>, <<"A", "B">>}

\* ok: it passes validateSpec, which an edit may undo.
Rules == [n : 1 .. MaxRules, fn : Functions, ok : BOOLEAN]
Runs == (1 .. MaxSandboxes) \X Rules
Failed == <<>>

Blank == [session |-> None, sheets |-> <<>>, sheet |-> None, described |-> FALSE, rule |-> None,
          preview |-> None, lite |-> None, step |-> 1]
Fresh == [open |-> FALSE, asking |-> FALSE, offers |-> FALSE, of |-> None]

Init ==
  /\ page \in [open : {FALSE}, fn : Functions, opens : {0}]
  /\ wizard = Blank /\ pending = [k \in Kinds |-> None] /\ enhancer = Fresh
  /\ sandbox = <<>> /\ minted = 0 /\ previewed = {} /\ unsure = {} /\ crossed = FALSE

-----------------------------------------------------------------------------
(* The dialog and its store.                                                 *)

\* The popover goes with its step, and with it the answer it waits for.
Show(w) ==
  /\ wizard' = w
  /\ enhancer' = IF page.open /\ w.step = 3 THEN enhancer ELSE Fresh

At(step) == page.open /\ wizard.step = step
Reviewing == At(5) /\ wizard.rule # None
Previewing == At(6) /\ wizard.preview # None /\ wizard.rule # None

Send(kind, request) ==
  pending[kind] = None /\ pending' = [pending EXCEPT ![kind] = request]
Settled(kind) == pending' = [pending EXCEPT ![kind] = None]
Outdated(c) == c.opens # page.opens

\* The shell: its page shows another function.
Browse(f) ==
  /\ ~page.open /\ f # page.fn /\ page' = [page EXCEPT !.fn = f]
  /\ UNCHANGED <<wizard, pending, enhancer, sandbox, minted, previewed, unsure, crossed>>

Open ==
  /\ ~page.open /\ page.opens < MaxOpens
  /\ page' = [page EXCEPT !.open = TRUE, !.opens = @ + 1]
  /\ wizard' = Blank /\ enhancer' = Fresh /\ crossed' = FALSE
  /\ UNCHANGED <<pending, sandbox, minted, previewed, unsure>>

Shut == page' = [page EXCEPT !.open = FALSE] /\ wizard' = Blank /\ enhancer' = Fresh

\* A click beside the dialog.
Close == page.open /\ Shut /\ UNCHANGED <<pending, sandbox, minted, previewed, unsure, crossed>>

-----------------------------------------------------------------------------
(* What the server says of a rule in a session. It refuses every request of  *)
(* a session that has expired, which is one way for a request to fail.       *)

Accepts(i, r) == r.ok /\ r.fn = sandbox[i].fn

-----------------------------------------------------------------------------
(* Steps 1 and 2: the sample and its sheet.                                  *)

Upload ==
  /\ At(1) /\ Send("upload", [opens |-> page.opens, fn |-> page.fn])
  /\ UNCHANGED <<page, wizard, enhancer, sandbox, minted, previewed, unsure, crossed>>

\* The first sheet is shown as selected; the server is told of one only by a pick.
UploadAnswer(sheets) ==
  LET c == pending["upload"] IN
  /\ c # None /\ Settled("upload") /\ Len(sandbox) < MaxSandboxes
  /\ sandbox' = Append(sandbox, [fn |-> c.fn, sheet |-> None])
  /\ Show([wizard EXCEPT !.session = Len(sandbox) + 1, !.sheets = sheets, !.sheet = sheets[1],
                         !.step = IF Len(sheets) > 1 THEN 2 ELSE 3])
  /\ crossed' = (crossed \/ Outdated(c))
  /\ UNCHANGED <<page, minted, previewed, unsure>>

\* The choice is in the request.
PickSheet(s) ==
  /\ At(2) /\ wizard.session # None
  /\ \E n \in DOMAIN wizard.sheets : wizard.sheets[n] = s
  /\ Send("sheet", [opens |-> page.opens, session |-> wizard.session, sheet |-> s])
  /\ UNCHANGED <<page, wizard, enhancer, sandbox, minted, previewed, unsure, crossed>>

SheetAnswer ==
  LET c == pending["sheet"] IN
  /\ c # None /\ Settled("sheet")
  /\ sandbox' = [sandbox EXCEPT ![c.session].sheet = c.sheet]
  /\ Show([wizard EXCEPT !.sheet = c.sheet, !.step = 3])
  /\ crossed' = (crossed \/ Outdated(c))
  /\ UNCHANGED <<page, minted, previewed, unsure>>

\* The server has taken the choice, but its answer is lost.
SheetAnswerLost ==
  LET c == pending["sheet"] IN
  /\ c # None /\ Settled("sheet")
  /\ sandbox' = [sandbox EXCEPT ![c.session].sheet = c.sheet]
  /\ UNCHANGED <<page, wizard, enhancer, minted, previewed, unsure, crossed>>

-----------------------------------------------------------------------------
(* Step 3: the description, with examples and an enhancer.                   *)

Describe ==
  /\ At(3) /\ wizard' = [wizard EXCEPT !.described = TRUE]
  /\ UNCHANGED <<page, pending, enhancer, sandbox, minted, previewed, unsure, crossed>>

Shown == <<wizard.session, wizard.sheet>>
Ready == wizard.session # None /\ wizard.described
         /\ \E n \in DOMAIN wizard.sheets : wizard.sheets[n] = wizard.sheet

\* An earlier suggestion is shown again, whatever the description has become.
OpenEnhancer ==
  /\ At(3) /\ Ready /\ pending["generate"] = None
  /\ enhancer' = [enhancer EXCEPT !.open = TRUE, !.asking = @ \/ ~enhancer.offers,
                                  !.of = IF enhancer.offers THEN @ ELSE Shown]
  /\ UNCHANGED <<page, wizard, pending, sandbox, minted, previewed, unsure, crossed>>

TryAgain ==
  /\ At(3) /\ enhancer.open /\ ~enhancer.asking /\ wizard.session # None
  /\ enhancer' = [enhancer EXCEPT !.asking = TRUE, !.of = Shown]
  /\ UNCHANGED <<page, wizard, pending, sandbox, minted, previewed, unsure, crossed>>

EnhancerAnswer ==
  /\ enhancer.asking
  /\ enhancer' \in {[enhancer EXCEPT !.asking = FALSE],
                    [enhancer EXCEPT !.asking = FALSE, !.offers = TRUE]}
  /\ UNCHANGED <<page, wizard, pending, sandbox, minted, previewed, unsure, crossed>>

\* "Use this" or "Keep mine": there is a description either way.
LeaveEnhancer ==
  /\ enhancer.open /\ enhancer' = [enhancer EXCEPT !.open = FALSE]
  /\ UNCHANGED <<page, wizard, pending, sandbox, minted, previewed, unsure, crossed>>

Generate ==
  /\ At(3) /\ wizard.session # None /\ wizard.described
  /\ Send("generate", [opens |-> page.opens, session |-> wizard.session])
  /\ UNCHANGED <<page, wizard, enhancer, sandbox, minted, previewed, unsure, crossed>>

GenerateAnswer ==
  LET c == pending["generate"] IN
  /\ c # None /\ minted < MaxRules /\ Settled("generate")
  /\ minted' = minted + 1
  /\ Show([wizard EXCEPT !.preview = None, !.step = 5,
             !.rule = [n |-> minted + 1, fn |-> sandbox[c.session].fn, ok |-> TRUE]])
  /\ crossed' = (crossed \/ Outdated(c))
  /\ UNCHANGED <<page, sandbox, previewed, unsure>>

-----------------------------------------------------------------------------
(* Steps 5 and 6: the rule, its preview, and the save.                       *)

\* The words of a failure stay.
LiteAfterEdit == IF wizard.lite = Failed THEN Failed ELSE None

\* Mutant: an edit that forgets to clear the preview.
EditKeepsPreview(ok) ==
  /\ Reviewing /\ minted < MaxRules /\ minted' = minted + 1
  /\ wizard' = [wizard EXCEPT !.rule = [@ EXCEPT !.n = minted + 1, !.ok = ok],
                              !.lite = LiteAfterEdit]
  /\ UNCHANGED <<page, pending, enhancer, sandbox, previewed, unsure, crossed>>

\* The fields are not locked while a preview is on its way.
Edit(ok) ==
  /\ Reviewing /\ minted < MaxRules /\ minted' = minted + 1
  /\ wizard' = [wizard EXCEPT !.rule = [@ EXCEPT !.n = minted + 1, !.ok = ok],
                              !.preview = None, !.lite = LiteAfterEdit]
  /\ UNCHANGED <<page, pending, enhancer, sandbox, previewed, unsure, crossed>>

\* "Refine prompt" and "Edit rule".
Back ==
  /\ Reviewing \/ Previewing
  /\ Show([wizard EXCEPT !.step = IF Reviewing THEN 3 ELSE 5])
  /\ UNCHANGED <<page, pending, sandbox, minted, previewed, unsure, crossed>>

OnScreen == [session |-> wizard.session, rule |-> wizard.rule]

Preview ==
  /\ Reviewing /\ wizard.session # None /\ pending["lite"] = None /\ Send("preview", OnScreen)
  /\ UNCHANGED <<page, wizard, enhancer, sandbox, minted, previewed, unsure, crossed>>

Other(c) == c # OnScreen

\* The request for the escalations follows, with what the first one was sent.
PreviewAnswer ==
  LET c == pending["preview"] IN
  /\ c # None /\ Accepts(c.session, c.rule)
  /\ pending' = [pending EXCEPT !["preview"] = None, !["lite"] = c]
  /\ previewed' = previewed \cup {<<c.session, c.rule>>}
  /\ wizard' = [wizard EXCEPT !.preview = <<c.session, c.rule>>]
  /\ unsure' = IF Other(c) THEN unsure \cup ({wizard.rule} \ {None}) ELSE unsure
  /\ crossed' = (crossed \/ Other(c))
  /\ UNCHANGED <<page, enhancer, sandbox, minted>>

\* A failure is shown in place of the escalations, and stops nothing.
LiteAnswer ==
  LET c == pending["lite"] IN
  /\ c # None /\ Settled("lite")
  /\ \E lite \in {Failed} \cup (IF Accepts(c.session, c.rule) THEN {<<c.session, c.rule>>} ELSE {}) :
       Show([wizard EXCEPT !.lite = lite, !.step = 6])
  /\ crossed' = (crossed \/ Other(c))
  /\ UNCHANGED <<page, sandbox, minted, previewed, unsure>>

Save ==
  /\ Previewing /\ wizard.session # None /\ Send("save", OnScreen)
  /\ UNCHANGED <<page, wizard, enhancer, sandbox, minted, previewed, unsure, crossed>>

\* The dialog closes, also when it is another one by now.
SaveAnswer ==
  LET c == pending["save"] IN
  /\ c # None /\ Accepts(c.session, c.rule) /\ Settled("save") /\ Shut
  /\ UNCHANGED <<sandbox, minted, previewed, unsure, crossed>>

\* Refused, unreachable, or an answer of the generator that is no rule.
Fails(kind) ==
  /\ kind # "lite" /\ pending[kind] # None /\ Settled(kind)
  /\ UNCHANGED <<page, wizard, enhancer, sandbox, minted, previewed, unsure, crossed>>

Next ==
  \/ \E f \in Functions : Browse(f)
  \/ Open \/ Close \/ Upload \/ Describe \/ OpenEnhancer \/ TryAgain \/ EnhancerAnswer
  \/ Generate \/ GenerateAnswer \/ Back \/ Preview \/ PreviewAnswer \/ LiteAnswer
  \/ Save \/ SaveAnswer \/ SheetAnswer \/ SheetAnswerLost
  \/ \E sheets \in SampleSheets : UploadAnswer(sheets)
  \/ \E s \in {"A", "B"} : PickSheet(s)
  \/ LeaveEnhancer \/ \E b \in BOOLEAN : Edit(b)
  \/ \E k \in Kinds : Fails(k)

-----------------------------------------------------------------------------
TypeOK ==
  /\ page \in [open : BOOLEAN, fn : Functions, opens : 0 .. MaxOpens]
  /\ wizard.session \in DOMAIN sandbox \cup {None} /\ wizard.sheets \in SampleSheets \cup {<<>>}
  /\ wizard.sheet \in {"A", "B", None} /\ wizard.described \in BOOLEAN
  /\ wizard.rule \in Rules \cup {None} /\ wizard.preview \in Runs \cup {None}
  /\ wizard.lite \in Runs \cup {None, Failed} /\ wizard.step \in {1, 2, 3, 5, 6}
  /\ DOMAIN pending = Kinds
  /\ enhancer \in [open : BOOLEAN, asking : BOOLEAN, offers : BOOLEAN,
                   of : ((1 .. MaxSandboxes) \X {"A", "B"}) \cup {None}]
  /\ Len(sandbox) <= MaxSandboxes /\ minted \in 0 .. MaxRules
  /\ previewed \subseteq Runs /\ unsure \subseteq Rules /\ crossed \in BOOLEAN

\* "Editing forces a re-preview" (SandboxModal.tsx:432): what is sent to be
\* saved has been run on the sample of its session, but for a rule that was
\* being edited when the preview of another one came back.
SavedAsPreviewed ==
  LET c == pending["save"] IN
  c # None => <<c.session, c.rule>> \in previewed \/ c.rule \in unsure

\* No step is empty: it has the session, the rule and the results it is about,
\* all of one rule, unless an answer came back too late.
StepsHaveTheirPart ==
  page.open /\ ~crossed =>
    /\ wizard.step > 1 => wizard.session # None
    /\ wizard.step > 3 => wizard.rule # None
    /\ wizard.step = 6 =>
         /\ wizard.preview = <<wizard.session, wizard.rule>>
         /\ wizard.lite \in {Failed, wizard.preview}

\* The sheet shown is the one the server runs the rule on, and a suggestion
\* is about its columns.
SheetIsTheServers ==
  page.open /\ ~crossed /\ wizard.step >= 3 =>
    /\ LET picked == sandbox[wizard.session].sheet
       IN  picked = wizard.sheet \/ (picked = None /\ wizard.sheets = <<wizard.sheet>>)
    /\ enhancer.of \in {None, Shown}

WizardKeepsItsWord == SavedAsPreviewed /\ StepsHaveTheirPart /\ SheetIsTheServers
=============================================================================
