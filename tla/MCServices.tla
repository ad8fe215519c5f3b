------------------------------ MODULE MCServices -------------------------------
(* What stands between the pages and the database, for TLC: the client that  *)
(* turns the services' calls into SQL, the AI pilot's rules, the chat's      *)
(* cache and its agent, and what an auditor's browser keeps: the list of     *)
(* processes, the workspace of a function with its runs and saved versions,  *)
(* the findings tab and the comparison of versions, the optimistic history   *)
(* of an entry, the Escalation Center and its composer, the dialog that      *)
(* authors rules and the documents of a function. They share no state, so a  *)
(* behaviour follows one of them, the focus, while the others rest.          *)
EXTENDS Naturals, Sequences, FiniteSets

CONSTANTS
  None,
  p1, p2, Visible,
  f1, f2, Opened, LookUps, MaxStarts, MaxCompleted, MaxVersions,
  Changes, Contacts, Comments,
  Desked, Touching, Dialogs, MaxChanges, MaxActs,
  Opening, MaxTexts, MaxSteps,
  Workbooks, MaxCompared,
  Requests, Sessions, Codes, Sigs,
  Functions, Questions, ComparedWith, Chats, Savers, MaxEntries, MaxSaves,
  Refs, Panes, Elsewhere, MaxDatasets, MaxIterations,
  Tabled, Owners, Mails, Dues, People, Asking, MaxVersion,
  MaxSandboxes, MaxRules, MaxAuthored, MaxOpens,
  Uploads, Reads, MaxFiles

VARIABLES
  focus,
  server, list, active, saved, fetch, op, news, twice, overtaken,
  openFile, result, latest, runKey, running, started, lookUp, done, numbered, modal, said,
  findings, selected, tabOpen, filters, sheet, search, settled, opened, link, target, touched,
  offered, picked, selectedId, fromId, toId, viewFilter,
  shown, change, held, overlap, listed, comment, posted,
  table, event, online, timer, rows, query, failed, unheard, filter, applied, ticked, cursor,
  panel, dialog, quick, composer, changes, acts,
  text, written, dirty, mounted, readOnly, view, preview, asked, poll, autosaves, sending, window,
  kept, holder, recorded, raced, changed, steps,
  upload, meta, samples, session, rule, saving, wanted,
  cache, versions, saves, chat, saver,
  completed, versioned, datasets, question, answers,
  entries, events, owners, ask,
  page, wizard, pending, enhancer, sandbox, minted, previewed, unsure, crossed,
  archive, made, spare, savedAt, job, given, shelf, top, openDoc, cached, banner, reading,
  restoring, doomed, scope, docActs, vague, lone, assumed

Pilot == INSTANCE AiRules WITH Slots <- Requests, stored <- samples
Chat == INSTANCE ChatCache WITH Compared <- ComparedWith
Agent == INSTANCE AnalyticsAgent WITH
  Registry <- <<f1>>, MaxRuns <- MaxCompleted,
  latest <- completed, saved <- versioned, chat <- question, pane <- answers
Client == INSTANCE DataClient WITH Rows <- Tabled
Author == INSTANCE SandboxModal
Store == INSTANCE WebProcessStore WITH Procs <- Visible
Workspace == INSTANCE WebAudit WITH
  Files <- Opened, MaxRuns <- MaxCompleted,
  shown <- openFile, runs <- started, versions <- numbered

\* Two findings that differ in everything, and the text that finds the second.
Flagged == {[key |-> "k1", project |-> "p1", sheet |-> "s1", severity |-> "High",
             rule |-> "r1", ai |-> FALSE],
            [key |-> "k2", project |-> "p2", sheet |-> "s2", severity |-> "Low",
             rule |-> "r2", ai |-> TRUE]}
Tab == INSTANCE FindingsTab WITH
  Findings <- Flagged, Texts <- {{f \in Flagged : f.ai}}, result <- findings, mounted <- tabOpen,
  filter <- filters

\* Findings of saved versions: with keys, and from the browser's own engine.
Finding(k, s, t) == [key |-> k, row |-> "1", status |-> s, text |-> t]
Samples == {<<>>,
            <<Finding("k1", "x", "a")>>,
            <<Finding("k1", "x", "b"), Finding("k2", "y", "a")>>,
            <<Finding(None, "x", "a"), Finding(None, "y", "a")>>}
Compare == INSTANCE VersionCompare WITH active <- picked
History == INSTANCE WebOptimistic WITH stored <- posted
Desk == INSTANCE EscalationDesk WITH
  Entries <- Desked, news <- event, list <- rows, fetch <- query
Pane == INSTANCE ComposerPane WITH
  Kinds <- Opening, MaxActs <- MaxSteps, saves <- autosaves, job <- sending, draft <- kept,
  overtaken <- changed, acts <- steps

\* A workbook of three sheets, the last the same as the first, and one with a
\* sheet that has no header.
Tabbed(lines, body) == [reference |-> FALSE, body |-> body, rows |-> lines, long |-> TRUE]
Plain == <<{}, {"projectNo", "effort"}>>
Dropped ==
  [u \in Uploads |->
     IF u = "w1" THEN <<Tabbed(Plain, 1), Tabbed(Plain, 2), Tabbed(Plain, 1)>>
     ELSE <<Tabbed(Plain, 3), Tabbed(<<{}>>, 4)>>]
Documents == INSTANCE WorkspaceFiles WITH
  Books <- Dropped, stored <- archive, draft <- spare, since <- savedAt, listed <- shelf,
  active <- openDoc, offered <- banner, read <- reading, call <- restoring, acts <- docActs,
  unsure <- vague

-----------------------------------------------------------------------------
(* What the constants are, part by part.                                     *)

\* None is neither a rule nor a state of an upload.
NoneIsNoRule == None \notin [sig : Sigs, status : Pilot!Statuses]
                /\ None \notin {"pending", "uploaded", "failed"}

Row(e) == [id : {e}, code : {Client!Code(e)}, process : Owners, key : Mails,
           due : Dues \cup {None}, resolved : BOOLEAN, version : 1..MaxVersion]

\* None, which stands for NULL, is no value; there are finitely many ids, and
\* due dates are numbers.
ClientNames ==
  /\ None \notin Tabled /\ None \notin {Client!Code(e) : e \in Tabled}
  /\ None \notin Owners \cup Mails \cup People /\ None \notin BOOLEAN
  /\ None \notin [archived : BOOLEAN, members : SUBSET People]
  /\ \A e \in Tabled : None \notin Row(e)
  /\ IsFiniteSet(Tabled) /\ Dues \subseteq Nat /\ None \notin Dues
  /\ MaxVersion \in Nat \ {0}

\* There is a round to answer in, and runs and datasets are counted.
AgentBounds == MaxIterations \in Nat \ {0} /\ MaxCompleted \in Nat /\ MaxDatasets \in Nat

\* The cache has room for an answer.
ChatBounds == MaxEntries \in Nat \ {0} /\ MaxSaves \in Nat

\* The processes of a user are finitely many.
VisibleFinite == IsFiniteSet(Visible)

\* One version can be saved, and no result is taken for none.
WorkspaceNames ==
  /\ MaxVersions \in Nat \ {0} /\ MaxStarts \in Nat /\ MaxCompleted \in Nat
  /\ None \notin Workspace!Results /\ None \notin 1 .. MaxStarts

Tables == [Desked -> Desk!Stages]

\* None is no query, and the link is to entries of the process.
DeskNames ==
  /\ Touching \subseteq Desked
  /\ \A answer \in Tables \cup {None} : [rows |-> answer] # None

Sendings == [of : Pane!Texts, end : Pane!Ends]

\* None is no request and no outcome, the template can be written, and nothing else
\* than these opens a window.
PaneNames ==
  /\ Opening \subseteq {"send", "popup", "broadcast"}
  /\ MaxTexts \in Nat \ {0}
  /\ None \notin {"done", "nobody", "refused"}
  /\ None \notin Sendings

Picking == [opens : 0 .. MaxOpens, session : 1 .. MaxSandboxes, sheet : {"A", "B"}]
Making == [opens : 0 .. MaxOpens, session : 1 .. MaxSandboxes]
Trying == [session : 1 .. MaxSandboxes, rule : Author!Rules]

\* The counts are numbers, and no number, sheet, rule or request is taken for none.
AuthorNames ==
  /\ MaxSandboxes \in Nat /\ MaxRules \in Nat /\ MaxOpens \in Nat
  /\ None \notin 1 .. MaxSandboxes /\ None \notin {"A", "B"}
  /\ None \notin Author!Rules /\ None \notin Picking \cup Making \cup Trying

\* There is room for a file, and no file is taken for none.
DocumentNames == MaxFiles \in Nat \ {0} /\ MaxActs \in Nat /\ None \notin 1 .. MaxFiles

ASSUME ConstantsAreApart ==
  /\ NoneIsNoRule /\ ClientNames /\ AgentBounds /\ ChatBounds /\ VisibleFinite
  /\ WorkspaceNames /\ DeskNames /\ PaneNames /\ AuthorNames /\ DocumentNames

-----------------------------------------------------------------------------

store == <<server, list, active, saved, fetch, op, news, twice, overtaken>>
workspace == <<openFile, result, latest, runKey, running, started, lookUp, done, numbered,
               modal, said>>
tab == <<findings, selected, tabOpen, filters, sheet, search, settled, opened, link, target, touched>>
compare == <<offered, picked, selectedId, fromId, toId, viewFilter>>
history == <<shown, change, held, overlap, listed, comment, posted>>
desk == <<table, event, online, timer, rows, query, failed, unheard, filter, applied, ticked,
          cursor, panel, dialog, quick, composer, changes, acts>>
pane == <<text, written, dirty, mounted, readOnly, view, preview, asked, poll, autosaves, sending,
          window, kept, holder, recorded, raced, changed, steps>>
documents == <<archive, made, spare, savedAt, job, given, shelf, top, openDoc, cached, banner,
               reading, restoring, doomed, scope, docActs, vague, lone, assumed>>
browser == <<store, workspace, tab, compare, history, desk, pane, documents>>
pilot == <<upload, meta, samples, session, rule, saving, wanted>>
analytics == <<cache, versions, saves, chat, saver>>
agent == <<completed, versioned, datasets, question, answers>>
client == <<entries, events, owners, ask>>
authoring == <<page, wizard, pending, enhancer, sandbox, minted, previewed, unsure, crossed>>

vars == <<focus, pilot, analytics, agent, client, authoring, browser>>

InBrowser == {"store", "workspace", "tab", "compare", "history", "desk", "pane", "documents"}

\* What rests starts in one state.
BrowserInit ==
  /\ Store!Init /\ Workspace!Init /\ Tab!Init /\ History!Init /\ Desk!Init /\ Pane!Init
  /\ Documents!Init
  /\ focus # "store" => list = <<>>
  /\ focus # "workspace" => openFile = f1
  /\ IF focus = "compare" THEN Compare!Init
     ELSE /\ offered = <<>> /\ picked = None /\ selectedId = None
          /\ fromId = None /\ toId = None /\ viewFilter = "all"
  /\ focus # "desk" => ~filter.project
  /\ focus # "pane" => holder = None
  /\ focus # "documents" => made = 0

Init ==
  /\ focus \in {"pilot", "analytics", "agent", "client", "author"} \cup InBrowser
  /\ Pilot!Init /\ Chat!Init /\ Agent!Init /\ Client!Init /\ Author!Init /\ BrowserInit
  /\ focus # "client" => owners[CHOOSE p \in Owners : TRUE].archived
  /\ page.fn = CHOOSE f \in Functions : TRUE

\* Nothing is claimed of the list after an older one has replaced it.
BrowserNext ==
  \/ /\ focus = "store" /\ ~overtaken /\ Store!Next
     /\ UNCHANGED <<workspace, tab, compare, history, desk, pane, documents>>
  \/ /\ focus = "workspace" /\ Workspace!Next
     /\ UNCHANGED <<store, tab, compare, history, desk, pane, documents>>
  \/ /\ focus = "tab" /\ Tab!Next
     /\ UNCHANGED <<store, workspace, compare, history, desk, pane, documents>>
  \/ /\ focus = "compare" /\ Compare!Next
     /\ UNCHANGED <<store, workspace, tab, history, desk, pane, documents>>
  \/ /\ focus = "history" /\ History!Next
     /\ UNCHANGED <<store, workspace, tab, compare, desk, pane, documents>>
  \/ /\ focus = "desk" /\ Desk!Next
     /\ UNCHANGED <<store, workspace, tab, compare, history, pane, documents>>
  \/ /\ focus = "pane" /\ Pane!Next
     /\ UNCHANGED <<store, workspace, tab, compare, history, desk, documents>>
  \/ /\ focus = "documents" /\ Documents!Next
     /\ UNCHANGED <<store, workspace, tab, compare, history, desk, pane>>

Next ==
  /\ UNCHANGED focus
  /\ \/ /\ focus = "pilot" /\ Pilot!Next
        /\ UNCHANGED <<analytics, agent, client, authoring, browser>>
     \/ /\ focus = "analytics" /\ Chat!Next
        /\ UNCHANGED <<pilot, agent, client, authoring, browser>>
     \/ /\ focus = "agent" /\ Agent!Next
        /\ UNCHANGED <<pilot, analytics, client, authoring, browser>>
     \/ /\ focus = "client" /\ Client!Next
        /\ UNCHANGED <<pilot, analytics, agent, authoring, browser>>
     \/ /\ focus = "author" /\ Author!Next /\ Len(sandbox') + minted' <= MaxAuthored
        /\ UNCHANGED <<pilot, analytics, agent, client, browser>>
     \/ BrowserNext /\ UNCHANGED <<pilot, analytics, agent, client, authoring>>

Spec == Init /\ [][Next]_vars

TypeOK ==
  CASE focus = "pilot" -> Pilot!TypeOK
    [] focus = "analytics" -> Chat!TypeOK
    [] focus = "agent" -> Agent!TypeOK
    [] focus = "client" -> Client!TypeOK
    [] focus = "author" -> Author!TypeOK
    [] focus = "store" -> Store!TypeOK
    [] focus = "workspace" -> Workspace!TypeOK
    [] focus = "tab" -> Tab!TypeOK
    [] focus = "compare" -> Compare!TypeOK
    [] focus = "history" -> History!TypeOK
    [] focus = "desk" -> Desk!TypeOK
    [] focus = "pane" -> Pane!TypeOK
    [] focus = "documents" -> Documents!TypeOK

PilotIsConsistent == focus = "pilot" => Pilot!PilotIsConsistent
ClientKeepsItsWord == focus = "client" => Client!ClientKeepsItsWord

\* Neither the cache of answers nor the sidecar's datasets answer a question
\* from rows of another version, process or function, and what each page
\* shows agrees with what it was told and with itself.
ShownIsTrue ==
  /\ focus = "analytics" => Chat!CacheFollowsVersions
  /\ focus = "agent" => Agent!AgentKeepsApart
  /\ focus = "store" => Store!ListIsConsistent
  /\ focus = "workspace" => Workspace!RunsAndVersionsInTurn
  /\ focus = "tab" => Tab!FindingsAreFound
  /\ focus = "compare" => Compare!VersionsCompare
  /\ focus = "history" => History!ShownIsHeld
  /\ focus = "desk" => Desk!QuietListIsCurrent /\ Desk!CursorIsShown
  /\ focus = "pane" => Pane!ComposerKeepsItsWord
  /\ focus = "author" => Author!WizardKeepsItsWord
  /\ focus = "documents" => Documents!DocumentsAreTrue

\* Together: the steps that take a list, a result, a version or a tick away are
\* those that may.
BrowserFollowsServer ==
  /\ [][focus = "desk" => Desk!RowsLeaveTicks]_desk
  /\ Store!LocalDataKept /\ Workspace!OvertakenRunsAreDropped /\ Workspace!DuplicatesAreConfirmed
=============================================================================
