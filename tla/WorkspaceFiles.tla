---------------------------- MODULE WorkspaceFiles ----------------------------
(* The documents of one function in the workspace of one browser: the        *)
(* workbooks dropped on the sidebar, each first kept as a draft and then     *)
(* uploaded, the readings of the list, the deletions nobody waits for, the   *)
(* draft that can be restored or discarded, and the ticks of the sheets. A   *)
(* workbook is known by its upload, a file by the number the server gave it, *)
(* a sheet by its place. Requests are served and answered in any order; of   *)
(* the banner's two, one at a time.                                          *)
EXTENDS Naturals, Sequences, FiniteSets

CONSTANTS
  None,
  Uploads,   \* the workbooks this user drops, each once
  Books,     \* [Uploads -> the sheets of the workbook]
  Reads,     \* readings of the list, each made at most once
  MaxFiles,  \* bound on files the server creates
  MaxActs    \* bound on what the users do

VARIABLES
  stored,   \* on the server, the workbook each file holds
  made,     \* how many files were ever created there
  draft,    \* the workbook of the user's draft there, None without one
  since,    \* per upload, how many files there were when its draft was saved
  job,      \* per upload, how far it is
  given,    \* per upload, the file the server made of it, 0 before
  listed,   \* the files in the store, each with its rows and its ticks
  top,      \* the first of them, None without one
  active,   \* activeFileId
  cached,   \* per file, the workbook whose rows are in the browser's database
  offered,  \* the workbook of the draft the store knows of (fileDrafts)
  read,     \* per reading, how far it is
  call,     \* the restoring or discarding of the draft that is under way
  doomed,   \* files whose deletion has been asked for
  scope,    \* what the list of sheets is set to: "all" or "selected"
  acts,     \* how often the users did something
  unsure,   \* files of which the list may be wrong: something overlapped or failed
  lone,     \* uploads whose draft nothing has interfered with
  assumed   \* "all" is shown of a file it was not chosen for

server == <<stored, made, draft, since>>
sheets == <<scope, assumed>>
vars == <<server, job, given, listed, top, active, cached, offered, read, call, doomed,
          sheets, unsure, lone, acts>>

Ids == 1..MaxFiles
NoFiles == [f \in {} |-> None]

-----------------------------------------------------------------------------
(* What a workbook offers to an audit. A row is given by the columns its     *)
(* cells are names of.                                                       *)

Profiles ==
  {[required |-> {"projectNo"},
    weighted |-> {"projectNo", "projectManager", "projectState", "effort"}],
   [required |-> {"projectNo", "projectName", "country", "probability"},
    weighted |-> {"projectNo", "projectName", "country", "probability", "category",
                  "businessUnit"}]}

ProfileScore(p, columns) ==
  Cardinality(p.weighted \cap columns) + 2 * Cardinality(p.required \cap columns)

Score(columns) ==
  LET best == CHOOSE p \in Profiles :
                \A q \in Profiles : ProfileScore(q, columns) <= ProfileScore(p, columns)
  IN  Cardinality(columns) + ProfileScore(best, columns)

\* detectHeader: the first row of the highest score, if it fits a profile.
HasHeader(rows) ==
  \E i \in DOMAIN rows :
    /\ \A j \in DOMAIN rows : Score(rows[j]) <= Score(rows[i])
    /\ \A j \in 1..(i - 1) : Score(rows[j]) < Score(rows[i])
    /\ \E p \in Profiles : Score(rows[i]) >= 4 /\ p.required \subseteq rows[i]

\* detectWorkbookSheets: neither a reference tab, nor the content of an earlier
\* sheet again, nor too short or without a header.
Valid(u) ==
  {i \in DOMAIN Books[u] :
     /\ ~Books[u][i].reference
     /\ \A j \in 1..(i - 1) : Books[u][j].body # Books[u][i].body
     /\ Books[u][i].long /\ HasHeader(Books[u][i].rows)}

-----------------------------------------------------------------------------
Listed == [of : Uploads, picked : SUBSET Nat, copies : Nat]
Unread == [pc |-> "idle", files |-> None, draft |-> None, looked |-> FALSE,
           during |-> {}, after |-> FALSE]
NoCall == [op |-> "none", pc |-> "none"]

TypeOK ==
  /\ made \in 0..MaxFiles /\ DOMAIN stored \subseteq 1..made
  /\ \A f \in DOMAIN stored : stored[f] \in Uploads
  /\ draft \in Uploads \cup {None} /\ offered \in Uploads \cup {None}
  /\ since \in [Uploads -> 0..MaxFiles]
  /\ job \in [Uploads -> {"idle", "saving", "kept", "sent", "stored", "done", "failed"}]
  /\ given \in [Uploads -> 0..MaxFiles]
  /\ DOMAIN listed \subseteq 1..made /\ \A f \in DOMAIN listed : listed[f] \in Listed
  /\ top \in Ids \cup {None} /\ active \in Ids \cup {None}
  /\ cached \in [Ids -> Uploads \cup {None}]
  /\ \A r \in Reads :
       /\ read[r].pc \in {"idle", "asked", "over"} /\ read[r].looked \in BOOLEAN
       /\ read[r].draft \in Uploads \cup {None} /\ read[r].during \subseteq Ids
       /\ read[r].files # None =>
            DOMAIN read[r].files \subseteq 1..made
            /\ \A f \in DOMAIN read[r].files : read[r].files[f] \in Uploads
       /\ read[r].after \in BOOLEAN
  /\ call \in [op : {"none", "restore", "discard"}, pc : {"none", "sent", "served"}]
  /\ doomed \subseteq 1..made /\ scope \in {"all", "selected"} /\ acts \in 0..MaxActs
  /\ unsure \subseteq 1..made /\ lone \subseteq Uploads /\ assumed \in BOOLEAN

\* Another user's file is there.
Init ==
  /\ made \in {0, 1} /\ stored \in [1..made -> Uploads]
  /\ draft = None /\ offered = None /\ since = [u \in Uploads |-> 0]
  /\ job = [u \in Uploads |-> "idle"] /\ given = [u \in Uploads |-> 0]
  /\ listed = NoFiles /\ top = None /\ active = None /\ cached = [f \in Ids |-> None]
  /\ read = [r \in Reads |-> Unread] /\ call = NoCall /\ doomed = {}
  /\ scope = "all" /\ acts = 0 /\ assumed = FALSE
  /\ unsure = 1..made /\ lone = {}

Reading == {r \in Reads : read[r].pc = "asked"}

\* Readings under way when something happens to a file.
Touched(f) ==
  [r \in Reads |-> IF r \in Reading THEN [read[r] EXCEPT !.during = @ \cup {f}] ELSE read[r]]

\* The file whose sheets are shown: the active one, else the first.
ShownOf(files, first, act) == IF act \in DOMAIN files THEN act ELSE first
Shown == ShownOf(listed, top, active)

\* The list of sheets goes away with the last file, and comes back as it began.
SheetsFollow ==
  /\ scope' = IF DOMAIN listed' = {} THEN "all" ELSE scope
  /\ assumed' = (scope' = "all" /\ Shown' # None
                   /\ (assumed \/ (Shown' # Shown /\ Shown # None)))

-----------------------------------------------------------------------------
(* Uploads.                                                                  *)

UnderWay(u) == job[u] \in {"saving", "kept", "sent", "stored"}

\* A workbook is dropped: saveFileDraft comes first.
Drop(u) ==
  /\ job[u] = "idle" /\ job' = [job EXCEPT ![u] = "saving"]
  /\ lone' = IF Reading = {} /\ call = NoCall /\ ~\E v \in Uploads : UnderWay(v)
             THEN {u} ELSE {}
  /\ UNCHANGED <<server, given, listed, top, active, cached, offered, read, call, doomed,
                 sheets, unsure>>

KeepDraft(u) ==
  /\ job[u] = "saving" /\ job' = [job EXCEPT ![u] = "kept"]
  /\ draft' = u /\ since' = [since EXCEPT ![u] = made]
  /\ UNCHANGED <<stored, made, given, listed, top, active, cached, offered, read, call,
                 doomed, sheets, unsure, lone>>

\* The draft is answered for, and the upload sent.
Send(u) ==
  /\ job[u] = "kept" /\ job' = [job EXCEPT ![u] = "sent"] /\ offered' = u
  /\ UNCHANGED <<server, given, listed, top, active, cached, read, call, doomed, sheets,
                 unsure, lone>>

\* The draft could not be saved: the upload is sent all the same.
SendOnly(u) ==
  /\ job[u] = "saving" /\ job' = [job EXCEPT ![u] = "sent"] /\ lone' = {}
  /\ UNCHANGED <<server, given, listed, top, active, cached, offered, read, call, doomed,
                 sheets, unsure>>

\* The server has one more file, of this workbook.
Create(u) ==
  /\ made < MaxFiles /\ made' = made + 1
  /\ stored' = [f \in DOMAIN stored \cup {made'} |-> IF f = made' THEN u ELSE stored[f]]

\* FilesService.upload, which ends the user's draft, whichever it is.
Store(u) ==
  /\ job[u] = "sent" /\ job' = [job EXCEPT ![u] = "stored"]
  /\ Create(u) /\ given' = [given EXCEPT ![u] = made'] /\ draft' = None
  /\ read' = Touched(made')
  /\ UNCHANGED <<since, listed, top, active, cached, offered, call, doomed, sheets,
                 unsure, lone>>

\* Another user's upload.
OthersUpload(u) ==
  /\ Create(u) /\ read' = Touched(made') /\ unsure' = unsure \cup {made'}
  /\ UNCHANGED <<draft, since, job, given, listed, top, active, cached, offered, call, doomed,
                 sheets, lone>>

OfferAfterUpload == None

\* The answer of an upload appends the file, though a reading may have listed
\* it already, and drops what is known of a draft.
Show(u) ==
  LET f == given[u] IN
  /\ job[u] = "stored" /\ job' = [job EXCEPT ![u] = "done"]
  /\ listed' = [g \in DOMAIN listed \cup {f} |->
       IF g # f THEN listed[g]
       ELSE IF f \in DOMAIN listed THEN [listed[f] EXCEPT !.copies = @ + 1]
       ELSE [of |-> u, picked |-> Valid(u), copies |-> 1]]
  /\ top' = IF DOMAIN listed = {} THEN f ELSE top
  /\ active' = IF active = None THEN f ELSE active
  /\ cached' = [cached EXCEPT ![f] = u] /\ offered' = OfferAfterUpload
  /\ read' = Touched(f) /\ SheetsFollow
  /\ UNCHANGED <<server, given, call, doomed, unsure, lone>>

\* The upload fails, or its answer is lost.
Fail(u) ==
  /\ job[u] \in {"sent", "stored"} /\ job' = [job EXCEPT ![u] = "failed"]
  /\ unsure' = IF job[u] = "stored" THEN unsure \cup {given[u]} ELSE unsure
  /\ UNCHANGED <<server, given, listed, top, active, cached, offered, read, call, doomed,
                 sheets, lone>>

-----------------------------------------------------------------------------
(* Readings: hydrateFunctionWorkspace asks for the list and for the draft.   *)

Ask(r) ==
  /\ read[r].pc = "idle" /\ read' = [read EXCEPT ![r].pc = "asked"]
  /\ UNCHANGED <<server, job, given, listed, top, active, cached, offered, call, doomed,
                 sheets, unsure, lone>>

TakeList(r) ==
  /\ read[r].pc = "asked" /\ read[r].files = None
  /\ read' = [read EXCEPT ![r].files = stored]
  /\ UNCHANGED <<server, job, given, listed, top, active, cached, offered, call, doomed,
                 sheets, unsure, lone>>

\* A draft that cannot be looked up counts as none.
TakeDraft(r) ==
  /\ read[r].pc = "asked" /\ ~read[r].looked
  /\ \/ /\ read' = [read EXCEPT ![r].looked = TRUE, ![r].draft = draft]
        /\ lone' = lone \cap {draft}
     \/ read' = [read EXCEPT ![r].looked = TRUE] /\ lone' = {}
  /\ UNCHANGED <<server, job, given, listed, top, active, cached, offered, call, doomed,
                 sheets, unsure>>

ReadFails(r) ==
  /\ read[r].pc = "asked" /\ read[r].files = None
  /\ read' = [read EXCEPT ![r].pc = "over"]
  /\ call' = IF read[r].after THEN NoCall ELSE call
  /\ UNCHANGED <<server, job, given, listed, top, active, cached, offered, doomed, sheets,
                 unsure, lone>>

\* Mutant: every sheet the server lists is ticked.
MappedAllPicked(f, u) ==
  [of |-> IF cached[f] # None THEN cached[f] ELSE u, picked |-> DOMAIN Books[u], copies |-> 1]

\* mapApiFileToWorkbookFile: the rows are those kept in this browser, and a
\* sheet keeps the tick the server's sheet of that name has, which is never
\* changed there.
Mapped(f, u) ==
  LET mine == IF cached[f] # None THEN cached[f] ELSE u IN
  [of |-> mine, picked |-> Valid(mine) \ (DOMAIN Books[u] \ Valid(u)), copies |-> 1]

\* Files that something happened to since the reading began, or is happening to.
Answered == {given[u] : u \in {v \in Uploads : job[v] = "stored"}}
Unsettled(r) == read[r].during \cup doomed \cup Answered

\* The answers replace the files of the function and the draft on offer.
Apply(r) ==
  LET files == read[r].files
      newest == CHOOSE f \in DOMAIN files : \A g \in DOMAIN files : g <= f
  IN
  /\ read[r].pc = "asked" /\ files # None /\ read[r].looked
  /\ read' = [read EXCEPT ![r].pc = "over"]
  /\ listed' = [f \in DOMAIN files |-> Mapped(f, files[f])]
  /\ top' = IF DOMAIN files = {} THEN None ELSE newest
  /\ active' = IF active \in DOMAIN files \/ DOMAIN files = {} THEN active ELSE newest
  /\ offered' = IF read[r].after THEN None ELSE read[r].draft
  /\ call' = IF read[r].after THEN NoCall ELSE call
  /\ unsure' = Unsettled(r)
  /\ scope' = IF DOMAIN files = {} THEN "all" ELSE scope
  /\ assumed' = (scope' = "all" /\ Shown' # None /\ listed'[Shown'].of # files[Shown'])
  /\ UNCHANGED <<server, job, given, cached, doomed, lone>>

-----------------------------------------------------------------------------
(* The documents.                                                            *)

\* setActiveFile.
Open(f) ==
  /\ f \in DOMAIN listed /\ active' = f
  /\ UNCHANGED <<server, job, given, listed, top, cached, offered, read, call, doomed,
                 unsure, lone>>
  /\ SheetsFollow

\* deleteFile, confirmed: the file goes at once, with its rows.
Delete(f) ==
  LET rest == DOMAIN listed \ {f} IN
  /\ f \in DOMAIN listed /\ f \notin doomed /\ doomed' = doomed \cup {f}
  /\ listed' = [g \in rest |-> listed[g]]
  /\ IF rest = {} THEN top' = None
     ELSE IF f = top THEN top' \in rest ELSE top' = top
  /\ active' = IF active = f THEN top' ELSE active
  /\ cached' = [cached EXCEPT ![f] = None]
  /\ read' = Touched(f) /\ SheetsFollow
  /\ UNCHANGED <<server, job, given, offered, call, unsure, lone>>

\* The server deletes it, whether or not a reading has brought it back.
ServeDelete(f) ==
  /\ f \in doomed /\ doomed' = doomed \ {f}
  /\ stored' = [g \in DOMAIN stored \ {f} |-> stored[g]]
  /\ read' = Touched(f)
  /\ unsure' = IF f \in DOMAIN listed THEN unsure \cup {f} ELSE unsure
  /\ UNCHANGED <<made, draft, since, job, given, listed, top, active, cached, offered,
                 call, sheets, lone>>

\* It refuses: a message, and nothing else.
RefuseDelete(f) ==
  /\ f \in doomed /\ doomed' = doomed \ {f} /\ unsure' = unsure \cup {f}
  /\ UNCHANGED <<server, job, given, listed, top, active, cached, offered, read, call,
                 sheets, lone>>

-----------------------------------------------------------------------------
(* The draft: the banner compares it with the file that is shown.            *)

Banner == offered # None /\ (Shown # None => Shown <= since[offered])

Restore ==
  /\ Banner /\ call = NoCall /\ call' = [op |-> "restore", pc |-> "sent"] /\ lone' = {}
  /\ UNCHANGED <<server, job, given, listed, top, active, cached, offered, read, doomed,
                 sheets, unsure>>

\* promoteDraft: a version of the newest file, or a first file. The list is
\* read again before the store forgets the draft.
Promote(r) ==
  /\ call = [op |-> "restore", pc |-> "sent"] /\ draft # None /\ read[r].pc = "idle"
  /\ \/ /\ DOMAIN stored = {} /\ Create(draft)
        /\ read' = [Touched(made') EXCEPT ![r] = [@ EXCEPT !.pc = "asked", !.after = TRUE]]
        /\ unsure' = unsure \cup {made'}
     \/ /\ \E f \in DOMAIN stored : (\A g \in DOMAIN stored : g <= f)
             /\ stored' = [stored EXCEPT ![f] = draft]
        /\ read' = [read EXCEPT ![r] = [@ EXCEPT !.pc = "asked", !.after = TRUE]]
        /\ UNCHANGED <<made, unsure>>
  /\ draft' = None /\ call' = [call EXCEPT !.pc = "served"]
  /\ UNCHANGED <<since, job, given, listed, top, active, cached, offered, doomed, sheets, lone>>

Discard ==
  /\ Banner /\ call = NoCall /\ call' = [op |-> "discard", pc |-> "sent"] /\ lone' = {}
  /\ UNCHANGED <<server, job, given, listed, top, active, cached, offered, read, doomed,
                 sheets, unsure>>

ServeDiscard ==
  /\ call = [op |-> "discard", pc |-> "sent"] /\ call' = [call EXCEPT !.pc = "served"]
  /\ draft' = None
  /\ UNCHANGED <<stored, made, since, job, given, listed, top, active, cached, offered,
                 read, doomed,
                 sheets, unsure, lone>>

Discarded ==
  /\ call = [op |-> "discard", pc |-> "served"] /\ call' = NoCall /\ offered' = None
  /\ UNCHANGED <<server, job, given, listed, top, active, cached, read, doomed, sheets,
                 unsure, lone>>

\* Either is refused: there is no such draft, or the network fails.
CallFails ==
  /\ call.pc = "sent" /\ call' = NoCall
  /\ UNCHANGED <<server, job, given, listed, top, active, cached, offered, read, doomed,
                 sheets, unsure, lone>>

-----------------------------------------------------------------------------
(* The sheets of the file that is shown. Only valid ones can be ticked.      *)

Pick(new) ==
  /\ Shown # None
  /\ listed' = [listed EXCEPT ![Shown].picked = new]
  /\ UNCHANGED <<server, job, given, top, active, cached, offered, read, call, doomed,
                 unsure, lone>>

Ticked == listed[Shown].picked
Tickable == Valid(listed[Shown].of)

\* changeScope: all valid sheets are ticked, or nothing changes.
ChooseAll == Pick(Tickable) /\ scope' = "all" /\ assumed' = FALSE
ChooseSelected == Pick(Ticked) /\ scope' = "selected" /\ assumed' = FALSE

\* onSheetRowClick, toggleSheet: when all are shown ticked, they are all ticked
\* first.
RowClicked(i) ==
  LET before == IF scope = "all" THEN Tickable ELSE Ticked IN
  IF i \in before THEN before \ {i} ELSE before \cup {i}

ClickRow(i) ==
  /\ Shown # None /\ i \in Tickable
  /\ Pick(RowClicked(i)) /\ scope' = "selected" /\ assumed' = FALSE

PickAll == scope = "selected" /\ Pick(Tickable) /\ UNCHANGED <<scope, assumed>>
PickNone == scope = "selected" /\ Pick({}) /\ UNCHANGED <<scope, assumed>>

\* The section is folded and opened again: its state starts anew.
Fold == Pick(Ticked) /\ scope' = "all" /\ assumed' = (scope = "selected" \/ assumed)

-----------------------------------------------------------------------------
\* What the users do.
Act ==
  \/ \E u \in Uploads : Drop(u) \/ OthersUpload(u) \/ \E i \in DOMAIN Books[u] : ClickRow(i)
  \/ \E r \in Reads : Ask(r)
  \/ \E f \in Ids : Open(f) \/ Delete(f)
  \/ Restore \/ Discard
  \/ ChooseAll \/ ChooseSelected \/ PickAll \/ PickNone \/ Fold

\* What the server and its answers do.
Follow ==
  \/ \E u \in Uploads : KeepDraft(u) \/ Send(u) \/ SendOnly(u) \/ Store(u) \/ Show(u) \/ Fail(u)
  \/ \E r \in Reads : TakeList(r) \/ TakeDraft(r) \/ ReadFails(r) \/ Apply(r) \/ Promote(r)
  \/ \E f \in Ids : ServeDelete(f) \/ RefuseDelete(f)
  \/ ServeDiscard \/ Discarded \/ CallFails

Next ==
  \/ acts < MaxActs /\ acts' = acts + 1 /\ Act
  \/ UNCHANGED acts /\ Follow

Spec == Init /\ [][Next]_vars

-----------------------------------------------------------------------------

\* A file is listed, and once, if and only if the server has it, except while an
\* upload of it is answered or its deletion is under way, and when something
\* happened to it while the list was being read, or failed, or another user did
\* it, until a reading that nothing overlaps.
ListFollowsServer ==
  \A f \in (1..made) \ (unsure \cup doomed \cup Answered) :
    /\ f \in DOMAIN listed <=> f \in DOMAIN stored
    /\ f \in DOMAIN listed => listed[f].copies = 1

\* An upload that failed before the server had the file can be repeated from its
\* draft, and the store knows of it, if the draft was saved and no other upload,
\* reading, restoring or discarding came in between.
FailedIsKept ==
  \A u \in lone : job[u] = "failed" /\ given[u] = 0 => draft = u /\ offered = u

\* The sheets an audit of the shown file counts are those shown with a tick,
\* unless all are shown ticked of a file they were not chosen for.
TicksAreCounted ==
  Shown # None /\ scope = "all" /\ ~assumed => listed[Shown].picked = Valid(listed[Shown].of)

\* No sheet that repeats another or cannot be read is ever counted.
ValidArePicked == \A f \in DOMAIN listed : listed[f].picked \subseteq Valid(listed[f].of)

\* Together: the documents, the draft and the ticks are what they are shown as.
DocumentsAreTrue == ListFollowsServer /\ FailedIsKept /\ TicksAreCounted /\ ValidArePicked

\* Does not hold: the rows in the browser are those of the file's version. A
\* restored draft is a new version of a file whose old rows stay cached.
RowsAreCurrent ==
  \A f \in DOMAIN listed \cap DOMAIN stored : f \notin unsure => listed[f].of = stored[f]
=============================================================================
