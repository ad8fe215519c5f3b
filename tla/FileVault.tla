------------------------------ MODULE FileVault ------------------------------
(***************************************************************************)
(* The workbooks of one user, process and function: files with numbered    *)
(* versions, one draft, and the objects that hold the bytes. The rows are  *)
(* written in transactions, the object store knows none: objects are put   *)
(* before the rows that name them, and the deletion of a draft's object is *)
(* started and not waited for.                                             *)
(*                                                                         *)
(* An object is known by the number of its put; its key never comes again. *)
(***************************************************************************)
EXTENDS Naturals, FiniteSets

CONSTANTS
  Slots,     \* requests in flight
  Ops,       \* the requests that are made
  None,
  MaxPuts,   \* bound on objects ever put
  MaxFiles,  \* bound on files ever created
  MaxDrafts, \* bound on draft rows ever created
  MaxVersions \* no snapshot is taken beyond this version

Objects == 1..MaxPuts

VARIABLES
  file,     \* per file number, the WorkbookFile row with its versions, or None
  files,    \* how many files were ever created
  draft,    \* the FileDraft row, or None
  drafts,   \* how many draft rows were ever created
  stored,   \* the objects in the store
  puts,     \* how many objects were ever put
  doomed,   \* objects whose deletion is under way
  work,     \* per slot, the request in progress
  promoted, \* per draft row, the versions made from it
  faulty    \* whether a statement has failed or the server has stopped

db == <<file, files, draft, drafts, promoted>>
store == <<stored, puts, doomed>>
vars == <<db, store, work, faulty>>

Draft == [id : 1..MaxDrafts, obj : Objects]

Idle == [pc |-> "idle"]

\* seen: the draft row read; target: the file chosen; number: the version to
\* write; obj: the object put, or the one a snapshot takes over.
Works == [pc : {"read", "target", "put", "max", "commit"}, op : Ops,
          seen : Draft \cup {None}, target : 0..MaxFiles, number : Nat,
          obj : Objects \cup {None}]

TypeOK ==
  /\ \A f \in 1..MaxFiles : file[f] = None \/
       /\ DOMAIN file[f] = {"current", "obj", "versions"}
       /\ file[f].current \in Nat /\ file[f].obj \in Objects
       /\ \A n \in DOMAIN file[f].versions : file[f].versions[n] \in Objects
  /\ files \in 0..MaxFiles /\ draft \in Draft \cup {None} /\ drafts \in 0..MaxDrafts
  /\ stored \subseteq Objects /\ puts \in 0..MaxPuts /\ doomed \subseteq Objects
  /\ work \in [Slots -> Works \cup {Idle}]
  /\ promoted \in [1..MaxDrafts -> Nat] /\ faulty \in BOOLEAN

Init ==
  /\ file = [f \in 1..MaxFiles |-> None] /\ files = 0
  /\ draft = None /\ drafts = 0 /\ promoted = [d \in 1..MaxDrafts |-> 0]
  /\ stored = {} /\ puts = 0 /\ doomed = {}
  /\ work = [s \in Slots |-> Idle] /\ faulty = FALSE

Existing == {f \in 1..files : file[f] # None}

\* findFirst by uploadedAt: the newest file, 0 for none.
Latest == IF Existing = {} THEN 0 ELSE CHOOSE f \in Existing : \A g \in Existing : g <= f

Begin(s, op) ==
  /\ work[s] = Idle /\ op \in Ops
  /\ work' = [work EXCEPT ![s] = [op |-> op, seen |-> None, target |-> 0,
       number |-> 1, obj |-> None, pc |-> IF op \in {"upload", "save"} THEN "put" ELSE "read"]]
  /\ UNCHANGED <<db, store, faulty>>

Done(s) == work' = [work EXCEPT ![s] = Idle] /\ UNCHANGED faulty

\* putAndRecord of an upload, a draft or a promotion.
Put(s) ==
  /\ work[s].pc = "put" /\ puts < MaxPuts
  /\ puts' = puts + 1 /\ stored' = stored \cup {puts'}
  /\ work' = [work EXCEPT ![s].obj = puts', ![s].pc =
                IF work[s].op = "save" THEN "read" ELSE "commit"]
  /\ UNCHANGED <<db, doomed, faulty>>

NewFile(obj) ==
  /\ files < MaxFiles /\ files' = files + 1
  /\ file' = [file EXCEPT ![files'] = [current |-> 1, obj |-> obj, versions |-> [n \in {1} |-> obj]]]

\* createUploadedFile: the file, its first version, and the end of the
\* uploader's draft, whose object is left in the store.
Upload(s) ==
  /\ work[s].pc = "commit" /\ work[s].op = "upload"
  /\ NewFile(work[s].obj) /\ draft' = None
  /\ Done(s) /\ UNCHANGED <<drafts, promoted, store>>

\* upsertDraft and deleteDraft look the draft up and start the deletion of its
\* object.
DoomDraft(s) ==
  /\ work[s].pc = "read" /\ work[s].op \in {"save", "discard"}
  /\ doomed' = IF draft = None THEN doomed ELSE doomed \cup {draft.obj}
  /\ work' = [work EXCEPT ![s].seen = draft, ![s].pc = "commit"]
  /\ UNCHANGED <<db, stored, puts, faulty>>

\* The upsert: over the row that is there, or a new one.
SaveDraft(s) ==
  /\ work[s].pc = "commit" /\ work[s].op = "save"
  /\ IF draft # None
       THEN draft' = [draft EXCEPT !.obj = work[s].obj] /\ UNCHANGED drafts
       ELSE /\ drafts < MaxDrafts /\ drafts' = drafts + 1
            /\ draft' = [id |-> drafts', obj |-> work[s].obj]
  /\ Done(s) /\ UNCHANGED <<file, files, promoted, store>>

DiscardDraft(s) ==
  /\ work[s].pc = "commit" /\ work[s].op = "discard"
  /\ draft' = None
  /\ Done(s) /\ UNCHANGED <<file, files, drafts, promoted, store>>

\* promoteDraft reads the draft and its bytes; without either it stops.
ReadDraft(s) ==
  /\ work[s].pc = "read" /\ work[s].op = "promote"
  /\ IF draft # None /\ draft.obj \in stored
       THEN work' = [work EXCEPT ![s].seen = draft, ![s].pc = "target"] /\ UNCHANGED faulty
       ELSE Done(s)
  /\ UNCHANGED <<db, store>>

\* It then picks the file and the number the new version will have.
PickTarget(s) ==
  /\ work[s].pc = "target"
  /\ work' = [work EXCEPT ![s].pc = "put", ![s].target = Latest,
                ![s].number = IF Latest = 0 THEN 1 ELSE file[Latest].current + 1]
  /\ UNCHANGED <<db, store, faulty>>

\* The draft's row is deleted by its id, and a row that is gone is an error.
DropsDraft(w) == draft # None /\ draft.id = w.seen.id

\* Mutant: the file keeps the object it had.
WithVersionOldObject(row, number, obj) ==
  [current |-> number, obj |-> row.obj,
   versions |-> [n \in DOMAIN row.versions \cup {number} |->
                   IF n = number THEN obj ELSE row.versions[n]]]

\* The row of a file after a version was written.
WithVersion(row, number, obj) ==
  [current |-> number, obj |-> obj,
   versions |-> [n \in DOMAIN row.versions \cup {number} |->
                   IF n = number THEN obj ELSE row.versions[n]]]

\* Whether the unique (file, number) and the foreign key let a version in.
Writable(w) == file[w.target] # None /\ w.number \notin DOMAIN file[w.target].versions

\* The transaction of promoteDraft. For an existing file it starts the
\* deletion of the draft's object; a first file leaves the object behind.
Promote(s) ==
  LET w == work[s] IN
  /\ w.pc = "commit" /\ w.op = "promote" /\ DropsDraft(w)
  /\ \/ w.target = 0 /\ NewFile(w.obj) /\ UNCHANGED doomed
     \/ /\ w.target # 0 /\ Writable(w)
        /\ file' = [file EXCEPT ![w.target] = WithVersion(@, w.number, w.obj)]
        /\ doomed' = doomed \cup {w.seen.obj} /\ UNCHANGED files
  /\ draft' = None /\ promoted' = [promoted EXCEPT ![w.seen.id] = @ + 1]
  /\ Done(s) /\ UNCHANGED <<drafts, stored, puts>>

\* It is rolled back: on the version before the deletion starts, on the
\* draft's row after it.
PromoteRollsBack(s) ==
  LET w == work[s] IN
  /\ w.pc = "commit" /\ w.op = "promote"
  /\ \/ w.target # 0 /\ ~Writable(w) /\ UNCHANGED doomed
     \/ w.target # 0 /\ Writable(w) /\ ~DropsDraft(w) /\ doomed' = doomed \cup {w.seen.obj}
     \/ w.target = 0 /\ ~DropsDraft(w) /\ UNCHANGED doomed
  /\ Done(s) /\ UNCHANGED <<db, stored, puts>>

\* snapshotCurrentVersion reads the file and makes sure of its bytes.
ReadFile(s) ==
  /\ work[s].pc = "read" /\ work[s].op = "snapshot"
  /\ \E f \in Existing :
       IF file[f].obj \in stored
         THEN work' = [work EXCEPT ![s].target = f, ![s].obj = file[f].obj, ![s].pc = "max"]
         ELSE work' = [work EXCEPT ![s] = Idle]
  /\ UNCHANGED <<db, store, faulty>>

\* Then it asks for the highest version number there is.
ReadMax(s) ==
  /\ work[s].pc = "max"
  /\ LET row == file[work[s].target]
         ns == IF row = None THEN {} ELSE DOMAIN row.versions
         max == IF ns = {} THEN 0 ELSE CHOOSE n \in ns : \A m \in ns : m <= n
     IN  max < MaxVersions
         /\ work' = [work EXCEPT ![s].number = max + 1, ![s].pc = "commit"]
  /\ UNCHANGED <<db, store, faulty>>

\* Its transaction; the file row keeps the object it has.
Snapshot(s) ==
  LET w == work[s] IN
  /\ w.pc = "commit" /\ w.op = "snapshot" /\ Writable(w)
  /\ file' = [file EXCEPT ![w.target] =
       [WithVersion(@, w.number, w.obj) EXCEPT !.obj = file[w.target].obj]]
  /\ Done(s) /\ UNCHANGED <<files, draft, drafts, promoted, store>>

SnapshotRollsBack(s) ==
  /\ work[s].pc = "commit" /\ work[s].op = "snapshot" /\ ~Writable(work[s])
  /\ Done(s) /\ UNCHANGED <<db, store>>

\* FilesService.delete; the objects of the versions stay in the store.
DeleteFile(f) ==
  /\ file[f] # None /\ file' = [file EXCEPT ![f] = None]
  /\ UNCHANGED <<files, draft, drafts, promoted, store, work, faulty>>

\* deleteByUploadedObjectId, whenever it comes to run; it may fail unnoticed.
DeleteObject(o) ==
  /\ o \in doomed /\ doomed' = doomed \ {o}
  /\ stored' \in {stored, stored \ {o}}
  /\ UNCHANGED <<db, puts, work, faulty>>

\* A statement or a put fails: the request ends, its transaction rolled back.
Fail(s) ==
  /\ work[s] # Idle /\ work' = [work EXCEPT ![s] = Idle] /\ faulty' = TRUE
  /\ UNCHANGED <<db, store>>

\* The server stops; deletions under way are forgotten.
Crash ==
  /\ work' = [s \in Slots |-> Idle] /\ doomed' = {} /\ faulty' = TRUE
  /\ UNCHANGED <<db, stored, puts>>

Next ==
  \/ Crash
  \/ \E f \in 1..MaxFiles : DeleteFile(f)
  \/ \E o \in Objects : DeleteObject(o)
  \/ \E s \in Slots :
       \/ \E op \in Ops : Begin(s, op)
       \/ Put(s) \/ Fail(s) \/ Upload(s) \/ DoomDraft(s) \/ SaveDraft(s) \/ DiscardDraft(s)
       \/ ReadDraft(s) \/ PickTarget(s) \/ Promote(s) \/ PromoteRollsBack(s)
       \/ ReadFile(s) \/ ReadMax(s) \/ Snapshot(s) \/ SnapshotRollsBack(s)

Spec == Init /\ [][Next]_vars

-----------------------------------------------------------------------------

\* Every version of every file can be downloaded, whatever deletions of draft
\* objects are under way and wherever the server stopped.
VersionsHaveBytes ==
  \A f \in Existing : \A n \in DOMAIN file[f].versions : file[f].versions[n] \in stored

\* The versions of a file are numbered without a gap and the last one is the
\* current one, though the numbers are picked outside the transactions.
VersionsUnbroken == \A f \in Existing : DOMAIN file[f].versions = 1..file[f].current

\* Only a snapshot can make the current version differ from the file's bytes:
\* it may have read the file before a promotion and numbered itself after it.
OnlySnapshotsDiffer ==
  [][\A f \in Existing :
       /\ file[f].versions[file[f].current] = file[f].obj
       /\ file'[f] # None /\ file'[f].versions[file'[f].current] # file'[f].obj
       => \E s \in Slots : work[s] # Idle /\ work[s].op = "snapshot" /\ work'[s] = Idle]_vars

\* A draft is published once, however many promotions of it overlap.
PromotedOnce == \A d \in 1..MaxDrafts : promoted[d] <= 1

\* A draft that is nobody's work in progress can be opened, unless a failure
\* came between the deletion of its object and the write of its row.
IdleDraftReadable ==
  draft # None /\ draft.obj \notin stored =>
    faulty \/ \E s \in Slots : work[s] # Idle /\ work[s].seen # None
                               /\ work[s].seen.obj = draft.obj

\* Together: no interleaving, failure or crash loses the bytes of a version, its
\* number, or a draft.
NothingIsLost ==
  /\ [](VersionsHaveBytes /\ VersionsUnbroken /\ PromotedOnce /\ IdleDraftReadable)
  /\ OnlySnapshotsDiffer
=============================================================================
