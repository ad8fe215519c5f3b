------------------------------ MODULE WebAudit ------------------------------
(***************************************************************************)
(* Audit results in the store of one browser: runs that can be cancelled   *)
(* and overtaken, the look-up of the latest run of a file on navigation    *)
(* and on news of somebody else's run, navigation between functions, and   *)
(* the versions saved from the result shown, by the Save button and       *)
(* by the dialog for a new version.                                        *)
(*                                                                         *)
(* Each function has one file, which stands for it. Server runs are        *)
(* numbered in the order in which they complete.                           *)
(***************************************************************************)
EXTENDS Naturals, Sequences, FiniteSets

CONSTANTS
  Files,
  None,
  LookUps,     \* whether results are looked up on the server
  MaxStarts,   \* bound on runs started in this browser
  MaxRuns,     \* bound on runs completed on the server
  MaxVersions  \* bound on saved versions

VARIABLES
  shown,    \* the file whose function's workspace is open
  result,   \* currentAuditResult: a file and a run, None without one
  latest,   \* latestAuditResult of the process
  runKey,   \* auditRunKey: the run that may still commit, None without one
  running,  \* isAuditRunning
  runs,     \* the runs started in this browser: file and progress
  lookUp,   \* the latest-result request under way
  done,     \* runs completed on the server, and the file of each
  versions, \* the saved versions, newest first
  modal,    \* the dialog for a new version: "closed", "open" or "confirmed"
  said      \* what the page says the Save button has just saved: the function
            \* and the result it compared, None when it says nothing

vars == <<shown, result, latest, runKey, running, runs, lookUp, done, versions, modal, said>>

Results == [file : Files, run : 1..MaxRuns]
NoLookUp == [pc |-> "none"]

TypeOK ==
  /\ shown \in Files
  /\ result \in Results \cup {None} /\ latest \in Results \cup {None}
  /\ runKey \in (1..MaxStarts) \cup {None} /\ running \in BOOLEAN
  /\ Len(runs) <= MaxStarts
  /\ \A i \in DOMAIN runs :
       runs[i] \in [file : Files, pc : {"sent", "answered", "over"}, got : Results \cup {None}]
  /\ lookUp = NoLookUp \/ lookUp \in [pc : {"sent", "answered"}, file : Files,
                                      got : Results \cup {None}]
  /\ done \in Seq(Files) /\ Len(done) <= MaxRuns
  /\ \A i \in DOMAIN versions :
       versions[i] \in [file : Files, number : 1..MaxVersions, result : Results]
  /\ modal \in {"closed", "open", "confirmed"}
  /\ said \in [file : Files, result : Results] \cup {None}

Init ==
  /\ shown \in Files /\ result = None /\ latest = None
  /\ runKey = None /\ running = FALSE
  /\ runs = <<>> /\ lookUp = NoLookUp /\ done = <<>> /\ versions = <<>>
  /\ modal = "closed" /\ said = None

\* The positions of the versions of a function, and the newest.
OfFile(f) == {i \in DOMAIN versions : versions[i].file = f}
Newest(f) == CHOOSE i \in OfFile(f) : \A j \in OfFile(f) : i <= j

\* Mutant: the first version gets the number 0.
NumbersFromZero(f) == Cardinality(OfFile(f))

\* saveVersion numbers within the function.
NextNumber(f) == Cardinality(OfFile(f)) + 1

WithVersion(res) ==
  <<[file |-> res.file, number |-> NextNumber(res.file), result |-> res]>> \o versions

\* The result of the newest version of the open function.
HeadResult == IF OfFile(shown) = {} THEN None ELSE versions[Newest(shown)].result

\* Mutant: the latest result is taken whatever function it belongs to.
UnscopedLatestAuditResult == IF latest # None THEN latest ELSE HeadResult

\* selectLatestAuditResult, of the open function.
LatestAuditResult == IF latest # None /\ latest.file = shown THEN latest ELSE HeadResult

\* latestResult of Workspace.
LatestResult == IF result # None THEN result ELSE LatestAuditResult

\* The route changes: Workspace drops the result before anything is loaded. A
\* dialog left open stays, unless there is nothing to save any more: then it is
\* taken away and comes back unconfirmed.
Navigate(f) ==
  /\ f # shown /\ shown' = f /\ result' = None
  /\ UNCHANGED <<latest, runKey, running, runs, lookUp, done, versions>>
  /\ modal' = IF LatestResult' = None /\ modal = "confirmed" THEN "open" ELSE modal

\* runAudit, for the file on screen, claims the run key.
Start ==
  /\ Len(runs) < MaxStarts
  /\ runs' = Append(runs, [file |-> shown, pc |-> "sent", got |-> None])
  /\ runKey' = Len(runs') /\ running' = TRUE
  /\ UNCHANGED <<shown, result, latest, lookUp, done, versions>>

\* The server completes the run; its answer and its issues are fetched.
Complete(r) ==
  /\ r \in DOMAIN runs /\ runs[r].pc = "sent" /\ Len(done) < MaxRuns
  /\ done' = Append(done, runs[r].file)
  /\ runs' = [runs EXCEPT ![r].pc = "answered",
                ![r].got = [file |-> runs[r].file, run |-> Len(done')]]
  /\ UNCHANGED <<shown, result, latest, runKey, running, lookUp, versions>>

\* Somebody else audits the same file.
OthersRun(f) ==
  /\ Len(done) < MaxRuns /\ done' = Append(done, f)
  /\ UNCHANGED <<shown, result, latest, runKey, running, runs, lookUp, versions>>

\* Mutant: any run may commit while some run is active.
SomeActive(r) == runKey # None

StillActive(r) == runKey = r

\* The answer of an active run is committed, and V1 saved if there is no
\* version yet; that of any other is dropped.
Arrive(r) ==
  /\ r \in DOMAIN runs /\ runs[r].pc = "answered"
  /\ runs' = [runs EXCEPT ![r].pc = "over"]
  /\ IF StillActive(r)
       THEN /\ running' = FALSE /\ runKey' = None
            /\ result' = runs[r].got /\ latest' = runs[r].got
            /\ versions' = IF versions = <<>> THEN WithVersion(result') ELSE versions
       ELSE UNCHANGED <<running, runKey, result, latest, versions>>
  /\ UNCHANGED <<shown, lookUp, done>>

\* The request fails.
Fail(r) ==
  /\ r \in DOMAIN runs /\ runs[r].pc = "sent"
  /\ runs' = [runs EXCEPT ![r].pc = "over"]
  /\ IF StillActive(r) THEN running' = FALSE /\ runKey' = None
                       ELSE UNCHANGED <<running, runKey>>
  /\ UNCHANGED <<shown, result, latest, lookUp, done, versions>>

\* cancelAudit.
Cancel ==
  /\ running /\ running' = FALSE /\ runKey' = None
  /\ UNCHANGED <<shown, result, latest, runs, lookUp, done, versions>>

\* hydrateLatestAuditResult: the results tab asks when no result of the file is
\* in the store, audit.completed of another user asks in any case (force).
LookUp(force) ==
  /\ LookUps /\ lookUp = NoLookUp
  /\ ~force /\ result # None => result.file # shown
  /\ lookUp' = [pc |-> "sent", file |-> shown, got |-> None]
  /\ UNCHANGED <<shown, result, latest, runKey, running, runs, done, versions>>

RunsOf(f) == {i \in DOMAIN done : done[i] = f}
Last(f) == CHOOSE i \in RunsOf(f) : \A j \in RunsOf(f) : j <= i

\* The server answers with the latest run of the file, or with none.
AnswerLookUp ==
  /\ lookUp.pc = "sent"
  /\ lookUp' = IF RunsOf(lookUp.file) = {} THEN NoLookUp
               ELSE [lookUp EXCEPT !.pc = "answered",
                       !.got = [file |-> lookUp.file, run |-> Last(lookUp.file)]]
  /\ UNCHANGED <<shown, result, latest, runKey, running, runs, done, versions>>

LookUpArrives ==
  /\ lookUp.pc = "answered" /\ lookUp' = NoLookUp
  /\ result' = lookUp.got /\ latest' = lookUp.got
  /\ UNCHANGED <<shown, runKey, running, runs, done, versions>>

ToSave == IF result # None THEN result ELSE latest

\* summarizeDiff can find two results identical (same) and must find a result
\* identical to itself; without an anchor or a result there is no difference.
MaySee(anchor, res, same) ==
  /\ anchor = res /\ res # None => same
  /\ anchor = None \/ res = None => ~same

\* saveOverCurrentVersion refreshes the newest version of its function.
SaveOver ==
  /\ ToSave # None /\ latest' = ToSave
  /\ OfFile(ToSave.file) = {} => Len(versions) < MaxVersions
  /\ versions' = IF OfFile(ToSave.file) = {} THEN WithVersion(ToSave)
                 ELSE [versions EXCEPT ![Newest(ToSave.file)].result = ToSave]

\* saveVersion.
SaveNew ==
  /\ ToSave # None /\ Len(versions) < MaxVersions /\ latest' = ToSave
  /\ versions' = WithVersion(ToSave)

\* The Save button: nothing is saved when the open function has a version with
\* the findings of the latest result.
QuickSave(same) ==
  /\ LatestResult # None /\ ~running /\ MaySee(HeadResult, LatestResult, same) /\ ~same
  /\ SaveOver /\ said' = [file |-> shown, result |-> LatestResult]
  /\ UNCHANGED <<shown, result, runKey, running, runs, lookUp, done, modal>>

\* Mutant: the dialog looks at the latest result of the process only.
ModalLatest == latest

\* The dialog compares the session's result only when it is of this function.
ModalResult == IF result # None /\ result.file = shown THEN result ELSE latest

OpenModal ==
  /\ LatestResult # None /\ ~running /\ modal = "closed" /\ modal' = "open"
  /\ UNCHANGED <<shown, result, latest, runKey, running, runs, lookUp, done, versions>>

CloseModal ==
  /\ LatestResult # None /\ modal # "closed" /\ modal' = "closed"
  /\ UNCHANGED <<shown, result, latest, runKey, running, runs, lookUp, done, versions>>

\* submit: for identical findings the first only asks for a second.
Submit(same) ==
  /\ LatestResult # None /\ modal # "closed" /\ MaySee(HeadResult, ModalResult, same)
  /\ IF same /\ modal = "open"
       THEN modal' = "confirmed" /\ UNCHANGED <<versions, latest>>
       ELSE SaveNew /\ modal' = "closed"
  /\ UNCHANGED <<shown, result, runKey, running, runs, lookUp, done>>

\* loadVersion shows the result of a version of the open function.
LoadVersion(i) ==
  /\ i \in DOMAIN versions /\ versions[i].file = shown
  /\ result' = versions[i].result
  /\ UNCHANGED <<shown, latest, runKey, running, runs, lookUp, done, versions>>

RunEnds == \E r \in 1..MaxStarts : Complete(r) \/ Arrive(r) \/ Fail(r)

\* The message is read before anything else happens.
AuditStep ==
  \/ Start \/ RunEnds \/ Cancel \/ AnswerLookUp \/ LookUpArrives
  \/ \E f \in Files : OthersRun(f)
  \/ \E force \in BOOLEAN : LookUp(force)
  \/ \E i \in 1..MaxVersions : LoadVersion(i)

Next ==
  \/ AuditStep /\ UNCHANGED modal /\ said' = None
  \/ \E f \in Files : Navigate(f) /\ said' = None
  \/ (OpenModal \/ CloseModal \/ \E same \in BOOLEAN : Submit(same)) /\ said' = None
  \/ \E same \in BOOLEAN : QuickSave(same)

Spec == Init /\ [][Next]_vars

-----------------------------------------------------------------------------

\* The busy flag and the key of the run that may commit go together, and that
\* run is under way: no answer of an abandoned run clears the flag of another.
BusyIsClaimed ==
  /\ running <=> runKey # None
  /\ running => runKey \in DOMAIN runs /\ runs[runKey].pc # "over"

\* Runs are started in the order in which their results may appear: once a
\* run has been started or cancelled, no earlier one commits.
OvertakenRunsAreDropped ==
  [][\A r \in DOMAIN runs :
       runs[r].pc = "answered" /\ runs'[r].pc = "over" /\ <<result, latest>>' # <<result, latest>>
         => r = Len(runs) /\ running]_vars

\* The versions of a function are numbered 1, 2, ... whatever is saved for the
\* other functions in between.
VersionsCountUp ==
  \A f \in Files : \A i \in OfFile(f) :
    versions[i].number = Cardinality({j \in OfFile(f) : i <= j})

\* The version the Save button is said to have refreshed, the newest of the open
\* function, holds the result the message was about, unless a result of another
\* function has arrived meanwhile.
SaveIsAsSaid ==
  said # None /\ (result # None => result.file = said.file) =>
    OfFile(said.file) # {} /\ versions[Newest(said.file)].result = said.result

\* A version of the open function with the very result of the one before it is
\* only made after the user has confirmed it.
DuplicatesAreConfirmed ==
  [][Len(versions') = Len(versions) + 1 /\ versions'[1].file = shown
       /\ HeadResult # None /\ versions'[1].result = HeadResult
     => modal = "confirmed"]_vars

\* Together: one run at a time commits, versions count up per function, and
\* what is saved is what the page compared.
RunsAndVersionsInTurn == BusyIsClaimed /\ VersionsCountUp /\ SaveIsAsSaid

\* Does not hold: the result shown belongs to the function that is open. The
\* answer of a lookup arrives after the user has gone on.
ResultIsOfOpenFunction == result # None => result.file = shown
=============================================================================
