----------------------------- MODULE VersionsProofs -----------------------------
(***************************************************************************)
(* What is kept in versions: the documents of a function, its results, the *)
(* comparison of two of them and the chat's answers. The invariants of     *)
(* these parts, and that each step keeps them.                             *)
(***************************************************************************)
EXTENDS MCServices, FiniteSetTheorems, FunctionTheorems, SequenceTheorems, TLAPS

\* A finite, nonempty set of versions has a highest one.
LEMMA LeastVersion ==
  ASSUME NEW n \in Nat, NEW S, S \subseteq 1..n, S # {}
  PROVE  \E i \in S : \A j \in S : i <= j
<1> DEFINE Upto == {1..i : i \in S}
<1>1. IsFiniteSet(1..n)
  BY FS_Interval
<1>2. IsWellFoundedOn(StrictSubsetOrdering(1..n), FiniteSubsetsOf(1..n))
  BY <1>1, FS_StrictSubsetOrderingWellFounded
<1>3. FiniteSubsetsOf(1..n) = SUBSET (1..n)
  BY <1>1, FS_FiniteSubsetsOfFinite
<1>4. \A i \in S : 1..i \subseteq 1..n
  <2> HIDE DEF Upto
  <2> SUFFICES ASSUME NEW i \in S, NEW k \in 1..i PROVE k \in 1..n
    BY Zenon
  <2>1. i \in 1..n
    OBVIOUS
  <2> QED BY <2>1, SMT
<1>5. Upto \subseteq SUBSET (1..n) /\ Upto # {}
  <2>1. \A x \in Upto : x \in SUBSET (1..n)
    BY <1>4, Zenon
  <2>2. Upto # {}
    BY Zenon
  <2> QED BY <2>1, <2>2, Zenon
<1>6. \E x \in Upto : \A y \in Upto : ~ (<<y, x>> \in StrictSubsetOrdering(1..n))
  <2> DEFINE R == StrictSubsetOrdering(1..n)
             F == SUBSET (1..n)
  <2>1. IsWellFoundedOn(R, F) /\ Upto \subseteq F /\ Upto # {}
    BY <1>2, <1>3, <1>5, Zenon
  <2> HIDE DEF Upto, R, F
  <2>2. \E x \in Upto : \A y \in Upto : ~ (<<y, x>> \in R)
    BY <2>1, WFMin, Zenon
  <2> QED BY <2>2, Zenon DEF R
<1>7. PICK i \in S : \A j \in S : ~ (<<1..j, 1..i>> \in StrictSubsetOrdering(1..n))
  BY <1>6
<1>8. ASSUME NEW j \in S, j < i PROVE FALSE
  <2>1. 1..j \subseteq 1..n /\ 1..i \subseteq 1..n /\ 1..j \subseteq 1..i /\ i \in 1..i /\ i \notin 1..j
    BY <1>8
  <2> QED BY <2>1, <1>7 DEF StrictSubsetOrdering
<1> QED
  BY <1>7, <1>8

LEMMA HighestVersion ==
  ASSUME NEW n \in Nat, NEW S, S \subseteq 1..n, S # {}
  PROVE  \E i \in S : \A j \in S : i >= j
<1> DEFINE T == {k \in 1..n : n + 1 - k \in S}
<1>1. T \subseteq 1..n  OBVIOUS
<1>2. \A i \in S : n + 1 - i \in T  OBVIOUS
<1>3. T # {}  BY <1>2
<1> HIDE DEF T
<1>4. PICK k \in T : \A j \in T : k <= j  BY <1>1, <1>3, LeastVersion
<1>5. n + 1 - k \in S /\ k \in 1..n  BY <1>1 DEF T
<1>6. \A j \in S : n + 1 - k >= j  BY <1>2, <1>4, <1>5
<1> QED BY <1>5, <1>6

-----------------------------------------------------------------------------
(* The documents of a function                                               *)

\* What a server may hold, and what a reading has brought.
Held == UNION {[S -> Uploads] : S \in SUBSET (1 .. MaxFiles)}
Readings ==
  [pc : {"idle", "asked", "over"}, files : Held \cup {None}, draft : Uploads \cup {None},
   looked : BOOLEAN, during : SUBSET (1 .. MaxFiles), after : BOOLEAN]
JobStates == {"idle", "saving", "kept", "sent", "stored", "done", "failed"}

HoldingTypes ==
  /\ made \in 0 .. MaxFiles /\ archive \in Held /\ DOMAIN archive \subseteq 1 .. made
  /\ spare \in Uploads \cup {None} /\ banner \in Uploads \cup {None}
  /\ savedAt \in [Uploads -> 0 .. MaxFiles]
  /\ restoring \in [op : {"none", "restore", "discard"}, pc : {"none", "sent", "served"}]
  /\ doomed \subseteq 1 .. made /\ vague \subseteq 1 .. made /\ lone \subseteq Uploads

\* Each upload has a file of its own.
UploadTypes ==
  /\ job \in [Uploads -> JobStates] /\ given \in [Uploads -> 0 .. MaxFiles]
  /\ \A u \in Uploads : given[u] <= made /\ (job[u] = "stored" => given[u] # 0)
  /\ \A u, v \in Uploads : given[u] # 0 /\ given[u] = given[v] => u = v

ShelfTypes ==
  /\ shelf \in [DOMAIN shelf -> Documents!Listed] /\ DOMAIN shelf \subseteq 1 .. made
  /\ cached \in [1 .. MaxFiles -> Uploads \cup {None}]
  /\ openDoc \in (1 .. MaxFiles) \cup {None} /\ scope \in {"all", "selected"}
  /\ assumed \in BOOLEAN
  /\ top \in DOMAIN shelf \/ (top = None /\ DOMAIN shelf = {})
  /\ Documents!ValidArePicked

\* What nothing happened to since it was asked for is read as it is.
ReadingTypes ==
  /\ reading \in [Reads -> Readings]
  /\ \A r \in Reads :
       /\ reading[r].pc = "idle" => reading[r] = Documents!Unread
       /\ reading[r].during \subseteq 1 .. made
       /\ reading[r].files # None =>
            DOMAIN reading[r].files \subseteq 1 .. made
       /\ reading[r].pc = "asked" /\ reading[r].files # None =>
            \A f \in (1 .. made) \ reading[r].during :
              f \in DOMAIN reading[r].files <=> f \in DOMAIN archive

\* What an answer is still to bring is there and not yet listed, or is unsure.
AnswersBring ==
  \A u \in Uploads : job[u] = "stored" =>
    \/ given[u] \in vague
    \/ given[u] \in DOMAIN archive /\ given[u] \notin DOMAIN shelf \cup doomed

\* An upload that nothing interferes with: the draft is its own, and so is what any
\* reading finds.
LoneIsAlone ==
  /\ restoring # Documents!NoCall => lone = {}
  /\ \A u \in lone :
       /\ job[u] # "idle" /\ \A v \in Uploads \ {u} : ~Documents!UnderWay(v)
       /\ job[u] = "kept" => spare = u
       /\ job[u] = "sent" \/ (job[u] = "failed" /\ given[u] = 0) => spare = u /\ banner = u
       /\ \A r \in Documents!Reading :
            ~reading[r].after /\ (reading[r].looked => reading[r].draft = u)

DocumentsHold ==
  /\ HoldingTypes /\ UploadTypes /\ ShelfTypes /\ ReadingTypes /\ AnswersBring /\ LoneIsAlone
  /\ Documents!ListFollowsServer /\ Documents!TicksAreCounted

DocumentsInv == DocumentsHold /\ docActs \in 0 .. MaxActs

\* What a step leaves alone stays true.
LEMMA DocumentsRest ==
  ASSUME DocumentsHold
  PROVE  /\ UNCHANGED <<made, archive, spare, banner, savedAt, restoring, doomed, vague, lone>> =>
              HoldingTypes'
         /\ UNCHANGED <<job, given, made>> => UploadTypes'
         /\ UNCHANGED <<shelf, made, cached, openDoc, scope, assumed, top>> => ShelfTypes'
         /\ UNCHANGED <<reading, made, archive>> => ReadingTypes'
         /\ UNCHANGED <<job, given, vague, archive, shelf, doomed>> => AnswersBring'
         /\ UNCHANGED <<restoring, lone, job, spare, given, banner, reading>> => LoneIsAlone'
         /\ UNCHANGED <<made, vague, doomed, job, given, shelf, archive>> =>
              Documents!ListFollowsServer'
         /\ UNCHANGED <<shelf, top, openDoc, scope, assumed>> => Documents!TicksAreCounted'
<1>1. UNCHANGED <<made, archive, spare, banner, savedAt, restoring, doomed, vague, lone>> => HoldingTypes'
  BY DEF DocumentsHold, HoldingTypes
<1>2. UNCHANGED <<job, given, made>> => UploadTypes'
  BY DEF DocumentsHold, UploadTypes
<1>3. UNCHANGED <<shelf, made, cached, openDoc, scope, assumed, top>> => ShelfTypes'
  BY DEF DocumentsHold, ShelfTypes, Documents!ValidArePicked
<1>4. UNCHANGED <<reading, made, archive>> => ReadingTypes'
  BY DEF DocumentsHold, ReadingTypes
<1>5. UNCHANGED <<job, given, vague, archive, shelf, doomed>> => AnswersBring'
  BY DEF DocumentsHold, AnswersBring
<1>6. UNCHANGED <<restoring, lone, job, spare, given, banner, reading>> => LoneIsAlone'
  BY DEF DocumentsHold, LoneIsAlone, Documents!UnderWay, Documents!Reading
<1>7. UNCHANGED <<made, vague, doomed, job, given, shelf, archive>> => Documents!ListFollowsServer'
  BY DEF DocumentsHold, Documents!ListFollowsServer, Documents!Answered
<1>8. UNCHANGED <<shelf, top, openDoc, scope, assumed>> => Documents!TicksAreCounted'
  BY DEF DocumentsHold, Documents!TicksAreCounted, Documents!Shown, Documents!ShownOf
<1> QED BY <1>1, <1>2, <1>3, <1>4, <1>5, <1>6, <1>7, <1>8

\* Something happens to a file: the readings under way take note of it.
LEMMA ReadingsAreTouched ==
  ASSUME DocumentNames, HoldingTypes, ReadingTypes, NEW f \in 1 .. MaxFiles, f \in 1 .. made',
         reading' = [r \in Reads |->
           IF r \in Documents!Reading
             THEN [reading[r] EXCEPT !.during = reading[r].during \cup {f}] ELSE reading[r]],
         made' \in made .. MaxFiles,
         \A g \in (1 .. made') \ {f} : g \in 1 .. made /\ (g \in DOMAIN archive' <=> g \in DOMAIN archive)
  PROVE  /\ ReadingTypes'
         /\ \A r \in Reads :
              /\ reading'[r].pc = reading[r].pc /\ reading'[r].files = reading[r].files
              /\ reading'[r].draft = reading[r].draft /\ reading'[r].looked = reading[r].looked
              /\ reading'[r].after = reading[r].after
<1>1. ASSUME NEW r \in Reads
      PROVE  /\ reading'[r] \in Readings /\ reading'[r].pc = reading[r].pc /\ reading'[r].files = reading[r].files
             /\ reading'[r].draft = reading[r].draft /\ reading'[r].looked = reading[r].looked
             /\ reading'[r].after = reading[r].after
             /\ reading[r].pc = "asked" => reading'[r].during = reading[r].during \cup {f}
             /\ reading[r].pc # "asked" => reading'[r] = reading[r]
  <2>1. PICK m \in Readings : m = reading[r]
    BY DEF ReadingTypes
  <2>2. reading'[r] = IF m.pc = "asked" THEN [m EXCEPT !.during = m.during \cup {f}] ELSE m
    BY <2>1 DEF Documents!Reading
  <2> QED BY <2>1, <2>2 DEF Readings
<1>2. reading' \in [Reads -> Readings]
  BY <1>1
<1>3. made \in 0 .. MaxFiles /\ made' \in 0 .. MaxFiles /\ 1 .. made \subseteq 1 .. made'
  BY DEF HoldingTypes, DocumentNames
<1>4. ASSUME NEW r \in Reads
      PROVE  /\ reading'[r].pc = "idle" => reading'[r] = Documents!Unread
             /\ reading'[r].files # None => DOMAIN reading'[r].files \subseteq 1 .. made'
             /\ reading'[r].during \subseteq 1 .. made'
             /\ reading'[r].pc = "asked" /\ reading'[r].files # None =>
                  \A g \in (1 .. made') \ reading'[r].during :
                    g \in DOMAIN reading'[r].files <=> g \in DOMAIN archive'
  <2>1. reading'[r].pc = "idle" => reading'[r] = Documents!Unread
    BY <1>1 DEF ReadingTypes
  <2>2. reading'[r].files # None => DOMAIN reading'[r].files \subseteq 1 .. made'
    BY <1>1, <1>3 DEF ReadingTypes
  <2>3. ASSUME reading'[r].pc = "asked", reading'[r].files # None, NEW g \in (1 .. made') \ reading'[r].during
        PROVE  g \in DOMAIN reading'[r].files <=> g \in DOMAIN archive'
    <3>1. g \in (1 .. made') \ {f} /\ g \notin reading[r].during /\ reading[r].pc = "asked" /\ reading[r].files # None
      BY <1>1, <2>3
    <3>2. g \in DOMAIN reading[r].files <=> g \in DOMAIN archive
      BY <3>1 DEF ReadingTypes
    <3> QED BY <1>1, <3>1, <3>2
  <2>4. reading'[r].during \subseteq 1 .. made'
    <3>1. reading[r].during \subseteq 1 .. made
      BY DEF ReadingTypes
    <3>2. reading'[r].during = reading[r].during \/ reading'[r].during = reading[r].during \cup {f}
      BY <1>1
    <3> QED BY <1>3, <3>1, <3>2
  <2> QED BY <2>1, <2>2, <2>3, <2>4
<1> QED
  BY <1>1, <1>2, <1>4 DEF ReadingTypes

\* A reading is over.
LEMMA ReadingIsOver ==
  ASSUME ReadingTypes, NEW r \in Reads, reading' = [reading EXCEPT ![r].pc = "over"],
         UNCHANGED <<made, archive>>
  PROVE  ReadingTypes' /\ reading'[r].pc = "over" /\ \A q \in Reads \ {r} : reading'[q] = reading[q]
<1>1. PICK m \in Readings : m = reading[r]
  BY DEF ReadingTypes
<1>2. PICK n : n = [m EXCEPT !.pc = "over"]
  OBVIOUS
<1>3. n \in Readings /\ n.pc = "over" /\ n.files = m.files /\ n.during = m.during
  BY <1>2 DEF Readings
<1>4. reading' = [reading EXCEPT ![r] = n]
  BY <1>1, <1>2
<1>5. /\ reading' \in [Reads -> Readings] /\ \A q \in Reads \ {r} : reading'[q] = reading[q]
      /\ reading'[r].pc = "over" /\ reading'[r].files = reading[r].files
      /\ reading'[r].during = reading[r].during
  BY <1>1, <1>3, <1>4 DEF ReadingTypes
<1> QED
  BY <1>5 DEF ReadingTypes

LEMMA NoCallIsCall ==
  Documents!NoCall \in [op : {"none", "restore", "discard"}, pc : {"none", "sent", "served"}]
BY DEF Documents!NoCall

\* The sheets that can be ticked are known by number.
LEMMA ValidAreNumbers == \A u \in Uploads : Documents!Valid(u) \in SUBSET Nat
<1> SUFFICES ASSUME NEW u \in Uploads PROVE DOMAIN Dropped[u] \subseteq Nat
  BY DEF Documents!Valid
<1>1. CASE u = "w1"
  BY <1>1 DEF Dropped
<1>2. CASE u # "w1"
  BY <1>2 DEF Dropped
<1> QED BY <1>1, <1>2

\* A document is shown while there are any.
LEMMA ShownIsListed ==
  ASSUME DocumentNames, DocumentsHold
  PROVE  /\ Documents!Shown # None <=> DOMAIN shelf # {}
         /\ Documents!Shown # None => Documents!Shown \in DOMAIN shelf
         /\ None \notin DOMAIN shelf
BY DEF DocumentNames, DocumentsHold, HoldingTypes, ShelfTypes, Documents!Shown, Documents!ShownOf

-----------------------------------------------------------------------------
LEMMA DropStep ==
  ASSUME DocumentNames, DocumentsHold, NEW u \in Uploads, Documents!Drop(u)
  PROVE  DocumentsHold'
<1>1. /\ job[u] = "idle" /\ job' = [job EXCEPT ![u] = "saving"]
      /\ lone' = {u} \/ lone' = {}
      /\ lone' # {} => Documents!Reading = {} /\ restoring = Documents!NoCall
                         /\ \A v \in Uploads : ~Documents!UnderWay(v)
      /\ UNCHANGED <<made, archive, spare, savedAt, given, shelf, top, openDoc, cached, banner, reading,
                     restoring, doomed, scope, assumed, vague>>
  BY DEF Documents!Drop, Documents!server, Documents!sheets
<1>2. ShelfTypes' /\ ReadingTypes' /\ Documents!TicksAreCounted'
  BY <1>1, DocumentsRest
<1>3. HoldingTypes'
  BY <1>1 DEF DocumentsHold, HoldingTypes
<1>4. UploadTypes' /\ AnswersBring' /\ job'[u] = "saving" /\ \A v \in Uploads \ {u} : job'[v] = job[v]
  BY <1>1 DEF DocumentsHold, UploadTypes, AnswersBring, JobStates
<1>5. LoneIsAlone'
  BY <1>1, <1>4 DEF LoneIsAlone, Documents!Reading, Documents!UnderWay
<1>6. Documents!ListFollowsServer'
  <2>1. Documents!Answered' = Documents!Answered
    BY <1>1, <1>4 DEF Documents!Answered
  <2> QED BY <1>1, <2>1 DEF DocumentsHold, Documents!ListFollowsServer
<1> QED BY <1>2, <1>3, <1>4, <1>5, <1>6 DEF DocumentsHold

LEMMA KeepDraftStep ==
  ASSUME DocumentNames, DocumentsHold, NEW u \in Uploads, Documents!KeepDraft(u)
  PROVE  DocumentsHold'
<1>1. /\ job[u] = "saving" /\ job' = [job EXCEPT ![u] = "kept"]
      /\ spare' = u /\ savedAt' = [savedAt EXCEPT ![u] = made]
      /\ UNCHANGED <<made, archive, given, shelf, top, openDoc, cached, banner, reading,
                     restoring, doomed, scope, assumed, vague, lone>>
  BY DEF Documents!KeepDraft, Documents!sheets
<1>2. ShelfTypes' /\ ReadingTypes' /\ Documents!TicksAreCounted'
  BY <1>1, DocumentsRest
<1>3. HoldingTypes'
  BY <1>1 DEF DocumentsHold, HoldingTypes
<1>4. UploadTypes' /\ AnswersBring' /\ job'[u] = "kept" /\ \A v \in Uploads \ {u} : job'[v] = job[v]
  BY <1>1 DEF DocumentsHold, UploadTypes, AnswersBring, JobStates
<1>5. LoneIsAlone'
  <2>1. lone \subseteq {u}
    BY <1>1 DEF DocumentsHold, HoldingTypes, LoneIsAlone, Documents!UnderWay
  <2> QED BY <1>1, <1>4, <2>1 DEF DocumentsHold, LoneIsAlone, Documents!Reading, Documents!UnderWay
<1>6. Documents!ListFollowsServer'
  <2>1. Documents!Answered' = Documents!Answered
    BY <1>1, <1>4 DEF Documents!Answered
  <2> QED BY <1>1, <2>1 DEF DocumentsHold, Documents!ListFollowsServer
<1> QED BY <1>2, <1>3, <1>4, <1>5, <1>6 DEF DocumentsHold

LEMMA SendDraftStep ==
  ASSUME DocumentNames, DocumentsHold, NEW u \in Uploads, Documents!Send(u)
  PROVE  DocumentsHold'
<1>1. /\ job[u] = "kept" /\ job' = [job EXCEPT ![u] = "sent"] /\ banner' = u
      /\ UNCHANGED <<made, archive, spare, savedAt, given, shelf, top, openDoc, cached, reading,
                     restoring, doomed, scope, assumed, vague, lone>>
  BY DEF Documents!Send, Documents!server, Documents!sheets
<1>2. ShelfTypes' /\ ReadingTypes' /\ Documents!TicksAreCounted'
  BY <1>1, DocumentsRest
<1>3. HoldingTypes'
  BY <1>1 DEF DocumentsHold, HoldingTypes
<1>4. UploadTypes' /\ AnswersBring' /\ job'[u] = "sent" /\ \A v \in Uploads \ {u} : job'[v] = job[v]
  BY <1>1 DEF DocumentsHold, UploadTypes, AnswersBring, JobStates
<1>5. LoneIsAlone'
  <2>1. lone \subseteq {u}
    BY <1>1 DEF DocumentsHold, HoldingTypes, LoneIsAlone, Documents!UnderWay
  <2> QED BY <1>1, <1>4, <2>1 DEF DocumentsHold, LoneIsAlone, Documents!Reading, Documents!UnderWay
<1>6. Documents!ListFollowsServer'
  <2>1. Documents!Answered' = Documents!Answered
    BY <1>1, <1>4 DEF Documents!Answered
  <2> QED BY <1>1, <2>1 DEF DocumentsHold, Documents!ListFollowsServer
<1> QED BY <1>2, <1>3, <1>4, <1>5, <1>6 DEF DocumentsHold

LEMMA SendOnlyStep ==
  ASSUME DocumentNames, DocumentsHold, NEW u \in Uploads, Documents!SendOnly(u)
  PROVE  DocumentsHold'
<1>1. /\ job[u] = "saving" /\ job' = [job EXCEPT ![u] = "sent"] /\ lone' = {}
      /\ UNCHANGED <<made, archive, spare, savedAt, given, shelf, top, openDoc, cached, banner, reading,
                     restoring, doomed, scope, assumed, vague>>
  BY DEF Documents!SendOnly, Documents!server, Documents!sheets
<1>2. ShelfTypes' /\ ReadingTypes' /\ Documents!TicksAreCounted'
  BY <1>1, DocumentsRest
<1>3. HoldingTypes' /\ LoneIsAlone'
  BY <1>1 DEF DocumentsHold, HoldingTypes, LoneIsAlone
<1>4. UploadTypes' /\ AnswersBring' /\ job'[u] = "sent" /\ \A v \in Uploads \ {u} : job'[v] = job[v]
  BY <1>1 DEF DocumentsHold, UploadTypes, AnswersBring, JobStates
<1>6. Documents!ListFollowsServer'
  <2>1. Documents!Answered' = Documents!Answered
    BY <1>1, <1>4 DEF Documents!Answered
  <2> QED BY <1>1, <2>1 DEF DocumentsHold, Documents!ListFollowsServer
<1> QED BY <1>2, <1>3, <1>4, <1>6 DEF DocumentsHold

\* The server has one more file.
LEMMA FileIsCreated ==
  ASSUME DocumentNames, DocumentsHold, NEW u \in Uploads, Documents!Create(u)
  PROVE  /\ made + 1 \in 1 .. MaxFiles /\ made' = made + 1 /\ made' \in made .. MaxFiles
         /\ made + 1 \notin 1 .. made /\ 1 .. made' = (1 .. made) \cup {made + 1}
         /\ archive' \in Held /\ DOMAIN archive' = DOMAIN archive \cup {made + 1}
         /\ DOMAIN archive' \subseteq 1 .. made'
<1>1. made \in 0 .. MaxFiles /\ MaxFiles \in Nat /\ made < MaxFiles /\ made' = made + 1
  BY DEF DocumentNames, DocumentsHold, HoldingTypes, Documents!Create
<1>2. /\ made + 1 \in 1 .. MaxFiles /\ made' \in made .. MaxFiles /\ made + 1 \notin 1 .. made
      /\ 1 .. made' = (1 .. made) \cup {made + 1}
  BY <1>1
<1>3. PICK S \in SUBSET (1 .. MaxFiles) : archive \in [S -> Uploads] /\ S \subseteq 1 .. made
  BY DEF DocumentsHold, HoldingTypes, Held
<1>4. archive' = [f \in S \cup {made + 1} |-> IF f = made + 1 THEN u ELSE archive[f]]
  BY <1>1, <1>3 DEF Documents!Create
<1>5. archive' \in [S \cup {made + 1} -> Uploads] /\ S \cup {made + 1} \in SUBSET (1 .. MaxFiles)
  BY <1>2, <1>3, <1>4
<1> QED BY <1>1, <1>2, <1>3, <1>5 DEF Held

LEMMA StoreUploadStep ==
  ASSUME DocumentNames, DocumentsHold, NEW u \in Uploads, Documents!Store(u)
  PROVE  DocumentsHold'
<1>1. /\ job[u] = "sent" /\ job' = [job EXCEPT ![u] = "stored"] /\ Documents!Create(u)
      /\ given' = [given EXCEPT ![u] = made'] /\ spare' = None
      /\ UNCHANGED <<savedAt, shelf, top, openDoc, cached, banner,
                     restoring, doomed, scope, assumed, vague, lone>>
  BY DEF Documents!Store, Documents!sheets
<1>2. PICK f \in 1 .. MaxFiles :
        /\ f = made + 1 /\ made' = f /\ made' \in made .. MaxFiles /\ f \notin 1 .. made /\ 1 .. made' = (1 .. made) \cup {f}
        /\ archive' \in Held /\ DOMAIN archive' = DOMAIN archive \cup {f}
        /\ DOMAIN archive' \subseteq 1 .. made'
  BY <1>1, FileIsCreated
<1>3. /\ job' \in [Uploads -> JobStates] /\ job'[u] = "stored" /\ \A v \in Uploads \ {u} : job'[v] = job[v]
      /\ given' \in [Uploads -> 0 .. MaxFiles] /\ given'[u] = f /\ \A v \in Uploads \ {u} : given'[v] = given[v]
  BY <1>1, <1>2 DEF DocumentsHold, UploadTypes, JobStates
<1>4. /\ ReadingTypes'
      /\ \A r \in Reads :
           /\ reading'[r].pc = reading[r].pc /\ reading'[r].files = reading[r].files
           /\ reading'[r].draft = reading[r].draft /\ reading'[r].looked = reading[r].looked
           /\ reading'[r].after = reading[r].after
  <2>1. reading' = [r \in Reads |->
           IF r \in Documents!Reading
             THEN [reading[r] EXCEPT !.during = reading[r].during \cup {f}] ELSE reading[r]]
    BY <1>2 DEF Documents!Store, Documents!Touched
  <2> QED BY <1>2, <2>1, ReadingsAreTouched DEF DocumentsHold
<1>5. HoldingTypes'
  BY <1>1, <1>2 DEF DocumentsHold, HoldingTypes, DocumentNames
<1>6. UploadTypes' /\ \A v \in Uploads : given[v] \in 0 .. made
  BY <1>2, <1>3 DEF DocumentsHold, HoldingTypes, UploadTypes
<1>7. ShelfTypes' /\ Documents!TicksAreCounted'
  <2>1. ShelfTypes'
    BY <1>1, <1>2 DEF DocumentsHold, ShelfTypes, Documents!ValidArePicked
  <2> QED BY <1>1, <2>1, DocumentsRest
<1>8. AnswersBring'
  <2>1. f \notin DOMAIN shelf /\ f \notin doomed
    BY <1>2 DEF DocumentsHold, HoldingTypes, ShelfTypes
  <2> QED BY <1>1, <1>2, <1>3, <2>1 DEF DocumentsHold, AnswersBring
<1>9. LoneIsAlone'
  <2>1. lone \subseteq {u}
    BY <1>1 DEF DocumentsHold, HoldingTypes, LoneIsAlone, Documents!UnderWay
  <2>2. Documents!Reading' = Documents!Reading
    BY <1>4 DEF Documents!Reading
  <2>3. \A r \in Documents!Reading : r \in Reads
    BY DEF Documents!Reading
  <2> QED BY <1>1, <1>3, <1>4, <2>1, <2>2, <2>3 DEF DocumentsHold, LoneIsAlone, Documents!UnderWay
<1>10. Documents!ListFollowsServer'
  <2>1. Documents!Answered \subseteq Documents!Answered' /\ f \in Documents!Answered'
    <3>1. job[u] # "stored"
      BY <1>1
    <3> QED BY <1>3, <3>1 DEF Documents!Answered
  <2> QED BY <1>1, <1>2, <2>1 DEF DocumentsHold, Documents!ListFollowsServer
<1> QED BY <1>4, <1>5, <1>6, <1>7, <1>8, <1>9, <1>10 DEF DocumentsHold

LEMMA OthersUploadStep ==
  ASSUME DocumentNames, DocumentsHold, NEW u \in Uploads, Documents!OthersUpload(u)
  PROVE  DocumentsHold'
<1>1. /\ Documents!Create(u) /\ vague' = vague \cup {made'}
      /\ UNCHANGED <<spare, savedAt, job, given, shelf, top, openDoc, cached, banner,
                     restoring, doomed, scope, assumed, lone>>
  BY DEF Documents!OthersUpload, Documents!sheets
<1>2. PICK f \in 1 .. MaxFiles :
        /\ f = made + 1 /\ made' = f /\ made' \in made .. MaxFiles /\ f \notin 1 .. made /\ 1 .. made' = (1 .. made) \cup {f}
        /\ archive' \in Held /\ DOMAIN archive' = DOMAIN archive \cup {f}
        /\ DOMAIN archive' \subseteq 1 .. made'
  BY <1>1, FileIsCreated
<1>4. /\ ReadingTypes'
      /\ \A r \in Reads :
           /\ reading'[r].pc = reading[r].pc /\ reading'[r].files = reading[r].files
           /\ reading'[r].draft = reading[r].draft /\ reading'[r].looked = reading[r].looked
           /\ reading'[r].after = reading[r].after
  <2>1. reading' = [r \in Reads |->
           IF r \in Documents!Reading
             THEN [reading[r] EXCEPT !.during = reading[r].during \cup {f}] ELSE reading[r]]
    BY <1>2 DEF Documents!OthersUpload, Documents!Touched
  <2> QED BY <1>2, <2>1, ReadingsAreTouched DEF DocumentsHold
<1>5. HoldingTypes'
  BY <1>1, <1>2 DEF DocumentsHold, HoldingTypes, DocumentNames
<1>6. UploadTypes'
  BY <1>1, <1>2 DEF DocumentsHold, HoldingTypes, UploadTypes
<1>7. ShelfTypes' /\ Documents!TicksAreCounted'
  <2>1. ShelfTypes'
    BY <1>1, <1>2 DEF DocumentsHold, ShelfTypes, Documents!ValidArePicked
  <2> QED BY <1>1, <2>1, DocumentsRest
<1>8. AnswersBring'
  BY <1>1, <1>2 DEF DocumentsHold, AnswersBring
<1>9. LoneIsAlone'
  <2>2. Documents!Reading' = Documents!Reading /\ \A r \in Documents!Reading : r \in Reads
    BY <1>4 DEF Documents!Reading
  <2> QED BY <1>1, <1>4, <2>2 DEF DocumentsHold, LoneIsAlone, Documents!UnderWay
<1>10. Documents!ListFollowsServer'
  <2>1. Documents!Answered = Documents!Answered'
    BY <1>1 DEF Documents!Answered
  <2> QED BY <1>1, <1>2, <2>1 DEF DocumentsHold, Documents!ListFollowsServer
<1> QED BY <1>4, <1>5, <1>6, <1>7, <1>8, <1>9, <1>10 DEF DocumentsHold

LEMMA FailUploadStep ==
  ASSUME DocumentNames, DocumentsHold, NEW u \in Uploads, Documents!Fail(u)
  PROVE  DocumentsHold'
<1>1. /\ job[u] \in {"sent", "stored"} /\ job' = [job EXCEPT ![u] = "failed"]
      /\ vague' = (IF job[u] = "stored" THEN vague \cup {given[u]} ELSE vague)
      /\ UNCHANGED <<made, archive, spare, savedAt, given, shelf, top, openDoc, cached, banner, reading,
                     restoring, doomed, scope, assumed, lone>>
  BY DEF Documents!Fail, Documents!server, Documents!sheets
<1>2. ShelfTypes' /\ ReadingTypes' /\ Documents!TicksAreCounted'
  BY <1>1, DocumentsRest
<1>3. HoldingTypes'
  <2>1. vague' \subseteq 1 .. made
    <3>1. given[u] \in 0 .. MaxFiles /\ given[u] <= made /\ (job[u] = "stored" => given[u] # 0)
      BY DEF DocumentsHold, UploadTypes
    <3>2. made \in 0 .. MaxFiles /\ vague \subseteq 1 .. made
      BY DEF DocumentsHold, HoldingTypes
    <3>3. job[u] = "stored" => given[u] \in 1 .. made
      BY <3>1, <3>2 DEF DocumentNames
    <3> QED BY <1>1, <3>2, <3>3
  <2> QED BY <1>1, <2>1 DEF DocumentsHold, HoldingTypes
<1>4. UploadTypes' /\ AnswersBring' /\ job'[u] = "failed" /\ \A v \in Uploads \ {u} : job'[v] = job[v]
  BY <1>1 DEF DocumentsHold, UploadTypes, AnswersBring, JobStates
<1>5. LoneIsAlone'
  <2>1. lone \subseteq {u}
    BY <1>1 DEF DocumentsHold, HoldingTypes, LoneIsAlone, Documents!UnderWay
  <2>2. job[u] = "stored" => given[u] # 0
    BY DEF DocumentsHold, UploadTypes
  <2> QED BY <1>1, <1>4, <2>1, <2>2 DEF DocumentsHold, LoneIsAlone, Documents!Reading, Documents!UnderWay
<1>6. Documents!ListFollowsServer'
  <2>1. vague \cup Documents!Answered \subseteq vague' \cup Documents!Answered'
    BY <1>1, <1>4 DEF Documents!Answered
  <2> QED BY <1>1, <2>1 DEF DocumentsHold, Documents!ListFollowsServer
<1> QED BY <1>2, <1>3, <1>4, <1>5, <1>6 DEF DocumentsHold

\* The answer of an upload lists its file.
LEMMA ShowStep ==
  ASSUME DocumentNames, DocumentsHold, NEW u \in Uploads, Documents!Show(u)
  PROVE  DocumentsHold'
<1>1. PICK f \in 1 .. MaxFiles : f = given[u] /\ f \in 1 .. made /\ job[u] = "stored"
  <2>1. given[u] \in 0 .. MaxFiles /\ given[u] <= made /\ given[u] # 0 /\ job[u] = "stored"
    BY DEF DocumentsHold, UploadTypes, Documents!Show
  <2>2. made \in 0 .. MaxFiles
    BY DEF DocumentsHold, HoldingTypes
  <2> QED BY <2>1, <2>2 DEF DocumentNames
<1>2. /\ job' = [job EXCEPT ![u] = "done"]
      /\ top' = (IF DOMAIN shelf = {} THEN f ELSE top)
      /\ openDoc' = (IF openDoc = None THEN f ELSE openDoc)
      /\ cached' = [cached EXCEPT ![f] = u] /\ banner' = None
      /\ UNCHANGED <<made, archive, spare, savedAt, given, restoring, doomed, vague, lone>>
  BY <1>1 DEF Documents!Show, Documents!server, Documents!OfferAfterUpload
<1>3. shelf' = [g \in DOMAIN shelf \cup {f} |->
                 IF g # f THEN shelf[g]
                 ELSE IF f \in DOMAIN shelf THEN [shelf[f] EXCEPT !.copies = shelf[f].copies + 1]
                 ELSE [of |-> u, picked |-> Documents!Valid(u), copies |-> 1]]
  BY <1>1 DEF Documents!Show
<1>4. /\ DOMAIN shelf' = DOMAIN shelf \cup {f}
      /\ \A g \in DOMAIN shelf \ {f} : shelf'[g] = shelf[g]
      /\ \A g \in DOMAIN shelf : shelf'[g].of = shelf[g].of /\ shelf'[g].picked = shelf[g].picked
                                   /\ shelf'[g] \in Documents!Listed
      /\ f \notin DOMAIN shelf =>
           /\ shelf'[f] \in Documents!Listed /\ shelf'[f].of = u /\ shelf'[f].picked = Documents!Valid(u)
           /\ shelf'[f].copies = 1
  <2>1. DOMAIN shelf' = DOMAIN shelf \cup {f} /\ \A g \in DOMAIN shelf \ {f} : shelf'[g] = shelf[g]
    BY <1>3
  <2>2. \A g \in DOMAIN shelf : shelf[g] \in Documents!Listed
    BY DEF DocumentsHold, ShelfTypes
  <2>3. ASSUME f \in DOMAIN shelf
        PROVE  shelf'[f].of = shelf[f].of /\ shelf'[f].picked = shelf[f].picked /\ shelf'[f] \in Documents!Listed
    <3>1. PICK x \in Documents!Listed : x = shelf[f]
      BY <2>2, <2>3
    <3>2. shelf'[f] = [x EXCEPT !.copies = x.copies + 1]
      BY <1>3, <2>3, <3>1
    <3> QED BY <3>1, <3>2 DEF Documents!Listed
  <2>4. ASSUME f \notin DOMAIN shelf
        PROVE  /\ shelf'[f] \in Documents!Listed /\ shelf'[f].of = u /\ shelf'[f].picked = Documents!Valid(u)
               /\ shelf'[f].copies = 1
    <3>1. shelf'[f] = [of |-> u, picked |-> Documents!Valid(u), copies |-> 1]
      BY <1>3, <2>4
    <3> QED BY <3>1, ValidAreNumbers DEF Documents!Listed
  <2> QED BY <2>1, <2>2, <2>3, <2>4
<1>5. /\ job' \in [Uploads -> JobStates] /\ job'[u] = "done" /\ \A v \in Uploads \ {u} : job'[v] = job[v]
  BY <1>2 DEF DocumentsHold, UploadTypes, JobStates
<1>6. /\ ReadingTypes'
      /\ \A r \in Reads :
           /\ reading'[r].pc = reading[r].pc /\ reading'[r].files = reading[r].files
           /\ reading'[r].draft = reading[r].draft /\ reading'[r].looked = reading[r].looked
           /\ reading'[r].after = reading[r].after
  <2>1. reading' = [r \in Reads |->
           IF r \in Documents!Reading
             THEN [reading[r] EXCEPT !.during = reading[r].during \cup {f}] ELSE reading[r]]
    BY <1>1 DEF Documents!Show, Documents!Touched
  <2>2. made' \in made .. MaxFiles /\ f \in 1 .. made'
    BY <1>1, <1>2 DEF DocumentsHold, HoldingTypes, DocumentNames
  <2> QED BY <1>2, <2>1, <2>2, ReadingsAreTouched DEF DocumentsHold
<1>7. HoldingTypes'
  BY <1>2 DEF DocumentsHold, HoldingTypes
<1>8. UploadTypes'
  BY <1>2, <1>5 DEF DocumentsHold, UploadTypes
<1>9. scope' = scope /\ assumed' \in BOOLEAN
      /\ (~assumed' /\ scope = "all" =>
            ~assumed /\ (Documents!Shown' = Documents!Shown \/ Documents!Shown = None))
  <2>1. DOMAIN shelf' # {} /\ Documents!SheetsFollow
    BY <1>4 DEF Documents!Show
  <2>2. Documents!Shown' # None
    BY <1>2, <1>4 DEF DocumentNames, DocumentsHold, HoldingTypes, ShelfTypes, Documents!Shown, Documents!ShownOf
  <2> QED BY <2>1, <2>2 DEF Documents!SheetsFollow
<1>10. ShelfTypes'
  <2>1. shelf' \in [DOMAIN shelf' -> Documents!Listed]
    <3>1. \A g \in DOMAIN shelf' : shelf'[g] \in Documents!Listed
      BY <1>4
    <3>2. shelf' = [g \in DOMAIN shelf' |-> shelf'[g]]
      BY <1>3
    <3> QED BY <3>1, <3>2
  <2>2. cached' \in [1 .. MaxFiles -> Uploads \cup {None}] /\ openDoc' \in (1 .. MaxFiles) \cup {None}
        /\ top' \in DOMAIN shelf'
    BY <1>2, <1>4 DEF DocumentsHold, ShelfTypes
  <2>3. Documents!ValidArePicked'
    BY <1>4 DEF DocumentsHold, ShelfTypes, Documents!ValidArePicked
  <2> QED BY <1>1, <1>2, <1>4, <1>9, <2>1, <2>2, <2>3 DEF DocumentsHold, ShelfTypes
<1>11. AnswersBring'
  <2>1. \A v \in Uploads \ {u} : job[v] = "stored" => given[v] # f
    BY <1>1 DEF DocumentsHold, UploadTypes
  <2> QED BY <1>2, <1>4, <1>5, <2>1 DEF DocumentsHold, AnswersBring
<1>12. LoneIsAlone'
  <2>1. lone \subseteq {u}
    BY <1>1 DEF DocumentsHold, HoldingTypes, LoneIsAlone, Documents!UnderWay
  <2>2. Documents!Reading' = Documents!Reading /\ \A r \in Documents!Reading : r \in Reads
    BY <1>6 DEF Documents!Reading
  <2> QED BY <1>2, <1>5, <1>6, <2>1, <2>2 DEF DocumentsHold, LoneIsAlone, Documents!UnderWay
<1>13. Documents!ListFollowsServer'
  <2>1. Documents!Answered \subseteq Documents!Answered' \cup {f}
    BY <1>1, <1>2, <1>5 DEF Documents!Answered
  <2>2. f \notin vague => f \in DOMAIN archive /\ f \notin DOMAIN shelf
    BY <1>1 DEF DocumentsHold, AnswersBring
  <2>3. ASSUME NEW g \in (1 .. made) \ (vague \cup doomed \cup Documents!Answered')
        PROVE  /\ g \in DOMAIN shelf' <=> g \in DOMAIN archive
               /\ g \in DOMAIN shelf' => shelf'[g].copies = 1
    <3>1. CASE g = f
      BY <1>4, <2>2, <2>3, <3>1
    <3>2. CASE g # f
      BY <1>4, <2>1, <2>3, <3>2 DEF DocumentsHold, Documents!ListFollowsServer
    <3> QED BY <3>1, <3>2
  <2> QED BY <1>2, <2>3 DEF Documents!ListFollowsServer
<1>14. Documents!TicksAreCounted'
  <2>1. ASSUME scope = "all", ~assumed' PROVE shelf'[Documents!Shown'].picked = Documents!Valid(shelf'[Documents!Shown'].of)
    <3>1. CASE Documents!Shown = None
      <4>1. DOMAIN shelf = {} /\ openDoc \notin DOMAIN shelf
        BY <3>1, ShownIsListed
      <4>2. Documents!Shown' = f
        BY <1>2, <1>4, <4>1 DEF Documents!Shown, Documents!ShownOf
      <4> QED BY <1>4, <4>1, <4>2
    <3>2. CASE Documents!Shown # None
      <4>1. Documents!Shown' = Documents!Shown /\ ~assumed /\ Documents!Shown \in DOMAIN shelf
        BY <1>9, <2>1, <3>2, ShownIsListed
      <4>2. shelf[Documents!Shown].picked = Documents!Valid(shelf[Documents!Shown].of)
        BY <2>1, <3>2, <4>1 DEF DocumentsHold, Documents!TicksAreCounted
      <4> QED BY <1>4, <4>1, <4>2
    <3> QED BY <3>1, <3>2
  <2> QED BY <1>9, <2>1 DEF Documents!TicksAreCounted
<1> QED BY <1>6, <1>7, <1>8, <1>10, <1>11, <1>12, <1>13, <1>14 DEF DocumentsHold

-----------------------------------------------------------------------------
LEMMA AskListStep ==
  ASSUME DocumentNames, DocumentsHold, NEW r \in Reads, Documents!Ask(r)
  PROVE  DocumentsHold'
<1>1. /\ reading[r].pc = "idle" /\ reading' = [reading EXCEPT ![r].pc = "asked"]
      /\ UNCHANGED <<made, archive, spare, savedAt, job, given, shelf, top, openDoc, cached, banner,
                     restoring, doomed, scope, assumed, vague, lone>>
  BY DEF Documents!Ask, Documents!server, Documents!sheets
<1>2. /\ HoldingTypes' /\ UploadTypes' /\ ShelfTypes' /\ AnswersBring' /\ Documents!ListFollowsServer'
      /\ Documents!TicksAreCounted'
  BY <1>1, DocumentsRest
<1>3. /\ reading' \in [Reads -> Readings] /\ \A q \in Reads \ {r} : reading'[q] = reading[q]
      /\ reading'[r].pc = "asked" /\ reading'[r].files = None /\ ~reading'[r].looked /\ ~reading'[r].after
      /\ reading'[r].during = {}
  <2>1. PICK m \in Readings : m = reading[r] /\ m = Documents!Unread
    BY <1>1 DEF DocumentsHold, ReadingTypes
  <2>2. PICK n : n = [m EXCEPT !.pc = "asked"]
    OBVIOUS
  <2>3. /\ n \in Readings /\ n.pc = "asked" /\ n.files = m.files /\ n.looked = m.looked /\ n.after = m.after
        /\ n.during = m.during
    BY <2>2 DEF Readings
  <2>4. m.files = None /\ m.looked = FALSE /\ m.after = FALSE /\ m.during = {}
    BY <2>1 DEF Documents!Unread
  <2>5. reading' = [reading EXCEPT ![r] = n]
    BY <1>1, <2>1, <2>2
  <2> QED BY <2>3, <2>4, <2>5 DEF DocumentsHold, ReadingTypes
<1>4. ReadingTypes'
  BY <1>1, <1>3 DEF DocumentsHold, ReadingTypes
<1>5. LoneIsAlone'
  BY <1>1, <1>3 DEF DocumentsHold, LoneIsAlone, Documents!Reading, Documents!UnderWay
<1> QED BY <1>2, <1>4, <1>5 DEF DocumentsHold

LEMMA TakeListStep ==
  ASSUME DocumentNames, DocumentsHold, NEW r \in Reads, Documents!TakeList(r)
  PROVE  DocumentsHold'
<1>1. /\ reading[r].pc = "asked" /\ reading[r].files = None
      /\ reading' = [reading EXCEPT ![r].files = archive]
      /\ UNCHANGED <<made, archive, spare, savedAt, job, given, shelf, top, openDoc, cached, banner,
                     restoring, doomed, scope, assumed, vague, lone>>
  BY DEF Documents!TakeList, Documents!server, Documents!sheets
<1>2. /\ HoldingTypes' /\ UploadTypes' /\ ShelfTypes' /\ AnswersBring' /\ Documents!ListFollowsServer'
      /\ Documents!TicksAreCounted'
  BY <1>1, DocumentsRest
<1>3. /\ reading' \in [Reads -> Readings] /\ \A q \in Reads \ {r} : reading'[q] = reading[q]
      /\ reading'[r].pc = "asked" /\ reading'[r].files = archive
      /\ reading'[r].looked = reading[r].looked /\ reading'[r].draft = reading[r].draft
      /\ reading'[r].after = reading[r].after /\ reading'[r].during = reading[r].during
  <2>1. PICK m \in Readings : m = reading[r] /\ m.pc = "asked"
    BY <1>1 DEF DocumentsHold, ReadingTypes
  <2>2. PICK h \in Held : h = archive
    BY DEF DocumentsHold, HoldingTypes
  <2>3. PICK n : n = [m EXCEPT !.files = h]
    OBVIOUS
  <2>4. n \in Readings /\ n.pc = "asked" /\ n.files = h /\ n.looked = m.looked /\ n.after = m.after
        /\ n.draft = m.draft /\ n.during = m.during
    BY <2>1, <2>3 DEF Readings
  <2>5. reading' = [reading EXCEPT ![r] = n]
    BY <1>1, <2>1, <2>2, <2>3
  <2> QED BY <2>1, <2>2, <2>4, <2>5 DEF DocumentsHold, ReadingTypes
<1>4. ReadingTypes'
  <2>1. DOMAIN archive \subseteq 1 .. made
    BY DEF DocumentsHold, HoldingTypes
  <2> QED BY <1>1, <1>3, <2>1 DEF DocumentsHold, ReadingTypes
<1>5. LoneIsAlone'
  BY <1>1, <1>3 DEF DocumentsHold, LoneIsAlone, Documents!Reading, Documents!UnderWay
<1> QED BY <1>2, <1>4, <1>5 DEF DocumentsHold

LEMMA TakeDraftStep ==
  ASSUME DocumentNames, DocumentsHold, NEW r \in Reads, Documents!TakeDraft(r)
  PROVE  DocumentsHold'
<1>1. PICK d \in Uploads \cup {None} :
      /\ reading[r].pc = "asked" /\ ~reading[r].looked
      /\ reading' = [reading EXCEPT ![r].looked = TRUE, ![r].draft = d]
      /\ lone' \subseteq lone /\ (lone' # {} => lone' \subseteq {d})
      /\ UNCHANGED <<made, archive, spare, savedAt, job, given, shelf, top, openDoc, cached, banner,
                     restoring, doomed, scope, assumed, vague>>
  <2>1. CASE reading' = [reading EXCEPT ![r].looked = TRUE, ![r].draft = spare] /\ lone' = lone \cap {spare}
    BY <2>1 DEF DocumentsHold, HoldingTypes, Documents!TakeDraft, Documents!server, Documents!sheets
  <2>2. CASE reading' = [reading EXCEPT ![r].looked = TRUE] /\ lone' = {}
    <3>1. PICK m \in Readings : m = reading[r]
      BY DEF DocumentsHold, ReadingTypes
    <3>2. [[m EXCEPT !.looked = TRUE] EXCEPT !.draft = m.draft] = [m EXCEPT !.looked = TRUE]
           /\ m.draft \in Uploads \cup {None}
      BY DEF Readings
    <3>3. reading' = [reading EXCEPT ![r].looked = TRUE, ![r].draft = m.draft]
      BY <2>2, <3>1, <3>2
    <3> QED BY <2>2, <3>2, <3>3 DEF Documents!TakeDraft, Documents!server, Documents!sheets
  <2> QED BY <2>1, <2>2 DEF Documents!TakeDraft
<1>2. /\ UploadTypes' /\ ShelfTypes' /\ AnswersBring' /\ Documents!ListFollowsServer'
      /\ Documents!TicksAreCounted'
  BY <1>1, DocumentsRest
<1>3. HoldingTypes'
  BY <1>1 DEF DocumentsHold, HoldingTypes
<1>4. /\ reading' \in [Reads -> Readings] /\ \A q \in Reads \ {r} : reading'[q] = reading[q]
      /\ reading'[r].pc = "asked" /\ reading'[r].files = reading[r].files
      /\ reading'[r].looked = TRUE /\ reading'[r].draft = d
      /\ reading'[r].after = reading[r].after /\ reading'[r].during = reading[r].during
  <2>1. PICK m \in Readings : m = reading[r] /\ m.pc = "asked"
    BY <1>1 DEF DocumentsHold, ReadingTypes
  <2>2. PICK n : n = [[m EXCEPT !.looked = TRUE] EXCEPT !.draft = d]
    OBVIOUS
  <2>3. n \in Readings /\ n.pc = "asked" /\ n.files = m.files /\ n.looked = TRUE /\ n.after = m.after
        /\ n.draft = d /\ n.during = m.during
    BY <1>1, <2>1, <2>2 DEF Readings
  <2>4. reading' = [reading EXCEPT ![r] = n]
    BY <1>1, <2>1, <2>2
  <2> QED BY <2>1, <2>3, <2>4 DEF DocumentsHold, ReadingTypes
<1>5. ReadingTypes'
  BY <1>1, <1>4 DEF DocumentsHold, ReadingTypes
<1>6. LoneIsAlone'
  <2>1. restoring' # Documents!NoCall => lone' = {}
    BY <1>1 DEF DocumentsHold, LoneIsAlone
  <2>2. ASSUME NEW u \in lone'
        PROVE  /\ job[u] # "idle" /\ \A v \in Uploads \ {u} : ~Documents!UnderWay(v)
               /\ job[u] = "kept" => spare = u
               /\ job[u] = "sent" \/ (job[u] = "failed" /\ given[u] = 0) => spare = u /\ banner = u
               /\ \A q \in Reads : reading'[q].pc = "asked" =>
                    ~reading'[q].after /\ (reading'[q].looked => reading'[q].draft = u)
    <3>1. u \in lone /\ u = d
      BY <1>1, <2>2
    <3>2. \A q \in Reads : reading[q].pc = "asked" =>
            ~reading[q].after /\ (reading[q].looked => reading[q].draft = u)
      BY <3>1 DEF DocumentsHold, LoneIsAlone, Documents!Reading
    <3> QED BY <1>1, <1>4, <3>1, <3>2 DEF DocumentsHold, LoneIsAlone
  <2> QED BY <1>1, <2>1, <2>2 DEF LoneIsAlone, Documents!Reading, Documents!UnderWay
<1> QED BY <1>2, <1>3, <1>5, <1>6 DEF DocumentsHold

LEMMA ReadFailsStep ==
  ASSUME DocumentNames, DocumentsHold, NEW r \in Reads, Documents!ReadFails(r)
  PROVE  DocumentsHold'
<1>1. /\ reading[r].pc = "asked" /\ reading' = [reading EXCEPT ![r].pc = "over"]
      /\ restoring' = restoring \/ restoring' = Documents!NoCall
      /\ UNCHANGED <<made, archive, spare, savedAt, job, given, shelf, top, openDoc, cached, banner,
                     doomed, scope, assumed, vague, lone>>
  BY DEF Documents!ReadFails, Documents!server, Documents!sheets
<1>2. /\ UploadTypes' /\ ShelfTypes' /\ AnswersBring' /\ Documents!ListFollowsServer'
      /\ Documents!TicksAreCounted'
  BY <1>1, DocumentsRest
<1>3. HoldingTypes'
  BY <1>1, NoCallIsCall DEF DocumentsHold, HoldingTypes
<1>4. /\ ReadingTypes' /\ \A q \in Reads \ {r} : reading'[q] = reading[q]
      /\ reading'[r].pc = "over"
  BY <1>1, ReadingIsOver DEF DocumentsHold
<1>5. LoneIsAlone'
  BY <1>1, <1>4 DEF DocumentsHold, LoneIsAlone, Documents!Reading, Documents!UnderWay
<1> QED BY <1>2, <1>3, <1>4, <1>5 DEF DocumentsHold

\* The answers of a reading replace what is listed.
LEMMA ApplyStep ==
  ASSUME DocumentNames, DocumentsHold, NEW r \in Reads, Documents!Apply(r)
  PROVE  DocumentsHold'
<1>1. PICK m \in Readings :
        /\ m = reading[r] /\ m.pc = "asked" /\ m.files # None /\ m.looked = TRUE /\ m.files \in Held
        /\ DOMAIN m.files \subseteq 1 .. made
        /\ \A g \in (1 .. made) \ m.during : g \in DOMAIN m.files <=> g \in DOMAIN archive
        /\ m.during \subseteq 1 .. MaxFiles
  BY DEF DocumentsHold, ReadingTypes, Readings, Documents!Apply
<1>2. PICK files : files = m.files
  OBVIOUS
<1>3. PICK newest : newest = CHOOSE f \in DOMAIN files : \A g \in DOMAIN files : g <= f
  OBVIOUS
<1>4. DOMAIN files # {} => newest \in DOMAIN files
  <2>1. ASSUME DOMAIN files # {} PROVE \E f \in DOMAIN files : \A g \in DOMAIN files : f >= g
    <3>1. PICK n \in Nat : n = made
      BY DEF DocumentNames, DocumentsHold, HoldingTypes
    <3>2. DOMAIN files \subseteq 1 .. n
      BY <1>1, <1>2, <3>1
    <3> QED BY <2>1, <3>2, HighestVersion
  <2>2. DOMAIN files \subseteq Nat
    BY <1>1, <1>2 DEF DocumentNames, DocumentsHold, HoldingTypes
  <2> QED BY <1>3, <2>1, <2>2
<1>5. /\ reading' = [reading EXCEPT ![r].pc = "over"]
      /\ shelf' = [f \in DOMAIN files |-> Documents!Mapped(f, files[f])]
      /\ top' = (IF DOMAIN files = {} THEN None ELSE newest)
      /\ openDoc' = (IF openDoc \in DOMAIN files \/ DOMAIN files = {} THEN openDoc ELSE newest)
      /\ banner' = (IF m.after THEN None ELSE m.draft)
      /\ restoring' = restoring \/ restoring' = Documents!NoCall
      /\ vague' = m.during \cup doomed \cup Documents!Answered
      /\ scope' = (IF DOMAIN files = {} THEN "all" ELSE scope)
      /\ UNCHANGED <<made, archive, spare, savedAt, job, given, cached, doomed, lone>>
  BY <1>1, <1>2, <1>3 DEF Documents!Apply, Documents!server, Documents!Unsettled
<1>6. /\ assumed' \in BOOLEAN
      /\ assumed' <=> scope' = "all" /\ Documents!Shown' # None
                        /\ shelf'[Documents!Shown'].of # files[Documents!Shown']
  BY <1>1, <1>2 DEF Documents!Apply
<1>7. UploadTypes'
  BY <1>5, DocumentsRest
<1>8. /\ ReadingTypes' /\ \A q \in Reads \ {r} : reading'[q] = reading[q]
      /\ reading'[r].pc = "over"
  BY <1>5, ReadingIsOver DEF DocumentsHold
<1>9. vague' \subseteq 1 .. made
  <2>1. Documents!Answered \subseteq 1 .. made
    <3>1. \A u \in Uploads : job[u] = "stored" => given[u] \in 1 .. made
      BY DEF DocumentsHold, UploadTypes, HoldingTypes, DocumentNames
    <3> QED BY <3>1 DEF Documents!Answered
  <2>2. m.during \subseteq 1 .. made
    BY <1>1 DEF DocumentsHold, ReadingTypes
  <2> QED BY <1>5, <2>1, <2>2 DEF DocumentsHold, HoldingTypes
<1>10. HoldingTypes'
  <2>1. banner' \in Uploads \cup {None}
    BY <1>5 DEF Readings
  <2> QED BY <1>5, <1>9, <2>1, NoCallIsCall DEF DocumentsHold, HoldingTypes
<1>11. ASSUME NEW f \in DOMAIN files
       PROVE  /\ shelf'[f] \in Documents!Listed /\ shelf'[f].copies = 1
              /\ shelf'[f].picked \subseteq Documents!Valid(shelf'[f].of)
              /\ shelf'[f].of = files[f] => shelf'[f].picked = Documents!Valid(shelf'[f].of)
  <2>1. files[f] \in Uploads /\ f \in 1 .. MaxFiles
    BY <1>1, <1>2 DEF Held
  <2>2. PICK mine \in Uploads : mine = (IF cached[f] # None THEN cached[f] ELSE files[f])
    BY <2>1 DEF DocumentsHold, ShelfTypes
  <2>3. shelf'[f] = [of |-> mine, copies |-> 1,
          picked |-> Documents!Valid(mine) \ (DOMAIN Dropped[files[f]] \ Documents!Valid(files[f]))]
    BY <1>5, <2>2 DEF Documents!Mapped
  <2>4. Documents!Valid(mine) \in SUBSET Nat
    BY ValidAreNumbers
  <2> QED BY <2>3, <2>4 DEF Documents!Listed
<1>12. ShelfTypes'
  <2>1. shelf' \in [DOMAIN shelf' -> Documents!Listed] /\ DOMAIN shelf' = DOMAIN files
    BY <1>5, <1>11
  <2>2. Documents!ValidArePicked'
    BY <1>11, <2>1 DEF Documents!ValidArePicked
  <2>3. /\ openDoc' \in (1 .. MaxFiles) \cup {None} /\ scope' \in {"all", "selected"}
        /\ top' \in DOMAIN shelf' \/ (top' = None /\ DOMAIN shelf' = {})
    <3>1. DOMAIN files \subseteq 1 .. MaxFiles
      BY <1>1, <1>2 DEF Held
    <3> QED BY <1>4, <1>5, <2>1, <3>1 DEF DocumentsHold, ShelfTypes
  <2> QED BY <1>1, <1>2, <1>5, <1>6, <2>1, <2>2, <2>3 DEF DocumentsHold, ShelfTypes
<1>13. AnswersBring'
  BY <1>5 DEF AnswersBring, Documents!Answered
<1>14. LoneIsAlone'
  <2>1. ASSUME NEW u \in lone PROVE banner' = u
    BY <1>1, <1>5, <2>1 DEF DocumentsHold, LoneIsAlone, Documents!Reading
  <2> QED BY <1>5, <1>8, <2>1 DEF DocumentsHold, LoneIsAlone, Documents!Reading, Documents!UnderWay
<1>15. Documents!ListFollowsServer'
  <2>1. DOMAIN shelf' = DOMAIN files
    BY <1>5
  <2> QED BY <1>1, <1>2, <1>5, <1>11, <2>1 DEF Documents!ListFollowsServer
<1>16. Documents!TicksAreCounted'
  <2>1. ASSUME Documents!Shown' # None PROVE Documents!Shown' \in DOMAIN files
    BY <1>4, <1>5, <2>1 DEF Documents!Shown, Documents!ShownOf
  <2> QED BY <1>6, <1>11, <2>1 DEF Documents!TicksAreCounted
<1> QED BY <1>7, <1>8, <1>10, <1>12, <1>13, <1>14, <1>15, <1>16 DEF DocumentsHold

-----------------------------------------------------------------------------
LEMMA OpenDocumentStep ==
  ASSUME DocumentNames, DocumentsHold, NEW f \in 1 .. MaxFiles, Documents!Open(f)
  PROVE  DocumentsHold'
<1>1. /\ f \in DOMAIN shelf /\ openDoc' = f /\ Documents!SheetsFollow
      /\ UNCHANGED <<made, archive, spare, savedAt, job, given, shelf, top, cached, banner, reading,
                     restoring, doomed, vague, lone>>
  BY DEF Documents!Open, Documents!server
<1>2. /\ HoldingTypes' /\ UploadTypes' /\ ReadingTypes' /\ AnswersBring' /\ LoneIsAlone'
      /\ Documents!ListFollowsServer'
  BY <1>1, DocumentsRest
<1>3. Documents!Shown' = f /\ f # None /\ Documents!Shown # None
  BY <1>1, ShownIsListed DEF DocumentNames, Documents!Shown, Documents!ShownOf
<1>4. scope' = scope /\ assumed' \in BOOLEAN
      /\ (~assumed' /\ scope = "all" => ~assumed /\ f = Documents!Shown)
  BY <1>1, <1>3 DEF Documents!SheetsFollow
<1>5. ShelfTypes'
  BY <1>1, <1>4 DEF DocumentsHold, ShelfTypes, Documents!ValidArePicked
<1>6. Documents!TicksAreCounted'
  BY <1>1, <1>3, <1>4 DEF DocumentsHold, Documents!TicksAreCounted
<1> QED BY <1>2, <1>5, <1>6 DEF DocumentsHold

LEMMA DeleteDocumentStep ==
  ASSUME DocumentNames, DocumentsHold, NEW f \in 1 .. MaxFiles, Documents!Delete(f)
  PROVE  DocumentsHold'
<1>1. PICK rest : rest = DOMAIN shelf \ {f}
  OBVIOUS
<1>2. /\ f \in DOMAIN shelf /\ f \notin doomed /\ doomed' = doomed \cup {f}
      /\ shelf' = [g \in rest |-> shelf[g]]
      /\ IF rest = {} THEN top' = None ELSE IF f = top THEN top' \in rest ELSE top' = top
      /\ openDoc' = (IF openDoc = f THEN top' ELSE openDoc)
      /\ cached' = [cached EXCEPT ![f] = None] /\ Documents!SheetsFollow
      /\ UNCHANGED <<made, archive, spare, savedAt, job, given, banner, restoring, vague, lone>>
  BY <1>1 DEF Documents!Delete, Documents!server
<1>3. /\ DOMAIN shelf' = rest /\ \A g \in rest : shelf'[g] = shelf[g] /\ g \in DOMAIN shelf /\ g # f
      /\ f \in 1 .. made
  BY <1>1, <1>2 DEF DocumentsHold, ShelfTypes
<1>4. /\ ReadingTypes'
      /\ \A r \in Reads :
           /\ reading'[r].pc = reading[r].pc /\ reading'[r].files = reading[r].files
           /\ reading'[r].draft = reading[r].draft /\ reading'[r].looked = reading[r].looked
           /\ reading'[r].after = reading[r].after
  <2>1. reading' = [r \in Reads |->
           IF r \in Documents!Reading
             THEN [reading[r] EXCEPT !.during = reading[r].during \cup {f}] ELSE reading[r]]
    BY DEF Documents!Delete, Documents!Touched
  <2>2. made' \in made .. MaxFiles /\ f \in 1 .. made'
    BY <1>2, <1>3 DEF DocumentsHold, HoldingTypes, DocumentNames
  <2> QED BY <1>2, <2>1, <2>2, ReadingsAreTouched DEF DocumentsHold
<1>5. UploadTypes'
  BY <1>2, DocumentsRest
<1>6. HoldingTypes'
  BY <1>2, <1>3 DEF DocumentsHold, HoldingTypes
<1>7. top' \in rest \/ (top' = None /\ rest = {})
  BY <1>1, <1>2 DEF DocumentsHold, ShelfTypes
<1>8. /\ scope' \in {"all", "selected"} /\ assumed' \in BOOLEAN
      /\ rest # {} /\ scope' = "all" /\ ~assumed' =>
           scope = "all" /\ ~assumed /\ Documents!Shown' = Documents!Shown
      /\ Documents!Shown' # None => Documents!Shown' \in rest
  <2>1. Documents!Shown # None
    BY <1>2, ShownIsListed
  <2>2. Documents!Shown' = (IF openDoc' \in rest THEN openDoc' ELSE top')
    BY <1>3 DEF Documents!Shown, Documents!ShownOf
  <2>3. None \notin rest
    BY <1>1, ShownIsListed
  <2>4. rest # {} => Documents!Shown' \in rest
    BY <1>7, <2>2
  <2>5. rest = {} => Documents!Shown' = None
    BY <1>7, <2>2
  <2>6. scope \in {"all", "selected"} /\ scope' = (IF rest = {} THEN "all" ELSE scope)
        /\ assumed' = (scope' = "all" /\ Documents!Shown' # None
                   /\ (assumed \/ (Documents!Shown' # Documents!Shown /\ Documents!Shown # None)))
    BY <1>2, <1>3 DEF Documents!SheetsFollow, DocumentsHold, ShelfTypes
  <2> QED BY <2>1, <2>3, <2>4, <2>5, <2>6
<1>9. ShelfTypes'
  <2>1. shelf' \in [DOMAIN shelf' -> Documents!Listed]
    BY <1>2, <1>3 DEF DocumentsHold, ShelfTypes
  <2>3. openDoc' \in (1 .. MaxFiles) \cup {None}
    <3>1. rest \subseteq 1 .. made /\ made \in 0 .. MaxFiles
      BY <1>1 DEF DocumentsHold, ShelfTypes, HoldingTypes
    <3>2. rest \subseteq 1 .. MaxFiles
      BY <3>1 DEF DocumentNames
    <3> QED BY <1>2, <1>7, <3>2 DEF DocumentsHold, ShelfTypes
  <2>4. DOMAIN shelf' \subseteq 1 .. made' /\ cached' \in [1 .. MaxFiles -> Uploads \cup {None}]
    BY <1>1, <1>2, <1>3 DEF DocumentsHold, ShelfTypes
  <2>5. Documents!ValidArePicked'
    BY <1>3 DEF DocumentsHold, ShelfTypes, Documents!ValidArePicked
  <2> QED BY <1>3, <1>7, <1>8, <2>1, <2>3, <2>4, <2>5 DEF ShelfTypes
<1>10. AnswersBring'
  BY <1>1, <1>2, <1>3 DEF DocumentsHold, AnswersBring
<1>11. LoneIsAlone'
  <2>1. Documents!Reading' = Documents!Reading /\ \A r \in Documents!Reading : r \in Reads
    BY <1>4 DEF Documents!Reading
  <2> QED BY <1>2, <1>4, <2>1 DEF DocumentsHold, LoneIsAlone, Documents!UnderWay
<1>12. Documents!ListFollowsServer'
  <2>1. Documents!Answered' = Documents!Answered
    BY <1>2 DEF Documents!Answered
  <2> QED BY <1>1, <1>2, <1>3, <2>1 DEF DocumentsHold, Documents!ListFollowsServer
<1>13. Documents!TicksAreCounted'
  BY <1>3, <1>7, <1>8 DEF DocumentsHold, Documents!TicksAreCounted
<1> QED BY <1>4, <1>5, <1>6, <1>9, <1>10, <1>11, <1>12, <1>13 DEF DocumentsHold

LEMMA ServeDeleteStep ==
  ASSUME DocumentNames, DocumentsHold, NEW f \in 1 .. MaxFiles, Documents!ServeDelete(f)
  PROVE  DocumentsHold'
<1>1. /\ f \in doomed /\ doomed' = doomed \ {f}
      /\ archive' = [g \in DOMAIN archive \ {f} |-> archive[g]]
      /\ vague' = (IF f \in DOMAIN shelf THEN vague \cup {f} ELSE vague)
      /\ UNCHANGED <<made, spare, savedAt, job, given, shelf, top, openDoc, cached, banner,
                     restoring, scope, assumed, lone>>
  BY DEF Documents!ServeDelete, Documents!sheets
<1>2. UploadTypes' /\ ShelfTypes' /\ Documents!TicksAreCounted'
  BY <1>1, DocumentsRest
<1>3. DOMAIN archive' = DOMAIN archive \ {f} /\ archive' \in Held
  <2>1. PICK S \in SUBSET (1 .. MaxFiles) : archive \in [S -> Uploads]
    BY DEF DocumentsHold, HoldingTypes, Held
  <2>2. archive' \in [S \ {f} -> Uploads] /\ S \ {f} \in SUBSET (1 .. MaxFiles)
    BY <1>1, <2>1
  <2> QED BY <1>1, <2>1, <2>2 DEF Held
<1>4. /\ ReadingTypes'
      /\ \A r \in Reads :
           /\ reading'[r].pc = reading[r].pc /\ reading'[r].files = reading[r].files
           /\ reading'[r].draft = reading[r].draft /\ reading'[r].looked = reading[r].looked
           /\ reading'[r].after = reading[r].after
  <2>1. reading' = [r \in Reads |->
           IF r \in Documents!Reading
             THEN [reading[r] EXCEPT !.during = reading[r].during \cup {f}] ELSE reading[r]]
    BY DEF Documents!ServeDelete, Documents!Touched
  <2>2. made' \in made .. MaxFiles /\ f \in 1 .. made'
    BY <1>1 DEF DocumentsHold, HoldingTypes, DocumentNames
  <2> QED BY <1>1, <1>3, <2>1, <2>2, ReadingsAreTouched DEF DocumentsHold
<1>5. HoldingTypes'
  BY <1>1, <1>3 DEF DocumentsHold, HoldingTypes
<1>6. AnswersBring'
  BY <1>1, <1>3 DEF DocumentsHold, AnswersBring
<1>7. LoneIsAlone'
  <2>1. Documents!Reading' = Documents!Reading /\ \A r \in Documents!Reading : r \in Reads
    BY <1>4 DEF Documents!Reading
  <2> QED BY <1>1, <1>4, <2>1 DEF DocumentsHold, LoneIsAlone, Documents!UnderWay
<1>8. Documents!ListFollowsServer'
  <2>1. Documents!Answered' = Documents!Answered
    BY <1>1 DEF Documents!Answered
  <2> QED BY <1>1, <1>3, <2>1 DEF DocumentsHold, Documents!ListFollowsServer
<1> QED BY <1>2, <1>4, <1>5, <1>6, <1>7, <1>8 DEF DocumentsHold

LEMMA RefuseDeleteStep ==
  ASSUME DocumentNames, DocumentsHold, NEW f \in 1 .. MaxFiles, Documents!RefuseDelete(f)
  PROVE  DocumentsHold'
<1>1. /\ f \in doomed /\ doomed' = doomed \ {f} /\ vague' = vague \cup {f}
      /\ UNCHANGED <<made, archive, spare, savedAt, job, given, shelf, top, openDoc, cached, banner,
                     reading, restoring, scope, assumed, lone>>
  BY DEF Documents!RefuseDelete, Documents!server, Documents!sheets
<1>2. UploadTypes' /\ ShelfTypes' /\ ReadingTypes' /\ LoneIsAlone' /\ Documents!TicksAreCounted'
  BY <1>1, DocumentsRest
<1>3. HoldingTypes' /\ AnswersBring'
  BY <1>1 DEF DocumentsHold, HoldingTypes, AnswersBring
<1>4. Documents!ListFollowsServer'
  <2>1. Documents!Answered' = Documents!Answered
    BY <1>1 DEF Documents!Answered
  <2> QED BY <1>1, <2>1 DEF DocumentsHold, Documents!ListFollowsServer
<1> QED BY <1>2, <1>3, <1>4 DEF DocumentsHold

-----------------------------------------------------------------------------
\* The draft is to be restored or discarded: nothing of it is an upload's own.
LEMMA CallStep ==
  ASSUME DocumentNames, DocumentsHold,
         restoring' \in [op : {"none", "restore", "discard"}, pc : {"none", "sent", "served"}],
         lone' = {}, spare' \in {spare, None}, banner' \in {banner, None},
         UNCHANGED <<made, archive, savedAt, job, given, shelf, top, openDoc, cached,
                     reading, doomed, scope, assumed, vague>>
  PROVE  DocumentsHold'
<1>1. /\ UploadTypes' /\ ShelfTypes' /\ ReadingTypes' /\ AnswersBring' /\ Documents!ListFollowsServer'
      /\ Documents!TicksAreCounted'
  BY DocumentsRest
<1>2. HoldingTypes' /\ LoneIsAlone'
  BY DEF DocumentsHold, HoldingTypes, LoneIsAlone
<1> QED BY <1>1, <1>2 DEF DocumentsHold

LEMMA CallsStep ==
  ASSUME DocumentNames, DocumentsHold,
         \/ Documents!Restore \/ Documents!Discard \/ Documents!ServeDiscard \/ Documents!Discarded
         \/ Documents!CallFails
  PROVE  DocumentsHold'
<1>1. /\ lone' = {} /\ spare' \in {spare, None} /\ banner' \in {banner, None}
      /\ UNCHANGED <<made, archive, savedAt, job, given, shelf, top, openDoc, cached,
                     reading, doomed, scope, assumed, vague>>
  <2>1. restoring = [op |-> "discard", pc |-> "sent"] => restoring # Documents!NoCall
    BY DEF Documents!NoCall
  <2>2. restoring = [op |-> "discard", pc |-> "served"] => restoring # Documents!NoCall
    BY DEF Documents!NoCall
  <2>3. restoring.pc = "sent" => restoring # Documents!NoCall
    BY DEF Documents!NoCall
  <2>4. restoring # Documents!NoCall => lone = {}
    BY DEF DocumentsHold, LoneIsAlone
  <2> QED
    BY <2>1, <2>2, <2>3, <2>4 DEF Documents!Restore, Documents!Discard, Documents!ServeDiscard,
       Documents!Discarded, Documents!CallFails, Documents!server, Documents!sheets
<1>2. restoring' \in [op : {"none", "restore", "discard"}, pc : {"none", "sent", "served"}]
  BY NoCallIsCall DEF Documents!Restore, Documents!Discard, Documents!ServeDiscard,
     Documents!Discarded, Documents!CallFails
<1> QED BY <1>1, <1>2, CallStep

\* A restored draft is a new version, or a first file, and the list is read again.
LEMMA PromoteStep ==
  ASSUME DocumentNames, DocumentsHold, NEW r \in Reads, Documents!Promote(r)
  PROVE  DocumentsHold'
<1>1. /\ restoring = [op |-> "restore", pc |-> "sent"] /\ spare # None /\ reading[r].pc = "idle"
      /\ restoring' = [op |-> "restore", pc |-> "served"] /\ spare' = None
      /\ UNCHANGED <<savedAt, job, given, shelf, top, openDoc, cached, banner, doomed, scope, assumed, lone>>
  BY DEF Documents!Promote, Documents!sheets
<1>2. lone = {}
  BY <1>1 DEF DocumentsHold, LoneIsAlone, Documents!NoCall
<1>3. PICK n \in Readings :
        /\ n = [reading[r] EXCEPT !.pc = "asked", !.after = TRUE]
        /\ n.pc = "asked" /\ n.files = None /\ n.during = {}
  <2>1. PICK m \in Readings : m = reading[r] /\ m = Documents!Unread
    BY <1>1 DEF DocumentsHold, ReadingTypes
  <2>2. PICK k : k = [[m EXCEPT !.pc = "asked"] EXCEPT !.after = TRUE]
    OBVIOUS
  <2>3. k \in Readings /\ k.pc = "asked" /\ k.files = m.files /\ k.during = m.during
    BY <2>2 DEF Readings
  <2>4. m.files = None /\ m.during = {}
    BY <2>1 DEF Documents!Unread
  <2> QED BY <2>1, <2>2, <2>3, <2>4
<1>4. LoneIsAlone'
  BY <1>1, <1>2 DEF LoneIsAlone
<1>5. restoring' \in [op : {"none", "restore", "discard"}, pc : {"none", "sent", "served"}]
  BY <1>1
<1>6. CASE /\ Documents!Create(spare) /\ vague' = vague \cup {made'}
           /\ reading' = [Documents!Touched(made') EXCEPT ![r] = [@ EXCEPT !.pc = "asked", !.after = TRUE]]
  <2>1. spare \in Uploads
    BY <1>1 DEF DocumentsHold, HoldingTypes
  <2>2. PICK f \in 1 .. MaxFiles :
        /\ f = made + 1 /\ made' = f /\ made' \in made .. MaxFiles /\ f \notin 1 .. made /\ 1 .. made' = (1 .. made) \cup {f}
        /\ archive' \in Held /\ DOMAIN archive' = DOMAIN archive \cup {f}
        /\ DOMAIN archive' \subseteq 1 .. made'
    BY <1>6, <2>1, FileIsCreated
  <2>3. PICK was : was = [q \in Reads |->
           IF q \in Documents!Reading
             THEN [reading[q] EXCEPT !.during = reading[q].during \cup {f}] ELSE reading[q]]
    OBVIOUS
  <2>4. reading' = [was EXCEPT ![r] = n] /\ was[r] = reading[r]
    <3>1. was[r] = reading[r]
      BY <1>1, <2>3 DEF Documents!Reading
    <3>2. reading' = [was EXCEPT ![r] = [was[r] EXCEPT !.pc = "asked", !.after = TRUE]]
      BY <1>6, <2>2, <2>3 DEF Documents!Touched
    <3> QED BY <1>3, <3>1, <3>2
  <2>5. ReadingTypes'
    <3>1. ASSUME NEW q \in Reads \ {r}
          PROVE  /\ reading'[q] \in Readings /\ reading'[q].pc = reading[q].pc /\ reading'[q].files = reading[q].files
                 /\ reading[q].pc = "asked" => reading'[q].during = reading[q].during \cup {f}
                 /\ reading[q].pc # "asked" => reading'[q] = reading[q]
      <4>1. PICK m \in Readings : m = reading[q]
        BY DEF DocumentsHold, ReadingTypes
      <4>2. reading'[q] = IF m.pc = "asked" THEN [m EXCEPT !.during = m.during \cup {f}] ELSE m
        BY <2>3, <2>4, <4>1 DEF Documents!Reading
      <4> QED BY <4>1, <4>2 DEF Readings
    <3>2. reading'[r] = n
      BY <2>3, <2>4
    <3>3. reading' \in [Reads -> Readings]
      <4>1. \A q \in Reads : reading'[q] \in Readings
        BY <3>1, <3>2
      <4>2. reading' = [q \in Reads |-> reading'[q]]
        BY <2>3, <2>4
      <4> QED BY <4>1, <4>2
    <3>4. ASSUME NEW q \in Reads
          PROVE  /\ reading'[q].pc = "idle" => reading'[q] = Documents!Unread
                 /\ reading'[q].during \subseteq 1 .. made'
                 /\ reading'[q].files # None => DOMAIN reading'[q].files \subseteq 1 .. made'
                 /\ reading'[q].pc = "asked" /\ reading'[q].files # None =>
                      \A g \in (1 .. made') \ reading'[q].during :
                        g \in DOMAIN reading'[q].files <=> g \in DOMAIN archive'
      <4>1. CASE q = r
        BY <1>3, <3>2, <4>1
      <4>2. CASE q # r
        <5>1. reading[q].during \subseteq 1 .. made
              /\ (reading[q].files # None => DOMAIN reading[q].files \subseteq 1 .. made)
              /\ (reading[q].pc = "idle" => reading[q] = Documents!Unread)
          BY DEF DocumentsHold, ReadingTypes
        <5>2. reading'[q].during \subseteq 1 .. made'
          BY <2>2, <3>1, <4>2, <5>1
        <5>3. ASSUME reading'[q].pc = "asked", reading'[q].files # None,
                     NEW g \in (1 .. made') \ reading'[q].during
              PROVE  g \in DOMAIN reading'[q].files <=> g \in DOMAIN archive'
          <6>1. reading[q].pc = "asked" /\ reading[q].files # None /\ g \in 1 .. made /\ g # f
                /\ g \notin reading[q].during
            BY <2>2, <3>1, <4>2, <5>3
          <6>2. g \in DOMAIN reading[q].files <=> g \in DOMAIN archive
            BY <6>1 DEF DocumentsHold, ReadingTypes
          <6> QED BY <2>2, <3>1, <4>2, <6>1, <6>2
        <5> QED BY <2>2, <3>1, <4>2, <5>1, <5>2, <5>3
      <4> QED BY <4>1, <4>2
    <3> QED BY <3>3, <3>4 DEF ReadingTypes
  <2>6. HoldingTypes'
    BY <1>1, <1>5, <1>6, <2>2 DEF DocumentsHold, HoldingTypes, DocumentNames
  <2>7. UploadTypes'
    BY <1>1, <2>2 DEF DocumentsHold, HoldingTypes, UploadTypes
  <2>8. ShelfTypes' /\ Documents!TicksAreCounted'
    <3>1. ShelfTypes'
      BY <1>1, <2>2 DEF DocumentsHold, ShelfTypes, Documents!ValidArePicked
    <3> QED BY <1>1, <3>1, DocumentsRest
  <2>9. AnswersBring'
    BY <1>1, <1>6, <2>2 DEF DocumentsHold, AnswersBring
  <2>10. Documents!ListFollowsServer'
    <3>1. Documents!Answered = Documents!Answered'
      BY <1>1 DEF Documents!Answered
    <3> QED BY <1>1, <1>6, <2>2, <3>1 DEF DocumentsHold, Documents!ListFollowsServer
  <2> QED BY <1>4, <2>5, <2>6, <2>7, <2>8, <2>9, <2>10 DEF DocumentsHold
<1>7. ASSUME NEW f \in DOMAIN archive, archive' = [archive EXCEPT ![f] = spare],
             reading' = [reading EXCEPT ![r] = [@ EXCEPT !.pc = "asked", !.after = TRUE]],
             UNCHANGED <<made, vague>>
      PROVE  DocumentsHold'
  <2>1. spare \in Uploads
    BY <1>1 DEF DocumentsHold, HoldingTypes
  <2>2. archive' \in Held /\ DOMAIN archive' = DOMAIN archive
    <3>1. PICK S \in SUBSET (1 .. MaxFiles) : archive \in [S -> Uploads]
      BY DEF DocumentsHold, HoldingTypes, Held
    <3>2. archive' \in [S -> Uploads]
      BY <1>7, <2>1, <3>1
    <3> QED BY <3>1, <3>2 DEF Held
  <2>3. reading' = [reading EXCEPT ![r] = n]
    BY <1>3, <1>7
  <2>4. ReadingTypes'
    BY <1>3, <1>7, <2>2, <2>3 DEF DocumentsHold, ReadingTypes
  <2>5. HoldingTypes'
    BY <1>1, <1>5, <1>7, <2>2 DEF DocumentsHold, HoldingTypes
  <2>6. UploadTypes' /\ ShelfTypes' /\ Documents!TicksAreCounted'
    BY <1>1, <1>7, DocumentsRest
  <2>7. AnswersBring'
    BY <1>1, <1>7, <2>2 DEF DocumentsHold, AnswersBring
  <2>8. Documents!ListFollowsServer'
    <3>1. Documents!Answered = Documents!Answered'
      BY <1>1 DEF Documents!Answered
    <3> QED BY <1>1, <1>7, <2>2, <3>1 DEF DocumentsHold, Documents!ListFollowsServer
  <2> QED BY <1>4, <2>4, <2>5, <2>6, <2>7, <2>8 DEF DocumentsHold
<1> QED BY <1>6, <1>7 DEF Documents!Promote

-----------------------------------------------------------------------------
\* Sheets of the document shown are ticked, or all are said to be.
LEMMA PickedStep ==
  ASSUME DocumentNames, DocumentsHold, NEW new, Documents!Pick(new),
         Documents!Shown # None => new \subseteq Documents!Valid(shelf[Documents!Shown].of),
         scope' \in {"all", "selected"}, assumed' \in BOOLEAN,
         Documents!Shown # None /\ scope' = "all" /\ ~assumed' =>
           new = Documents!Valid(shelf[Documents!Shown].of)
  PROVE  DocumentsHold'
<1>1. PICK s \in DOMAIN shelf : s = Documents!Shown /\ s # None
  BY ShownIsListed DEF Documents!Pick
<1>2. /\ shelf' = [shelf EXCEPT ![s].picked = new]
      /\ UNCHANGED <<made, archive, spare, savedAt, job, given, top, openDoc, cached, banner, reading,
                     restoring, doomed, vague, lone>>
  BY <1>1 DEF Documents!Pick, Documents!server
<1>3. HoldingTypes' /\ UploadTypes' /\ ReadingTypes' /\ LoneIsAlone'
  BY <1>2, DocumentsRest
<1>4. shelf[s] \in Documents!Listed /\ shelf[s].of \in Uploads
  BY <1>1 DEF DocumentsHold, ShelfTypes, Documents!Listed
<1>5. /\ shelf' \in [DOMAIN shelf -> Documents!Listed] /\ DOMAIN shelf' = DOMAIN shelf
      /\ \A g \in DOMAIN shelf \ {s} : shelf'[g] = shelf[g]
      /\ shelf'[s].picked = new /\ shelf'[s].of = shelf[s].of /\ shelf'[s].copies = shelf[s].copies
  <2>1. PICK m \in Documents!Listed : m = shelf[s]
    BY <1>4
  <2>2. PICK n : n = [m EXCEPT !.picked = new]
    OBVIOUS
  <2>3. new \in SUBSET Nat
    BY <1>1, <1>4, ValidAreNumbers
  <2>4. n \in Documents!Listed /\ n.picked = new /\ n.of = m.of /\ n.copies = m.copies
    BY <2>2, <2>3 DEF Documents!Listed
  <2>5. shelf' = [shelf EXCEPT ![s] = n]
    BY <1>2, <2>1, <2>2
  <2> QED BY <2>1, <2>4, <2>5 DEF DocumentsHold, ShelfTypes
<1>6. ShelfTypes'
  BY <1>1, <1>2, <1>5 DEF DocumentsHold, ShelfTypes, Documents!ValidArePicked
<1>7. AnswersBring'
  BY <1>2, <1>5 DEF DocumentsHold, AnswersBring
<1>8. Documents!ListFollowsServer'
  <2>1. Documents!Answered = Documents!Answered'
    BY <1>2 DEF Documents!Answered
  <2> QED BY <1>2, <1>5, <2>1 DEF DocumentsHold, Documents!ListFollowsServer
<1>9. Documents!TicksAreCounted'
  <2>1. Documents!Shown' = s
    BY <1>1, <1>2, <1>5 DEF Documents!Shown, Documents!ShownOf
  <2> QED BY <1>1, <1>5, <2>1 DEF Documents!TicksAreCounted
<1> QED BY <1>3, <1>6, <1>7, <1>8, <1>9 DEF DocumentsHold

LEMMA PicksStep ==
  ASSUME DocumentNames, DocumentsHold,
         \/ Documents!ChooseAll \/ Documents!ChooseSelected \/ Documents!PickAll \/ Documents!PickNone
         \/ Documents!Fold \/ \E i : Documents!ClickRow(i)
  PROVE  DocumentsHold'
<1>1. /\ scope \in {"all", "selected"} /\ assumed \in BOOLEAN
      /\ Documents!Shown # None => Documents!Ticked \subseteq Documents!Tickable
      /\ Documents!Shown # None /\ scope = "all" /\ ~assumed => Documents!Ticked = Documents!Tickable
  BY ShownIsListed DEF DocumentsHold, ShelfTypes, Documents!ValidArePicked, Documents!TicksAreCounted,
     Documents!Ticked, Documents!Tickable
<1>2. CASE Documents!ChooseAll
  BY <1>1, <1>2, PickedStep DEF Documents!ChooseAll, Documents!Tickable
<1>3. CASE Documents!ChooseSelected
  BY <1>1, <1>3, PickedStep DEF Documents!ChooseSelected, Documents!Tickable
<1>4. CASE Documents!PickAll
  BY <1>1, <1>4, PickedStep DEF Documents!PickAll, Documents!Tickable
<1>5. CASE Documents!PickNone
  BY <1>1, <1>5, PickedStep DEF Documents!PickNone, Documents!Tickable
<1>6. CASE Documents!Fold
  BY <1>1, <1>6, PickedStep DEF Documents!Fold, Documents!Tickable
<1>7. ASSUME NEW i, Documents!ClickRow(i) PROVE DocumentsHold'
  <2>1. PICK new : new = Documents!RowClicked(i)
    OBVIOUS
  <2>2. new \subseteq Documents!Tickable
    BY <1>1, <1>7, <2>1 DEF Documents!ClickRow, Documents!RowClicked
  <2>3. Documents!Pick(new) /\ scope' = "selected" /\ assumed' = FALSE
    BY <1>7, <2>1 DEF Documents!ClickRow
  <2> QED BY <2>2, <2>3, PickedStep DEF Documents!Tickable
<1> QED BY <1>2, <1>3, <1>4, <1>5, <1>6, <1>7

-----------------------------------------------------------------------------
LEMMA DocumentsStart == DocumentNames /\ Documents!Init => DocumentsInv
<1> SUFFICES ASSUME DocumentNames, Documents!Init PROVE DocumentsInv
  OBVIOUS
<1>1. /\ made \in {0, 1} /\ made \in 0 .. MaxFiles /\ archive \in [1 .. made -> Uploads]
      /\ 1 .. made \in SUBSET (1 .. MaxFiles)
  BY DEF Documents!Init, DocumentNames
<1>2. archive \in Held /\ DOMAIN archive = 1 .. made
  BY <1>1 DEF Held
<1>3. /\ spare = None /\ banner = None /\ savedAt = [u \in Uploads |-> 0]
      /\ job = [u \in Uploads |-> "idle"] /\ given = [u \in Uploads |-> 0]
      /\ shelf = Documents!NoFiles /\ top = None /\ openDoc = None /\ cached = [f \in 1 .. MaxFiles |-> None]
      /\ reading = [r \in Reads |-> Documents!Unread] /\ restoring = Documents!NoCall /\ doomed = {}
      /\ scope = "all" /\ docActs = 0 /\ assumed = FALSE /\ vague = 1 .. made /\ lone = {}
  BY DEF Documents!Init, Documents!Ids
<1>4. DOMAIN shelf = {} /\ shelf \in [DOMAIN shelf -> Documents!Listed]
  BY <1>3 DEF Documents!NoFiles
<1>5. HoldingTypes
  BY <1>1, <1>2, <1>3, NoCallIsCall DEF HoldingTypes, DocumentNames
<1>6. UploadTypes
  BY <1>1, <1>3 DEF UploadTypes, JobStates, DocumentNames
<1>7. ShelfTypes
  BY <1>3, <1>4 DEF ShelfTypes, Documents!ValidArePicked
<1>8. ReadingTypes
  <2>1. PICK m : m = Documents!Unread
    OBVIOUS
  <2>2. m \in Readings /\ m.pc = "idle" /\ m.files = None /\ m.during = {}
    BY <2>1 DEF Documents!Unread, Readings
  <2> QED BY <1>3, <2>1, <2>2 DEF ReadingTypes
<1>9. AnswersBring /\ LoneIsAlone
  BY <1>3 DEF AnswersBring, LoneIsAlone
<1>10. Documents!ListFollowsServer
  BY <1>3 DEF Documents!ListFollowsServer
<1>11. Documents!TicksAreCounted
  BY <1>3, <1>4 DEF Documents!TicksAreCounted, Documents!Shown, Documents!ShownOf
<1>12. docActs \in 0 .. MaxActs
  BY <1>3 DEF DocumentNames
<1> QED BY <1>5, <1>6, <1>7, <1>8, <1>9, <1>10, <1>11, <1>12 DEF DocumentsInv, DocumentsHold

\* Together.
LEMMA DocumentsStep ==
  ASSUME DocumentNames PROVE DocumentsInv /\ [Documents!Next]_(Documents!vars) => DocumentsInv'
<1> SUFFICES ASSUME DocumentsInv, [Documents!Next]_(Documents!vars) PROVE DocumentsInv'
  OBVIOUS
<1>1. CASE UNCHANGED Documents!vars
  BY <1>1, DocumentsRest DEF Documents!vars, Documents!server, Documents!sheets, DocumentsInv, DocumentsHold
<1>2. CASE Documents!Next
  <2>1. docActs' \in 0 .. MaxActs
    BY <1>2 DEF DocumentsInv, Documents!Next, DocumentNames
  <2>2. ASSUME Documents!Act PROVE DocumentsHold'
    BY <2>2, DropStep, OthersUploadStep, AskListStep, OpenDocumentStep, DeleteDocumentStep, CallsStep, PicksStep
       DEF Documents!Act, DocumentsInv, Documents!Ids
  <2>3. ASSUME Documents!Follow PROVE DocumentsHold'
    BY <2>3, KeepDraftStep, SendDraftStep, SendOnlyStep, StoreUploadStep, ShowStep, FailUploadStep,
       TakeListStep, TakeDraftStep, ReadFailsStep, ApplyStep, PromoteStep, ServeDeleteStep,
       RefuseDeleteStep, CallsStep DEF Documents!Follow, DocumentsInv, Documents!Ids
  <2>4. DocumentsHold'
    BY <1>2, <2>2, <2>3 DEF Documents!Next
  <2> QED BY <2>1, <2>4 DEF DocumentsInv
<1> QED BY <1>1, <1>2

LEMMA DocumentsAreAsShown == DocumentsInv => Documents!DocumentsAreTrue
BY DEF DocumentsInv, DocumentsHold, LoneIsAlone, ShelfTypes, Documents!FailedIsKept,
   Documents!DocumentsAreTrue

LEMMA DocumentsAreTyped == ASSUME DocumentNames, DocumentsInv PROVE Documents!TypeOK
<1>1. /\ \A f \in DOMAIN archive : archive[f] \in Uploads
      /\ \A f \in DOMAIN shelf : shelf[f] \in Documents!Listed
  BY DEF DocumentsInv, DocumentsHold, HoldingTypes, ShelfTypes, Held
<1>2. top \in (1 .. MaxFiles) \cup {None}
  BY DEF DocumentNames, DocumentsInv, DocumentsHold, HoldingTypes, ShelfTypes
<1>3. ASSUME NEW r \in Reads
      PROVE  /\ reading[r].pc \in {"idle", "asked", "over"} /\ reading[r].looked \in BOOLEAN
             /\ reading[r].draft \in Uploads \cup {None} /\ reading[r].during \subseteq 1 .. MaxFiles
             /\ reading[r].files # None =>
                  DOMAIN reading[r].files \subseteq 1 .. made
                  /\ \A f \in DOMAIN reading[r].files : reading[r].files[f] \in Uploads
             /\ reading[r].after \in BOOLEAN
  <2>1. reading[r] \in Readings /\ (reading[r].files # None => DOMAIN reading[r].files \subseteq 1 .. made)
    BY DEF DocumentsInv, DocumentsHold, ReadingTypes
  <2>2. reading[r].files # None => \A f \in DOMAIN reading[r].files : reading[r].files[f] \in Uploads
    <3>1. reading[r].files \in Held \cup {None}
      BY <2>1 DEF Readings
    <3> QED BY <3>1 DEF Held
  <2> QED BY <2>1, <2>2 DEF Readings
<1> QED
  BY <1>1, <1>2, <1>3 DEF DocumentsInv, DocumentsHold, HoldingTypes, UploadTypes, ShelfTypes,
     JobStates, Documents!TypeOK, Documents!Ids
-----------------------------------------------------------------------------
(* The cache of the chat's answers                                           *)

ChatTypes ==
  /\ cache \in Seq(Chat!Answers) /\ versions \in [Functions -> SUBSET Chat!Numbers]
  /\ saves \in 0 .. MaxSaves /\ chat \in [Chats -> Chat!Answers \cup {None}]
  /\ saver \in [Savers -> Chat!Creates]

\* A stream that no save has overtaken knows of them all.
StreamsKnow ==
  \A c \in Chats : chat[c] # None => chat[c].overtaken \/ chat[c].asOf = saves

\* A version's number follows one the function has.
NumbersFollow ==
  \A s \in Savers : saver[s].pc \in {"numbered", "drawn"} =>
    1 .. (saver[s].number - 1) \subseteq versions[saver[s].function]

ChatInv == ChatTypes /\ StreamsKnow /\ NumbersFollow /\ Chat!CacheFollowsVersions

LEMMA ChatStarts == ChatBounds /\ Chat!Init => ChatInv
<1> SUFFICES ASSUME ChatBounds, Chat!Init PROVE ChatInv
  OBVIOUS
<1>1. Chat!NoCreate \in Chat!Creates /\ Chat!NoCreate.pc = "idle"
  BY DEF Chat!Creates, Chat!NoCreate
<1>2. cache = <<>> /\ Len(cache) = 0 /\ cache \in Seq(Chat!Answers)
  BY DEF Chat!Init
<1> QED
  BY <1>1, <1>2 DEF Chat!Init, ChatBounds, ChatInv, ChatTypes, StreamsKnow, NumbersFollow,
     Chat!CacheFollowsVersions, Chat!StaleWasOvertaken, Chat!CacheIsBounded, Chat!VersionsAreGapless

\* What the cache holds stays true of a cache with fewer answers.
LEMMA FewerAnswers ==
  ASSUME ChatBounds, ChatInv, UNCHANGED <<versions, saves, saver>>,
         cache' \in Seq(Chat!Answers), Len(cache') <= Len(cache),
         NEW at, \A i \in 1 .. Len(cache') : at[i] \in 1 .. Len(cache) /\ cache'[i] = cache[at[i]],
         \A i, j \in 1 .. Len(cache') : at[i] = at[j] => i = j
  PROVE  Chat!CacheFollowsVersions'
<1>1. DOMAIN cache = 1 .. Len(cache) /\ DOMAIN cache' = 1 .. Len(cache') /\ Len(cache) \in Nat /\ Len(cache') \in Nat
  BY DEF ChatInv, ChatTypes
<1>2. Chat!StaleWasOvertaken'
  BY <1>1 DEF ChatInv, Chat!CacheFollowsVersions, Chat!StaleWasOvertaken
<1>3. Chat!CacheIsBounded'
  <2>1. Len(cache') <= MaxEntries
    BY <1>1 DEF ChatBounds, ChatInv, Chat!CacheFollowsVersions, Chat!CacheIsBounded
  <2>2. ASSUME NEW i \in DOMAIN cache', NEW j \in DOMAIN cache', Chat!SameKey(cache'[i], cache'[j])
        PROVE  i = j
    <3>1. at[i] = at[j]
      BY <1>1, <2>2 DEF ChatInv, Chat!CacheFollowsVersions, Chat!CacheIsBounded
    <3> QED BY <1>1, <3>1
  <2> QED BY <2>1, <2>2 DEF Chat!CacheIsBounded
<1>4. Chat!VersionsAreGapless'
  BY DEF ChatInv, Chat!CacheFollowsVersions, Chat!VersionsAreGapless
<1> QED BY <1>2, <1>3, <1>4 DEF Chat!CacheFollowsVersions

LEMMA ExpireStep ==
  ASSUME ChatBounds, ChatInv, NEW c \in Chats, Chat!Expire(c)
  PROVE  ChatInv'
<1>1. PICK k \in 1 .. Len(cache) :
        cache' = SubSeq(cache, 1, k - 1) \o SubSeq(cache, k + 1, Len(cache))
  <2>1. PICK k \in Chat!Cached(chat[c]) : cache' = Chat!RemoveAt(cache, k)
    BY DEF Chat!Expire
  <2>2. k \in 1 .. Len(cache)
    BY <2>1 DEF ChatInv, ChatTypes, Chat!Cached
  <2> QED BY <2>1, <2>2 DEF Chat!RemoveAt
<1>2. UNCHANGED <<versions, saves, chat, saver>>
  BY DEF Chat!Expire
<1>3. PICK n \in Nat : n = Len(cache) /\ k \in 1 .. n
  BY DEF ChatInv, ChatTypes
<1>4. /\ SubSeq(cache, 1, k - 1) \in Seq(Chat!Answers) /\ Len(SubSeq(cache, 1, k - 1)) = k - 1
      /\ \A i \in 1 .. k - 1 : SubSeq(cache, 1, k - 1)[i] = cache[i]
  <2>1. cache \in Seq(Chat!Answers) /\ 1 \in 1 .. Len(cache) + 1 /\ k - 1 \in 0 .. Len(cache)
    BY <1>3 DEF ChatInv, ChatTypes
  <2>2. /\ SubSeq(cache, 1, k - 1) \in Seq(Chat!Answers)
        /\ Len(SubSeq(cache, 1, k - 1)) = (IF 1 <= k - 1 THEN (k - 1) - 1 + 1 ELSE 0)
        /\ \A i \in 1 .. (k - 1) - 1 + 1 : SubSeq(cache, 1, k - 1)[i] = cache[1 + i - 1]
    BY <2>1, SubSeqProperties
  <2> QED BY <1>3, <2>2
<1>5. /\ SubSeq(cache, k + 1, n) \in Seq(Chat!Answers) /\ Len(SubSeq(cache, k + 1, n)) = n - k
      /\ \A i \in 1 .. n - k : SubSeq(cache, k + 1, n)[i] = cache[k + i]
  <2>1. cache \in Seq(Chat!Answers) /\ k + 1 \in 1 .. Len(cache) + 1 /\ n \in 0 .. Len(cache)
    BY <1>3 DEF ChatInv, ChatTypes
  <2>2. /\ SubSeq(cache, k + 1, n) \in Seq(Chat!Answers)
        /\ Len(SubSeq(cache, k + 1, n)) = (IF k + 1 <= n THEN n - (k + 1) + 1 ELSE 0)
        /\ \A i \in 1 .. n - (k + 1) + 1 : SubSeq(cache, k + 1, n)[i] = cache[k + 1 + i - 1]
    BY <2>1, SubSeqProperties
  <2> QED BY <1>3, <2>2
<1>6. /\ cache' \in Seq(Chat!Answers) /\ Len(cache') = n - 1
      /\ \A i \in 1 .. n - 1 : cache'[i] = cache[IF i <= k - 1 THEN i ELSE i + 1]
  <2>1. PICK front \in Seq(Chat!Answers), back \in Seq(Chat!Answers) :
          front = SubSeq(cache, 1, k - 1) /\ back = SubSeq(cache, k + 1, n)
    BY <1>4, <1>5
  <2>2. /\ front \o back \in Seq(Chat!Answers) /\ Len(front \o back) = Len(front) + Len(back)
        /\ \A i \in 1 .. Len(front) + Len(back) :
             (front \o back)[i] = IF i <= Len(front) THEN front[i] ELSE back[i - Len(front)]
    BY ConcatProperties
  <2>3. /\ Len(front) = k - 1 /\ Len(back) = n - k /\ cache' = front \o back
        /\ \A i \in 1 .. k - 1 : front[i] = cache[i]
        /\ \A i \in 1 .. n - k : back[i] = cache[k + i]
    BY <1>1, <1>3, <1>4, <1>5, <2>1
  <2>4. cache' \in Seq(Chat!Answers) /\ Len(cache') = n - 1
    BY <1>3, <2>2, <2>3
  <2>5. ASSUME NEW i \in 1 .. n - 1 PROVE cache'[i] = cache[IF i <= k - 1 THEN i ELSE i + 1]
    <3>1. CASE i <= k - 1
      BY <1>3, <2>2, <2>3, <3>1
    <3>2. CASE i > k - 1
      <4>1. PICK j \in 1 .. n - k : j = i - (k - 1) /\ k + j = i + 1 /\ ~(i <= k - 1)
        BY <1>3, <3>2
      <4>2. i \in 1 .. Len(front) + Len(back) /\ ~(i <= Len(front)) /\ i - Len(front) = j
        BY <1>3, <2>3, <4>1
      <4>3. cache'[i] = back[j]
        BY <2>2, <2>3, <4>2
      <4>4. back[j] = cache[k + j]
        BY <2>3
      <4> QED BY <4>1, <4>3, <4>4
    <3> QED BY <1>3, <3>1, <3>2
  <2> QED BY <2>4, <2>5
<1>7. Chat!CacheFollowsVersions'
  <2>1. PICK at : at = [i \in 1 .. n - 1 |-> IF i <= k - 1 THEN i ELSE i + 1]
    OBVIOUS
  <2>2. \A i \in 1 .. n - 1 : at[i] \in 1 .. n /\ cache'[i] = cache[at[i]]
    BY <1>3, <1>6, <2>1
  <2>3. \A i, j \in 1 .. n - 1 : at[i] = at[j] => i = j
    BY <1>3, <2>1
  <2>4. Len(cache') = n - 1 /\ Len(cache') <= Len(cache) /\ 1 .. n = 1 .. Len(cache)
    BY <1>3, <1>6
  <2>5. /\ \A i \in 1 .. Len(cache') : at[i] \in 1 .. Len(cache) /\ cache'[i] = cache[at[i]]
        /\ \A i, j \in 1 .. Len(cache') : at[i] = at[j] => i = j
    BY <2>2, <2>3, <2>4
  <2> QED BY <1>2, <1>6, <2>4, <2>5, FewerAnswers
<1> QED
  BY <1>2, <1>6, <1>7 DEF ChatInv, ChatTypes, StreamsKnow, NumbersFollow

\* An answer takes the place of one under its key, or comes last.
LEMMA AnswerIsStored ==
  ASSUME ChatBounds, ChatInv, NEW c \in Chats, Chat!StreamEnds(c)
  PROVE  cache' \in Seq(Chat!Answers) /\ Chat!CacheFollowsVersions'
<1>1. PICK a \in Chat!Answers : a = chat[c] /\ (a.overtaken \/ ~(a.asOf < saves))
  <2>1. PICK a \in Chat!Answers : a = chat[c] /\ (a.overtaken \/ a.asOf = saves)
    BY DEF ChatInv, ChatTypes, StreamsKnow, Chat!StreamEnds
  <2>2. saves \in Nat
    BY DEF ChatBounds, ChatInv, ChatTypes
  <2> QED BY <2>1, <2>2
<1>2. UNCHANGED <<versions, saves, saver>>
  BY DEF Chat!StreamEnds
<1>3. PICK older \in Seq(Chat!Answers), d \in {0, 1} :
        /\ older = Chat!Room(cache) /\ Len(older) < MaxEntries /\ Len(older) + d = Len(cache)
        /\ \A i \in 1 .. Len(older) : older[i] = cache[i + d]
  <2>1. cache \in Seq(Chat!Answers) /\ Len(cache) \in Nat /\ Len(cache) <= MaxEntries /\ MaxEntries \in Nat \ {0}
    BY DEF ChatBounds, ChatInv, ChatTypes, Chat!CacheFollowsVersions, Chat!CacheIsBounded
  <2>2. CASE Len(cache) >= MaxEntries
    <3>1. cache # <<>>
      BY <2>1, <2>2
    <3>2. /\ Tail(cache) \in Seq(Chat!Answers) /\ Len(Tail(cache)) = Len(cache) - 1
          /\ \A i \in 1 .. Len(Tail(cache)) : Tail(cache)[i] = cache[i + 1]
      BY <2>1, <3>1, HeadTailProperties
    <3>3. Chat!Room(cache) = Tail(cache)
      BY <2>2 DEF Chat!Room
    <3>4. Len(Tail(cache)) < MaxEntries /\ Len(Tail(cache)) + 1 = Len(cache)
      BY <2>1, <2>2, <3>2
    <3> QED BY <3>2, <3>3, <3>4
  <2>3. CASE ~(Len(cache) >= MaxEntries)
    <3>1. Chat!Room(cache) = cache
      BY <2>3 DEF Chat!Room
    <3>2. Len(cache) < MaxEntries /\ Len(cache) + 0 = Len(cache)
          /\ \A i \in 1 .. Len(cache) : cache[i] = cache[i + 0]
      BY <2>1, <2>3
    <3> QED BY <2>1, <3>1, <3>2
  <2> QED BY <2>2, <2>3
<1>4. /\ DOMAIN older = 1 .. Len(older) /\ Len(older) \in Nat
      /\ \A i, j \in DOMAIN older : Chat!SameKey(older[i], older[j]) => i = j
      /\ \A i \in DOMAIN older :
           older[i].asOf < saves => older[i].overtaken \/ \E s \in Savers : saver[s].pc = "saved"
  <2>1. DOMAIN older = 1 .. Len(older) /\ DOMAIN cache = 1 .. Len(cache) /\ Len(older) \in Nat /\ Len(cache) \in Nat
    BY DEF ChatInv, ChatTypes
  <2>2. ASSUME NEW i \in DOMAIN older
        PROVE  i \in Nat /\ i + d \in DOMAIN cache /\ older[i] = cache[i + d]
    <3>1. i \in 1 .. Len(older) /\ i \in Nat
      BY <2>1
    <3>2. Len(older) + d = Len(cache) /\ d \in Nat
      BY <1>3
    <3>3. older[i] = cache[i + d]
      BY <1>3, <3>1
    <3>4. i + d \in 1 .. Len(cache)
      BY <2>1, <3>1, <3>2
    <3> QED BY <2>1, <3>1, <3>3, <3>4
  <2>3. ASSUME NEW i \in DOMAIN older, NEW j \in DOMAIN older, Chat!SameKey(older[i], older[j]) PROVE i = j
    <3>1. Chat!SameKey(cache[i + d], cache[j + d])
      BY <2>2, <2>3
    <3>2. i + d = j + d
      BY <2>2, <3>1 DEF ChatInv, Chat!CacheFollowsVersions, Chat!CacheIsBounded
    <3> QED BY <1>3, <2>2, <3>2
  <2>4. \A i \in DOMAIN older :
           older[i].asOf < saves => older[i].overtaken \/ \E s \in Savers : saver[s].pc = "saved"
    BY <2>2 DEF ChatInv, Chat!CacheFollowsVersions, Chat!StaleWasOvertaken
  <2> QED BY <2>1, <2>3, <2>4
<1>5. cache' = Chat!Stored(older, a)
  BY <1>1, <1>3 DEF Chat!StreamEnds
<1>6. Chat!VersionsAreGapless'
  BY <1>2 DEF ChatInv, Chat!CacheFollowsVersions, Chat!VersionsAreGapless
<1>7. CASE \E k \in DOMAIN older : Chat!SameKey(older[k], a)
  <2>1. PICK k \in DOMAIN older : Chat!SameKey(older[k], a)
    BY <1>7
  <2>2. \A i \in DOMAIN older : Chat!SameKey(older[i], a) => i = k
    BY <1>4, <2>1 DEF Chat!SameKey
  <2>3. cache' = [older EXCEPT ![k] = a]
    BY <1>4, <1>5, <1>7, <2>1, <2>2 DEF Chat!Stored
  <2>4. /\ cache' \in Seq(Chat!Answers) /\ Len(cache') = Len(older) /\ DOMAIN cache' = DOMAIN older
        /\ cache'[k] = a /\ \A i \in DOMAIN older \ {k} : cache'[i] = older[i]
    BY <1>4, <2>3
  <2>5. Chat!StaleWasOvertaken'
    BY <1>1, <1>2, <1>4, <2>4 DEF Chat!StaleWasOvertaken
  <2>6. Chat!CacheIsBounded'
    <3>1. ASSUME NEW i \in DOMAIN older, NEW j \in DOMAIN older, Chat!SameKey(cache'[i], cache'[j]) PROVE i = j
      <4>1. CASE i = k /\ j # k
        BY <2>2, <2>4, <3>1, <4>1 DEF Chat!SameKey
      <4>2. CASE j = k /\ i # k
        BY <2>2, <2>4, <3>1, <4>2 DEF Chat!SameKey
      <4>3. CASE i # k /\ j # k
        BY <1>4, <2>4, <3>1, <4>3
      <4> QED BY <4>1, <4>2, <4>3
    <3>2. Len(cache') <= MaxEntries
      BY <1>3, <1>4, <2>4 DEF ChatBounds
    <3> QED BY <2>4, <3>1, <3>2 DEF Chat!CacheIsBounded
  <2> QED BY <1>6, <2>4, <2>5, <2>6 DEF Chat!CacheFollowsVersions
<1>8. CASE \A k \in DOMAIN older : ~Chat!SameKey(older[k], a)
  <2>1. cache' = Append(older, a)
    BY <1>5, <1>8 DEF Chat!Stored
  <2>2. /\ cache' \in Seq(Chat!Answers) /\ Len(cache') = Len(older) + 1 /\ DOMAIN cache' = 1 .. (Len(older) + 1)
        /\ cache'[Len(older) + 1] = a /\ \A i \in 1 .. Len(older) : cache'[i] = older[i]
    <3>1. cache' \in Seq(Chat!Answers) /\ Len(cache') = Len(older) + 1
          /\ cache'[Len(older) + 1] = a /\ \A i \in 1 .. Len(older) : cache'[i] = older[i]
      BY <2>1, AppendProperties
    <3> QED BY <3>1
  <2>3. DOMAIN cache' = DOMAIN older \cup {Len(older) + 1}
    BY <1>4, <2>2
  <2>4. Chat!StaleWasOvertaken'
    BY <1>1, <1>2, <1>4, <2>2, <2>3 DEF Chat!StaleWasOvertaken
  <2>5. Chat!CacheIsBounded'
    <3>1. ASSUME NEW i \in DOMAIN cache', NEW j \in DOMAIN cache', Chat!SameKey(cache'[i], cache'[j]) PROVE i = j
      <4>1. CASE i \in DOMAIN older /\ j \in DOMAIN older
        BY <1>4, <2>2, <3>1, <4>1
      <4>2. CASE i \in DOMAIN older /\ j = Len(older) + 1
        BY <1>4, <1>8, <2>2, <3>1, <4>2 DEF Chat!SameKey
      <4>3. CASE j \in DOMAIN older /\ i = Len(older) + 1
        BY <1>4, <1>8, <2>2, <3>1, <4>3 DEF Chat!SameKey
      <4> QED BY <2>3, <4>1, <4>2, <4>3
    <3>2. Len(cache') <= MaxEntries
      BY <1>3, <1>4, <2>2 DEF ChatBounds
    <3> QED BY <3>1, <3>2 DEF Chat!CacheIsBounded
  <2> QED BY <1>6, <2>2, <2>4, <2>5 DEF Chat!CacheFollowsVersions
<1> QED BY <1>7, <1>8

\* The next number of a function follows its highest.
LEMMA NextNumberFollows ==
  ASSUME ChatBounds, ChatInv, NEW f \in Functions
  PROVE  1 .. (Chat!NextNumber(f) - 1) \subseteq versions[f]
<1>1. CASE versions[f] = {}
  BY <1>1 DEF Chat!NextNumber
<1>2. CASE versions[f] # {}
  <2>1. PICK top_n \in versions[f] : \A k \in versions[f] : top_n >= k
    <3>1. versions[f] \subseteq 1 .. MaxSaves /\ MaxSaves \in Nat
      BY DEF ChatBounds, ChatInv, ChatTypes, Chat!Numbers
    <3> QED BY <1>2, <3>1, HighestVersion
  <2>2. \A k \in versions[f] : k \in 1 .. MaxSaves
    BY DEF ChatInv, ChatTypes, Chat!Numbers
  <2>3. /\ top_n + 1 \in Chat!Numbers \cup {MaxSaves + 1} /\ (top_n + 1) - 1 \in versions[f]
        /\ \A k \in versions[f] : k < top_n + 1
    BY <2>1, <2>2 DEF ChatBounds, Chat!Numbers
  <2>4. Chat!NextNumber(f) - 1 \in versions[f]
    BY <1>2, <2>3 DEF Chat!NextNumber
  <2> QED BY <2>4 DEF ChatInv, Chat!CacheFollowsVersions, Chat!VersionsAreGapless
<1> QED BY <1>1, <1>2

LEMMA SaversStep ==
  ASSUME ChatBounds, ChatInv, NEW s \in Savers,
         \/ \E f \in Functions : Chat!Number(s, f)
         \/ Chat!DrawCode(s) \/ Chat!Refuse(s)
  PROVE  ChatInv'
<1>1. /\ UNCHANGED <<cache, versions, saves, chat>>
      /\ saver[s].pc # "saved"
  BY DEF Chat!Number, Chat!DrawCode, Chat!Refuse, Chat!NoCreate
<1>2. PICK n \in Chat!Creates :
        /\ saver' = [saver EXCEPT ![s] = n] /\ n.pc # "saved"
        /\ n.pc \in {"numbered", "drawn"} => 1 .. (n.number - 1) \subseteq versions[n.function]
  <2>1. ASSUME NEW f \in Functions, Chat!Number(s, f)
        PROVE  \E n \in Chat!Creates :
                 /\ saver' = [saver EXCEPT ![s] = n] /\ n.pc # "saved"
                 /\ n.pc \in {"numbered", "drawn"} => 1 .. (n.number - 1) \subseteq versions[n.function]
    <3>1. PICK k \in Chat!Numbers : k = Chat!NextNumber(f) /\ 1 .. (k - 1) \subseteq versions[f]
      BY <2>1, NextNumberFollows DEF Chat!Number
    <3>2. PICK n : n = [pc |-> "numbered", function |-> f, number |-> k]
      OBVIOUS
    <3>3. n \in Chat!Creates /\ n.pc = "numbered" /\ n.function = f /\ n.number = k
      BY <3>2 DEF Chat!Creates
    <3>4. saver' = [saver EXCEPT ![s] = n]
      BY <2>1, <3>1, <3>2 DEF Chat!Number
    <3> QED BY <3>1, <3>3, <3>4
  <2>2. ASSUME Chat!DrawCode(s)
        PROVE  \E n \in Chat!Creates :
                 /\ saver' = [saver EXCEPT ![s] = n] /\ n.pc # "saved"
                 /\ n.pc \in {"numbered", "drawn"} => 1 .. (n.number - 1) \subseteq versions[n.function]
    <3>1. PICK m \in [pc : {"numbered", "drawn"}, function : Functions, number : Chat!Numbers] :
            m = saver[s] /\ m.pc = "numbered" /\ 1 .. (m.number - 1) \subseteq versions[m.function]
      BY <2>2 DEF Chat!DrawCode, ChatInv, ChatTypes, NumbersFollow, Chat!Creates, Chat!NoCreate
    <3>2. PICK n : n = [m EXCEPT !.pc = "drawn"]
      OBVIOUS
    <3>3. n \in Chat!Creates /\ n.pc = "drawn" /\ n.function = m.function /\ n.number = m.number
      BY <3>2 DEF Chat!Creates
    <3>4. saver' = [saver EXCEPT ![s] = n]
      BY <2>2, <3>1, <3>2 DEF Chat!DrawCode
    <3> QED BY <3>1, <3>3, <3>4
  <2>3. ASSUME Chat!Refuse(s)
        PROVE  \E n \in Chat!Creates :
                 /\ saver' = [saver EXCEPT ![s] = n] /\ n.pc # "saved"
                 /\ n.pc \in {"numbered", "drawn"} => 1 .. (n.number - 1) \subseteq versions[n.function]
    <3>1. Chat!NoCreate \in Chat!Creates /\ Chat!NoCreate.pc = "idle"
      BY DEF Chat!Creates, Chat!NoCreate
    <3>2. saver' = [saver EXCEPT ![s] = Chat!NoCreate]
      BY <2>3 DEF Chat!Refuse
    <3> QED BY <3>1, <3>2
  <2> QED BY <2>1, <2>2, <2>3
<1>3. saver' \in [Savers -> Chat!Creates] /\ saver'[s] = n /\ \A t \in Savers \ {s} : saver'[t] = saver[t]
  BY <1>2 DEF ChatInv, ChatTypes
<1>4. Chat!StaleWasOvertaken'
  BY <1>1, <1>3 DEF ChatInv, Chat!CacheFollowsVersions, Chat!StaleWasOvertaken
<1> QED
  BY <1>1, <1>2, <1>3, <1>4 DEF ChatInv, ChatTypes, StreamsKnow, NumbersFollow,
     Chat!CacheFollowsVersions, Chat!CacheIsBounded, Chat!VersionsAreGapless

LEMMA SaveVersionStep ==
  ASSUME ChatBounds, ChatInv, NEW s \in Savers, Chat!Save(s)
  PROVE  ChatInv'
<1>1. PICK m \in [pc : {"numbered", "drawn"}, function : Functions, number : Chat!Numbers] :
        m = saver[s] /\ m.pc = "drawn" /\ 1 .. (m.number - 1) \subseteq versions[m.function]
  BY DEF Chat!Save, ChatInv, ChatTypes, NumbersFollow, Chat!Creates, Chat!NoCreate
<1>2. /\ saves < MaxSaves /\ saves' = saves + 1 /\ cache' = cache
      /\ versions' = [versions EXCEPT ![m.function] = versions[m.function] \cup {m.number}]
      /\ chat' = [c \in Chats |-> IF chat[c] = None THEN None ELSE [chat[c] EXCEPT !.overtaken = TRUE]]
      /\ saver' = [saver EXCEPT ![s] = [pc |-> "saved", function |-> m.function]]
  BY <1>1 DEF Chat!Save
<1>3. PICK n \in Chat!Creates : n = [pc |-> "saved", function |-> m.function] /\ n.pc = "saved"
  <2>1. PICK n : n = [pc |-> "saved", function |-> m.function]
    OBVIOUS
  <2>2. n \in [pc : {"saved"}, function : Functions] /\ n.pc = "saved"
    BY <1>1, <2>1
  <2> QED BY <2>1, <2>2 DEF Chat!Creates
<1>4. saver' \in [Savers -> Chat!Creates] /\ saver'[s] = n /\ \A t \in Savers \ {s} : saver'[t] = saver[t]
  BY <1>2, <1>3 DEF ChatInv, ChatTypes
<1>5. ASSUME NEW c \in Chats
      PROVE  chat'[c] \in Chat!Answers \cup {None} /\ (chat'[c] # None => chat'[c].overtaken = TRUE)
  <2>1. CASE chat[c] = None
    BY <1>2, <2>1
  <2>2. CASE chat[c] # None
    <3>1. PICK x \in Chat!Answers : x = chat[c]
      BY <2>2 DEF ChatInv, ChatTypes
    <3>2. chat'[c] = [x EXCEPT !.overtaken = TRUE]
      BY <1>2, <2>2, <3>1
    <3> QED BY <3>1, <3>2 DEF Chat!Answers
  <2> QED BY <2>1, <2>2
<1>6. /\ versions' \in [Functions -> SUBSET Chat!Numbers]
      /\ \A f \in Functions : versions[f] \subseteq versions'[f]
      /\ \A f \in Functions \ {m.function} : versions'[f] = versions[f]
      /\ versions'[m.function] = versions[m.function] \cup {m.number}
  BY <1>2 DEF ChatInv, ChatTypes
<1>7. ChatTypes'
  <2>1. saves' \in 0 .. MaxSaves
    BY <1>2 DEF ChatBounds, ChatInv, ChatTypes
  <2>2. chat' \in [Chats -> Chat!Answers \cup {None}]
    BY <1>2, <1>5
  <2> QED BY <1>2, <1>4, <1>6, <2>1, <2>2 DEF ChatInv, ChatTypes
<1>8. StreamsKnow'
  BY <1>5 DEF StreamsKnow
<1>9. NumbersFollow'
  <2>1. ASSUME NEW t \in Savers, saver'[t].pc \in {"numbered", "drawn"}
        PROVE  1 .. (saver'[t].number - 1) \subseteq versions'[saver'[t].function]
    <3>1. t # s /\ saver'[t] = saver[t]
      BY <1>3, <1>4, <2>1
    <3>2. saver[t].function \in Functions
      BY <2>1, <3>1 DEF ChatInv, ChatTypes, Chat!Creates, Chat!NoCreate
    <3> QED BY <1>6, <2>1, <3>1, <3>2 DEF ChatInv, NumbersFollow
  <2> QED BY <2>1 DEF NumbersFollow
<1>10. Chat!CacheFollowsVersions'
  <2>1. Chat!StaleWasOvertaken'
    BY <1>3, <1>4 DEF Chat!StaleWasOvertaken
  <2>2. Chat!CacheIsBounded'
    BY <1>2 DEF ChatInv, Chat!CacheFollowsVersions, Chat!CacheIsBounded
  <2>3. ASSUME NEW f \in Functions, NEW k \in versions'[f] PROVE 1 .. k \subseteq versions'[f]
    <3>1. CASE f = m.function /\ k = m.number
      <4>1. 1 .. k \subseteq (1 .. (k - 1)) \cup {k}
        BY <1>1, <3>1 DEF Chat!Numbers
      <4> QED BY <1>1, <1>6, <3>1, <4>1
    <3>2. CASE ~(f = m.function /\ k = m.number)
      <4>1. k \in versions[f]
        BY <1>6, <2>3, <3>2
      <4>2. 1 .. k \subseteq versions[f]
        BY <4>1 DEF ChatInv, Chat!CacheFollowsVersions, Chat!VersionsAreGapless
      <4> QED BY <1>6, <4>2
    <3> QED BY <3>1, <3>2
  <2>4. Chat!VersionsAreGapless'
    BY <2>3 DEF Chat!VersionsAreGapless
  <2> QED BY <2>1, <2>2, <2>4 DEF Chat!CacheFollowsVersions
<1> QED BY <1>7, <1>8, <1>9, <1>10 DEF ChatInv

LEMMA EvictAnswersStep ==
  ASSUME ChatBounds, ChatInv, NEW s \in Savers, Chat!Evict(s)
  PROVE  ChatInv'
<1>1. cache' = <<>> /\ saver' = [saver EXCEPT ![s] = Chat!NoCreate] /\ UNCHANGED <<versions, saves, chat>>
  BY DEF Chat!Evict, Chat!Evicted
<1>2. Chat!NoCreate \in Chat!Creates /\ Chat!NoCreate.pc = "idle"
  BY DEF Chat!Creates, Chat!NoCreate
<1>3. cache' \in Seq(Chat!Answers) /\ Len(cache') = 0 /\ DOMAIN cache' = {}
  BY <1>1
<1>4. saver' \in [Savers -> Chat!Creates] /\ saver'[s].pc = "idle" /\ \A t \in Savers \ {s} : saver'[t] = saver[t]
  BY <1>1, <1>2 DEF ChatInv, ChatTypes
<1>5. NumbersFollow'
  BY <1>1, <1>4 DEF ChatInv, NumbersFollow
<1>6. Chat!CacheFollowsVersions'
  BY <1>1, <1>3 DEF ChatBounds, ChatInv, Chat!CacheFollowsVersions, Chat!StaleWasOvertaken,
     Chat!CacheIsBounded, Chat!VersionsAreGapless
<1> QED BY <1>1, <1>3, <1>4, <1>5, <1>6 DEF ChatInv, ChatTypes, StreamsKnow

\* A question is asked, or its stream has come to an end.
LEMMA StreamMoves ==
  ASSUME ChatInv, NEW c \in Chats, NEW a \in Chat!Answers \cup {None},
         a # None => a.overtaken \/ a.asOf = saves,
         chat' = [chat EXCEPT ![c] = a], UNCHANGED <<versions, saves, saver>>,
         cache' \in Seq(Chat!Answers), Chat!CacheFollowsVersions'
  PROVE  ChatInv'
BY DEF ChatInv, ChatTypes, StreamsKnow, NumbersFollow

LEMMA ChatStep == ASSUME ChatBounds PROVE ChatInv /\ [Chat!Next]_(Chat!vars) => ChatInv'
<1> SUFFICES ASSUME ChatInv, [Chat!Next]_(Chat!vars) PROVE ChatInv'
  OBVIOUS
<1>1. ASSUME UNCHANGED <<cache, versions, saves, saver>>
      PROVE  cache' \in Seq(Chat!Answers) /\ Chat!CacheFollowsVersions'
  BY <1>1 DEF ChatInv, ChatTypes, Chat!CacheFollowsVersions, Chat!StaleWasOvertaken,
     Chat!CacheIsBounded, Chat!VersionsAreGapless
<1>2. CASE UNCHANGED Chat!vars
  BY <1>1, <1>2 DEF Chat!vars, ChatInv, ChatTypes, StreamsKnow, NumbersFollow
<1>3. ASSUME NEW c \in Chats, NEW q \in Questions, NEW f \in Chat!Scopes, NEW cmp \in ComparedWith,
             Chat!Ask(c, q, f, cmp)
      PROVE  ChatInv'
  <2>1. PICK a : a = [question |-> q, scope |-> f, compare |-> cmp, asOf |-> saves, overtaken |-> FALSE]
    OBVIOUS
  <2>2. a \in Chat!Answers /\ a.asOf = saves
    BY <2>1 DEF Chat!Answers, ChatInv, ChatTypes
  <2> QED BY <1>1, <1>3, <2>1, <2>2, StreamMoves DEF Chat!Ask
<1>4. ASSUME NEW c \in Chats, Chat!Hit(c) \/ Chat!StreamFails(c) PROVE ChatInv'
  BY <1>1, <1>4, StreamMoves DEF Chat!Hit, Chat!StreamFails
<1>5. ASSUME NEW c \in Chats, Chat!StreamEnds(c) PROVE ChatInv'
  <2>1. cache' \in Seq(Chat!Answers) /\ Chat!CacheFollowsVersions'
    BY <1>5, AnswerIsStored
  <2> QED BY <1>5, <2>1, StreamMoves DEF Chat!StreamEnds
<1>6. CASE Chat!Next
  BY <1>3, <1>4, <1>5, <1>6, ExpireStep, SaversStep, SaveVersionStep, EvictAnswersStep DEF Chat!Next
<1> QED BY <1>2, <1>6

LEMMA ChatIsTyped == ChatInv => Chat!TypeOK
BY DEF ChatInv, ChatTypes, Chat!TypeOK
-----------------------------------------------------------------------------
(* The comparison of versions                                                *)

\* The findings of a version, and the rows that show them.
Listed(sample) == \E n \in Nat : DOMAIN sample = 1 .. n
FixedRow(from, i) == [state |-> "fixed", at |-> i, left |-> from[i], right |-> None]
NewRow(to, j) == [state |-> "new", at |-> j, left |-> None, right |-> to[j]]
ChangedRow(old, to, j) == [state |-> "changed", at |-> j, left |-> old, right |-> to[j]]
SameRow(to, j) == [state |-> "same", at |-> j, left |-> to[j], right |-> to[j]]

LEMMA SamplesAreLists == \A s \in Samples : Listed(s)
<1> SUFFICES ASSUME NEW s \in Samples PROVE Listed(s)
  OBVIOUS
<1>1. DOMAIN s = 1 .. 0 \/ DOMAIN s = 1 .. 1 \/ DOMAIN s = 1 .. 2
  BY DEF Samples
<1> QED BY <1>1 DEF Listed

\* A finding with a key is looked up by it.
LEMMA KeysTell ==
  ASSUME NEW from, Compare!Keyed(from), NEW i \in DOMAIN from, NEW f, f.key # None
  PROVE  /\ Compare!KeyFor(from[i]) = Compare!KeyFor(f) <=> from[i].key = f.key
         /\ Compare!IssueRowKey(from[i]) = Compare!IssueRowKey(f) <=> from[i].key = f.key
<1>1. from[i].key # None
  BY DEF Compare!Keyed
<1>2. /\ Compare!KeyFor(from[i]) = <<"key", from[i].key>> /\ Compare!KeyFor(f) = <<"key", f.key>>
      /\ Compare!IssueRowKey(from[i]) = <<"key", from[i].key>>
      /\ Compare!IssueRowKey(f) = <<"key", f.key>>
  BY <1>1 DEF Compare!KeyFor, Compare!IssueRowKey
<1> QED BY <1>2

\* It finds the one across from it.
LEMMA Across ==
  ASSUME NEW from, Compare!Keyed(from), Listed(from), NEW i \in DOMAIN from,
         NEW to, NEW f, f.key # None, from[i].key = f.key
  PROVE  /\ Compare!Has(from, Compare!KeyFor(f)) /\ Compare!Previous(from, f) = from[i]
         /\ Compare!Left(from, to, f) = from[i]
<1>1. \A j \in DOMAIN from : from[j].key = f.key => j = i
  BY DEF Compare!Keyed
<1>2. /\ {j \in DOMAIN from : Compare!KeyFor(from[j]) = Compare!KeyFor(f)} = {i}
      /\ {j \in DOMAIN from : Compare!IssueRowKey(from[j]) = Compare!IssueRowKey(f)} = {i}
  BY <1>1, KeysTell
<1>3. Compare!Last({i}) = i
  <2>1. i \in Nat
    BY DEF Listed
  <2> QED BY <2>1 DEF Compare!Last
<1>4. Compare!Has(from, Compare!KeyFor(f))
  BY <1>2 DEF Compare!Has
<1> QED BY <1>2, <1>3, <1>4 DEF Compare!Previous, Compare!Left

\* Where each finding goes, by its key.
LEMMA FindingsAreSorted ==
  ASSUME NEW from, NEW to, Compare!Keyed(from), Compare!Keyed(to), Listed(from), Listed(to),
         NEW c, c = Compare!CompareResults(from, to)
  PROVE  /\ c.resolvedIssues = {i \in DOMAIN from : \A j \in DOMAIN to : to[j].key # from[i].key}
         /\ c.newIssues = {j \in DOMAIN to : \A i \in DOMAIN from : from[i].key # to[j].key}
         /\ c.changedIssues = {j \in DOMAIN to : \E i \in DOMAIN from :
                                 from[i].key = to[j].key /\ Compare!Differ(from[i], to[j])}
         /\ c.unchangedIssues = {j \in DOMAIN to : \E i \in DOMAIN from :
                                   from[i].key = to[j].key /\ ~Compare!Differ(from[i], to[j])}
<1>1. /\ \A i \in DOMAIN from : from[i].key # None
      /\ \A j \in DOMAIN to : to[j].key # None
  BY DEF Compare!Keyed
<1>2. \A j \in DOMAIN to :
        Compare!Has(from, Compare!KeyFor(to[j])) <=> \E i \in DOMAIN from : from[i].key = to[j].key
  BY <1>1, KeysTell DEF Compare!Has
<1>3. \A i \in DOMAIN from :
        Compare!Has(to, Compare!KeyFor(from[i])) <=> \E j \in DOMAIN to : to[j].key = from[i].key
  BY <1>1, KeysTell DEF Compare!Has
<1>4. \A j \in DOMAIN to : \A i \in DOMAIN from :
        from[i].key = to[j].key => Compare!Previous(from, to[j]) = from[i]
  BY <1>1, Across
<1> DEFINE shared == {i \in DOMAIN to : Compare!Has(from, Compare!KeyFor(to[i]))}
           moved == {i \in shared : Compare!Differ(Compare!Previous(from, to[i]), to[i])}
<1>5. /\ c.newIssues = DOMAIN to \ shared
      /\ c.resolvedIssues = {i \in DOMAIN from : ~Compare!Has(to, Compare!KeyFor(from[i]))}
      /\ c.changedIssues = moved /\ c.unchangedIssues = shared \ moved
  BY DEF Compare!CompareResults
<1>6. moved = {j \in DOMAIN to : \E i \in DOMAIN from :
                 from[i].key = to[j].key /\ Compare!Differ(from[i], to[j])}
  BY <1>2, <1>4
<1>7. shared \ moved = {j \in DOMAIN to : \E i \in DOMAIN from :
                          from[i].key = to[j].key /\ ~Compare!Differ(from[i], to[j])}
  BY <1>2, <1>4
<1>8. DOMAIN to \ shared = {j \in DOMAIN to : \A i \in DOMAIN from : from[i].key # to[j].key}
  BY <1>2
<1> QED BY <1>3, <1>5, <1>6, <1>7, <1>8

\* The rows, by the findings they show.
LEMMA RowsOfFindings ==
  ASSUME NEW from, NEW to, Compare!Keyed(from), Compare!Keyed(to), Listed(from), Listed(to)
  PROVE  \A r : r \in Compare!AlignedRows(from, to) <=>
           \/ \E i \in DOMAIN from :
                r = FixedRow(from, i) /\ \A j \in DOMAIN to : to[j].key # from[i].key
           \/ \E j \in DOMAIN to :
                r = NewRow(to, j) /\ \A i \in DOMAIN from : from[i].key # to[j].key
           \/ \E j \in DOMAIN to, i \in DOMAIN from :
                from[i].key = to[j].key /\ r = IF Compare!Differ(from[i], to[j])
                                                 THEN ChangedRow(from[i], to, j) ELSE SameRow(to, j)
<1>1. PICK c : c = Compare!CompareResults(from, to)
  OBVIOUS
<1> DEFINE fixed == {[state |-> "fixed", at |-> i, left |-> from[i], right |-> None] :
                       i \in c.resolvedIssues}
           added == {[state |-> "new", at |-> i, left |-> None, right |-> to[i]] : i \in c.newIssues}
           moved == {[state |-> "changed", at |-> i, left |-> Compare!Left(from, to, to[i]),
                      right |-> to[i]] : i \in c.changedIssues}
           alike == {[state |-> "same", at |-> i, left |-> to[i], right |-> to[i]] :
                       i \in c.unchangedIssues}
<1>2. Compare!AlignedRows(from, to) = ((fixed \cup added) \cup moved) \cup alike
  BY <1>1 DEF Compare!AlignedRows
<1>3. \A r : r \in fixed <=> \E i \in DOMAIN from :
                r = FixedRow(from, i) /\ \A j \in DOMAIN to : to[j].key # from[i].key
  BY <1>1, FindingsAreSorted DEF FixedRow
<1>4. \A r : r \in added <=> \E j \in DOMAIN to :
                r = NewRow(to, j) /\ \A i \in DOMAIN from : from[i].key # to[j].key
  BY <1>1, FindingsAreSorted DEF NewRow
<1>5. \A r : r \in alike <=> \E j \in DOMAIN to, i \in DOMAIN from :
                from[i].key = to[j].key /\ ~Compare!Differ(from[i], to[j]) /\ r = SameRow(to, j)
  BY <1>1, FindingsAreSorted DEF SameRow
<1>6. \A r : r \in moved <=> \E j \in DOMAIN to, i \in DOMAIN from :
                from[i].key = to[j].key /\ Compare!Differ(from[i], to[j])
                /\ r = ChangedRow(from[i], to, j)
  <2>1. \A j \in DOMAIN to : to[j].key # None
    BY DEF Compare!Keyed
  <2>2. \A j \in DOMAIN to : \A i \in DOMAIN from :
          from[i].key = to[j].key => Compare!Left(from, to, to[j]) = from[i]
    BY <2>1, Across
  <2>3. c.changedIssues = {j \in DOMAIN to : \E i \in DOMAIN from :
                             from[i].key = to[j].key /\ Compare!Differ(from[i], to[j])}
    BY <1>1, FindingsAreSorted
  <2> QED BY <2>2, <2>3 DEF ChangedRow
<1> HIDE DEF fixed, added, moved, alike
<1> QED BY <1>2, <1>3, <1>4, <1>5, <1>6

LEMMA LeftOnce ==
  ASSUME NEW from, NEW to, Compare!Keyed(from), Compare!Keyed(to), Listed(from), Listed(to),
         NEW i \in DOMAIN from
  PROVE  Compare!OneOf({r \in Compare!AlignedRows(from, to) :
                          r.state # "new" /\ r.left.key = from[i].key})
<1> DEFINE across == {r \in Compare!AlignedRows(from, to) :
                        r.state # "new" /\ r.left.key = from[i].key}
<1>1. /\ \A k \in DOMAIN from : from[k].key = from[i].key => k = i
      /\ \A j, k \in DOMAIN to : to[j].key = to[k].key => j = k
  BY DEF Compare!Keyed
<1>2. CASE \A j \in DOMAIN to : to[j].key # from[i].key
  <2>1. FixedRow(from, i) \in across
    BY <1>2, RowsOfFindings DEF FixedRow
  <2>2. \A r \in across : r = FixedRow(from, i)
    BY <1>1, <1>2, RowsOfFindings DEF FixedRow, NewRow, ChangedRow, SameRow
  <2> HIDE DEF across
  <2>3. across = {FixedRow(from, i)}
    BY <2>1, <2>2
  <2> QED BY <2>1, <2>3 DEF Compare!OneOf, across
<1>3. CASE \E j \in DOMAIN to : to[j].key = from[i].key
  <2>1. PICK j \in DOMAIN to : to[j].key = from[i].key
    BY <1>3
  <2>2. PICK r : r = IF Compare!Differ(from[i], to[j]) THEN ChangedRow(from[i], to, j)
                       ELSE SameRow(to, j)
    OBVIOUS
  <2>3. r.state # "new" /\ r.left.key = from[i].key
    BY <2>1, <2>2 DEF ChangedRow, SameRow
  <2>4. r \in across
    BY <2>1, <2>2, <2>3, RowsOfFindings
  <2>5. ASSUME NEW q \in across PROVE q = r
    <3>1. CASE \E k \in DOMAIN from :
                 q = FixedRow(from, k) /\ \A h \in DOMAIN to : to[h].key # from[k].key
      BY <1>1, <2>1, <3>1 DEF FixedRow
    <3>2. CASE \E h \in DOMAIN to : q = NewRow(to, h)
      BY <3>2 DEF NewRow
    <3>3. CASE \E h \in DOMAIN to, k \in DOMAIN from :
                 from[k].key = to[h].key /\ q = IF Compare!Differ(from[k], to[h])
                                                  THEN ChangedRow(from[k], to, h) ELSE SameRow(to, h)
      <4>1. PICK h \in DOMAIN to, k \in DOMAIN from :
              from[k].key = to[h].key /\ q = IF Compare!Differ(from[k], to[h])
                                               THEN ChangedRow(from[k], to, h) ELSE SameRow(to, h)
        BY <3>3
      <4>2. q.left.key = to[h].key
        BY <4>1 DEF ChangedRow, SameRow
      <4>3. h = j /\ k = i
        BY <1>1, <2>1, <4>1, <4>2
      <4> QED BY <2>2, <4>1, <4>3
    <3> QED BY <3>1, <3>2, <3>3, RowsOfFindings
  <2> HIDE DEF across
  <2>6. across = {r}
    BY <2>4, <2>5
  <2> QED BY <2>4, <2>6 DEF Compare!OneOf, across
<1> QED BY <1>2, <1>3

LEMMA RightOnce ==
  ASSUME NEW from, NEW to, Compare!Keyed(from), Compare!Keyed(to), Listed(from), Listed(to),
         NEW j \in DOMAIN to
  PROVE  Compare!OneOf({r \in Compare!AlignedRows(from, to) :
                          r.state # "fixed" /\ r.right.key = to[j].key})
<1> DEFINE across == {r \in Compare!AlignedRows(from, to) :
                        r.state # "fixed" /\ r.right.key = to[j].key}
<1>1. /\ \A k \in DOMAIN to : to[k].key = to[j].key => k = j
      /\ \A i, k \in DOMAIN from : from[i].key = from[k].key => i = k
  BY DEF Compare!Keyed
<1>2. CASE \A i \in DOMAIN from : from[i].key # to[j].key
  <2>1. NewRow(to, j) \in across
    BY <1>2, RowsOfFindings DEF NewRow
  <2>2. \A r \in across : r = NewRow(to, j)
    BY <1>1, <1>2, RowsOfFindings DEF FixedRow, NewRow, ChangedRow, SameRow
  <2> HIDE DEF across
  <2>3. across = {NewRow(to, j)}
    BY <2>1, <2>2
  <2> QED BY <2>1, <2>3 DEF Compare!OneOf, across
<1>3. CASE \E i \in DOMAIN from : from[i].key = to[j].key
  <2>1. PICK i \in DOMAIN from : from[i].key = to[j].key
    BY <1>3
  <2>2. PICK r : r = IF Compare!Differ(from[i], to[j]) THEN ChangedRow(from[i], to, j)
                       ELSE SameRow(to, j)
    OBVIOUS
  <2>3. r.state # "fixed" /\ r.right.key = to[j].key
    BY <2>1, <2>2 DEF ChangedRow, SameRow
  <2>4. r \in across
    BY <2>1, <2>2, <2>3, RowsOfFindings
  <2>5. ASSUME NEW q \in across PROVE q = r
    <3>1. CASE \E k \in DOMAIN from : q = FixedRow(from, k)
      BY <3>1 DEF FixedRow
    <3>2. CASE \E h \in DOMAIN to :
                 q = NewRow(to, h) /\ \A k \in DOMAIN from : from[k].key # to[h].key
      BY <1>1, <2>1, <3>2 DEF NewRow
    <3>3. CASE \E h \in DOMAIN to, k \in DOMAIN from :
                 from[k].key = to[h].key /\ q = IF Compare!Differ(from[k], to[h])
                                                  THEN ChangedRow(from[k], to, h) ELSE SameRow(to, h)
      <4>1. PICK h \in DOMAIN to, k \in DOMAIN from :
              from[k].key = to[h].key /\ q = IF Compare!Differ(from[k], to[h])
                                               THEN ChangedRow(from[k], to, h) ELSE SameRow(to, h)
        BY <3>3
      <4>2. q.right.key = to[h].key
        BY <4>1 DEF ChangedRow, SameRow
      <4>3. h = j /\ k = i
        BY <1>1, <2>1, <4>1, <4>2
      <4> QED BY <2>2, <4>1, <4>3
    <3> QED BY <3>1, <3>2, <3>3, RowsOfFindings
  <2> HIDE DEF across
  <2>6. across = {r}
    BY <2>4, <2>5
  <2> QED BY <2>4, <2>6 DEF Compare!OneOf, across
<1> QED BY <1>2, <1>3

\* The keys of a result's findings.
KeysOf(compared) == {compared[i].key : i \in DOMAIN compared}

\* Two results are called identical when no row says otherwise.
LEMMA IdenticalRowsAgree ==
  ASSUME NEW from, NEW to, Compare!Keyed(from), Compare!Keyed(to), Listed(from), Listed(to)
  PROVE  /\ Compare!Identical(from, to) => KeysOf(from) = KeysOf(to)
         /\ Compare!Identical(from, to) <=>
              \A r \in Compare!AlignedRows(from, to) : r.state = "same"
<1>1. PICK c : c = Compare!CompareResults(from, to)
  OBVIOUS
<1>2. Compare!Identical(from, to) <=>
        c.newIssues = {} /\ c.resolvedIssues = {} /\ c.changedIssues = {}
  BY <1>1 DEF Compare!Identical
<1>3. /\ c.resolvedIssues = {i \in DOMAIN from : \A j \in DOMAIN to : to[j].key # from[i].key}
      /\ c.newIssues = {j \in DOMAIN to : \A i \in DOMAIN from : from[i].key # to[j].key}
      /\ c.changedIssues = {j \in DOMAIN to : \E i \in DOMAIN from :
                              from[i].key = to[j].key /\ Compare!Differ(from[i], to[j])}
  BY <1>1, FindingsAreSorted
<1>4. Compare!Identical(from, to) => KeysOf(from) = KeysOf(to)
  BY <1>2, <1>3 DEF KeysOf
<1>5. ASSUME Compare!Identical(from, to), NEW r \in Compare!AlignedRows(from, to)
      PROVE  r.state = "same"
  BY <1>2, <1>3, <1>5, RowsOfFindings DEF SameRow
<1>6. ASSUME \A r \in Compare!AlignedRows(from, to) : r.state = "same"
      PROVE  Compare!Identical(from, to)
  <2>1. \A i \in DOMAIN from : FixedRow(from, i).state # "same"
    BY DEF FixedRow
  <2>2. \A j \in DOMAIN to : NewRow(to, j).state # "same"
    BY DEF NewRow
  <2>3. \A j \in DOMAIN to : \A i \in DOMAIN from : ChangedRow(from[i], to, j).state # "same"
    BY DEF ChangedRow
  <2>4. c.resolvedIssues = {}
    BY <1>3, <1>6, <2>1, RowsOfFindings
  <2>5. c.newIssues = {}
    BY <1>3, <1>6, <2>2, RowsOfFindings
  <2>6. c.changedIssues = {}
    <3>1. ASSUME NEW j \in DOMAIN to, NEW i \in DOMAIN from,
                 from[i].key = to[j].key, Compare!Differ(from[i], to[j])
          PROVE  FALSE
      <4>1. ChangedRow(from[i], to, j) \in Compare!AlignedRows(from, to)
        BY <3>1, RowsOfFindings
      <4> QED BY <1>6, <2>3, <4>1
    <3> QED BY <1>3, <3>1
  <2> QED BY <1>2, <2>4, <2>5, <2>6
<1> QED BY <1>4, <1>5, <1>6

-----------------------------------------------------------------------------
(* Which versions are compared                                               *)

\* There is always something to compare.
CompareInv ==
  /\ \E n \in 2 .. MaxCompared : offered \in [1 .. n -> Compare!Versions]
  /\ picked \in Workbooks \cup {None} /\ selectedId \in Workbooks
  /\ viewFilter \in {"all", "changed-only"} /\ Compare!AlwaysCompares

LEMMA NewestAndOlder ==
  ASSUME NEW n \in Nat, NEW s, s \subseteq 1 .. n, s # {}
  PROVE  Compare!Newest(s) \in s /\ Compare!Older(s) \in s
<1>1. ASSUME NEW t, t \subseteq 1 .. n, t # {} PROVE Compare!Newest(t) \in t
  BY <1>1, LeastVersion DEF Compare!Newest
<1>2. Compare!Newest(s) \in s
  BY <1>1
<1>3. CASE s = {Compare!Newest(s)}
  BY <1>2, <1>3 DEF Compare!Older
<1>4. CASE s # {Compare!Newest(s)}
  <2>1. s \ {Compare!Newest(s)} # {} /\ s \ {Compare!Newest(s)} \subseteq 1 .. n
    BY <1>2, <1>4
  <2>2. Compare!Newest(s \ {Compare!Newest(s)}) \in s \ {Compare!Newest(s)}
    BY <1>1, <2>1
  <2> QED BY <1>2, <1>4, <2>2 DEF Compare!Older
<1> QED BY <1>2, <1>3, <1>4

LEMMA GroupsAreLarge == \A S : Compare!Cardinality(S) = Cardinality(S)
BY DEF Compare!Cardinality, Cardinality

LEMMA CompareStarts == Compare!Init => CompareInv
<1> SUFFICES ASSUME Compare!Init PROVE CompareInv
  OBVIOUS
<1>1. PICK n \in 2 .. MaxCompared : offered \in [1 .. n -> Compare!Versions]
  BY DEF Compare!Init
<1>2. Compare!Picker \subseteq 1 .. n
  BY <1>1 DEF Compare!Picker, Compare!Group
<1>3. Compare!Picker # {}
  <2>1. CASE Compare!HasSameFileGroup
    <3>1. Compare!Group(selectedId) # {}
      <4>1. Cardinality({}) = 0
        BY FS_EmptySet
      <4>2. ~(0 >= 2)
        OBVIOUS
      <4> QED BY <2>1, <4>1, <4>2, GroupsAreLarge DEF Compare!Init, Compare!InitialGroup
    <3> QED BY <2>1, <3>1 DEF Compare!Picker
  <2>2. CASE ~Compare!HasSameFileGroup
    BY <1>1, <2>2 DEF Compare!Picker
  <2> QED BY <2>1, <2>2
<1>4. Compare!Older(Compare!Picker) \in Compare!Picker /\ Compare!Newest(Compare!Picker) \in Compare!Picker
  <2>1. n \in Nat
    OBVIOUS
  <2> QED BY <1>2, <1>3, <2>1, NewestAndOlder
<1> QED BY <1>1, <1>4 DEF CompareInv, Compare!Init, Compare!AlwaysCompares

\* What is compared after the file has changed.
LEMMA ReseedIsPicked ==
  ASSUME CompareInv, UNCHANGED offered, Compare!Group(selectedId') # {}, Compare!Reseed
  PROVE  Compare!AlwaysCompares'
<1>1. PICK n \in 2 .. MaxCompared : offered \in [1 .. n -> Compare!Versions]
  BY DEF CompareInv
<1>2. /\ \A w : Compare!Group(w)' = Compare!Group(w)
      /\ Compare!HasSameFileGroup' <=> Compare!HasSameFileGroup
  BY DEF Compare!Group, Compare!HasSameFileGroup
<1>3. CASE Compare!HasSameFileGroup
  <2>1. PICK s : s = Compare!Picker' /\ s = Compare!Group(selectedId')
    BY <1>2, <1>3 DEF Compare!Picker, Compare!Group
  <2>2. s \subseteq 1 .. n /\ s # {} /\ n \in Nat
    BY <1>1, <2>1 DEF Compare!Group
  <2>3. Compare!Newest(s) \in s /\ Compare!Older(s) \in s
    BY <2>2, NewestAndOlder
  <2>4. /\ fromId' = IF fromId \in s THEN fromId ELSE Compare!Older(s)
        /\ toId' = IF toId \in s THEN toId ELSE Compare!Newest(s)
    BY <1>3, <2>1 DEF Compare!Reseed
  <2> QED BY <2>1, <2>3, <2>4 DEF Compare!AlwaysCompares
<1>4. CASE ~Compare!HasSameFileGroup
  <2>1. UNCHANGED <<fromId, toId>>
    BY <1>4 DEF Compare!Reseed
  <2>2. Compare!Picker' = Compare!Picker
    BY <1>2, <1>4 DEF Compare!Picker
  <2> QED BY <2>1, <2>2 DEF CompareInv, Compare!AlwaysCompares
<1> QED BY <1>3, <1>4

LEMMA CompareStep == CompareInv /\ [Compare!Next]_(Compare!vars) => CompareInv'
<1> SUFFICES ASSUME CompareInv, [Compare!Next]_(Compare!vars) PROVE CompareInv'
  OBVIOUS
<1>1. offered' = offered
  BY DEF Compare!Next, Compare!vars, Compare!Swap, Compare!SelectFile, Compare!ActiveChanges,
     Compare!Pick, Compare!SetViewFilter
<1>2. Compare!Group(selectedId)' = Compare!Group(selectedId')
      /\ (Compare!HasSameFileGroup' <=> Compare!HasSameFileGroup)
  BY <1>1 DEF Compare!Group, Compare!HasSameFileGroup
<1>3. ASSUME UNCHANGED selectedId PROVE Compare!Picker' = Compare!Picker
  BY <1>1, <1>2, <1>3 DEF Compare!Picker, Compare!Group
<1>4. CASE UNCHANGED Compare!vars
  BY <1>3, <1>4 DEF Compare!vars, CompareInv, Compare!AlwaysCompares
<1>5. CASE Compare!Swap
  BY <1>3, <1>5 DEF Compare!Swap, CompareInv, Compare!AlwaysCompares
<1>6. ASSUME NEW w \in Workbooks, Compare!SelectFile(w) PROVE CompareInv'
  <2>1. Compare!AlwaysCompares'
    BY <1>6, ReseedIsPicked DEF Compare!SelectFile
  <2> QED BY <1>6, <2>1 DEF Compare!SelectFile, CompareInv
<1>7. ASSUME NEW w \in Workbooks, Compare!ActiveChanges(w) PROVE CompareInv'
  <2>1. CASE Compare!Group(w) # {} /\ w # selectedId
    <3>1. selectedId' = w /\ Compare!Reseed /\ picked' = w /\ UNCHANGED <<offered, viewFilter>>
      BY <1>7, <2>1 DEF Compare!ActiveChanges
    <3>2. Compare!AlwaysCompares'
      BY <2>1, <3>1, ReseedIsPicked
    <3> QED BY <3>1, <3>2 DEF CompareInv
  <2>2. CASE ~(Compare!Group(w) # {} /\ w # selectedId)
    <3>1. selectedId' = selectedId /\ picked' = w /\ UNCHANGED <<offered, viewFilter, fromId, toId>>
      BY <1>7, <2>2 DEF Compare!ActiveChanges
    <3>2. Compare!AlwaysCompares'
      BY <1>3, <3>1 DEF CompareInv, Compare!AlwaysCompares
    <3> QED BY <3>1, <3>2 DEF CompareInv
  <2> QED BY <2>1, <2>2
<1>8. ASSUME NEW i \in DOMAIN offered, NEW j \in DOMAIN offered, Compare!Pick(i, j) PROVE CompareInv'
  BY <1>3, <1>8 DEF Compare!Pick, CompareInv, Compare!AlwaysCompares
<1>9. ASSUME NEW x \in {"all", "changed-only"}, Compare!SetViewFilter(x) PROVE CompareInv'
  BY <1>3, <1>9 DEF Compare!SetViewFilter, CompareInv, Compare!AlwaysCompares
<1> QED BY <1>4, <1>5, <1>6, <1>7, <1>8, <1>9 DEF Compare!Next

LEMMA SidesAreVersions ==
  ASSUME CompareInv PROVE fromId \in DOMAIN offered /\ toId \in DOMAIN offered
BY DEF CompareInv, Compare!AlwaysCompares, Compare!Picker, Compare!Group

LEMMA CompareIsTrue == CompareInv => Compare!VersionsCompare
<1> SUFFICES ASSUME CompareInv PROVE Compare!VersionsCompare
  OBVIOUS
<1> DEFINE from == offered[fromId].issues
           to == offered[toId].issues
<1>1. from = offered[fromId].issues /\ to = offered[toId].issues
  OBVIOUS
<1>0. from \in Samples /\ to \in Samples
  BY SidesAreVersions DEF CompareInv, Compare!Versions
<1> HIDE DEF from, to
<1>2. Listed(from) /\ Listed(to)
  BY <1>0, SamplesAreLists
<1>3. ASSUME Compare!Keyed(from), Compare!Keyed(to)
      PROVE  /\ \A r \in Compare!AlignedRows(from, to) : r.state \in {"changed", "same"} =>
                  /\ r.left.key = r.right.key
                  /\ r.state = "same" <=> ~Compare!Differ(r.left, r.right)
             /\ Compare!CompareResults(to, from).newIssues = Compare!CompareResults(from, to).resolvedIssues
             /\ viewFilter = "changed-only" =>
                  (Compare!VisibleRows = {} <=> Compare!Identical(from, to))
  <2>1. ASSUME NEW r \in Compare!AlignedRows(from, to), r.state \in {"changed", "same"}
        PROVE  r.left.key = r.right.key /\ (r.state = "same" <=> ~Compare!Differ(r.left, r.right))
    <3>1. \A i : FixedRow(from, i).state = "fixed" /\ NewRow(to, i).state = "new"
      BY DEF FixedRow, NewRow
    <3>2. PICK j \in DOMAIN to, i \in DOMAIN from :
            from[i].key = to[j].key /\ r = IF Compare!Differ(from[i], to[j])
                                             THEN ChangedRow(from[i], to, j) ELSE SameRow(to, j)
      BY <1>2, <1>3, <2>1, <3>1, RowsOfFindings
    <3>3. CASE Compare!Differ(from[i], to[j])
      BY <3>2, <3>3 DEF ChangedRow
    <3>4. CASE ~Compare!Differ(from[i], to[j])
      <4>1. ~Compare!Differ(to[j], to[j])
        BY DEF Compare!Differ
      <4> QED BY <3>2, <3>4, <4>1 DEF SameRow
    <3> QED BY <3>3, <3>4
  <2>2. Compare!CompareResults(to, from).newIssues = Compare!CompareResults(from, to).resolvedIssues
    <3>1. /\ Compare!CompareResults(to, from).newIssues =
               {j \in DOMAIN from : \A i \in DOMAIN to : to[i].key # from[j].key}
          /\ Compare!CompareResults(from, to).resolvedIssues =
               {i \in DOMAIN from : \A j \in DOMAIN to : to[j].key # from[i].key}
      BY <1>2, <1>3, FindingsAreSorted
    <3> QED BY <3>1
  <2>3. ASSUME viewFilter = "changed-only"
        PROVE  Compare!VisibleRows = {} <=> Compare!Identical(from, to)
    <3>1. Compare!VisibleRows = {r \in Compare!AlignedRows(from, to) : r.state # "same"}
      BY <1>1, <2>3 DEF Compare!VisibleRows
    <3> QED BY <1>2, <1>3, <3>1, IdenticalRowsAgree
  <2> QED BY <2>1, <2>2, <2>3
<1>4. ASSUME Compare!Keyed(from), Compare!Keyed(to)
      PROVE  /\ \A i \in DOMAIN from : Compare!OneOf({r \in Compare!AlignedRows(from, to) :
                    r.state # "new" /\ r.left.key = from[i].key})
             /\ \A i \in DOMAIN to : Compare!OneOf({r \in Compare!AlignedRows(from, to) :
                    r.state # "fixed" /\ r.right.key = to[i].key})
             /\ Compare!Identical(from, to) =>
                  {from[i].key : i \in DOMAIN from} = {to[i].key : i \in DOMAIN to}
  <2>1. Compare!Identical(from, to) =>
          {from[i].key : i \in DOMAIN from} = {to[i].key : i \in DOMAIN to}
    <3>1. Compare!Identical(from, to) => KeysOf(from) = KeysOf(to)
      BY <1>2, <1>4, IdenticalRowsAgree
    <3> QED BY <3>1 DEF KeysOf
  <2>2. ASSUME NEW i \in DOMAIN from
        PROVE  Compare!OneOf({r \in Compare!AlignedRows(from, to) :
                 r.state # "new" /\ r.left.key = from[i].key})
    BY <1>2, <1>4, LeftOnce, Zenon
  <2>3. ASSUME NEW i \in DOMAIN to
        PROVE  Compare!OneOf({r \in Compare!AlignedRows(from, to) :
                 r.state # "fixed" /\ r.right.key = to[i].key})
    BY <1>2, <1>4, RightOnce, Zenon
  <2> QED BY <2>1, <2>2, <2>3, Zenon
<1>5. Compare!ComparisonIsExact
  BY <1>3, <1>4, Zenon DEF Compare!ComparisonIsExact, from, to
<1> QED BY <1>5 DEF CompareInv, Compare!VersionsCompare

LEMMA CompareIsTyped == CompareInv => Compare!TypeOK
<1> SUFFICES ASSUME CompareInv PROVE Compare!TypeOK
  OBVIOUS
<1>1. PICK n \in 2 .. MaxCompared : offered \in [1 .. n -> Compare!Versions]
  BY DEF CompareInv
<1>2. Len(offered) = n
  BY <1>1
<1> QED BY <1>1, <1>2, SidesAreVersions DEF CompareInv, Compare!TypeOK
-----------------------------------------------------------------------------
(* The workspace of a function                                               *)

RunRecords ==
  [file : Opened, pc : {"sent", "answered", "over"}, got : Workspace!Results \cup {None}]
LookUpRecords ==
  [pc : {"sent"}, file : Opened, got : {None}]
    \cup [pc : {"answered"}, file : Opened, got : Workspace!Results] \cup {Workspace!NoLookUp}
NumberedRecords == [file : Opened, number : 1 .. MaxVersions, result : Workspace!Results]

\* What an answered request has brought is a result.
RunTypes ==
  /\ started \in Seq(RunRecords) /\ Len(started) <= MaxStarts
  /\ \A r \in DOMAIN started : started[r].pc = "answered" => started[r].got \in Workspace!Results
  /\ runKey \in (1 .. MaxStarts) \cup {None} /\ running \in BOOLEAN
  /\ done \in Seq(Opened) /\ Len(done) <= MaxCompleted /\ lookUp \in LookUpRecords

ResultTypes ==
  /\ openFile \in Opened /\ modal \in {"closed", "open", "confirmed"}
  /\ result \in Workspace!Results \cup {None} /\ latest \in Workspace!Results \cup {None}
  /\ said \in [file : Opened, result : Workspace!Results] \cup {None}

VersionTypes == numbered \in Seq(NumberedRecords) /\ Len(numbered) <= MaxVersions

\* The run that may commit was started last.
LastMayCommit == runKey # None => runKey = Len(started)

RunsInTurn == RunTypes /\ LastMayCommit /\ Workspace!BusyIsClaimed
VersionsInTurn == VersionTypes /\ Workspace!VersionsCountUp
WorkspaceInv == RunsInTurn /\ ResultTypes /\ VersionsInTurn /\ Workspace!SaveIsAsSaid

LEMMA VersionsAreCounted == \A S : Workspace!Cardinality(S) = Cardinality(S)
BY DEF Workspace!Cardinality, Cardinality

\* Positions that move up by one are as many.
LEMMA MovedUp ==
  ASSUME NEW n \in Nat, NEW S, S \subseteq 1 .. n
  PROVE  /\ IsFiniteSet(S) /\ Cardinality(S) \in Nat /\ Cardinality(S) <= n
         /\ IsFiniteSet({i + 1 : i \in S}) /\ Cardinality({i + 1 : i \in S}) = Cardinality(S)
<1>1. IsFiniteSet(1 .. n) /\ Cardinality(1 .. n) = n
  BY FS_Interval
<1>2. IsFiniteSet(S) /\ Cardinality(S) <= n
  BY <1>1, FS_Subset
<1>3. Cardinality(S) \in Nat
  BY <1>2, FS_CardinalityType
<1> DEFINE T == {i + 1 : i \in S}
           up == [i \in S |-> i + 1]
<1>4. up \in Bijection(S, T)
  <2>1. up \in [S -> T] /\ \A i \in S : up[i] = i + 1
    OBVIOUS
  <2>2. \A i, j \in S : up[i] = up[j] => i = j
    BY <2>1
  <2>3. \A t \in T : \E i \in S : up[i] = t
    BY <2>1
  <2> HIDE DEF up, T
  <2> QED BY <2>1, <2>2, <2>3, Fun_IsBij
<1>5. ExistsBijection(S, T)
  BY <1>4, Fun_ExistsBij
<1>6. IsFiniteSet(T) /\ Cardinality(T) = Cardinality(S)
  BY <1>2, <1>5, FS_Bijection
<1> QED BY <1>2, <1>3, <1>6

\* A new version takes the next number of its function and goes first.
LEMMA VersionIsAdded ==
  ASSUME WorkspaceNames, VersionsInTurn, NEW res \in Workspace!Results, Len(numbered) < MaxVersions,
         numbered' = Workspace!WithVersion(res)
  PROVE  /\ VersionsInTurn' /\ Len(numbered') = Len(numbered) + 1
         /\ numbered'[1].file = res.file /\ numbered'[1].result = res
<1>1. PICK n \in Nat : n = Len(numbered) /\ DOMAIN numbered = 1 .. n
  BY DEF VersionsInTurn, VersionTypes
<1>2. /\ \A f : Workspace!OfFile(f) \subseteq 1 .. n
      /\ Workspace!NextNumber(res.file) = Cardinality(Workspace!OfFile(res.file)) + 1
  BY <1>1, VersionsAreCounted DEF Workspace!OfFile, Workspace!NextNumber
<1>3. Workspace!NextNumber(res.file) \in 1 .. MaxVersions
  <2>1. Cardinality(Workspace!OfFile(res.file)) \in Nat /\ Cardinality(Workspace!OfFile(res.file)) <= n
    BY <1>1, <1>2, MovedUp
  <2> QED BY <1>1, <1>2, <2>1 DEF WorkspaceNames
<1>4. PICK v \in NumberedRecords :
        v = [file |-> res.file, number |-> Workspace!NextNumber(res.file), result |-> res]
  BY <1>3 DEF NumberedRecords, Workspace!Results
<1>5. v.file = res.file /\ v.number = Workspace!NextNumber(res.file) /\ v.result = res
  BY <1>4
<1>6. numbered' = <<v>> \o numbered
  BY <1>4 DEF Workspace!WithVersion
<1>7. /\ numbered' \in Seq(NumberedRecords) /\ Len(numbered') = n + 1 /\ DOMAIN numbered' = 1 .. (n + 1)
      /\ numbered'[1] = v /\ \A i \in 1 .. n : numbered'[i + 1] = numbered[i]
  <2>1. numbered \in Seq(NumberedRecords)
    BY DEF VersionsInTurn, VersionTypes
  <2> HIDE DEF NumberedRecords
  <2>2. <<v>> \in Seq(NumberedRecords) /\ Len(<<v>>) = 1 /\ <<v>>[1] = v
    OBVIOUS
  <2>3. /\ <<v>> \o numbered \in Seq(NumberedRecords) /\ Len(<<v>> \o numbered) = 1 + n
        /\ \A i \in 1 .. 1 + n : (<<v>> \o numbered)[i] = IF i <= 1 THEN <<v>>[i] ELSE numbered[i - 1]
    BY <1>1, <2>1, <2>2, ConcatProperties
  <2>4. numbered'[1] = v /\ \A i \in 1 .. n : numbered'[i + 1] = numbered[i]
    BY <1>1, <1>6, <2>2, <2>3
  <2> QED BY <1>6, <2>3, <2>4
<1>8. /\ \A f \in Opened : f # res.file => Workspace!OfFile(f)' = {i + 1 : i \in Workspace!OfFile(f)}
      /\ Workspace!OfFile(res.file)' = {1} \cup {i + 1 : i \in Workspace!OfFile(res.file)}
  <2>1. \A i \in 1 .. (n + 1) : i = 1 \/ \E j \in 1 .. n : i = j + 1
    <3> SUFFICES ASSUME NEW i \in 1 .. (n + 1), i # 1 PROVE i - 1 \in 1 .. n /\ i = (i - 1) + 1
      OBVIOUS
    <3> QED OBVIOUS
  <2>2. \A f : Workspace!OfFile(f)' = {i \in 1 .. (n + 1) : numbered'[i].file = f}
    BY <1>7 DEF Workspace!OfFile
  <2>3. \A f : Workspace!OfFile(f) = {i \in 1 .. n : numbered[i].file = f}
    BY <1>1 DEF Workspace!OfFile
  <2>4. \A j \in 1 .. n : j + 1 \in 1 .. (n + 1) /\ numbered'[j + 1] = numbered[j]
    BY <1>7
  <2>5. ASSUME NEW f, NEW i \in 1 .. (n + 1), i # 1
        PROVE  i \in Workspace!OfFile(f)' <=> i \in {j + 1 : j \in Workspace!OfFile(f)}
    <3>1. PICK k \in 1 .. n : i = k + 1
      BY <2>1, <2>5
    <3>2. numbered'[i].file = numbered[k].file
      BY <2>4, <3>1
    <3>3. i \in {j + 1 : j \in Workspace!OfFile(f)} <=> k \in Workspace!OfFile(f)
      <4>1. \A j \in Workspace!OfFile(f) : j \in 1 .. n
        BY <2>3
      <4> QED BY <3>1, <4>1
    <3> QED BY <2>2, <2>3, <3>2, <3>3
  <2>6. ASSUME NEW f PROVE 1 \notin {j + 1 : j \in Workspace!OfFile(f)}
                           /\ (1 \in Workspace!OfFile(f)' <=> f = res.file)
    BY <1>5, <1>7, <2>2, <2>3
  <2>7. ASSUME NEW f PROVE Workspace!OfFile(f)' \subseteq 1 .. (n + 1)
                           /\ {j + 1 : j \in Workspace!OfFile(f)} \subseteq 1 .. (n + 1)
    BY <2>2, <2>3
  <2> QED BY <2>5, <2>6, <2>7
<1>9. ASSUME NEW f \in Opened, NEW i \in Workspace!OfFile(f)
      PROVE  numbered'[i + 1].number = Cardinality({j \in Workspace!OfFile(f)' : i + 1 <= j})
  <2>1. numbered[i].number = Cardinality({j \in Workspace!OfFile(f) : i <= j}) /\ i \in 1 .. n
    BY <1>2, <1>9, VersionsAreCounted DEF VersionsInTurn, Workspace!VersionsCountUp
  <2>2. {j \in Workspace!OfFile(f)' : i + 1 <= j} = {j + 1 : j \in {k \in Workspace!OfFile(f) : i <= k}}
    <3>1. {j \in Workspace!OfFile(f)' : i + 1 <= j} =
            {j \in {k + 1 : k \in Workspace!OfFile(f)} : i + 1 <= j}
      <4>1. ~(i + 1 <= 1)
        BY <2>1
      <4>2. CASE f = res.file
        BY <1>8, <4>1, <4>2
      <4>3. CASE f # res.file
        BY <1>8, <4>3
      <4> QED BY <4>2, <4>3
    <3>2. \A k \in Workspace!OfFile(f) : k \in Nat /\ (i + 1 <= k + 1 <=> i <= k)
      BY <1>2, <2>1
    <3> QED BY <3>1, <3>2
  <2>3. {k \in Workspace!OfFile(f) : i <= k} \subseteq 1 .. n
    BY <1>2
  <2> QED BY <1>7, <2>1, <2>2, <2>3, MovedUp
<1>10. numbered'[1].number = Cardinality({j \in Workspace!OfFile(res.file)' : 1 <= j})
  <2>1. PICK T : T = {i + 1 : i \in Workspace!OfFile(res.file)}
    OBVIOUS
  <2>2. IsFiniteSet(T) /\ Cardinality(T) = Cardinality(Workspace!OfFile(res.file)) /\ 1 \notin T
    <3>1. 1 \notin T
      BY <1>2, <2>1
    <3> QED BY <1>2, <2>1, <3>1, MovedUp
  <2>3. Cardinality(T \cup {1}) = Cardinality(T) + 1
    BY <2>2, FS_AddElement
  <2>4. {j \in Workspace!OfFile(res.file)' : 1 <= j} = T \cup {1}
    BY <1>2, <1>8, <2>1
  <2> QED BY <1>2, <1>5, <1>7, <2>2, <2>3, <2>4
<1>11. Workspace!VersionsCountUp'
  <2>1. ASSUME NEW f \in Opened, NEW i \in Workspace!OfFile(f)'
        PROVE  numbered'[i].number = Cardinality({j \in Workspace!OfFile(f)' : i <= j})
    <3>1. CASE i = 1
      <4>1. f = res.file
        BY <1>5, <1>7, <2>1, <3>1 DEF Workspace!OfFile
      <4> QED BY <1>10, <3>1, <4>1
    <3>2. CASE i # 1
      <4>1. PICK k \in Workspace!OfFile(f) : i = k + 1
        BY <1>8, <2>1, <3>2
      <4> QED BY <1>9, <4>1
    <3> QED BY <3>1, <3>2
  <2> QED BY <2>1, VersionsAreCounted DEF Workspace!VersionsCountUp
<1>12. Len(numbered') <= MaxVersions
  BY <1>1, <1>7 DEF WorkspaceNames
<1> QED BY <1>1, <1>5, <1>7, <1>11, <1>12 DEF VersionsInTurn, VersionTypes

\* The newest version of a function holds another result.
LEMMA VersionIsRefreshed ==
  ASSUME VersionsInTurn, NEW res \in Workspace!Results, Workspace!OfFile(res.file) # {},
         numbered' = [numbered EXCEPT ![Workspace!Newest(res.file)].result = res]
  PROVE  /\ VersionsInTurn' /\ Len(numbered') = Len(numbered)
         /\ Workspace!OfFile(res.file)' = Workspace!OfFile(res.file)
         /\ numbered'[Workspace!Newest(res.file)].result = res
<1>1. PICK n \in Nat : n = Len(numbered) /\ DOMAIN numbered = 1 .. n /\ n <= MaxVersions
  BY DEF VersionsInTurn, VersionTypes
<1>2. Workspace!OfFile(res.file) \subseteq 1 .. n
  BY <1>1 DEF Workspace!OfFile
<1>3. PICK k \in 1 .. n : k = Workspace!Newest(res.file)
  <2>1. Workspace!Newest(res.file) \in Workspace!OfFile(res.file)
    BY <1>2, LeastVersion DEF Workspace!Newest
  <2> QED BY <1>2, <2>1
<1>4. numbered \in [1 .. n -> NumberedRecords]
  BY <1>1 DEF VersionsInTurn, VersionTypes
<1>5. PICK v \in NumberedRecords : v = numbered[k]
  BY <1>4
<1>6. PICK w \in NumberedRecords : w = [v EXCEPT !.result = res]
  BY <1>5 DEF NumberedRecords
<1>7. w.file = v.file /\ w.number = v.number /\ w.result = res
  BY <1>5, <1>6 DEF NumberedRecords
<1>8. numbered' = [numbered EXCEPT ![k] = w]
  BY <1>3, <1>5, <1>6
<1>9. /\ numbered' \in Seq(NumberedRecords) /\ Len(numbered') = n /\ DOMAIN numbered' = 1 .. n
      /\ numbered'[k] = w /\ \A i \in 1 .. n : i # k => numbered'[i] = numbered[i]
  <2> HIDE DEF NumberedRecords
  <2>1. numbered \in Seq(NumberedRecords) /\ k \in 1 .. Len(numbered)
    BY <1>1 DEF VersionsInTurn, VersionTypes
  <2>2. numbered' \in Seq(NumberedRecords) /\ Len(numbered') = Len(numbered)
    <3>1. /\ [numbered EXCEPT ![k] = w] \in Seq(NumberedRecords)
          /\ Len([numbered EXCEPT ![k] = w]) = Len(numbered)
      BY <2>1, ExceptSeq
    <3> QED BY <1>8, <3>1, Zenon
  <2>3. numbered'[k] = w /\ \A i \in 1 .. n : i # k => numbered'[i] = numbered[i]
    BY <1>1, <1>8
  <2> QED BY <1>1, <2>2, <2>3
<1>10. \A i \in 1 .. n : numbered'[i].file = numbered[i].file /\ numbered'[i].number = numbered[i].number
  BY <1>5, <1>7, <1>9
<1>11. \A f : Workspace!OfFile(f)' = Workspace!OfFile(f)
  BY <1>1, <1>9, <1>10 DEF Workspace!OfFile
<1>12. Workspace!VersionsCountUp'
  <2>1. Workspace!VersionsCountUp
    BY DEF VersionsInTurn
  <2>2. \A f : Workspace!OfFile(f) \subseteq 1 .. n
    BY <1>1 DEF Workspace!OfFile
  <2>3. ASSUME NEW f \in Opened, NEW i \in Workspace!OfFile(f)'
        PROVE  numbered'[i].number = Workspace!Cardinality({j \in Workspace!OfFile(f)' : i <= j})
    BY <1>10, <1>11, <2>1, <2>2, <2>3 DEF Workspace!VersionsCountUp
  <2> QED BY <2>3 DEF Workspace!VersionsCountUp
<1>13. VersionsInTurn'
  BY <1>1, <1>9, <1>12 DEF VersionsInTurn, VersionTypes
<1> QED BY <1>1, <1>3, <1>7, <1>9, <1>11, <1>13

\* What the store saves over is the newest version, or the first, of its function.
LEMMA SavedOver ==
  ASSUME WorkspaceNames, VersionsInTurn, NEW res \in Workspace!Results, res = Workspace!ToSave,
         Workspace!SaveOver
  PROVE  /\ VersionsInTurn' /\ latest' = res
         /\ Workspace!OfFile(res.file)' # {}
         /\ numbered'[Workspace!Newest(res.file)'].result = res
         /\ Workspace!OfFile(res.file) # {} => Len(numbered') = Len(numbered)
<1>2. latest' = res
  BY DEF Workspace!SaveOver
<1>3. CASE Workspace!OfFile(res.file) = {}
  <2>1. numbered' = Workspace!WithVersion(res) /\ Len(numbered) < MaxVersions
    BY <1>3 DEF Workspace!SaveOver
  <2>2. /\ VersionsInTurn' /\ Len(numbered') = Len(numbered) + 1
        /\ numbered'[1].file = res.file /\ numbered'[1].result = res
    BY <2>1, VersionIsAdded
  <2>3. 1 \in Workspace!OfFile(res.file)' /\ Workspace!OfFile(res.file)' \subseteq Nat
        /\ \A i \in Workspace!OfFile(res.file)' : 1 <= i
    BY <2>2 DEF Workspace!OfFile, VersionsInTurn, VersionTypes
  <2>4. Workspace!Newest(res.file)' = 1
    <3>1. PICK T : T = Workspace!OfFile(res.file)'
      OBVIOUS
    <3>2. Workspace!Newest(res.file)' = CHOOSE i \in T : \A j \in T : i <= j
      BY <3>1 DEF Workspace!Newest
    <3>3. \A i \in T : (\A j \in T : i <= j) <=> i = 1
      BY <2>3, <3>1
    <3> QED BY <2>3, <3>1, <3>2, <3>3
  <2> QED BY <1>2, <1>3, <2>2, <2>3, <2>4
<1>4. CASE Workspace!OfFile(res.file) # {}
  <2>1. numbered' = [numbered EXCEPT ![Workspace!Newest(res.file)].result = res]
    BY <1>4 DEF Workspace!SaveOver
  <2>2. /\ VersionsInTurn' /\ Len(numbered') = Len(numbered)
        /\ Workspace!OfFile(res.file)' = Workspace!OfFile(res.file)
        /\ numbered'[Workspace!Newest(res.file)].result = res
    BY <1>4, <2>1, VersionIsRefreshed
  <2>3. Workspace!Newest(res.file)' = Workspace!Newest(res.file)
    BY <2>2 DEF Workspace!Newest
  <2> QED BY <1>2, <1>4, <2>2, <2>3
<1> QED BY <1>3, <1>4

\* One run is at another point.
LEMMA RunIsUpdated ==
  ASSUME RunTypes, NEW r \in DOMAIN started, NEW run \in RunRecords,
         run.pc = "answered" => run.got \in Workspace!Results,
         started' = [started EXCEPT ![r] = run]
  PROVE  /\ started' \in Seq(RunRecords) /\ Len(started') = Len(started)
         /\ DOMAIN started' = DOMAIN started /\ started'[r] = run
         /\ \A i \in DOMAIN started : i # r => started'[i] = started[i]
         /\ \A i \in DOMAIN started' : started'[i].pc = "answered" => started'[i].got \in Workspace!Results
<1> HIDE DEF RunRecords
<1>1. PICK n \in Nat : n = Len(started) /\ DOMAIN started = 1 .. n /\ started \in [1 .. n -> RunRecords]
  BY DEF RunTypes
<1>3. started' \in Seq(RunRecords) /\ Len(started') = n /\ DOMAIN started' = 1 .. n
  <2>1. started \in Seq(RunRecords) /\ r \in 1 .. Len(started)
    BY <1>1 DEF RunTypes
  <2>2. started' \in Seq(RunRecords) /\ Len(started') = Len(started)
    BY <2>1, ExceptSeq
  <2> QED BY <1>1, <2>2
<1>4. started'[r] = run /\ \A i \in DOMAIN started : i # r => started'[i] = started[i]
  BY <1>1
<1>5. \A i \in DOMAIN started : started[i].pc = "answered" => started[i].got \in Workspace!Results
  BY DEF RunTypes
<1> QED BY <1>1, <1>3, <1>4, <1>5

\* A run that starts takes the key; one that ends gives it back if it holds it.
LEMMA RunsStayInTurn ==
  ASSUME WorkspaceNames, RunsInTurn, openFile \in Opened,
         \/ Workspace!Start \/ Workspace!RunEnds \/ Workspace!Cancel
         \/ Workspace!AnswerLookUp \/ Workspace!LookUpArrives
         \/ \E f \in Opened : Workspace!OthersRun(f)
         \/ \E force \in BOOLEAN : Workspace!LookUp(force)
         \/ UNCHANGED <<runKey, running, started, lookUp, done>>
  PROVE  RunsInTurn'
<1>1. RunTypes /\ LastMayCommit /\ Workspace!BusyIsClaimed
  BY DEF RunsInTurn
<1>2. PICK n \in Nat : n = Len(started) /\ DOMAIN started = 1 .. n /\ n <= MaxStarts
  BY <1>1 DEF RunTypes
<1>3. CASE Workspace!Start
  <2>1. PICK run \in RunRecords : run = [file |-> openFile, pc |-> "sent", got |-> None]
    BY DEF RunRecords
  <2>2. started \in Seq(RunRecords) /\ run.pc = "sent" /\ started' = Append(started, run) /\ n < MaxStarts
    BY <1>1, <1>2, <1>3, <2>1 DEF RunTypes, Workspace!Start
  <2> HIDE DEF RunRecords
  <2>3. /\ started' \in Seq(RunRecords) /\ Len(started') = n + 1 /\ DOMAIN started' = 1 .. (n + 1)
        /\ started'[n + 1] = run /\ \A i \in 1 .. n : started'[i] = started[i]
    BY <1>2, <2>2, AppendProperties
  <2>4. /\ runKey' = n + 1 /\ running' = TRUE /\ lookUp' = lookUp /\ done' = done /\ n + 1 \in 1 .. MaxStarts
    BY <1>2, <1>3, <2>2, <2>3 DEF Workspace!Start, WorkspaceNames
  <2>5. \A r \in 1 .. (n + 1) : r = n + 1 \/ r \in 1 .. n
    OBVIOUS
  <2>6. \A r \in DOMAIN started' : started'[r].pc = "answered" => started'[r].got \in Workspace!Results
    BY <1>1, <1>2, <2>2, <2>3, <2>5 DEF RunTypes
  <2>7. RunTypes'
    BY <1>1, <2>3, <2>4, <2>6 DEF RunTypes
  <2>8. LastMayCommit' /\ Workspace!BusyIsClaimed'
    BY <2>2, <2>3, <2>4 DEF LastMayCommit, Workspace!BusyIsClaimed, WorkspaceNames
  <2> QED BY <2>7, <2>8 DEF RunsInTurn
<1>4. ASSUME NEW r \in 1 .. MaxStarts, Workspace!Complete(r) PROVE RunsInTurn'
  <2>1. r \in DOMAIN started /\ started[r] \in RunRecords /\ started[r].pc = "sent" /\ Len(done) < MaxCompleted
    BY <1>1, <1>4 DEF RunTypes, Workspace!Complete
  <2>2. PICK file \in Opened : file = started[r].file
    BY <2>1 DEF RunRecords
  <2>3. done' = Append(done, file) /\ done \in Seq(Opened)
    BY <1>1, <1>4, <2>2 DEF RunTypes, Workspace!Complete
  <2>4. done' \in Seq(Opened) /\ Len(done') = Len(done) + 1 /\ Len(done') \in 1 .. MaxCompleted
    BY <2>1, <2>3, AppendProperties DEF WorkspaceNames
  <2>5. PICK was \in RunRecords : was = started[r]
    BY <2>1
  <2>6. PICK res \in Workspace!Results : res = [file |-> file, run |-> Len(done')]
    BY <2>4 DEF Workspace!Results
  <2>7. PICK mid \in RunRecords : mid = [was EXCEPT !.pc = "answered"]
    BY DEF RunRecords
  <2>8. PICK run \in RunRecords : run = [mid EXCEPT !.got = res]
    BY DEF RunRecords
  <2>9. run.pc = "answered" /\ run.got = res
    BY <2>7, <2>8 DEF RunRecords
  <2>10. started' = [started EXCEPT ![r] = run]
    <3>1. started' = [started EXCEPT ![r].pc = "answered", ![r].got = [file |-> started[r].file, run |-> Len(done')]]
      BY <1>4 DEF Workspace!Complete
    <3>2. started' = [started EXCEPT ![r].pc = "answered", ![r].got = res]
      BY <2>2, <2>6, <3>1
    <3> QED BY <2>1, <2>5, <2>7, <2>8, <3>2
  <2>11. /\ started' \in Seq(RunRecords) /\ Len(started') = Len(started)
         /\ DOMAIN started' = DOMAIN started /\ started'[r] = run
         /\ \A i \in DOMAIN started : i # r => started'[i] = started[i]
         /\ \A i \in DOMAIN started' : started'[i].pc = "answered" => started'[i].got \in Workspace!Results
    BY <1>1, <2>1, <2>9, <2>10, RunIsUpdated
  <2>12. UNCHANGED <<runKey, running, lookUp>>
    BY <1>4 DEF Workspace!Complete
  <2>13. RunTypes'
    BY <1>1, <2>4, <2>11, <2>12 DEF RunTypes
  <2>14. LastMayCommit' /\ Workspace!BusyIsClaimed'
    BY <1>1, <2>9, <2>11, <2>12 DEF LastMayCommit, Workspace!BusyIsClaimed
  <2> QED BY <2>13, <2>14 DEF RunsInTurn
<1>5. ASSUME NEW r \in 1 .. MaxStarts, Workspace!Arrive(r) \/ Workspace!Fail(r) PROVE RunsInTurn'
  <2>1. /\ r \in DOMAIN started /\ started[r] \in RunRecords /\ started' = [started EXCEPT ![r].pc = "over"]
        /\ done' = done /\ lookUp' = lookUp
    BY <1>1, <1>5 DEF RunTypes, Workspace!Arrive, Workspace!Fail
  <2>2. PICK was \in RunRecords : was = started[r]
    BY <2>1
  <2>3. PICK run \in RunRecords : run = [was EXCEPT !.pc = "over"]
    BY DEF RunRecords
  <2>4. run.pc = "over" /\ started' = [started EXCEPT ![r] = run]
    BY <2>1, <2>2, <2>3 DEF RunRecords
  <2>5. /\ started' \in Seq(RunRecords) /\ Len(started') = Len(started)
        /\ DOMAIN started' = DOMAIN started /\ started'[r] = run
        /\ \A i \in DOMAIN started : i # r => started'[i] = started[i]
        /\ \A i \in DOMAIN started' : started'[i].pc = "answered" => started'[i].got \in Workspace!Results
    BY <1>1, <2>1, <2>4, RunIsUpdated
  <2>6. IF runKey = r THEN running' = FALSE /\ runKey' = None ELSE UNCHANGED <<running, runKey>>
    BY <1>5 DEF Workspace!Arrive, Workspace!Fail, Workspace!StillActive
  <2>7. RunTypes'
    BY <1>1, <2>1, <2>5, <2>6 DEF RunTypes
  <2>8. LastMayCommit' /\ Workspace!BusyIsClaimed'
    BY <1>1, <2>5, <2>6 DEF LastMayCommit, Workspace!BusyIsClaimed
  <2> QED BY <2>7, <2>8 DEF RunsInTurn
<1>6. CASE Workspace!Cancel
  BY <1>1, <1>6 DEF RunsInTurn, RunTypes, LastMayCommit, Workspace!BusyIsClaimed, Workspace!Cancel
<1>7. ASSUME NEW f \in Opened, Workspace!OthersRun(f) PROVE RunsInTurn'
  <2>1. done' = Append(done, f) /\ done \in Seq(Opened) /\ Len(done) < MaxCompleted
        /\ UNCHANGED <<runKey, running, started, lookUp>>
    BY <1>1, <1>7 DEF RunTypes, Workspace!OthersRun
  <2>2. done' \in Seq(Opened) /\ Len(done') <= MaxCompleted
    BY <2>1, AppendProperties DEF WorkspaceNames
  <2> QED BY <1>1, <2>1, <2>2 DEF RunsInTurn, RunTypes, LastMayCommit, Workspace!BusyIsClaimed
<1>8. ASSUME NEW force \in BOOLEAN, Workspace!LookUp(force) PROVE RunsInTurn'
  <2>1. lookUp' = [pc |-> "sent", file |-> openFile, got |-> None] /\ UNCHANGED <<runKey, running, started, done>>
    BY <1>8 DEF Workspace!LookUp
  <2>2. lookUp' \in LookUpRecords
    BY <2>1 DEF LookUpRecords
  <2> QED BY <1>1, <2>1, <2>2 DEF RunsInTurn, RunTypes, LastMayCommit, Workspace!BusyIsClaimed
<1>9. CASE Workspace!AnswerLookUp
  <2>1. UNCHANGED <<runKey, running, started, done>>
    BY <1>9 DEF Workspace!AnswerLookUp
  <2>2. lookUp \in [pc : {"sent"}, file : Opened, got : {None}]
    BY <1>1, <1>9 DEF RunTypes, LookUpRecords, Workspace!AnswerLookUp, Workspace!NoLookUp
  <2>3. ASSUME Workspace!RunsOf(lookUp.file) = {} PROVE lookUp' \in LookUpRecords
    BY <1>9, <2>3 DEF Workspace!AnswerLookUp, LookUpRecords
  <2>4. ASSUME Workspace!RunsOf(lookUp.file) # {} PROVE lookUp' \in LookUpRecords
    <3>1. PICK f \in Opened : f = lookUp.file
      BY <2>2
    <3>2. PICK n1 \in Nat : n1 = Len(done) /\ DOMAIN done = 1 .. n1 /\ n1 <= MaxCompleted
      BY <1>1 DEF RunTypes
    <3>3. Workspace!RunsOf(f) \subseteq 1 .. n1 /\ Workspace!RunsOf(f) # {}
      BY <2>4, <3>1, <3>2 DEF Workspace!RunsOf
    <3>4. Workspace!Last(f) \in Workspace!RunsOf(f)
      BY <3>3, HighestVersion DEF Workspace!Last
    <3>5. Workspace!Last(f) \in 1 .. MaxCompleted
      BY <3>2, <3>3, <3>4 DEF WorkspaceNames
    <3>6. PICK res \in Workspace!Results : res = [file |-> f, run |-> Workspace!Last(f)]
      BY <3>5 DEF Workspace!Results
    <3>7. lookUp' = [lookUp EXCEPT !.pc = "answered", !.got = res]
      BY <1>9, <2>4, <3>1, <3>6 DEF Workspace!AnswerLookUp
    <3>8. lookUp' \in [pc : {"answered"}, file : Opened, got : Workspace!Results]
      BY <2>2, <3>7
    <3> QED BY <3>8 DEF LookUpRecords
  <2>5. lookUp' \in LookUpRecords
    BY <2>3, <2>4
  <2> QED BY <1>1, <2>1, <2>5 DEF RunsInTurn, RunTypes, LastMayCommit, Workspace!BusyIsClaimed
<1>10. CASE Workspace!LookUpArrives
  <2>1. lookUp' \in LookUpRecords /\ UNCHANGED <<runKey, running, started, done>>
    BY <1>10 DEF Workspace!LookUpArrives, LookUpRecords
  <2> QED BY <1>1, <2>1 DEF RunsInTurn, RunTypes, LastMayCommit, Workspace!BusyIsClaimed
<1>11. CASE UNCHANGED <<runKey, running, started, lookUp, done>>
  BY <1>1, <1>11 DEF RunsInTurn, RunTypes, LastMayCommit, Workspace!BusyIsClaimed
<1> QED BY <1>3, <1>4, <1>5, <1>6, <1>7, <1>8, <1>9, <1>10, <1>11 DEF Workspace!RunEnds

LEMMA WorkspaceStarts == WorkspaceNames /\ Workspace!Init => WorkspaceInv
<1> SUFFICES ASSUME WorkspaceNames, Workspace!Init PROVE WorkspaceInv
  OBVIOUS
<1>1. numbered = <<>> /\ started = <<>> /\ done = <<>> /\ lookUp = Workspace!NoLookUp
      /\ runKey = None /\ running = FALSE /\ said = None /\ modal = "closed"
      /\ result = None /\ latest = None /\ openFile \in Opened
  BY DEF Workspace!Init
<1>2. RunTypes
  <2>1. lookUp \in LookUpRecords
    BY <1>1 DEF LookUpRecords
  <2>2. <<>> \in Seq(RunRecords) /\ <<>> \in Seq(Opened)
    OBVIOUS
  <2>3. started \in Seq(RunRecords) /\ done \in Seq(Opened)
    BY <1>1, <2>2
  <2>4. Len(started) = 0 /\ Len(done) = 0 /\ DOMAIN started = {} /\ 0 <= MaxStarts /\ 0 <= MaxCompleted
    BY <1>1 DEF WorkspaceNames
  <2>5. runKey \in {None} /\ running \in BOOLEAN
    BY <1>1
  <2> QED BY <2>1, <2>3, <2>4, <2>5, Zenon DEF RunTypes
<1>3. LastMayCommit /\ Workspace!BusyIsClaimed
  BY <1>1 DEF LastMayCommit, Workspace!BusyIsClaimed
<1>4. ResultTypes
  BY <1>1 DEF ResultTypes
<1>5. VersionsInTurn
  BY <1>1 DEF VersionsInTurn, VersionTypes, Workspace!VersionsCountUp, Workspace!OfFile, WorkspaceNames
<1>6. Workspace!SaveIsAsSaid
  BY <1>1 DEF Workspace!SaveIsAsSaid
<1> QED BY <1>2, <1>3, <1>4, <1>5, <1>6 DEF WorkspaceInv, RunsInTurn

LEMMA HeadIsResult ==
  ASSUME VersionsInTurn
  PROVE  Workspace!HeadResult \in Workspace!Results \cup {None}
<1>1. PICK n \in Nat : n = Len(numbered) /\ DOMAIN numbered = 1 .. n
  BY DEF VersionsInTurn, VersionTypes
<1>2. CASE Workspace!OfFile(openFile) = {}
  BY <1>2 DEF Workspace!HeadResult
<1>3. CASE Workspace!OfFile(openFile) # {}
  <2>1. Workspace!OfFile(openFile) \subseteq 1 .. n
    BY <1>1 DEF Workspace!OfFile
  <2>2. Workspace!Newest(openFile) \in 1 .. n
    BY <1>3, <2>1, LeastVersion DEF Workspace!Newest
  <2>3. numbered[Workspace!Newest(openFile)] \in NumberedRecords
    BY <1>1, <2>2 DEF VersionsInTurn, VersionTypes
  <2> QED BY <1>3, <2>3 DEF Workspace!HeadResult, NumberedRecords
<1> QED BY <1>2, <1>3

\* What the Save button refreshes is what it says, when the result shown is of
\* the open function: it saves what it has compared, and never the head again.
LEMMA QuickSaveIsAsSaid ==
  ASSUME WorkspaceNames, ResultTypes, VersionsInTurn, NEW same \in BOOLEAN, Workspace!QuickSave(same)
  PROVE  /\ ResultTypes' /\ VersionsInTurn' /\ Workspace!SaveIsAsSaid'
         /\ Len(numbered') = Len(numbered) + 1 /\ numbered'[1].file = openFile => Workspace!HeadResult = None
<1>1. PICK res \in Workspace!Results : res = Workspace!ToSave
  BY DEF Workspace!QuickSave, Workspace!SaveOver, Workspace!ToSave, ResultTypes
<1>2. Workspace!SaveOver
  BY DEF Workspace!QuickSave
<1>3. /\ VersionsInTurn' /\ latest' = res /\ Workspace!OfFile(res.file)' # {}
      /\ numbered'[Workspace!Newest(res.file)'].result = res
      /\ Workspace!OfFile(res.file) # {} => Len(numbered') = Len(numbered)
  BY <1>1, <1>2, SavedOver
<1>4. PICK seen \in Workspace!Results : seen = Workspace!LatestResult
  BY HeadIsResult DEF Workspace!QuickSave, Workspace!LatestResult, Workspace!LatestAuditResult, ResultTypes
<1>5. /\ said' = [file |-> openFile, result |-> seen]
      /\ UNCHANGED <<openFile, result, modal>> /\ openFile \in Opened
  BY <1>4 DEF Workspace!QuickSave, ResultTypes
<1>6. ResultTypes'
  BY <1>3, <1>5 DEF ResultTypes
<1>7. ASSUME result # None => result.file = openFile
      PROVE  seen = res /\ res.file = openFile
  <2>1. CASE result # None
    <3>1. seen = result /\ res = result
      BY <1>1, <1>4, <2>1 DEF Workspace!ToSave, Workspace!LatestResult
    <3> QED BY <1>7, <2>1, <3>1
  <2>2. CASE result = None
    <3>1. res = latest
      BY <1>1, <2>2 DEF Workspace!ToSave
    <3>2. seen # Workspace!HeadResult
      BY <1>4 DEF Workspace!QuickSave, Workspace!MaySee, WorkspaceNames
    <3>3. seen = latest /\ latest.file = openFile
      BY <1>4, <2>2, <3>2 DEF Workspace!LatestResult, Workspace!LatestAuditResult
    <3> QED BY <3>1, <3>3
  <2> QED BY <2>1, <2>2
<1>8. Workspace!SaveIsAsSaid'
  <2>1. SUFFICES ASSUME result' # None => result'.file = said'.file
                 PROVE  /\ Workspace!OfFile(said.file)' # {}
                        /\ numbered'[Workspace!Newest(said.file)'].result = said'.result
    BY DEF Workspace!SaveIsAsSaid
  <2>2. said'.file = openFile /\ said'.result = seen
    BY <1>5
  <2>3. seen = res /\ res.file = openFile
    BY <1>5, <1>7, <2>1, <2>2
  <2>4. Workspace!OfFile(said.file)' = Workspace!OfFile(res.file)'
    BY <2>2, <2>3 DEF Workspace!OfFile
  <2>5. Workspace!Newest(said.file)' = Workspace!Newest(res.file)'
    BY <2>4 DEF Workspace!Newest
  <2> QED BY <1>3, <2>2, <2>3, <2>4, <2>5
<1>9. ASSUME Len(numbered') = Len(numbered) + 1, numbered'[1].file = openFile PROVE Workspace!HeadResult = None
  <2>1. Len(numbered) \in Nat
    BY DEF VersionsInTurn, VersionTypes
  <2>2. Workspace!OfFile(res.file) = {}
    BY <1>3, <1>9, <2>1
  <2>3. numbered' = Workspace!WithVersion(res) /\ Len(numbered) < MaxVersions
    BY <1>1, <1>2, <2>2 DEF Workspace!SaveOver
  <2>4. numbered'[1].file = res.file
    BY <2>3, VersionIsAdded
  <2> QED BY <1>9, <2>2, <2>4 DEF Workspace!HeadResult
<1> QED BY <1>3, <1>6, <1>8, <1>9

\* The dialog adds a version of what it would compare, if that is of the open
\* function.
LEMMA SubmitIsConfirmed ==
  ASSUME WorkspaceNames, ResultTypes, VersionsInTurn, NEW same \in BOOLEAN, Workspace!Submit(same)
  PROVE  /\ VersionsInTurn' /\ latest' \in Workspace!Results \cup {None} /\ modal' \in {"closed", "confirmed"}
         /\ Len(numbered') = Len(numbered) + 1 /\ numbered'[1].file = openFile
              /\ Workspace!HeadResult # None /\ numbered'[1].result = Workspace!HeadResult
            => modal = "confirmed"
<1>1. CASE same /\ modal = "open"
  <2>1. UNCHANGED <<numbered, latest>> /\ modal' = "confirmed"
    BY <1>1 DEF Workspace!Submit
  <2>2. VersionsInTurn'
    BY <2>1 DEF VersionsInTurn, VersionTypes, Workspace!VersionsCountUp, Workspace!OfFile
  <2>3. Len(numbered) \in Nat
    BY DEF VersionsInTurn, VersionTypes
  <2>4. Len(numbered') # Len(numbered) + 1
    BY <2>1, <2>3
  <2> QED BY <2>1, <2>2, <2>4 DEF ResultTypes
<1>2. CASE ~(same /\ modal = "open")
  <2>1. Workspace!SaveNew /\ modal' = "closed" /\ modal # "closed"
    BY <1>2 DEF Workspace!Submit
  <2>2. PICK res \in Workspace!Results : res = Workspace!ToSave
    BY <2>1 DEF Workspace!SaveNew, Workspace!ToSave, ResultTypes
  <2>3. numbered' = Workspace!WithVersion(res) /\ Len(numbered) < MaxVersions /\ latest' = res
    BY <2>1, <2>2 DEF Workspace!SaveNew
  <2>4. VersionsInTurn' /\ numbered'[1].file = res.file /\ numbered'[1].result = res
    BY <2>3, VersionIsAdded
  <2>5. ASSUME numbered'[1].file = openFile, Workspace!HeadResult # None,
               numbered'[1].result = Workspace!HeadResult
        PROVE  modal = "confirmed"
    <3>1. Workspace!ModalResult = res
      BY <2>2, <2>4, <2>5 DEF Workspace!ModalResult, Workspace!ToSave
    <3>2. same
      BY <2>4, <2>5, <3>1 DEF Workspace!Submit, Workspace!MaySee
    <3> QED BY <1>2, <2>1, <3>2 DEF ResultTypes
  <2> QED BY <2>1, <2>3, <2>4, <2>5
<1> QED BY <1>1, <1>2

\* A version of the open function is only made twice when the user confirms it.
Confirmed ==
  Len(numbered') = Len(numbered) + 1 /\ numbered'[1].file = openFile
    /\ Workspace!HeadResult # None /\ numbered'[1].result = Workspace!HeadResult
  => modal = "confirmed"

\* Only the run started last changes the results.
LastCommits ==
  \A r \in DOMAIN started :
    started[r].pc = "answered" /\ started'[r].pc = "over" /\ <<result, latest>>' # <<result, latest>>
      => r = Len(started) /\ running

LEMMA VersionsRest ==
  ASSUME VersionsInTurn, UNCHANGED numbered
  PROVE  VersionsInTurn' /\ Confirmed
<1>1. VersionsInTurn'
  BY DEF VersionsInTurn, VersionTypes, Workspace!VersionsCountUp, Workspace!OfFile
<1>2. Len(numbered) \in Nat
  BY DEF VersionsInTurn, VersionTypes
<1>3. Len(numbered') # Len(numbered) + 1
  BY <1>2
<1> QED BY <1>1, <1>3 DEF Confirmed

LEMMA ArrivalIsInTurn ==
  ASSUME WorkspaceNames, WorkspaceInv, NEW r \in 1 .. MaxStarts, Workspace!Arrive(r)
  PROVE  /\ VersionsInTurn' /\ Confirmed /\ LastCommits
         /\ result' \in Workspace!Results \cup {None} /\ latest' \in Workspace!Results \cup {None}
<1>1. /\ r \in DOMAIN started /\ started[r].pc = "answered" /\ started[r].got \in Workspace!Results
      /\ started' = [started EXCEPT ![r].pc = "over"] /\ VersionsInTurn
  BY DEF Workspace!Arrive, WorkspaceInv, RunsInTurn, RunTypes
<1>2. CASE runKey # r
  <2>1. UNCHANGED <<result, latest, numbered>>
    BY <1>2 DEF Workspace!Arrive, Workspace!StillActive
  <2> QED BY <1>1, <2>1, VersionsRest DEF LastCommits, WorkspaceInv, ResultTypes
<1>3. CASE runKey = r
  <2>1. PICK res \in Workspace!Results : res = started[r].got
    BY <1>1
  <2>2. /\ result' = res /\ latest' = res
        /\ numbered' = IF numbered = <<>> THEN Workspace!WithVersion(res) ELSE numbered
    BY <1>3, <2>1 DEF Workspace!Arrive, Workspace!StillActive
  <2>3. r = Len(started) /\ running
    BY <1>3 DEF WorkspaceInv, RunsInTurn, LastMayCommit, Workspace!BusyIsClaimed, WorkspaceNames
  <2>4. LastCommits
    <3>1. ASSUME NEW k \in DOMAIN started, started[k].pc = "answered", started'[k].pc = "over" PROVE k = r
      BY <1>1, <3>1
    <3> QED BY <2>3, <3>1 DEF LastCommits
  <2>5. CASE numbered = <<>>
    <3>1. numbered' = Workspace!WithVersion(res) /\ Len(numbered) < MaxVersions
      BY <2>2, <2>5 DEF WorkspaceNames
    <3>2. VersionsInTurn'
      BY <1>1, <3>1, VersionIsAdded
    <3>3. Workspace!HeadResult = None
      BY <2>5 DEF Workspace!HeadResult, Workspace!OfFile
    <3> QED BY <2>2, <2>4, <3>2, <3>3 DEF Confirmed
  <2>6. CASE numbered # <<>>
    <3>1. UNCHANGED numbered
      BY <2>2, <2>6
    <3> QED BY <1>1, <2>2, <2>4, <3>1, VersionsRest
  <2> QED BY <2>5, <2>6
<1> QED BY <1>2, <1>3

LEMMA OtherAuditSteps ==
  ASSUME WorkspaceNames, WorkspaceInv, Workspace!AuditStep,
         \A r \in 1 .. MaxStarts : ~Workspace!Arrive(r)
  PROVE  /\ VersionsInTurn' /\ Confirmed /\ LastCommits /\ openFile' = openFile
         /\ result' \in Workspace!Results \cup {None} /\ latest' \in Workspace!Results \cup {None}
<1>1. VersionsInTurn /\ RunTypes /\ ResultTypes
  BY DEF WorkspaceInv, RunsInTurn
<1>2. /\ UNCHANGED <<numbered, openFile>>
      /\ UNCHANGED <<result, latest>> \/ UNCHANGED started
  BY DEF Workspace!AuditStep, Workspace!RunEnds, Workspace!Start, Workspace!Complete, Workspace!Fail,
         Workspace!Cancel, Workspace!OthersRun, Workspace!LookUp, Workspace!AnswerLookUp,
         Workspace!LookUpArrives, Workspace!LoadVersion
<1>3. LastCommits
  BY <1>2 DEF LastCommits
<1>4. result' \in Workspace!Results \cup {None} /\ latest' \in Workspace!Results \cup {None}
  <2>1. CASE Workspace!LookUpArrives
    <3>1. lookUp.got \in Workspace!Results
      BY <1>1, <2>1 DEF RunTypes, LookUpRecords, Workspace!LookUpArrives, Workspace!NoLookUp
    <3> QED BY <2>1, <3>1 DEF Workspace!LookUpArrives
  <2>2. ASSUME NEW i \in 1 .. MaxVersions, Workspace!LoadVersion(i)
        PROVE  result' \in Workspace!Results /\ latest' = latest
    <3>1. i \in DOMAIN numbered /\ result' = numbered[i].result /\ latest' = latest
      BY <2>2 DEF Workspace!LoadVersion
    <3>2. numbered[i] \in NumberedRecords
      BY <1>1, <3>1 DEF VersionsInTurn, VersionTypes
    <3> QED BY <3>1, <3>2 DEF NumberedRecords
  <2>3. ASSUME ~Workspace!LookUpArrives, \A i \in 1 .. MaxVersions : ~Workspace!LoadVersion(i)
        PROVE  UNCHANGED <<result, latest>>
    BY <2>3 DEF Workspace!AuditStep, Workspace!RunEnds, Workspace!Start, Workspace!Complete,
         Workspace!Fail, Workspace!Cancel, Workspace!OthersRun, Workspace!LookUp, Workspace!AnswerLookUp
  <2> QED BY <1>1, <2>1, <2>2, <2>3 DEF ResultTypes
<1> QED BY <1>1, <1>2, <1>3, <1>4, VersionsRest

\* Every step keeps runs and versions in turn, drops what has been overtaken,
\* and asks before it repeats a version.
LEMMA WorkspaceSteps ==
  ASSUME WorkspaceNames, WorkspaceInv, Workspace!Next
  PROVE  WorkspaceInv' /\ LastCommits /\ Confirmed
<1>1. /\ RunsInTurn /\ ResultTypes /\ VersionsInTurn /\ openFile \in Opened
      /\ modal \in {"closed", "open", "confirmed"}
  BY DEF WorkspaceInv, ResultTypes
<1>2. ASSUME said' = None PROVE Workspace!SaveIsAsSaid'
  BY <1>2 DEF Workspace!SaveIsAsSaid
<1>3. ASSUME UNCHANGED started PROVE LastCommits
  <2>1. \A r \in DOMAIN started : started'[r].pc = started[r].pc
    BY <1>3
  <2> QED BY <2>1 DEF LastCommits
<1>4. CASE Workspace!AuditStep /\ UNCHANGED modal /\ said' = None
  <2>1. RunsInTurn'
    <3>1. \/ Workspace!Start \/ Workspace!RunEnds \/ Workspace!Cancel
          \/ Workspace!AnswerLookUp \/ Workspace!LookUpArrives
          \/ \E f \in Opened : Workspace!OthersRun(f)
          \/ \E force \in BOOLEAN : Workspace!LookUp(force)
          \/ UNCHANGED <<runKey, running, started, lookUp, done>>
      BY <1>4 DEF Workspace!AuditStep, Workspace!LoadVersion
    <3> QED BY <1>1, <3>1, RunsStayInTurn
  <2>2. /\ VersionsInTurn' /\ Confirmed /\ LastCommits /\ openFile' = openFile
        /\ result' \in Workspace!Results \cup {None} /\ latest' \in Workspace!Results \cup {None}
    <3>1. ASSUME NEW r \in 1 .. MaxStarts, Workspace!Arrive(r) PROVE openFile' = openFile
      BY <3>1 DEF Workspace!Arrive
    <3> QED BY <1>4, <3>1, ArrivalIsInTurn, OtherAuditSteps
  <2>3. ResultTypes'
    BY <1>1, <1>4, <2>2 DEF ResultTypes
  <2> QED BY <1>2, <1>4, <2>1, <2>2, <2>3 DEF WorkspaceInv
<1>5. ASSUME NEW f \in Opened, Workspace!Navigate(f), said' = None
      PROVE  WorkspaceInv' /\ LastCommits /\ Confirmed
  <2>1. /\ openFile' = f /\ result' = None /\ modal' \in {"closed", "open", "confirmed"}
        /\ UNCHANGED <<latest, runKey, running, started, lookUp, done, numbered>>
    BY <1>1, <1>5 DEF Workspace!Navigate
  <2>2. ResultTypes'
    BY <1>1, <1>5, <2>1 DEF ResultTypes
  <2>3. RunsInTurn'
    BY <1>1, <2>1, RunsStayInTurn
  <2> QED BY <1>1, <1>2, <1>3, <1>5, <2>1, <2>2, <2>3, VersionsRest DEF WorkspaceInv
<1>6. ASSUME Workspace!OpenModal \/ Workspace!CloseModal, said' = None
      PROVE  WorkspaceInv' /\ LastCommits /\ Confirmed
  <2>1. /\ modal' \in {"closed", "open"}
        /\ UNCHANGED <<openFile, result, latest, runKey, running, started, lookUp, done, numbered>>
    BY <1>6 DEF Workspace!OpenModal, Workspace!CloseModal
  <2>2. ResultTypes'
    BY <1>1, <1>6, <2>1 DEF ResultTypes
  <2>3. RunsInTurn'
    BY <1>1, <2>1, RunsStayInTurn
  <2> QED BY <1>1, <1>2, <1>3, <1>6, <2>1, <2>2, <2>3, VersionsRest DEF WorkspaceInv
<1>7. ASSUME NEW same \in BOOLEAN, Workspace!Submit(same), said' = None
      PROVE  WorkspaceInv' /\ LastCommits /\ Confirmed
  <2>1. /\ UNCHANGED <<openFile, result, runKey, running, started, lookUp, done>>
    BY <1>7 DEF Workspace!Submit
  <2>2. /\ VersionsInTurn' /\ latest' \in Workspace!Results \cup {None} /\ modal' \in {"closed", "confirmed"}
        /\ Confirmed
    BY <1>1, <1>7, SubmitIsConfirmed DEF Confirmed
  <2>3. ResultTypes'
    BY <1>1, <1>7, <2>1, <2>2 DEF ResultTypes
  <2>4. RunsInTurn'
    BY <1>1, <2>1, RunsStayInTurn
  <2> QED BY <1>2, <1>3, <1>7, <2>1, <2>2, <2>3, <2>4 DEF WorkspaceInv
<1>8. ASSUME NEW same \in BOOLEAN, Workspace!QuickSave(same)
      PROVE  WorkspaceInv' /\ LastCommits /\ Confirmed
  <2>1. UNCHANGED <<runKey, running, started, lookUp, done>>
    BY <1>8 DEF Workspace!QuickSave
  <2>2. ResultTypes' /\ VersionsInTurn' /\ Workspace!SaveIsAsSaid' /\ Confirmed
    BY <1>1, <1>8, QuickSaveIsAsSaid DEF Confirmed
  <2>3. RunsInTurn'
    BY <1>1, <2>1, RunsStayInTurn
  <2> QED BY <1>3, <2>1, <2>2, <2>3 DEF WorkspaceInv
<1> QED BY <1>4, <1>5, <1>6, <1>7, <1>8 DEF Workspace!Next

LEMMA WorkspaceStep ==
  ASSUME WorkspaceNames
  PROVE  WorkspaceInv /\ [Workspace!Next]_(Workspace!vars) => WorkspaceInv'
<1> SUFFICES ASSUME WorkspaceInv, UNCHANGED Workspace!vars PROVE WorkspaceInv'
  BY WorkspaceSteps
<1>1. UNCHANGED <<openFile, result, latest, runKey, running, started, lookUp, done, numbered, modal, said>>
  BY DEF Workspace!vars
<1>2. RunsInTurn'
  BY <1>1, RunsStayInTurn DEF WorkspaceInv, ResultTypes
<1>3. VersionsInTurn' /\ ResultTypes'
  BY <1>1, VersionsRest DEF WorkspaceInv, ResultTypes
<1>4. Workspace!SaveIsAsSaid'
  BY <1>1 DEF WorkspaceInv, Workspace!SaveIsAsSaid, Workspace!OfFile, Workspace!Newest
<1> QED BY <1>2, <1>3, <1>4 DEF WorkspaceInv

LEMMA WorkspaceIsTyped == WorkspaceInv => Workspace!TypeOK /\ Workspace!RunsAndVersionsInTurn
<1> SUFFICES ASSUME WorkspaceInv PROVE Workspace!TypeOK /\ Workspace!RunsAndVersionsInTurn
  OBVIOUS
<1>1. Workspace!RunsAndVersionsInTurn
  BY DEF WorkspaceInv, RunsInTurn, VersionsInTurn, Workspace!RunsAndVersionsInTurn
<1>2. RunTypes /\ ResultTypes /\ VersionTypes
  BY DEF WorkspaceInv, RunsInTurn, VersionsInTurn
<1>3. \A i \in DOMAIN started :
        started[i] \in [file : Opened, pc : {"sent", "answered", "over"}, got : Workspace!Results \cup {None}]
  <2>1. \A i \in DOMAIN started : started[i] \in RunRecords
    BY <1>2 DEF RunTypes
  <2> QED BY <2>1, Zenon DEF RunRecords
<1>4. \A i \in DOMAIN numbered :
        numbered[i] \in [file : Opened, number : 1 .. MaxVersions, result : Workspace!Results]
  <2>1. \A i \in DOMAIN numbered : numbered[i] \in NumberedRecords
    BY <1>2 DEF VersionTypes
  <2> QED BY <2>1, Zenon DEF NumberedRecords
<1>5. lookUp = Workspace!NoLookUp \/ lookUp \in [pc : {"sent", "answered"}, file : Opened,
                                                 got : Workspace!Results \cup {None}]
  BY <1>2 DEF RunTypes, LookUpRecords
<1> QED BY <1>1, <1>2, <1>3, <1>4, <1>5 DEF Workspace!TypeOK, RunTypes, ResultTypes
=============================================================================
