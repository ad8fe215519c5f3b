------------------------------ MODULE PagesProofs ------------------------------
(***************************************************************************)
(* What the pages of a browser show, from the list of processes to the     *)
(* dialog that authors rules: the invariants of their parts, and that each *)
(* step keeps them.                                                        *)
(***************************************************************************)
EXTENDS MCServices, FiniteSetTheorems, FunctionTheorems, SequenceTheorems, TLAPS

-----------------------------------------------------------------------------
(* The findings tab                                                          *)

\* Until the user does something, what the link led to is looked for by nothing.
LinkIsOpen ==
  target # None /\ ~touched =>
    /\ target.project \in opened
    /\ search = Flagged /\ filters = Tab!NoFilter

TabInv == Tab!TypeOK /\ LinkIsOpen

LEMMA TabStarts == Tab!Init => TabInv
BY DEF Tab!Init, TabInv, Tab!TypeOK, LinkIsOpen, Tab!NoFilter, Tab!Field

LEMMA FilterIsTyped ==
  ASSUME NEW x \in Tab!Field, NEW v \in {f[x] : f \in Flagged} \cup {None}, Tab!TypeOK,
         filters' = [filters EXCEPT ![x] = v]
  PROVE  \A y \in Tab!Field : filters'[y] \in {f[y] : f \in Flagged} \cup {None}
BY DEF Tab!TypeOK

LEMMA TabStep == TabInv /\ [Tab!Next]_(Tab!vars) => TabInv'
<1> SUFFICES ASSUME TabInv, [Tab!Next]_(Tab!vars) PROVE TabInv'
  OBVIOUS
<1> USE DEF TabInv, LinkIsOpen
<1>1. CASE UNCHANGED Tab!vars
  BY <1>1 DEF Tab!vars, Tab!local, Tab!TypeOK
<1>2. CASE Tab!Consume
  BY <1>2 DEF Tab!Consume, Tab!Pending, Tab!ClearsFilters, Tab!NoFilter, Tab!Field, Tab!Projects,
             Tab!TypeOK
<1>3. CASE Tab!Leave
  BY <1>3 DEF Tab!Leave, Tab!local, Tab!TypeOK
<1>13. CASE Tab!Enter
  BY <1>13 DEF Tab!Enter, Tab!Fresh, Tab!NoFilter, Tab!Field, Tab!TypeOK
<1>4. CASE Tab!Settle \/ Tab!Clear
  BY <1>4 DEF Tab!Settle, Tab!Clear, Tab!Rest, Tab!NoFilter, Tab!Field, Tab!TypeOK
<1>5. ASSUME NEW r \in (SUBSET Flagged) \cup {None}, Tab!ResultArrives(r) PROVE TabInv'
  BY <1>5 DEF Tab!ResultArrives, Tab!local, Tab!TypeOK
<1>6. ASSUME NEW r \in SUBSET Flagged, Tab!RunCommits(r) PROVE TabInv'
  <2>1. CASE tabOpen
    BY <1>6, <2>1 DEF Tab!RunCommits, Tab!local, Tab!TypeOK
  <2>2. CASE ~tabOpen
    BY <1>6, <2>2 DEF Tab!RunCommits, Tab!Fresh, Tab!NoFilter, Tab!Field, Tab!TypeOK
  <2> QED BY <2>1, <2>2
<1>7. ASSUME NEW f \in Flagged, Tab!Follow(f.key) PROVE TabInv'
  BY <1>7 DEF Tab!Follow, Tab!Fresh, Tab!NoFilter, Tab!Field, Tab!TypeOK
<1>8. ASSUME NEW words \in {{f \in Flagged : f.ai}} \cup {Flagged}, Tab!Type(words) PROVE TabInv'
  BY <1>8 DEF Tab!Type, Tab!Rest, Tab!TypeOK
<1>9. ASSUME NEW x \in Tab!Field, NEW v \in {f[x] : f \in Flagged} \cup {None}, Tab!SetFilter(x, v)
      PROVE  TabInv'
  BY <1>9, FilterIsTyped DEF Tab!SetFilter, Tab!Rest, Tab!TypeOK
<1>10. ASSUME NEW s \in Tab!Sheets \cup {None}, Tab!SetSheet(s) PROVE TabInv'
  BY <1>10 DEF Tab!SetSheet, Tab!Rest, Tab!TypeOK
<1>11. ASSUME NEW p \in Tab!Projects, Tab!ToggleProject(p) PROVE TabInv'
  BY <1>11 DEF Tab!ToggleProject, Tab!Rest, Tab!TypeOK
<1>12. ASSUME NEW s \in SUBSET Tab!Sheets, Tab!SelectSheets(s) PROVE TabInv'
  BY <1>12 DEF Tab!SelectSheets, Tab!local, Tab!TypeOK
<1> QED
  BY <1>1, <1>2, <1>3, <1>4, <1>5, <1>6, <1>7, <1>8, <1>9, <1>10, <1>11, <1>12, <1>13
  DEF Tab!Next

\* The row the link led to is in an open group.
LEMMA LinkLeadsToRow == TabInv => Tab!LinkIsFollowed
<1> SUFFICES ASSUME TabInv, target # None, Tab!Quiet, findings # None,
                    target \in findings, Tab!OfSheet(target)
             PROVE  target \in Tab!Shown
  BY DEF Tab!LinkIsFollowed
<1>1. target \in Flagged /\ settled = Flagged /\ filters = Tab!NoFilter /\ target.project \in opened
  BY DEF TabInv, Tab!TypeOK, LinkIsOpen, Tab!Quiet
<1>2. target \in Tab!Rows
  BY <1>1 DEF Tab!Rows, Tab!NoFilter
<1> DEFINE group == [project |-> target.project,
                     findings |-> {f \in Tab!Rows : f.project = target.project}]
<1>3. group \in Tab!Groups
  BY <1>2 DEF Tab!Groups
<1>4. group \in {h \in Tab!Groups : h.project \in opened} /\ target \in group.findings
  BY <1>1, <1>2, <1>3
<1> QED
  BY <1>4 DEF Tab!Shown

\* The tab counts as everyone does.
LEMMA TabCounts == \A S : Tab!Cardinality(S) = Cardinality(S)
BY DEF Tab!Cardinality, Cardinality, Tab!IsFiniteSet, IsFiniteSet

\* What is listed is of the user's engine or of the AI's, and not of both.
LEMMA NumbersAddUp == TabInv => Tab!CountsAgree
<1> SUFFICES ASSUME TabInv, findings # None, filters = Tab!NoFilter, sheet = None,
                    settled = Flagged, selected # {}
             PROVE  Tab!Metrics.issues + Tab!Metrics.aiIssues = Cardinality(Tab!Rows)
  BY TabCounts DEF Tab!CountsAgree
<1> DEFINE plain == {f \in Tab!ScopedResult : ~f.ai}
           ai == {f \in Tab!ScopedResult : f.ai}
<1>1. findings \subseteq Flagged
  BY DEF TabInv, Tab!TypeOK
<1>2. Tab!Rows = Tab!ScopedResult
  BY <1>1 DEF Tab!Rows, Tab!OfSheet, Tab!ScopedResult, Tab!NoFilter
<1>3. IsFiniteSet(Flagged)
  <2>1. PICK a, b : Flagged = {a} \cup {b}
    BY DEF Flagged
  <2>2. IsFiniteSet({a}) /\ IsFiniteSet({b})
    BY FS_Singleton
  <2> QED BY <2>1, <2>2, FS_Union
<1>4. IsFiniteSet(plain) /\ IsFiniteSet(ai)
  BY <1>1, <1>3, FS_Subset DEF Tab!ScopedResult
<1>5. plain \cup ai = Tab!Rows /\ plain \cap ai = {}
  BY <1>2
<1>6. Cardinality(plain \cup ai) = Cardinality(plain) + Cardinality(ai) - Cardinality(plain \cap ai)
  BY <1>4, FS_Union
<1>7. Cardinality(plain \cap ai) = 0
  BY <1>5, FS_EmptySet
<1>8. Cardinality(plain) \in Nat /\ Cardinality(ai) \in Nat
  BY <1>4, FS_CardinalityType
<1>9. Tab!Metrics.issues = Cardinality(plain) /\ Tab!Metrics.aiIssues = Cardinality(ai)
  BY TabCounts DEF Tab!Metrics
<1>10. Cardinality(Tab!Rows) = Cardinality(plain) + Cardinality(ai) - 0
  BY <1>5, <1>6, <1>7
<1> HIDE DEF plain, ai
<1> QED
  BY <1>8, <1>9, <1>10

-----------------------------------------------------------------------------
(* The optimistic history                                                    *)

Done(c) == change[c].pc \in {"saved", "refused"}
Going(c) == change[c].pc \in {"entry", "event"}
Spoilt(c) == \E d \in overlap[c] : change[d].pc = "refused"
Displays(c) == \E i \in DOMAIN shown : shown[i] = c
Kept(c, d) == \E i \in DOMAIN change[d].prior : change[d].prior[i] = c

HistoryTypes ==
  /\ shown \in Seq(Changes) /\ held \subseteq Changes
  /\ change \in [Changes -> [pc : History!Steps, prior : Seq(Changes)]]
  /\ overlap \in [Changes -> SUBSET Changes]

\* A change nobody has made is nowhere.
UnmadeIsNowhere ==
  \A c \in Changes : change[c].pc = "idle" =>
    ~Displays(c) /\ \A d \in Changes : ~Kept(c, d) /\ c \notin overlap[d]

\* Two changes under way overlap, and none is in the entry before it.
GoingOverlap ==
  \A c, d \in Changes :
    /\ Going(c) /\ Going(d) /\ c # d => d \in overlap[c]
    /\ Going(c) => ~Kept(c, c)

\* A change that no refusal has spoilt is shown unless it was refused itself, and
\* so it would be after a refusal of any change it does not overlap with.
UnspoiltIsTrue ==
  \A c \in Changes : change[c].pc # "idle" /\ ~Spoilt(c) =>
    /\ Displays(c) <=> change[c].pc # "refused"
    /\ \A d \in Changes : Going(d) /\ d # c /\ d \notin overlap[c] =>
         (Kept(c, d) <=> change[c].pc # "refused")

HeldIsSaved == held = {c \in Changes : change[c].pc = "saved"}

\* How far a comment is: its number on the page, on the server and in between.
CommentTypes ==
  /\ listed \in [Comments -> {"absent", "temporary", "named"}]
  /\ comment \in [Comments -> [create : {"idle", "sent", "named", "failed"},
                               delete : {"none", "sent", "early", "unknown", "gone", "failed"}]]
  /\ posted \subseteq Comments

CommentInTurn ==
  \A n \in Comments :
    /\ n \in posted => comment[n].create = "named"
    /\ comment[n].create = "idle" => listed[n] = "absent" /\ comment[n].delete = "none"
    /\ comment[n].create = "sent" =>
         \/ listed[n] = "temporary" /\ comment[n].delete = "none"
         \/ listed[n] = "absent" /\ comment[n].delete = "early"
    /\ comment[n].create = "named" =>
         \/ listed[n] = "named" /\ comment[n].delete = "none"
         \/ listed[n] = "absent" /\ comment[n].delete \in {"sent", "early", "failed"}
         \/ listed[n] = "absent" /\ comment[n].delete = "gone" /\ n \notin posted
    /\ comment[n].create = "failed" => comment[n].delete # "sent" /\ listed[n] # "named"

HistoryInv ==
  /\ HistoryTypes /\ UnmadeIsNowhere /\ GoingOverlap /\ UnspoiltIsTrue /\ HeldIsSaved
  /\ CommentTypes /\ CommentInTurn

LEMMA HistoryStarts == History!Init => HistoryInv
<1> SUFFICES ASSUME History!Init PROVE HistoryInv
  OBVIOUS
<1> USE DEF History!Init
<1>1. HistoryTypes /\ CommentTypes
  BY DEF HistoryTypes, CommentTypes, History!Steps
<1>2. UnmadeIsNowhere /\ GoingOverlap /\ UnspoiltIsTrue
  BY DEF UnmadeIsNowhere, GoingOverlap, UnspoiltIsTrue, Displays, Kept, Going
<1>3. HeldIsSaved /\ CommentInTurn
  BY DEF HeldIsSaved, CommentInTurn
<1> QED BY <1>1, <1>2, <1>3 DEF HistoryInv

LEMMA MakeStep ==
  ASSUME HistoryInv, NEW c \in Changes, History!Make(c)
  PROVE  HistoryTypes' /\ UnmadeIsNowhere' /\ GoingOverlap' /\ UnspoiltIsTrue' /\ HeldIsSaved'
<1> USE DEF HistoryInv
<1>1. /\ change[c].pc = "idle" /\ held' = held
      /\ change' = [change EXCEPT ![c] = [pc |-> "entry", prior |-> shown]]
      /\ shown' = Append(shown, c)
      /\ \A d \in Changes : overlap'[d] =
           IF d = c THEN {e \in Changes : Going(e)}
           ELSE IF Going(d) THEN overlap[d] \cup {c} ELSE overlap[d]
      /\ overlap' \in [Changes -> SUBSET Changes]
  BY DEF History!Make, History!UnderWay, Going, HistoryTypes
<1>2. /\ change'[c].pc = "entry" /\ change'[c].prior = shown
      /\ \A d \in Changes \ {c} : change'[d] = change[d]
  BY <1>1 DEF HistoryTypes
<1>3. HistoryTypes'
  BY <1>1 DEF HistoryTypes, History!Steps
<1>4. /\ \A d \in Changes : Displays(d)' <=> Displays(d) \/ d = c
      /\ \A d, e \in Changes : Kept(d, e)' <=> IF e = c THEN Displays(d) ELSE Kept(d, e)
  <2>1. /\ shown \in Seq(Changes) /\ shown' = Append(shown, c)
    BY <1>1 DEF HistoryTypes
  <2>2. /\ DOMAIN shown = 1 .. Len(shown) /\ DOMAIN shown' = 1 .. Len(shown) + 1
        /\ Len(shown) \in Nat /\ shown'[Len(shown) + 1] = c
        /\ \A i \in 1 .. Len(shown) : shown'[i] = shown[i]
    BY <2>1
  <2>3. \A d \in Changes : Displays(d)' <=> Displays(d) \/ d = c
    BY <2>2 DEF Displays
  <2>4. \A d, e \in Changes : Kept(d, e)' <=> IF e = c THEN Displays(d) ELSE Kept(d, e)
    BY <1>2 DEF Displays, Kept
  <2> QED BY <2>3, <2>4
<1>5. /\ \A d \in Changes : Going(d)' <=> Going(d) \/ d = c
      /\ ~Going(c)
      /\ \A d \in Changes : (change'[d].pc = "refused") <=> (change[d].pc = "refused")
      /\ \A d \in Changes : overlap[d] \subseteq overlap'[d] \/ d = c
  BY <1>1, <1>2 DEF Going
<1>6. UnmadeIsNowhere'
  BY <1>1, <1>2, <1>4, <1>5 DEF UnmadeIsNowhere, Going
<1>7. GoingOverlap'
  BY <1>1, <1>4, <1>5 DEF GoingOverlap, UnmadeIsNowhere
<1>8. UnspoiltIsTrue'
  <2> SUFFICES ASSUME NEW d \in Changes, change'[d].pc # "idle", ~Spoilt(d)'
               PROVE  /\ Displays(d)' <=> change'[d].pc # "refused"
                      /\ \A e \in Changes : Going(e)' /\ e # d /\ e \notin overlap'[d] =>
                           (Kept(d, e)' <=> change'[d].pc # "refused")
    BY DEF UnspoiltIsTrue
  <2>1. CASE d = c
    BY <1>1, <1>2, <1>4, <1>5, <2>1
  <2>2. CASE d # c
    <3>1. overlap[d] \subseteq Changes
      BY DEF HistoryTypes
    <3>2. ~Spoilt(d)
      BY <1>5, <2>2, <3>1 DEF Spoilt
    <3>3. /\ Displays(d) <=> change[d].pc # "refused"
          /\ \A e \in Changes : Going(e) /\ e # d /\ e \notin overlap[d] =>
               (Kept(d, e) <=> change[d].pc # "refused")
      BY <1>2, <2>2, <3>2 DEF UnspoiltIsTrue
    <3> QED BY <1>1, <1>2, <1>4, <1>5, <2>2, <3>3
  <2> QED BY <2>1, <2>2
<1>9. HeldIsSaved'
  BY <1>1, <1>2 DEF HeldIsSaved
<1> QED BY <1>3, <1>6, <1>7, <1>8, <1>9

LEMMA ServeStep ==
  ASSUME HistoryInv, NEW c \in Changes, History!Serve(c)
  PROVE  HistoryTypes' /\ UnmadeIsNowhere' /\ GoingOverlap' /\ UnspoiltIsTrue' /\ HeldIsSaved'
<1> USE DEF HistoryInv
<1>1. PICK step \in {"event", "saved"} :
        /\ change' = [change EXCEPT ![c].pc = step]
        /\ held' = IF step = "saved" THEN held \cup {c} ELSE held
        /\ Going(c) /\ shown' = shown /\ overlap' = overlap
  BY DEF History!Serve, Going
<1>2. /\ change'[c].pc = step
      /\ \A d \in Changes : change'[d].prior = change[d].prior
      /\ \A d \in Changes \ {c} : change'[d].pc = change[d].pc
  BY <1>1 DEF HistoryTypes
<1>3. HistoryTypes'
  BY <1>1 DEF HistoryTypes, History!Steps
<1>4. /\ \A d \in Changes : Displays(d)' <=> Displays(d)
      /\ \A d, e \in Changes : Kept(d, e)' <=> Kept(d, e)
      /\ \A d \in Changes : Going(d)' => Going(d)
      /\ \A d \in Changes : (change'[d].pc = "refused") <=> (change[d].pc = "refused")
      /\ \A d \in Changes : (change'[d].pc = "idle") <=> (change[d].pc = "idle")
  BY <1>1, <1>2 DEF Displays, Kept, Going
<1>5. \A d \in Changes : Spoilt(d)' <=> Spoilt(d)
  BY <1>1, <1>4 DEF Spoilt, HistoryTypes
<1>6. UnmadeIsNowhere' /\ GoingOverlap' /\ UnspoiltIsTrue'
  BY <1>1, <1>4, <1>5 DEF UnmadeIsNowhere, GoingOverlap, UnspoiltIsTrue
<1>7. HeldIsSaved'
  BY <1>1, <1>2 DEF HeldIsSaved, Going
<1> QED BY <1>3, <1>6, <1>7

LEMMA RefuseStep ==
  ASSUME HistoryInv, NEW c \in Changes, History!Refuse(c)
  PROVE  HistoryTypes' /\ UnmadeIsNowhere' /\ GoingOverlap' /\ UnspoiltIsTrue' /\ HeldIsSaved'
<1> USE DEF HistoryInv
<1>1. /\ change' = [change EXCEPT ![c].pc = "refused"] /\ shown' = change[c].prior
      /\ held' = held /\ Going(c) /\ overlap' = overlap
  BY DEF History!Refuse, History!UnderWay, History!RolledBack, Going
<1>2. /\ change'[c].pc = "refused"
      /\ \A d \in Changes : change'[d].prior = change[d].prior
      /\ \A d \in Changes \ {c} : change'[d].pc = change[d].pc
  BY <1>1 DEF HistoryTypes
<1>3. HistoryTypes'
  BY <1>1 DEF HistoryTypes, History!Steps
<1>4. /\ \A d \in Changes : Displays(d)' <=> Kept(d, c)
      /\ \A d, e \in Changes : Kept(d, e)' <=> Kept(d, e)
      /\ \A d \in Changes : Going(d)' <=> Going(d) /\ d # c
      /\ \A d \in Changes : (change'[d].pc = "refused") <=> (change[d].pc = "refused") \/ d = c
      /\ \A d \in Changes : (change'[d].pc = "idle") <=> (change[d].pc = "idle")
  BY <1>1, <1>2 DEF Displays, Kept, Going
<1>5. \A d \in Changes : Spoilt(d)' <=> Spoilt(d) \/ c \in overlap[d]
  BY <1>1, <1>4 DEF Spoilt, HistoryTypes
<1>6. UnmadeIsNowhere' /\ GoingOverlap'
  BY <1>1, <1>4 DEF UnmadeIsNowhere, GoingOverlap
<1>7. UnspoiltIsTrue'
  <2> SUFFICES ASSUME NEW d \in Changes, change'[d].pc # "idle", ~Spoilt(d)'
               PROVE  /\ Displays(d)' <=> change'[d].pc # "refused"
                      /\ \A e \in Changes : Going(e)' /\ e # d /\ e \notin overlap'[d] =>
                           (Kept(d, e)' <=> change'[d].pc # "refused")
    BY DEF UnspoiltIsTrue
  <2>1. ~Spoilt(d) /\ c \notin overlap[d] /\ change[d].pc # "idle"
    BY <1>4, <1>5
  <2>2. /\ Displays(d) <=> change[d].pc # "refused"
        /\ \A e \in Changes : Going(e) /\ e # d /\ e \notin overlap[d] =>
             (Kept(d, e) <=> change[d].pc # "refused")
    BY <2>1 DEF UnspoiltIsTrue
  <2>3. CASE d = c
    BY <1>1, <1>4, <2>3 DEF GoingOverlap
  <2>4. CASE d # c
    BY <1>1, <1>4, <2>1, <2>2, <2>4
  <2> QED BY <2>3, <2>4
<1>8. HeldIsSaved'
  BY <1>1, <1>2 DEF HeldIsSaved, Going
<1> QED BY <1>3, <1>6, <1>7, <1>8

LEMMA CommentStep ==
  ASSUME HistoryInv, NEW n \in Comments,
         History!AddComment(n) \/ History!CommentSaved(n) \/ History!CommentFails(n)
           \/ History!DeleteComment(n) \/ History!DeleteServed(n)
  PROVE  CommentTypes' /\ CommentInTurn'
<1> USE DEF HistoryInv, CommentTypes, CommentInTurn
<1>1. CASE History!AddComment(n)
  BY <1>1 DEF History!AddComment
<1>2. CASE History!CommentSaved(n)
  BY <1>2 DEF History!CommentSaved, History!Named
<1>3. CASE History!CommentFails(n)
  BY <1>3 DEF History!CommentFails
<1>4. CASE History!DeleteComment(n)
  BY <1>4 DEF History!DeleteComment
<1>5. CASE History!DeleteServed(n)
  BY <1>5 DEF History!DeleteServed
<1> QED BY <1>1, <1>2, <1>3, <1>4, <1>5

LEMMA HistoryStep == HistoryInv /\ [History!Next]_(History!vars) => HistoryInv'
<1> SUFFICES ASSUME HistoryInv, [History!Next]_(History!vars) PROVE HistoryInv'
  OBVIOUS
<1> DEFINE entryKept == UNCHANGED <<shown, change, held, overlap>>
           commentsKept == UNCHANGED <<listed, comment, posted>>
<1>1. entryKept => HistoryTypes' /\ UnmadeIsNowhere' /\ GoingOverlap' /\ UnspoiltIsTrue' /\ HeldIsSaved'
  BY DEF HistoryInv, HistoryTypes, UnmadeIsNowhere, GoingOverlap, UnspoiltIsTrue, HeldIsSaved,
         Displays, Kept, Going, Spoilt
<1>2. commentsKept => CommentTypes' /\ CommentInTurn'
  BY DEF HistoryInv, CommentTypes, CommentInTurn
<1>3. CASE UNCHANGED History!vars
  BY <1>1, <1>2, <1>3 DEF History!vars, HistoryInv
<1>4. ASSUME NEW c \in Changes, History!Make(c) \/ History!Serve(c) \/ History!Refuse(c)
      PROVE  HistoryInv'
  <2>1. commentsKept
    BY <1>4 DEF History!Make, History!Serve, History!Refuse, History!commentVars
  <2> QED BY <1>2, <1>4, <2>1, MakeStep, ServeStep, RefuseStep DEF HistoryInv
<1>5. ASSUME NEW n \in Comments,
             History!AddComment(n) \/ History!CommentSaved(n) \/ History!CommentFails(n)
               \/ History!DeleteComment(n) \/ History!DeleteServed(n)
      PROVE  HistoryInv'
  <2>1. entryKept
    BY <1>5 DEF History!AddComment, History!CommentSaved, History!CommentFails,
                History!DeleteComment, History!DeleteServed, History!entryVars
  <2> QED BY <1>1, <1>5, <2>1, CommentStep DEF HistoryInv
<1> QED BY <1>3, <1>4, <1>5 DEF History!Next

LEMMA HistoryIsTrue == HistoryInv => History!ShownIsHeld
<1> SUFFICES ASSUME HistoryInv PROVE History!ShownIsHeld
  OBVIOUS
<1>1. \A c \in Changes : History!Shown(c) <=> Displays(c)
  BY DEF History!Shown, History!Contains, Displays, HistoryInv, HistoryTypes
<1>2. History!ShownIffHeld
  BY <1>1 DEF HistoryInv, UnspoiltIsTrue, HeldIsSaved, Spoilt, HistoryTypes, History!ShownIffHeld,
     History!Ended, History!Refused
<1>3. History!DeletedIsGone
  BY DEF HistoryInv, CommentInTurn, History!DeletedIsGone
<1> QED BY <1>2, <1>3 DEF History!ShownIsHeld

LEMMA HistoryIsTyped == HistoryInv => History!TypeOK
BY DEF HistoryInv, HistoryTypes, CommentTypes, History!TypeOK

-----------------------------------------------------------------------------
(* The Escalation Center                                                     *)

DeskTypes ==
  /\ table \in Tables /\ rows \in Tables \cup {None}
  /\ event \in BOOLEAN /\ online \in BOOLEAN /\ timer \in BOOLEAN
  /\ failed \in BOOLEAN /\ unheard \in BOOLEAN /\ applied \in BOOLEAN
  /\ query \in [rows : Tables \cup {None}] \cup {None}
  /\ filter \in Desk!Filters /\ ticked \in SUBSET Desked
  /\ cursor \in Desk!Shown(rows, filter) \cup {None}
  /\ panel \in [entry : Desked, stage : Desk!Stages] \cup {None}

BulkTypes ==
  /\ dialog \in [Dialogs -> [open : BOOLEAN, asked : Desk!BulkRequests \cup {None}]]
  /\ quick \in SUBSET Desk!BulkRequests
  /\ composer \in [open : BOOLEAN, drafts : SUBSET Desked, loads : SUBSET (SUBSET Desked)]

\* The rows, or those of an answer on its way, are the server's, or an event is
\* still going to say that they are not, or none ever will.
ListInTime ==
  /\ query # None => query.rows \in {None, table} \/ event \/ timer \/ unheard
  /\ query = None /\ ~failed => rows = table \/ event \/ timer \/ unheard

DeskInv == DeskTypes /\ BulkTypes /\ ListInTime

LEMMA DeskStarts == DeskNames /\ Desk!Init => DeskInv
<1> SUFFICES ASSUME DeskNames, Desk!Init PROVE DeskInv
  OBVIOUS
<1>1. DeskTypes /\ ListInTime
  BY DEF Desk!Init, DeskTypes, ListInTime, Tables, Desk!Stages, Desk!Filters, DeskNames
<1>2. BulkTypes
  BY DEF Desk!Init, BulkTypes
<1> QED BY <1>1, <1>2 DEF DeskInv

\* The rows that are shown are among the entries.
LEMMA ShownAreEntries ==
  \A answer, f : Desk!Shown(answer, f) \subseteq Desked /\ (answer = None => Desk!Shown(answer, f) = {})
BY DEF Desk!Shown

LEMMA RefetchKeepsTime ==
  ASSUME DeskNames, DeskTypes, ListInTime, Desk!Refetch, table' = table
  PROVE  /\ ListInTime' /\ unheard' \in BOOLEAN /\ query' # None
         /\ query' \in [rows : Tables \cup {None}] \cup {None}
<1>1. CASE query # None /\ rows = None
  BY <1>1 DEF Desk!Refetch, ListInTime, DeskTypes
<1>2. CASE ~(query # None /\ rows = None)
  <2>1. query' = [rows |-> None] /\ unheard' = unheard
    BY <1>2 DEF Desk!Refetch
  <2> QED BY <2>1 DEF DeskNames, ListInTime, DeskTypes
<1> QED BY <1>1, <1>2

LEMMA HeardInTime ==
  ASSUME DeskTypes, ListInTime, NEW some \in BOOLEAN, table' # table => some, Desk!Heard(some),
         UNCHANGED <<online, timer, query, rows, failed>>
  PROVE  ListInTime' /\ event' \in BOOLEAN /\ unheard' \in BOOLEAN
<1>1. /\ event' <=> event \/ (some /\ online)
      /\ unheard' <=> unheard \/ (some /\ ~online)
      /\ event' \in BOOLEAN /\ unheard' \in BOOLEAN
  BY DEF Desk!Heard, DeskTypes
<1> QED BY <1>1 DEF ListInTime, DeskTypes

LEMMA ReloadedIsTyped ==
  ASSUME BulkTypes, NEW ids \in SUBSET Desked, DeskTypes
  PROVE  Desk!Reloaded(composer, ids)
           \in [open : BOOLEAN, drafts : SUBSET Desked, loads : SUBSET (SUBSET Desked)]
BY DEF Desk!Reloaded, BulkTypes

\* What new rows or another address leave behind.
LEMMA SettledKeepsTypes ==
  ASSUME DeskNames, DeskTypes, NEW answer \in Tables \cup {None}, NEW f \in Desk!Filters,
         Desk!Settled(answer, f)
  PROVE  /\ rows' = answer /\ filter' = f /\ applied' \in BOOLEAN /\ ticked' \in SUBSET Desked
         /\ cursor' \in Desk!Shown(answer, f) \cup {None}
BY DEF Desk!Settled, DeskTypes, DeskNames, Desk!Filters

\* What the entries of a request may be.
LEMMA RequestIsTyped ==
  ASSUME DeskTypes, NEW b \in BOOLEAN
  PROVE  [ids |-> ticked, done |-> b] \in Desk!BulkRequests
BY DEF DeskTypes, Desk!BulkRequests

-----------------------------------------------------------------------------
(* The list and the events                                                   *)

LEMMA ChangeStep == ASSUME DeskInv, NEW e \in Desked, Desk!Change(e) PROVE DeskInv'
<1> USE DEF DeskInv
<1>1. /\ UNCHANGED <<online, timer, rows, query, failed, panel, filter, applied, ticked, cursor>>
      /\ UNCHANGED <<dialog, quick, composer>>
  BY DEF Desk!Change, Desk!page, Desk!bulk
<1>2. BulkTypes'
  BY <1>1 DEF BulkTypes
<1>3. table' \in Tables
  BY DEF Desk!Change, Desk!Announced, Desk!Silent, DeskTypes, Tables, Desk!Stages
<1>4. CASE Desk!Heard(TRUE)
  BY <1>1, <1>2, <1>3, <1>4, HeardInTime DEF DeskTypes
<1>5. CASE unheard' = TRUE /\ event' = event
  BY <1>1, <1>2, <1>3, <1>5 DEF DeskTypes, ListInTime
<1> QED BY <1>4, <1>5 DEF Desk!Change

LEMMA EventStep ==
  ASSUME DeskNames, DeskInv,
         Desk!Disconnect \/ Desk!Connect \/ Desk!Notice \/ Desk!Invalidate
  PROVE  DeskInv'
<1> USE DEF DeskInv
<1>1. /\ UNCHANGED <<table, rows, failed, panel, filter, applied, ticked, cursor>>
      /\ UNCHANGED <<dialog, quick, composer>>
  BY DEF Desk!Disconnect, Desk!Connect, Desk!Notice, Desk!Invalidate, Desk!page, Desk!bulk
<1>2. BulkTypes'
  BY <1>1 DEF BulkTypes
<1>3. CASE Desk!Disconnect
  <2>1. /\ event' = FALSE /\ online' = FALSE /\ unheard' = (unheard \/ event)
        /\ UNCHANGED <<timer, query>>
    BY <1>3 DEF Desk!Disconnect
  <2> QED BY <1>1, <1>2, <2>1 DEF DeskTypes, ListInTime
<1>4. CASE Desk!Connect
  BY <1>1, <1>2, <1>4 DEF Desk!Connect, DeskTypes, ListInTime
<1>5. CASE Desk!Notice
  BY <1>1, <1>2, <1>5 DEF Desk!Notice, DeskTypes, ListInTime
<1>6. CASE Desk!Invalidate
  BY <1>1, <1>2, <1>6, RefetchKeepsTime DEF Desk!Invalidate, DeskTypes
<1> QED BY <1>3, <1>4, <1>5, <1>6

LEMMA AnswerStep ==
  ASSUME DeskNames, DeskInv, Desk!Serve \/ Desk!Arrive \/ Desk!FetchFails
  PROVE  DeskInv'
<1> USE DEF DeskInv
<1>1. CASE Desk!Serve
  <2>1. /\ query' = [rows |-> table] /\ unheard' = FALSE
        /\ UNCHANGED <<table, event, online, timer, rows, failed, panel>>
        /\ UNCHANGED <<filter, applied, ticked, cursor, dialog, quick, composer>>
    BY <1>1 DEF Desk!Serve, Desk!page, Desk!bulk
  <2> QED BY <2>1 DEF DeskNames, DeskTypes, BulkTypes, ListInTime
<1>2. CASE Desk!Arrive
  <2>1. /\ query # None /\ query.rows # None /\ query' = None /\ failed' = FALSE
        /\ UNCHANGED <<table, event, online, timer, unheard, panel, dialog, quick>>
        /\ Desk!Settled(query.rows, filter) /\ composer' = Desk!Reloaded(composer, ticked')
    BY <1>2 DEF Desk!Arrive
  <2>2. query.rows \in Tables /\ filter \in Desk!Filters
    BY <2>1 DEF DeskTypes
  <2>3. /\ rows' = query.rows /\ filter' = filter /\ applied' \in BOOLEAN
        /\ ticked' \in SUBSET Desked /\ cursor' \in Desk!Shown(query.rows, filter) \cup {None}
    BY <2>1, <2>2, SettledKeepsTypes
  <2>4. BulkTypes'
    BY <2>1, <2>3, ReloadedIsTyped DEF BulkTypes
  <2> QED BY <2>1, <2>2, <2>3, <2>4 DEF DeskTypes, ListInTime
<1>3. CASE Desk!FetchFails
  <2>1. /\ query' = None /\ failed' = TRUE
        /\ UNCHANGED <<table, event, online, timer, rows, unheard, panel>>
        /\ UNCHANGED <<filter, applied, ticked, cursor, dialog, quick, composer>>
    BY <1>3 DEF Desk!FetchFails, Desk!page, Desk!bulk
  <2> QED BY <2>1 DEF DeskTypes, BulkTypes, ListInTime
<1> QED BY <1>1, <1>2, <1>3

-----------------------------------------------------------------------------
(* The auditor                                                               *)

LEMMA LookStep ==
  ASSUME DeskNames, DeskInv,
         Desk!Refresh \/ (\E f \in Desk!Filters : Desk!SetFilter(f)) \/ Desk!MoveCursor
           \/ \E e \in Desked : Desk!OpenPanel(e)
  PROVE  DeskInv'
<1> USE DEF DeskInv
<1>1. CASE Desk!Refresh
  <2>1. /\ UNCHANGED <<table, event, online, timer, rows, failed, panel>>
        /\ UNCHANGED <<filter, applied, ticked, cursor, dialog, quick, composer>>
        /\ Desk!Refetch
    BY <1>1 DEF Desk!Refresh, Desk!Act, Desk!page, Desk!bulk
  <2> QED BY <2>1, RefetchKeepsTime DEF DeskTypes, BulkTypes
<1>2. ASSUME NEW f \in Desk!Filters, Desk!SetFilter(f) PROVE DeskInv'
  <2>1. /\ UNCHANGED <<table, event, online, timer, failed, panel, query, unheard, dialog, quick>>
        /\ Desk!Settled(rows, f) /\ composer' = Desk!Reloaded(composer, ticked')
    BY <1>2 DEF Desk!SetFilter, Desk!Act
  <2>2. rows \in Tables \cup {None}
    BY DEF DeskTypes
  <2>3. /\ rows' = rows /\ filter' = f /\ applied' \in BOOLEAN
        /\ ticked' \in SUBSET Desked /\ cursor' \in Desk!Shown(rows, f) \cup {None}
    BY <2>1, <2>2, SettledKeepsTypes
  <2>4. BulkTypes'
    BY <2>1, <2>3, ReloadedIsTyped DEF BulkTypes
  <2> QED BY <2>1, <2>2, <2>3, <2>4 DEF DeskTypes, ListInTime
<1>3. CASE Desk!MoveCursor
  <2>1. /\ UNCHANGED <<table, event, online, timer, rows, failed, panel, query, unheard>>
        /\ UNCHANGED <<filter, applied, ticked, dialog, quick, composer>>
    BY <1>3 DEF Desk!MoveCursor, Desk!Act, Desk!bulk
  <2>2. cursor' \in Desk!Shown(rows, filter) \cup {None}
    BY <1>3 DEF Desk!MoveCursor, Desk!First, Desk!Last, Desk!After, Desk!Earlier, DeskTypes
  <2> QED BY <2>1, <2>2 DEF DeskTypes, BulkTypes, ListInTime
<1>4. ASSUME NEW e \in Desked, Desk!OpenPanel(e) PROVE DeskInv'
  <2>1. /\ UNCHANGED <<table, event, online, timer, rows, failed, query, unheard>>
        /\ UNCHANGED <<filter, applied, ticked, dialog, quick, composer>>
        /\ panel' = [entry |-> e, stage |-> rows[e]] /\ e \in Desk!Shown(rows, filter)
        /\ cursor' \in {e, cursor}
    BY <1>4 DEF Desk!OpenPanel, Desk!Act, Desk!bulk
  <2>2. rows[e] \in Desk!Stages
    BY <2>1, ShownAreEntries DEF DeskTypes, Tables
  <2> QED BY <2>1, <2>2 DEF DeskTypes, BulkTypes, ListInTime
<1> QED BY <1>1, <1>2, <1>3, <1>4

LEMMA TickStep ==
  ASSUME DeskInv, Desk!ToggleAllVisible \/ \E e \in Desked : Desk!ToggleTracking(e)
  PROVE  DeskInv'
<1> USE DEF DeskInv
<1>1. PICK ids \in SUBSET Desked : Desk!Act /\ Desk!Tick(ids)
  BY ShownAreEntries DEF Desk!ToggleAllVisible, Desk!ToggleTracking, DeskTypes
<1>2. /\ UNCHANGED <<table, event, online, timer, rows, failed, panel, query, unheard>>
      /\ UNCHANGED <<filter, applied, cursor, dialog, quick>>
      /\ ticked' = ids /\ composer' = Desk!Reloaded(composer, ids)
  BY <1>1 DEF Desk!Tick, Desk!Act
<1>3. BulkTypes'
  BY <1>2, ReloadedIsTyped DEF BulkTypes
<1> QED BY <1>2, <1>3 DEF DeskTypes, ListInTime

LEMMA EscapeStep == ASSUME DeskNames, DeskInv, Desk!Escape PROVE DeskInv'
<1> USE DEF DeskInv
<1>1. /\ UNCHANGED <<table, event, online, timer, rows, failed, filter, applied, cursor, quick>>
      /\ panel' = None /\ ticked' \in {ticked, {}}
      /\ dialog' = [d \in Dialogs |-> [dialog[d] EXCEPT !.open = FALSE]]
      /\ composer' = [composer EXCEPT !.open = FALSE]
      /\ Desk!Refetch \/ UNCHANGED <<query, unheard>>
  BY DEF Desk!Escape, Desk!Act
<1>2. BulkTypes'
  BY <1>1 DEF BulkTypes
<1>3. CASE Desk!Refetch
  BY <1>1, <1>2, <1>3, RefetchKeepsTime DEF DeskTypes
<1>4. CASE UNCHANGED <<query, unheard>>
  BY <1>1, <1>2, <1>4 DEF DeskTypes, ListInTime
<1> QED BY <1>1, <1>3, <1>4

-----------------------------------------------------------------------------
(* Bulk actions and the composer                                             *)

\* What leaves the list and what is known of it alone.
DeskRests ==
  /\ UNCHANGED <<table, event, online, timer, rows, query, failed, unheard>>
  /\ UNCHANGED <<filter, applied, ticked, cursor, panel>>

LEMMA RestKeepsDesk == ASSUME DeskTypes, ListInTime, DeskRests PROVE DeskTypes' /\ ListInTime'
BY DEF DeskTypes, ListInTime, DeskRests

LEMMA AskBulkStep ==
  ASSUME DeskInv, Desk!Resolve \/ (\E d \in Dialogs : Desk!OpenDialog(d) \/ Desk!Submit(d)
                                                        \/ Desk!DialogFails(d))
  PROVE  DeskInv'
<1> USE DEF DeskInv
<1>1. DeskRests /\ composer' = composer
  BY DEF Desk!Resolve, Desk!OpenDialog, Desk!Submit, Desk!DialogFails, Desk!Act, Desk!page, DeskRests
<1>2. [ids |-> ticked, done |-> FALSE] \in Desk!BulkRequests
  BY RequestIsTyped
<1>3. CASE Desk!Resolve
  BY <1>1, <1>2, <1>3, RestKeepsDesk DEF Desk!Resolve, BulkTypes
<1>4. ASSUME NEW d \in Dialogs, Desk!OpenDialog(d) PROVE BulkTypes'
  BY <1>1, <1>4 DEF Desk!OpenDialog, BulkTypes
<1>5. ASSUME NEW d \in Dialogs, Desk!Submit(d) PROVE BulkTypes'
  BY <1>1, <1>2, <1>5 DEF Desk!Submit, BulkTypes
<1>6. ASSUME NEW d \in Dialogs, Desk!DialogFails(d) PROVE BulkTypes'
  BY <1>1, <1>6 DEF Desk!DialogFails, BulkTypes
<1> QED BY <1>1, <1>3, <1>4, <1>5, <1>6, RestKeepsDesk

LEMMA BulkIsTyped ==
  ASSUME DeskTypes, NEW ids, NEW from, NEW to \in Desk!Stages
  PROVE  Desk!Bulk(ids, from, to) \in Tables
BY DEF Desk!Bulk, DeskTypes, Tables

LEMMA DialogIsServed == ASSUME DeskInv, NEW d \in Dialogs, Desk!ServeDialog(d) PROVE DeskInv'
<1> USE DEF DeskInv
<1>1. /\ UNCHANGED <<online, timer, rows, query, failed, filter, applied, ticked, cursor, panel>>
      /\ UNCHANGED <<quick, composer>>
      /\ dialog[d].asked # None
      /\ dialog' = [dialog EXCEPT ![d].asked = [dialog[d].asked EXCEPT !.done = TRUE]]
  BY DEF Desk!ServeDialog, Desk!page
<1>2. [dialog[d].asked EXCEPT !.done = TRUE] \in Desk!BulkRequests
  <2>1. dialog[d].asked \in Desk!BulkRequests
    BY <1>1 DEF BulkTypes
  <2> QED BY <2>1 DEF Desk!BulkRequests
<1>5. BulkTypes'
  BY <1>1, <1>2 DEF BulkTypes
<1>3. CASE d = "acknowledge"
  <2>1. /\ table' = Desk!Bulk(dialog[d].asked.ids, {"open", "late"}, "responded")
        /\ Desk!Heard(table' # table)
    BY <1>3 DEF Desk!ServeDialog
  <2>2. table' \in Tables
    BY <2>1, BulkIsTyped DEF Desk!Stages
  <2>3. PICK some \in BOOLEAN : some = (table' # table)
    OBVIOUS
  <2>4. Desk!Heard(some) /\ (table' # table => some)
    BY <2>1, <2>3 DEF Desk!Heard
  <2> QED BY <1>1, <1>5, <2>2, <2>4, HeardInTime DEF DeskTypes
<1>4. CASE d # "acknowledge"
  <2>1. UNCHANGED <<table, event, unheard>>
    BY <1>4 DEF Desk!ServeDialog
  <2> QED BY <1>1, <1>5, <2>1, RestKeepsDesk DEF DeskRests
<1> QED BY <1>3, <1>4

LEMMA ResolveIsServed == ASSUME DeskInv, NEW r \in quick, Desk!ServeResolve(r) PROVE DeskInv'
<1> USE DEF DeskInv
<1>1. /\ UNCHANGED <<online, timer, rows, query, failed, filter, applied, ticked, cursor, panel>>
      /\ UNCHANGED <<dialog, composer>>
      /\ quick' = (quick \ {r}) \cup {[r EXCEPT !.done = TRUE]}
      /\ table' = Desk!Bulk(r.ids, {"open", "late", "responded"}, "resolved")
      /\ Desk!Heard(table' # table)
  BY DEF Desk!ServeResolve, Desk!page
<1>2. BulkTypes'
  BY <1>1 DEF BulkTypes, Desk!BulkRequests
<1>3. table' \in Tables
  BY <1>1, BulkIsTyped DEF Desk!Stages
<1>4. PICK some \in BOOLEAN : some = (table' # table)
  OBVIOUS
<1>5. Desk!Heard(some) /\ (table' # table => some)
  BY <1>1, <1>4 DEF Desk!Heard
<1> QED BY <1>1, <1>2, <1>3, <1>5, HeardInTime DEF DeskTypes

LEMMA BulkIsAnswered ==
  ASSUME DeskNames, DeskInv,
         (\E d \in Dialogs : Desk!AnswerDialog(d)) \/ \E r \in quick : Desk!AnswerResolve(r)
  PROVE  DeskInv'
<1> USE DEF DeskInv
<1>1. ASSUME NEW d \in Dialogs, Desk!AnswerDialog(d) PROVE DeskInv'
  <2>1. /\ UNCHANGED <<table, event, online, timer, rows, failed, filter, applied, cursor, panel>>
        /\ ticked' = {} /\ composer' = Desk!Reloaded(composer, {}) /\ Desk!Refetch
        /\ dialog' = [dialog EXCEPT ![d] = [open |-> FALSE, asked |-> None]] /\ quick' = quick
    BY <1>1 DEF Desk!AnswerDialog
  <2>2. BulkTypes'
    BY <2>1, ReloadedIsTyped DEF BulkTypes
  <2> QED BY <2>1, <2>2, RefetchKeepsTime DEF DeskTypes
<1>2. ASSUME NEW r \in quick, Desk!AnswerResolve(r) PROVE DeskInv'
  <2>1. /\ UNCHANGED <<table, event, online, timer, rows, failed, filter, applied, cursor, panel>>
        /\ UNCHANGED <<ticked, composer, dialog>> /\ quick' = quick \ {r} /\ Desk!Refetch
    BY <1>2 DEF Desk!AnswerResolve, Desk!page
  <2> QED BY <2>1, RefetchKeepsTime DEF DeskTypes, BulkTypes
<1> QED BY <1>1, <1>2

LEMMA ComposerStep ==
  ASSUME DeskNames, DeskInv,
         Desk!OpenComposer \/ Desk!HandOff \/ Desk!CloseComposer
           \/ \E ids \in composer.loads : Desk!LoadDrafts(ids)
  PROVE  DeskInv'
<1> USE DEF DeskInv
<1>1. CASE Desk!OpenComposer
  <2>1. DeskRests /\ UNCHANGED <<dialog, quick>> /\ ticked \in SUBSET Desked
        /\ composer' = [composer EXCEPT !.open = TRUE, !.loads = @ \cup {ticked}]
    BY <1>1 DEF Desk!OpenComposer, Desk!Act, Desk!page, DeskRests, DeskTypes
  <2> QED BY <2>1, RestKeepsDesk DEF BulkTypes
<1>2. ASSUME NEW ids \in composer.loads, Desk!LoadDrafts(ids) PROVE DeskInv'
  <2>1. DeskRests /\ UNCHANGED <<dialog, quick>>
        /\ composer' = [composer EXCEPT !.loads = @ \ {ids}, !.drafts = ids]
    BY <1>2 DEF Desk!LoadDrafts, Desk!page, DeskRests
  <2> QED BY <2>1, RestKeepsDesk DEF BulkTypes
<1>3. CASE Desk!HandOff \/ Desk!CloseComposer
  <2>1. /\ UNCHANGED <<table, event, online, timer, rows, failed, filter, applied, cursor, panel>>
        /\ UNCHANGED <<ticked, dialog, quick>> /\ Desk!Refetch
        /\ composer' \in {composer, [composer EXCEPT !.open = FALSE]}
    BY <1>3 DEF Desk!HandOff, Desk!CloseComposer, Desk!Act, Desk!page, Desk!bulk
  <2>2. BulkTypes'
    BY <2>1 DEF BulkTypes
  <2> QED BY <2>1, <2>2, RefetchKeepsTime DEF DeskTypes
<1> QED BY <1>1, <1>2, <1>3

LEMMA DeskStep == ASSUME DeskNames PROVE DeskInv /\ [Desk!Next]_(Desk!deskVars) => DeskInv'
<1> SUFFICES ASSUME DeskInv, [Desk!Next]_(Desk!deskVars) PROVE DeskInv'
  OBVIOUS
<1>1. CASE UNCHANGED Desk!deskVars
  BY <1>1 DEF Desk!deskVars, DeskInv, DeskTypes, BulkTypes, ListInTime
<1>2. CASE Desk!Next
  BY <1>2, ChangeStep, EventStep, AnswerStep, LookStep, TickStep, EscapeStep, AskBulkStep,
     DialogIsServed, ResolveIsServed, BulkIsAnswered, ComposerStep DEF Desk!Next
<1> QED BY <1>1, <1>2

LEMMA DeskIsTrue == DeskInv => Desk!QuietListIsCurrent /\ Desk!CursorIsShown /\ Desk!TypeOK
BY DEF DeskInv, DeskTypes, BulkTypes, ListInTime, Tables, Desk!QuietListIsCurrent,
       Desk!CursorIsShown, Desk!TypeOK, Desk!Shown

\* Only an answer, or the failure of one, ends a query.
LEMMA TicksAreLeft ==
  ASSUME DeskNames PROVE DeskInv /\ Desk!Next => Desk!RowsLeaveTicks
<1> SUFFICES ASSUME DeskInv, Desk!Next, query # None, query' = None
             PROVE  Desk!RowsLeaveTicks
  BY DEF Desk!RowsLeaveTicks
<1>1. Desk!Refetch => query' # None
  BY RefetchKeepsTime DEF Desk!Refetch, DeskInv, DeskNames, DeskTypes
<1>2. Desk!Serve => query' # None
  BY DEF Desk!Serve, DeskNames, DeskInv, DeskTypes
<1>3. Desk!Arrive \/ Desk!FetchFails
  BY <1>1, <1>2 DEF Desk!Next, Desk!Change, Desk!ToggleTracking, Desk!OpenPanel, Desk!Disconnect,
     Desk!Connect, Desk!Notice, Desk!Invalidate, Desk!SetFilter, Desk!Refresh,
     Desk!ToggleAllVisible, Desk!MoveCursor, Desk!Escape, Desk!Resolve, Desk!OpenDialog,
     Desk!Submit, Desk!ServeDialog, Desk!AnswerDialog, Desk!DialogFails, Desk!ServeResolve,
     Desk!AnswerResolve, Desk!OpenComposer, Desk!HandOff, Desk!CloseComposer, Desk!LoadDrafts,
     Desk!Tick
<1>4. CASE Desk!Arrive
  BY <1>4 DEF Desk!Arrive, Desk!Settled, Desk!RowsLeaveTicks
<1>5. CASE Desk!FetchFails
  BY <1>5 DEF Desk!FetchFails, Desk!page, Desk!RowsLeaveTicks
<1> QED BY <1>3, <1>4, <1>5

-----------------------------------------------------------------------------
(* The composer                                                              *)

Drafting == [of : Pane!Texts, auto : BOOLEAN, end : Pane!Ends]
Windows == [is : {"none", "loading", "filled", "closed"}, of : Pane!Texts \cup {None}]
Previews == [of : Pane!Texts \cup {None}, loading : BOOLEAN, failed : BOOLEAN]

ScreenTypes ==
  /\ text \in Pane!Texts /\ written \in Pane!Texts /\ view \in {"preview", "edit"}
  /\ dirty \in BOOLEAN /\ mounted \in BOOLEAN /\ readOnly \in BOOLEAN
  /\ poll \in [locked : BOOLEAN \cup {None}] \cup {None}

SavingTypes ==
  /\ autosaves \in SUBSET Drafting /\ kept \in Pane!Texts \cup {None}
  /\ holder \in {None, "me", "other"} /\ raced \in BOOLEAN /\ changed \in BOOLEAN

\* Only the text in the fields is asked a preview of.
PreviewFollows ==
  /\ preview \in Previews /\ asked \subseteq {text}
  /\ mounted /\ view = "preview" /\ ~preview.loading /\ ~preview.failed => preview.of = text

\* The saves under way are of the text in the fields unless an edit raced one, and
\* one that is done, or that has marked the text as saved, is the draft.
DraftFollows ==
  ~raced => /\ \A s \in autosaves : s.of = text
            /\ ~changed /\ (~dirty \/ \E s \in autosaves : s.end = "done") => kept = text

\* What has been answered with "done" is on record, and a window waits only for
\* what is under way.
WindowsFollow ==
  /\ sending \in [Opening -> Sendings \cup {None}] /\ recorded \in [Opening -> SUBSET Pane!Texts]
  /\ window \in [Opening -> Windows]
  /\ \A k \in Opening :
       /\ sending[k] # None /\ sending[k].end = "done" => sending[k].of \in recorded[k]
       /\ window[k].is = "loading" => sending[k] # None
       /\ window[k].is = "filled" => window[k].of \in recorded[k]

PaneInv == ScreenTypes /\ SavingTypes /\ PreviewFollows /\ DraftFollows /\ WindowsFollow

LEMMA PaneStarts == PaneNames /\ Pane!Init => PaneInv
<1> SUFFICES ASSUME PaneNames, Pane!Init PROVE PaneInv
  OBVIOUS
<1> USE DEF Pane!Init
<1>1. 0 \in Pane!Texts
  BY DEF Pane!Texts, PaneNames
<1>2. ScreenTypes /\ SavingTypes
  BY <1>1 DEF ScreenTypes, SavingTypes
<1>3. PreviewFollows /\ DraftFollows
  BY <1>1 DEF PreviewFollows, Previews, DraftFollows
<1>4. WindowsFollow
  BY DEF WindowsFollow, Windows
<1> QED BY <1>2, <1>3, <1>4 DEF PaneInv

-----------------------------------------------------------------------------
(* What one part of a step leaves alone                                      *)

LEMMA PreviewRests ==
  PreviewFollows /\ UNCHANGED <<text, mounted, view, preview, asked>> => PreviewFollows'
BY DEF PreviewFollows

LEMMA DraftRests ==
  SavingTypes /\ DraftFollows /\ UNCHANGED <<text, dirty, autosaves, kept, holder, raced, changed>>
    => SavingTypes' /\ DraftFollows'
BY DEF SavingTypes, DraftFollows

LEMMA WindowsRest ==
  WindowsFollow /\ UNCHANGED <<sending, recorded, window>> => WindowsFollow'
BY DEF WindowsFollow

LEMMA PreviewedFollows ==
  ASSUME PreviewFollows, ScreenTypes, NEW t \in Pane!Texts, NEW v \in {"preview", "edit"},
         Pane!Previewed(t, v), text' = t, view' = v
  PROVE  PreviewFollows'
<1>1. [preview EXCEPT !.loading = TRUE] \in Previews
      /\ [preview EXCEPT !.loading = TRUE].loading = TRUE
  BY DEF PreviewFollows, Previews
<1>2. CASE v = "preview"
  BY <1>1, <1>2 DEF Pane!Previewed, PreviewFollows
<1>3. CASE v = "edit"
  BY <1>3 DEF Pane!Previewed, PreviewFollows
<1> QED BY <1>2, <1>3

-----------------------------------------------------------------------------
(* The text and its preview                                                  *)

LEMMA WriteTextStep ==
  ASSUME PaneNames, PaneInv, Pane!LoadTemplate \/ Pane!Edit \/ Pane!Empty
  PROVE  PaneInv'
<1> USE DEF PaneInv
<1>1. PICK t \in Pane!Texts :
        /\ Pane!Write(t) /\ written' \in Pane!Texts
        /\ UNCHANGED <<mounted, readOnly, view, poll, autosaves, kept, holder, changed>>
        /\ UNCHANGED <<sending, recorded, window>>
  <2>1. CASE Pane!LoadTemplate
    BY <2>1 DEF Pane!LoadTemplate, Pane!server, PaneNames, Pane!Texts
  <2>2. CASE Pane!Edit
    <3>1. written + 1 \in Pane!Texts
      BY <2>2 DEF Pane!Edit, PaneNames, Pane!Texts
    <3> QED BY <2>2, <3>1 DEF Pane!Edit, Pane!server
  <2>3. CASE Pane!Empty
    <3>1. 0 \in Pane!Texts
      BY DEF PaneNames, Pane!Texts
    <3> QED BY <2>3, <3>1 DEF Pane!Empty, Pane!server, ScreenTypes
  <2> QED BY <2>1, <2>2, <2>3
<1>2. /\ text' = t /\ dirty' = TRUE /\ raced' = (raced \/ autosaves # {})
      /\ Pane!Previewed(t, view)
  BY <1>1 DEF Pane!Write
<1>3. ScreenTypes' /\ SavingTypes'
  BY <1>1, <1>2 DEF ScreenTypes, SavingTypes
<1>4. PreviewFollows'
  BY <1>1, <1>2, PreviewedFollows DEF ScreenTypes
<1>5. DraftFollows'
  BY <1>1, <1>2 DEF DraftFollows, SavingTypes
<1> QED BY <1>1, <1>3, <1>4, <1>5, WindowsRest

LEMMA LookAtStep ==
  ASSUME PaneInv,
         Pane!ToggleView \/ \E a \in asked : Pane!AnswerPreview(a) \/ Pane!PreviewFails(a)
  PROVE  PaneInv'
<1> USE DEF PaneInv
<1>1. /\ UNCHANGED <<text, written, dirty, mounted, readOnly, poll, autosaves, kept, holder>>
      /\ UNCHANGED <<sending, recorded, window, raced, changed>>
  BY DEF Pane!ToggleView, Pane!AnswerPreview, Pane!PreviewFails, Pane!server
<1>2. SavingTypes' /\ DraftFollows' /\ WindowsFollow'
  BY <1>1, DraftRests, WindowsRest
<1>3. CASE Pane!ToggleView
  <2>1. view' \in {"preview", "edit"} /\ Pane!Previewed(text, view')
    BY <1>3 DEF Pane!ToggleView
  <2>2. PICK v \in {"preview", "edit"} : v = view' /\ Pane!Previewed(text, v)
    BY <2>1
  <2>3. text \in Pane!Texts /\ text' = text
    BY <1>1 DEF ScreenTypes
  <2>4. PreviewFollows'
    BY <2>2, <2>3, PreviewedFollows
  <2> QED BY <1>1, <1>2, <2>1, <2>4 DEF ScreenTypes
<1>4. ASSUME NEW a \in asked, Pane!AnswerPreview(a) PROVE PaneInv'
  <2>1. view' = view /\ asked' = asked \ {a}
        /\ preview' = [of |-> a, loading |-> FALSE, failed |-> FALSE]
    BY <1>4 DEF Pane!AnswerPreview
  <2>2. a = text /\ text \in Pane!Texts
    BY DEF PreviewFollows, ScreenTypes
  <2>3. PreviewFollows'
    BY <1>1, <2>1, <2>2 DEF PreviewFollows, Previews
  <2> QED BY <1>1, <1>2, <2>1, <2>3 DEF ScreenTypes
<1>5. ASSUME NEW a \in asked, Pane!PreviewFails(a) PROVE PaneInv'
  <2>1. view' = view /\ asked' = asked \ {a}
        /\ preview' = [preview EXCEPT !.loading = FALSE, !.failed = TRUE]
    BY <1>5 DEF Pane!PreviewFails
  <2>2. preview' \in Previews /\ preview'.failed = TRUE
    BY <2>1 DEF PreviewFollows, Previews
  <2>3. PreviewFollows'
    BY <1>1, <2>1, <2>2 DEF PreviewFollows
  <2> QED BY <1>1, <1>2, <2>1, <2>3 DEF ScreenTypes
<1> QED BY <1>3, <1>4, <1>5

\* Closing takes the preview along.
LEMMA ClosedFollows ==
  ASSUME PreviewFollows, ScreenTypes, NEW closes \in BOOLEAN, Pane!Closed(closes),
         UNCHANGED <<text, view, preview, written, dirty, readOnly>>
  PROVE  PreviewFollows' /\ ScreenTypes'
<1>1. /\ mounted' = (mounted /\ ~closes) /\ asked' \in {asked, {}} /\ poll' \in {poll, None}
  BY DEF Pane!Closed
<1> QED BY <1>1 DEF PreviewFollows, ScreenTypes

LEMMA CloseStep == ASSUME PaneInv, Pane!ClosePane PROVE PaneInv'
<1> USE DEF PaneInv
<1>1. /\ UNCHANGED <<text, written, dirty, readOnly, view, preview, autosaves, kept, holder>>
      /\ UNCHANGED <<sending, recorded, window, raced, changed>> /\ Pane!Closed(TRUE)
  BY DEF Pane!ClosePane, Pane!server
<1> QED BY <1>1, ClosedFollows, DraftRests, WindowsRest

-----------------------------------------------------------------------------
(* Drafts and the lock                                                       *)

ScreenRests == UNCHANGED <<text, written, dirty, mounted, readOnly, view, preview, asked, poll>>

LEMMA RestOfScreen ==
  ScreenTypes /\ PreviewFollows /\ ScreenRests => ScreenTypes' /\ PreviewFollows'
BY DEF ScreenTypes, PreviewFollows, ScreenRests

LEMMA SaveStep == ASSUME PaneNames, PaneInv, Pane!Leave \/ Pane!SaveDraft PROVE PaneInv'
<1> USE DEF PaneInv
<1>1. PICK b \in BOOLEAN : autosaves' = autosaves \cup {[of |-> text, auto |-> b, end |-> None]}
  BY DEF Pane!Leave, Pane!SaveDraft, Pane!Save
<1>2. /\ ScreenRests /\ UNCHANGED <<sending, recorded, window, kept, holder, raced, changed>>
  BY DEF Pane!Leave, Pane!SaveDraft, Pane!screen, Pane!server, ScreenRests
<1>3. [of |-> text, auto |-> b, end |-> None] \in Drafting
  BY DEF Drafting, ScreenTypes, Pane!Ends
<1>4. SavingTypes'
  BY <1>1, <1>2, <1>3 DEF SavingTypes
<1>5. DraftFollows'
  <2> SUFFICES ASSUME ~raced
               PROVE  /\ \A s \in autosaves' : s.of = text
                      /\ ~changed /\ (~dirty \/ \E s \in autosaves' : s.end = "done") => kept = text
    BY <1>2 DEF DraftFollows, ScreenRests
  <2>1. \A s \in autosaves' : s \in autosaves \/ (s.of = text /\ s.end # "done")
    BY <1>1 DEF PaneNames
  <2> QED BY <2>1 DEF DraftFollows
<1> QED BY <1>2, <1>4, <1>5, RestOfScreen, WindowsRest

LEMMA ServeSaveStep ==
  ASSUME PaneNames, PaneInv, NEW s \in autosaves, Pane!ServeSave(s)
  PROVE  PaneInv'
<1> USE DEF PaneInv
<1>1. /\ ScreenRests /\ UNCHANGED <<sending, recorded, window, raced>>
  BY DEF Pane!ServeSave, Pane!screen, ScreenRests
<1>2. PICK e \in {"refused", "done"} :
        /\ autosaves' = (autosaves \ {s}) \cup {[s EXCEPT !.end = e]}
        /\ e = "refused" => UNCHANGED <<kept, holder, changed>>
        /\ e = "done" => kept' = s.of /\ holder' = "me" /\ changed' = FALSE
  BY DEF Pane!ServeSave
<1>3. s \in Drafting
  BY DEF SavingTypes
<1> DEFINE t == [s EXCEPT !.end = e]
<1>4. t \in Drafting /\ t.of = s.of /\ t.end = e /\ s.of \in Pane!Texts
  BY <1>3 DEF Drafting, Pane!Ends
<1> HIDE DEF t
<1>5. SavingTypes'
  BY <1>1, <1>2, <1>4 DEF SavingTypes, t
<1>6. DraftFollows'
  <2> SUFFICES ASSUME ~raced
               PROVE  /\ \A u \in autosaves' : u.of = text
                      /\ ~changed' /\ (~dirty \/ \E u \in autosaves' : u.end = "done")
                           => kept' = text
    BY <1>1 DEF DraftFollows, ScreenRests
  <2>1. /\ \A u \in autosaves : u.of = text
        /\ ~changed /\ (~dirty \/ \E u \in autosaves : u.end = "done") => kept = text
    BY DEF DraftFollows
  <2>2. \A u \in autosaves' : u.of = text
    BY <1>2, <1>4, <2>1 DEF t
  <2>3. CASE e = "done"
    BY <1>2, <2>1, <2>2, <2>3
  <2>4. CASE e = "refused"
    <3>1. \A u \in autosaves' : u.end = "done" => u \in autosaves
      BY <1>2, <1>4, <2>4 DEF t
    <3> QED BY <1>2, <2>1, <2>2, <2>4, <3>1
  <2> QED BY <2>3, <2>4
<1> QED BY <1>1, <1>5, <1>6, RestOfScreen, WindowsRest

LEMMA SaveEndsStep ==
  ASSUME PaneInv, NEW s \in autosaves, Pane!SaveFails(s) \/ Pane!AnswerSave(s)
  PROVE  PaneInv'
<1> USE DEF PaneInv
<1>1. /\ UNCHANGED <<text, written, mounted, readOnly, view, preview, asked, poll>>
      /\ UNCHANGED <<sending, recorded, window, kept, holder, raced, changed>>
      /\ autosaves' = autosaves \ {s}
      /\ dirty' \in BOOLEAN /\ (~dirty' => ~dirty \/ s.end = "done")
  BY DEF Pane!SaveFails, Pane!AnswerSave, Pane!Saved, Pane!screen, Pane!server, ScreenTypes
<1>2. ScreenTypes' /\ SavingTypes'
  BY <1>1 DEF ScreenTypes, SavingTypes
<1>3. DraftFollows'
  BY <1>1 DEF DraftFollows
<1> QED BY <1>1, <1>2, <1>3, PreviewRests, WindowsRest

LEMMA DiscardStep == ASSUME PaneInv, Pane!Discard PROVE PaneInv'
<1> USE DEF PaneInv
<1>1. /\ UNCHANGED <<text, written, dirty, readOnly, view, preview, autosaves, raced>>
      /\ UNCHANGED <<sending, recorded, window>> /\ Pane!Closed(TRUE)
      /\ kept' = None /\ holder' = None /\ changed' = TRUE
  BY DEF Pane!Discard
<1>2. SavingTypes' /\ DraftFollows'
  BY <1>1 DEF SavingTypes, DraftFollows
<1> QED BY <1>1, <1>2, ClosedFollows, WindowsRest

LEMMA OthersStep == ASSUME PaneInv, Pane!Others PROVE PaneInv'
<1> USE DEF PaneInv
<1>1. /\ ScreenRests /\ UNCHANGED <<sending, recorded, window, autosaves, raced>>
      /\ kept' \in {kept, None} /\ holder' \in {None, "other"}
      /\ changed' = (changed \/ kept' # kept)
  BY DEF Pane!Others, Pane!screen, ScreenRests
<1>2. SavingTypes'
  BY <1>1 DEF SavingTypes
<1>3. DraftFollows'
  BY <1>1 DEF DraftFollows, ScreenRests
<1> QED BY <1>1, <1>2, <1>3, RestOfScreen, WindowsRest

LEMMA PollStep ==
  ASSUME PaneInv, Pane!Poll \/ Pane!ServePoll \/ Pane!AnswerPoll
  PROVE  PaneInv'
<1> USE DEF PaneInv
<1>1. /\ UNCHANGED <<text, written, dirty, mounted, view, preview, asked, autosaves, kept>>
      /\ UNCHANGED <<sending, recorded, window, holder, raced, changed>>
  BY DEF Pane!Poll, Pane!ServePoll, Pane!AnswerPoll, Pane!screen, Pane!server
<1>2. readOnly' \in BOOLEAN /\ poll' \in [locked : BOOLEAN \cup {None}] \cup {None}
  <2>1. CASE Pane!Poll
    BY <2>1 DEF Pane!Poll, Pane!screen, ScreenTypes
  <2>2. CASE Pane!ServePoll
    <3>1. PICK b \in BOOLEAN : b = (holder = "other")
      OBVIOUS
    <3>2. poll' = [locked |-> b] /\ readOnly' = readOnly
      BY <2>2, <3>1 DEF Pane!ServePoll, Pane!screen
    <3> QED BY <3>2 DEF ScreenTypes
  <2>3. CASE Pane!AnswerPoll
    BY <2>3 DEF Pane!AnswerPoll, ScreenTypes
  <2> QED BY <2>1, <2>2, <2>3
<1>3. ScreenTypes'
  BY <1>1, <1>2 DEF ScreenTypes
<1> QED BY <1>1, <1>3, PreviewRests, DraftRests, WindowsRest

-----------------------------------------------------------------------------
(* Windows                                                                   *)

LEMMA PressStep ==
  ASSUME PaneNames, PaneInv, NEW k \in Opening, NEW opens \in BOOLEAN, Pane!Press(k, opens)
  PROVE  PaneInv'
<1> USE DEF PaneInv
<1>1. /\ ScreenRests /\ UNCHANGED <<autosaves, kept, holder, recorded, raced, changed>>
      /\ sending' = [sending EXCEPT ![k] = [of |-> text, end |-> None]]
      /\ window' = [window EXCEPT ![k] = [is |-> IF opens THEN "loading" ELSE "none", of |-> None]]
  BY DEF Pane!Press, Pane!screen, Pane!server, ScreenRests
<1>2. [of |-> text, end |-> None] \in Sendings
      /\ [is |-> IF opens THEN "loading" ELSE "none", of |-> None] \in Windows
  BY DEF Sendings, Windows, ScreenTypes, Pane!Ends
<1>3. WindowsFollow'
  BY <1>1, <1>2 DEF WindowsFollow, PaneNames
<1>4. SavingTypes' /\ DraftFollows'
  BY <1>1, DraftRests DEF ScreenRests
<1> QED BY <1>1, <1>3, <1>4, RestOfScreen

LEMMA ServeJobStep ==
  ASSUME PaneNames, PaneInv, NEW k \in Opening, Pane!ServeJob(k) \/ Pane!JobFails(k)
  PROVE  PaneInv'
<1> USE DEF PaneInv
<1>1. /\ ScreenRests /\ UNCHANGED <<autosaves, window, raced>> /\ sending[k] # None
  BY DEF Pane!ServeJob, Pane!JobFails, Pane!screen, ScreenRests
<1>2. PICK e \in {"done", "nobody", "refused"} :
        /\ sending' = [sending EXCEPT ![k].end = e]
        /\ recorded' = IF e = "done" THEN [recorded EXCEPT ![k] = @ \cup {sending[k].of}]
                       ELSE recorded
        /\ \/ UNCHANGED <<kept, holder, changed>>
           \/ kept' = None /\ holder' = None /\ changed' = TRUE
  <2>1. CASE Pane!JobFails(k)
    BY <2>1 DEF Pane!JobFails, Pane!server
  <2>2. CASE Pane!ServeJob(k)
    <3>1. PICK e \in CASE k = "send" -> {IF holder = "other" THEN "refused" ELSE "done"}
                       [] k = "popup" -> {"done"}
                       [] k = "broadcast" -> {"done", "nobody"} :
            /\ sending' = [sending EXCEPT ![k].end = e]
            /\ recorded' = IF e = "done" THEN [recorded EXCEPT ![k] = @ \cup {sending[k].of}]
                           ELSE recorded
            /\ IF k = "send" /\ e = "done"
               THEN kept' = None /\ holder' = None /\ changed' = TRUE
               ELSE UNCHANGED <<kept, holder, changed>>
      BY <2>2 DEF Pane!ServeJob
    <3>2. e \in {"done", "nobody", "refused"}
      BY <3>1 DEF PaneNames
    <3> QED BY <3>1, <3>2
  <2> QED BY <2>1, <2>2
<1>3. sending[k] \in Sendings /\ sending[k].of \in Pane!Texts
  BY <1>1 DEF WindowsFollow, Sendings
<1>4. /\ sending' \in [Opening -> Sendings \cup {None}]
      /\ sending'[k] # None /\ sending'[k].of = sending[k].of /\ sending'[k].end = e
      /\ \A l \in Opening \ {k} : sending'[l] = sending[l]
  <2>1. [sending[k] EXCEPT !.end = e] \in Sendings
    BY <1>3 DEF Sendings, Pane!Ends
  <2> QED BY <1>2, <1>3, <2>1 DEF WindowsFollow, PaneNames, Sendings
<1>5. WindowsFollow'
  BY <1>1, <1>2, <1>3, <1>4 DEF WindowsFollow
<1>6. SavingTypes' /\ DraftFollows'
  BY <1>1, <1>2 DEF SavingTypes, DraftFollows, ScreenRests
<1> QED BY <1>1, <1>5, <1>6, RestOfScreen

LEMMA AnswerJobStep ==
  ASSUME PaneNames, PaneInv, NEW k \in Opening, Pane!AnswerJob(k)
  PROVE  PaneInv'
<1> USE DEF PaneInv
<1>1. /\ UNCHANGED <<text, written, dirty, readOnly, view, preview>>
      /\ UNCHANGED <<autosaves, kept, holder, recorded, raced, changed>>
      /\ sending[k] # None /\ sending' = [sending EXCEPT ![k] = None]
      /\ Pane!Settle(k)
  BY DEF Pane!AnswerJob, Pane!server
<1>2. PICK closes \in BOOLEAN : Pane!Closed(closes)
  BY DEF Pane!AnswerJob, Pane!Closed
<1>3. PICK w \in Windows :
        /\ window' = [window EXCEPT ![k] = w] /\ w.is # "loading"
        /\ w.is = "filled" => w.of \in recorded[k]
  <2>1. window[k] \in Windows /\ sending[k] \in Sendings
    BY <1>1 DEF WindowsFollow
  <2>2. CASE window[k].is # "loading"
    <3>1. window' = [window EXCEPT ![k] = window[k]]
      BY <1>1, <2>2 DEF Pane!Settle
    <3>2. window[k].is = "filled" => window[k].of \in recorded[k]
      BY DEF WindowsFollow
    <3> QED BY <2>1, <2>2, <3>1, <3>2
  <2>3. CASE window[k].is = "loading" /\ sending[k].end = "done"
    <3>1. [is |-> "filled", of |-> sending[k].of] \in Windows /\ sending[k].of \in recorded[k]
      BY <1>1, <2>1, <2>3 DEF Windows, Sendings, WindowsFollow
    <3> QED BY <1>1, <2>3, <3>1 DEF Pane!Settle
  <2>4. CASE window[k].is = "loading" /\ sending[k].end # "done"
    <3>1. [is |-> "closed", of |-> None] \in Windows
      BY DEF Windows
    <3> QED BY <1>1, <2>4, <3>1 DEF Pane!Settle
  <2> QED BY <2>2, <2>3, <2>4
<1>4. WindowsFollow'
  BY <1>1, <1>3 DEF WindowsFollow
<1>5. SavingTypes' /\ DraftFollows'
  BY <1>1, DraftRests
<1> QED BY <1>1, <1>2, <1>4, <1>5, ClosedFollows

LEMMA CloseWindowStep ==
  ASSUME PaneInv, NEW k \in Opening, Pane!CloseWindow(k)
  PROVE  PaneInv'
<1> USE DEF PaneInv
<1>1. /\ ScreenRests /\ UNCHANGED <<autosaves, kept, holder, recorded, sending, raced, changed>>
      /\ window' = [window EXCEPT ![k] = [is |-> "closed", of |-> None]]
  BY DEF Pane!CloseWindow, Pane!screen, Pane!server, ScreenRests
<1>2. [is |-> "closed", of |-> None] \in Windows
  BY DEF Windows
<1>3. WindowsFollow'
  BY <1>1, <1>2 DEF WindowsFollow
<1>4. SavingTypes' /\ DraftFollows'
  BY <1>1, DraftRests DEF ScreenRests
<1> QED BY <1>1, <1>3, <1>4, RestOfScreen

LEMMA PaneStep == ASSUME PaneNames PROVE PaneInv /\ [Pane!Next]_(Pane!paneVars) => PaneInv'
<1> SUFFICES ASSUME PaneInv, [Pane!Next]_(Pane!paneVars) PROVE PaneInv'
  OBVIOUS
<1>1. CASE UNCHANGED Pane!paneVars
  BY <1>1, RestOfScreen, DraftRests, WindowsRest DEF Pane!paneVars, PaneInv, ScreenRests
<1>2. CASE Pane!Next
  BY <1>2, WriteTextStep, LookAtStep, CloseStep, SaveStep, ServeSaveStep, SaveEndsStep, DiscardStep,
     OthersStep, PollStep, PressStep, ServeJobStep, AnswerJobStep, CloseWindowStep DEF Pane!Next
<1> QED BY <1>1, <1>2

LEMMA PaneIsTrue == PaneInv => Pane!ComposerKeepsItsWord /\ Pane!TypeOK
<1> SUFFICES ASSUME PaneInv PROVE Pane!ComposerKeepsItsWord /\ Pane!TypeOK
  OBVIOUS
<1> USE DEF PaneInv
<1>1. Pane!PreviewIsOfText
  BY DEF PreviewFollows, Pane!PreviewIsOfText
<1>2. Pane!CleanIsSaved
  BY DEF DraftFollows, Pane!CleanIsSaved
<1>3. Pane!WindowsFollowAnswers
  BY DEF WindowsFollow, Pane!WindowsFollowAnswers
<1>4. Pane!TypeOK
  BY DEF ScreenTypes, SavingTypes, PreviewFollows, WindowsFollow, Drafting, Sendings, Windows,
     Previews, Pane!TypeOK
<1> QED BY <1>1, <1>2, <1>3, <1>4 DEF Pane!ComposerKeepsItsWord

-----------------------------------------------------------------------------
(* The dialog that authors rules                                             *)

\* What the dialog shows, and what is asked of the server.
Wizards ==
  [session : (1 .. MaxSandboxes) \cup {None}, sheets : Author!SampleSheets \cup {<<>>},
   sheet : {"A", "B", None}, described : BOOLEAN, rule : Author!Rules \cup {None},
   preview : Author!Runs \cup {None}, lite : Author!Runs \cup {None, Author!Failed},
   step : {1, 2, 3, 5, 6}]
Enhancers ==
  [open : BOOLEAN, asking : BOOLEAN, offers : BOOLEAN,
   of : ((1 .. MaxSandboxes) \X {"A", "B"}) \cup {None}]
Sampling == [opens : 0 .. MaxOpens, fn : Functions]
Asked == Sampling \cup Picking \cup Making \cup Trying \cup {None}

DialogTypes ==
  /\ page \in [open : BOOLEAN, fn : Functions, opens : 0 .. MaxOpens]
  /\ wizard \in Wizards /\ enhancer \in Enhancers
  /\ sandbox \in Seq([fn : Functions, sheet : {"A", "B", None}]) /\ Len(sandbox) <= MaxSandboxes
  /\ minted \in 0 .. MaxRules /\ previewed \subseteq Author!Runs /\ unsure \subseteq Author!Rules
  /\ crossed \in BOOLEAN

AskedTypes ==
  /\ pending \in [Author!Kinds -> Asked]
  /\ pending["upload"] \in Sampling \cup {None} /\ pending["sheet"] \in Picking \cup {None}
  /\ pending["generate"] \in Making \cup {None}
  /\ \A k \in {"preview", "lite", "save"} : pending[k] \in Trying \cup {None}

\* Sessions, rules and openings are numbered as they come.
Numbered ==
  /\ wizard.session # None => wizard.session <= Len(sandbox) /\ wizard.sheet # None
  /\ wizard.rule # None => wizard.rule.n <= minted
  /\ \A k \in {"sheet", "generate"} : pending[k] # None =>
       pending[k].session <= Len(sandbox) /\ pending[k].opens <= page.opens
  /\ \A k \in {"preview", "lite", "save"} : pending[k] # None =>
       pending[k].session <= Len(sandbox) /\ pending[k].rule.n <= minted

\* One session at most in an opening: what was asked in it is asked of that session,
\* at the step that asks for it.
OneSession ==
  /\ wizard.step = 1 \/ pending["upload"] # None => wizard.session = None
  /\ \A k \in {"sheet", "generate"} :
       pending[k] # None /\ page.open /\ pending[k].opens = page.opens =>
         wizard.session = pending[k].session
  /\ pending["sheet"] # None /\ pending["sheet"].session = wizard.session =>
       pending["sheet"].opens = page.opens
  /\ page.open /\ ~crossed =>
       /\ pending["sheet"] # None /\ pending["sheet"].opens = page.opens => wizard.step = 2
       /\ pending["generate"] # None /\ pending["generate"].opens = page.opens => wizard.step >= 3
       /\ wizard.session = None \/ wizard.step = 2 => wizard.rule = None

\* Results are of the rule on screen, or that rule is under suspicion.
ResultsFollow ==
  /\ wizard.preview # None /\ wizard.rule # None =>
       <<wizard.session, wizard.rule>> \in previewed \/ wizard.rule \in unsure
  /\ pending["lite"] # None /\ pending["lite"].session = wizard.session
       /\ pending["lite"].rule = wizard.rule =>
       wizard.preview = <<wizard.session, wizard.rule>>
  /\ Author!SavedAsPreviewed

PopoverGoes == ~(page.open /\ wizard.step = 3) => enhancer = Author!Fresh

AuthorInv ==
  /\ DialogTypes /\ AskedTypes /\ Numbered /\ OneSession /\ ResultsFollow /\ PopoverGoes
  /\ Author!StepsHaveTheirPart /\ Author!SheetIsTheServers

LEMMA AuthorStarts == AuthorNames /\ Author!Init => AuthorInv
<1> SUFFICES ASSUME AuthorNames, Author!Init PROVE AuthorInv
  OBVIOUS
<1>1. page.opens = 0 /\ page.fn \in Functions /\ ~page.open /\ page \in [open : BOOLEAN, fn : Functions, opens : 0 .. MaxOpens]
  <2>1. PICK x \in [open : {FALSE}, fn : Functions, opens : {0}] : x = page
    BY DEF Author!Init
  <2>2. x.opens = 0 /\ x.fn \in Functions /\ x.open = FALSE /\ x \in [open : BOOLEAN, fn : Functions, opens : {0}]
    OBVIOUS
  <2>3. 0 \in 0 .. MaxOpens
    BY DEF AuthorNames
  <2> QED BY <2>1, <2>2, <2>3
<1>2. wizard \in Wizards /\ wizard = Author!Blank /\ enhancer \in Enhancers /\ enhancer = Author!Fresh
  BY DEF Author!Init, Author!Blank, Author!Fresh, Wizards, Enhancers
<1>3. pending = [k \in Author!Kinds |-> None] /\ sandbox = <<>> /\ minted = 0 /\ previewed = {} /\ unsure = {} /\ crossed = FALSE
  BY DEF Author!Init
<1>4. wizard.session = None /\ wizard.rule = None /\ wizard.preview = None /\ wizard.step = 1
  BY <1>2 DEF Author!Blank
<1>5. DialogTypes
  <2>1. sandbox \in Seq([fn : Functions, sheet : {"A", "B", None}]) /\ Len(sandbox) = 0
    BY <1>3
  <2>2. minted \in 0 .. MaxRules /\ 0 <= MaxSandboxes
    BY <1>3 DEF AuthorNames
  <2> QED BY <1>1, <1>2, <1>3, <2>1, <2>2 DEF DialogTypes
<1>6. AskedTypes /\ \A k \in Author!Kinds : pending[k] = None
  BY <1>3 DEF AskedTypes, Author!Kinds, Asked
<1> QED
  BY <1>1, <1>2, <1>3, <1>4, <1>5, <1>6 DEF AuthorInv, Numbered, OneSession, ResultsFollow,
     PopoverGoes,
     Author!SavedAsPreviewed, Author!StepsHaveTheirPart, Author!SheetIsTheServers, Author!Kinds

\* A request is sent, or has come to an end.
LEMMA OneRequestMoves ==
  ASSUME AskedTypes, NEW k \in Author!Kinds, NEW c \in Asked, pending' = [pending EXCEPT ![k] = c]
  PROVE  /\ pending' \in [Author!Kinds -> Asked]
         /\ \A j \in Author!Kinds : pending'[j] = IF j = k THEN c ELSE pending[j]
BY DEF AskedTypes

LEMMA AskedRecords ==
  ASSUME AuthorNames, AskedTypes
  PROVE  /\ \A k \in {"sheet", "generate"} : pending[k] # None =>
              /\ pending[k].session \in 1 .. MaxSandboxes /\ pending[k].session # None
              /\ pending[k].opens \in 0 .. MaxOpens
         /\ pending["sheet"] # None => pending["sheet"].sheet \in {"A", "B"}
         /\ \A k \in {"preview", "lite", "save"} : pending[k] # None =>
              /\ pending[k].session \in 1 .. MaxSandboxes /\ pending[k].session # None
              /\ pending[k].rule \in Author!Rules /\ pending[k].rule # None
              /\ pending[k].rule.n \in 1 .. MaxRules
BY DEF AuthorNames, AskedTypes, Picking, Making, Trying, Author!Rules

LEMMA SixKinds ==
  /\ Author!Kinds = {"upload", "sheet", "generate", "preview", "lite", "save"}
  /\ None \in Asked /\ Sampling \subseteq Asked /\ Picking \subseteq Asked /\ Making \subseteq Asked
  /\ Trying \subseteq Asked
BY DEF Author!Kinds, Asked

LEMMA FreshIsTyped == Author!Fresh \in Enhancers /\ Author!Fresh.of = None
BY DEF Author!Fresh, Enhancers

\* A sheet is taken for a session, and the rest of the sessions stay.
LEMMA SheetIsTaken ==
  ASSUME DialogTypes, NEW s \in 1 .. Len(sandbox), NEW x \in {"A", "B"},
         sandbox' = [sandbox EXCEPT ![s].sheet = x]
  PROVE  /\ sandbox' \in Seq([fn : Functions, sheet : {"A", "B", None}]) /\ Len(sandbox') = Len(sandbox)
         /\ \A i \in 1 .. Len(sandbox) : sandbox'[i].sheet = IF i = s THEN x ELSE sandbox[i].sheet
<1> DEFINE S == [fn : Functions, sheet : {"A", "B", None}]
<1>0. sandbox \in Seq(S)
  BY DEF DialogTypes
<1>1. sandbox \in Seq(S) /\ sandbox[s] \in S
  <2> HIDE DEF S
  <2> QED BY <1>0
<1>2. PICK y \in S : y = [sandbox[s] EXCEPT !.sheet = x] /\ y.sheet = x
  BY <1>1
<1>3. sandbox' = [sandbox EXCEPT ![s] = y]
  BY <1>1, <1>2
<1> HIDE DEF S
<1>4. sandbox' \in Seq(S) /\ Len(sandbox') = Len(sandbox)
      /\ \A i \in 1 .. Len(sandbox) : sandbox'[i] = IF i = s THEN y ELSE sandbox[i]
  BY <1>1, <1>3
<1> QED
  BY <1>2, <1>4 DEF S

\* A request fails.
LEMMA FailsStep ==
  ASSUME AuthorNames, AuthorInv, NEW kind \in Author!Kinds, Author!Fails(kind)
  PROVE  AuthorInv'
<1>1. /\ \A j \in Author!Kinds : pending'[j] = IF j = kind THEN None ELSE pending[j]
      /\ pending' \in [Author!Kinds -> Asked]
  BY SixKinds, OneRequestMoves DEF AuthorInv, Author!Fails, Author!Settled
<1>2. UNCHANGED <<page, wizard, enhancer, sandbox, minted, previewed, unsure, crossed>>
  BY DEF Author!Fails
<1>3. kind # "lite" /\ Author!Kinds = {"upload", "sheet", "generate", "preview", "lite", "save"}
  BY SixKinds DEF Author!Fails
<1>4. AskedTypes /\ DialogTypes
  BY DEF AuthorInv
<1>5. DialogTypes'
  BY <1>1, <1>2, <1>3, <1>4 DEF AuthorInv, DialogTypes, AuthorNames
<1>6. AskedTypes'
  BY <1>1, <1>2, <1>3, <1>4 DEF AuthorInv, AskedTypes
<1>7. Numbered'
  BY AskedRecords, <1>1, <1>2, <1>3, <1>4 DEF AuthorInv, DialogTypes, Numbered, AuthorNames
<1>8. OneSession'
  BY AskedRecords, <1>1, <1>2, <1>3, <1>4 DEF AuthorInv, DialogTypes, Numbered, OneSession,
     AuthorNames
<1>9. ResultsFollow'
  BY AskedRecords, <1>1, <1>2, <1>3, <1>4 DEF AuthorInv, DialogTypes, Numbered, ResultsFollow,
     Author!SavedAsPreviewed, AuthorNames
<1>10. PopoverGoes'
  BY AskedRecords, <1>1, <1>2, <1>3, <1>4 DEF AuthorInv, DialogTypes, PopoverGoes
<1>11. Author!StepsHaveTheirPart'
  BY AskedRecords, <1>1, <1>2, <1>3, <1>4 DEF AuthorInv, DialogTypes, Numbered, OneSession,
     ResultsFollow, Author!StepsHaveTheirPart, AuthorNames
<1>12. Author!SheetIsTheServers'
  BY AskedRecords, <1>1, <1>2, <1>3, <1>4 DEF AuthorInv, DialogTypes, Numbered, OneSession,
     PopoverGoes, Author!StepsHaveTheirPart, Author!SheetIsTheServers, Author!Shown,
     Author!Fresh, AuthorNames
<1> QED BY <1>5, <1>6, <1>7, <1>8, <1>9, <1>10, <1>11, <1>12 DEF AuthorInv

\* The page, and the dialog opened and closed.
LEMMA BrowseStep ==
  ASSUME AuthorNames, AuthorInv, NEW f \in Functions, Author!Browse(f)
  PROVE  AuthorInv'
<1>1. /\ page' \in [open : BOOLEAN, fn : Functions, opens : 0 .. MaxOpens]
      /\ page'.open = page.open /\ page'.opens = page.opens
  BY DEF AuthorInv, DialogTypes, Author!Browse
<1>2. UNCHANGED <<wizard, pending, enhancer, sandbox, minted, previewed, unsure, crossed>>
  BY DEF Author!Browse
<1>3. Author!Kinds = {"upload", "sheet", "generate", "preview", "lite", "save"}
  BY SixKinds
<1>4. AskedTypes /\ DialogTypes
  BY DEF AuthorInv
<1>5. DialogTypes'
  BY <1>1, <1>2, <1>3, <1>4 DEF AuthorInv, DialogTypes, AuthorNames
<1>6. AskedTypes'
  BY <1>1, <1>2, <1>3, <1>4 DEF AuthorInv, AskedTypes
<1>7. Numbered'
  BY AskedRecords, <1>1, <1>2, <1>3, <1>4 DEF AuthorInv, DialogTypes, Numbered, AuthorNames
<1>8. OneSession'
  BY AskedRecords, <1>1, <1>2, <1>3, <1>4 DEF AuthorInv, DialogTypes, Numbered, OneSession,
     AuthorNames
<1>9. ResultsFollow'
  BY AskedRecords, <1>1, <1>2, <1>3, <1>4 DEF AuthorInv, DialogTypes, Numbered, ResultsFollow,
     Author!SavedAsPreviewed, AuthorNames
<1>10. PopoverGoes'
  BY AskedRecords, <1>1, <1>2, <1>3, <1>4 DEF AuthorInv, DialogTypes, PopoverGoes
<1>11. Author!StepsHaveTheirPart'
  BY AskedRecords, <1>1, <1>2, <1>3, <1>4 DEF AuthorInv, DialogTypes, Numbered, OneSession,
     ResultsFollow, Author!StepsHaveTheirPart, AuthorNames
<1>12. Author!SheetIsTheServers'
  BY AskedRecords, <1>1, <1>2, <1>3, <1>4 DEF AuthorInv, DialogTypes, Numbered, OneSession,
     PopoverGoes, Author!StepsHaveTheirPart, Author!SheetIsTheServers, Author!Shown,
     Author!Fresh, AuthorNames
<1> QED BY <1>5, <1>6, <1>7, <1>8, <1>9, <1>10, <1>11, <1>12 DEF AuthorInv

LEMMA OpenStep ==
  ASSUME AuthorNames, AuthorInv, Author!Open
  PROVE  AuthorInv'
<1>1. /\ page' \in [open : BOOLEAN, fn : Functions, opens : 0 .. MaxOpens]
      /\ page'.open /\ page'.opens = page.opens + 1 /\ page.opens \in Nat
  <2>1. page.opens + 1 \in 0 .. MaxOpens /\ page.opens \in Nat
    BY DEF AuthorInv, DialogTypes, Author!Open, AuthorNames
  <2>2. page' = [[page EXCEPT !.open = TRUE] EXCEPT !.opens = page.opens + 1]
    BY DEF AuthorInv, DialogTypes, Author!Open
  <2> QED BY <2>1, <2>2 DEF AuthorInv, DialogTypes
<1>2. wizard' \in Wizards /\ wizard'.session = None /\ wizard'.rule = None /\ wizard'.preview = None /\ wizard'.step = 1
  BY DEF Author!Open, Author!Blank, Wizards
<1>3. enhancer' \in Enhancers /\ enhancer' = Author!Fresh /\ crossed' = FALSE
  BY DEF Author!Open, Author!Fresh, Enhancers
<1>4. UNCHANGED <<pending, sandbox, minted, previewed, unsure>>
  BY DEF Author!Open
<1>5. Author!Kinds = {"upload", "sheet", "generate", "preview", "lite", "save"}
  BY SixKinds
<1>6. AskedTypes /\ DialogTypes
  BY DEF AuthorInv
<1>7. DialogTypes'
  BY <1>1, <1>2, <1>3, <1>4, <1>5, <1>6 DEF AuthorInv, DialogTypes, AuthorNames
<1>8. AskedTypes'
  BY <1>1, <1>2, <1>3, <1>4, <1>5, <1>6 DEF AuthorInv, AskedTypes
<1>9. Numbered'
  BY AskedRecords, <1>1, <1>2, <1>3, <1>4, <1>5, <1>6 DEF AuthorInv, DialogTypes, Numbered,
     AuthorNames
<1>10. OneSession'
  BY AskedRecords, <1>1, <1>2, <1>3, <1>4, <1>5, <1>6 DEF AuthorInv, DialogTypes, Numbered,
     OneSession, AuthorNames
<1>11. ResultsFollow'
  BY AskedRecords, <1>1, <1>2, <1>3, <1>4, <1>5, <1>6 DEF AuthorInv, DialogTypes, Numbered,
     ResultsFollow, Author!SavedAsPreviewed, AuthorNames
<1>12. PopoverGoes'
  BY AskedRecords, <1>1, <1>2, <1>3, <1>4, <1>5, <1>6 DEF AuthorInv, DialogTypes, PopoverGoes
<1>13. Author!StepsHaveTheirPart'
  BY AskedRecords, <1>1, <1>2, <1>3, <1>4, <1>5, <1>6 DEF AuthorInv, DialogTypes, Numbered,
     OneSession, ResultsFollow, Author!StepsHaveTheirPart, AuthorNames
<1>14. Author!SheetIsTheServers'
  BY AskedRecords, <1>1, <1>2, <1>3, <1>4, <1>5, <1>6 DEF AuthorInv, DialogTypes, Numbered,
     OneSession, PopoverGoes, Author!StepsHaveTheirPart, Author!SheetIsTheServers, Author!Shown,
     Author!Fresh, AuthorNames
<1> QED BY <1>7, <1>8, <1>9, <1>10, <1>11, <1>12, <1>13, <1>14 DEF AuthorInv

LEMMA CloseDialogStep ==
  ASSUME AuthorNames, AuthorInv, Author!Close
  PROVE  AuthorInv'
<1>1. /\ page' \in [open : BOOLEAN, fn : Functions, opens : 0 .. MaxOpens]
      /\ page'.open = FALSE /\ page'.opens = page.opens
  BY DEF AuthorInv, DialogTypes, Author!Close, Author!SaveAnswer, Author!Shut
<1>2. wizard' \in Wizards /\ wizard'.session = None /\ wizard'.rule = None /\ wizard'.preview = None /\ wizard'.step = 1
  BY DEF Author!Close, Author!SaveAnswer, Author!Shut, Author!Blank, Wizards
<1>3. enhancer' \in Enhancers /\ enhancer' = Author!Fresh
  BY DEF Author!Close, Author!SaveAnswer, Author!Shut, Author!Fresh, Enhancers
<1>4. UNCHANGED <<pending, sandbox, minted, previewed, unsure, crossed>>
  BY DEF Author!Close
<1>5. Author!Kinds = {"upload", "sheet", "generate", "preview", "lite", "save"}
  BY SixKinds
<1>6. AskedTypes /\ DialogTypes
  BY DEF AuthorInv
<1>7. DialogTypes'
  BY <1>1, <1>2, <1>3, <1>4, <1>5, <1>6 DEF AuthorInv, DialogTypes, AuthorNames
<1>8. AskedTypes'
  BY <1>1, <1>2, <1>3, <1>4, <1>5, <1>6 DEF AuthorInv, AskedTypes
<1>9. Numbered'
  BY AskedRecords, <1>1, <1>2, <1>3, <1>4, <1>5, <1>6 DEF AuthorInv, DialogTypes, Numbered,
     AuthorNames
<1>10. OneSession'
  BY AskedRecords, <1>1, <1>2, <1>3, <1>4, <1>5, <1>6 DEF AuthorInv, DialogTypes, Numbered,
     OneSession, AuthorNames
<1>11. ResultsFollow'
  BY AskedRecords, <1>1, <1>2, <1>3, <1>4, <1>5, <1>6 DEF AuthorInv, DialogTypes, Numbered,
     ResultsFollow, Author!SavedAsPreviewed, AuthorNames
<1>12. PopoverGoes'
  BY AskedRecords, <1>1, <1>2, <1>3, <1>4, <1>5, <1>6 DEF AuthorInv, DialogTypes, PopoverGoes
<1>13. Author!StepsHaveTheirPart'
  BY AskedRecords, <1>1, <1>2, <1>3, <1>4, <1>5, <1>6 DEF AuthorInv, DialogTypes, Numbered,
     OneSession, ResultsFollow, Author!StepsHaveTheirPart, AuthorNames
<1>14. Author!SheetIsTheServers'
  BY AskedRecords, <1>1, <1>2, <1>3, <1>4, <1>5, <1>6 DEF AuthorInv, DialogTypes, Numbered,
     OneSession, PopoverGoes, Author!StepsHaveTheirPart, Author!SheetIsTheServers, Author!Shown,
     Author!Fresh, AuthorNames
<1> QED BY <1>7, <1>8, <1>9, <1>10, <1>11, <1>12, <1>13, <1>14 DEF AuthorInv

LEMMA SaveAnswerStep ==
  ASSUME AuthorNames, AuthorInv, Author!SaveAnswer
  PROVE  AuthorInv'
<1>1. /\ page' \in [open : BOOLEAN, fn : Functions, opens : 0 .. MaxOpens]
      /\ page'.open = FALSE /\ page'.opens = page.opens
  BY DEF AuthorInv, DialogTypes, Author!Close, Author!SaveAnswer, Author!Shut
<1>2. wizard' \in Wizards /\ wizard'.session = None /\ wizard'.rule = None /\ wizard'.preview = None /\ wizard'.step = 1
  BY DEF Author!Close, Author!SaveAnswer, Author!Shut, Author!Blank, Wizards
<1>3. enhancer' \in Enhancers /\ enhancer' = Author!Fresh
  BY DEF Author!Close, Author!SaveAnswer, Author!Shut, Author!Fresh, Enhancers
<1>4. /\ \A j \in Author!Kinds : pending'[j] = IF j = "save" THEN None ELSE pending[j]
      /\ pending' \in [Author!Kinds -> Asked]
  BY SixKinds, OneRequestMoves DEF AuthorInv, Author!SaveAnswer, Author!Settled
<1>5. UNCHANGED <<sandbox, minted, previewed, unsure, crossed>>
  BY DEF Author!SaveAnswer
<1>6. Author!Kinds = {"upload", "sheet", "generate", "preview", "lite", "save"}
  BY SixKinds
<1>7. AskedTypes /\ DialogTypes
  BY DEF AuthorInv
<1>8. DialogTypes'
  BY <1>1, <1>2, <1>3, <1>4, <1>5, <1>6, <1>7 DEF AuthorInv, DialogTypes, AuthorNames
<1>9. AskedTypes'
  BY <1>1, <1>2, <1>3, <1>4, <1>5, <1>6, <1>7 DEF AuthorInv, AskedTypes
<1>10. Numbered'
  BY AskedRecords, <1>1, <1>2, <1>3, <1>4, <1>5, <1>6, <1>7 DEF AuthorInv, DialogTypes, Numbered,
     AuthorNames
<1>11. OneSession'
  BY AskedRecords, <1>1, <1>2, <1>3, <1>4, <1>5, <1>6, <1>7 DEF AuthorInv, DialogTypes, Numbered,
     OneSession, AuthorNames
<1>12. ResultsFollow'
  BY AskedRecords, <1>1, <1>2, <1>3, <1>4, <1>5, <1>6, <1>7 DEF AuthorInv, DialogTypes, Numbered,
     ResultsFollow, Author!SavedAsPreviewed, AuthorNames
<1>13. PopoverGoes'
  BY AskedRecords, <1>1, <1>2, <1>3, <1>4, <1>5, <1>6, <1>7 DEF AuthorInv, DialogTypes, PopoverGoes
<1>14. Author!StepsHaveTheirPart'
  BY AskedRecords, <1>1, <1>2, <1>3, <1>4, <1>5, <1>6, <1>7 DEF AuthorInv, DialogTypes, Numbered,
     OneSession, ResultsFollow, Author!StepsHaveTheirPart, AuthorNames
<1>15. Author!SheetIsTheServers'
  BY AskedRecords, <1>1, <1>2, <1>3, <1>4, <1>5, <1>6, <1>7 DEF AuthorInv, DialogTypes, Numbered,
     OneSession, PopoverGoes, Author!StepsHaveTheirPart, Author!SheetIsTheServers, Author!Shown,
     Author!Fresh, AuthorNames
<1> QED BY <1>8, <1>9, <1>10, <1>11, <1>12, <1>13, <1>14, <1>15 DEF AuthorInv

\* Requests are sent.
LEMMA SampleStep ==
  ASSUME AuthorNames, AuthorInv, Author!Upload
  PROVE  AuthorInv'
<1>1. PICK c : c = [opens |-> page.opens, fn |-> page.fn]
  OBVIOUS
<1>2. c \in Sampling /\ TRUE /\ pending' = [pending EXCEPT !["upload"] = c]
  <2>1. pending' = [pending EXCEPT !["upload"] = c] /\ page.open /\ wizard.step = 1
    BY <1>1 DEF Author!Upload, Author!Send, Author!At, Author!OnScreen, Author!Reviewing,
       Author!Previewing
  <2> QED BY <1>1, <2>1 DEF AuthorInv, DialogTypes, Wizards, Sampling
<1>3. /\ \A j \in Author!Kinds : pending'[j] = IF j = "upload" THEN c ELSE pending[j]
      /\ pending' \in [Author!Kinds -> Asked]
  BY <1>2, SixKinds, OneRequestMoves DEF AuthorInv
<1>4. page.open /\ wizard.step = 1 /\ UNCHANGED <<page, wizard, enhancer, sandbox, minted, previewed, unsure, crossed>>
  BY DEF Author!Upload, Author!At, Author!Send, Author!Reviewing, Author!Previewing
<1>5. Author!Kinds = {"upload", "sheet", "generate", "preview", "lite", "save"}
  BY SixKinds
<1>6. AskedTypes /\ DialogTypes
  BY DEF AuthorInv
<1>7. DialogTypes'
  BY <1>1, <1>2, <1>3, <1>4, <1>5, <1>6 DEF AuthorInv, DialogTypes, AuthorNames
<1>8. AskedTypes'
  BY <1>1, <1>2, <1>3, <1>4, <1>5, <1>6 DEF AuthorInv, AskedTypes
<1>9. Numbered'
  BY AskedRecords, <1>1, <1>2, <1>3, <1>4, <1>5, <1>6 DEF AuthorInv, DialogTypes, Numbered,
     AuthorNames
<1>10. OneSession'
  BY AskedRecords, <1>1, <1>2, <1>3, <1>4, <1>5, <1>6 DEF AuthorInv, DialogTypes, Numbered,
     OneSession, AuthorNames
<1>11. ResultsFollow'
  BY AskedRecords, <1>1, <1>2, <1>3, <1>4, <1>5, <1>6 DEF AuthorInv, DialogTypes, Numbered,
     ResultsFollow, Author!SavedAsPreviewed, AuthorNames
<1>12. PopoverGoes'
  BY AskedRecords, <1>1, <1>2, <1>3, <1>4, <1>5, <1>6 DEF AuthorInv, DialogTypes, PopoverGoes
<1>13. Author!StepsHaveTheirPart'
  BY AskedRecords, <1>1, <1>2, <1>3, <1>4, <1>5, <1>6 DEF AuthorInv, DialogTypes, Numbered,
     OneSession, ResultsFollow, Author!StepsHaveTheirPart, AuthorNames
<1>14. Author!SheetIsTheServers'
  BY AskedRecords, <1>1, <1>2, <1>3, <1>4, <1>5, <1>6 DEF AuthorInv, DialogTypes, Numbered,
     OneSession, PopoverGoes, Author!StepsHaveTheirPart, Author!SheetIsTheServers, Author!Shown,
     Author!Fresh, AuthorNames
<1> QED BY <1>7, <1>8, <1>9, <1>10, <1>11, <1>12, <1>13, <1>14 DEF AuthorInv

LEMMA PickSheetStep ==
  ASSUME AuthorNames, AuthorInv, NEW s \in {"A", "B"}, Author!PickSheet(s)
  PROVE  AuthorInv'
<1>1. PICK c : c = [opens |-> page.opens, session |-> wizard.session, sheet |-> s]
  OBVIOUS
<1>2. c \in Picking /\ c.opens = page.opens /\ c.session = wizard.session /\ pending' = [pending EXCEPT !["sheet"] = c]
  <2>1. pending' = [pending EXCEPT !["sheet"] = c] /\ page.open /\ wizard.step = 2 /\ wizard.session # None
    BY <1>1 DEF Author!PickSheet, Author!Send, Author!At, Author!OnScreen, Author!Reviewing,
       Author!Previewing
  <2> QED BY <1>1, <2>1 DEF AuthorInv, DialogTypes, Wizards, Picking
<1>3. /\ \A j \in Author!Kinds : pending'[j] = IF j = "sheet" THEN c ELSE pending[j]
      /\ pending' \in [Author!Kinds -> Asked]
  BY <1>2, SixKinds, OneRequestMoves DEF AuthorInv
<1>4. page.open /\ wizard.step = 2 /\ wizard.session # None /\ UNCHANGED <<page, wizard, enhancer, sandbox, minted, previewed, unsure, crossed>>
  BY DEF Author!PickSheet, Author!At, Author!Send, Author!Reviewing, Author!Previewing
<1>5. Author!Kinds = {"upload", "sheet", "generate", "preview", "lite", "save"}
  BY SixKinds
<1>6. AskedTypes /\ DialogTypes
  BY DEF AuthorInv
<1>7. DialogTypes'
  BY <1>1, <1>2, <1>3, <1>4, <1>5, <1>6 DEF AuthorInv, DialogTypes, AuthorNames
<1>8. AskedTypes'
  BY <1>1, <1>2, <1>3, <1>4, <1>5, <1>6 DEF AuthorInv, AskedTypes
<1>9. Numbered'
  BY AskedRecords, <1>1, <1>2, <1>3, <1>4, <1>5, <1>6 DEF AuthorInv, DialogTypes, Numbered,
     AuthorNames
<1>10. OneSession'
  BY AskedRecords, <1>1, <1>2, <1>3, <1>4, <1>5, <1>6 DEF AuthorInv, DialogTypes, Numbered,
     OneSession, AuthorNames
<1>11. ResultsFollow'
  BY AskedRecords, <1>1, <1>2, <1>3, <1>4, <1>5, <1>6 DEF AuthorInv, DialogTypes, Numbered,
     ResultsFollow, Author!SavedAsPreviewed, AuthorNames
<1>12. PopoverGoes'
  BY AskedRecords, <1>1, <1>2, <1>3, <1>4, <1>5, <1>6 DEF AuthorInv, DialogTypes, PopoverGoes
<1>13. Author!StepsHaveTheirPart'
  BY AskedRecords, <1>1, <1>2, <1>3, <1>4, <1>5, <1>6 DEF AuthorInv, DialogTypes, Numbered,
     OneSession, ResultsFollow, Author!StepsHaveTheirPart, AuthorNames
<1>14. Author!SheetIsTheServers'
  BY AskedRecords, <1>1, <1>2, <1>3, <1>4, <1>5, <1>6 DEF AuthorInv, DialogTypes, Numbered,
     OneSession, PopoverGoes, Author!StepsHaveTheirPart, Author!SheetIsTheServers, Author!Shown,
     Author!Fresh, AuthorNames
<1> QED BY <1>7, <1>8, <1>9, <1>10, <1>11, <1>12, <1>13, <1>14 DEF AuthorInv

LEMMA GenerateStep ==
  ASSUME AuthorNames, AuthorInv, Author!Generate
  PROVE  AuthorInv'
<1>1. PICK c : c = [opens |-> page.opens, session |-> wizard.session]
  OBVIOUS
<1>2. c \in Making /\ c.opens = page.opens /\ c.session = wizard.session /\ pending' = [pending EXCEPT !["generate"] = c]
  <2>1. pending' = [pending EXCEPT !["generate"] = c] /\ page.open /\ wizard.step = 3 /\ wizard.session # None
    BY <1>1 DEF Author!Generate, Author!Send, Author!At, Author!OnScreen, Author!Reviewing,
       Author!Previewing
  <2> QED BY <1>1, <2>1 DEF AuthorInv, DialogTypes, Wizards, Making
<1>3. /\ \A j \in Author!Kinds : pending'[j] = IF j = "generate" THEN c ELSE pending[j]
      /\ pending' \in [Author!Kinds -> Asked]
  BY <1>2, SixKinds, OneRequestMoves DEF AuthorInv
<1>4. page.open /\ wizard.step = 3 /\ wizard.session # None /\ UNCHANGED <<page, wizard, enhancer, sandbox, minted, previewed, unsure, crossed>>
  BY DEF Author!Generate, Author!At, Author!Send, Author!Reviewing, Author!Previewing
<1>5. Author!Kinds = {"upload", "sheet", "generate", "preview", "lite", "save"}
  BY SixKinds
<1>6. AskedTypes /\ DialogTypes
  BY DEF AuthorInv
<1>7. DialogTypes'
  BY <1>1, <1>2, <1>3, <1>4, <1>5, <1>6 DEF AuthorInv, DialogTypes, AuthorNames
<1>8. AskedTypes'
  BY <1>1, <1>2, <1>3, <1>4, <1>5, <1>6 DEF AuthorInv, AskedTypes
<1>9. Numbered'
  BY AskedRecords, <1>1, <1>2, <1>3, <1>4, <1>5, <1>6 DEF AuthorInv, DialogTypes, Numbered,
     AuthorNames
<1>10. OneSession'
  BY AskedRecords, <1>1, <1>2, <1>3, <1>4, <1>5, <1>6 DEF AuthorInv, DialogTypes, Numbered,
     OneSession, AuthorNames
<1>11. ResultsFollow'
  BY AskedRecords, <1>1, <1>2, <1>3, <1>4, <1>5, <1>6 DEF AuthorInv, DialogTypes, Numbered,
     ResultsFollow, Author!SavedAsPreviewed, AuthorNames
<1>12. PopoverGoes'
  BY AskedRecords, <1>1, <1>2, <1>3, <1>4, <1>5, <1>6 DEF AuthorInv, DialogTypes, PopoverGoes
<1>13. Author!StepsHaveTheirPart'
  BY AskedRecords, <1>1, <1>2, <1>3, <1>4, <1>5, <1>6 DEF AuthorInv, DialogTypes, Numbered,
     OneSession, ResultsFollow, Author!StepsHaveTheirPart, AuthorNames
<1>14. Author!SheetIsTheServers'
  BY AskedRecords, <1>1, <1>2, <1>3, <1>4, <1>5, <1>6 DEF AuthorInv, DialogTypes, Numbered,
     OneSession, PopoverGoes, Author!StepsHaveTheirPart, Author!SheetIsTheServers, Author!Shown,
     Author!Fresh, AuthorNames
<1> QED BY <1>7, <1>8, <1>9, <1>10, <1>11, <1>12, <1>13, <1>14 DEF AuthorInv

LEMMA PreviewStep ==
  ASSUME AuthorNames, AuthorInv, Author!Preview
  PROVE  AuthorInv'
<1>1. PICK c : c = [session |-> wizard.session, rule |-> wizard.rule]
  OBVIOUS
<1>2. c \in Trying /\ c.session = wizard.session /\ c.rule = wizard.rule /\ pending' = [pending EXCEPT !["preview"] = c]
  <2>1. pending' = [pending EXCEPT !["preview"] = c] /\ page.open /\ wizard.step = 5 /\ wizard.session # None /\ wizard.rule # None
    BY <1>1 DEF Author!Preview, Author!Send, Author!At, Author!OnScreen, Author!Reviewing,
       Author!Previewing
  <2> QED BY <1>1, <2>1 DEF AuthorInv, DialogTypes, Wizards, Trying
<1>3. /\ \A j \in Author!Kinds : pending'[j] = IF j = "preview" THEN c ELSE pending[j]
      /\ pending' \in [Author!Kinds -> Asked]
  BY <1>2, SixKinds, OneRequestMoves DEF AuthorInv
<1>4. page.open /\ wizard.step = 5 /\ wizard.session # None /\ wizard.rule # None /\ UNCHANGED <<page, wizard, enhancer, sandbox, minted, previewed, unsure, crossed>>
  BY DEF Author!Preview, Author!At, Author!Send, Author!Reviewing, Author!Previewing
<1>5. Author!Kinds = {"upload", "sheet", "generate", "preview", "lite", "save"}
  BY SixKinds
<1>6. AskedTypes /\ DialogTypes
  BY DEF AuthorInv
<1>7. DialogTypes'
  BY <1>1, <1>2, <1>3, <1>4, <1>5, <1>6 DEF AuthorInv, DialogTypes, AuthorNames
<1>8. AskedTypes'
  BY <1>1, <1>2, <1>3, <1>4, <1>5, <1>6 DEF AuthorInv, AskedTypes
<1>9. Numbered'
  BY AskedRecords, <1>1, <1>2, <1>3, <1>4, <1>5, <1>6 DEF AuthorInv, DialogTypes, Numbered,
     AuthorNames
<1>10. OneSession'
  BY AskedRecords, <1>1, <1>2, <1>3, <1>4, <1>5, <1>6 DEF AuthorInv, DialogTypes, Numbered,
     OneSession, AuthorNames
<1>11. ResultsFollow'
  BY AskedRecords, <1>1, <1>2, <1>3, <1>4, <1>5, <1>6 DEF AuthorInv, DialogTypes, Numbered,
     ResultsFollow, Author!SavedAsPreviewed, AuthorNames
<1>12. PopoverGoes'
  BY AskedRecords, <1>1, <1>2, <1>3, <1>4, <1>5, <1>6 DEF AuthorInv, DialogTypes, PopoverGoes
<1>13. Author!StepsHaveTheirPart'
  BY AskedRecords, <1>1, <1>2, <1>3, <1>4, <1>5, <1>6 DEF AuthorInv, DialogTypes, Numbered,
     OneSession, ResultsFollow, Author!StepsHaveTheirPart, AuthorNames
<1>14. Author!SheetIsTheServers'
  BY AskedRecords, <1>1, <1>2, <1>3, <1>4, <1>5, <1>6 DEF AuthorInv, DialogTypes, Numbered,
     OneSession, PopoverGoes, Author!StepsHaveTheirPart, Author!SheetIsTheServers, Author!Shown,
     Author!Fresh, AuthorNames
<1> QED BY <1>7, <1>8, <1>9, <1>10, <1>11, <1>12, <1>13, <1>14 DEF AuthorInv

LEMMA SaveWrittenStep ==
  ASSUME AuthorNames, AuthorInv, Author!Save
  PROVE  AuthorInv'
<1>1. PICK c : c = [session |-> wizard.session, rule |-> wizard.rule]
  OBVIOUS
<1>2. c \in Trying /\ c.session = wizard.session /\ c.rule = wizard.rule /\ pending' = [pending EXCEPT !["save"] = c]
  <2>1. pending' = [pending EXCEPT !["save"] = c] /\ page.open /\ wizard.step = 6 /\ wizard.session # None /\ wizard.rule # None /\ wizard.preview # None
    BY <1>1 DEF Author!Save, Author!Send, Author!At, Author!OnScreen, Author!Reviewing,
       Author!Previewing
  <2> QED BY <1>1, <2>1 DEF AuthorInv, DialogTypes, Wizards, Trying
<1>3. /\ \A j \in Author!Kinds : pending'[j] = IF j = "save" THEN c ELSE pending[j]
      /\ pending' \in [Author!Kinds -> Asked]
  BY <1>2, SixKinds, OneRequestMoves DEF AuthorInv
<1>4. page.open /\ wizard.step = 6 /\ wizard.session # None /\ wizard.rule # None /\ wizard.preview # None /\ UNCHANGED <<page, wizard, enhancer, sandbox, minted, previewed, unsure, crossed>>
  BY DEF Author!Save, Author!At, Author!Send, Author!Reviewing, Author!Previewing
<1>5. Author!Kinds = {"upload", "sheet", "generate", "preview", "lite", "save"}
  BY SixKinds
<1>6. AskedTypes /\ DialogTypes
  BY DEF AuthorInv
<1>7. DialogTypes'
  BY <1>1, <1>2, <1>3, <1>4, <1>5, <1>6 DEF AuthorInv, DialogTypes, AuthorNames
<1>8. AskedTypes'
  BY <1>1, <1>2, <1>3, <1>4, <1>5, <1>6 DEF AuthorInv, AskedTypes
<1>9. Numbered'
  BY AskedRecords, <1>1, <1>2, <1>3, <1>4, <1>5, <1>6 DEF AuthorInv, DialogTypes, Numbered,
     AuthorNames
<1>10. OneSession'
  BY AskedRecords, <1>1, <1>2, <1>3, <1>4, <1>5, <1>6 DEF AuthorInv, DialogTypes, Numbered,
     OneSession, AuthorNames
<1>11. ResultsFollow'
  BY AskedRecords, <1>1, <1>2, <1>3, <1>4, <1>5, <1>6 DEF AuthorInv, DialogTypes, Numbered,
     ResultsFollow, Author!SavedAsPreviewed, AuthorNames
<1>12. PopoverGoes'
  BY AskedRecords, <1>1, <1>2, <1>3, <1>4, <1>5, <1>6 DEF AuthorInv, DialogTypes, PopoverGoes
<1>13. Author!StepsHaveTheirPart'
  BY AskedRecords, <1>1, <1>2, <1>3, <1>4, <1>5, <1>6 DEF AuthorInv, DialogTypes, Numbered,
     OneSession, ResultsFollow, Author!StepsHaveTheirPart, AuthorNames
<1>14. Author!SheetIsTheServers'
  BY AskedRecords, <1>1, <1>2, <1>3, <1>4, <1>5, <1>6 DEF AuthorInv, DialogTypes, Numbered,
     OneSession, PopoverGoes, Author!StepsHaveTheirPart, Author!SheetIsTheServers, Author!Shown,
     Author!Fresh, AuthorNames
<1> QED BY <1>7, <1>8, <1>9, <1>10, <1>11, <1>12, <1>13, <1>14 DEF AuthorInv

\* A sample comes with a session of its own.
LEMMA UploadAnswerStep ==
  ASSUME AuthorNames, AuthorInv, NEW sheets \in Author!SampleSheets, Author!UploadAnswer(sheets)
  PROVE  AuthorInv'
<1>1. PICK c \in Sampling : c = pending["upload"] /\ pending["upload"] # None
  BY DEF AuthorInv, AskedTypes, Author!UploadAnswer
<1>2. PICK n \in 1 .. MaxSandboxes, x \in {"A", "B"}, at \in {2, 3} :
           /\ n = Len(sandbox) + 1 /\ x = sheets[1] /\ at = (IF Len(sheets) > 1 THEN 2 ELSE 3)
           /\ at = 3 => sheets = <<x>>
  <2>1. Len(sandbox) \in Nat /\ Len(sandbox) + 1 \in 1 .. MaxSandboxes
    BY DEF AuthorInv, DialogTypes, AuthorNames, Author!UploadAnswer
  <2>2. CASE sheets = <<"A">>
    BY <2>1, <2>2
  <2>3. CASE sheets = <<"A", "B">>
    BY <2>1, <2>3
  <2> QED BY <2>2, <2>3 DEF Author!SampleSheets
<1>3. wizard' \in Wizards /\ wizard'.session = n /\ wizard'.sheets = sheets /\ wizard'.sheet = x /\ wizard'.step = at
      /\ wizard'.described = wizard.described /\ wizard'.rule = wizard.rule /\ wizard'.preview = wizard.preview /\ wizard'.lite = wizard.lite
  <2>1. wizard' = [[[[wizard EXCEPT !.session = n] EXCEPT !.sheets = sheets] EXCEPT !.sheet = x] EXCEPT !.step = at]
    BY <1>1, <1>2 DEF AuthorInv, DialogTypes, Wizards, Author!UploadAnswer, Author!Show
  <2>2. n \in (1 .. MaxSandboxes) \cup {None} /\ sheets \in Author!SampleSheets \cup {<<>>} /\ x \in {"A", "B", None} /\ at \in {1, 2, 3, 5, 6}
    BY <1>1, <1>2 DEF Wizards
  <2> QED BY <2>1, <2>2 DEF AuthorInv, DialogTypes, Wizards
<1>4. /\ sandbox' \in Seq([fn : Functions, sheet : {"A", "B", None}]) /\ Len(sandbox') = n
      /\ Len(sandbox) \in Nat /\ sandbox'[n].sheet = None
      /\ \A i \in 1 .. Len(sandbox) : sandbox'[i] = sandbox[i]
  <2>1. PICK s \in [fn : Functions, sheet : {"A", "B", None}] : s = [fn |-> c.fn, sheet |-> None]
    BY DEF Sampling
  <2>2. sandbox' = Append(sandbox, s) /\ sandbox \in Seq([fn : Functions, sheet : {"A", "B", None}]) /\ s.sheet = None
    BY <1>1, <2>1 DEF AuthorInv, DialogTypes, Author!UploadAnswer
  <2> QED BY <1>2, <2>2, AppendProperties
<1>5. /\ \A j \in Author!Kinds : pending'[j] = IF j = "upload" THEN None ELSE pending[j]
      /\ pending' \in [Author!Kinds -> Asked]
  BY SixKinds, OneRequestMoves DEF AuthorInv, Author!UploadAnswer, Author!Settled
<1>6. enhancer' \in Enhancers /\ enhancer' = IF page.open /\ wizard'.step = 3 THEN enhancer ELSE Author!Fresh
  BY FreshIsTyped DEF AuthorInv, DialogTypes, Author!UploadAnswer, Author!Show
<1>7. crossed' \in BOOLEAN /\ (~crossed' => ~crossed /\ c.opens = page.opens)
  BY <1>1 DEF AuthorInv, DialogTypes, Author!UploadAnswer, Author!Outdated
<1>8. wizard.session = None /\ \A r : <<None, r>> \notin previewed
  BY <1>1 DEF AuthorInv, OneSession, DialogTypes, Author!Runs, AuthorNames
<1>9. UNCHANGED <<page, minted, previewed, unsure>>
  BY DEF Author!UploadAnswer
<1>10. Author!Kinds = {"upload", "sheet", "generate", "preview", "lite", "save"}
  BY SixKinds
<1>11. AskedTypes /\ DialogTypes
  BY DEF AuthorInv
<1>12. DialogTypes'
  BY <1>1, <1>2, <1>3, <1>4, <1>5, <1>6, <1>7, <1>8, <1>9, <1>10, <1>11 DEF AuthorInv,
     DialogTypes, AuthorNames
<1>13. AskedTypes'
  BY <1>1, <1>2, <1>3, <1>4, <1>5, <1>6, <1>7, <1>8, <1>9, <1>10, <1>11 DEF AuthorInv, AskedTypes
<1>14. Numbered'
  <2>1. wizard'.session # None => wizard'.session <= Len(sandbox') /\ wizard'.sheet # None
    BY <1>2, <1>3, <1>4 DEF AuthorInv, DialogTypes, Numbered, AuthorNames
  <2>2. wizard'.rule # None => wizard'.rule.n <= minted'
    BY <1>3, <1>9 DEF AuthorInv, Numbered
  <2>3. \A k \in {"sheet", "generate"} : pending'[k] # None =>
          pending'[k].session <= Len(sandbox') /\ pending'[k].opens <= page'.opens
    BY AskedRecords, <1>2, <1>4, <1>5, <1>9, <1>10 DEF AuthorInv, Numbered
  <2>4. \A k \in {"preview", "lite", "save"} : pending'[k] # None =>
          pending'[k].session <= Len(sandbox') /\ pending'[k].rule.n <= minted'
    BY AskedRecords, <1>2, <1>4, <1>5, <1>9, <1>10 DEF AuthorInv, Numbered
  <2> QED BY <2>1, <2>2, <2>3, <2>4 DEF Numbered
<1>15. OneSession'
  BY AskedRecords, <1>1, <1>2, <1>3, <1>4, <1>5, <1>6, <1>7, <1>8, <1>9, <1>10, <1>11
     DEF AuthorInv, DialogTypes, Numbered, OneSession, AuthorNames
<1>16. ResultsFollow'
  <2>1. wizard'.preview # None /\ wizard'.rule # None =>
          <<wizard'.session, wizard'.rule>> \in previewed' \/ wizard'.rule \in unsure'
    BY <1>3, <1>8, <1>9 DEF AuthorInv, ResultsFollow
  <2>2. pending'["lite"] # None /\ pending'["lite"].session = wizard'.session
          /\ pending'["lite"].rule = wizard'.rule => wizard'.preview = <<wizard'.session, wizard'.rule>>
    BY AskedRecords, <1>2, <1>3, <1>5, <1>10 DEF AuthorInv, DialogTypes, Numbered, ResultsFollow,
       Author!Rules
  <2>3. Author!SavedAsPreviewed'
    BY <1>5, <1>9, <1>10 DEF AuthorInv, ResultsFollow, Author!SavedAsPreviewed
  <2> QED BY <2>1, <2>2, <2>3 DEF ResultsFollow
<1>17. PopoverGoes'
  BY AskedRecords, <1>1, <1>2, <1>3, <1>4, <1>5, <1>6, <1>7, <1>8, <1>9, <1>10, <1>11
     DEF AuthorInv, DialogTypes, PopoverGoes
<1>18. Author!StepsHaveTheirPart'
  BY AskedRecords, <1>1, <1>2, <1>3, <1>4, <1>5, <1>6, <1>7, <1>8, <1>9, <1>10, <1>11
     DEF AuthorInv, DialogTypes, Numbered, OneSession, ResultsFollow, Author!StepsHaveTheirPart,
     AuthorNames
<1>19. Author!SheetIsTheServers'
  BY AskedRecords, <1>1, <1>2, <1>3, <1>4, <1>5, <1>6, <1>7, <1>8, <1>9, <1>10, <1>11
     DEF AuthorInv, DialogTypes, Numbered, OneSession, PopoverGoes, Author!StepsHaveTheirPart,
     Author!SheetIsTheServers, Author!Shown, Author!Fresh, AuthorNames
<1> QED BY <1>12, <1>13, <1>14, <1>15, <1>16, <1>17, <1>18, <1>19 DEF AuthorInv

\* A sheet is taken, known to the dialog or not.
LEMMA SheetAnswerStep ==
  ASSUME AuthorNames, AuthorInv, Author!SheetAnswer
  PROVE  AuthorInv'
<1>1. PICK c \in Picking : c = pending["sheet"] /\ pending["sheet"] # None
  BY DEF AuthorInv, AskedTypes, Author!SheetAnswer
<1>2. PICK x \in {"A", "B"} : x = c.sheet
  BY DEF Picking
<1>3. wizard' \in Wizards /\ wizard'.sheet = x /\ wizard'.step = 3
      /\ wizard'.session = wizard.session /\ wizard'.sheets = wizard.sheets /\ wizard'.described = wizard.described /\ wizard'.rule = wizard.rule /\ wizard'.preview = wizard.preview /\ wizard'.lite = wizard.lite
  <2>1. wizard' = [[wizard EXCEPT !.sheet = x] EXCEPT !.step = 3]
    BY <1>1, <1>2 DEF AuthorInv, DialogTypes, Wizards, Author!SheetAnswer, Author!Show
  <2>2. x \in {"A", "B", None} /\ 3 \in {1, 2, 3, 5, 6}
    BY <1>1, <1>2 DEF Wizards
  <2> QED BY <2>1, <2>2 DEF AuthorInv, DialogTypes, Wizards
<1>4. /\ sandbox' \in Seq([fn : Functions, sheet : {"A", "B", None}]) /\ Len(sandbox') = Len(sandbox)
      /\ Len(sandbox) \in Nat /\ c.session \in 1 .. Len(sandbox)
      /\ \A i \in 1 .. Len(sandbox) : sandbox'[i].sheet = IF i = c.session THEN c.sheet ELSE sandbox[i].sheet
  <2>1. c.session \in 1 .. Len(sandbox) /\ c.sheet \in {"A", "B"} /\ Len(sandbox) \in Nat
    BY <1>1 DEF AuthorInv, DialogTypes, Numbered, Picking
  <2>2. sandbox' = [sandbox EXCEPT ![c.session].sheet = c.sheet]
    BY <1>1 DEF Author!SheetAnswer
  <2> QED BY <2>1, <2>2, SheetIsTaken DEF AuthorInv
<1>5. /\ \A j \in Author!Kinds : pending'[j] = IF j = "sheet" THEN None ELSE pending[j]
      /\ pending' \in [Author!Kinds -> Asked]
  BY SixKinds, OneRequestMoves DEF AuthorInv, Author!SheetAnswer, Author!Settled
<1>6. enhancer' \in Enhancers /\ enhancer' = IF page.open /\ wizard'.step = 3 THEN enhancer ELSE Author!Fresh
  BY FreshIsTyped DEF AuthorInv, DialogTypes, Author!SheetAnswer, Author!Show
<1>7. crossed' \in BOOLEAN /\ (~crossed' => ~crossed /\ c.opens = page.opens)
  BY <1>1 DEF AuthorInv, DialogTypes, Author!SheetAnswer, Author!Outdated
<1>8. UNCHANGED <<page, minted, previewed, unsure>>
  BY DEF Author!SheetAnswer
<1>9. Author!Kinds = {"upload", "sheet", "generate", "preview", "lite", "save"}
  BY SixKinds
<1>10. AskedTypes /\ DialogTypes
  BY DEF AuthorInv
<1>11. DialogTypes'
  BY <1>1, <1>2, <1>3, <1>4, <1>5, <1>6, <1>7, <1>8, <1>9, <1>10 DEF AuthorInv, DialogTypes,
     AuthorNames
<1>12. AskedTypes'
  BY <1>1, <1>2, <1>3, <1>4, <1>5, <1>6, <1>7, <1>8, <1>9, <1>10 DEF AuthorInv, AskedTypes
<1>13. Numbered'
  <2>1. wizard'.session # None => wizard'.session <= Len(sandbox') /\ wizard'.sheet # None
    BY <1>2, <1>3, <1>4 DEF AuthorInv, Numbered, AuthorNames
  <2>2. wizard'.rule # None => wizard'.rule.n <= minted'
    BY <1>3, <1>8 DEF AuthorInv, Numbered
  <2>3. \A k \in {"sheet", "generate"} : pending'[k] # None =>
          pending'[k].session <= Len(sandbox') /\ pending'[k].opens <= page'.opens
    BY <1>4, <1>5, <1>8, <1>9 DEF AuthorInv, Numbered
  <2>4. \A k \in {"preview", "lite", "save"} : pending'[k] # None =>
          pending'[k].session <= Len(sandbox') /\ pending'[k].rule.n <= minted'
    BY <1>4, <1>5, <1>8, <1>9 DEF AuthorInv, Numbered
  <2> QED BY <2>1, <2>2, <2>3, <2>4 DEF Numbered
<1>14. OneSession'
  BY AskedRecords, <1>1, <1>2, <1>3, <1>4, <1>5, <1>6, <1>7, <1>8, <1>9, <1>10 DEF AuthorInv,
     DialogTypes, Numbered, OneSession, AuthorNames
<1>15. ResultsFollow'
  BY AskedRecords, <1>1, <1>2, <1>3, <1>4, <1>5, <1>6, <1>7, <1>8, <1>9, <1>10 DEF AuthorInv,
     DialogTypes, Numbered, ResultsFollow, Author!SavedAsPreviewed, AuthorNames
<1>16. PopoverGoes'
  BY AskedRecords, <1>1, <1>2, <1>3, <1>4, <1>5, <1>6, <1>7, <1>8, <1>9, <1>10 DEF AuthorInv,
     DialogTypes, PopoverGoes
<1>17. Author!StepsHaveTheirPart'
  BY AskedRecords, <1>1, <1>2, <1>3, <1>4, <1>5, <1>6, <1>7, <1>8, <1>9, <1>10 DEF AuthorInv,
     DialogTypes, Numbered, OneSession, ResultsFollow, Author!StepsHaveTheirPart, AuthorNames
<1>18. Author!SheetIsTheServers'
  <2> SUFFICES ASSUME page'.open, ~crossed'
               PROVE  sandbox'[wizard'.session].sheet = wizard'.sheet /\ enhancer'.of = None
    BY DEF Author!SheetIsTheServers
  <2>1. page.open /\ ~crossed /\ c.opens = page.opens
    BY <1>7, <1>8
  <2>2. wizard.session = c.session /\ wizard.step = 2
    BY <1>1, <2>1 DEF AuthorInv, OneSession
  <2>3. sandbox'[wizard'.session].sheet = wizard'.sheet
    BY <1>2, <1>3, <1>4, <2>2
  <2>4. enhancer' = Author!Fresh
    BY <1>6, <2>2 DEF AuthorInv, PopoverGoes
  <2> QED BY <2>3, <2>4 DEF Author!Fresh
<1> QED BY <1>11, <1>12, <1>13, <1>14, <1>15, <1>16, <1>17, <1>18 DEF AuthorInv

LEMMA SheetLostStep ==
  ASSUME AuthorNames, AuthorInv, Author!SheetAnswerLost
  PROVE  AuthorInv'
<1>1. PICK c \in Picking : c = pending["sheet"] /\ pending["sheet"] # None
  BY DEF AuthorInv, AskedTypes, Author!SheetAnswerLost
<1>2. /\ sandbox' \in Seq([fn : Functions, sheet : {"A", "B", None}]) /\ Len(sandbox') = Len(sandbox)
      /\ Len(sandbox) \in Nat /\ c.session \in 1 .. Len(sandbox)
      /\ \A i \in 1 .. Len(sandbox) : sandbox'[i].sheet = IF i = c.session THEN c.sheet ELSE sandbox[i].sheet
  <2>1. c.session \in 1 .. Len(sandbox) /\ c.sheet \in {"A", "B"} /\ Len(sandbox) \in Nat
    BY <1>1 DEF AuthorInv, DialogTypes, Numbered, Picking
  <2>2. sandbox' = [sandbox EXCEPT ![c.session].sheet = c.sheet]
    BY <1>1 DEF Author!SheetAnswerLost
  <2> QED BY <2>1, <2>2, SheetIsTaken DEF AuthorInv
<1>3. /\ \A j \in Author!Kinds : pending'[j] = IF j = "sheet" THEN None ELSE pending[j]
      /\ pending' \in [Author!Kinds -> Asked]
  BY SixKinds, OneRequestMoves DEF AuthorInv, Author!SheetAnswerLost, Author!Settled
<1>4. /\ wizard.session # None => wizard.session \in 1 .. Len(sandbox)
      /\ wizard.session = c.session /\ page.open /\ ~crossed => wizard.step = 2
  BY <1>1 DEF AuthorInv, DialogTypes, Wizards, Numbered, OneSession
<1>5. UNCHANGED <<page, wizard, enhancer, minted, previewed, unsure, crossed>>
  BY DEF Author!SheetAnswerLost
<1>6. Author!Kinds = {"upload", "sheet", "generate", "preview", "lite", "save"}
  BY SixKinds
<1>7. AskedTypes /\ DialogTypes
  BY DEF AuthorInv
<1>8. DialogTypes'
  BY <1>1, <1>2, <1>3, <1>4, <1>5, <1>6, <1>7 DEF AuthorInv, DialogTypes, AuthorNames
<1>9. AskedTypes'
  BY <1>1, <1>2, <1>3, <1>4, <1>5, <1>6, <1>7 DEF AuthorInv, AskedTypes
<1>10. Numbered'
  BY AskedRecords, <1>1, <1>2, <1>3, <1>4, <1>5, <1>6, <1>7 DEF AuthorInv, DialogTypes, Numbered,
     AuthorNames
<1>11. OneSession'
  BY AskedRecords, <1>1, <1>2, <1>3, <1>4, <1>5, <1>6, <1>7 DEF AuthorInv, DialogTypes, Numbered,
     OneSession, AuthorNames
<1>12. ResultsFollow'
  BY AskedRecords, <1>1, <1>2, <1>3, <1>4, <1>5, <1>6, <1>7 DEF AuthorInv, DialogTypes, Numbered,
     ResultsFollow, Author!SavedAsPreviewed, AuthorNames
<1>13. PopoverGoes'
  BY AskedRecords, <1>1, <1>2, <1>3, <1>4, <1>5, <1>6, <1>7 DEF AuthorInv, DialogTypes, PopoverGoes
<1>14. Author!StepsHaveTheirPart'
  BY AskedRecords, <1>1, <1>2, <1>3, <1>4, <1>5, <1>6, <1>7 DEF AuthorInv, DialogTypes, Numbered,
     OneSession, ResultsFollow, Author!StepsHaveTheirPart, AuthorNames
<1>15. Author!SheetIsTheServers'
  <2> SUFFICES ASSUME page.open, ~crossed, wizard.step >= 3
               PROVE  /\ LET ranOn == sandbox'[wizard.session].sheet
                          IN  ranOn = wizard.sheet \/ (ranOn = None /\ wizard.sheets = <<wizard.sheet>>)
                      /\ enhancer.of \in {None, Author!Shown}
    BY <1>5 DEF Author!SheetIsTheServers, Author!Shown
  <2>1. wizard.session # None /\ wizard.session # c.session
    BY <1>4 DEF AuthorInv, DialogTypes, Wizards, Author!StepsHaveTheirPart
  <2>2. sandbox'[wizard.session].sheet = sandbox[wizard.session].sheet
    BY <1>2, <1>4, <2>1
  <2> QED BY <2>2 DEF AuthorInv, Author!SheetIsTheServers
<1> QED BY <1>8, <1>9, <1>10, <1>11, <1>12, <1>13, <1>14, <1>15 DEF AuthorInv

\* The description, and the suggestions for it.
LEMMA DescribeStep ==
  ASSUME AuthorNames, AuthorInv, Author!Describe
  PROVE  AuthorInv'
<1>1. page.open /\ wizard.step = 3
  BY DEF Author!Describe, Author!At
<1>2. wizard' \in Wizards /\ wizard'.described = TRUE
      /\ wizard'.session = wizard.session /\ wizard'.sheets = wizard.sheets /\ wizard'.sheet = wizard.sheet /\ wizard'.rule = wizard.rule /\ wizard'.preview = wizard.preview /\ wizard'.lite = wizard.lite /\ wizard'.step = wizard.step
  <2>1. wizard' = [wizard EXCEPT !.described = TRUE]
    BY <1>1 DEF AuthorInv, DialogTypes, Wizards, Author!Describe, Author!Show
  <2>2. TRUE \in BOOLEAN
    BY <1>1 DEF Wizards
  <2> QED BY <2>1, <2>2 DEF AuthorInv, DialogTypes, Wizards
<1>3. UNCHANGED <<page, pending, enhancer, sandbox, minted, previewed, unsure, crossed>>
  BY DEF Author!Describe
<1>4. Author!Kinds = {"upload", "sheet", "generate", "preview", "lite", "save"}
  BY SixKinds
<1>5. AskedTypes /\ DialogTypes
  BY DEF AuthorInv
<1>6. DialogTypes'
  BY <1>1, <1>2, <1>3, <1>4, <1>5 DEF AuthorInv, DialogTypes, AuthorNames
<1>7. AskedTypes'
  BY <1>1, <1>2, <1>3, <1>4, <1>5 DEF AuthorInv, AskedTypes
<1>8. Numbered'
  BY AskedRecords, <1>1, <1>2, <1>3, <1>4, <1>5 DEF AuthorInv, DialogTypes, Numbered, AuthorNames
<1>9. OneSession'
  BY AskedRecords, <1>1, <1>2, <1>3, <1>4, <1>5 DEF AuthorInv, DialogTypes, Numbered, OneSession,
     AuthorNames
<1>10. ResultsFollow'
  BY AskedRecords, <1>1, <1>2, <1>3, <1>4, <1>5 DEF AuthorInv, DialogTypes, Numbered,
     ResultsFollow, Author!SavedAsPreviewed, AuthorNames
<1>11. PopoverGoes'
  BY AskedRecords, <1>1, <1>2, <1>3, <1>4, <1>5 DEF AuthorInv, DialogTypes, PopoverGoes
<1>12. Author!StepsHaveTheirPart'
  BY AskedRecords, <1>1, <1>2, <1>3, <1>4, <1>5 DEF AuthorInv, DialogTypes, Numbered, OneSession,
     ResultsFollow, Author!StepsHaveTheirPart, AuthorNames
<1>13. Author!SheetIsTheServers'
  BY AskedRecords, <1>1, <1>2, <1>3, <1>4, <1>5 DEF AuthorInv, DialogTypes, Numbered, OneSession,
     PopoverGoes, Author!StepsHaveTheirPart, Author!SheetIsTheServers, Author!Shown,
     Author!Fresh, AuthorNames
<1> QED BY <1>6, <1>7, <1>8, <1>9, <1>10, <1>11, <1>12, <1>13 DEF AuthorInv

LEMMA EnhancerStep ==
  ASSUME AuthorNames, AuthorInv, Author!OpenEnhancer \/ Author!TryAgain \/ Author!EnhancerAnswer \/ Author!LeaveEnhancer
  PROVE  AuthorInv'
<1>1. UNCHANGED <<page, wizard, pending, sandbox, minted, previewed, unsure, crossed>>
  BY DEF Author!OpenEnhancer, Author!TryAgain, Author!EnhancerAnswer, Author!LeaveEnhancer
<1>2. wizard.session # None => Author!Shown \in (1 .. MaxSandboxes) \X {"A", "B"}
  BY DEF AuthorInv, DialogTypes, Numbered, Wizards, Author!Shown
<1>3. page.open /\ wizard.step = 3
  BY DEF AuthorInv, PopoverGoes, Author!Fresh, Author!OpenEnhancer, Author!TryAgain,
     Author!EnhancerAnswer, Author!LeaveEnhancer, Author!At
<1>4. enhancer' \in Enhancers /\ enhancer'.of \in {enhancer.of, Author!Shown}
  <2>1. PICK y \in Enhancers : y = enhancer
    BY DEF AuthorInv, DialogTypes
  <2>2. CASE Author!OpenEnhancer
    <3>1. PICK b \in BOOLEAN : b = (y.asking \/ ~y.offers)
      OBVIOUS
    <3>2. PICK o : o = (IF y.offers THEN y.of ELSE Author!Shown)
      OBVIOUS
    <3>3. o \in ((1 .. MaxSandboxes) \X {"A", "B"}) \cup {None} /\ o \in {y.of, Author!Shown}
      BY <1>2, <2>2, <3>2 DEF Author!OpenEnhancer, Author!Ready, Enhancers
    <3>4. enhancer' = [[[y EXCEPT !.open = TRUE] EXCEPT !.asking = b] EXCEPT !.of = o]
      BY <2>1, <2>2, <3>1, <3>2 DEF Author!OpenEnhancer, Enhancers
    <3> QED BY <2>1, <3>3, <3>4 DEF Enhancers
  <2>3. CASE Author!TryAgain
    <3>1. enhancer' = [[y EXCEPT !.asking = TRUE] EXCEPT !.of = Author!Shown] /\ wizard.session # None
      BY <2>1, <2>3 DEF Author!TryAgain, Enhancers
    <3> QED BY <1>2, <2>1, <3>1 DEF Enhancers
  <2>4. CASE Author!EnhancerAnswer \/ Author!LeaveEnhancer
    BY <2>1, <2>4 DEF Author!EnhancerAnswer, Author!LeaveEnhancer, Enhancers
  <2> QED BY <2>2, <2>3, <2>4
<1>5. Author!Kinds = {"upload", "sheet", "generate", "preview", "lite", "save"}
  BY SixKinds
<1>6. AskedTypes /\ DialogTypes
  BY DEF AuthorInv
<1>7. DialogTypes'
  BY <1>1, <1>2, <1>3, <1>4, <1>5, <1>6 DEF AuthorInv, DialogTypes, AuthorNames
<1>8. AskedTypes'
  BY <1>1, <1>2, <1>3, <1>4, <1>5, <1>6 DEF AuthorInv, AskedTypes
<1>9. Numbered'
  BY AskedRecords, <1>1, <1>2, <1>3, <1>4, <1>5, <1>6 DEF AuthorInv, DialogTypes, Numbered,
     AuthorNames
<1>10. OneSession'
  BY AskedRecords, <1>1, <1>2, <1>3, <1>4, <1>5, <1>6 DEF AuthorInv, DialogTypes, Numbered,
     OneSession, AuthorNames
<1>11. ResultsFollow'
  BY AskedRecords, <1>1, <1>2, <1>3, <1>4, <1>5, <1>6 DEF AuthorInv, DialogTypes, Numbered,
     ResultsFollow, Author!SavedAsPreviewed, AuthorNames
<1>12. PopoverGoes'
  BY AskedRecords, <1>1, <1>2, <1>3, <1>4, <1>5, <1>6 DEF AuthorInv, DialogTypes, PopoverGoes
<1>13. Author!StepsHaveTheirPart'
  BY AskedRecords, <1>1, <1>2, <1>3, <1>4, <1>5, <1>6 DEF AuthorInv, DialogTypes, Numbered,
     OneSession, ResultsFollow, Author!StepsHaveTheirPart, AuthorNames
<1>14. Author!SheetIsTheServers'
  BY AskedRecords, <1>1, <1>2, <1>3, <1>4, <1>5, <1>6 DEF AuthorInv, DialogTypes, Numbered,
     OneSession, PopoverGoes, Author!StepsHaveTheirPart, Author!SheetIsTheServers, Author!Shown,
     Author!Fresh, AuthorNames
<1> QED BY <1>7, <1>8, <1>9, <1>10, <1>11, <1>12, <1>13, <1>14 DEF AuthorInv

\* A rule comes, is edited, and left again.
LEMMA GenerateAnswerStep ==
  ASSUME AuthorNames, AuthorInv, Author!GenerateAnswer
  PROVE  AuthorInv'
<1>1. PICK c \in Making : c = pending["generate"] /\ pending["generate"] # None
  BY DEF AuthorInv, AskedTypes, Author!GenerateAnswer
<1>2. PICK r \in Author!Rules : r = [n |-> minted + 1, fn |-> sandbox[c.session].fn, ok |-> TRUE] /\ r.n = minted + 1
  <2>1. minted + 1 \in 1 .. MaxRules
    BY DEF AuthorInv, DialogTypes, AuthorNames, Author!GenerateAnswer
  <2>2. c.session \in 1 .. Len(sandbox)
    BY <1>1 DEF AuthorInv, DialogTypes, Numbered, Making
  <2>3. sandbox[c.session].fn \in Functions
    <3>1. sandbox \in Seq([fn : Functions, sheet : {"A", "B", None}])
      BY DEF AuthorInv, DialogTypes
    <3>2. \A S, q : q \in Seq(S) => \A i \in 1 .. Len(q) : q[i] \in S
      OBVIOUS
    <3>3. sandbox[c.session] \in [fn : Functions, sheet : {"A", "B", None}]
      BY <2>2, <3>1, <3>2
    <3> QED BY <3>3
  <2>4. \A r : r = [n |-> minted + 1, fn |-> sandbox[c.session].fn, ok |-> TRUE] =>
          r \in Author!Rules /\ r.n = minted + 1
    BY <2>1, <2>3 DEF Author!Rules
  <2> QED BY <2>4
<1>3. wizard' \in Wizards /\ wizard'.preview = None /\ wizard'.step = 5 /\ wizard'.rule = r
      /\ wizard'.session = wizard.session /\ wizard'.sheets = wizard.sheets /\ wizard'.sheet = wizard.sheet /\ wizard'.described = wizard.described /\ wizard'.lite = wizard.lite
  <2>1. wizard' = [[[wizard EXCEPT !.preview = None] EXCEPT !.step = 5] EXCEPT !.rule = r]
    BY <1>1, <1>2 DEF AuthorInv, DialogTypes, Wizards, Author!GenerateAnswer, Author!Show
  <2>2. None \in Author!Runs \cup {None} /\ 5 \in {1, 2, 3, 5, 6} /\ r \in Author!Rules \cup {None}
    BY <1>1, <1>2 DEF Wizards
  <2> QED BY <2>1, <2>2 DEF AuthorInv, DialogTypes, Wizards
<1>4. /\ \A j \in Author!Kinds : pending'[j] = IF j = "generate" THEN None ELSE pending[j]
      /\ pending' \in [Author!Kinds -> Asked]
  BY SixKinds, OneRequestMoves DEF AuthorInv, Author!GenerateAnswer, Author!Settled
<1>5. minted' = minted + 1 /\ minted' \in 0 .. MaxRules /\ minted \in Nat /\ r # None
  <2>1. minted' = minted + 1 /\ minted < MaxRules /\ minted \in 0 .. MaxRules /\ MaxRules \in Nat
    BY DEF AuthorInv, DialogTypes, AuthorNames, Author!GenerateAnswer
  <2>2. r # None
    BY DEF AuthorNames
  <2> QED BY <2>1, <2>2
<1>6. enhancer' \in Enhancers /\ enhancer' = IF page.open /\ wizard'.step = 3 THEN enhancer ELSE Author!Fresh
  BY FreshIsTyped DEF AuthorInv, DialogTypes, Author!GenerateAnswer, Author!Show
<1>7. crossed' \in BOOLEAN /\ (~crossed' => ~crossed /\ c.opens = page.opens)
  BY <1>1 DEF AuthorInv, DialogTypes, Author!GenerateAnswer, Author!Outdated
<1>8. UNCHANGED <<page, sandbox, previewed, unsure>>
  BY DEF Author!GenerateAnswer
<1>9. Author!Kinds = {"upload", "sheet", "generate", "preview", "lite", "save"}
  BY SixKinds
<1>10. AskedTypes /\ DialogTypes
  BY DEF AuthorInv
<1>11. DialogTypes'
  BY <1>1, <1>2, <1>3, <1>4, <1>5, <1>6, <1>7, <1>8, <1>9, <1>10 DEF AuthorInv, DialogTypes,
     AuthorNames
<1>12. AskedTypes'
  BY <1>1, <1>2, <1>3, <1>4, <1>5, <1>6, <1>7, <1>8, <1>9, <1>10 DEF AuthorInv, AskedTypes
<1>13. Numbered'
  <2>1. wizard'.session # None => wizard'.session <= Len(sandbox') /\ wizard'.sheet # None
    BY <1>3, <1>8 DEF AuthorInv, DialogTypes, Numbered, AuthorNames
  <2>2. wizard'.rule # None => wizard'.rule.n <= minted'
    BY <1>2, <1>3, <1>5 DEF AuthorInv, Numbered
  <2>3. \A k \in {"sheet", "generate"} : pending'[k] # None =>
          pending'[k].session <= Len(sandbox') /\ pending'[k].opens <= page'.opens
    BY AskedRecords, <1>4, <1>8, <1>9 DEF AuthorInv, Numbered
  <2>4. \A k \in {"preview", "lite", "save"} : pending'[k] # None =>
          pending'[k].session <= Len(sandbox') /\ pending'[k].rule.n <= minted'
    BY AskedRecords, <1>4, <1>5, <1>8, <1>9 DEF AuthorInv, Numbered
  <2> QED BY <2>1, <2>2, <2>3, <2>4 DEF Numbered
<1>14. OneSession'
  <2>1. wizard'.step = 1 \/ pending'["upload"] # None => wizard'.session = None
    BY <1>3, <1>4, <1>9 DEF AuthorInv, OneSession
  <2>2. \A k \in {"sheet", "generate"} :
          pending'[k] # None /\ page'.open /\ pending'[k].opens = page'.opens =>
            wizard'.session = pending'[k].session
    BY <1>3, <1>4, <1>8, <1>9 DEF AuthorInv, OneSession
  <2>3. pending'["sheet"] # None /\ pending'["sheet"].session = wizard'.session =>
          pending'["sheet"].opens = page'.opens
    BY <1>3, <1>4, <1>8, <1>9 DEF AuthorInv, OneSession
  <2>4. ASSUME page'.open, ~crossed'
        PROVE  /\ pending'["sheet"] # None /\ pending'["sheet"].opens = page'.opens => wizard'.step = 2
               /\ pending'["generate"] # None /\ pending'["generate"].opens = page'.opens =>
                    wizard'.step >= 3
               /\ wizard'.session = None \/ wizard'.step = 2 => wizard'.rule = None
    <3>1. page.open /\ ~crossed /\ c.opens = page.opens
      BY <1>7, <1>8, <2>4
    <3>2. wizard.step >= 3 /\ wizard.session = c.session
      BY <1>1, <3>1 DEF AuthorInv, OneSession
    <3>3. ~(pending'["sheet"] # None /\ pending'["sheet"].opens = page'.opens)
      BY <1>4, <1>8, <1>9, <3>1, <3>2 DEF AuthorInv, OneSession
    <3>4. pending'["generate"] = None
      BY <1>4, <1>9
    <3>5. wizard'.session # None
      BY AskedRecords, <1>1, <1>3, <1>10, <3>2
    <3> QED BY <1>3, <3>3, <3>4, <3>5
  <2> QED BY <2>1, <2>2, <2>3, <2>4 DEF OneSession
<1>15. ResultsFollow'
  <2>1. wizard'.preview # None /\ wizard'.rule # None =>
          <<wizard'.session, wizard'.rule>> \in previewed' \/ wizard'.rule \in unsure'
    BY <1>3 DEF AuthorInv, ResultsFollow
  <2>2. pending'["lite"] # None /\ pending'["lite"].session = wizard'.session
          /\ pending'["lite"].rule = wizard'.rule => wizard'.preview = <<wizard'.session, wizard'.rule>>
    BY AskedRecords, <1>2, <1>3, <1>4, <1>5, <1>9 DEF AuthorInv, DialogTypes, Numbered,
       ResultsFollow, Author!Rules
  <2>3. Author!SavedAsPreviewed'
    BY <1>4, <1>8, <1>9 DEF AuthorInv, ResultsFollow, Author!SavedAsPreviewed
  <2> QED BY <2>1, <2>2, <2>3 DEF ResultsFollow
<1>16. PopoverGoes'
  BY AskedRecords, <1>1, <1>2, <1>3, <1>4, <1>5, <1>6, <1>7, <1>8, <1>9, <1>10 DEF AuthorInv,
     DialogTypes, PopoverGoes
<1>17. Author!StepsHaveTheirPart'
  BY AskedRecords, <1>1, <1>2, <1>3, <1>4, <1>5, <1>6, <1>7, <1>8, <1>9, <1>10 DEF AuthorInv,
     DialogTypes, Numbered, OneSession, ResultsFollow, Author!StepsHaveTheirPart, AuthorNames
<1>18. Author!SheetIsTheServers'
  BY AskedRecords, <1>1, <1>2, <1>3, <1>4, <1>5, <1>6, <1>7, <1>8, <1>9, <1>10 DEF AuthorInv,
     DialogTypes, Numbered, OneSession, PopoverGoes, Author!StepsHaveTheirPart,
     Author!SheetIsTheServers, Author!Shown, Author!Fresh, AuthorNames
<1> QED BY <1>11, <1>12, <1>13, <1>14, <1>15, <1>16, <1>17, <1>18 DEF AuthorInv

LEMMA EditStep ==
  ASSUME AuthorNames, AuthorInv, NEW ok \in BOOLEAN, Author!Edit(ok)
  PROVE  AuthorInv'
<1>1. PICK r \in Author!Rules : r = [wizard.rule EXCEPT !.n = minted + 1, !.ok = ok] /\ r.n = minted + 1
  <2>1. minted + 1 \in 1 .. MaxRules /\ wizard.rule \in Author!Rules
    BY DEF AuthorInv, DialogTypes, Wizards, AuthorNames, Author!Edit, Author!Reviewing
  <2>2. PICK y \in Author!Rules : y = wizard.rule
    BY <2>1
  <2>3. [[y EXCEPT !.n = minted + 1] EXCEPT !.ok = ok] \in Author!Rules
    BY <2>1 DEF Author!Rules
  <2> QED BY <2>2, <2>3 DEF Author!Rules
<1>2. PICK lite \in Author!Runs \cup {None, Author!Failed} : lite = Author!LiteAfterEdit
  BY DEF Author!LiteAfterEdit
<1>3. page.open /\ wizard.step = 5 /\ wizard.rule # None /\ r # None /\ minted \in Nat
  BY DEF Author!Edit, Author!Reviewing, Author!At, AuthorNames, AuthorInv, DialogTypes
<1>4. wizard' \in Wizards /\ wizard'.rule = r /\ wizard'.preview = None /\ wizard'.lite = lite
      /\ wizard'.session = wizard.session /\ wizard'.sheets = wizard.sheets /\ wizard'.sheet = wizard.sheet /\ wizard'.described = wizard.described /\ wizard'.step = wizard.step
  <2>1. wizard' = [[[wizard EXCEPT !.rule = r] EXCEPT !.preview = None] EXCEPT !.lite = lite]
    BY <1>1, <1>2 DEF AuthorInv, DialogTypes, Wizards, Author!Edit, Author!Show
  <2>2. r \in Author!Rules \cup {None} /\ None \in Author!Runs \cup {None} /\ lite \in Author!Runs \cup {None, Author!Failed}
    BY <1>1, <1>2 DEF Wizards
  <2> QED BY <2>1, <2>2 DEF AuthorInv, DialogTypes, Wizards
<1>5. minted' = minted + 1 /\ minted' \in 0 .. MaxRules
  BY DEF AuthorInv, DialogTypes, AuthorNames, Author!Edit
<1>6. UNCHANGED <<page, pending, enhancer, sandbox, previewed, unsure, crossed>>
  BY DEF Author!Edit
<1>7. Author!Kinds = {"upload", "sheet", "generate", "preview", "lite", "save"}
  BY SixKinds
<1>8. AskedTypes /\ DialogTypes
  BY DEF AuthorInv
<1>9. DialogTypes'
  BY <1>1, <1>2, <1>3, <1>4, <1>5, <1>6, <1>7, <1>8 DEF AuthorInv, DialogTypes, AuthorNames
<1>10. AskedTypes'
  BY <1>1, <1>2, <1>3, <1>4, <1>5, <1>6, <1>7, <1>8 DEF AuthorInv, AskedTypes
<1>11. Numbered'
  <2>1. wizard'.session # None => wizard'.session <= Len(sandbox') /\ wizard'.sheet # None
    BY <1>4, <1>6 DEF AuthorInv, DialogTypes, Numbered, AuthorNames
  <2>2. wizard'.rule # None => wizard'.rule.n <= minted'
    BY <1>1, <1>4, <1>5 DEF AuthorInv, Numbered
  <2>3. \A k \in {"sheet", "generate"} : pending'[k] # None =>
          pending'[k].session <= Len(sandbox') /\ pending'[k].opens <= page'.opens
    BY AskedRecords, <1>6 DEF AuthorInv, Numbered
  <2>4. \A k \in {"preview", "lite", "save"} : pending'[k] # None =>
          pending'[k].session <= Len(sandbox') /\ pending'[k].rule.n <= minted'
    BY AskedRecords, <1>3, <1>5, <1>6, <1>7 DEF AuthorInv, Numbered
  <2> QED BY <2>1, <2>2, <2>3, <2>4 DEF Numbered
<1>12. OneSession'
  BY AskedRecords, <1>1, <1>2, <1>3, <1>4, <1>5, <1>6, <1>7, <1>8 DEF AuthorInv, DialogTypes,
     Numbered, OneSession, AuthorNames
<1>13. ResultsFollow'
  <2>1. wizard'.preview # None /\ wizard'.rule # None =>
          <<wizard'.session, wizard'.rule>> \in previewed' \/ wizard'.rule \in unsure'
    BY <1>4 DEF AuthorInv, ResultsFollow
  <2>2. pending'["lite"] # None /\ pending'["lite"].session = wizard'.session
          /\ pending'["lite"].rule = wizard'.rule => wizard'.preview = <<wizard'.session, wizard'.rule>>
    <3>1. pending["lite"] # None => pending["lite"].rule.n \in Nat /\ pending["lite"].rule.n <= minted
      BY AskedRecords, <1>8 DEF AuthorInv, Numbered
    <3>2. pending["lite"] # None => pending["lite"].rule # r
      <4>1. r.n = minted + 1 /\ minted \in Nat
        BY <1>1, <1>3
      <4>2. \A m, n \in Nat : m <= n => m # n + 1
        OBVIOUS
      <4> QED BY <3>1, <4>1, <4>2
    <3> QED BY <1>4, <1>6, <3>2
  <2>3. Author!SavedAsPreviewed'
    BY <1>6 DEF AuthorInv, ResultsFollow, Author!SavedAsPreviewed
  <2> QED BY <2>1, <2>2, <2>3 DEF ResultsFollow
<1>14. PopoverGoes'
  BY AskedRecords, <1>1, <1>2, <1>3, <1>4, <1>5, <1>6, <1>7, <1>8 DEF AuthorInv, DialogTypes,
     PopoverGoes
<1>15. Author!StepsHaveTheirPart'
  BY AskedRecords, <1>1, <1>2, <1>3, <1>4, <1>5, <1>6, <1>7, <1>8 DEF AuthorInv, DialogTypes,
     Numbered, OneSession, ResultsFollow, Author!StepsHaveTheirPart, AuthorNames
<1>16. Author!SheetIsTheServers'
  BY AskedRecords, <1>1, <1>2, <1>3, <1>4, <1>5, <1>6, <1>7, <1>8 DEF AuthorInv, DialogTypes,
     Numbered, OneSession, PopoverGoes, Author!StepsHaveTheirPart, Author!SheetIsTheServers,
     Author!Shown, Author!Fresh, AuthorNames
<1> QED BY <1>9, <1>10, <1>11, <1>12, <1>13, <1>14, <1>15, <1>16 DEF AuthorInv

LEMMA BackStep ==
  ASSUME AuthorNames, AuthorInv, Author!Back
  PROVE  AuthorInv'
<1>1. page.open /\ wizard.step \in {5, 6} /\ wizard.rule # None
  BY DEF Author!Back, Author!Reviewing, Author!Previewing, Author!At
<1>2. PICK at \in {3, 5} : at = (IF Author!Reviewing THEN 3 ELSE 5)
  OBVIOUS
<1>3. wizard' \in Wizards /\ wizard'.step = at
      /\ wizard'.session = wizard.session /\ wizard'.sheets = wizard.sheets /\ wizard'.sheet = wizard.sheet /\ wizard'.described = wizard.described /\ wizard'.rule = wizard.rule /\ wizard'.preview = wizard.preview /\ wizard'.lite = wizard.lite
  <2>1. wizard' = [wizard EXCEPT !.step = at]
    BY <1>1, <1>2 DEF AuthorInv, DialogTypes, Wizards, Author!Back, Author!Show
  <2>2. at \in {1, 2, 3, 5, 6}
    BY <1>1, <1>2 DEF Wizards
  <2> QED BY <2>1, <2>2 DEF AuthorInv, DialogTypes, Wizards
<1>4. enhancer' \in Enhancers /\ enhancer' = IF page.open /\ wizard'.step = 3 THEN enhancer ELSE Author!Fresh
  BY FreshIsTyped DEF AuthorInv, DialogTypes, Author!Back, Author!Show
<1>5. UNCHANGED <<page, pending, sandbox, minted, previewed, unsure, crossed>>
  BY DEF Author!Back
<1>6. Author!Kinds = {"upload", "sheet", "generate", "preview", "lite", "save"}
  BY SixKinds
<1>7. AskedTypes /\ DialogTypes
  BY DEF AuthorInv
<1>8. DialogTypes'
  BY <1>1, <1>2, <1>3, <1>4, <1>5, <1>6, <1>7 DEF AuthorInv, DialogTypes, AuthorNames
<1>9. AskedTypes'
  BY <1>1, <1>2, <1>3, <1>4, <1>5, <1>6, <1>7 DEF AuthorInv, AskedTypes
<1>10. Numbered'
  BY AskedRecords, <1>1, <1>2, <1>3, <1>4, <1>5, <1>6, <1>7 DEF AuthorInv, DialogTypes, Numbered,
     AuthorNames
<1>11. OneSession'
  BY AskedRecords, <1>1, <1>2, <1>3, <1>4, <1>5, <1>6, <1>7 DEF AuthorInv, DialogTypes, Numbered,
     OneSession, AuthorNames
<1>12. ResultsFollow'
  BY AskedRecords, <1>1, <1>2, <1>3, <1>4, <1>5, <1>6, <1>7 DEF AuthorInv, DialogTypes, Numbered,
     ResultsFollow, Author!SavedAsPreviewed, AuthorNames
<1>13. PopoverGoes'
  BY AskedRecords, <1>1, <1>2, <1>3, <1>4, <1>5, <1>6, <1>7 DEF AuthorInv, DialogTypes, PopoverGoes
<1>14. Author!StepsHaveTheirPart'
  BY AskedRecords, <1>1, <1>2, <1>3, <1>4, <1>5, <1>6, <1>7 DEF AuthorInv, DialogTypes, Numbered,
     OneSession, ResultsFollow, Author!StepsHaveTheirPart, AuthorNames
<1>15. Author!SheetIsTheServers'
  BY AskedRecords, <1>1, <1>2, <1>3, <1>4, <1>5, <1>6, <1>7 DEF AuthorInv, DialogTypes, Numbered,
     OneSession, PopoverGoes, Author!StepsHaveTheirPart, Author!SheetIsTheServers, Author!Shown,
     Author!Fresh, AuthorNames
<1> QED BY <1>8, <1>9, <1>10, <1>11, <1>12, <1>13, <1>14, <1>15 DEF AuthorInv

\* Its results come.
LEMMA PreviewAnswerStep ==
  ASSUME AuthorNames, AuthorInv, Author!PreviewAnswer
  PROVE  AuthorInv'
<1>1. PICK c \in Trying : c = pending["preview"] /\ pending["preview"] # None
  BY DEF AuthorInv, AskedTypes, Author!PreviewAnswer
<1>2. PICK x \in Author!Runs : x = <<c.session, c.rule>>
  BY DEF Trying, Author!Runs
<1>3. wizard' \in Wizards /\ wizard'.preview = x
      /\ wizard'.session = wizard.session /\ wizard'.sheets = wizard.sheets /\ wizard'.sheet = wizard.sheet /\ wizard'.described = wizard.described /\ wizard'.rule = wizard.rule /\ wizard'.lite = wizard.lite /\ wizard'.step = wizard.step
  <2>1. wizard' = [wizard EXCEPT !.preview = x]
    BY <1>1, <1>2 DEF AuthorInv, DialogTypes, Wizards, Author!PreviewAnswer, Author!Runs
  <2>2. x \in Author!Runs \cup {None}
    BY <1>1, <1>2 DEF Wizards
  <2> QED BY <2>1, <2>2 DEF AuthorInv, DialogTypes, Wizards
<1>4. Author!Other(c) <=> ~(c.session = wizard.session /\ c.rule = wizard.rule)
  <2>1. c = [session |-> c.session, rule |-> c.rule]
    BY DEF Trying
  <2> QED BY <2>1 DEF Author!Other, Author!OnScreen
<1>5. /\ \A j \in Author!Kinds :
           pending'[j] = IF j = "preview" THEN None ELSE IF j = "lite" THEN c ELSE pending[j]
      /\ pending' \in [Author!Kinds -> Asked]
  <2>1. pending' = [[pending EXCEPT !["preview"] = None] EXCEPT !["lite"] = c]
    BY <1>1 DEF Author!PreviewAnswer
  <2>2. pending \in [Author!Kinds -> Asked] /\ c \in Asked
    BY <1>1, SixKinds DEF AuthorInv, AskedTypes
  <2> QED BY <2>1, <2>2, SixKinds
<1>6. previewed' = previewed \cup {x} /\ previewed' \subseteq Author!Runs
  BY <1>1, <1>2 DEF AuthorInv, DialogTypes, Author!PreviewAnswer
<1>7. /\ unsure \subseteq unsure' /\ unsure' \subseteq Author!Rules
      /\ Author!Other(c) /\ wizard.rule # None => wizard.rule \in unsure'
  BY <1>1 DEF AuthorInv, DialogTypes, Wizards, Author!PreviewAnswer
<1>8. crossed' \in BOOLEAN /\ (~crossed' => ~crossed /\ ~Author!Other(c))
  BY <1>1 DEF AuthorInv, DialogTypes, Author!PreviewAnswer, Author!Other
<1>9. UNCHANGED <<page, enhancer, sandbox, minted>>
  BY DEF Author!PreviewAnswer
<1>10. Author!Kinds = {"upload", "sheet", "generate", "preview", "lite", "save"}
  BY SixKinds
<1>11. AskedTypes /\ DialogTypes
  BY DEF AuthorInv
<1>12. DialogTypes'
  BY <1>1, <1>2, <1>3, <1>4, <1>5, <1>6, <1>7, <1>8, <1>9, <1>10, <1>11 DEF AuthorInv,
     DialogTypes, AuthorNames
<1>13. AskedTypes'
  BY <1>1, <1>2, <1>3, <1>4, <1>5, <1>6, <1>7, <1>8, <1>9, <1>10, <1>11 DEF AuthorInv, AskedTypes
<1>14. Numbered'
  <2>1. wizard'.session # None => wizard'.session <= Len(sandbox') /\ wizard'.sheet # None
    BY <1>3, <1>9 DEF AuthorInv, DialogTypes, Numbered, AuthorNames
  <2>2. wizard'.rule # None => wizard'.rule.n <= minted'
    BY <1>3, <1>9 DEF AuthorInv, Numbered
  <2>3. \A k \in {"sheet", "generate"} : pending'[k] # None =>
          pending'[k].session <= Len(sandbox') /\ pending'[k].opens <= page'.opens
    BY AskedRecords, <1>5, <1>9, <1>10 DEF AuthorInv, Numbered
  <2>4. \A k \in {"preview", "lite", "save"} : pending'[k] # None =>
          pending'[k].session <= Len(sandbox') /\ pending'[k].rule.n <= minted'
    BY AskedRecords, <1>1, <1>5, <1>9, <1>10 DEF AuthorInv, Numbered
  <2> QED BY <2>1, <2>2, <2>3, <2>4 DEF Numbered
<1>15. OneSession'
  BY AskedRecords, <1>1, <1>2, <1>3, <1>4, <1>5, <1>6, <1>7, <1>8, <1>9, <1>10, <1>11
     DEF AuthorInv, DialogTypes, Numbered, OneSession, AuthorNames
<1>16. ResultsFollow'
  <2>1. wizard'.preview # None /\ wizard'.rule # None =>
          <<wizard'.session, wizard'.rule>> \in previewed' \/ wizard'.rule \in unsure'
    BY <1>2, <1>3, <1>4, <1>6, <1>7 DEF AuthorInv, ResultsFollow
  <2>2. pending'["lite"] # None /\ pending'["lite"].session = wizard'.session
          /\ pending'["lite"].rule = wizard'.rule => wizard'.preview = <<wizard'.session, wizard'.rule>>
    BY AskedRecords, <1>2, <1>3, <1>5, <1>10 DEF AuthorInv, DialogTypes, Numbered, ResultsFollow,
       Author!Rules
  <2>3. Author!SavedAsPreviewed'
    BY <1>5, <1>6, <1>7, <1>10 DEF AuthorInv, ResultsFollow, Author!SavedAsPreviewed
  <2> QED BY <2>1, <2>2, <2>3 DEF ResultsFollow
<1>17. PopoverGoes'
  BY AskedRecords, <1>1, <1>2, <1>3, <1>4, <1>5, <1>6, <1>7, <1>8, <1>9, <1>10, <1>11
     DEF AuthorInv, DialogTypes, PopoverGoes
<1>18. Author!StepsHaveTheirPart'
  <2> SUFFICES ASSUME page.open, ~crossed'
               PROVE  /\ wizard.step > 1 => wizard.session # None
                      /\ wizard.step > 3 => wizard.rule # None
                      /\ wizard.step = 6 => /\ x = <<wizard.session, wizard.rule>>
                                             /\ wizard.lite \in {Author!Failed, x}
    BY <1>3, <1>9 DEF Author!StepsHaveTheirPart
  <2>1. ~crossed /\ x = <<wizard.session, wizard.rule>>
    BY <1>2, <1>4, <1>8
  <2> QED BY <2>1 DEF AuthorInv, Author!StepsHaveTheirPart
<1>19. Author!SheetIsTheServers'
  BY AskedRecords, <1>1, <1>2, <1>3, <1>4, <1>5, <1>6, <1>7, <1>8, <1>9, <1>10, <1>11
     DEF AuthorInv, DialogTypes, Numbered, OneSession, PopoverGoes, Author!StepsHaveTheirPart,
     Author!SheetIsTheServers, Author!Shown, Author!Fresh, AuthorNames
<1> QED BY <1>12, <1>13, <1>14, <1>15, <1>16, <1>17, <1>18, <1>19 DEF AuthorInv

LEMMA LiteAnswerStep ==
  ASSUME AuthorNames, AuthorInv, Author!LiteAnswer
  PROVE  AuthorInv'
<1>1. PICK c \in Trying : c = pending["lite"] /\ pending["lite"] # None
  BY DEF AuthorInv, AskedTypes, Author!LiteAnswer
<1>2. PICK lite \in Author!Runs \cup {None, Author!Failed} :
           /\ lite \in {Author!Failed, <<c.session, c.rule>>}
           /\ Author!Show([wizard EXCEPT !.lite = lite, !.step = 6])
  <2>1. <<c.session, c.rule>> \in Author!Runs
    BY DEF Trying, Author!Runs
  <2> QED BY <1>1, <2>1 DEF Author!LiteAnswer
<1>3. wizard' \in Wizards /\ wizard'.lite = lite /\ wizard'.step = 6
      /\ wizard'.session = wizard.session /\ wizard'.sheets = wizard.sheets /\ wizard'.sheet = wizard.sheet /\ wizard'.described = wizard.described /\ wizard'.rule = wizard.rule /\ wizard'.preview = wizard.preview
  <2>1. wizard' = [[wizard EXCEPT !.lite = lite] EXCEPT !.step = 6]
    BY <1>1, <1>2 DEF AuthorInv, DialogTypes, Wizards, Author!LiteAnswer, Author!Show
  <2>2. lite \in Author!Runs \cup {None, Author!Failed} /\ 6 \in {1, 2, 3, 5, 6}
    BY <1>1, <1>2 DEF Wizards
  <2> QED BY <2>1, <2>2 DEF AuthorInv, DialogTypes, Wizards
<1>4. Author!Other(c) <=> ~(c.session = wizard.session /\ c.rule = wizard.rule)
  <2>1. c = [session |-> c.session, rule |-> c.rule]
    BY DEF Trying
  <2> QED BY <2>1 DEF Author!Other, Author!OnScreen
<1>5. /\ \A j \in Author!Kinds : pending'[j] = IF j = "lite" THEN None ELSE pending[j]
      /\ pending' \in [Author!Kinds -> Asked]
  BY SixKinds, OneRequestMoves DEF AuthorInv, Author!LiteAnswer, Author!Settled
<1>6. enhancer' \in Enhancers /\ enhancer' = Author!Fresh
  BY <1>2, FreshIsTyped DEF Author!Show, Wizards, AuthorInv, DialogTypes
<1>7. crossed' \in BOOLEAN /\ (~crossed' => ~crossed /\ ~Author!Other(c))
  BY <1>1 DEF AuthorInv, DialogTypes, Author!LiteAnswer, Author!Other
<1>8. UNCHANGED <<page, sandbox, minted, previewed, unsure>>
  BY DEF Author!LiteAnswer
<1>9. Author!Kinds = {"upload", "sheet", "generate", "preview", "lite", "save"}
  BY SixKinds
<1>10. AskedTypes /\ DialogTypes
  BY DEF AuthorInv
<1>11. DialogTypes'
  BY <1>1, <1>2, <1>3, <1>4, <1>5, <1>6, <1>7, <1>8, <1>9, <1>10 DEF AuthorInv, DialogTypes,
     AuthorNames
<1>12. AskedTypes'
  BY <1>1, <1>2, <1>3, <1>4, <1>5, <1>6, <1>7, <1>8, <1>9, <1>10 DEF AuthorInv, AskedTypes
<1>13. Numbered'
  <2>1. wizard'.session # None => wizard'.session <= Len(sandbox') /\ wizard'.sheet # None
    BY <1>3, <1>8 DEF AuthorInv, DialogTypes, Numbered, AuthorNames
  <2>2. wizard'.rule # None => wizard'.rule.n <= minted'
    BY <1>3, <1>8 DEF AuthorInv, Numbered
  <2>3. \A k \in {"sheet", "generate"} : pending'[k] # None =>
          pending'[k].session <= Len(sandbox') /\ pending'[k].opens <= page'.opens
    BY AskedRecords, <1>5, <1>8, <1>9 DEF AuthorInv, Numbered
  <2>4. \A k \in {"preview", "lite", "save"} : pending'[k] # None =>
          pending'[k].session <= Len(sandbox') /\ pending'[k].rule.n <= minted'
    BY AskedRecords, <1>5, <1>8, <1>9 DEF AuthorInv, Numbered
  <2> QED BY <2>1, <2>2, <2>3, <2>4 DEF Numbered
<1>14. OneSession'
  <2>1. wizard'.step = 1 \/ pending'["upload"] # None => wizard'.session = None
    BY <1>3, <1>5, <1>9 DEF AuthorInv, OneSession
  <2>2. \A k \in {"sheet", "generate"} :
          pending'[k] # None /\ page'.open /\ pending'[k].opens = page'.opens =>
            wizard'.session = pending'[k].session
    BY <1>3, <1>5, <1>8, <1>9 DEF AuthorInv, OneSession
  <2>3. pending'["sheet"] # None /\ pending'["sheet"].session = wizard'.session =>
          pending'["sheet"].opens = page'.opens
    BY <1>3, <1>5, <1>8, <1>9 DEF AuthorInv, OneSession
  <2>4. ASSUME page'.open, ~crossed'
        PROVE  /\ pending'["sheet"] # None /\ pending'["sheet"].opens = page'.opens => wizard'.step = 2
               /\ pending'["generate"] # None /\ pending'["generate"].opens = page'.opens =>
                    wizard'.step >= 3
               /\ wizard'.session = None \/ wizard'.step = 2 => wizard'.rule = None
    BY AskedRecords, <1>1, <1>2, <1>3, <1>5, <1>4, <1>7, <1>8, <1>9, <1>10, <2>4 DEF AuthorInv,
       DialogTypes, OneSession, AuthorNames
  <2> QED BY <2>1, <2>2, <2>3, <2>4 DEF OneSession
<1>15. ResultsFollow'
  <2>1. wizard'.preview # None /\ wizard'.rule # None =>
          <<wizard'.session, wizard'.rule>> \in previewed' \/ wizard'.rule \in unsure'
    BY <1>3, <1>8 DEF AuthorInv, ResultsFollow
  <2>2. pending'["lite"] # None /\ pending'["lite"].session = wizard'.session
          /\ pending'["lite"].rule = wizard'.rule => wizard'.preview = <<wizard'.session, wizard'.rule>>
    BY AskedRecords, <1>3, <1>5, <1>9 DEF AuthorInv, DialogTypes, Numbered, ResultsFollow,
       Author!Rules
  <2>3. Author!SavedAsPreviewed'
    BY <1>5, <1>8, <1>9 DEF AuthorInv, ResultsFollow, Author!SavedAsPreviewed
  <2> QED BY <2>1, <2>2, <2>3 DEF ResultsFollow
<1>16. PopoverGoes'
  BY AskedRecords, <1>1, <1>2, <1>3, <1>4, <1>5, <1>6, <1>7, <1>8, <1>9, <1>10 DEF AuthorInv,
     DialogTypes, PopoverGoes
<1>17. Author!StepsHaveTheirPart'
  BY AskedRecords, <1>1, <1>2, <1>3, <1>4, <1>5, <1>6, <1>7, <1>8, <1>9, <1>10 DEF AuthorInv,
     DialogTypes, Numbered, OneSession, ResultsFollow, Author!StepsHaveTheirPart, AuthorNames
<1>18. Author!SheetIsTheServers'
  <2> SUFFICES ASSUME page.open, ~crossed'
               PROVE  LET ranOn == sandbox[wizard.session].sheet
                      IN  ranOn = wizard.sheet \/ (ranOn = None /\ wizard.sheets = <<wizard.sheet>>)
    BY FreshIsTyped, <1>3, <1>6, <1>8 DEF Author!SheetIsTheServers, Author!Shown
  <2>1. ~crossed /\ wizard.rule # None
    BY AskedRecords, <1>1, <1>4, <1>7, <1>10
  <2>2. wizard.step >= 3
    BY <2>1 DEF AuthorInv, OneSession, DialogTypes, Wizards
  <2> QED BY <2>1, <2>2 DEF AuthorInv, Author!SheetIsTheServers
<1> QED BY <1>11, <1>12, <1>13, <1>14, <1>15, <1>16, <1>17, <1>18 DEF AuthorInv

\* Together.
LEMMA AuthorStep == ASSUME AuthorNames PROVE AuthorInv /\ [Author!Next]_(Author!authoring) => AuthorInv'
<1> SUFFICES ASSUME AuthorInv, [Author!Next]_(Author!authoring) PROVE AuthorInv'
  OBVIOUS
<1>1. CASE UNCHANGED Author!authoring
  BY <1>1 DEF Author!authoring, AuthorInv, DialogTypes, AskedTypes, Numbered, OneSession,
     ResultsFollow,
     PopoverGoes, Author!SavedAsPreviewed, Author!StepsHaveTheirPart, Author!SheetIsTheServers, Author!Shown
<1>2. CASE Author!Next
  BY <1>2, FailsStep, BrowseStep, OpenStep, CloseDialogStep, SaveAnswerStep, SampleStep,
     PickSheetStep,
     GenerateStep, PreviewStep, SaveWrittenStep, UploadAnswerStep, SheetAnswerStep, SheetLostStep, DescribeStep,
     EnhancerStep, GenerateAnswerStep, EditStep, BackStep, PreviewAnswerStep, LiteAnswerStep DEF Author!Next
<1> QED
  BY <1>1, <1>2

LEMMA AuthorIsTrue == AuthorInv => Author!WizardKeepsItsWord
BY DEF AuthorInv, ResultsFollow, Author!WizardKeepsItsWord

LEMMA AuthorIsTyped == AuthorInv => Author!TypeOK
<1> SUFFICES ASSUME AuthorInv PROVE Author!TypeOK
  OBVIOUS
<1>1. wizard.session \in DOMAIN sandbox \cup {None}
  BY DEF AuthorInv, DialogTypes, Wizards, Numbered
<1>2. /\ wizard.sheets \in Author!SampleSheets \cup {<<>>}
      /\ wizard.sheet \in {"A", "B", None} /\ wizard.described \in BOOLEAN
      /\ wizard.rule \in Author!Rules \cup {None} /\ wizard.preview \in Author!Runs \cup {None}
      /\ wizard.lite \in Author!Runs \cup {None, Author!Failed} /\ wizard.step \in {1, 2, 3, 5, 6}
  BY DEF AuthorInv, DialogTypes, Wizards
<1>3. DOMAIN pending = Author!Kinds
  BY DEF AuthorInv, AskedTypes
<1> QED
  BY <1>1, <1>2, <1>3 DEF AuthorInv, DialogTypes, Enhancers, Author!TypeOK

-----------------------------------------------------------------------------
(* The list of processes                                                     *)

LEMMA PlacesAreCounted == \A S : Store!Cardinality(S) = Cardinality(S)
BY DEF Store!Cardinality, Cardinality

\* A finite set is listed with every member once.
LEMMA SetIsListed ==
  ASSUME NEW S, IsFiniteSet(S)
  PROVE  /\ Store!SetToSeq(S) \in Seq(S) /\ DOMAIN Store!SetToSeq(S) = 1 .. Cardinality(S)
         /\ \A x \in S : \E i \in 1 .. Cardinality(S) : Store!SetToSeq(S)[i] = x
         /\ \A i, j \in 1 .. Cardinality(S) : Store!SetToSeq(S)[i] = Store!SetToSeq(S)[j] => i = j
<1>1. PICK n \in Nat : n = Cardinality(S) /\ ExistsBijection(1 .. n, S)
  BY FS_CardinalityType
<1>2. PICK g \in Bijection(1 .. n, S) : TRUE
  BY <1>1 DEF ExistsBijection
<1>3. g \in [1 .. n -> S] /\ \A a, b \in 1 .. n : g[a] = g[b] => a = b
  BY <1>2 DEF Bijection, Injection, IsInjective
<1>4. Store!SetToSeq(S) = CHOOSE f \in [1 .. n -> S] : \A a, b \in DOMAIN f : f[a] = f[b] => a = b
  BY <1>1, PlacesAreCounted DEF Store!SetToSeq, Store!IsInjective
<1>5. PICK s : s = Store!SetToSeq(S)
  OBVIOUS
<1>6. s \in [1 .. n -> S] /\ \A a, b \in 1 .. n : s[a] = s[b] => a = b
  <2>1. \E f \in [1 .. n -> S] : \A a, b \in DOMAIN f : f[a] = f[b] => a = b
    BY <1>3
  <2> QED BY <1>4, <1>5, <2>1
<1>7. s \in Seq(S) /\ DOMAIN s = 1 .. n
  BY <1>6
<1>8. \A x \in S : \E i \in 1 .. n : s[i] = x
  <2>1. s \in Injection(1 .. n, S)
    BY <1>6, Fun_IsInj
  <2>2. Cardinality(1 .. n) = n
    BY FS_Interval
  <2>3. s \in Surjection(1 .. n, S)
    BY <1>1, <2>1, <2>2, FS_Injection
  <2> QED BY <2>3 DEF Surjection
<1> QED BY <1>1, <1>5, <1>6, <1>7, <1>8

\* The n-th of some places is the one with n - 1 of them before it.
LEMMA PlacesInTurn ==
  ASSUME NEW n \in Nat, NEW K, K \subseteq 1 .. n
  PROVE  /\ Store!Cardinality(K) \in Nat
         /\ \A m \in 1 .. Store!Cardinality(K) : Store!Nth(K, m) \in K
         /\ \A m, k \in 1 .. Store!Cardinality(K) : Store!Nth(K, m) = Store!Nth(K, k) => m = k
         /\ \A i \in K : \E m \in 1 .. Store!Cardinality(K) : Store!Nth(K, m) = i
<1>1. IsFiniteSet(K)
  <2>1. IsFiniteSet(1 .. n)
    BY FS_Interval
  <2> QED BY <2>1, FS_Subset
<1>2. PICK c \in Nat : c = Cardinality(K) /\ Store!Cardinality(K) = c
  BY <1>1, FS_CardinalityType, PlacesAreCounted
<1> DEFINE Before(i) == {j \in K : j < i}
           rank == [i \in K |-> Cardinality(Before(i))]
<1>3. \A i \in K : i \in Nat /\ i \in 1 .. n
  OBVIOUS
<1>4. ASSUME NEW i \in K
      PROVE  IsFiniteSet(Before(i)) /\ Cardinality(Before(i)) \in Nat /\ Cardinality(Before(i)) < c
  <2>1. IsFiniteSet(Before(i)) /\ IsFiniteSet(K \ {i}) /\ Cardinality(K \ {i}) = c - 1
    BY <1>1, <1>2, FS_Subset, FS_RemoveElement
  <2>2. Before(i) \subseteq K \ {i}
    BY <1>3
  <2>3. Cardinality(Before(i)) <= c - 1 /\ Cardinality(Before(i)) \in Nat
    BY <2>1, <2>2, FS_Subset, FS_CardinalityType
  <2> QED BY <2>1, <2>3
<1>5. ASSUME NEW i \in K, NEW j \in K, i < j PROVE Cardinality(Before(i)) < Cardinality(Before(j))
  <2>1. Before(i) \subseteq Before(j) \ {i} /\ i \in Before(j)
    <3>1. \A k \in K : k < i => k < j /\ k # i
      BY <1>3, <1>5
    <3> QED BY <1>5, <3>1
  <2>2. IsFiniteSet(Before(j)) /\ Cardinality(Before(j)) \in Nat
    BY <1>4
  <2>3. IsFiniteSet(Before(j) \ {i}) /\ Cardinality(Before(j) \ {i}) = Cardinality(Before(j)) - 1
    BY <2>1, <2>2, FS_RemoveElement
  <2>4. Cardinality(Before(i)) <= Cardinality(Before(j)) - 1 /\ Cardinality(Before(i)) \in Nat
    BY <1>4, <2>1, <2>3, FS_Subset
  <2> QED BY <2>2, <2>4
<1>6. \A i, j \in K : rank[i] = rank[j] => i = j
  <2> SUFFICES ASSUME NEW i \in K, NEW j \in K, i # j PROVE Cardinality(Before(i)) # Cardinality(Before(j))
    OBVIOUS
  <2>1. i < j \/ j < i
    BY <1>3
  <2> QED BY <1>4, <1>5, <2>1
<1>7. rank \in [K -> 0 .. c - 1]
  BY <1>2, <1>4
<1>8. \A m \in 0 .. c - 1 : \E i \in K : rank[i] = m
  <2>1. rank \in Injection(K, 0 .. c - 1)
    BY <1>6, <1>7, Fun_IsInj
  <2>2. IsFiniteSet(0 .. c - 1) /\ Cardinality(0 .. c - 1) = c
    BY FS_Interval
  <2>3. rank \in Surjection(K, 0 .. c - 1)
    BY <1>2, <2>1, <2>2, FS_Injection
  <2> QED BY <2>3 DEF Surjection
<1>9. ASSUME NEW m \in 1 .. c PROVE Store!Nth(K, m) \in K /\ rank[Store!Nth(K, m)] = m - 1
  <2>1. Store!Nth(K, m) = CHOOSE i \in K : Store!Cardinality(Before(i)) = m - 1
    BY DEF Store!Nth
  <2>2. \A i \in K : Store!Cardinality(Before(i)) = rank[i]
    BY PlacesAreCounted
  <2>3. \E i \in K : rank[i] = m - 1
    BY <1>2, <1>8
  <2> HIDE DEF rank, Before
  <2> QED BY <2>1, <2>2, <2>3
<1> HIDE DEF rank
<1>10. ASSUME NEW m \in 1 .. c, NEW k \in 1 .. c, Store!Nth(K, m) = Store!Nth(K, k) PROVE m = k
  BY <1>2, <1>9, <1>10
<1>11. ASSUME NEW i \in K PROVE \E m \in 1 .. c : Store!Nth(K, m) = i
  <2>1. PICK m \in 1 .. c : m - 1 = rank[i]
    <3>1. PICK r \in 0 .. c - 1 : r = rank[i]
      BY <1>7
    <3>2. r + 1 \in 1 .. c /\ r + 1 - 1 = r
      BY <1>2, <3>1
    <3> QED BY <3>1, <3>2
  <2> QED BY <1>6, <1>9, <2>1
<1> QED BY <1>2, <1>9, <1>10, <1>11

Entries == [id : Visible, files : BOOLEAN]

\* Entries share a process only among those of some processes.
Once(l, S) == \A i, j \in DOMAIN l : l[i].id = l[j].id => i = j \/ l[i].id \in S

\* The entries at some positions, in their order.
LEMMA KeptInTurn ==
  ASSUME NEW l \in Seq(Entries), NEW K, K \subseteq DOMAIN l
  PROVE  /\ Store!Kept(l, K) \in Seq(Entries)
         /\ \A i \in K : \E m \in DOMAIN Store!Kept(l, K) : Store!Kept(l, K)[m] = l[i]
         /\ \A m \in DOMAIN Store!Kept(l, K) : \E i \in K : Store!Kept(l, K)[m] = l[i]
         /\ \A S : Once(l, S) => Once(Store!Kept(l, K), S)
<1> HIDE DEF Entries
<1>1. PICK n \in Nat : n = Len(l) /\ DOMAIN l = 1 .. n /\ K \subseteq 1 .. n /\ l \in [1 .. n -> Entries]
  OBVIOUS
<1>2. PICK c \in Nat : c = Store!Cardinality(K)
  BY <1>1, PlacesInTurn
<1>3. PICK at : at = [m \in 1 .. c |-> Store!Nth(K, m)]
  OBVIOUS
<1>4. /\ at \in [1 .. c -> K] /\ \A m, k \in 1 .. c : at[m] = at[k] => m = k
      /\ \A i \in K : \E m \in 1 .. c : at[m] = i
  <2>1. /\ \A m \in 1 .. c : Store!Nth(K, m) \in K
        /\ \A m, k \in 1 .. c : Store!Nth(K, m) = Store!Nth(K, k) => m = k
        /\ \A i \in K : \E m \in 1 .. c : Store!Nth(K, m) = i
    BY <1>1, <1>2, PlacesInTurn
  <2>2. \A m \in 1 .. c : at[m] = Store!Nth(K, m)
    BY <1>3
  <2>3. at \in [1 .. c -> K]
    BY <1>3, <2>1
  <2> QED BY <2>1, <2>2, <2>3
<1>5. PICK w : w = Store!Kept(l, K)
  OBVIOUS
<1>6. DOMAIN w = 1 .. c /\ \A m \in 1 .. c : w[m] = l[at[m]]
  BY <1>2, <1>3, <1>5 DEF Store!Kept
<1>7. w \in Seq(Entries)
  <2>1. w = [m \in 1 .. c |-> l[at[m]]]
    BY <1>2, <1>3, <1>5 DEF Store!Kept
  <2>2. w \in [1 .. c -> Entries]
    BY <1>1, <1>4, <2>1
  <2> QED BY <2>2
<1>8. ASSUME NEW S, Once(l, S) PROVE Once(w, S)
  <2>1. SUFFICES ASSUME NEW m \in 1 .. c, NEW k \in 1 .. c, w[m].id = w[k].id PROVE m = k \/ w[m].id \in S
    BY <1>6 DEF Once
  <2>2. at[m] \in 1 .. n /\ at[k] \in 1 .. n /\ l[at[m]].id = l[at[k]].id
    BY <1>1, <1>4, <1>6, <2>1
  <2>3. at[m] = at[k] \/ l[at[m]].id \in S
    BY <1>1, <1>8, <2>2 DEF Once
  <2> QED BY <1>4, <1>6, <2>3
<1>9. /\ \A i \in K : \E m \in DOMAIN w : w[m] = l[i]
      /\ \A m \in DOMAIN w : \E i \in K : w[m] = l[i]
  <2>1. ASSUME NEW i \in K PROVE \E m \in DOMAIN w : w[m] = l[i]
    <3>1. PICK m \in 1 .. c : at[m] = i
      BY <1>4
    <3> QED BY <1>6, <3>1
  <2>2. ASSUME NEW m \in DOMAIN w PROVE \E i \in K : w[m] = l[i]
    <3>1. m \in 1 .. c /\ at[m] \in K
      BY <1>4, <1>6
    <3> QED BY <1>6, <3>1
  <2> QED BY <2>1, <2>2
<1> QED BY <1>5, <1>7, <1>8, <1>9

\* What is left without a process.
LEMMA LeftWithout ==
  ASSUME NEW l \in Seq(Entries), NEW p, NEW w, w = Store!Without(l, p)
  PROVE  /\ w \in Seq(Entries) /\ Store!Ids(w) = Store!Ids(l) \ {p}
         /\ \A S : Once(l, S) => Once(w, S)
         /\ \A q : q # p /\ Store!HasFiles(l, q) => Store!HasFiles(w, q)
<1> DEFINE K == {i \in DOMAIN l : l[i].id # p}
<1>1. K \subseteq DOMAIN l /\ w = Store!Kept(l, K)
  BY DEF Store!Without
<1> HIDE DEF Entries
<1>2. /\ w \in Seq(Entries)
      /\ \A i \in K : \E m \in DOMAIN w : w[m] = l[i]
      /\ \A m \in DOMAIN w : \E i \in K : w[m] = l[i]
      /\ \A S : Once(l, S) => Once(w, S)
  <2> HIDE DEF K
  <2> QED BY <1>1, KeptInTurn
<1>3. Store!Ids(w) = Store!Ids(l) \ {p}
  <2>1. ASSUME NEW x \in Store!Ids(w) PROVE x \in Store!Ids(l) \ {p}
    <3>1. PICK m \in DOMAIN w : x = w[m].id
      BY DEF Store!Ids
    <3>2. PICK i \in K : w[m] = l[i]
      BY <1>2
    <3> QED BY <3>1, <3>2 DEF Store!Ids
  <2>2. ASSUME NEW x \in Store!Ids(l) \ {p} PROVE x \in Store!Ids(w)
    <3>1. PICK i \in DOMAIN l : x = l[i].id
      BY DEF Store!Ids
    <3>2. PICK m \in DOMAIN w : w[m] = l[i]
      BY <1>2, <2>2, <3>1
    <3> QED BY <3>1, <3>2 DEF Store!Ids
  <2> QED BY <2>1, <2>2
<1>4. ASSUME NEW q, q # p, Store!HasFiles(l, q) PROVE Store!HasFiles(w, q)
  <2>1. PICK i \in DOMAIN l : l[i].id = q /\ l[i].files
    BY <1>4 DEF Store!HasFiles
  <2>2. PICK m \in DOMAIN w : w[m] = l[i]
    BY <1>2, <1>4, <2>1
  <2> QED BY <2>1, <2>2 DEF Store!HasFiles
<1> QED BY <1>2, <1>3, <1>4

\* A list put before another.
LEMMA PutBefore ==
  ASSUME NEW k \in Seq(Entries), NEW e \in Seq(Entries), NEW S, Once(k, S), Once(e, S),
         Store!Ids(k) \cap Store!Ids(e) \subseteq S, NEW w, w = k \o e
  PROVE  /\ w \in Seq(Entries) /\ Store!Ids(w) = Store!Ids(k) \cup Store!Ids(e) /\ Once(w, S)
         /\ \A q : Store!HasFiles(k, q) \/ Store!HasFiles(e, q) => Store!HasFiles(w, q)
<1> HIDE DEF Entries
<1>1. PICK a \in Nat, b \in Nat : a = Len(k) /\ b = Len(e) /\ DOMAIN k = 1 .. a /\ DOMAIN e = 1 .. b
  OBVIOUS
<1>2. /\ k \o e \in Seq(Entries) /\ Len(k \o e) = Len(k) + Len(e)
      /\ \A i \in 1 .. Len(k) + Len(e) : (k \o e)[i] = IF i <= Len(k) THEN k[i] ELSE e[i - Len(k)]
  BY ConcatProperties
<1>3. /\ w \in Seq(Entries) /\ DOMAIN w = 1 .. a + b
      /\ \A i \in 1 .. a + b : w[i] = IF i <= a THEN k[i] ELSE e[i - a]
  BY <1>1, <1>2
<1>4. \A i \in 1 .. a : i \in 1 .. a + b /\ w[i] = k[i]
  BY <1>3
<1>5. ASSUME NEW i \in 1 .. b PROVE i + a \in 1 .. a + b /\ w[i + a] = e[i]
  <2>1. i + a \in 1 .. a + b /\ ~(i + a <= a) /\ i + a - a = i
    OBVIOUS
  <2> QED BY <1>3, <2>1
<1>6. ASSUME NEW m \in 1 .. a + b
      PROVE  m \in 1 .. a \/ \E i \in 1 .. b : m = i + a
  <2>1. CASE m <= a
    BY <2>1
  <2>2. CASE ~(m <= a)
    <3>1. m - a \in 1 .. b /\ m = (m - a) + a
      BY <2>2
    <3> QED BY <3>1
  <2> QED BY <2>1, <2>2
<1>7. Store!Ids(w) = Store!Ids(k) \cup Store!Ids(e)
  <2>1. ASSUME NEW x \in Store!Ids(w) PROVE x \in Store!Ids(k) \cup Store!Ids(e)
    <3>1. PICK m \in 1 .. a + b : x = w[m].id
      BY <1>3 DEF Store!Ids
    <3>2. CASE m \in 1 .. a
      BY <1>1, <1>4, <3>1, <3>2 DEF Store!Ids
    <3>3. ASSUME NEW i \in 1 .. b, m = i + a PROVE x \in Store!Ids(e)
      BY <1>1, <1>5, <3>1, <3>3 DEF Store!Ids
    <3> QED BY <1>6, <3>2, <3>3
  <2>2. Store!Ids(k) \subseteq Store!Ids(w)
    BY <1>1, <1>3, <1>4 DEF Store!Ids
  <2>3. Store!Ids(e) \subseteq Store!Ids(w)
    <3> SUFFICES ASSUME NEW i \in 1 .. b PROVE e[i].id \in Store!Ids(w)
      BY <1>1 DEF Store!Ids
    <3>1. i + a \in DOMAIN w /\ w[i + a] = e[i]
      BY <1>3, <1>5
    <3> QED BY <3>1 DEF Store!Ids
  <2> QED BY <2>1, <2>2, <2>3
<1>8. Once(w, S)
  <2> SUFFICES ASSUME NEW m \in 1 .. a + b, NEW j \in 1 .. a + b, w[m].id = w[j].id
               PROVE  m = j \/ w[m].id \in S
    BY <1>3 DEF Once
  <2>1. CASE m \in 1 .. a /\ j \in 1 .. a
    BY <1>1, <1>4, <2>1 DEF Once
  <2>2. ASSUME NEW i \in 1 .. b, NEW h \in 1 .. b, m = i + a, j = h + a PROVE m = j \/ w[m].id \in S
    <3>1. w[m] = e[i] /\ w[j] = e[h]
      BY <1>5, <2>2
    <3>2. i = h \/ e[i].id \in S
      BY <1>1, <3>1 DEF Once
    <3> QED BY <2>2, <3>1, <3>2
  <2>3. ASSUME NEW i \in 1 .. b, NEW h \in 1 .. a, (m = i + a /\ j = h) \/ (m = h /\ j = i + a)
        PROVE  w[m].id \in S
    <3>1. w[i + a] = e[i] /\ w[h] = k[h] /\ w[i + a].id = w[h].id
      BY <1>4, <1>5, <2>3
    <3>2. w[h].id \in Store!Ids(k) /\ w[h].id \in Store!Ids(e)
      BY <1>1, <3>1 DEF Store!Ids
    <3> QED BY <2>3, <3>1, <3>2
  <2> QED BY <1>6, <2>1, <2>2, <2>3
<1>9. ASSUME NEW q, Store!HasFiles(k, q) \/ Store!HasFiles(e, q) PROVE Store!HasFiles(w, q)
  <2>1. ASSUME NEW i \in 1 .. a, k[i].id = q, k[i].files PROVE Store!HasFiles(w, q)
    BY <1>3, <1>4, <2>1 DEF Store!HasFiles
  <2>2. ASSUME NEW i \in 1 .. b, e[i].id = q, e[i].files PROVE Store!HasFiles(w, q)
    <3>1. i + a \in DOMAIN w /\ w[i + a] = e[i]
      BY <1>3, <1>5
    <3> QED BY <2>2, <3>1 DEF Store!HasFiles
  <2> QED BY <1>1, <1>9, <2>1, <2>2 DEF Store!HasFiles
<1> QED BY <1>3, <1>7, <1>8, <1>9

\* New entries, one for each of some processes.
LEMMA EntriesOfAll ==
  ASSUME VisibleFinite, NEW T, T \subseteq Visible, NEW w, w = Store!SetToSeq({Store!Entry(p) : p \in T})
  PROVE  w \in Seq(Entries) /\ Store!Ids(w) = T /\ \A S : Once(w, S)
<1> DEFINE E == {Store!Entry(p) : p \in T}
<1>1. IsFiniteSet(E)
  <2>1. IsFiniteSet(T)
    BY FS_Subset DEF VisibleFinite
  <2>2. [p \in T |-> Store!Entry(p)] \in Surjection(T, E)
    BY DEF Surjection
  <2> QED BY <2>1, <2>2, FS_Surjection
<1>2. /\ w \in Seq(E) /\ DOMAIN w = 1 .. Cardinality(E)
      /\ \A x \in E : \E i \in 1 .. Cardinality(E) : w[i] = x
      /\ \A i, j \in 1 .. Cardinality(E) : w[i] = w[j] => i = j
  <2> HIDE DEF E
  <2>1. w = Store!SetToSeq(E)
    BY DEF E
  <2> QED BY <1>1, <2>1, SetIsListed
<1>3. \A p \in T : Store!Entry(p) \in Entries /\ Store!Entry(p).id = p
  BY DEF Store!Entry, Entries
<1>4. \A x \in E : x \in Entries /\ x.id \in T /\ x = Store!Entry(x.id)
  BY <1>3
<1>5. PICK c \in Nat : c = Cardinality(E) /\ DOMAIN w = 1 .. c /\ w \in [1 .. c -> E]
  <2> HIDE DEF E
  <2>1. Cardinality(E) \in Nat
    BY <1>1, FS_CardinalityType
  <2>2. w \in [DOMAIN w -> E]
    BY <1>2
  <2> QED BY <1>2, <2>1, <2>2
<1>6. w \in Seq(Entries)
  <2> HIDE DEF E, Entries
  <2>1. w \in [1 .. c -> Entries]
    BY <1>4, <1>5
  <2> QED BY <2>1
<1>7. Store!Ids(w) = T
  <2>1. ASSUME NEW x \in Store!Ids(w) PROVE x \in T
    BY <1>4, <1>5, <2>1 DEF Store!Ids
  <2>2. ASSUME NEW p \in T PROVE p \in Store!Ids(w)
    <3>1. PICK i \in DOMAIN w : w[i] = Store!Entry(p)
      BY <1>2
    <3> QED BY <1>3, <3>1 DEF Store!Ids
  <2> QED BY <2>1, <2>2
<1>8. ASSUME NEW S PROVE Once(w, S)
  <2>1. SUFFICES ASSUME NEW i \in 1 .. c, NEW j \in 1 .. c, w[i].id = w[j].id PROVE i = j
    BY <1>5 DEF Once
  <2>2. w[i] = w[j]
    BY <1>4, <1>5, <2>1
  <2> QED BY <1>2, <1>5, <2>2
<1> QED BY <1>6, <1>7, <1>8

\* What a fetch makes of the list.
LEMMA Reconciled ==
  ASSUME VisibleFinite, NEW l \in Seq(Entries), NEW got, got \subseteq Visible,
         NEW w, w = Store!Reconcile(l, got)
  PROVE  /\ w \in Seq(Entries) /\ Store!Ids(w) = got
         /\ \A S : Once(l, S) => Once(w, S)
         /\ \A q \in got : Store!HasFiles(l, q) => Store!HasFiles(w, q)
<1> HIDE DEF Entries
<1> DEFINE K == {i \in DOMAIN l : l[i].id \in got}
<1>1. PICK k, e : k = Store!Kept(l, K) /\ e = Store!SetToSeq({Store!Entry(p) : p \in got \ Store!Ids(l)})
  OBVIOUS
<1>2. w = k \o e
  BY <1>1 DEF Store!Reconcile
<1>3. /\ k \in Seq(Entries)
      /\ \A i \in K : \E m \in DOMAIN k : k[m] = l[i]
      /\ \A m \in DOMAIN k : \E i \in K : k[m] = l[i]
      /\ \A S : Once(l, S) => Once(k, S)
  <2>1. K \subseteq DOMAIN l
    OBVIOUS
  <2> HIDE DEF K
  <2> QED BY <1>1, <2>1, KeptInTurn
<1>4. e \in Seq(Entries) /\ Store!Ids(e) = got \ Store!Ids(l) /\ \A S : Once(e, S)
  <2>1. got \ Store!Ids(l) \subseteq Visible
    OBVIOUS
  <2> QED BY <1>1, <2>1, EntriesOfAll
<1>5. Store!Ids(k) = got \cap Store!Ids(l)
  <2>1. ASSUME NEW x \in Store!Ids(k) PROVE x \in got \cap Store!Ids(l)
    <3>1. PICK m \in DOMAIN k : x = k[m].id
      BY DEF Store!Ids
    <3>2. PICK i \in K : k[m] = l[i]
      BY <1>3
    <3> QED BY <3>1, <3>2 DEF Store!Ids
  <2>2. ASSUME NEW x \in got \cap Store!Ids(l) PROVE x \in Store!Ids(k)
    <3>1. PICK i \in DOMAIN l : x = l[i].id
      BY DEF Store!Ids
    <3>2. PICK m \in DOMAIN k : k[m] = l[i]
      BY <1>3, <2>2, <3>1
    <3> QED BY <3>1, <3>2 DEF Store!Ids
  <2> QED BY <2>1, <2>2
<1>6. ASSUME NEW S, Once(l, S)
      PROVE  /\ w \in Seq(Entries) /\ Store!Ids(w) = Store!Ids(k) \cup Store!Ids(e) /\ Once(w, S)
             /\ \A q : Store!HasFiles(k, q) \/ Store!HasFiles(e, q) => Store!HasFiles(w, q)
  <2>1. Store!Ids(k) \cap Store!Ids(e) \subseteq S
    BY <1>4, <1>5
  <2>2. Once(k, S) /\ Once(e, S)
    BY <1>3, <1>4, <1>6
  <2> QED BY <1>2, <1>3, <1>4, <2>1, <2>2, PutBefore
<1>7. Once(l, Store!Ids(l))
  BY DEF Once, Store!Ids
<1>8. ASSUME NEW q \in got, Store!HasFiles(l, q) PROVE Store!HasFiles(w, q)
  <2>1. PICK i \in DOMAIN l : l[i].id = q /\ l[i].files
    BY <1>8 DEF Store!HasFiles
  <2>2. PICK m \in DOMAIN k : k[m] = l[i]
    BY <1>3, <2>1
  <2>3. Store!HasFiles(k, q)
    BY <2>1, <2>2 DEF Store!HasFiles
  <2> QED BY <1>6, <1>7, <2>3
<1>9. Store!Ids(w) = got
  BY <1>4, <1>5, <1>6, <1>7
<1> QED BY <1>6, <1>7, <1>8, <1>9

\* Entries changed in their places.
LEMMA ChangedInPlace ==
  ASSUME NEW l \in Seq(Entries), NEW w \in Seq(Entries), DOMAIN w = DOMAIN l,
         \A i \in DOMAIN l : w[i].id = l[i].id /\ (l[i].files => w[i].files)
  PROVE  /\ Store!Ids(w) = Store!Ids(l)
         /\ \A S : Once(l, S) => Once(w, S)
         /\ \A q : Store!HasFiles(l, q) => Store!HasFiles(w, q)
<1>1. Store!Ids(w) = Store!Ids(l)
  <2>1. ASSUME NEW x \in Store!Ids(w) PROVE x \in Store!Ids(l)
    BY DEF Store!Ids
  <2>2. ASSUME NEW x \in Store!Ids(l) PROVE x \in Store!Ids(w)
    BY DEF Store!Ids
  <2> QED BY <2>1, <2>2
<1>2. \A S : Once(l, S) => Once(w, S)
  BY DEF Once
<1>3. \A q : Store!HasFiles(l, q) => Store!HasFiles(w, q)
  BY DEF Store!HasFiles
<1> QED BY <1>1, <1>2, <1>3

LEMMA FirstIsListed ==
  ASSUME NEW l \in Seq(Entries)
  PROVE  Store!FirstOf(l) \in Store!Ids(l) \cup {None} /\ Store!Ids(l) \subseteq Visible
<1>1. Store!Ids(l) \subseteq Visible
  <2> SUFFICES ASSUME NEW i \in DOMAIN l PROVE l[i].id \in Visible
    BY DEF Store!Ids
  <2>1. l[i] \in Entries
    OBVIOUS
  <2> QED BY <2>1 DEF Entries
<1>2. CASE l = <<>>
  BY <1>1, <1>2 DEF Store!FirstOf
<1>3. CASE l # <<>>
  <2>1. 1 \in DOMAIN l /\ Head(l) = l[1]
    BY <1>3
  <2> QED BY <1>1, <1>3, <2>1 DEF Store!FirstOf, Store!Ids
<1> QED BY <1>2, <1>3

Fetches ==
  {Store!NoFetch} \cup [pc : {"sent"}] \cup [pc : {"served"}, got : SUBSET Visible]
    \cup [pc : {"fallback"}, got : Seq(Entries)]
OwnOps == [pc : {"sent", "served"}, kind : {"create", "update", "delete"}, id : Visible]

StoreTypes ==
  /\ server \in [Visible -> {"none", "live", "gone"}]
  /\ list \in Seq(Entries) /\ saved \in Seq(Entries) /\ active \in Visible \cup {None}
  /\ fetch \in Fetches /\ op \in OwnOps \cup {Store!NoOp}
  /\ news \subseteq Visible /\ twice \subseteq Visible /\ overtaken \in BOOLEAN

Creating(pc) == op \in OwnOps /\ op.kind = "create" /\ op.pc = pc

\* What no server has yet is in no list, and a create under way finds its process
\* listed only where a fetch has brought it.
StoreInTurn ==
  /\ active \in Store!Ids(list) \cup {None} /\ Once(list, twice)
  /\ \A p \in Visible : server[p] = "none" =>
       p \notin Store!Ids(list) /\ (fetch.pc = "served" => p \notin fetch.got)
  /\ Creating("sent") => server[op.id] = "none"
  /\ Creating("served") => server[op.id] # "none" /\ (op.id \in Store!Ids(list) => op.id \in twice)

StoreInv == StoreTypes /\ (overtaken \/ StoreInTurn)

FilesKept ==
  \A p \in Store!Ids(list) \cap Store!Ids(list') : Store!HasFiles(list, p) => Store!HasFiles(list', p)

ListGoesOn == StoreTypes' /\ (overtaken' \/ StoreInTurn') /\ (~overtaken' => FilesKept)

LEMMA OpsAreSome == Store!NoOp \notin OwnOps /\ \A o \in OwnOps : o # Store!NoOp
<1>1. \A o \in OwnOps : DOMAIN o = {"pc", "kind", "id"}
  BY DEF OwnOps
<1>2. DOMAIN Store!NoOp = {"pc"} /\ "id" # "pc"
  BY DEF Store!NoOp
<1> QED BY <1>1, <1>2

LEMMA StoreStarts == VisibleFinite /\ Store!Init => StoreInv
<1> SUFFICES ASSUME VisibleFinite, Store!Init PROVE StoreInv
  OBVIOUS
<1> HIDE DEF Entries
<1>1. PICK seen \in SUBSET Visible :
        /\ server = [p \in Visible |-> IF p \in seen THEN "live" ELSE "none"]
        /\ list = Store!SetToSeq({Store!Entry(p) : p \in seen})
  BY DEF Store!Init
<1>2. list \in Seq(Entries) /\ Store!Ids(list) = seen /\ Once(list, {})
  BY <1>1, EntriesOfAll
<1>3. active \in Store!Ids(list) \cup {None} /\ saved = list
  BY <1>2, FirstIsListed DEF Store!Init
<1>4. fetch = Store!NoFetch /\ op = Store!NoOp /\ news = {} /\ twice = {} /\ overtaken = FALSE
  BY DEF Store!Init
<1>5. ~Creating("sent") /\ ~Creating("served") /\ fetch.pc # "served"
  BY <1>4, OpsAreSome DEF Creating, Store!NoFetch
<1>6. StoreTypes
  <2>1. server \in [Visible -> {"none", "live", "gone"}] /\ active \in Visible \cup {None}
    BY <1>1, <1>2, <1>3
  <2>2. fetch \in Fetches /\ op \in OwnOps \cup {Store!NoOp}
    BY <1>4 DEF Fetches
  <2> QED BY <1>2, <1>3, <1>4, <2>1, <2>2 DEF StoreTypes
<1>7. StoreInTurn
  BY <1>1, <1>2, <1>3, <1>4, <1>5 DEF StoreInTurn
<1> QED BY <1>6, <1>7 DEF StoreInv

\* The list rests.
LEMMA ListRests ==
  ASSUME StoreTypes, StoreInTurn, UNCHANGED <<list, twice>>
  PROVE  FilesKept /\ Once(list', twice') /\ list' \in Seq(Entries) /\ twice' \subseteq Visible
BY DEF FilesKept, StoreTypes, StoreInTurn

LEMMA ServerChanges ==
  ASSUME VisibleFinite, StoreTypes, StoreInTurn, ~overtaken,
         \E p \in Visible : Store!OthersCreate(p) \/ Store!OthersDelete(p)
  PROVE  ListGoesOn
<1>1. PICK p \in Visible : Store!OthersCreate(p) \/ Store!OthersDelete(p)
  OBVIOUS
<1>2. /\ UNCHANGED <<list, active, saved, fetch, op, twice, overtaken>> /\ news' \subseteq Visible
      /\ server' = [server EXCEPT ![p] = "live"] \/ server' = [server EXCEPT ![p] = "gone"]
      /\ server[p] = "none" => op # [pc |-> "sent", kind |-> "create", id |-> p]
  BY <1>1 DEF Store!OthersCreate, Store!OthersDelete, StoreTypes
<1>3. FilesKept /\ Once(list', twice') /\ list' \in Seq(Entries) /\ twice' \subseteq Visible
  BY <1>2, ListRests
<1>4. server' \in [Visible -> {"none", "live", "gone"}] /\ \A q \in Visible : server'[q] = "none" => server[q] = "none"
  BY <1>2 DEF StoreTypes
<1>5. Creating("sent")' => server'[op'.id] = "none"
  <2> SUFFICES ASSUME Creating("sent") PROVE server'[op.id] = "none"
    BY <1>2 DEF Creating
  <2>1. server[op.id] = "none" /\ op.id \in Visible
    BY DEF StoreInTurn, Creating, OwnOps
  <2>2. op = [pc |-> "sent", kind |-> "create", id |-> op.id]
    BY DEF Creating, OwnOps
  <2>3. op.id # p
    BY <1>2, <2>1, <2>2
  <2> QED BY <1>2, <2>1, <2>3 DEF StoreTypes
<1>6. StoreTypes'
  BY <1>2, <1>3, <1>4 DEF StoreTypes
<1>7. Creating("served")' => server'[op'.id] # "none" /\ (op'.id \in Store!Ids(list') => op'.id \in twice')
  BY <1>2, <1>4 DEF StoreInTurn, Creating, OwnOps
<1>8. StoreInTurn'
  BY <1>2, <1>3, <1>4, <1>5, <1>7 DEF StoreInTurn
<1> QED BY <1>3, <1>6, <1>8 DEF ListGoesOn

LEMMA FetchGoesOut ==
  ASSUME VisibleFinite, StoreTypes, StoreInTurn, ~overtaken,
         Store!SendFetch \/ Store!ServeFetch \/ Store!FetchFails
  PROVE  ListGoesOn
<1>1. UNCHANGED <<server, list, active, saved, op, news, twice, overtaken>>
  BY DEF Store!SendFetch, Store!ServeFetch, Store!FetchFails
<1>2. FilesKept /\ Once(list', twice') /\ list' \in Seq(Entries) /\ twice' \subseteq Visible
  BY <1>1, ListRests
<1>3. Store!Live \subseteq Visible /\ \A p \in Visible : server[p] = "none" => p \notin Store!Live
  BY DEF Store!Live
<1>4. /\ fetch' \in Fetches
      /\ \A p \in Visible : server[p] = "none" /\ fetch'.pc = "served" => p \notin fetch'.got
  <2>1. CASE Store!SendFetch
    BY <2>1 DEF Store!SendFetch, Fetches
  <2>2. CASE Store!ServeFetch
    BY <1>3, <2>2 DEF Store!ServeFetch, Fetches
  <2>3. CASE Store!FetchFails
    BY <2>3 DEF Store!FetchFails, Fetches, StoreTypes
  <2> QED BY <2>1, <2>2, <2>3
<1>5. StoreTypes'
  BY <1>1, <1>2, <1>4 DEF StoreTypes
<1>6. StoreInTurn'
  BY <1>1, <1>2, <1>4 DEF StoreInTurn, Creating
<1> QED BY <1>2, <1>5, <1>6 DEF ListGoesOn

LEMMA ListIsLeft ==
  ASSUME VisibleFinite, StoreTypes, StoreInTurn, ~overtaken,
         Store!SaveLater \/ Store!FallBack \/ \E p \in Visible : Store!Select(p)
  PROVE  ListGoesOn
<1>1. /\ UNCHANGED <<server, op, news, twice>> /\ fetch' \in {fetch, Store!NoFetch}
      /\ saved' \in {saved, list}
      /\ active' = active \/ active' \in Store!Ids(list)
  BY DEF Store!SaveLater, Store!FallBack, Store!Select
<1>2. overtaken = FALSE
  BY DEF StoreTypes
<1>3. /\ fetch' \in Fetches /\ (fetch'.pc = "served" => fetch' = fetch)
      /\ saved' \in Seq(Entries) /\ active' \in Visible \cup {None}
  BY <1>1, FirstIsListed DEF Store!NoFetch, Fetches, StoreTypes
<1>4. CASE list' = list
  <2>1. FilesKept /\ Once(list', twice') /\ list' \in Seq(Entries) /\ twice' \subseteq Visible
    BY <1>1, <1>4, ListRests
  <2>2. overtaken' = FALSE
    <3>1. ASSUME Store!FallBack PROVE overtaken' = FALSE
      BY <1>2, <1>4, <3>1, Zenon DEF Store!FallBack
    <3>2. ASSUME ~Store!FallBack PROVE overtaken' = overtaken
      BY <3>2 DEF Store!SaveLater, Store!Select
    <3> QED BY <1>2, <3>1, <3>2
  <2>3. StoreTypes'
    BY <1>1, <1>3, <2>1, <2>2 DEF StoreTypes
  <2>4. StoreInTurn'
    BY <1>1, <1>3, <1>4, <2>1 DEF StoreInTurn, Creating
  <2> QED BY <2>1, <2>3, <2>4 DEF ListGoesOn
<1>5. CASE list' # list
  <2>1. Store!FallBack /\ list' = fetch.got /\ overtaken' = TRUE
    BY <1>5 DEF Store!SaveLater, Store!FallBack, Store!Select
  <2>2. list' \in Seq(Entries)
    BY <2>1 DEF Store!FallBack, StoreTypes, Fetches, Store!NoFetch
  <2>3. StoreTypes'
    BY <1>1, <1>3, <2>1, <2>2 DEF StoreTypes
  <2> QED BY <2>1, <2>3 DEF ListGoesOn
<1> QED BY <1>4, <1>5

LEMMA OpGoesOut ==
  ASSUME VisibleFinite, StoreTypes, StoreInTurn, ~overtaken,
         Store!ServeOp \/ \E p \in Visible, kind \in {"create", "update", "delete"} : Store!SendOp(kind, p)
  PROVE  ListGoesOn
<1>1. UNCHANGED <<list, active, saved, fetch, news, twice, overtaken>>
  BY DEF Store!ServeOp, Store!SendOp
<1>2. FilesKept /\ Once(list', twice') /\ list' \in Seq(Entries) /\ twice' \subseteq Visible
  BY <1>1, ListRests
<1>3. ASSUME NEW p \in Visible, NEW kind \in {"create", "update", "delete"}, Store!SendOp(kind, p)
      PROVE  ListGoesOn
  <2>1. /\ op' = [pc |-> "sent", kind |-> kind, id |-> p] /\ server' = server
        /\ kind = "create" => server[p] = "none"
    BY <1>3 DEF Store!SendOp
  <2>2. op' \in OwnOps /\ op'.kind = kind /\ op'.pc = "sent" /\ op'.id = p
    BY <2>1 DEF OwnOps
  <2>3. StoreTypes'
    BY <1>1, <1>2, <2>1, <2>2 DEF StoreTypes
  <2>4. StoreInTurn'
    BY <1>1, <1>2, <2>1, <2>2 DEF StoreInTurn, Creating
  <2> QED BY <1>2, <2>3, <2>4 DEF ListGoesOn
<1>4. ASSUME Store!ServeOp PROVE ListGoesOn
  <2>1. op \in OwnOps /\ op.pc = "sent"
    BY <1>4 DEF Store!ServeOp, StoreTypes
  <2>2. CASE op' = Store!NoOp /\ UNCHANGED server
    <3>1. ~Creating("sent")' /\ ~Creating("served")'
      BY <2>2, OpsAreSome DEF Creating
    <3>2. StoreTypes'
      BY <1>1, <1>2, <2>2 DEF StoreTypes
    <3>3. StoreInTurn'
      BY <1>1, <1>2, <2>2, <3>1 DEF StoreInTurn
    <3> QED BY <1>2, <3>2, <3>3 DEF ListGoesOn
  <2>3. ASSUME op' = [op EXCEPT !.pc = "served"],
               server' = [server EXCEPT ![op.id] = IF op.kind = "delete" THEN "gone" ELSE "live"]
        PROVE  ListGoesOn
    <3>1. op' \in OwnOps /\ op'.pc = "served" /\ op'.id = op.id /\ op'.kind = op.kind
      BY <2>1, <2>3 DEF OwnOps
    <3>2. server' \in [Visible -> {"none", "live", "gone"}] /\ \A q \in Visible : server'[q] = "none" => server[q] = "none"
      BY <2>3 DEF StoreTypes
    <3>3. Creating("served")' => server'[op'.id] # "none" /\ op'.id \notin Store!Ids(list)
      <4>1. SUFFICES ASSUME op.kind = "create" PROVE server'[op.id] # "none" /\ op.id \notin Store!Ids(list)
        BY <3>1 DEF Creating
      <4>2. server[op.id] = "none" /\ op.id \in Visible
        BY <2>1, <4>1 DEF StoreInTurn, Creating, OwnOps
      <4>3. server'[op.id] = "live"
        BY <2>3, <4>1, <4>2 DEF StoreTypes
      <4> QED BY <4>2, <4>3 DEF StoreInTurn
    <3>4. ~Creating("sent")'
      BY <3>1 DEF Creating
    <3>5. StoreTypes'
      BY <1>1, <1>2, <3>1, <3>2 DEF StoreTypes
    <3>6. StoreInTurn'
      BY <1>1, <1>2, <3>2, <3>3, <3>4 DEF StoreInTurn
    <3> QED BY <1>2, <3>5, <3>6 DEF ListGoesOn
  <2> QED BY <1>4, <2>2, <2>3 DEF Store!ServeOp
<1> QED BY <1>3, <1>4

\* A process leaves the list.
LEMMA ListShrinks ==
  ASSUME VisibleFinite, StoreTypes, StoreInTurn, ~overtaken,
         Store!DeleteArrives \/ \E p \in Visible : Store!Evict(p)
  PROVE  ListGoesOn
<1> HIDE DEF Entries
<1>1. /\ UNCHANGED <<server, fetch, twice, overtaken>> /\ news' \subseteq Visible
      /\ op' = op \/ op' = Store!NoOp
  BY DEF Store!DeleteArrives, Store!Evict, StoreTypes
<1>2. ASSUME UNCHANGED <<list, saved, active>> PROVE ListGoesOn
  <2>1. FilesKept /\ Once(list', twice') /\ list' \in Seq(Entries) /\ twice' \subseteq Visible
    BY <1>1, <1>2, ListRests
  <2>2. StoreTypes'
    BY <1>1, <1>2, <2>1 DEF StoreTypes
  <2>3. StoreInTurn'
    BY <1>1, <1>2, <2>1, OpsAreSome DEF StoreInTurn, Creating
  <2> QED BY <2>1, <2>2, <2>3 DEF ListGoesOn
<1>3. ASSUME NEW p \in Visible, list' = Store!Without(list, p), saved' = list',
             active' = IF active = p THEN Store!FirstOf(list') ELSE active
      PROVE  ListGoesOn
  <2>1. list \in Seq(Entries)
    BY DEF StoreTypes
  <2>2. /\ list' \in Seq(Entries) /\ Store!Ids(list') = Store!Ids(list) \ {p}
        /\ \A S : Once(list, S) => Once(list', S)
        /\ \A q : q # p /\ Store!HasFiles(list, q) => Store!HasFiles(list', q)
    BY <1>3, <2>1, LeftWithout
  <2>3. Store!FirstOf(list') \in Store!Ids(list') \cup {None} /\ Store!Ids(list') \subseteq Visible
    BY <2>2, FirstIsListed
  <2>4. active' \in Store!Ids(list') \cup {None}
    BY <1>3, <2>2, <2>3 DEF StoreInTurn
  <2>5. FilesKept
    BY <2>2 DEF FilesKept
  <2>6. StoreTypes'
    BY <1>1, <1>3, <2>2, <2>3, <2>4 DEF StoreTypes
  <2>7. Once(list', twice')
    BY <1>1, <2>2 DEF StoreInTurn
  <2>8. /\ \A q \in Visible : server'[q] = "none" => q \notin Store!Ids(list') /\ (fetch'.pc = "served" => q \notin fetch'.got)
        /\ Creating("sent")' => server'[op'.id] = "none"
        /\ Creating("served")' => server'[op'.id] # "none" /\ (op'.id \in Store!Ids(list') => op'.id \in twice')
    BY <1>1, <2>2, OpsAreSome DEF StoreInTurn, Creating
  <2>9. StoreInTurn'
    BY <2>4, <2>7, <2>8 DEF StoreInTurn
  <2> QED BY <2>5, <2>6, <2>9 DEF ListGoesOn
<1>4. ASSUME Store!DeleteArrives PROVE ListGoesOn
  <2>1. op.id \in Visible
    BY <1>4 DEF Store!DeleteArrives, StoreTypes, OwnOps
  <2>2. PICK p \in Visible : p = op.id
    BY <2>1
  <2>3. list' = Store!Without(list, p) /\ saved' = list' /\ active' = IF active = p THEN Store!FirstOf(list') ELSE active
    BY <1>4, <2>2 DEF Store!DeleteArrives
  <2> QED BY <1>3, <2>3
<1>5. ASSUME NEW p \in Visible, Store!Evict(p) PROVE ListGoesOn
  <2>1. \/ UNCHANGED <<list, saved, active>>
        \/ list' = Store!Without(list, p) /\ saved' = list'
             /\ active' = (IF active = p THEN Store!FirstOf(list') ELSE active)
    BY <1>5 DEF Store!Evict
  <2> QED BY <1>2, <1>3, <2>1
<1> QED BY <1>4, <1>5

\* A fetch brings the list of the server.
LEMMA ListIsFetched ==
  ASSUME VisibleFinite, StoreTypes, StoreInTurn, ~overtaken, Store!FetchArrives
  PROVE  ListGoesOn
<1> HIDE DEF Entries
<1>1. PICK got \in SUBSET Visible : got = fetch.got
  BY DEF Store!FetchArrives, StoreTypes, Fetches, Store!NoFetch
<1>2. /\ fetch.pc = "served" /\ fetch' = Store!NoFetch /\ list' = Store!Reconcile(list, got) /\ saved' = list'
      /\ active' = IF active \in Store!Ids(list') THEN active ELSE Store!FirstOf(list')
      /\ UNCHANGED <<server, op, news, overtaken>>
      /\ twice' = IF op # Store!NoOp /\ op.kind = "create" /\ op.id \in got THEN twice \cup {op.id} ELSE twice
  BY <1>1 DEF Store!FetchArrives
<1>3. list \in Seq(Entries)
  BY DEF StoreTypes
<1>4. /\ list' \in Seq(Entries) /\ Store!Ids(list') = got
      /\ \A S : Once(list, S) => Once(list', S)
      /\ \A q \in got : Store!HasFiles(list, q) => Store!HasFiles(list', q)
  BY <1>2, <1>3, Reconciled
<1>5. Store!FirstOf(list') \in Store!Ids(list') \cup {None}
  BY <1>4, FirstIsListed
<1>6. active' \in Store!Ids(list') \cup {None}
  BY <1>2, <1>5
<1>7. twice \subseteq twice' /\ twice' \subseteq Visible
  BY <1>1, <1>2, <1>4 DEF StoreTypes
<1>8. fetch' \in Fetches /\ fetch'.pc # "served"
  BY <1>2 DEF Fetches, Store!NoFetch
<1>9. StoreTypes'
  BY <1>2, <1>4, <1>6, <1>7, <1>8 DEF StoreTypes
<1>10. Once(list', twice')
  <2>1. Once(list', twice)
    BY <1>4 DEF StoreInTurn
  <2> QED BY <1>7, <2>1 DEF Once
<1>11. \A p \in Visible : server[p] = "none" => p \notin got
  BY <1>1, <1>2 DEF StoreInTurn
<1>12. Creating("served") => server[op.id] # "none" /\ (op.id \in got => op.id \in twice')
  BY <1>2, OpsAreSome DEF StoreInTurn, Creating
<1>13. StoreInTurn'
  BY <1>2, <1>4, <1>6, <1>8, <1>10, <1>11, <1>12 DEF StoreInTurn, Creating
<1>14. FilesKept
  BY <1>4 DEF FilesKept
<1> QED BY <1>9, <1>13, <1>14 DEF ListGoesOn

\* The answer to a create puts the new process first.
LEMMA ProcessIsAdded ==
  ASSUME VisibleFinite, StoreTypes, StoreInTurn, ~overtaken, Store!CreateArrives
  PROVE  ListGoesOn
<1>1. op \in OwnOps /\ op.pc = "served" /\ op.kind = "create" /\ op.id \in Visible
  BY DEF Store!CreateArrives, StoreTypes, OwnOps
<1>2. PICK e \in Entries : e = Store!Entry(op.id)
  BY <1>1 DEF Entries, Store!Entry
<1>3. e.id = op.id
  BY <1>2 DEF Store!Entry
<1> HIDE DEF Entries
<1>4. /\ list' = <<e>> \o list /\ active' = op.id /\ saved' = list' /\ op' = Store!NoOp
      /\ UNCHANGED <<server, fetch, news, twice, overtaken>>
  BY <1>2 DEF Store!CreateArrives
<1>5. <<e>> \in Seq(Entries) /\ Store!Ids(<<e>>) = {op.id} /\ Once(<<e>>, twice)
  <2>1. <<e>> \in Seq(Entries) /\ DOMAIN <<e>> = {1} /\ <<e>>[1] = e
    OBVIOUS
  <2> QED BY <1>3, <2>1 DEF Store!Ids, Once
<1>6. /\ list' \in Seq(Entries) /\ Store!Ids(list') = {op.id} \cup Store!Ids(list) /\ Once(list', twice)
      /\ \A q : Store!HasFiles(list, q) => Store!HasFiles(list', q)
  <2>1. Store!Ids(<<e>>) \cap Store!Ids(list) \subseteq twice
    BY <1>1, <1>5 DEF StoreInTurn, Creating
  <2>2. list \in Seq(Entries) /\ Once(list, twice)
    BY DEF StoreTypes, StoreInTurn
  <2> QED BY <1>4, <1>5, <2>1, <2>2, PutBefore
<1>7. ~Creating("sent")' /\ ~Creating("served")'
  BY <1>4, OpsAreSome DEF Creating
<1>8. server[op.id] # "none"
  BY <1>1 DEF StoreInTurn, Creating
<1>9. StoreTypes'
  BY <1>1, <1>4, <1>6 DEF StoreTypes
<1>10. StoreInTurn'
  BY <1>4, <1>6, <1>7, <1>8 DEF StoreInTurn
<1>11. FilesKept
  BY <1>6 DEF FilesKept
<1> QED BY <1>9, <1>10, <1>11 DEF ListGoesOn

\* Entries are changed in their places.
LEMMA EntriesChange ==
  ASSUME VisibleFinite, StoreTypes, StoreInTurn, ~overtaken,
         Store!UpdateArrives \/ \E p \in Visible : Store!Upload(p)
  PROVE  ListGoesOn
<1>1. UNCHANGED <<server, active, fetch, news, twice, overtaken>>
  BY DEF Store!UpdateArrives, Store!Upload
<1>2. /\ op' = op \/ op' = Store!NoOp
      /\ saved' = saved \/ saved' = list'
  BY DEF Store!UpdateArrives, Store!Upload
<1>3. PICK n \in Nat : n = Len(list) /\ DOMAIN list = 1 .. n
  BY DEF StoreTypes
<1>4. \A i \in 1 .. n : list[i] \in Entries
  BY <1>3 DEF StoreTypes
<1>5. ASSUME NEW i \in 1 .. n
      PROVE  list'[i] \in Entries /\ list'[i].id = list[i].id /\ (list[i].files => list'[i].files)
  <2>1. PICK e \in Entries : e = list[i]
    BY <1>4
  <2>2. CASE Store!UpdateArrives
    <3>1. list'[i] = IF e.id = op.id THEN Store!Refreshed(e) ELSE e
      BY <1>3, <2>1, <2>2 DEF Store!UpdateArrives
    <3>2. Store!Refreshed(e) \in Entries /\ Store!Refreshed(e).id = e.id /\ Store!Refreshed(e).files = e.files
      BY <2>1 DEF Store!Refreshed, Store!Entry, Entries
    <3> QED BY <2>1, <3>1, <3>2
  <2>3. ASSUME NEW p \in Visible, Store!Upload(p)
        PROVE  list'[i] \in Entries /\ list'[i].id = list[i].id /\ (list[i].files => list'[i].files)
    <3>1. list'[i] = IF e.id = p THEN [e EXCEPT !.files = TRUE] ELSE e
      BY <1>3, <2>1, <2>3 DEF Store!Upload
    <3>2. /\ [e EXCEPT !.files = TRUE] \in Entries /\ [e EXCEPT !.files = TRUE].id = e.id
          /\ [e EXCEPT !.files = TRUE].files = TRUE
      BY <2>1 DEF Entries
    <3> QED BY <2>1, <3>1, <3>2
  <2> QED BY <2>2, <2>3
<1> HIDE DEF Entries
<1>6. DOMAIN list' = 1 .. n /\ list' \in Seq(Entries)
  <2>1. DOMAIN list' = 1 .. n /\ list' = [i \in 1 .. n |-> list'[i]]
    BY <1>3 DEF Store!UpdateArrives, Store!Upload
  <2>2. list' \in [1 .. n -> Entries]
    BY <1>5, <2>1
  <2> QED BY <2>1, <2>2
<1>7. list \in Seq(Entries)
  BY DEF StoreTypes
<1>8. /\ Store!Ids(list') = Store!Ids(list) /\ \A S : Once(list, S) => Once(list', S)
      /\ \A q : Store!HasFiles(list, q) => Store!HasFiles(list', q)
  BY <1>3, <1>5, <1>6, <1>7, ChangedInPlace
<1>9. FilesKept
  BY <1>8 DEF FilesKept
<1>10. StoreTypes'
  BY <1>1, <1>2, <1>6 DEF StoreTypes
<1>11. /\ Creating("sent")' => server'[op'.id] = "none"
       /\ Creating("served")' => server'[op'.id] # "none" /\ (op'.id \in Store!Ids(list') => op'.id \in twice')
  BY <1>1, <1>2, <1>8, OpsAreSome DEF StoreInTurn, Creating
<1>12. StoreInTurn'
  BY <1>1, <1>8, <1>11 DEF StoreInTurn
<1> QED BY <1>9, <1>10, <1>12 DEF ListGoesOn

\* Every step keeps the list whole and what is only in the browser.
LEMMA StoreSteps ==
  ASSUME VisibleFinite, StoreInv, ~overtaken, Store!Next
  PROVE  ListGoesOn
<1>1. StoreTypes /\ StoreInTurn
  BY DEF StoreInv
<1>2. CASE Store!SendFetch \/ Store!ServeFetch \/ Store!FetchFails
  BY <1>1, <1>2, FetchGoesOut
<1>3. CASE Store!SaveLater \/ Store!FallBack \/ \E p \in Visible : Store!Select(p)
  BY <1>1, <1>3, ListIsLeft
<1>4. CASE Store!ServeOp \/ \E p \in Visible, kind \in {"create", "update", "delete"} : Store!SendOp(kind, p)
  BY <1>1, <1>4, OpGoesOut
<1>5. CASE \E p \in Visible : Store!OthersCreate(p) \/ Store!OthersDelete(p)
  BY <1>1, <1>5, ServerChanges
<1>6. CASE Store!DeleteArrives \/ \E p \in Visible : Store!Evict(p)
  BY <1>1, <1>6, ListShrinks
<1>7. CASE Store!UpdateArrives \/ \E p \in Visible : Store!Upload(p)
  BY <1>1, <1>7, EntriesChange
<1>8. CASE Store!FetchArrives
  BY <1>1, <1>8, ListIsFetched
<1>9. CASE Store!CreateArrives
  BY <1>1, <1>9, ProcessIsAdded
<1> QED BY <1>2, <1>3, <1>4, <1>5, <1>6, <1>7, <1>8, <1>9 DEF Store!Next

LEMMA StoreStep ==
  ASSUME VisibleFinite
  PROVE  StoreInv /\ [~overtaken /\ Store!Next]_(Store!vars) => StoreInv'
<1>1. ASSUME StoreInv, ~overtaken, Store!Next PROVE StoreInv'
  BY <1>1, StoreSteps DEF ListGoesOn, StoreInv
<1>2. ASSUME StoreInv, UNCHANGED Store!vars PROVE StoreInv'
  BY <1>2 DEF StoreInv, StoreTypes, StoreInTurn, Store!vars, Creating
<1> QED BY <1>1, <1>2

LEMMA ListIsWhole == StoreInv => Store!ListIsConsistent /\ Store!TypeOK
<1> SUFFICES ASSUME StoreInv PROVE Store!ListIsConsistent /\ Store!TypeOK
  OBVIOUS
<1>1. StoreTypes /\ (overtaken \/ StoreInTurn)
  BY DEF StoreInv
<1>2. Store!ListIsConsistent
  BY <1>1 DEF StoreInTurn, Once, Store!ListIsConsistent, Store!ActiveIsListed, Store!ListedOnce
<1>3. \A l \in {list, saved} : \A i \in DOMAIN l : l[i] \in [id : Visible, files : BOOLEAN]
  <2>1. \A l \in Seq(Entries) : \A i \in DOMAIN l : l[i] \in Entries
    OBVIOUS
  <2> QED BY <1>1, <2>1 DEF StoreTypes, Entries
<1>4. fetch.pc \in {"none", "sent", "served", "fallback"}
  BY <1>1 DEF StoreTypes, Fetches, Store!NoFetch
<1>5. op = Store!NoOp \/ op \in [pc : {"sent", "served"}, kind : {"create", "update", "delete"}, id : Visible]
  BY <1>1 DEF StoreTypes, OwnOps
<1> QED BY <1>1, <1>2, <1>3, <1>4, <1>5 DEF Store!TypeOK, StoreTypes

\* What is only in the browser stays with a process that stays in the list.
LEMMA FilesAreKept ==
  ASSUME VisibleFinite
  PROVE  StoreInv /\ [~overtaken /\ Store!Next]_(Store!vars) =>
           [~overtaken' => \A p \in Store!Ids(list) \cap Store!Ids(list') :
              Store!HasFiles(list, p) => Store!HasFiles(list', p)]_(Store!vars)
<1> SUFFICES ASSUME StoreInv, ~overtaken, Store!Next
             PROVE  ~overtaken' => \A p \in Store!Ids(list) \cap Store!Ids(list') :
                      Store!HasFiles(list, p) => Store!HasFiles(list', p)
  OBVIOUS
<1> QED BY StoreSteps DEF ListGoesOn, FilesKept
=============================================================================
