--------------------------- MODULE EscalationProofs ---------------------------
(***************************************************************************)
(* From a file to the escalations it raises, for any number of requests,   *)
(* engines, entries, series and files.                                     *)
(***************************************************************************)
EXTENDS MCEscalation, Sequences, FiniteSetTheorems, FunctionTheorems, WellFoundedInduction, TLAPS

\* Each part takes its own steps, or none.
LEMMA PartsInit ==
  Init => Runs!Init /\ LevelsOf!Init /\ Addressing!Init /\ Bulk!Init /\ Codes!Init
          /\ Found!Init /\ Vault!Init /\ Attached!Init
BY DEF Init

LEMMA PartsStep ==
  [Next]_vars => /\ [Runs!Next]_(Runs!vars) /\ [LevelsOf!Next]_(LevelsOf!vars)
                 /\ [Addressing!Next]_(Addressing!vars) /\ [Bulk!Next]_(Bulk!vars)
                 /\ [Codes!Next]_(Codes!vars) /\ [Found!Next]_(Found!vars)
                 /\ [Vault!Next]_(Vault!vars) /\ [Attached!Next]_(Attached!vars)
<1>1. /\ UNCHANGED audit => UNCHANGED Runs!vars
      /\ UNCHANGED levels => UNCHANGED LevelsOf!vars
      /\ UNCHANGED addressing => UNCHANGED Addressing!vars
  BY DEF audit, levels, addressing, Runs!vars, LevelsOf!vars, Addressing!vars
<1>2. /\ UNCHANGED bulk => UNCHANGED Bulk!vars
      /\ UNCHANGED codes => UNCHANGED Codes!vars
      /\ UNCHANGED findings => UNCHANGED Found!vars
      /\ UNCHANGED vault => UNCHANGED Vault!vars
      /\ UNCHANGED attachments => UNCHANGED Attached!vars
  BY DEF bulk, codes, findings, vault, attachments, Bulk!vars, Codes!vars, Found!vars, Vault!vars,
         Vault!db, Vault!store, Attached!vars
<1> QED
  BY <1>1, <1>2 DEF Next, vars

-----------------------------------------------------------------------------
(* Display codes                                                             *)

\* A call holds the code that follows the committed value of its counter row,
\* formatted for the year in which it was got.
CodeFollowsCounter ==
  \A r \in Requests : call[r] # None =>
    /\ call[r].year <= year
    /\ call[r].code = Codes!Format(call[r].series, call[r].year,
                             counter[call[r].series][call[r].year] + 1)

\* A counter row is held by one transaction at most.
OneHolder ==
  \A r, q \in Requests : r # q /\ call[r] # None /\ call[q] # None =>
    call[r].series # call[q].series \/ call[r].year # call[q].year

\* What is in the tables was counted: in the year it shows, or in the first
\* year while that lasts.
TakenIsCounted ==
  \A s \in Series : \A c \in taken[s] :
    IF s \in YearInCode THEN c[1] \in Codes!Years /\ c[2] <= counter[s][c[1]]
                        ELSE year = 1 => c[2] <= counter[s][1]

\* No counter runs ahead of the draws, and one that is held not even with its
\* next value.
CountersAreDrawn ==
  \A s \in Series, y \in Codes!Years :
    /\ counter[s][y] <= draws
    /\ \A r \in Requests :
         call[r] # None /\ call[r].series = s /\ call[r].year = y => counter[s][y] < draws

CodeInv == Codes!TypeOK /\ CodeFollowsCounter /\ OneHolder /\ TakenIsCounted /\ CountersAreDrawn

LEMMA CodeInit == ASSUME Bounds PROVE Codes!Init => CodeInv
BY DEF Bounds, Codes!Init, CodeInv, Codes!TypeOK, Codes!Years, CodeFollowsCounter, OneHolder, TakenIsCounted,
       CountersAreDrawn

\* What a call holds, spelled out.
LEMMA CallIsTyped ==
  ASSUME Bounds, CodeInv, NEW r \in Requests, call[r] # None
  PROVE  /\ call[r].series \in Series /\ call[r].year \in Codes!Years
         /\ call[r].code \in Codes!Codes
         /\ counter[call[r].series][call[r].year] \in Nat
         /\ call[r].code[2] = counter[call[r].series][call[r].year] + 1
BY DEF Bounds, CodeInv, Codes!TypeOK, Codes!Calls

LEMMA DrawKeepsCodes ==
  ASSUME Bounds, CodeInv, NEW r \in Requests, NEW s \in Series, Codes!Draw(r, s)
  PROVE  CodeInv'
<1> DEFINE next == counter[s][year] + 1
           got == [series |-> s, year |-> year, code |-> Codes!Format(s, year, next)]
<1>1. /\ call' = [call EXCEPT ![r] = got] /\ draws' = draws + 1 /\ draws < MaxDraws
      /\ UNCHANGED <<year, counter, taken>>
  BY DEF Codes!Draw
<1>2. year \in Codes!Years /\ draws \in 0..MaxDraws /\ counter[s][year] \in 0..MaxDraws
      /\ counter[s][year] <= draws
  BY DEF CodeInv, Codes!TypeOK, CountersAreDrawn
<1>3. next \in 1..MaxDraws /\ next <= draws'
  BY <1>1, <1>2 DEF Bounds
<1>4. got \in Codes!Calls
  BY <1>2, <1>3 DEF Codes!Calls, Codes!Codes, Codes!Format
<1>5. got.code[2] = next /\ got.series = s /\ got.year = year
  BY DEF Codes!Format
<1> HIDE DEF got, next
<1>6. Codes!TypeOK'
  <2>1. /\ year' \in Codes!Years /\ draws' \in 0..MaxDraws
        /\ counter' \in [Series -> [Codes!Years -> 0..MaxDraws]] /\ taken' \in [Series -> SUBSET Codes!Codes]
        /\ call' \in [Requests -> Codes!Calls \cup {None}]
    BY <1>1, <1>2, <1>4 DEF CodeInv, Codes!TypeOK, Bounds
  <2>2. ASSUME NEW q \in Requests, call'[q] # None
        PROVE  call'[q].code[2] = counter'[call'[q].series][call'[q].year] + 1
    <3>1. CASE q = r
      BY <1>1, <1>5, <3>1 DEF CodeInv, Codes!TypeOK, next
    <3>2. CASE q # r
      BY <1>1, <2>2, <3>2 DEF CodeInv, Codes!TypeOK
    <3> QED BY <3>1, <3>2
  <2> QED BY <2>1, <2>2 DEF Codes!TypeOK
<1>7. CodeFollowsCounter'
  <2> SUFFICES ASSUME NEW q \in Requests, call'[q] # None
               PROVE  /\ call'[q].year <= year'
                      /\ call'[q].code = Codes!Format(call'[q].series, call'[q].year,
                                                counter'[call'[q].series][call'[q].year] + 1)
    BY DEF CodeFollowsCounter, Codes!Format
  <2>1. CASE q = r
    <3>1. call'[q] = got
      BY <1>1, <2>1 DEF CodeInv, Codes!TypeOK
    <3>2. year \in Nat
      BY <1>2 DEF Codes!Years, Bounds
    <3> QED BY <1>1, <1>5, <3>1, <3>2 DEF got, next
  <2>2. CASE q # r
    BY <1>1, <2>2 DEF CodeInv, Codes!TypeOK, CodeFollowsCounter
  <2> QED BY <2>1, <2>2
<1>8. OneHolder'
  <2>1. \A q \in Requests : call[q] # None => call[q].series # s \/ call[q].year # year
    BY DEF Codes!Draw, Codes!RowIsFree
  <2> QED
    BY <1>1, <1>5, <2>1 DEF CodeInv, Codes!TypeOK, OneHolder
<1>9. TakenIsCounted'
  BY <1>1 DEF CodeInv, TakenIsCounted
<1>10. CountersAreDrawn'
  <2> SUFFICES ASSUME NEW z \in Series, NEW y \in Codes!Years
               PROVE  /\ counter[z][y] <= draws + 1
                      /\ \A q \in Requests :
                           call'[q] # None /\ call'[q].series = z /\ call'[q].year = y
                             => counter[z][y] < draws + 1
    BY <1>1 DEF CountersAreDrawn
  <2>1. counter[z][y] \in Nat /\ draws \in Nat /\ counter[z][y] <= draws
    BY DEF Bounds, CodeInv, Codes!TypeOK, CountersAreDrawn
  <2> QED BY <2>1
<1> QED
  BY <1>6, <1>7, <1>8, <1>9, <1>10 DEF CodeInv

LEMMA CommitKeepsCodes ==
  ASSUME Bounds, CodeInv, NEW r \in Requests, Codes!Commit(r)
  PROVE  CodeInv'
<1> DEFINE s == call[r].series
           y == call[r].year
           c == call[r].code
<1>1. /\ call[r] # None
      /\ counter' = [counter EXCEPT ![s][y] = c[2]]
      /\ taken' = [taken EXCEPT ![s] = @ \cup {c}]
      /\ call' = [call EXCEPT ![r] = None]
      /\ UNCHANGED <<year, draws>>
  BY DEF Codes!Commit
<1>2. s \in Series /\ y \in Codes!Years /\ c \in Codes!Codes /\ counter[s][y] \in Nat
      /\ c[2] = counter[s][y] + 1
  BY <1>1, CallIsTyped
<1>3. c = Codes!Format(s, y, counter[s][y] + 1) /\ y <= year
  BY <1>1 DEF CodeInv, CodeFollowsCounter
<1>4. counter[s][y] < draws
  BY <1>1, <1>2 DEF CodeInv, CountersAreDrawn
<1>5. ASSUME NEW q \in Requests, call'[q] # None
      PROVE  q # r /\ call'[q] = call[q] /\ call[q] # None
             /\ (call[q].series # s \/ call[q].year # y)
             /\ counter'[call[q].series][call[q].year] = counter[call[q].series][call[q].year]
  <2>1. q # r /\ call'[q] = call[q]
    BY <1>1, <1>5 DEF CodeInv, Codes!TypeOK
  <2>2. call[q].series # s \/ call[q].year # y
    BY <1>1, <1>5, <2>1 DEF CodeInv, OneHolder
  <2>3. call[q].series \in Series /\ call[q].year \in Codes!Years
    BY <1>5, <2>1, CallIsTyped
  <2> QED
    BY <1>1, <1>2, <1>5, <2>1, <2>2, <2>3 DEF CodeInv, Codes!TypeOK
<1>6. \A z \in Series, x \in Codes!Years :
        counter'[z][x] = IF z = s /\ x = y THEN c[2] ELSE counter[z][x]
  BY <1>1, <1>2 DEF CodeInv, Codes!TypeOK
<1>7. draws \in Nat /\ draws <= MaxDraws /\ year \in Codes!Years
  BY DEF CodeInv, Codes!TypeOK, Bounds
<1> HIDE DEF s, y, c
<1>8. Codes!TypeOK'
  <2>1. c[2] \in 0..MaxDraws
    BY <1>2, <1>4, <1>7 DEF Bounds
  <2> QED
    BY <1>1, <1>2, <1>5, <2>1 DEF CodeInv, Codes!TypeOK
<1>9. CodeFollowsCounter'
  BY <1>1, <1>5 DEF CodeInv, CodeFollowsCounter, Codes!Format
<1>10. OneHolder'
  BY <1>5 DEF CodeInv, OneHolder
<1>11. TakenIsCounted'
  <2> SUFFICES ASSUME NEW z \in Series, NEW d \in taken'[z]
               PROVE  IF z \in YearInCode THEN d[1] \in Codes!Years /\ d[2] <= counter'[z][d[1]]
                                          ELSE year = 1 => d[2] <= counter'[z][1]
    BY <1>1 DEF TakenIsCounted
  <2>1. CASE d \in taken[z]
    <3>1. d[2] \in Nat
      BY <2>1 DEF CodeInv, Codes!TypeOK, Codes!Codes, Bounds
    <3>2. 1 \in Codes!Years
      BY DEF Codes!Years, Bounds
    <3>3. IF z \in YearInCode THEN d[1] \in Codes!Years /\ d[2] <= counter[z][d[1]]
                              ELSE year = 1 => d[2] <= counter[z][1]
      BY <2>1 DEF CodeInv, TakenIsCounted
    <3>4. \A x \in Codes!Years : counter[z][x] \in Nat
      BY DEF CodeInv, Codes!TypeOK, Bounds
    <3>5. \A x \in Codes!Years : counter[z][x] <= counter'[z][x]
      BY <1>2, <1>6, <3>4
    <3>6. \A x \in Codes!Years : counter'[z][x] \in Nat
      BY <1>2, <1>6, <3>4
    <3> QED BY <3>1, <3>2, <3>3, <3>4, <3>5, <3>6
  <2>2. CASE d \notin taken[z]
    <3>1. z = s /\ d = c
      BY <1>1, <1>2, <2>2 DEF CodeInv, Codes!TypeOK
    <3>2. counter'[s][y] = c[2] /\ c[2] \in Nat
      BY <1>2, <1>6
    <3>3. CASE z \in YearInCode
      BY <1>2, <1>3, <3>1, <3>2, <3>3 DEF Codes!Format
    <3>4. CASE z \notin YearInCode
      BY <1>2, <1>3, <3>1, <3>2, <3>4 DEF Codes!Years, Bounds
    <3> QED BY <3>3, <3>4
  <2> QED BY <2>1, <2>2
<1>12. CountersAreDrawn'
  <2> SUFFICES ASSUME NEW z \in Series, NEW x \in Codes!Years
               PROVE  /\ counter'[z][x] <= draws
                      /\ \A q \in Requests :
                           call'[q] # None /\ call'[q].series = z /\ call'[q].year = x
                             => counter'[z][x] < draws
    BY <1>1 DEF CountersAreDrawn
  <2>1. counter'[z][x] <= draws
    BY <1>2, <1>4, <1>6, <1>7 DEF CodeInv, CountersAreDrawn
  <2>2. ASSUME NEW q \in Requests, call'[q] # None, call'[q].series = z, call'[q].year = x
        PROVE  counter'[z][x] < draws
    BY <1>5, <2>2 DEF CodeInv, CountersAreDrawn
  <2> QED BY <2>1, <2>2
<1> QED
  BY <1>8, <1>9, <1>10, <1>11, <1>12 DEF CodeInv

LEMMA CodeStep == ASSUME Bounds PROVE CodeInv /\ [Codes!Next]_(Codes!vars) => CodeInv'
<1> SUFFICES ASSUME CodeInv, [Codes!Next]_(Codes!vars) PROVE CodeInv'
  OBVIOUS
<1>1. ASSUME NEW r \in Requests, Codes!RollBack(r) PROVE CodeInv'
  <2>1. /\ call' = [call EXCEPT ![r] = None] /\ UNCHANGED <<year, counter, taken, draws>>
    BY <1>1 DEF Codes!RollBack
  <2>2. \A q \in Requests : call'[q] # None => call'[q] = call[q]
    BY <2>1 DEF CodeInv, Codes!TypeOK
  <2>3. Codes!TypeOK'
    BY <2>1, <2>2 DEF CodeInv, Codes!TypeOK
  <2>4. CodeFollowsCounter' /\ OneHolder' /\ TakenIsCounted' /\ CountersAreDrawn'
    BY <2>1, <2>2 DEF CodeInv, CodeFollowsCounter, Codes!Format, OneHolder, TakenIsCounted, CountersAreDrawn
  <2> QED BY <2>3, <2>4 DEF CodeInv
<1>2. CASE Codes!NewYear
  <2>1. year' = year + 1 /\ year < MaxYear /\ UNCHANGED <<counter, taken, call, draws>>
    BY <1>2 DEF Codes!NewYear
  <2>2. year \in Nat /\ year >= 1 /\ year' \in Codes!Years
    BY <2>1 DEF CodeInv, Codes!TypeOK, Codes!Years, Bounds
  <2>3. Codes!TypeOK'
    BY <2>1, <2>2 DEF CodeInv, Codes!TypeOK
  <2>4. CodeFollowsCounter'
    BY <2>1, <2>2, CallIsTyped DEF CodeInv, CodeFollowsCounter, Codes!Format, Codes!Years
  <2>5. OneHolder' /\ TakenIsCounted' /\ CountersAreDrawn'
    BY <2>1, <2>2 DEF CodeInv, OneHolder, TakenIsCounted, CountersAreDrawn
  <2> QED BY <2>3, <2>4, <2>5 DEF CodeInv
<1>3. CASE UNCHANGED Codes!vars
  BY <1>3 DEF Codes!vars, CodeInv, Codes!TypeOK, CodeFollowsCounter, Codes!Format, OneHolder, TakenIsCounted,
              CountersAreDrawn
<1> QED
  BY <1>1, <1>2, <1>3, DrawKeepsCodes, CommitKeepsCodes DEF Codes!Next

-----------------------------------------------------------------------------

\* Two calls of one counter row do not overlap, so a code is fresh as long as
\* nothing was counted twice.
LEMMA InvIsFresh == ASSUME Bounds PROVE CodeInv => Codes!FreshWithinItsYear
<1> SUFFICES ASSUME CodeInv, NEW r \in Requests, call[r] # None,
                    call[r].series \in YearInCode \/ year = 1
             PROVE  /\ ~Codes!Taken(r)
                    /\ \A q \in Requests \ {r} : call[q] # None =>
                         <<call[q].series, call[q].code>> # <<call[r].series, call[r].code>>
  BY DEF Codes!FreshWithinItsYear
<1> DEFINE s == call[r].series
           y == call[r].year
           c == call[r].code
<1>1. s \in Series /\ y \in Codes!Years /\ counter[s][y] \in Nat /\ c[2] = counter[s][y] + 1
  BY CallIsTyped
<1>2. c = Codes!Format(s, y, counter[s][y] + 1) /\ y <= year
  BY DEF CodeInv, CodeFollowsCounter
<1>3. year = 1 => y = 1
  BY <1>1, <1>2 DEF Codes!Years, Bounds
<1>4. ~Codes!Taken(r)
  <2> SUFFICES ASSUME c \in taken[s] PROVE FALSE
    BY DEF Codes!Taken
  <2>1. IF s \in YearInCode THEN c[1] \in Codes!Years /\ c[2] <= counter[s][c[1]]
                            ELSE year = 1 => c[2] <= counter[s][1]
    BY <1>1 DEF CodeInv, TakenIsCounted
  <2>2. s \in YearInCode => c[1] = y
    BY <1>2 DEF Codes!Format
  <2>3. c[2] <= counter[s][y]
    BY <1>3, <2>1, <2>2
  <2> QED
    BY <1>1, <2>3
<1>5. ASSUME NEW q \in Requests \ {r}, call[q] # None,
             call[q].series = s, call[q].code = c
      PROVE  FALSE
  <2>1. call[q].year # y
    BY <1>5 DEF CodeInv, OneHolder
  <2>2. call[q].year \in Codes!Years /\ call[q].year <= year
        /\ c = Codes!Format(s, call[q].year, counter[s][call[q].year] + 1)
    BY <1>5, CallIsTyped DEF CodeInv, CodeFollowsCounter
  <2>3. s \in YearInCode => call[q].year = y
    BY <1>2, <2>2 DEF Codes!Format
  <2>4. year = 1 => call[q].year = 1
    BY <2>2 DEF Codes!Years, Bounds
  <2> QED
    BY <1>3, <2>1, <2>3, <2>4
<1> QED
  BY <1>4, <1>5

-----------------------------------------------------------------------------
(* Audit runs                                                                *)

\* What a request carries from one step to the next.
AuditRows == Runs!Entries \cup {None}
AuditCalls == {Runs!Idle}
  \cup [pc : {"loaded"}, engine : Engines, open : Runs!Findings]
  \cup [pc : {"drawn"}, engine : Engines, open : Runs!Findings, at : Nat]
  \cup [pc : {"read"}, engine : Engines, open : Runs!Findings, at : Nat, rows : [Mailboxes -> AuditRows]]
  \cup [pc : {"edit"}, key : Mailboxes, prior : AuditRows]

AuditTyped ==
  /\ entry \in [Mailboxes -> AuditRows]
  /\ shown \in [Engines -> [at : Nat, open : Runs!Findings]]
  /\ drawn \in Requests \cup {None} /\ clock \in 0..MaxRuns /\ edits \in 0..MaxEdits
  /\ stale \subseteq Mailboxes \X Runs!Parts
  /\ request \in [Requests -> AuditCalls]

\* The status of an engine is "open" when it has findings.
SoundRow(row) == \A e \in Engines : row.byEngine[e].status # "open" => row.byEngine[e].open = 0

RowsAreSound ==
  /\ \A k \in Mailboxes : entry[k] # None => SoundRow(entry[k])
  /\ \A r \in Requests :
       /\ request[r].pc = "edit" /\ request[r].prior # None => SoundRow(request[r].prior)
       /\ request[r].pc = "read" => \A k \in Mailboxes :
            request[r].rows[k] # None => SoundRow(request[r].rows[k])

\* The run that holds the counter is the only one between its draw and its end,
\* and the latest to have been computed.
OneRunAtATime ==
  /\ \A e \in Engines : shown[e].at <= clock
  /\ \A r \in Requests : request[r].pc \in {"drawn", "read"} =>
       drawn = r /\ request[r].at = clock /\ \A e \in Engines : shown[e].at < clock

\* The rows it has read agree with the shown runs until it writes them back, but
\* for what an edit has overwritten.
ReadIsCurrent ==
  \A r \in Requests : request[r].pc = "read" => \A k \in Mailboxes :
    IF request[r].rows[k] = None
      THEN request[r].open[k] = 0 /\ \A e \in Engines : shown[e].open[k] = 0
      ELSE \A e \in Engines : <<k, e>> \notin stale =>
             request[r].rows[k].byEngine[e].open = shown[e].open[k]

\* Entries are never deleted.
PriorExists ==
  \A r \in Requests : request[r].pc = "edit" /\ request[r].prior # None =>
    entry[request[r].key] # None

AuditInv ==
  /\ AuditTyped /\ RowsAreSound /\ OneRunAtATime /\ ReadIsCurrent /\ PriorExists
  /\ Runs!EntriesFollowRuns

\* A request is in one of its phases.
LEMMA AuditPhases ==
  ASSUME AuditTyped, NEW r \in Requests
  PROVE  /\ request[r].pc \in {"idle", "loaded", "drawn", "read", "edit"}
         /\ request[r].pc = "idle" <=> request[r] = Runs!Idle
         /\ request[r].pc \in {"loaded", "drawn", "read"} =>
              request[r].engine \in Engines /\ request[r].open \in Runs!Findings
         /\ request[r].pc \in {"drawn", "read"} => request[r].at \in Nat
         /\ request[r].pc = "read" => request[r].rows \in [Mailboxes -> AuditRows]
         /\ request[r].pc = "edit" => request[r].key \in Mailboxes /\ request[r].prior \in AuditRows
<1>1. request[r] \in AuditCalls
  BY DEF AuditTyped
<1>2. CASE request[r] = Runs!Idle
  BY <1>2 DEF Runs!Idle
<1>3. CASE request[r] \in [pc : {"loaded"}, engine : Engines, open : Runs!Findings]
  BY <1>3 DEF Runs!Idle
<1>4. CASE request[r] \in [pc : {"drawn"}, engine : Engines, open : Runs!Findings, at : Nat]
  BY <1>4 DEF Runs!Idle
<1>5. CASE request[r] \in [pc : {"read"}, engine : Engines, open : Runs!Findings, at : Nat,
                          rows : [Mailboxes -> AuditRows]]
  BY <1>5 DEF Runs!Idle
<1>6. CASE request[r] \in [pc : {"edit"}, key : Mailboxes, prior : AuditRows]
  BY <1>6 DEF Runs!Idle
<1> QED
  BY <1>1, <1>2, <1>3, <1>4, <1>5, <1>6 DEF AuditCalls

LEMMA NewEntryIsSound ==
  ASSUME ConstantsDiffer
  PROVE  /\ Runs!NewEntry \in Runs!Entries /\ SoundRow(Runs!NewEntry) /\ Runs!NewEntry # None
         /\ \A e \in Engines : Runs!NewEntry.byEngine[e].open = 0
<1>1. Runs!NotAudited \in Runs!Statuses /\ Runs!NotAudited.open = 0
  BY DEF ConstantsDiffer, Runs!NotAudited, Runs!Statuses
<1>2. Runs!NewEntry \in Runs!Entries /\ \A e \in Engines : Runs!NewEntry.byEngine[e] = Runs!NotAudited
  BY <1>1 DEF Runs!NewEntry, Runs!Entries
<1> QED
  BY <1>1, <1>2 DEF ConstantsDiffer, SoundRow

LEMMA AuditInit == ASSUME ConstantsDiffer PROVE Runs!Init => AuditInv
<1> SUFFICES ASSUME Runs!Init PROVE AuditInv
  OBVIOUS
<1>1. Runs!NoFindings \in Runs!Findings /\ \A k \in Mailboxes : Runs!NoFindings[k] = 0
  BY DEF Runs!NoFindings, Runs!Findings, ConstantsDiffer
<1>2. AuditTyped
  BY <1>1 DEF Runs!Init, AuditTyped, AuditCalls, AuditRows, ConstantsDiffer
<1>3. \A r \in Requests : request[r].pc = "idle"
  BY DEF Runs!Init, Runs!Idle
<1>4. RowsAreSound /\ OneRunAtATime /\ ReadIsCurrent /\ PriorExists
  BY <1>3 DEF Runs!Init, RowsAreSound, OneRunAtATime, ReadIsCurrent, PriorExists
<1>5. Runs!EntriesFollowRuns
  BY <1>1 DEF Runs!Init, Runs!EntriesFollowRuns, Runs!StatusesMatchShownRuns, Runs!FlaggedIsTracked, Runs!ResolvedIsEarned
<1> QED
  BY <1>2, <1>4, <1>5 DEF AuditInv

\* What a reconciled row says of each engine.
LEMMA ReconciledRow ==
  ASSUME ConstantsDiffer, NEW row \in Runs!Entries, SoundRow(row), NEW e \in Engines, NEW open \in 0..MaxOpen
  PROVE  LET new == Runs!Reconciled(row, e, open) IN
         /\ new \in Runs!Entries /\ SoundRow(new)
         /\ new.byEngine[e].open = open
         /\ \A d \in Engines \ {e} : new.byEngine[d] = row.byEngine[d]
         /\ new.resolved => \A d \in Engines : new.byEngine[d].open = 0
<1> DEFINE status == [open |-> open, status |-> IF open > 0 THEN "open" ELSE "resolved"]
           by == [row.byEngine EXCEPT ![e] = status]
           new == Runs!Reconciled(row, e, open)
<1>1. row.byEngine \in [Engines -> Runs!Statuses]
  BY DEF Runs!Entries
<1>2. status \in Runs!Statuses
  BY DEF Runs!Statuses
<1>3. by \in [Engines -> Runs!Statuses] /\ \A d \in Engines : by[d] = IF d = e THEN status ELSE row.byEngine[d]
  BY <1>1, <1>2
<1>4. \A d \in Engines : by[d].status # "open" => by[d].open = 0
  BY <1>3 DEF SoundRow
<1>5. new = [byEngine |-> by, resolved |-> Runs!AllResolved(by)]
  BY DEF Runs!Reconciled
<1> HIDE DEF by
<1>6. Runs!AllResolved(by) \in BOOLEAN
  BY DEF Runs!AllResolved
<1>7. new \in Runs!Entries /\ SoundRow(new)
  BY <1>3, <1>4, <1>5, <1>6 DEF Runs!Entries, SoundRow
<1>8. Runs!AllResolved(by) => \A d \in Engines : by[d].status # "open"
  BY DEF Runs!AllResolved
<1> QED
  BY <1>3, <1>4, <1>5, <1>7, <1>8

-----------------------------------------------------------------------------
(* What each step leaves of the invariant. *)

\* A step that only moves one request to another phase, which carries nothing
\* an entry will be written from.
LEMMA QuietAuditStep ==
  ASSUME AuditInv, NEW r \in Requests, NEW q \in AuditCalls,
         request' = [request EXCEPT ![r] = q], q.pc \in {"idle", "loaded"},
         drawn' \in Requests \cup {None}, drawn' = drawn \/ drawn = r,
         UNCHANGED <<entry, shown, clock, edits, stale>>
  PROVE  AuditInv'
<1>1. \A t \in Requests : request'[t] = IF t = r THEN q ELSE request[t]
  BY DEF AuditInv, AuditTyped
<1>2. request' \in [Requests -> AuditCalls]
  BY DEF AuditInv, AuditTyped
<1>3. AuditTyped'
  BY <1>2 DEF AuditInv, AuditTyped
<1>4. RowsAreSound' /\ ReadIsCurrent' /\ PriorExists'
  <2>1. RowsAreSound'
    BY <1>1 DEF AuditInv, RowsAreSound, SoundRow
  <2>2. ReadIsCurrent'
    BY <1>1 DEF AuditInv, ReadIsCurrent
  <2>3. PriorExists'
    BY <1>1 DEF AuditInv, PriorExists
  <2> QED BY <2>1, <2>2, <2>3
<1>5. OneRunAtATime'
  BY <1>1 DEF AuditInv, OneRunAtATime
<1>6. Runs!EntriesFollowRuns'
  BY DEF AuditInv, Runs!EntriesFollowRuns, Runs!StatusesMatchShownRuns, Runs!FlaggedIsTracked, Runs!ResolvedIsEarned
<1> QED
  BY <1>3, <1>4, <1>5, <1>6 DEF AuditInv

\* Only one run has drawn its code, and it was computed after every shown one.
LEMMA ComputeKeepsAudit ==
  ASSUME ConstantsDiffer, AuditInv, NEW r \in Requests, Runs!Compute(r)
  PROVE  AuditInv'
<1> DEFINE q == [pc |-> "drawn", engine |-> request[r].engine, open |-> request[r].open,
                 at |-> clock + 1]
<1>1. /\ request[r].pc = "loaded" /\ drawn = None /\ drawn' = r
      /\ clock < MaxRuns /\ clock' = clock + 1
      /\ request' = [request EXCEPT ![r] = q] /\ UNCHANGED <<entry, shown, edits, stale>>
  BY DEF Runs!Compute, Runs!DrawRunCode
<1>2. clock \in 0..MaxRuns /\ clock + 1 \in 0..MaxRuns /\ clock \in Nat
  BY <1>1 DEF AuditInv, AuditTyped, ConstantsDiffer
<1>3. q \in AuditCalls /\ q.pc = "drawn" /\ q.at = clock + 1
  BY <1>1, <1>2, AuditPhases DEF AuditCalls, AuditInv
<1> HIDE DEF q
<1>4. \A t \in Requests : request'[t] = IF t = r THEN q ELSE request[t]
  BY <1>1 DEF AuditInv, AuditTyped
<1>5. AuditTyped'
  BY <1>1, <1>2, <1>3 DEF AuditInv, AuditTyped
<1>6. RowsAreSound' /\ ReadIsCurrent' /\ PriorExists'
  <2>1. RowsAreSound'
    BY <1>1, <1>3, <1>4 DEF AuditInv, RowsAreSound, SoundRow
  <2>2. ReadIsCurrent'
    BY <1>1, <1>3, <1>4 DEF AuditInv, ReadIsCurrent
  <2>3. PriorExists'
    BY <1>1, <1>3, <1>4 DEF AuditInv, PriorExists
  <2> QED BY <2>1, <2>2, <2>3
<1>7. OneRunAtATime'
  <2>1. \A e \in Engines : shown[e].at \in Nat /\ shown[e].at <= clock
    BY DEF AuditInv, AuditTyped, OneRunAtATime
  <2>2. \A t \in Requests : request[t].pc \notin {"drawn", "read"}
    BY <1>1 DEF AuditInv, OneRunAtATime, ConstantsDiffer
  <2> QED
    BY <1>1, <1>2, <1>3, <1>4, <2>1, <2>2 DEF OneRunAtATime
<1>8. Runs!EntriesFollowRuns'
  BY <1>1 DEF AuditInv, Runs!EntriesFollowRuns, Runs!StatusesMatchShownRuns, Runs!FlaggedIsTracked, Runs!ResolvedIsEarned
<1> QED
  BY <1>5, <1>6, <1>7, <1>8 DEF AuditInv

\* What is read is what the shown runs found; a manager without findings in any
\* of them may have no entry yet.
LEMMA ReadKeepsAudit ==
  ASSUME ConstantsDiffer, AuditInv, NEW r \in Requests, Runs!ReadEntries(r)
  PROVE  AuditInv'
<1> DEFINE asked == request[r]
           seen == Runs!Ensured(asked.open)
           q == [pc |-> "read", engine |-> asked.engine, open |-> asked.open, at |-> asked.at,
                 rows |-> seen]
<1>1. /\ asked.pc = "drawn" /\ request' = [request EXCEPT ![r] = q]
      /\ UNCHANGED <<entry, shown, drawn, clock, edits, stale>>
  BY DEF Runs!ReadEntries
<1>2. /\ asked.engine \in Engines /\ asked.open \in Runs!Findings /\ asked.at \in Nat
      /\ entry \in [Mailboxes -> AuditRows]
  BY <1>1, AuditPhases DEF AuditInv, AuditTyped
<1>3. \A k \in Mailboxes : seen[k] = IF entry[k] = None /\ asked.open[k] > 0 THEN Runs!NewEntry ELSE entry[k]
  BY DEF Runs!Ensured
<1>4. seen \in [Mailboxes -> AuditRows]
  <2>1. Runs!NewEntry \in AuditRows
    BY NewEntryIsSound DEF AuditRows
  <2> QED BY <1>2, <2>1 DEF Runs!Ensured
<1>5. q \in AuditCalls /\ q.pc = "read" /\ q.at = asked.at /\ q.rows = seen /\ q.open = asked.open
  BY <1>2, <1>4 DEF AuditCalls
<1> HIDE DEF q, seen
<1>6. \A t \in Requests : request'[t] = IF t = r THEN q ELSE request[t]
  BY <1>1 DEF AuditInv, AuditTyped
<1>7. AuditTyped'
  BY <1>1, <1>5 DEF AuditInv, AuditTyped
<1>8. RowsAreSound'
  <2>1. \A k \in Mailboxes : seen[k] # None => SoundRow(seen[k])
    BY <1>3, NewEntryIsSound DEF AuditInv, RowsAreSound
  <2>2. \A t \in Requests :
          /\ request'[t].pc = "edit" /\ request'[t].prior # None => SoundRow(request'[t].prior)
          /\ request'[t].pc = "read" => \A k \in Mailboxes :
               request'[t].rows[k] # None => SoundRow(request'[t].rows[k])
    BY <1>5, <1>6, <2>1 DEF AuditInv, RowsAreSound
  <2> QED
    BY <1>1, <2>2 DEF AuditInv, RowsAreSound, SoundRow
<1>9. OneRunAtATime'
  BY <1>1, <1>5, <1>6 DEF AuditInv, OneRunAtATime
<1>10. ReadIsCurrent'
  <2> SUFFICES ASSUME NEW t \in Requests, request'[t].pc = "read", NEW k \in Mailboxes
               PROVE  IF request'[t].rows[k] = None
                        THEN /\ request'[t].open[k] = 0
                             /\ \A e \in Engines : shown[e].open[k] = 0
                        ELSE \A e \in Engines : <<k, e>> \notin stale =>
                               request'[t].rows[k].byEngine[e].open = shown[e].open[k]
    BY <1>1 DEF ReadIsCurrent
  <2>1. CASE t # r
    BY <1>6, <2>1 DEF AuditInv, ReadIsCurrent
  <2>2. CASE t = r
    <3>1. asked.open[k] \in Nat /\ \A e \in Engines : shown[e].open[k] \in Nat
      BY <1>2 DEF Runs!Findings, AuditInv, AuditTyped, ConstantsDiffer
    <3>2. entry[k] = None => \A e \in Engines : shown[e].open[k] = 0
      BY <3>1 DEF AuditInv, Runs!EntriesFollowRuns, Runs!FlaggedIsTracked
    <3>3. CASE seen[k] = None
      BY <1>3, <1>5, <1>6, <2>2, <3>1, <3>2, <3>3, NewEntryIsSound
    <3>4. CASE seen[k] # None /\ entry[k] = None
      BY <1>3, <1>5, <1>6, <2>2, <3>2, <3>4, NewEntryIsSound
    <3>5. CASE entry[k] # None
      BY <1>3, <1>5, <1>6, <2>2, <3>5 DEF AuditInv, Runs!EntriesFollowRuns, Runs!StatusesMatchShownRuns
    <3> QED BY <3>3, <3>4, <3>5
  <2> QED BY <2>1, <2>2
<1>11. PriorExists'
  BY <1>1, <1>5, <1>6 DEF AuditInv, PriorExists
<1>12. Runs!EntriesFollowRuns'
  BY <1>1 DEF AuditInv, Runs!EntriesFollowRuns, Runs!StatusesMatchShownRuns, Runs!FlaggedIsTracked, Runs!ResolvedIsEarned
<1> QED
  BY <1>7, <1>8, <1>9, <1>10, <1>11, <1>12 DEF AuditInv

\* Every entry the run knows is reconciled with what it found, and nothing else
\* has been shown since it read them.
LEMMA CommitKeepsAudit ==
  ASSUME ConstantsDiffer, AuditInv, NEW r \in Requests, Runs!CommitRun(r)
  PROVE  AuditInv'
<1> DEFINE asked == request[r]
           e == asked.engine
           open == asked.open
           seen == asked.rows
<1>1. asked.pc = "read" /\ drawn = r /\ asked.at = clock /\ \A d \in Engines : shown[d].at < clock
  BY DEF Runs!CommitRun, AuditInv, OneRunAtATime
<1>2. e \in Engines /\ open \in Runs!Findings /\ seen \in [Mailboxes -> AuditRows] /\ asked.at \in Nat
  BY <1>1, AuditPhases DEF AuditInv
<1>3. /\ entry' = [k \in Mailboxes |-> IF seen[k] = None THEN entry[k] ELSE Runs!Reconciled(seen[k], e, open[k])]
      /\ shown' = [shown EXCEPT ![e] =
                     IF asked.at > @.at THEN [at |-> asked.at, open |-> open] ELSE @]
      /\ drawn' = None /\ request' = [request EXCEPT ![r] = Runs!Idle]
      /\ stale' = {s \in stale : seen[s[1]] = None \/ s[2] \notin {e, "resolved"}}
      /\ UNCHANGED <<clock, edits>>
  <2>1. \A k \in Mailboxes : seen[k] # None =>
          Runs!ReconcileAll(seen, e, open)[k] = Runs!Reconciled(seen[k], e, open[k])
    BY DEF Runs!ReconcileAll
  <2>2. entry' = [k \in Mailboxes |-> IF seen[k] = None THEN entry[k] ELSE Runs!ReconcileAll(seen, e, open)[k]]
    BY DEF Runs!CommitRun
  <2> QED BY <1>1, <2>1, <2>2 DEF Runs!CommitRun
<1>4. shown' \in [Engines -> [at : Nat, open : Runs!Findings]]
      /\ shown'[e] = [at |-> clock, open |-> open]
      /\ \A d \in Engines \ {e} : shown'[d] = shown[d]
  <2>1. shown \in [Engines -> [at : Nat, open : Runs!Findings]] /\ shown[e].at < asked.at
    BY <1>1, <1>2 DEF AuditInv, AuditTyped
  <2>2. shown[e].at \in Nat /\ [at |-> asked.at, open |-> open] \in [at : Nat, open : Runs!Findings]
    BY <1>2, <2>1
  <2>3. shown' = [shown EXCEPT ![e] = [at |-> asked.at, open |-> open]]
    BY <1>2, <1>3, <2>1, <2>2
  <2> QED BY <1>1, <1>2, <2>1, <2>2, <2>3
<1>5. \A t \in Requests : request'[t] = IF t = r THEN Runs!Idle ELSE request[t]
  BY <1>3 DEF AuditInv, AuditTyped
<1>6. Runs!Idle \in AuditCalls /\ Runs!Idle.pc = "idle"
  BY DEF Runs!Idle, AuditCalls
<1> HIDE DEF asked, e, open, seen
\* What becomes of an entry.
<1>7. ASSUME NEW k \in Mailboxes
      PROVE  /\ seen[k] # None =>
                  /\ entry'[k] \in Runs!Entries /\ entry'[k] # None /\ SoundRow(entry'[k])
                  /\ entry'[k].byEngine[e].open = open[k]
                  /\ \A d \in Engines \ {e} : entry'[k].byEngine[d] = seen[k].byEngine[d]
                  /\ entry'[k].resolved => \A d \in Engines : entry'[k].byEngine[d].open = 0
             /\ seen[k] = None =>
                  /\ entry'[k] = entry[k] /\ open[k] = 0
                  /\ \A d \in Engines : shown[d].open[k] = 0 /\ shown'[d].open[k] = 0
  <2>1. CASE seen[k] # None
    <3>1. seen[k] \in Runs!Entries /\ SoundRow(seen[k])
      BY <1>1, <1>2, <2>1 DEF AuditRows, AuditInv, RowsAreSound, asked, seen
    <3>2. open[k] \in 0..MaxOpen
      BY <1>2 DEF Runs!Findings
    <3>3. entry'[k] = Runs!Reconciled(seen[k], e, open[k])
      BY <1>3, <2>1
    <3>4. entry'[k] \in Runs!Entries /\ SoundRow(entry'[k]) /\ entry'[k].byEngine[e].open = open[k]
          /\ (\A d \in Engines \ {e} : entry'[k].byEngine[d] = seen[k].byEngine[d])
          /\ (entry'[k].resolved => \A d \in Engines : entry'[k].byEngine[d].open = 0)
      BY <1>2, <3>1, <3>2, <3>3, ReconciledRow
    <3> QED BY <2>1, <3>4 DEF ConstantsDiffer
  <2>2. CASE seen[k] = None
    <3>1. open[k] = 0 /\ \A d \in Engines : shown[d].open[k] = 0
      BY <1>1, <2>2 DEF AuditInv, ReadIsCurrent, asked, seen, open
    <3> QED BY <1>3, <1>4, <2>2, <3>1
  <2> QED BY <2>1, <2>2
<1>8. entry' \in [Mailboxes -> AuditRows]
  BY <1>3, <1>7 DEF AuditInv, AuditTyped, AuditRows
<1>9. AuditTyped'
  BY <1>3, <1>4, <1>5, <1>6, <1>8 DEF AuditInv, AuditTyped
<1>10. RowsAreSound'
  <2>1. \A k \in Mailboxes : entry'[k] # None => SoundRow(entry'[k])
    BY <1>7 DEF AuditInv, RowsAreSound
  <2> QED BY <1>5, <1>6, <2>1 DEF AuditInv, RowsAreSound, SoundRow
<1>11. OneRunAtATime'
  <2>1. \A t \in Requests : request'[t].pc \notin {"drawn", "read"}
    BY <1>1, <1>5, <1>6 DEF AuditInv, OneRunAtATime
  <2>2. \A d \in Engines : shown[d].at \in Nat /\ clock \in Nat /\ shown[d].at <= clock
    BY DEF AuditInv, AuditTyped, OneRunAtATime, ConstantsDiffer
  <2> QED BY <1>3, <1>4, <2>1, <2>2 DEF OneRunAtATime
<1>12. ReadIsCurrent'
  BY <1>1, <1>5, <1>6 DEF AuditInv, OneRunAtATime, ReadIsCurrent
<1>13. PriorExists'
  BY <1>5, <1>6, <1>7, AuditPhases DEF AuditInv, PriorExists
<1>14. Runs!StatusesMatchShownRuns'
  <2> SUFFICES ASSUME NEW k \in Mailboxes, NEW d \in Engines, entry'[k] # None, <<k, d>> \notin stale'
               PROVE  entry'[k].byEngine[d].open = shown'[d].open[k]
    BY DEF Runs!StatusesMatchShownRuns
  <2>1. CASE seen[k] # None /\ d = e
    BY <1>4, <1>7, <2>1
  <2>2. CASE seen[k] # None /\ d # e
    <3>1. <<k, d>> \notin stale
      BY <1>3, <2>2 DEF ConstantsDiffer
    <3> QED
      BY <1>1, <1>4, <1>7, <2>2, <3>1 DEF AuditInv, ReadIsCurrent, asked, seen
  <2>3. CASE seen[k] = None
    <3>1. <<k, d>> \notin stale
      BY <1>3, <2>3
    <3>2. entry[k] # None /\ entry'[k] = entry[k] /\ shown'[d].open[k] = 0 /\ shown[d].open[k] = 0
      BY <1>7, <2>3
    <3> QED
      BY <3>1, <3>2 DEF AuditInv, Runs!EntriesFollowRuns, Runs!StatusesMatchShownRuns
  <2> QED BY <2>1, <2>2, <2>3
<1>15. Runs!FlaggedIsTracked'
  BY <1>7 DEF Runs!FlaggedIsTracked
<1>16. Runs!ResolvedIsEarned'
  <2> SUFFICES ASSUME NEW k \in Mailboxes, entry'[k] # None, entry'[k].resolved,
                      \A part \in Runs!Parts : <<k, part>> \notin stale', NEW d \in Engines
               PROVE  shown'[d].open[k] = 0
    BY DEF Runs!ResolvedIsEarned
  <2>1. <<k, d>> \notin stale'
    BY DEF Runs!Parts
  <2> QED
    BY <1>7, <1>14, <2>1 DEF Runs!StatusesMatchShownRuns
<1> QED
  BY <1>9, <1>10, <1>11, <1>12, <1>13, <1>14, <1>15, <1>16 DEF AuditInv, Runs!EntriesFollowRuns

\* patchEntry and upsert keep what they read of the entry.
LEMMA ReadPriorKeepsAudit ==
  ASSUME ConstantsDiffer, AuditInv, NEW r \in Requests, NEW k \in Mailboxes,
         NEW op \in {"patch", "upsert"}, Runs!ReadPrior(r, k, op)
  PROVE  AuditInv'
<1> DEFINE q == [pc |-> "edit", key |-> k, prior |-> entry[k]]
<1>1. /\ edits < MaxEdits /\ edits' = edits + 1 /\ request' = [request EXCEPT ![r] = q]
      /\ UNCHANGED <<entry, shown, drawn, clock, stale>> /\ request[r] = Runs!Idle
  BY DEF Runs!ReadPrior
<1>2. q \in AuditCalls /\ q.pc = "edit" /\ q.key = k /\ q.prior = entry[k]
  BY DEF AuditCalls, AuditInv, AuditTyped
<1> HIDE DEF q
<1>3. \A t \in Requests : request'[t] = IF t = r THEN q ELSE request[t]
  BY <1>1 DEF AuditInv, AuditTyped
<1>4. AuditTyped'
  BY <1>1, <1>2 DEF AuditInv, AuditTyped, ConstantsDiffer
<1>5. RowsAreSound'
  <2>1. q.prior # None => SoundRow(q.prior)
    BY <1>2 DEF AuditInv, RowsAreSound
  <2>2. \A l \in Mailboxes : entry'[l] # None => SoundRow(entry'[l])
    BY <1>1 DEF AuditInv, RowsAreSound
  <2>3. ASSUME NEW t \in Requests
        PROVE  /\ request'[t].pc = "edit" /\ request'[t].prior # None => SoundRow(request'[t].prior)
               /\ request'[t].pc = "read" => \A l \in Mailboxes :
                    request'[t].rows[l] # None => SoundRow(request'[t].rows[l])
    <3>1. CASE t = r
      BY <1>2, <1>3, <2>1, <3>1
    <3>2. CASE t # r
      BY <1>3, <3>2 DEF AuditInv, RowsAreSound
    <3> QED
      BY <3>1, <3>2
  <2> QED
    BY <2>2, <2>3 DEF RowsAreSound, SoundRow
<1>6. ReadIsCurrent'
  BY <1>1, <1>2, <1>3 DEF AuditInv, ReadIsCurrent
<1>7. PriorExists'
  BY <1>1, <1>2, <1>3 DEF AuditInv, PriorExists
<1>8. OneRunAtATime'
  BY <1>1, <1>2, <1>3 DEF AuditInv, OneRunAtATime
<1>9. Runs!EntriesFollowRuns'
  BY <1>1 DEF AuditInv, Runs!EntriesFollowRuns, Runs!StatusesMatchShownRuns, Runs!FlaggedIsTracked, Runs!ResolvedIsEarned
<1> QED
  BY <1>4, <1>5, <1>6, <1>7, <1>8, <1>9 DEF AuditInv

\* What they write over a newer entry is counted as stale.
LEMMA WriteKeepsAudit ==
  ASSUME ConstantsDiffer, AuditInv, NEW r \in Requests, Runs!WriteEdit(r)
  PROVE  AuditInv'
<1> DEFINE asked == request[r]
           k == asked.key
           prior == IF asked.prior = None THEN Runs!NewEntry ELSE asked.prior
<1>1. /\ asked.pc = "edit" /\ ~Runs!InsertPending(k) /\ request' = [request EXCEPT ![r] = Runs!Idle]
      /\ UNCHANGED <<shown, drawn, clock, edits>>
  BY DEF Runs!WriteEdit
<1>2. k \in Mailboxes /\ asked.prior \in AuditRows
  BY <1>1, AuditPhases DEF AuditInv
<1>3. Runs!Idle \in AuditCalls /\ Runs!Idle.pc = "idle"
  BY DEF Runs!Idle, AuditCalls
<1>4. \A t \in Requests : request'[t] = IF t = r THEN Runs!Idle ELSE request[t]
  BY <1>1 DEF AuditInv, AuditTyped
<1>5. CASE UNCHANGED <<entry, stale>>
  BY <1>1, <1>3, <1>5, QuietAuditStep DEF AuditInv, AuditTyped
<1>6. ASSUME NEW flag \in BOOLEAN, NEW sent \in {prior.byEngine, Runs!NewEntry.byEngine},
             ~(asked.prior = None /\ entry[k] # None),
             entry' = [entry EXCEPT ![k] = [byEngine |-> sent, resolved |-> flag]],
             stale' = stale \cup Runs!Changed(k, [byEngine |-> sent, resolved |-> flag])
      PROVE  AuditInv'
  <2> DEFINE written == [byEngine |-> sent, resolved |-> flag]
  <2>1. prior \in Runs!Entries /\ SoundRow(prior)
    BY <1>1, <1>2, NewEntryIsSound DEF AuditRows, AuditInv, RowsAreSound
  <2>2. Runs!NewEntry \in Runs!Entries /\ SoundRow(Runs!NewEntry)
    BY NewEntryIsSound
  <2>3. sent \in [Engines -> Runs!Statuses]
    BY <1>6, <2>1, <2>2 DEF Runs!Entries
  <2>4. written \in Runs!Entries /\ written.byEngine = sent
    BY <1>6, <2>3 DEF Runs!Entries
  <2>5. SoundRow(written)
    BY <1>6, <2>1, <2>2 DEF SoundRow
  <2>6. Runs!Changed(k, written) \subseteq Mailboxes \X Runs!Parts /\ <<k, "resolved">> \in Runs!Changed(k, written)
        /\ \A d \in Engines : <<k, d>> \notin Runs!Changed(k, written) /\ entry[k] # None =>
             entry[k].byEngine[d] = sent[d]
    BY <1>2, <2>4 DEF Runs!Changed, Runs!Parts
  <2>7. entry[k] = None => asked.prior = None
    BY <1>1 DEF AuditInv, PriorExists
  <2>8. entry[k] = None => sent = Runs!NewEntry.byEngine
    BY <1>6, <2>7
  <2> HIDE DEF written
  <2>9. \A j \in Mailboxes : entry'[j] = IF j = k THEN written ELSE entry[j]
    BY <1>2, <1>6 DEF AuditInv, AuditTyped, written
  <2>10. written # None /\ written \in AuditRows /\ stale' = stale \cup Runs!Changed(k, written)
    BY <1>6, <2>4 DEF ConstantsDiffer, AuditRows, written
  <2>11. AuditTyped'
    <3>1. entry' \in [Mailboxes -> AuditRows]
      BY <1>2, <1>6, <2>10 DEF AuditInv, AuditTyped, written
    <3>2. request' \in [Requests -> AuditCalls]
      BY <1>1, <1>3 DEF AuditInv, AuditTyped
    <3> QED BY <1>1, <2>6, <2>10, <3>1, <3>2 DEF AuditInv, AuditTyped
  <2>12. RowsAreSound'
    <3>1. \A j \in Mailboxes : entry'[j] # None => SoundRow(entry'[j])
      BY <2>5, <2>9 DEF AuditInv, RowsAreSound
    <3> QED BY <1>3, <1>4, <3>1 DEF AuditInv, RowsAreSound, SoundRow
  <2>13. OneRunAtATime'
    BY <1>1, <1>3, <1>4 DEF AuditInv, OneRunAtATime
  <2>14. ReadIsCurrent'
    BY <1>1, <1>3, <1>4, <2>10 DEF AuditInv, ReadIsCurrent
  <2>15. PriorExists'
    BY <1>3, <1>4, <2>9, <2>10, AuditPhases DEF AuditInv, PriorExists
  <2>16. Runs!StatusesMatchShownRuns'
    <3> SUFFICES ASSUME NEW j \in Mailboxes, NEW d \in Engines, entry'[j] # None, <<j, d>> \notin stale'
                 PROVE  entry'[j].byEngine[d].open = shown[d].open[j]
      BY <1>1 DEF Runs!StatusesMatchShownRuns
    <3>1. <<j, d>> \notin stale
      BY <2>10
    <3>2. CASE j # k
      BY <2>9, <3>1, <3>2 DEF AuditInv, Runs!EntriesFollowRuns, Runs!StatusesMatchShownRuns
    <3>3. CASE j = k /\ entry[k] # None
      <4>1. entry[k].byEngine[d] = sent[d]
        BY <2>6, <2>10, <3>3
      <4> QED
        BY <1>2, <2>4, <2>9, <3>1, <3>3, <4>1 DEF AuditInv, Runs!EntriesFollowRuns, Runs!StatusesMatchShownRuns
    <3>4. CASE j = k /\ entry[k] = None
      <4>1. sent[d].open = 0
        BY <2>8, <3>4, NewEntryIsSound
      <4>2. shown[d].open[k] \in Nat
        BY <1>2 DEF AuditInv, AuditTyped, Runs!Findings, ConstantsDiffer
      <4> QED
        BY <1>2, <2>4, <2>9, <3>4, <4>1, <4>2 DEF AuditInv, Runs!EntriesFollowRuns, Runs!FlaggedIsTracked
    <3> QED BY <3>2, <3>3, <3>4
  <2>17. Runs!FlaggedIsTracked'
    BY <1>1, <2>9, <2>10 DEF AuditInv, Runs!EntriesFollowRuns, Runs!FlaggedIsTracked
  <2>18. Runs!ResolvedIsEarned'
    <3> SUFFICES ASSUME NEW j \in Mailboxes, entry'[j] # None, entry'[j].resolved,
                        \A part \in Runs!Parts : <<j, part>> \notin stale', NEW d \in Engines
                 PROVE  shown[d].open[j] = 0
      BY <1>1 DEF Runs!ResolvedIsEarned
    <3>1. j # k
      BY <2>6, <2>10 DEF Runs!Parts
    <3>2. \A part \in Runs!Parts : <<j, part>> \notin stale
      BY <2>10
    <3> QED
      BY <2>9, <3>1, <3>2 DEF AuditInv, Runs!EntriesFollowRuns, Runs!ResolvedIsEarned
  <2> QED
    BY <2>11, <2>12, <2>13, <2>14, <2>15, <2>16, <2>17, <2>18 DEF AuditInv, Runs!EntriesFollowRuns
<1> QED
  BY <1>5, <1>6 DEF Runs!WriteEdit

LEMMA AuditStep == ASSUME ConstantsDiffer PROVE AuditInv /\ [Runs!Next]_(Runs!vars) => AuditInv'
<1> SUFFICES ASSUME AuditInv, [Runs!Next]_(Runs!vars) PROVE AuditInv'
  OBVIOUS
<1>1. ASSUME NEW r \in Requests, Runs!LoadFile(r) PROVE AuditInv'
  <2>1. PICK q \in [pc : {"loaded"}, engine : Engines, open : Runs!Findings] :
          request' = [request EXCEPT ![r] = q]
    BY <1>1 DEF Runs!LoadFile
  <2>2. q \in AuditCalls /\ q.pc = "loaded"
    BY DEF AuditCalls
  <2> QED
    BY <1>1, <2>1, <2>2, QuietAuditStep DEF Runs!LoadFile, AuditInv, AuditTyped
<1>2. ASSUME NEW r \in Requests, Runs!RollBackRun(r) PROVE AuditInv'
  <2>1. drawn = r /\ drawn' = None /\ request' = [request EXCEPT ![r] = Runs!Idle]
        /\ UNCHANGED <<entry, shown, clock, edits, stale>>
    BY <1>2 DEF Runs!RollBackRun, AuditInv, OneRunAtATime
  <2>2. Runs!Idle \in AuditCalls /\ Runs!Idle.pc = "idle"
    BY DEF Runs!Idle, AuditCalls
  <2> QED
    BY <2>1, <2>2, QuietAuditStep
<1>3. ASSUME NEW r \in Requests, Runs!Compute(r) \/ Runs!ReadEntries(r) \/ Runs!CommitRun(r) \/ Runs!WriteEdit(r)
      PROVE  AuditInv'
  BY <1>3, ComputeKeepsAudit, ReadKeepsAudit, CommitKeepsAudit, WriteKeepsAudit
<1>4. ASSUME NEW r \in Requests, NEW k \in Mailboxes, NEW op \in {"patch", "upsert"}, Runs!ReadPrior(r, k, op)
      PROVE  AuditInv'
  BY <1>4, ReadPriorKeepsAudit
<1>5. CASE UNCHANGED Runs!vars
  BY <1>5 DEF Runs!vars, AuditInv, AuditTyped, RowsAreSound, SoundRow, OneRunAtATime, ReadIsCurrent, PriorExists,
              Runs!EntriesFollowRuns, Runs!StatusesMatchShownRuns, Runs!FlaggedIsTracked, Runs!ResolvedIsEarned
<1> QED
  BY <1>1, <1>2, <1>3, <1>4, <1>5 DEF Runs!Next

LEMMA AuditInvIsTyped == AuditInv => Runs!TypeOK
<1> SUFFICES ASSUME AuditInv PROVE Runs!TypeOK
  OBVIOUS
<1>1. \A r \in Requests :
       \/ request[r] = Runs!Idle
       \/ /\ request[r].pc \in {"loaded", "drawn", "read"}
          /\ request[r].engine \in Engines /\ request[r].open \in Runs!Findings
       \/ request[r].pc = "edit" /\ request[r].prior \in Runs!Entries \cup {None}
  BY AuditPhases DEF AuditInv, AuditRows
<1> QED
  BY <1>1 DEF AuditInv, AuditTyped, AuditRows, Runs!TypeOK

-----------------------------------------------------------------------------
(* Addresses                                                                 *)

\* The types, but for the bound on the rows.
AddressTyped ==
  /\ pc \in {"source", "joined", "mapped", "over"}
  /\ rows \in Seq(Addressing!Rows)
  /\ issue \in [id : ProjectIds \cup {None}, project : ProjectNames, manager : Managers \cup {None},
                address : {"mapped", "own", None} \cup Listed]
  /\ keys \in [Listed -> SUBSET Managers]
  /\ index \in [Managers -> {None, "tie"} \cup Listed]

\* Nothing of the directory is known before it is read, and all of it is
\* registered at the end.
ReadThenRegistered ==
  /\ pc \in {"source", "joined"} =>
       todo = {} /\ index = [m \in Managers |-> None] /\ \A e \in Listed : keys[e] = {}
  /\ pc = "over" => todo = {}

\* The entries registered under a name so far.
Registered(m) == {e \in Listed : m \in keys[e] /\ <<e, m>> \notin todo}

\* Whatever was registered first, a name stands for the one entry registered
\* under it, and for none as soon as there are two.
IndexSoFar ==
  /\ \A p \in todo : p[1] \in Listed /\ p[2] \in keys[p[1]]
  /\ \A m \in Managers :
       /\ index[m] = None => Registered(m) = {}
       /\ index[m] \in Listed => Registered(m) = {index[m]}
       /\ index[m] = "tie" => \E d, e \in Registered(m) : d # e

AddressInv ==
  AddressTyped /\ ReadThenRegistered /\ IndexSoFar /\ Addressing!FallbackIsUnambiguous

LEMMA AddressInit == ASSUME DirectoryIsFinite PROVE Addressing!Init => AddressInv
BY DEF DirectoryIsFinite, Addressing!Init, AddressInv, AddressTyped, ReadThenRegistered, IndexSoFar, Registered,
       Addressing!FallbackIsUnambiguous, Addressing!Rows

\* A nonempty set of row numbers has a least member. (The subsets 1..i of 1..n
\* stand for the numbers i: strict inclusion is known to be well-founded.)
LEMMA LeastMember ==
  ASSUME NEW n \in Nat, NEW S, S \subseteq 1..n, S # {}
  PROVE  \E i \in S : \A j \in S : i <= j
<1> DEFINE Upto == {1..i : i \in S}
<1>1. IsFiniteSet(1..n)
  BY FS_Interval
<1>2. IsWellFoundedOn(StrictSubsetOrdering(1..n), FiniteSubsetsOf(1..n))
  BY <1>1, FS_StrictSubsetOrderingWellFounded
<1>3. FiniteSubsetsOf(1..n) = SUBSET (1..n)
  BY <1>1, FS_FiniteSubsetsOfFinite
<1>4. \A i \in S : 1..i \subseteq 1..n
  <2> HIDE DEF Upto
  <2> SUFFICES ASSUME NEW i \in S, NEW k \in 1..i PROVE k \in 1..n
    BY Zenon
  <2>1. i \in 1..n
    OBVIOUS
  <2> QED BY <2>1, SMT
<1>5. Upto \subseteq SUBSET (1..n) /\ Upto # {}
  <2>1. \A x \in Upto : x \in SUBSET (1..n)
    BY <1>4, Zenon
  <2>2. Upto # {}
    BY Zenon
  <2> QED BY <2>1, <2>2, Zenon
<1>6. \E x \in Upto : \A y \in Upto : ~ (<<y, x>> \in StrictSubsetOrdering(1..n))
  <2> DEFINE R == StrictSubsetOrdering(1..n)
             F == SUBSET (1..n)
  <2>1. IsWellFoundedOn(R, F) /\ Upto \subseteq F /\ Upto # {}
    BY <1>2, <1>3, <1>5, Zenon
  <2> HIDE DEF Upto, R, F
  <2>2. \E x \in Upto : \A y \in Upto : ~ (<<y, x>> \in R)
    BY <2>1, WFMin, Zenon
  <2> QED BY <2>2, Zenon DEF R
<1>7. PICK i \in S : \A j \in S : ~ (<<1..j, 1..i>> \in StrictSubsetOrdering(1..n))
  BY <1>6
<1>8. ASSUME NEW j \in S, j < i PROVE FALSE
  <2>1. 1..j \subseteq 1..n /\ 1..i \subseteq 1..n /\ 1..j \subseteq 1..i /\ i \in 1..i /\ i \notin 1..j
    BY <1>8
  <2> QED BY <2>1, <1>7 DEF StrictSubsetOrdering
<1> QED
  BY <1>7, <1>8

\* The instance counts as this module does.
LEMMA SameCardinality == \A S : Addressing!Cardinality(S) = Cardinality(S)
BY DEF Addressing!Cardinality, Cardinality

\* byId answers with the manager of a row that has the id.
LEMMA ByIdIsInTheRows ==
  ASSUME AddressTyped, NEW q, Addressing!ById(q) # None
  PROVE  q # None /\ \E i \in DOMAIN rows : rows[i].id = q /\ rows[i].manager = Addressing!ById(q)
<1> DEFINE S == {i \in DOMAIN rows : rows[i].id = q /\ rows[i].manager # None}
<1>1. q # None /\ S # {} /\ Addressing!ById(q) = rows[Addressing!First(S)].manager
  BY DEF Addressing!ById, Addressing!Matching
<1>2. Len(rows) \in Nat /\ S \subseteq 1..Len(rows)
  BY DEF AddressTyped
<1>3. Addressing!First(S) \in S
  <2> HIDE DEF S
  <2>1. \E i \in S : \A j \in S : i <= j
    BY <1>1, <1>2, LeastMember
  <2> QED BY <2>1 DEF Addressing!First
<1> QED
  BY <1>1, <1>3

\* byName answers only where all the rows of the name have one manager.
LEMMA ByNameIsAgreed ==
  ASSUME AddressTyped, NEW q, Addressing!ByName(q) # None
  PROVE  \A i \in Addressing!WithProject(q) : rows[i].manager = Addressing!ByName(q)
<1> DEFINE found == {rows[i].manager : i \in Addressing!WithProject(q)}
<1>1. Cardinality(found) = 1 /\ Addressing!ByName(q) = CHOOSE m \in found : TRUE
  BY SameCardinality DEF Addressing!ByName
<1>2. IsFiniteSet(found)
  <2>1. IsFiniteSet(1..Len(rows)) /\ DOMAIN rows = 1..Len(rows)
    BY FS_Interval DEF AddressTyped
  <2>2. Addressing!WithProject(q) \subseteq 1..Len(rows)
    BY <2>1 DEF Addressing!WithProject, Addressing!Matching
  <2>3. IsFiniteSet(Addressing!WithProject(q))
    BY <2>1, <2>2, FS_Subset
  <2>4. [i \in Addressing!WithProject(q) |-> rows[i].manager] \in Surjection(Addressing!WithProject(q), found)
    BY DEF Surjection
  <2> QED BY <2>3, <2>4, FS_Surjection
<1>3. PICK x : found = {x}
  <2> HIDE DEF found
  <2> QED BY <1>1, <1>2, FS_Singleton
<1> QED
  BY <1>1, <1>3

\* One registration keeps the index right, whichever comes next.
LEMMA RegisterKeepsIndex ==
  ASSUME DirectoryIsFinite, AddressInv, NEW d \in Listed, NEW n \in Managers, Addressing!Register(d, n)
  PROVE  AddressInv'
<1>1. /\ pc = "mapped" /\ <<d, n>> \in todo /\ todo' = todo \ {<<d, n>>}
      /\ index' = [index EXCEPT ![n] = Addressing!Taken(d, index[n])]
      /\ UNCHANGED <<pc, rows, issue, keys>>
  BY DEF Addressing!Register
<1>2. Addressing!Taken(d, index[n]) = IF index[n] \in {None, d} THEN d ELSE "tie"
  BY DEF Addressing!Taken
<1>3. AddressTyped' /\ ReadThenRegistered'
  BY <1>1, <1>2 DEF AddressInv, AddressTyped, ReadThenRegistered
<1>4. Addressing!FallbackIsUnambiguous'
  BY <1>1 DEF AddressInv, Addressing!FallbackIsUnambiguous, Addressing!WithProject, Addressing!Matching
<1>5. n \in keys[d] /\ Registered(n)' = Registered(n) \cup {d}
  BY <1>1 DEF AddressInv, IndexSoFar, Registered
<1>6. d \notin Registered(n)
  BY <1>1 DEF Registered
<1>7. \A m \in Managers \ {n} : Registered(m)' = Registered(m) /\ index'[m] = index[m]
  BY <1>1 DEF Registered, AddressInv, AddressTyped
<1>8. index'[n] = IF index[n] \in {None, d} THEN d ELSE "tie"
  BY <1>1, <1>2 DEF AddressInv, AddressTyped
<1>9. index[n] \in {None, "tie"} \cup Listed
  BY DEF AddressInv, AddressTyped
<1>10. \A p \in todo' : p[1] \in Listed /\ p[2] \in keys'[p[1]]
  BY <1>1 DEF AddressInv, IndexSoFar
<1>11. /\ index'[n] = None => Registered(n)' = {}
       /\ index'[n] \in Listed => Registered(n)' = {index'[n]}
       /\ index'[n] = "tie" => \E c, e \in Registered(n)' : c # e
  <2>1. CASE index[n] = None
    BY <2>1, <1>5, <1>8 DEF AddressInv, IndexSoFar, DirectoryIsFinite
  <2>2. CASE index[n] \in Listed
    BY <2>2, <1>5, <1>6, <1>8 DEF AddressInv, IndexSoFar, DirectoryIsFinite
  <2>3. CASE index[n] = "tie"
    BY <2>3, <1>5, <1>8 DEF AddressInv, IndexSoFar, DirectoryIsFinite
  <2> QED BY <2>1, <2>2, <2>3, <1>9
<1>12. ASSUME NEW m \in Managers
       PROVE /\ index'[m] = None => Registered(m)' = {}
             /\ index'[m] \in Listed => Registered(m)' = {index'[m]}
             /\ index'[m] = "tie" => \E c, e \in Registered(m)' : c # e
  BY <1>7, <1>11 DEF AddressInv, IndexSoFar
<1>13. IndexSoFar'
  BY <1>10, <1>12 DEF IndexSoFar
<1> QED
  BY <1>3, <1>4, <1>13 DEF AddressInv

\* The join settles the manager by id, and else by an agreed name.
LEMMA JoinKeepsAddresses ==
  ASSUME AddressInv, Addressing!Join PROVE AddressInv'
<1> DEFINE given == IF Addressing!ById(issue.id) # None THEN Addressing!ById(issue.id)
                    ELSE Addressing!ByName(issue.project)
<1>1. /\ pc = "source" /\ pc' = "joined" /\ issue' = [issue EXCEPT !.manager = given]
      /\ UNCHANGED <<rows, keys, todo, index>>
  BY DEF Addressing!Join
<1>2. AddressTyped
  BY DEF AddressInv
<1>3. issue' = [id |-> issue.id, project |-> issue.project, manager |-> given, address |-> issue.address]
  BY <1>1, <1>2 DEF AddressTyped
<1>4. given # None =>
        \/ issue.id # None /\ \E i \in DOMAIN rows : rows[i].id = issue.id /\ rows[i].manager = given
        \/ \A i \in Addressing!WithProject(issue.project) : rows[i].manager = given
  BY <1>2, ByIdIsInTheRows, ByNameIsAgreed
<1>5. given \in Managers \cup {None}
  <2>1. \A i \in DOMAIN rows : rows[i] \in Addressing!Rows
    BY <1>2 DEF AddressTyped
  <2>2. CASE Addressing!ById(issue.id) # None
    BY <2>1, <2>2, <1>2, ByIdIsInTheRows DEF Addressing!Rows
  <2>3. CASE Addressing!ById(issue.id) = None
    <3>1. given = Addressing!ByName(issue.project)
      BY <2>3
    <3> DEFINE found == {rows[i].manager : i \in Addressing!WithProject(issue.project)}
    <3>2. found \subseteq Managers \cup {None}
      BY <2>1 DEF Addressing!WithProject, Addressing!Matching, Addressing!Rows
    <3>3. CASE Cardinality(found) # 1
      BY <3>1, <3>3, SameCardinality DEF Addressing!ByName
    <3>4. CASE Cardinality(found) = 1
      <4>1. Addressing!ByName(issue.project) = CHOOSE m \in found : TRUE
        BY <3>4, SameCardinality DEF Addressing!ByName
      <4>2. found # {}
        BY <3>4, FS_EmptySet
      <4> QED BY <3>1, <3>2, <4>1, <4>2
    <3> QED BY <3>3, <3>4
  <2> QED BY <2>2, <2>3
<1>6. AddressTyped'
  <2> HIDE DEF given
  <2> QED BY <1>1, <1>2, <1>3, <1>5 DEF AddressTyped
<1>7. ReadThenRegistered' /\ IndexSoFar'
  BY <1>1 DEF AddressInv, ReadThenRegistered, IndexSoFar, Registered
<1>8. Addressing!FallbackIsUnambiguous'
  <2> HIDE DEF given
  <2> QED BY <1>1, <1>3, <1>4 DEF Addressing!FallbackIsUnambiguous, Addressing!WithProject, Addressing!Matching
<1> QED
  BY <1>6, <1>7, <1>8 DEF AddressInv

LEMMA AddressStep ==
  ASSUME DirectoryIsFinite PROVE AddressInv /\ [Addressing!Next]_(Addressing!vars) => AddressInv'
<1> SUFFICES ASSUME AddressInv, [Addressing!Next]_(Addressing!vars) PROVE AddressInv'
  OBVIOUS
<1>1. ASSUME NEW row \in Addressing!Rows, Addressing!HandRow(row) PROVE AddressInv'
  <2>1. pc = "source" /\ rows' = Append(rows, row) /\ UNCHANGED <<pc, issue, keys, todo, index>>
    BY <1>1 DEF Addressing!HandRow
  <2>2. rows' \in Seq(Addressing!Rows)
    BY <2>1 DEF AddressInv, AddressTyped
  <2> QED
    BY <2>1, <2>2 DEF AddressInv, AddressTyped, ReadThenRegistered, IndexSoFar, Registered,
                      Addressing!FallbackIsUnambiguous
<1>2. CASE Addressing!Join
  BY <1>2, JoinKeepsAddresses
<1>3. CASE Addressing!MapAddress
  <2>1. /\ pc = "joined" /\ pc' = "mapped" /\ UNCHANGED <<rows, index>>
        /\ keys' \in [Listed -> SUBSET Managers]
        /\ todo' = {p \in Listed \X Managers : p[2] \in keys'[p[1]]}
        /\ issue' \in {issue, [issue EXCEPT !.address = "mapped"]}
    BY <1>3 DEF Addressing!MapAddress
  <2>2. issue'.id = issue.id /\ issue'.project = issue.project /\ issue'.manager = issue.manager
    BY <2>1 DEF AddressInv, AddressTyped
  <2>3. AddressTyped'
    BY <2>1 DEF AddressInv, AddressTyped
  <2>4. \A m \in Managers : Registered(m)' = {} /\ index'[m] = None
    BY <2>1 DEF AddressInv, Registered, ReadThenRegistered
  <2>5. IndexSoFar'
    BY <2>1, <2>4 DEF IndexSoFar, DirectoryIsFinite
  <2>6. ReadThenRegistered' /\ Addressing!FallbackIsUnambiguous'
    BY <2>1, <2>2 DEF AddressInv, ReadThenRegistered, Addressing!FallbackIsUnambiguous, Addressing!WithProject,
                      Addressing!Matching
  <2> QED
    BY <2>3, <2>5, <2>6 DEF AddressInv
<1>4. CASE Addressing!Resolve
  <2>1. /\ pc = "mapped" /\ todo = {} /\ pc' = "over" /\ UNCHANGED <<rows, keys, todo, index>>
        /\ issue' = issue \/ \E e \in Listed : issue' = [issue EXCEPT !.address = e]
    BY <1>4 DEF Addressing!Resolve, Addressing!Likely
  <2>2. issue'.id = issue.id /\ issue'.project = issue.project /\ issue'.manager = issue.manager
    BY <2>1 DEF AddressInv, AddressTyped
  <2>3. AddressTyped'
    BY <2>1 DEF AddressInv, AddressTyped
  <2> QED
    BY <2>1, <2>2, <2>3 DEF AddressInv, ReadThenRegistered, IndexSoFar, Registered,
            Addressing!FallbackIsUnambiguous, Addressing!WithProject, Addressing!Matching
<1>5. ASSUME NEW d \in Listed, NEW n \in Managers, Addressing!Register(d, n) PROVE AddressInv'
  BY <1>5, RegisterKeepsIndex
<1>6. CASE UNCHANGED Addressing!vars
  <2>1. UNCHANGED <<pc, rows, issue, keys, todo, index>>
    BY <1>6 DEF Addressing!vars
  <2>2. Addressing!FallbackIsUnambiguous'
    BY <2>1 DEF AddressInv, Addressing!FallbackIsUnambiguous, Addressing!WithProject, Addressing!Matching
  <2>3. AddressTyped'
    BY <2>1 DEF AddressInv, AddressTyped, Addressing!Rows
  <2>4. ReadThenRegistered' /\ IndexSoFar'
    BY <2>1 DEF AddressInv, ReadThenRegistered, IndexSoFar, Registered
  <2> QED
    BY <2>2, <2>3, <2>4 DEF AddressInv
<1> QED
  BY <1>1, <1>2, <1>3, <1>4, <1>5, <1>6 DEF Addressing!Next

\* With everything registered, the index says who goes by a name alone.
LEMMA InvIsOrderFree == ASSUME DirectoryIsFinite PROVE AddressInv => Addressing!IndexIsOrderFree
<1> SUFFICES ASSUME AddressInv, pc = "over", NEW m \in Managers
             PROVE  index[m] = IF Addressing!Holders(m) = {} THEN None
                               ELSE IF Cardinality(Addressing!Holders(m)) > 1 THEN "tie"
                               ELSE CHOOSE e \in Addressing!Holders(m) : TRUE
  BY SameCardinality DEF Addressing!IndexIsOrderFree
<1> DEFINE H == Addressing!Holders(m)
<1>1. H = Registered(m) /\ H \subseteq Listed
  BY DEF AddressInv, ReadThenRegistered, Registered, Addressing!Holders
<1>2. IsFiniteSet(H) /\ Cardinality(H) \in Nat
  BY <1>1, FS_Subset, FS_CardinalityType DEF DirectoryIsFinite
<1>3. index[m] \in {None, "tie"} \cup Listed
  BY DEF AddressInv, AddressTyped
<1>4. /\ index[m] = None => H = {}
      /\ index[m] \in Listed => H = {index[m]}
      /\ index[m] = "tie" => \E d, e \in H : d # e
  BY <1>1 DEF AddressInv, IndexSoFar
<1> HIDE DEF H
<1>5. CASE index[m] = None
  BY <1>4, <1>5 DEF H
<1>6. CASE index[m] \in Listed
  <2>1. Cardinality(H) = 1
    BY <1>4, <1>6, FS_Singleton
  <2> QED BY <2>1, <1>4, <1>6 DEF H
<1>7. CASE index[m] = "tie"
  <2>1. PICK d, e \in H : d # e
    BY <1>4, <1>7
  <2>2. Cardinality(H) # 0 /\ Cardinality(H) # 1
    BY <2>1, <1>2, FS_Singleton, FS_EmptySet
  <2> QED BY <2>1, <2>2, <1>2, <1>7 DEF H
<1> QED
  BY <1>3, <1>5, <1>6, <1>7

-----------------------------------------------------------------------------
(* Bulk operations                                                           *)

\* What a call holds for an entry: a step that was allowed when it was checked
\* and leads where the call means to take the entry, from what it had read.
OpenStep(r, e) ==
  r.open[e] # None =>
    /\ Bulk!Permitted(r.open[e].from, r.open[e].to)
    /\ \/ r.kind = "resolve" /\ r.open[e].to = "RESOLVED"
       \/ r.kind = "acknowledge" /\ r.open[e].to = "RESPONDED"
       \/ r.kind = "reescalate" /\ r.open[e].to = Bulk!Target(r.read[e])

\* A broadcast remembers how long the histories were, and what it has reported
\* is behind that.
Reported(r, e) ==
  /\ r.had[e] \in Nat /\ r.had[e] <= Len(log[e])
  /\ r.kind = "broadcast" /\ r.result[e] # None => Len(log[e]) > r.had[e]

BulkCall(r) ==
  /\ DOMAIN r = {"kind", "left", "read", "had", "open", "result"}
  /\ DOMAIN r.open = Tracked /\ DOMAIN r.result = Tracked
  /\ \A e \in Tracked : OpenStep(r, e) /\ Reported(r, e)

BulkInv ==
  /\ DOMAIN stage = Tracked
  /\ log \in [Tracked -> Seq({"prepared", "skipped", "failed"})]
  /\ DOMAIN batch = Batches
  /\ \A b \in Batches : batch[b] # Bulk!Idle => BulkCall(batch[b])

LEMMA BulkInit == Bulk!Init => BulkInv
BY DEF Bulk!Init, BulkInv

\* A call whose entry is done with still holds what it held for the others.
LEMMA DoneKeepsCall ==
  ASSUME BulkInv, NEW b \in Batches, batch[b] # Bulk!Idle, NEW e, NEW outcome, Bulk!Done(b, e, outcome),
         \A f \in Tracked : Len(log[f])' \in Nat /\ Len(log[f])' >= Len(log[f]),
         batch[b].kind = "broadcast" /\ e \in Tracked => Len(log[e])' > Len(log[e])
  PROVE  /\ DOMAIN batch' = Batches
         /\ \A c \in Batches : batch'[c] # Bulk!Idle => BulkCall(batch[c])'
<1> DEFINE r == batch[b]
           s == batch'[b]
<1>1. /\ DOMAIN batch' = Batches /\ \A c \in Batches \ {b} : batch'[c] = batch[c]
      /\ DOMAIN s = DOMAIN r
      /\ s.kind = r.kind /\ s.read = r.read /\ s.had = r.had
      /\ s.open = [r.open EXCEPT ![e] = None] /\ s.result = [r.result EXCEPT ![e] = outcome]
  <2>1. /\ DOMAIN batch' = Batches /\ \A c \in Batches \ {b} : batch'[c] = batch[c]
        /\ DOMAIN batch'[b] = DOMAIN batch[b]
        /\ batch'[b].kind = batch[b].kind /\ batch'[b].read = batch[b].read /\ batch'[b].had = batch[b].had
        /\ batch'[b].open = [batch[b].open EXCEPT ![e] = None]
        /\ batch'[b].result = [batch[b].result EXCEPT ![e] = outcome]
    <3> HIDE DEF r, s
    <3>1. DOMAIN batch = Batches /\ DOMAIN batch[b] = {"kind", "left", "read", "had", "open", "result"}
      BY DEF BulkInv, BulkCall
    <3>2. batch' = [batch EXCEPT ![b] = [[[batch[b] EXCEPT !.left = batch[b].left \ {e}]
                                            EXCEPT !.open = [batch[b].open EXCEPT ![e] = None]]
                                            EXCEPT !.result = [batch[b].result EXCEPT ![e] = outcome]]]
      BY <3>1 DEF Bulk!Done
    <3> QED BY <3>1, <3>2
  <2> QED BY <2>1
<1>2. BulkCall(r)
  BY DEF BulkInv
<1>3. \A f \in Tracked : Len(log[f]) \in Nat
  BY DEF BulkInv
<1>4. ASSUME NEW c \in Batches \ {b}, batch'[c] # Bulk!Idle PROVE BulkCall(batch[c])'
  <2>1. BulkCall(batch[c]) /\ batch'[c] = batch[c]
    BY <1>1, <1>4 DEF BulkInv
  <2> QED BY <2>1, <1>3 DEF BulkCall, OpenStep, Reported, Bulk!Target, Bulk!Permitted, Bulk!CanTransition, Bulk!Legal
<1>5. BulkCall(batch[b])'
  <2> HIDE DEF r, s
  <2>1. DOMAIN s = {"kind", "left", "read", "had", "open", "result"}
        /\ DOMAIN s.open = Tracked /\ DOMAIN s.result = Tracked
    BY <1>1, <1>2 DEF BulkCall
  <2>2. ASSUME NEW f \in Tracked PROVE OpenStep(s, f)
    <3>1. s.open[f] # None => s.open[f] = r.open[f]
      BY <1>1, <1>2 DEF BulkCall
    <3> QED BY <3>1, <1>1, <1>2 DEF BulkCall, OpenStep
  <2>3. ASSUME NEW f \in Tracked
        PROVE  /\ s.had[f] \in Nat /\ s.had[f] <= Len(log[f])'
               /\ s.kind = "broadcast" /\ s.result[f] # None => Len(log[f])' > s.had[f]
    <3>1. r.had[f] \in Nat /\ r.had[f] <= Len(log[f])
          /\ (r.kind = "broadcast" /\ r.result[f] # None => Len(log[f]) > r.had[f])
      BY <1>2 DEF BulkCall, Reported
    <3>2. f # e => s.result[f] = r.result[f]
      BY <1>1, <1>2 DEF BulkCall
    <3>3. r.kind = "broadcast" /\ f = e => Len(log[f])' > Len(log[f])
      BY DEF r
    <3> QED BY <3>1, <3>2, <3>3, <1>1, <1>3
  <2> QED
    BY <2>1, <2>2, <2>3 DEF BulkCall, OpenStep, Reported, s, Bulk!Target, Bulk!Permitted, Bulk!CanTransition, Bulk!Legal
<1> QED
  BY <1>1, <1>4, <1>5

LEMMA BulkStep == BulkInv /\ [Bulk!Next]_(Bulk!vars) => BulkInv'
<1> SUFFICES ASSUME BulkInv, [Bulk!Next]_(Bulk!vars) PROVE BulkInv'
  OBVIOUS
<1> USE DEF Bulk!Target, Bulk!Permitted, Bulk!CanTransition, Bulk!Legal
<1>1. ASSUME NEW b \in Batches, NEW kind, NEW chosen, Bulk!Read(b, kind, chosen) PROVE BulkInv'
  <2> DEFINE new == [kind |-> kind, left |-> chosen, read |-> stage,
                     had |-> [e \in Tracked |-> Len(log[e])], open |-> Bulk!NoneYet, result |-> Bulk!NoneYet]
  <2>1. batch' = [batch EXCEPT ![b] = new] /\ UNCHANGED <<stage, log>>
    BY <1>1 DEF Bulk!Read
  <2>2. \A e \in Tracked : Len(log[e]) \in Nat
    BY DEF BulkInv
  <2>3. DOMAIN new = {"kind", "left", "read", "had", "open", "result"}
        /\ new.had = [e \in Tracked |-> Len(log[e])]
        /\ new.open = [e \in Tracked |-> None] /\ new.result = [e \in Tracked |-> None]
    BY DEF Bulk!NoneYet
  <2>4. batch'[b] = new /\ DOMAIN batch' = Batches /\ \A c \in Batches \ {b} : batch'[c] = batch[c]
    BY <2>1 DEF BulkInv
  <2> HIDE DEF new
  <2>5. BulkCall(batch[b])'
    BY <2>1, <2>2, <2>3, <2>4 DEF BulkCall, OpenStep, Reported
  <2>6. \A c \in Batches \ {b} : batch'[c] # Bulk!Idle => BulkCall(batch[c])'
    BY <2>1, <2>4 DEF BulkInv, BulkCall, OpenStep, Reported
  <2> QED
    BY <2>1, <2>4, <2>5, <2>6 DEF BulkInv
<1>2. ASSUME NEW b \in Batches, Bulk!Check(b) PROVE BulkInv'
  <2>1. PICK e \in Bulk!Turn(b) :
          /\ batch[b] # Bulk!Idle /\ batch[b].kind \in {"resolve", "acknowledge", "reescalate"}
          /\ batch[b].open[e] = None
          /\ IF Bulk!Permitted(stage[e], Bulk!Asked(b, e))
               THEN batch' = [batch EXCEPT ![b].open[e] = [from |-> stage[e], to |-> Bulk!Asked(b, e)]]
               ELSE Bulk!Done(b, e, IF Bulk!Call(b, "resolve") THEN "failed" ELSE "skipped")
    BY <1>2 DEF Bulk!Check
  <2>2. UNCHANGED <<stage, log>> /\ \A f \in Tracked : Len(log[f]) \in Nat
    BY <1>2 DEF Bulk!Check, BulkInv
  <2>3. CASE ~Bulk!Permitted(stage[e], Bulk!Asked(b, e))
    <3>1. /\ DOMAIN batch' = Batches
          /\ \A c \in Batches : batch'[c] # Bulk!Idle => BulkCall(batch[c])'
      BY <2>1, <2>2, <2>3, DoneKeepsCall
    <3> QED BY <3>1, <2>2 DEF BulkInv
  <2>4. CASE Bulk!Permitted(stage[e], Bulk!Asked(b, e))
    <3> DEFINE step == [from |-> stage[e], to |-> Bulk!Asked(b, e)]
               s == batch'[b]
    <3>1. BulkCall(batch[b])
      BY <2>1 DEF BulkInv
    <3>2. batch' = [batch EXCEPT ![b] = [batch[b] EXCEPT !.open = [batch[b].open EXCEPT ![e] = step]]]
      BY <2>1, <2>4, <3>1 DEF BulkInv, BulkCall
    <3>3. /\ DOMAIN batch' = Batches /\ \A c \in Batches \ {b} : batch'[c] = batch[c]
          /\ DOMAIN s = DOMAIN batch[b] /\ s.kind = batch[b].kind /\ s.read = batch[b].read
          /\ s.had = batch[b].had /\ s.result = batch[b].result
          /\ s.open = [batch[b].open EXCEPT ![e] = step]
      BY <3>1, <3>2 DEF BulkInv, BulkCall
    <3>4. Bulk!Permitted(step.from, step.to)
      BY <2>4
    <3>5. \/ batch[b].kind = "resolve" /\ step.to = "RESOLVED"
          \/ batch[b].kind = "acknowledge" /\ step.to = "RESPONDED"
          \/ batch[b].kind = "reescalate" /\ step.to = Bulk!Target(batch[b].read[e])
      BY <2>1 DEF Bulk!Asked, Bulk!Call, Bulk!PickReescalationTarget
    <3> HIDE DEF step, s
    <3>6. ASSUME NEW f \in Tracked PROVE OpenStep(s, f)
      BY <3>1, <3>3, <3>4, <3>5 DEF BulkCall, OpenStep
    <3>7. ASSUME NEW f \in Tracked PROVE Reported(s, f)
      BY <3>1, <3>3 DEF BulkCall, Reported
    <3>8. BulkCall(batch[b])'
      BY <3>1, <3>3, <3>6, <3>7, <2>2 DEF BulkCall, OpenStep, Reported, s
    <3>9. \A c \in Batches \ {b} : batch'[c] # Bulk!Idle => BulkCall(batch[c])'
      BY <3>3, <2>2 DEF BulkInv, BulkCall, OpenStep, Reported
    <3> QED BY <3>3, <3>8, <3>9, <2>2 DEF BulkInv
  <2> QED BY <2>3, <2>4
<1>3. ASSUME NEW b \in Batches, Bulk!Broadcast(b) PROVE BulkInv'
  <2>3. PICK e \in batch[b].left :
          \/ ~reachable[e] /\ Bulk!Record(e, "skipped") /\ Bulk!Done(b, e, "skipped")
          \/ reachable[e] /\ Bulk!Record(e, "prepared") /\ Bulk!Done(b, e, "applied")
          \/ reachable[e] /\ Bulk!Record(e, "failed") /\ Bulk!Done(b, e, "failed")
          \/ UNCHANGED log /\ batch' = [batch EXCEPT ![b] = Bulk!Idle]
    BY <1>3 DEF Bulk!Broadcast
  <2>1. CASE UNCHANGED log /\ batch' = [batch EXCEPT ![b] = Bulk!Idle]
    BY <1>3, <2>1 DEF Bulk!Broadcast, BulkInv, BulkCall, OpenStep, Reported
  <2>2. ASSUME NEW outcome \in {"prepared", "skipped", "failed"}, NEW result,
               Bulk!Record(e, outcome), Bulk!Done(b, e, result)
        PROVE  BulkInv'
    <3>1. batch[b] # Bulk!Idle /\ stage' = stage
      BY <1>3 DEF Bulk!Broadcast, Bulk!Call
    <3>2. log' = [log EXCEPT ![e] = Append(log[e], outcome)]
      BY <2>2 DEF Bulk!Record
    <3>3. log' \in [Tracked -> Seq({"prepared", "skipped", "failed"})]
      <4>1. DOMAIN log = Tracked /\ \A f \in Tracked : log[f] \in Seq({"prepared", "skipped", "failed"})
        BY DEF BulkInv
      <4>2. \A f \in Tracked : log'[f] = IF f = e THEN Append(log[f], outcome) ELSE log[f]
        BY <3>2, <4>1
      <4>3. \A f \in Tracked : log'[f] \in Seq({"prepared", "skipped", "failed"})
        <5> TAKE f \in Tracked
        <5>1. log[f] \in Seq({"prepared", "skipped", "failed"})
          BY <4>1
        <5>2. Append(log[f], outcome) \in Seq({"prepared", "skipped", "failed"})
          BY <5>1
        <5> QED BY <4>2, <5>1, <5>2
      <4> QED BY <3>2, <4>1, <4>3
    <3>4. ASSUME NEW f \in Tracked
          PROVE  Len(log'[f]) \in Nat /\ Len(log'[f]) >= Len(log[f]) /\ (f = e => Len(log'[f]) > Len(log[f]))
      BY <3>2 DEF BulkInv
    <3>5. /\ DOMAIN batch' = Batches
          /\ \A c \in Batches : batch'[c] # Bulk!Idle => BulkCall(batch[c])'
      BY <3>1, <3>4, <2>2, DoneKeepsCall
    <3> QED BY <3>1, <3>3, <3>5 DEF BulkInv
  <2> QED BY <2>1, <2>2, <2>3
<1>4. ASSUME NEW b \in Batches, Bulk!Answer(b) PROVE BulkInv'
  BY <1>4 DEF Bulk!Answer, BulkInv, BulkCall, OpenStep, Reported
<1>5. ASSUME NEW b \in Batches, NEW e \in Tracked, Bulk!Commit(b, e) PROVE BulkInv'
  <2>1. batch[b] # Bulk!Idle /\ DOMAIN stage' = Tracked /\ Bulk!Done(b, e, "applied") /\ log' = log
        /\ batch[b].open[e] # None
    BY <1>5 DEF Bulk!Commit, BulkInv
  <2>2. \A f \in Tracked : Len(log[f])' \in Nat /\ Len(log[f])' >= Len(log[f])
    BY <2>1 DEF BulkInv
  <2>3. batch[b].kind # "broadcast"
    BY <2>1 DEF BulkInv, BulkCall, OpenStep
  <2>4. /\ DOMAIN batch' = Batches
        /\ \A c \in Batches : batch'[c] # Bulk!Idle => BulkCall(batch[c])'
    BY <2>1, <2>2, <2>3, DoneKeepsCall
  <2> QED BY <2>1, <2>4 DEF BulkInv
<1>6. CASE UNCHANGED Bulk!vars
  BY <1>6 DEF Bulk!vars, BulkInv, BulkCall, OpenStep, Reported
<1> QED
  BY <1>1, <1>2, <1>3, <1>4, <1>5, <1>6 DEF Bulk!Next

\* Only a commit writes a stage: what its call holds.
LEMMA StagesAreCommitted ==
  ASSUME BulkInv, [Bulk!Next]_(Bulk!vars), NEW e \in Tracked, stage'[e] # stage[e]
  PROVE  \E b \in Batches : /\ batch[b] # Bulk!Idle /\ batch[b].open[e] # None
                            /\ stage'[e] = batch[b].open[e].to /\ OpenStep(batch[b], e)
<1>1. PICK b \in Batches, f \in Tracked : Bulk!Commit(b, f)
  BY DEF Bulk!Next, Bulk!vars, Bulk!Read, Bulk!Check, Bulk!Broadcast, Bulk!Answer
<1>2. /\ batch[b] # Bulk!Idle /\ batch[b].open[f] # None
      /\ stage' = [stage EXCEPT ![f] = batch[b].open[f].to]
  BY <1>1 DEF Bulk!Commit
<1>3. f = e /\ stage'[e] = batch[b].open[e].to
  BY <1>2 DEF BulkInv
<1> QED
  BY <1>2, <1>3 DEF BulkInv, BulkCall

-----------------------------------------------------------------------------
(* Occurrence levels                                                         *)

\* The runs a behaviour has seen.
LevelsInv ==
  /\ runs \in Seq(SUBSET LevelsOf!Issues)
  /\ sheet \in LevelsOf!Sheets
  /\ address \in [Managers -> Addresses \cup {None}]
  /\ entries \subseteq LevelsOf!Keys

\* The fingerprints that flagged the pair.
Hashes(key, p) == {LevelsOf!FindingsHash(n) : n \in {k \in DOMAIN runs : LevelsOf!Flagged(k, key, p)}}

LEMMA LevelIsCounted ==
  \A key, p : LevelsOf!LevelFor(key, p) = IF Hashes(key, p) = {} THEN 1 ELSE Cardinality(Hashes(key, p))
<1>1. \A S : LevelsOf!Cardinality(S) = Cardinality(S)
  BY DEF LevelsOf!Cardinality, Cardinality
<1> QED
  BY <1>1 DEF LevelsOf!LevelFor, Hashes

LEMMA LevelIsCountedNext ==
  \A key, p : LevelsOf!LevelFor(key, p)' =
                IF Hashes(key, p)' = {} THEN 1 ELSE Cardinality(Hashes(key, p)')
<1>1. (\A key, p : LevelsOf!LevelFor(key, p) =
                     IF Hashes(key, p) = {} THEN 1 ELSE Cardinality(Hashes(key, p)))'
  BY LevelIsCounted, PTL
<1> QED
  BY <1>1

LEMMA LevelsInit == LevelsOf!Init => LevelsInv
BY DEF LevelsOf!Init, LevelsInv

LEMMA FindingsAreIssues ==
  ASSUME LevelsInv, NEW content \in LevelsOf!Sheets
  PROVE  LevelsOf!Findings(content) \in SUBSET LevelsOf!Issues
BY DEF LevelsInv, LevelsOf!Findings, LevelsOf!Sheets, LevelsOf!Issues

LEMMA LevelsStep == LevelsInv /\ [LevelsOf!Next]_(LevelsOf!vars) => LevelsInv'
<1> SUFFICES ASSUME LevelsInv, [LevelsOf!Next]_(LevelsOf!vars) PROVE LevelsInv'
  OBVIOUS
<1>1. ASSUME NEW content \in LevelsOf!Sheets, LevelsOf!Record(LevelsOf!Findings(content))
      PROVE  runs' \in Seq(SUBSET LevelsOf!Issues) /\ entries' \subseteq LevelsOf!Keys
  <2>1. LevelsOf!Findings(content) \in SUBSET LevelsOf!Issues
    BY FindingsAreIssues
  <2>2. runs' = Append(runs, LevelsOf!Findings(content))
        /\ entries' = entries \cup {<<i.manager, i.email>> : i \in LevelsOf!Findings(content)}
    BY <1>1 DEF LevelsOf!Record
  <2>3. {<<i.manager, i.email>> : i \in LevelsOf!Findings(content)} \subseteq LevelsOf!Keys
    BY <2>1 DEF LevelsOf!Issues, LevelsOf!Keys
  <2> QED BY <2>1, <2>2, <2>3 DEF LevelsInv
<1> USE DEF LevelsOf!Sheets, LevelsOf!Issues, LevelsOf!Keys
<1>2. CASE LevelsOf!AuditUpload
  BY <1>1, <1>2 DEF LevelsOf!AuditUpload, LevelsInv
<1>3. CASE LevelsOf!AuditAgain
  BY <1>1, <1>3 DEF LevelsOf!AuditAgain, LevelsInv
<1>4. CASE LevelsOf!SetThreshold
  BY <1>4 DEF LevelsOf!SetThreshold, LevelsInv
<1>5. ASSUME NEW m \in Managers, LevelsOf!List(m) \/ LevelsOf!Unlist(m) PROVE LevelsInv'
  BY <1>5 DEF LevelsOf!List, LevelsOf!Unlist, LevelsInv
<1>6. CASE UNCHANGED LevelsOf!vars
  BY <1>6 DEF LevelsOf!vars, LevelsInv
<1> QED
  BY <1>2, <1>3, <1>4, <1>5, <1>6 DEF LevelsOf!Next

\* There are finitely many fingerprints.
LEMMA HashesAreFinite == LevelsInv => \A key, p : IsFiniteSet(Hashes(key, p))
<1> SUFFICES ASSUME LevelsInv, NEW key, NEW p PROVE IsFiniteSet(Hashes(key, p))
  OBVIOUS
<1> DEFINE N == {k \in DOMAIN runs : LevelsOf!Flagged(k, key, p)}
<1>1. N \subseteq 1..Len(runs) /\ IsFiniteSet(1..Len(runs))
  BY FS_Interval DEF LevelsInv
<1>2. IsFiniteSet(N)
  BY <1>1, FS_Subset
<1>3. [n \in N |-> LevelsOf!FindingsHash(n)] \in Surjection(N, Hashes(key, p))
  BY DEF Surjection, Hashes
<1> QED
  BY <1>2, <1>3, FS_Surjection

LEMMA HashesAreFiniteNext == LevelsInv' => \A key, p : IsFiniteSet(Hashes(key, p)')
<1>1. (LevelsInv => \A key, p : IsFiniteSet(Hashes(key, p)))'
  BY HashesAreFinite, PTL
<1> QED
  BY <1>1

\* What an audit appends.
LEMMA AppendedRun ==
  ASSUME LevelsInv, NEW run, runs' = Append(runs, run)
  PROVE  /\ DOMAIN runs' = DOMAIN runs \cup {Len(runs) + 1} /\ Len(runs') = Len(runs) + 1
         /\ Len(runs) \in Nat /\ DOMAIN runs = 1..Len(runs) /\ runs'[Len(runs) + 1] = run
         /\ \A n \in DOMAIN runs : runs'[n] = runs[n]
BY DEF LevelsInv

LEMMA RerunsKeep ==
  ASSUME LevelsInv, LevelsOf!AuditAgain, runs # <<>>, LevelsOf!Findings(sheet) = runs[Len(runs)], NEW k
  PROVE  LevelsOf!Lines(k)' = LevelsOf!Lines(k)
<1>0. PICK end \in Nat : end = Len(runs)
  BY DEF LevelsInv
<1>1. runs' = Append(runs, runs[end]) /\ UNCHANGED <<sheet, threshold, address>>
  BY <1>0 DEF LevelsOf!AuditAgain, LevelsOf!Record
<1>2. /\ DOMAIN runs' = DOMAIN runs \cup {end + 1} /\ Len(runs') = end + 1 /\ end \in DOMAIN runs
      /\ runs'[end + 1] = runs[end] /\ \A n \in DOMAIN runs : runs'[n] = runs[n]
  BY <1>0, <1>1, AppendedRun DEF LevelsInv
<1>3. LevelsOf!Row(k)' = LevelsOf!Row(k)
  BY <1>0, <1>1, <1>2 DEF LevelsOf!Row
<1>4. LevelsOf!ComposeKey(k)' = LevelsOf!ComposeKey(k)
  BY <1>1 DEF LevelsOf!ComposeKey
<1>5. ASSUME NEW key, NEW p PROVE Hashes(key, p)' = Hashes(key, p)
  <2>1. \A n \in DOMAIN runs : LevelsOf!FindingsHash(n)' = LevelsOf!FindingsHash(n)
    BY <1>2 DEF LevelsOf!FindingsHash
  <2>2. \A n \in DOMAIN runs : LevelsOf!Flagged(n, key, p)' <=> LevelsOf!Flagged(n, key, p)
    BY <1>1, <1>2 DEF LevelsOf!Flagged, LevelsOf!HistoryKey
  <2>3. LevelsOf!FindingsHash(end + 1)' = LevelsOf!FindingsHash(end)
    BY <1>2 DEF LevelsOf!FindingsHash
  <2>4. LevelsOf!Flagged(end + 1, key, p)' <=> LevelsOf!Flagged(end, key, p)
    BY <1>1, <1>2 DEF LevelsOf!Flagged, LevelsOf!HistoryKey
  <2> QED
    BY <1>2, <2>1, <2>2, <2>3, <2>4 DEF Hashes
<1>6. ASSUME NEW key, NEW p PROVE LevelsOf!LevelFor(key, p)' = LevelsOf!LevelFor(key, p)
  <2>1. /\ LevelsOf!LevelFor(key, p) = IF Hashes(key, p) = {} THEN 1 ELSE Cardinality(Hashes(key, p))
        /\ LevelsOf!LevelFor(key, p)' = IF Hashes(key, p)' = {} THEN 1 ELSE Cardinality(Hashes(key, p)')
    BY LevelIsCounted, LevelIsCountedNext
  <2> QED BY <1>5, <2>1
<1> QED
  BY <1>3, <1>4, <1>6 DEF LevelsOf!Lines

LEMMA ListingsKeep ==
  ASSUME LevelsInv, NEW m \in Managers, LevelsOf!List(m), NEW k \in entries, NEW p \in DOMAIN LevelsOf!Lines(k)
  PROVE  LevelsOf!Lines(k)[p] <= LevelsOf!Lines(k)'[p]
<1>1. /\ UNCHANGED <<sheet, threshold, runs, entries>> /\ address[m] = None
      /\ \E a \in Addresses : address' = [address EXCEPT ![m] = a]
  BY DEF LevelsOf!List
<1>2. LevelsInv'
  BY LevelsStep DEF LevelsOf!Next
<1>3. k \in LevelsOf!Keys /\ k[1] \in Managers
  BY DEF LevelsInv, LevelsOf!Keys
<1>4. /\ address \in [Managers -> Addresses \cup {None}] /\ DOMAIN address' = Managers
      /\ \A x \in Managers : address[x] # None => address'[x] = address[x]
  BY <1>1 DEF LevelsInv
<1>5. PICK old : old = LevelsOf!ComposeKey(k)
  OBVIOUS
<1>6. PICK new : new = LevelsOf!ComposeKey(k)'
  OBVIOUS
<1>7. LevelsOf!Row(k)' = LevelsOf!Row(k)
  BY <1>1 DEF LevelsOf!Row
<1>8. /\ LevelsOf!Lines(k)[p] = LevelsOf!LevelFor(old, p)
      /\ LevelsOf!Lines(k)'[p] = LevelsOf!LevelFor(new, p)'
  BY <1>5, <1>6, <1>7 DEF LevelsOf!Lines
<1>9. ASSUME NEW n \in DOMAIN runs, LevelsOf!Flagged(n, old, p) PROVE LevelsOf!Flagged(n, new, p)'
  <2>1. PICK i \in runs[n] : i.project = p /\ LevelsOf!HistoryKey(i) = old
    BY <1>9 DEF LevelsOf!Flagged
  <2>2. i.manager \in Managers
    BY <2>1 DEF LevelsInv, LevelsOf!Issues
  <2>3. old = <<i.manager, IF i.email # None THEN i.email ELSE address[i.manager]>>
    BY <2>1 DEF LevelsOf!HistoryKey
  <2>4. LevelsOf!HistoryKey(i)' = <<i.manager, IF i.email # None THEN i.email ELSE address'[i.manager]>>
    BY DEF LevelsOf!HistoryKey
  <2>5. new = <<i.manager, IF i.email # None THEN i.email ELSE address'[i.manager]>>
    <3>1. CASE k[2] # None
      <4>1. old = k /\ new = k
        BY <3>1, <1>5, <1>6 DEF LevelsOf!ComposeKey
      <4> QED BY <4>1, <3>1, <2>2, <2>3, <1>4
    <3>2. CASE k[2] = None
      <4>1. old = <<k[1], address[k[1]]>> /\ new = <<k[1], address'[k[1]]>>
        BY <3>2, <1>5, <1>6 DEF LevelsOf!ComposeKey
      <4>2. i.manager = k[1] /\ address[k[1]] = IF i.email # None THEN i.email ELSE address[i.manager]
        BY <4>1, <2>3
      <4> QED BY <4>1, <4>2, <1>3, <1>4
    <3> QED BY <3>1, <3>2
  <2> QED
    BY <1>1, <2>1, <2>4, <2>5 DEF LevelsOf!Flagged
<1>10. Hashes(old, p) \subseteq Hashes(new, p)'
  BY <1>1, <1>9 DEF Hashes, LevelsOf!FindingsHash
<1>11. /\ Cardinality(Hashes(new, p)') \in Nat /\ Cardinality(Hashes(old, p)) <= Cardinality(Hashes(new, p)')
       /\ Hashes(new, p)' # {} => Cardinality(Hashes(new, p)') # 0
  <2>1. IsFiniteSet(Hashes(new, p)')
    BY <1>2, HashesAreFiniteNext
  <2> QED BY <2>1, <1>10, FS_Subset, FS_CardinalityType, FS_EmptySet
<1> QED
  BY <1>8, <1>10, <1>11, LevelIsCounted, LevelIsCountedNext

LEMMA NewcomersStart ==
  ASSUME LevelsInv, LevelsOf!AuditUpload, NEW k \in entries', NEW p \in DOMAIN LevelsOf!Lines(k)',
         \A n \in DOMAIN runs : \A i \in runs[n] : i.project = p => i.manager # k[1]
  PROVE  LevelsOf!Lines(k)'[p] = 1
<1>1. LevelsInv'
  BY LevelsStep DEF LevelsOf!Next
<1>2. k \in LevelsOf!Keys
  BY <1>1 DEF LevelsInv, LevelsOf!Keys
<1>3. PICK new : new = LevelsOf!ComposeKey(k)'
  OBVIOUS
<1>4. new[1] = k[1]
  BY <1>2, <1>3 DEF LevelsOf!ComposeKey
<1>5. LevelsOf!Lines(k)'[p] = LevelsOf!LevelFor(new, p)'
  BY <1>3 DEF LevelsOf!Lines
<1>6. PICK run : runs' = Append(runs, run)
  BY DEF LevelsOf!AuditUpload, LevelsOf!Record
<1>7. PICK end \in Nat : end = Len(runs)
  BY DEF LevelsInv
<1>8. DOMAIN runs' = DOMAIN runs \cup {end + 1} /\ \A n \in DOMAIN runs : runs'[n] = runs[n]
  BY <1>6, <1>7, AppendedRun
<1>9. \A n \in DOMAIN runs : ~LevelsOf!Flagged(n, new, p)'
  BY <1>4, <1>8 DEF LevelsOf!Flagged, LevelsOf!HistoryKey
<1>10. Hashes(new, p)' \subseteq {LevelsOf!FindingsHash(end + 1)'}
  BY <1>8, <1>9 DEF Hashes
<1>11. Hashes(new, p)' = {} \/ Cardinality(Hashes(new, p)') = 1
  <2>1. PICK x : x = LevelsOf!FindingsHash(end + 1)'
    OBVIOUS
  <2>2. Hashes(new, p)' = {} \/ Hashes(new, p)' = {x}
    BY <1>10, <2>1
  <2>3. Cardinality({x}) = 1
    BY FS_Singleton
  <2> QED BY <2>2, <2>3
<1> QED
  BY <1>5, <1>11, LevelIsCountedNext

-----------------------------------------------------------------------------
(* Files, drafts and versions                                                *)

VaultTyped ==
  /\ DOMAIN workbook = 1..MaxFiles /\ files \in 0..MaxFiles
  /\ draft \in Vault!Draft \cup {None} /\ drafts \in 0..MaxDrafts
  /\ puts \in 0..MaxPuts /\ stored \subseteq 1..puts /\ doomed \subseteq 1..puts
  /\ promoted \in [1..MaxDrafts -> Nat]
  /\ work \in [Requests -> Vault!Works \cup {Vault!Idle}]

\* Object o is stored, and nobody deletes it or will: it is not the draft's, no
\* request has seen it as the draft's, and none but those in S brings it to be.
Safe(o, S) ==
  /\ o \in stored /\ o \notin doomed
  /\ draft # None => draft.obj # o
  /\ \A q \in Requests : work[q] # Vault!Idle =>
       /\ work[q].seen # None => work[q].seen.obj # o
       /\ q \notin S /\ work[q].op = "save" => work[q].obj # o

\* The objects a file names are safe, and its versions have no gap.
FilesAreSound ==
  \A f \in 1..MaxFiles : workbook[f] # None =>
    /\ f <= files /\ DOMAIN workbook[f] = {"current", "obj", "versions"}
    /\ workbook[f].current \in Nat /\ workbook[f].current > 0
    /\ DOMAIN workbook[f].versions = 1..workbook[f].current
    /\ Safe(workbook[f].obj, {})
    /\ \A n \in 1..workbook[f].current : Safe(workbook[f].versions[n], {})

\* The phases each request goes through.
Phases(w) ==
  CASE w.op = "upload"   -> w.pc \in {"put", "commit"} /\ w.seen = None
    [] w.op = "save"     -> w.pc \in {"put", "read", "commit"} /\ (w.pc # "commit" => w.seen = None)
    [] w.op = "discard"  -> w.pc \in {"read", "commit"} /\ (w.pc # "commit" => w.seen = None)
    [] w.op = "promote"  -> /\ w.pc \in {"read", "target", "put", "commit"}
                            /\ w.pc = "read" => w.seen = None
                            /\ w.pc # "read" => w.seen # None
    [] w.op = "snapshot" -> w.pc \in {"read", "max", "commit"} /\ w.seen = None
    [] OTHER             -> w.pc = "read" /\ w.seen = None

\* A number picked for a version leaves no gap, though others may have taken it.
NumberFits(w) ==
  /\ w.number > 0 /\ w.target <= files
  /\ w.target # 0 /\ workbook[w.target] # None => w.number <= workbook[w.target].current + 1

\* The object a request brings is put, and its own until it commits.
BringsSafe(s) ==
  LET w == work[s] IN
  /\ w.op = "save" /\ w.pc = "put" => w.obj = None
  /\ w.op = "save" /\ w.pc # "put" => w.obj # None /\ Safe(w.obj, {s})
  /\ w.op \in {"upload", "promote"} /\ w.pc = "commit" => w.obj # None /\ Safe(w.obj, {})
  /\ w.op = "snapshot" /\ w.pc # "read" => w.obj # None /\ Safe(w.obj, {})
  /\ w.op = "promote" /\ w.pc \in {"put", "commit"} => NumberFits(w)
  /\ w.op = "snapshot" /\ w.pc \in {"max", "commit"} => w.target # 0 /\ w.target <= files
  /\ w.op = "snapshot" /\ w.pc = "commit" => NumberFits(w)

WorkIsSound == \A s \in Requests : work[s] # Vault!Idle => Phases(work[s]) /\ BringsSafe(s)

\* The draft row has not been published, and what was seen of its object was
\* seen of it.
DraftIsSound ==
  /\ draft # None =>
       /\ draft.id <= drafts /\ draft.obj <= puts /\ promoted[draft.id] = 0
       /\ \A s \in Requests : work[s] # Vault!Idle /\ work[s].seen # None
                              /\ work[s].seen.obj = draft.obj => work[s].seen.id = draft.id
  /\ \A d \in 1..MaxDrafts : promoted[d] <= 1 /\ (d > drafts => promoted[d] = 0)
  /\ \A s \in Requests : work[s] # Vault!Idle /\ work[s].seen # None => work[s].seen.obj <= puts

\* Who dooms the draft's object is about to replace the row or to delete it.
DoomedIsReplaced ==
  draft # None /\ (draft.obj \in doomed \/ draft.obj \notin stored) =>
    faulty \/ \E s \in Requests : /\ work[s] # Vault!Idle /\ work[s].pc = "commit"
                                  /\ work[s].op \in {"save", "discard"}
                                  /\ work[s].seen # None /\ work[s].seen.obj = draft.obj

VaultInv == VaultTyped /\ FilesAreSound /\ WorkIsSound /\ DraftIsSound /\ DoomedIsReplaced

LEMMA VaultInit == ASSUME VaultBounds PROVE Vault!Init => VaultInv
BY DEF VaultBounds, Vault!Init, VaultInv, VaultTyped, FilesAreSound, WorkIsSound, DraftIsSound, DoomedIsReplaced

\* A request under way has the fields of one.
LEMMA WorkFields ==
  ASSUME VaultTyped, NEW s \in Requests
  PROVE  /\ work[s].pc # "idle" => work[s] # Vault!Idle
         /\ work[s] # Vault!Idle => work[s] \in Vault!Works
         /\ Vault!Idle.pc = "idle"
BY DEF VaultTyped, Vault!Idle

\* What is safe stays safe, until its own request makes a draft of it.
LEMMA SafeStays ==
  ASSUME VaultBounds, VaultInv, [Vault!Next]_(Vault!vars), NEW o, NEW S, Safe(o, S),
         \A s \in S : ~Vault!SaveDraft(s)
  PROVE  Safe(o, S)'
<1>0. o \in Nat /\ o <= puts
  <2>1. VaultTyped /\ o \in stored
    BY DEF VaultInv, Safe
  <2>2. puts \in Nat /\ stored \subseteq 1..puts
    BY <2>1 DEF VaultTyped
  <2> QED BY <2>1, <2>2
<1> USE WorkFields DEF VaultBounds, VaultInv, VaultTyped
<1>1. CASE Vault!Crash
  BY <1>1 DEF Vault!Crash, Vault!db, Safe
<1>2. ASSUME NEW f \in 1..MaxFiles, Vault!DeleteFile(f) PROVE Safe(o, S)'
  BY <1>2 DEF Vault!DeleteFile, Vault!store, Safe
<1>3. ASSUME NEW d \in Vault!Objects, Vault!DeleteObject(d) PROVE Safe(o, S)'
  BY <1>3 DEF Vault!DeleteObject, Vault!db, Safe
<1>4. ASSUME NEW s \in Requests PROVE
  /\ \A op \in FileOps : Vault!Begin(s, op) => Safe(o, S)'
  /\ Vault!Put(s) => Safe(o, S)'
  /\ Vault!Fail(s) => Safe(o, S)'
  /\ Vault!Upload(s) => Safe(o, S)'
  /\ Vault!DoomDraft(s) => Safe(o, S)'
  /\ Vault!SaveDraft(s) => Safe(o, S)'
  /\ Vault!DiscardDraft(s) => Safe(o, S)'
  /\ Vault!ReadDraft(s) => Safe(o, S)'
  <2>1. ASSUME NEW op \in FileOps, Vault!Begin(s, op) PROVE Safe(o, S)'
    BY <1>0, <2>1 DEF Vault!Begin, Vault!db, Vault!store, Safe
  <2>2. ASSUME Vault!Put(s) PROVE Safe(o, S)'
    BY <1>0, <2>2 DEF Vault!Put, Vault!db, Safe, Vault!Works
  <2>3. ASSUME Vault!Fail(s) PROVE Safe(o, S)'
    BY <2>3 DEF Vault!Fail, Vault!db, Vault!store, Safe
  <2>4. ASSUME Vault!Upload(s) PROVE Safe(o, S)'
    BY <2>4 DEF Vault!Upload, Vault!Done, Vault!store, Safe
  <2>5. ASSUME Vault!DoomDraft(s) PROVE Safe(o, S)'
    BY <2>5 DEF Vault!DoomDraft, Vault!db, Safe, Vault!Works
  <2>6. ASSUME Vault!SaveDraft(s) PROVE Safe(o, S)'
    <3>1. s \notin S
      BY <2>6
    <3> QED BY <2>6, <3>1 DEF Vault!SaveDraft, Vault!Done, Vault!store, Safe, Vault!Draft
  <2>7. ASSUME Vault!DiscardDraft(s) PROVE Safe(o, S)'
    BY <2>7 DEF Vault!DiscardDraft, Vault!Done, Vault!store, Safe
  <2>8. ASSUME Vault!ReadDraft(s) PROVE Safe(o, S)'
    BY <2>8 DEF Vault!ReadDraft, Vault!Done, Vault!db, Vault!store, Safe, Vault!Works
  <2> QED BY <2>1, <2>2, <2>3, <2>4, <2>5, <2>6, <2>7, <2>8
<1>5. ASSUME NEW s \in Requests PROVE
  /\ Vault!PickTarget(s) => Safe(o, S)'
  /\ Vault!Promote(s) => Safe(o, S)'
  /\ Vault!PromoteRollsBack(s) => Safe(o, S)'
  /\ Vault!ReadFile(s) => Safe(o, S)'
  /\ Vault!ReadMax(s) => Safe(o, S)'
  /\ Vault!Snapshot(s) => Safe(o, S)'
  /\ Vault!SnapshotRollsBack(s) => Safe(o, S)'
  <2>1. ASSUME Vault!PickTarget(s) PROVE Safe(o, S)'
    BY <2>1 DEF Vault!PickTarget, Vault!db, Vault!store, Safe, Vault!Works
  <2>2. ASSUME Vault!Promote(s) PROVE Safe(o, S)'
    BY <2>2 DEF Vault!Promote, Vault!Done, Safe, Vault!DropsDraft, WorkIsSound, Phases
  <2>3. ASSUME Vault!PromoteRollsBack(s) PROVE Safe(o, S)'
    BY <2>3 DEF Vault!PromoteRollsBack, Vault!Done, Vault!db, Safe, WorkIsSound, Phases
  <2>4. ASSUME Vault!ReadFile(s) PROVE Safe(o, S)'
    <3>1. /\ work[s] # Vault!Idle /\ work[s] \in Vault!Works /\ work[s].op = "snapshot"
          /\ UNCHANGED <<draft, stored, doomed>>
      BY <2>4 DEF Vault!ReadFile, Vault!db, Vault!store
    <3>2. \/ work' = [work EXCEPT ![s] = Vault!Idle]
          \/ \E f : work' = [work EXCEPT ![s].target = f, ![s].obj = workbook[f].obj, ![s].pc = "max"]
      BY <2>4 DEF Vault!ReadFile
    <3>3. CASE work' = [work EXCEPT ![s] = Vault!Idle]
      BY <3>1, <3>3 DEF Safe
    <3>4. ASSUME NEW f, work' = [work EXCEPT ![s].target = f, ![s].obj = workbook[f].obj, ![s].pc = "max"]
          PROVE  Safe(o, S)'
      <4>1. work'[s].op = work[s].op /\ work'[s].seen = work[s].seen
            /\ \A q \in Requests \ {s} : work'[q] = work[q]
        BY <3>1, <3>4 DEF Vault!Works
      <4> QED BY <3>1, <4>1 DEF Safe
    <3> QED BY <3>2, <3>3, <3>4
  <2>5. ASSUME Vault!ReadMax(s) PROVE Safe(o, S)'
    <3>1. /\ work[s] # Vault!Idle /\ work[s] \in Vault!Works /\ UNCHANGED <<draft, stored, doomed>>
          /\ \E n : work' = [work EXCEPT ![s].number = n, ![s].pc = "commit"]
      BY <2>5 DEF Vault!ReadMax, Vault!db, Vault!store
    <3>2. work'[s].op = work[s].op /\ work'[s].seen = work[s].seen /\ work'[s].obj = work[s].obj
          /\ \A q \in Requests \ {s} : work'[q] = work[q]
      BY <3>1 DEF Vault!Works
    <3> QED BY <3>1, <3>2 DEF Safe
  <2>6. ASSUME Vault!Snapshot(s) PROVE Safe(o, S)'
    BY <2>6 DEF Vault!Snapshot, Vault!Done, Vault!store, Safe
  <2>7. ASSUME Vault!SnapshotRollsBack(s) PROVE Safe(o, S)'
    BY <2>7 DEF Vault!SnapshotRollsBack, Vault!Done, Vault!db, Vault!store, Safe
  <2> QED BY <2>1, <2>2, <2>3, <2>4, <2>5, <2>6, <2>7
<1>6. CASE UNCHANGED Vault!vars
  BY <1>6 DEF Vault!vars, Vault!db, Vault!store, Safe
<1> QED
  BY <1>1, <1>2, <1>3, <1>4, <1>5, <1>6 DEF Vault!Next

LEMMA GreatestMember ==
  ASSUME NEW n \in Nat, NEW S, S \subseteq 1..n, S # {}
  PROVE  \E i \in S : \A j \in S : j <= i
<1> DEFINE T == {k \in 1..n : n + 1 - k \in S}
<1>1. T \subseteq 1..n
  OBVIOUS
<1>2. \A i \in S : n + 1 - i \in T
  OBVIOUS
<1>3. T # {}
  BY <1>2
<1> HIDE DEF T
<1>4. PICK k \in T : \A j \in T : k <= j
  BY <1>1, <1>3, LeastMember
<1>5. n + 1 - k \in S /\ k \in 1..n
  BY <1>1 DEF T
<1>6. \A j \in S : j <= n + 1 - k
  BY <1>2, <1>4, <1>5
<1> QED
  BY <1>5, <1>6

\* The newest file is one that is there.
LEMMA LatestIsThere ==
  ASSUME VaultBounds, VaultInv
  PROVE  Vault!Latest = 0 \/ (Vault!Latest \in 1..files /\ workbook[Vault!Latest] # None)
<1>1. files \in Nat /\ Vault!Existing \subseteq 1..files
  BY DEF VaultBounds, VaultInv, VaultTyped, Vault!Existing
<1>2. CASE Vault!Existing = {}
  BY <1>2 DEF Vault!Latest
<1>3. CASE Vault!Existing # {}
  <2>1. \E f \in Vault!Existing : \A g \in Vault!Existing : g <= f
    BY <1>1, <1>3, GreatestMember
  <2>2. Vault!Latest \in Vault!Existing
    BY <1>3, <2>1 DEF Vault!Latest
  <2> QED BY <1>1, <2>2 DEF Vault!Existing
<1> QED
  BY <1>2, <1>3

\* The ways a step writes the files.
Untouched == workbook' = workbook /\ files' = files

Created ==
  \E o : /\ Safe(o, {}) /\ files < MaxFiles /\ files' = files + 1
         /\ workbook' = [workbook EXCEPT ![files + 1] =
              [current |-> 1, obj |-> o, versions |-> [n \in {1} |-> o]]]

Removed == \E f \in 1..MaxFiles : workbook' = [workbook EXCEPT ![f] = None] /\ files' = files

VersionAdded(o, kept, f) ==
  /\ Safe(o, {}) /\ files' = files /\ f \in 1..MaxFiles /\ f <= files /\ workbook[f] # None
  /\ kept \in {o, workbook[f].obj}
  /\ workbook' = [workbook EXCEPT ![f] =
       [current |-> workbook[f].current + 1, obj |-> kept,
        versions |-> [n \in 1..(workbook[f].current + 1) |->
                        IF n = workbook[f].current + 1 THEN o ELSE workbook[f].versions[n]]]]

\* A number that fits and is not taken is the next.
LEMMA NextNumber ==
  ASSUME VaultBounds, VaultInv, NEW s \in Requests, work[s] # Vault!Idle,
         work[s].target # 0, NumberFits(work[s]), Vault!Writable(work[s])
  PROVE  /\ work[s].target \in 1..MaxFiles /\ work[s].target <= files
         /\ work[s].number = workbook[work[s].target].current + 1
         /\ DOMAIN workbook[work[s].target].versions \cup {work[s].number}
              = 1..(workbook[work[s].target].current + 1)
         /\ DOMAIN workbook[work[s].target] = {"current", "obj", "versions"}
<1>1. work[s].target \in 0..MaxFiles /\ work[s].number \in Nat
  BY DEF VaultInv, VaultTyped, Vault!Works
<1>2. work[s].target \in 1..MaxFiles /\ workbook[work[s].target] # None
  BY <1>1 DEF VaultBounds, Vault!Writable
<1>3. /\ workbook[work[s].target].current \in Nat /\ work[s].number > 0
      /\ DOMAIN workbook[work[s].target].versions = 1..workbook[work[s].target].current
      /\ work[s].number \notin DOMAIN workbook[work[s].target].versions
      /\ work[s].number <= workbook[work[s].target].current + 1
      /\ DOMAIN workbook[work[s].target] = {"current", "obj", "versions"}
      /\ work[s].target <= files
  BY <1>2 DEF VaultInv, FilesAreSound, NumberFits, Vault!Writable
<1>4. work[s].number = workbook[work[s].target].current + 1
  BY <1>1, <1>3
<1> QED
  BY <1>1, <1>2, <1>3, <1>4

LEMMA PromoteWrites ==
  ASSUME VaultBounds, VaultInv, NEW s \in Requests, Vault!Promote(s)
  PROVE  Created \/ \E o, f : VersionAdded(o, o, f)
<1>1. /\ work[s] # Vault!Idle /\ work[s].obj # None /\ Safe(work[s].obj, {}) /\ NumberFits(work[s])
  BY WorkFields DEF VaultInv, Vault!Promote, WorkIsSound, BringsSafe
<1>2. CASE work[s].target = 0
  BY <1>1, <1>2 DEF Vault!Promote, Vault!NewFile, Created
<1>3. CASE work[s].target # 0
  <2>1. /\ Vault!Writable(work[s]) /\ files' = files
        /\ workbook' = [workbook EXCEPT ![work[s].target] =
                          Vault!WithVersion(@, work[s].number, work[s].obj)]
    BY <1>3 DEF Vault!Promote
  <2>2. /\ work[s].target \in 1..MaxFiles /\ work[s].target <= files
        /\ work[s].number = workbook[work[s].target].current + 1
        /\ DOMAIN workbook[work[s].target].versions \cup {work[s].number}
             = 1..(workbook[work[s].target].current + 1)
    BY <1>1, <1>3, <2>1, NextNumber
  <2>3. workbook' = [workbook EXCEPT ![work[s].target] =
          Vault!WithVersion(workbook[work[s].target], work[s].number, work[s].obj)]
    BY <2>1, <2>2 DEF VaultInv, VaultTyped
  <2>4. VersionAdded(work[s].obj, work[s].obj, work[s].target)
    BY <1>1, <2>1, <2>2, <2>3 DEF VersionAdded, Vault!WithVersion, Vault!Writable
  <2> QED BY <2>4
<1> QED
  BY <1>2, <1>3

LEMMA SnapshotWrites ==
  ASSUME VaultBounds, VaultInv, NEW s \in Requests, Vault!Snapshot(s)
  PROVE  \E o, f : VersionAdded(o, workbook[f].obj, f)
<1>1. /\ work[s] # Vault!Idle /\ work[s].obj # None /\ Safe(work[s].obj, {}) /\ NumberFits(work[s])
      /\ work[s].target # 0 /\ Vault!Writable(work[s])
  BY WorkFields DEF VaultInv, Vault!Snapshot, WorkIsSound, BringsSafe
<1>2. /\ work[s].target \in 1..MaxFiles /\ work[s].target <= files
      /\ work[s].number = workbook[work[s].target].current + 1
      /\ DOMAIN workbook[work[s].target].versions \cup {work[s].number}
           = 1..(workbook[work[s].target].current + 1)
  BY <1>1, NextNumber
<1>3. /\ files' = files
      /\ workbook' = [workbook EXCEPT ![work[s].target] =
          [Vault!WithVersion(workbook[work[s].target], work[s].number, work[s].obj)
             EXCEPT !.obj = workbook[work[s].target].obj]]
  BY <1>2 DEF VaultInv, VaultTyped, Vault!Snapshot
<1>4. [Vault!WithVersion(workbook[work[s].target], work[s].number, work[s].obj)
         EXCEPT !.obj = workbook[work[s].target].obj]
      = [current |-> workbook[work[s].target].current + 1, obj |-> workbook[work[s].target].obj,
         versions |-> [n \in 1..(workbook[work[s].target].current + 1) |->
                         IF n = workbook[work[s].target].current + 1 THEN work[s].obj
                         ELSE workbook[work[s].target].versions[n]]]
  <2>1. Vault!WithVersion(workbook[work[s].target], work[s].number, work[s].obj)
        = [current |-> workbook[work[s].target].current + 1, obj |-> work[s].obj,
           versions |-> [n \in 1..(workbook[work[s].target].current + 1) |->
                           IF n = workbook[work[s].target].current + 1 THEN work[s].obj
                           ELSE workbook[work[s].target].versions[n]]]
    BY <1>2 DEF Vault!WithVersion
  <2>2. PICK c : c = workbook[work[s].target].current + 1
    OBVIOUS
  <2>3. PICK b : b = workbook[work[s].target].obj
    OBVIOUS
  <2>4. PICK v : v = [n \in 1..(workbook[work[s].target].current + 1) |->
                       IF n = workbook[work[s].target].current + 1 THEN work[s].obj
                       ELSE workbook[work[s].target].versions[n]]
    OBVIOUS
  <2>5. PICK r : r = Vault!WithVersion(workbook[work[s].target], work[s].number, work[s].obj)
    OBVIOUS
  <2>6. r = [current |-> c, obj |-> work[s].obj, versions |-> v]
    BY <2>1, <2>2, <2>4, <2>5, Zenon
  <2>7. [r EXCEPT !.obj = b] = [current |-> c, obj |-> b, versions |-> v]
    BY <2>6
  <2> QED BY <2>2, <2>3, <2>4, <2>5, <2>7, Zenon
<1>5. VersionAdded(work[s].obj, workbook[work[s].target].obj, work[s].target)
  BY <1>1, <1>2, <1>3, <1>4 DEF VersionAdded, Vault!Writable
<1> QED
  BY <1>5

\* What a step does to the files; only a snapshot leaves a file's object behind.
LEMMA FileWrites ==
  ASSUME VaultBounds, VaultInv, [Vault!Next]_(Vault!vars)
  PROVE  \/ Untouched \/ Created \/ Removed
         \/ \E o, f : VersionAdded(o, o, f)
         \/ /\ \E o, f : VersionAdded(o, workbook[f].obj, f)
            /\ \E s \in Requests : Vault!Snapshot(s)
<1>1. CASE Vault!Crash
  BY <1>1 DEF Vault!Crash, Vault!db, Untouched
<1>2. ASSUME NEW f \in 1..MaxFiles, Vault!DeleteFile(f) PROVE Removed
  BY <1>2 DEF Vault!DeleteFile, Removed
<1>3. ASSUME NEW d, Vault!DeleteObject(d) PROVE Untouched
  BY <1>3 DEF Vault!DeleteObject, Vault!db, Untouched
<1>4. ASSUME NEW s \in Requests, Vault!Upload(s) PROVE Created
  <2>1. Safe(work[s].obj, {})
    BY <1>4, WorkFields DEF VaultInv, WorkIsSound, BringsSafe, Vault!Upload
  <2> QED BY <1>4, <2>1 DEF Vault!Upload, Vault!NewFile, Created
<1>5. ASSUME NEW s \in Requests PROVE
  /\ \A op \in FileOps : Vault!Begin(s, op) => Untouched
  /\ Vault!Put(s) \/ Vault!Fail(s) \/ Vault!DoomDraft(s) \/ Vault!SaveDraft(s) \/ Vault!DiscardDraft(s)
       \/ Vault!ReadDraft(s) \/ Vault!PickTarget(s) => Untouched
  /\ Vault!PromoteRollsBack(s) \/ Vault!ReadFile(s) \/ Vault!ReadMax(s) \/ Vault!SnapshotRollsBack(s)
       => Untouched
  BY DEF Vault!Begin, Vault!Put, Vault!Fail, Vault!DoomDraft, Vault!SaveDraft, Vault!DiscardDraft,
         Vault!ReadDraft, Vault!PickTarget, Vault!PromoteRollsBack, Vault!ReadFile, Vault!ReadMax,
         Vault!SnapshotRollsBack, Vault!db, Untouched
<1>6. CASE UNCHANGED Vault!vars
  BY <1>6 DEF Vault!vars, Vault!db, Untouched
<1> QED
  BY <1>1, <1>2, <1>3, <1>4, <1>5, <1>6, PromoteWrites, SnapshotWrites DEF Vault!Next

LEMMA FilesStaySound ==
  ASSUME VaultBounds, VaultInv, [Vault!Next]_(Vault!vars)
  PROVE  FilesAreSound'
<1>1. \A o : Safe(o, {}) => Safe(o, {})'
  BY SafeStays
<1>2. FilesAreSound /\ DOMAIN workbook = 1..MaxFiles /\ files \in 0..MaxFiles /\ MaxFiles \in Nat
  BY DEF VaultBounds, VaultInv, VaultTyped
<1>3. CASE Untouched
  BY <1>1, <1>2, <1>3 DEF FilesAreSound, Untouched
<1>4. CASE Created
  <2>1. PICK o : /\ Safe(o, {}) /\ files < MaxFiles /\ files' = files + 1
                 /\ workbook' = [workbook EXCEPT ![files + 1] =
                      [current |-> 1, obj |-> o, versions |-> [n \in {1} |-> o]]]
    BY <1>4 DEF Created
  <2>2. \A f \in 1..MaxFiles : f # files + 1 => workbook'[f] = workbook[f]
    BY <1>2, <2>1
  <2>3. /\ files + 1 \in 1..MaxFiles /\ workbook'[files + 1].current = 1 /\ workbook'[files + 1].obj = o
        /\ workbook'[files + 1].versions = [n \in {1} |-> o]
        /\ DOMAIN workbook'[files + 1] = {"current", "obj", "versions"}
    BY <1>2, <2>1
  <2>4. PICK n \in 1..MaxFiles : n = files + 1
    BY <2>3
  <2>5. ASSUME NEW f \in 1..MaxFiles, workbook'[f] # None, f # n
        PROVE  /\ f <= files' /\ DOMAIN workbook'[f] = {"current", "obj", "versions"}
               /\ workbook'[f].current \in Nat /\ workbook'[f].current > 0
               /\ DOMAIN workbook'[f].versions = 1..workbook'[f].current
               /\ Safe(workbook[f].obj, {})'
               /\ \A m \in 1..workbook'[f].current : Safe(workbook[f].versions[m], {})'
    BY <1>1, <1>2, <2>1, <2>2, <2>4, <2>5 DEF FilesAreSound
  <2>6. /\ n <= files' /\ DOMAIN workbook'[n] = {"current", "obj", "versions"}
        /\ workbook'[n].current \in Nat /\ workbook'[n].current > 0
        /\ DOMAIN workbook'[n].versions = 1..workbook'[n].current
        /\ Safe(workbook[n].obj, {})'
        /\ \A m \in 1..workbook'[n].current : Safe(workbook[n].versions[m], {})'
    BY <1>1, <1>2, <2>1, <2>3, <2>4
  <2> QED BY <2>5, <2>6 DEF FilesAreSound
<1>5. CASE Removed
  BY <1>1, <1>2, <1>5 DEF FilesAreSound, Removed
<1>6. ASSUME NEW o, NEW f, NEW kept, VersionAdded(o, kept, f) PROVE FilesAreSound'
  BY <1>1, <1>2, <1>6 DEF FilesAreSound, VersionAdded
<1> QED
  BY <1>3, <1>4, <1>5, <1>6, FileWrites

\* A number that fits goes on fitting: files only grow or go.
LEMMA NumbersKeepFitting ==
  ASSUME VaultBounds, VaultInv, [Vault!Next]_(Vault!vars), NEW w \in Vault!Works, NumberFits(w)
  PROVE  NumberFits(w)'
<1>1. FilesAreSound /\ DOMAIN workbook = 1..MaxFiles /\ files \in 0..MaxFiles /\ MaxFiles \in Nat
      /\ w.target \in 0..MaxFiles /\ w.number \in Nat
  BY DEF VaultBounds, VaultInv, VaultTyped, Vault!Works
<1>2. CASE Untouched
  BY <1>2 DEF NumberFits, Untouched
<1>3. CASE Created
  BY <1>1, <1>3 DEF NumberFits, Created, FilesAreSound
<1>4. CASE Removed
  BY <1>1, <1>4 DEF NumberFits, Removed, FilesAreSound
<1>5. ASSUME NEW o, NEW f, NEW kept, VersionAdded(o, kept, f) PROVE NumberFits(w)'
  <2>1. CASE f # w.target
    BY <1>1, <1>5, <2>1 DEF NumberFits, VersionAdded
  <2>2. CASE f = w.target /\ f # 0
    <3>1. workbook'[f].current = workbook[f].current + 1 /\ workbook[f].current \in Nat /\ files' = files
          /\ workbook[f] # None
      BY <1>1, <1>5, <2>2 DEF FilesAreSound, VersionAdded
    <3> QED BY <1>1, <2>2, <3>1 DEF NumberFits
  <2>3. CASE w.target = 0
    BY <1>5, <2>3 DEF NumberFits, VersionAdded
  <2> QED BY <2>1, <2>2, <2>3
<1> QED
  BY <1>2, <1>3, <1>4, <1>5, FileWrites

\* What a request has in hand stays sound while others take steps.
LEMMA RestingStaysSound ==
  ASSUME VaultBounds, VaultInv, [Vault!Next]_(Vault!vars), NEW q \in Requests,
         work[q] # Vault!Idle, work'[q] = work[q]
  PROVE  Phases(work[q])' /\ BringsSafe(q)'
<1>1. Phases(work[q]) /\ BringsSafe(q) /\ work[q] \in Vault!Works
  BY WorkFields DEF VaultInv, WorkIsSound
<1>2. ~Vault!SaveDraft(q)
  <2>1. Vault!SaveDraft(q) => work'[q] = Vault!Idle
    BY DEF Vault!SaveDraft, Vault!Done, VaultInv, VaultTyped
  <2> QED BY <2>1
<1>3. \A o : (Safe(o, {}) => Safe(o, {})') /\ (Safe(o, {q}) => Safe(o, {q})')
  BY <1>2, SafeStays
<1>4. PICK w \in Vault!Works : w = work[q]
  BY <1>1
<1>5. NumberFits(w) => NumberFits(w)'
  BY NumbersKeepFitting
<1>6. files \in Nat /\ files' \in Nat /\ files' >= files
  <2>1. files \in Nat
    BY DEF VaultBounds, VaultInv, VaultTyped
  <2>2. files' = files \/ files' = files + 1
    BY FileWrites, Zenon DEF Untouched, Created, Removed, VersionAdded
  <2> QED BY <2>1, <2>2
<1>7. NumberFits(work[q]) => NumberFits(work[q])'
  BY <1>4, <1>5 DEF NumberFits
<1>8. w.target \in Nat
  BY DEF VaultBounds, Vault!Works
<1>9. /\ Safe(work[q].obj, {}) => Safe(work[q].obj, {})'
      /\ Safe(work[q].obj, {q}) => Safe(work[q].obj, {q})'
  <2>1. /\ Safe(w.obj, {}) => Safe(w.obj, {})'
        /\ Safe(w.obj, {q}) => Safe(w.obj, {q})'
    BY <1>3
  <2>2. /\ Safe(work[q].obj, {})' <=> Safe(w.obj, {})'
        /\ Safe(work[q].obj, {q})' <=> Safe(w.obj, {q})'
    BY <1>4 DEF Safe
  <2> QED BY <1>4, <2>1, <2>2
<1>10. BringsSafe(q)'
  <2>1. work'[q] = work[q] /\ work[q].target \in Nat
    BY <1>4, <1>8
  <2>2. work[q].target <= files => work[q].target <= files'
    BY <1>6, <2>1
  <2> QED BY <1>1, <1>7, <1>9, <2>1, <2>2 DEF BringsSafe
<1> QED
  BY <1>1, <1>10 DEF Phases

\* The steps that leave a request under way, one by one.
LEMMA BeginIsSound ==
  ASSUME VaultBounds, VaultInv, NEW s \in Requests, NEW op \in FileOps, Vault!Begin(s, op)
  PROVE  /\ \A q \in Requests \ {s} : work'[q] = work[q]
         /\ work'[s] \in Vault!Works /\ Phases(work[s])' /\ BringsSafe(s)' /\ work'[s].seen = None
<1>1. work' = [work EXCEPT ![s] = [op |-> op, seen |-> None, target |-> 0,
        number |-> 1, obj |-> None, pc |-> IF op \in {"upload", "save"} THEN "put" ELSE "read"]]
  BY DEF Vault!Begin
<1>2. /\ \A q \in Requests \ {s} : work'[q] = work[q]
      /\ work'[s] = [op |-> op, seen |-> None, target |-> 0, number |-> 1, obj |-> None,
                     pc |-> IF op \in {"upload", "save"} THEN "put" ELSE "read"]
  BY <1>1 DEF VaultInv, VaultTyped
<1> QED
  BY <1>2 DEF Vault!Works, Phases, BringsSafe, VaultBounds

LEMMA PutIsSound ==
  ASSUME VaultBounds, VaultInv, NEW s \in Requests, Vault!Put(s)
  PROVE  /\ \A q \in Requests \ {s} : work'[q] = work[q]
         /\ work'[s] \in Vault!Works /\ Phases(work[s])' /\ BringsSafe(s)'
         /\ work'[s].seen = work[s].seen
<1>0. PICK new \in Int : new = puts + 1
  BY DEF VaultInv, VaultTyped
<1>1. /\ work[s].pc = "put" /\ puts' = new /\ stored' = stored \cup {new} /\ new \in 1..MaxPuts
      /\ work' = [work EXCEPT ![s].obj = new,
                              ![s].pc = IF work[s].op = "save" THEN "read" ELSE "commit"]
      /\ UNCHANGED <<workbook, files, draft, doomed>>
  BY <1>0 DEF Vault!Put, Vault!db, VaultBounds, VaultInv, VaultTyped
<1>2. work[s] \in Vault!Works /\ Phases(work[s]) /\ BringsSafe(s) /\ work[s] # Vault!Idle
  BY <1>1, WorkFields DEF VaultInv, WorkIsSound
<1>3. /\ \A q \in Requests \ {s} : work'[q] = work[q]
      /\ work'[s].obj = new /\ work'[s].pc = (IF work[s].op = "save" THEN "read" ELSE "commit")
      /\ work'[s].op = work[s].op /\ work'[s].seen = work[s].seen
      /\ work'[s].target = work[s].target /\ work'[s].number = work[s].number
  BY <1>1, <1>2 DEF VaultInv, VaultTyped, Vault!Works
<1>4. work'[s] \in Vault!Works
  BY <1>1, <1>2 DEF VaultInv, VaultTyped, Vault!Works, Vault!Objects
<1>5. puts \in Nat /\ new \notin stored /\ new \notin doomed /\ new # None
  BY <1>0 DEF VaultBounds, VaultInv, VaultTyped
<1>6. draft # None => draft.obj # new
  BY <1>0, <1>5 DEF VaultInv, DraftIsSound, VaultTyped, Vault!Draft, Vault!Objects
<1>7. \A q \in Requests : work[q] # Vault!Idle /\ work[q].seen # None => work[q].seen.obj # new
  <2> TAKE q \in Requests
  <2>1. work[q] # Vault!Idle /\ work[q].seen # None => work[q].seen.obj \in Nat /\ work[q].seen.obj <= puts
    BY WorkFields DEF VaultBounds, VaultInv, DraftIsSound, Vault!Works, Vault!Draft, Vault!Objects
  <2> QED BY <1>0, <1>5, <2>1
<1>8. \A q \in Requests \ {s} : work[q] # Vault!Idle /\ work[q].op = "save" => work[q].obj # new
  <2> TAKE q \in Requests \ {s}
  <2>1. CASE work[q] # Vault!Idle /\ work[q].op = "save" /\ work[q].pc # "put"
    BY <2>1, <1>5 DEF VaultInv, WorkIsSound, BringsSafe, Safe
  <2>2. CASE work[q] # Vault!Idle /\ work[q].op = "save" /\ work[q].pc = "put"
    BY <2>2, <1>5 DEF VaultInv, WorkIsSound, BringsSafe
  <2> QED BY <2>1, <2>2
<1>9. /\ work[s].op = "save" => Safe(work[s].obj, {s})'
      /\ work[s].op # "save" => Safe(work[s].obj, {})'
  <2>1. /\ work'[s].obj = new /\ new \in stored' /\ new \notin doomed'
        /\ draft' # None => draft'.obj # new
    BY <1>1, <1>3, <1>5, <1>6
  <2>2. \A q \in Requests : work'[q] # Vault!Idle /\ work'[q].seen # None => work'[q].seen.obj # new
    BY <1>2, <1>3, <1>7
  <2>3. \A q \in Requests \ {s} : work'[q] # Vault!Idle /\ work'[q].op = "save" => work'[q].obj # new
    BY <1>3, <1>8
  <2>4. work'[s].op = work[s].op
    BY <1>3
  <2> QED BY <2>1, <2>2, <2>3, <2>4 DEF Safe
<1>10. Phases(work[s])'
  BY <1>1, <1>2, <1>3 DEF Phases
<1>11. NumberFits(work[s]) => NumberFits(work[s])'
  BY <1>1, <1>3 DEF NumberFits
<1>12. BringsSafe(s)'
  BY <1>1, <1>2, <1>3, <1>5, <1>9, <1>11 DEF BringsSafe, Phases
<1> QED
  BY <1>3, <1>4, <1>10, <1>12

LEMMA DoomDraftIsSound ==
  ASSUME VaultBounds, VaultInv, [Vault!Next]_(Vault!vars), NEW s \in Requests, Vault!DoomDraft(s)
  PROVE  /\ \A q \in Requests \ {s} : work'[q] = work[q]
         /\ work'[s] \in Vault!Works /\ Phases(work[s])' /\ BringsSafe(s)'
         /\ work'[s].seen = draft /\ work'[s].pc = "commit" /\ work'[s].op \in {"save", "discard"}
<1>1. /\ work[s].pc = "read" /\ work[s].op \in {"save", "discard"}
      /\ work' = [work EXCEPT ![s].seen = draft, ![s].pc = "commit"]
  BY DEF Vault!DoomDraft
<1>2. work[s] \in Vault!Works /\ Phases(work[s]) /\ BringsSafe(s) /\ work[s] # Vault!Idle
  BY <1>1, WorkFields DEF VaultInv, WorkIsSound
<1>3. /\ \A q \in Requests \ {s} : work'[q] = work[q]
      /\ work'[s].obj = work[s].obj /\ work'[s].pc = "commit"
      /\ work'[s].op = work[s].op /\ work'[s].seen = draft
  BY <1>1, <1>2 DEF VaultInv, VaultTyped, Vault!Works
<1>4. work'[s] \in Vault!Works
  BY <1>1, <1>2 DEF VaultInv, VaultTyped, Vault!Works
<1>5. work[s].op = "save" => work[s].obj # None /\ Safe(work[s].obj, {s})'
  <2>1. PICK o : o = work[s].obj
    OBVIOUS
  <2>2. ~Vault!SaveDraft(s)
    BY <1>1 DEF Vault!SaveDraft
  <2>3. work[s].op = "save" => work[s].obj # None /\ Safe(o, {s})
    BY <1>1, <1>2, <2>1 DEF BringsSafe
  <2>4. Safe(o, {s}) => Safe(o, {s})'
    BY <2>2, SafeStays
  <2>5. Safe(o, {s})' => Safe(work[s].obj, {s})'
    BY <1>3, <2>1 DEF Safe
  <2> QED BY <2>3, <2>4, <2>5
<1>6. Phases(work[s])' /\ BringsSafe(s)'
  BY <1>1, <1>3, <1>5 DEF Phases, BringsSafe
<1> QED
  BY <1>1, <1>3, <1>4, <1>6

LEMMA ReadDraftIsSound ==
  ASSUME VaultBounds, VaultInv, NEW s \in Requests, Vault!ReadDraft(s)
  PROVE  /\ \A q \in Requests \ {s} : work'[q] = work[q]
         /\ work'[s] # Vault!Idle => /\ work'[s] \in Vault!Works /\ Phases(work[s])' /\ BringsSafe(s)'
                                     /\ work'[s].seen = draft
<1>1. work[s].pc = "read" /\ work[s].op = "promote"
  BY DEF Vault!ReadDraft
<1>2. work[s] \in Vault!Works /\ work[s] # Vault!Idle
  BY <1>1, WorkFields DEF VaultInv
<1>3. CASE work' = [work EXCEPT ![s] = Vault!Idle]
  BY <1>3 DEF VaultInv, VaultTyped
<1>4. CASE draft # None /\ work' = [work EXCEPT ![s].seen = draft, ![s].pc = "target"]
  <2>1. /\ \A q \in Requests \ {s} : work'[q] = work[q]
        /\ work'[s].pc = "target" /\ work'[s].op = "promote" /\ work'[s].seen = draft
    BY <1>1, <1>2, <1>4 DEF VaultInv, VaultTyped, Vault!Works
  <2>2. work'[s] \in Vault!Works
    BY <1>2, <1>4 DEF VaultInv, VaultTyped, Vault!Works
  <2>3. Phases(work[s])' /\ BringsSafe(s)'
    BY <1>4, <2>1 DEF Phases, BringsSafe
  <2> QED BY <2>1, <2>2, <2>3
<1> QED
  BY <1>3, <1>4 DEF Vault!ReadDraft, Vault!Done

LEMMA PickTargetIsSound ==
  ASSUME VaultBounds, VaultInv, NEW s \in Requests, Vault!PickTarget(s)
  PROVE  /\ \A q \in Requests \ {s} : work'[q] = work[q]
         /\ work'[s] \in Vault!Works /\ Phases(work[s])' /\ BringsSafe(s)'
         /\ work'[s].seen = work[s].seen
<1> DEFINE L == Vault!Latest
           n == IF L = 0 THEN 1 ELSE workbook[L].current + 1
<1>1. /\ work[s].pc = "target" /\ work' = [work EXCEPT ![s].pc = "put", ![s].target = L, ![s].number = n]
      /\ UNCHANGED <<workbook, files>>
  BY DEF Vault!PickTarget, Vault!db
<1>2. work[s] \in Vault!Works /\ Phases(work[s]) /\ work[s] # Vault!Idle
  BY <1>1, WorkFields DEF VaultInv, WorkIsSound
<1>3. L = 0 \/ (L \in 1..files /\ workbook[L] # None)
  BY LatestIsThere
<1>4. files \in 0..MaxFiles /\ MaxFiles \in Nat /\ FilesAreSound
  BY DEF VaultBounds, VaultInv, VaultTyped
<1> HIDE DEF L
<1>5. L \in 0..MaxFiles /\ L <= files /\ (L # 0 => L \in 1..MaxFiles /\ workbook[L] # None)
  BY <1>3, <1>4
<1>6. n \in Nat /\ n > 0 /\ (L # 0 /\ workbook[L] # None => n <= workbook[L].current + 1)
  BY <1>4, <1>5 DEF FilesAreSound
<1> HIDE DEF n
<1>7. /\ \A q \in Requests \ {s} : work'[q] = work[q]
      /\ work'[s].pc = "put" /\ work'[s].target = L /\ work'[s].number = n
      /\ work'[s].op = work[s].op /\ work'[s].seen = work[s].seen
  BY <1>1, <1>2 DEF VaultInv, VaultTyped, Vault!Works
<1>8. work'[s] \in Vault!Works
  BY <1>1, <1>2, <1>5, <1>6 DEF VaultInv, VaultTyped, Vault!Works
<1>9. work[s].op = "promote" /\ Phases(work[s])'
  BY <1>1, <1>2, <1>7 DEF Phases
<1>10. NumberFits(work[s])'
  BY <1>1, <1>5, <1>6, <1>7 DEF NumberFits
<1>11. BringsSafe(s)'
  BY <1>7, <1>9, <1>10 DEF BringsSafe
<1> QED
  BY <1>7, <1>8, <1>9, <1>11

LEMMA ReadFileIsSound ==
  ASSUME VaultBounds, VaultInv, [Vault!Next]_(Vault!vars), NEW s \in Requests, Vault!ReadFile(s)
  PROVE  /\ \A q \in Requests \ {s} : work'[q] = work[q]
         /\ work'[s] # Vault!Idle => /\ work'[s] \in Vault!Works /\ Phases(work[s])' /\ BringsSafe(s)'
                                     /\ work'[s].seen = work[s].seen
<1>1. /\ work[s].pc = "read" /\ work[s].op = "snapshot" /\ UNCHANGED <<workbook, files>>
      /\ \/ work' = [work EXCEPT ![s] = Vault!Idle]
         \/ \E f \in Vault!Existing :
              work' = [work EXCEPT ![s].target = f, ![s].obj = workbook[f].obj, ![s].pc = "max"]
  BY DEF Vault!ReadFile, Vault!db
<1>2. work[s] \in Vault!Works /\ Phases(work[s]) /\ work[s] # Vault!Idle
  BY <1>1, WorkFields DEF VaultInv, WorkIsSound
<1>3. CASE work' = [work EXCEPT ![s] = Vault!Idle]
  BY <1>3 DEF VaultInv, VaultTyped
<1>4. ASSUME NEW f \in Vault!Existing,
             work' = [work EXCEPT ![s].target = f, ![s].obj = workbook[f].obj, ![s].pc = "max"]
      PROVE  /\ \A q \in Requests \ {s} : work'[q] = work[q]
             /\ work'[s] \in Vault!Works /\ Phases(work[s])' /\ BringsSafe(s)'
             /\ work'[s].seen = work[s].seen
  <2>1. PICK o : o = workbook[f].obj
    OBVIOUS
  <2>2. f \in 1..files /\ f \in 1..MaxFiles /\ workbook[f] # None /\ files \in Nat
    BY DEF Vault!Existing, VaultBounds, VaultInv, VaultTyped
  <2>3. Safe(o, {})
    BY <2>1, <2>2 DEF VaultInv, FilesAreSound
  <2>4. o \in 1..MaxPuts /\ o # None
    BY <2>3 DEF Safe, VaultBounds, VaultInv, VaultTyped
  <2>5. work' = [work EXCEPT ![s].target = f, ![s].obj = o, ![s].pc = "max"]
    BY <1>4, <2>1
  <2>6. /\ \A q \in Requests \ {s} : work'[q] = work[q]
        /\ work'[s].pc = "max" /\ work'[s].target = f /\ work'[s].obj = o
        /\ work'[s].op = work[s].op /\ work'[s].seen = work[s].seen
    BY <2>5, <1>2 DEF VaultInv, VaultTyped, Vault!Works
  <2>7. work'[s] \in Vault!Works
    <3>1. f \in 0..MaxFiles /\ o \in Vault!Objects \cup {None}
      BY <2>2, <2>4 DEF VaultBounds, Vault!Objects
    <3>2. work'[s] = [work[s] EXCEPT !.target = f, !.obj = o, !.pc = "max"]
      BY <2>5 DEF VaultInv, VaultTyped
    <3> QED BY <3>1, <3>2, <1>2 DEF Vault!Works
  <2>8. Safe(work[s].obj, {})'
    <3>1. Safe(o, {})'
      BY <2>3, SafeStays
    <3> QED BY <3>1, <2>6 DEF Safe
  <2>9. Phases(work[s])'
    BY <1>1, <1>2, <2>6 DEF Phases
  <2>10. BringsSafe(s)'
    <3>0. files' = files
      BY <1>1
    <3>1. f # 0 /\ f <= files /\ files' = files
      <4>1. f \in 1..files /\ files \in Nat
        BY <2>2
      <4> QED BY <3>0, <4>1
    <3>2. work'[s].op = "snapshot" /\ work'[s].pc = "max" /\ work'[s].obj # None
      BY <1>1, <2>4, <2>6
    <3> QED BY <2>6, <2>8, <3>1, <3>2 DEF BringsSafe
  <2> QED BY <2>6, <2>7, <2>9, <2>10
<1> QED
  BY <1>1, <1>3, <1>4

LEMMA ReadMaxIsSound ==
  ASSUME VaultBounds, VaultInv, [Vault!Next]_(Vault!vars), NEW s \in Requests, Vault!ReadMax(s)
  PROVE  /\ \A q \in Requests \ {s} : work'[q] = work[q]
         /\ work'[s] \in Vault!Works /\ Phases(work[s])' /\ BringsSafe(s)'
         /\ work'[s].seen = work[s].seen
<1> DEFINE row == workbook[work[s].target]
           ns == IF row = None THEN {} ELSE DOMAIN row.versions
           max == IF ns = {} THEN 0 ELSE CHOOSE n \in ns : \A m \in ns : m <= n
<1>1. /\ work[s].pc = "max" /\ work' = [work EXCEPT ![s].number = max + 1, ![s].pc = "commit"]
      /\ UNCHANGED <<workbook, files>>
  BY DEF Vault!ReadMax, Vault!db
<1>2. work[s] \in Vault!Works /\ Phases(work[s]) /\ BringsSafe(s) /\ work[s] # Vault!Idle
  BY <1>1, WorkFields DEF VaultInv, WorkIsSound
<1>3. work[s].op = "snapshot" /\ work[s].target # 0 /\ work[s].target <= files
      /\ work[s].obj # None /\ Safe(work[s].obj, {}) /\ work[s].target \in 1..MaxFiles
  BY <1>1, <1>2 DEF Phases, BringsSafe, Vault!Works, VaultBounds
<1>4. row # None => row.current \in Nat /\ DOMAIN row.versions = 1..row.current /\ row.current > 0
  BY <1>3 DEF VaultInv, FilesAreSound
<1>5. max \in Nat /\ (row # None => max = row.current)
  <2>1. CASE row = None
    BY <2>1
  <2>2. CASE row # None
    <3>1. PICK c \in Nat : c = row.current /\ c > 0
      BY <1>4, <2>2
    <3>2. ns = 1..c
      BY <1>4, <2>2, <3>1
    <3>3. \A n \in 1..c : (\A m \in 1..c : m <= n) => n = c
      BY <3>1
    <3>4. max = CHOOSE n \in 1..c : \A m \in 1..c : m <= n
      <4>1. 1..c # {}
        BY <3>1
      <4>2. ns # {}
        BY <3>2, <4>1
      <4> HIDE DEF ns
      <4>3. max = CHOOSE n \in ns : \A m \in ns : m <= n
        BY <4>2
      <4> QED BY <3>2, <4>3
    <3>5. c \in 1..c /\ \A m \in 1..c : m <= c
      BY <3>1
    <3> HIDE DEF max
    <3>6. max = c
      BY <3>3, <3>4, <3>5
    <3> QED BY <3>1, <3>6
  <2> QED BY <2>1, <2>2
<1> HIDE DEF max, ns
<1>6. PICK number \in Nat : number = max + 1
  BY <1>5
<1>7. work' = [work EXCEPT ![s].number = number, ![s].pc = "commit"]
  BY <1>1, <1>6
<1>8. /\ \A q \in Requests \ {s} : work'[q] = work[q]
      /\ work'[s].pc = "commit" /\ work'[s].target = work[s].target /\ work'[s].number = number
      /\ work'[s].op = work[s].op /\ work'[s].seen = work[s].seen /\ work'[s].obj = work[s].obj
  BY <1>7, <1>2 DEF VaultInv, VaultTyped, Vault!Works
<1>9. work'[s] \in Vault!Works
  BY <1>7, <1>2 DEF VaultInv, VaultTyped, Vault!Works
<1>10. NumberFits(work[s])'
  BY <1>1, <1>3, <1>5, <1>6, <1>8 DEF NumberFits
<1>11. Safe(work[s].obj, {})'
  <2>1. PICK o : o = work[s].obj
    OBVIOUS
  <2>2. Safe(o, {})'
    BY <1>3, <2>1, SafeStays
  <2> QED BY <1>8, <2>1, <2>2 DEF Safe
<1>12. Phases(work[s])' /\ BringsSafe(s)'
  BY <1>1, <1>2, <1>3, <1>8, <1>10, <1>11 DEF Phases, BringsSafe
<1> QED
  BY <1>8, <1>9, <1>12

\* A step ends a request, leaves it, or takes it on soundly.
LEMMA WorkMoves ==
  ASSUME VaultBounds, VaultInv, [Vault!Next]_(Vault!vars), NEW q \in Requests
  PROVE  \/ work'[q] = work[q]
         \/ work'[q] = Vault!Idle
         \/ /\ work'[q] \in Vault!Works /\ Phases(work[q])' /\ BringsSafe(q)'
            /\ \/ work'[q].seen \in {None, draft}
               \/ work[q] # Vault!Idle /\ work'[q].seen = work[q].seen
<1> DEFINE P == \/ work'[q] = work[q]
                \/ work'[q] = Vault!Idle
                \/ /\ work'[q] \in Vault!Works /\ Phases(work[q])' /\ BringsSafe(q)'
                   /\ \/ work'[q].seen \in {None, draft}
                      \/ work[q] # Vault!Idle /\ work'[q].seen = work[q].seen
<1>1. Vault!Crash => P
  BY DEF Vault!Crash
<1>2. /\ \A f \in 1..MaxFiles : Vault!DeleteFile(f) => P
      /\ \A o \in Vault!Objects : Vault!DeleteObject(o) => P
      /\ UNCHANGED Vault!vars => P
  BY DEF Vault!DeleteFile, Vault!DeleteObject, Vault!vars
<1>3. ASSUME NEW s \in Requests PROVE
        /\ (\E op \in FileOps : Vault!Begin(s, op)) => P
        /\ Vault!Put(s) => P
        /\ Vault!DoomDraft(s) => P
        /\ Vault!ReadDraft(s) => P
        /\ Vault!PickTarget(s) => P
        /\ Vault!ReadFile(s) => P
        /\ Vault!ReadMax(s) => P
  <2>1. Vault!Put(s) \/ Vault!PickTarget(s) \/ Vault!ReadFile(s) \/ Vault!ReadMax(s) => work[s] # Vault!Idle
    <3>1. /\ Vault!Put(s) => work[s].pc = "put"
          /\ Vault!PickTarget(s) => work[s].pc = "target"
          /\ Vault!ReadFile(s) => work[s].pc = "read"
          /\ Vault!ReadMax(s) => work[s].pc = "max"
      BY Zenon DEF Vault!Put, Vault!PickTarget, Vault!ReadFile, Vault!ReadMax
    <3> QED BY <3>1, WorkFields DEF VaultInv
  <2>2. (\E op \in FileOps : Vault!Begin(s, op)) => P
    BY BeginIsSound
  <2>3. Vault!Put(s) => P
    BY <2>1, PutIsSound
  <2>4. Vault!DoomDraft(s) => P
    BY DoomDraftIsSound
  <2>5. Vault!ReadDraft(s) => P
    BY ReadDraftIsSound
  <2>6. Vault!PickTarget(s) => P
    BY <2>1, PickTargetIsSound
  <2>7. Vault!ReadFile(s) => P
    BY <2>1, ReadFileIsSound
  <2>8. Vault!ReadMax(s) => P
    BY <2>1, ReadMaxIsSound
  <2> QED BY <2>2, <2>3, <2>4, <2>5, <2>6, <2>7, <2>8
<1>4. ASSUME NEW s \in Requests, work' = [work EXCEPT ![s] = Vault!Idle] PROVE P
  BY <1>4 DEF VaultInv, VaultTyped
<1>5. ASSUME NEW s \in Requests,
             \/ Vault!Fail(s) \/ Vault!Upload(s) \/ Vault!SaveDraft(s) \/ Vault!DiscardDraft(s)
             \/ Vault!Promote(s) \/ Vault!PromoteRollsBack(s) \/ Vault!Snapshot(s)
             \/ Vault!SnapshotRollsBack(s)
      PROVE  work' = [work EXCEPT ![s] = Vault!Idle]
  BY <1>5 DEF Vault!Fail, Vault!Upload, Vault!SaveDraft, Vault!DiscardDraft, Vault!Promote,
              Vault!PromoteRollsBack, Vault!Snapshot, Vault!SnapshotRollsBack, Vault!Done
<1> HIDE DEF P
<1>6. P
  BY <1>1, <1>2, <1>3, <1>4, <1>5 DEF Vault!Next
<1> QED
  BY <1>6 DEF P

LEMMA WorkStaysTyped ==
  ASSUME VaultBounds, VaultInv, [Vault!Next]_(Vault!vars)
  PROVE  work' \in [Requests -> Vault!Works \cup {Vault!Idle}]
<1> DEFINE F == work' = [q \in Requests |-> work'[q]]
<1>0. work = [q \in Requests |-> work[q]]
  BY DEF VaultInv, VaultTyped
<1>1. Vault!Crash => F
  BY DEF Vault!Crash
<1>2. /\ \A f \in 1..MaxFiles : Vault!DeleteFile(f) => F
      /\ \A o \in Vault!Objects : Vault!DeleteObject(o) => F
      /\ UNCHANGED Vault!vars => F
  BY <1>0 DEF Vault!DeleteFile, Vault!DeleteObject, Vault!vars
<1>3. ASSUME NEW s \in Requests PROVE
        /\ (\E op \in FileOps : Vault!Begin(s, op)) => F
        /\ Vault!Put(s) => F
        /\ Vault!DoomDraft(s) => F
        /\ Vault!ReadDraft(s) => F
        /\ Vault!PickTarget(s) => F
        /\ Vault!ReadFile(s) => F
        /\ Vault!ReadMax(s) => F
  <2>1. (\E op \in FileOps : Vault!Begin(s, op)) => F
    BY <1>0 DEF Vault!Begin
  <2>2. Vault!Put(s) => F
    BY <1>0 DEF Vault!Put
  <2>3. Vault!DoomDraft(s) => F
    BY <1>0 DEF Vault!DoomDraft
  <2>4. Vault!ReadDraft(s) => F
    BY <1>0 DEF Vault!ReadDraft, Vault!Done
  <2>5. Vault!PickTarget(s) => F
    BY <1>0 DEF Vault!PickTarget
  <2>6. Vault!ReadFile(s) => F
    BY <1>0 DEF Vault!ReadFile
  <2>7. Vault!ReadMax(s) => F
    BY <1>0 DEF Vault!ReadMax
  <2> QED BY <2>1, <2>2, <2>3, <2>4, <2>5, <2>6, <2>7
<1>4. ASSUME NEW s \in Requests,
             \/ Vault!Fail(s) \/ Vault!Upload(s) \/ Vault!SaveDraft(s) \/ Vault!DiscardDraft(s)
             \/ Vault!Promote(s) \/ Vault!PromoteRollsBack(s) \/ Vault!Snapshot(s)
             \/ Vault!SnapshotRollsBack(s)
      PROVE  F
  BY <1>0, <1>4 DEF Vault!Fail, Vault!Upload, Vault!SaveDraft, Vault!DiscardDraft, Vault!Promote,
              Vault!PromoteRollsBack, Vault!Snapshot, Vault!SnapshotRollsBack, Vault!Done
<1> HIDE DEF F
<1>5. F
  BY <1>1, <1>2, <1>3, <1>4 DEF Vault!Next
<1>6. \A q \in Requests : work'[q] \in Vault!Works \cup {Vault!Idle}
  BY WorkMoves DEF VaultInv, VaultTyped
<1> QED
  BY <1>5, <1>6 DEF F

LEMMA WorkStaysSound ==
  ASSUME VaultBounds, VaultInv, [Vault!Next]_(Vault!vars)
  PROVE  WorkIsSound'
<1> SUFFICES ASSUME NEW q \in Requests, work'[q] # Vault!Idle
             PROVE  Phases(work[q])' /\ BringsSafe(q)'
  BY DEF WorkIsSound
<1>1. CASE work'[q] = work[q]
  BY <1>1, RestingStaysSound
<1> QED
  BY <1>1, WorkMoves

\* Only a promotion and an upsert write the draft other than by deleting it.
LEMMA DraftWrites ==
  ASSUME VaultBounds, VaultInv, [Vault!Next]_(Vault!vars)
  PROVE  \/ draft' \in {draft, None} /\ drafts' = drafts /\ promoted' = promoted
         \/ \E s \in Requests : Vault!Promote(s) \/ Vault!SaveDraft(s)
<1> DEFINE D == draft' \in {draft, None} /\ drafts' = drafts /\ promoted' = promoted
<1>1. /\ Vault!Crash => D
      /\ \A f \in 1..MaxFiles : Vault!DeleteFile(f) => D
      /\ \A o \in Vault!Objects : Vault!DeleteObject(o) => D
      /\ UNCHANGED Vault!vars => D
  BY DEF Vault!Crash, Vault!DeleteFile, Vault!DeleteObject, Vault!vars, Vault!db
<1>2. ASSUME NEW s \in Requests PROVE
        /\ (\E op \in FileOps : Vault!Begin(s, op)) => D
        /\ Vault!Put(s) \/ Vault!Fail(s) \/ Vault!Upload(s) \/ Vault!DoomDraft(s) => D
        /\ Vault!DiscardDraft(s) \/ Vault!ReadDraft(s) \/ Vault!PickTarget(s) => D
        /\ Vault!PromoteRollsBack(s) \/ Vault!ReadFile(s) \/ Vault!ReadMax(s) => D
        /\ Vault!Snapshot(s) \/ Vault!SnapshotRollsBack(s) => D
  BY DEF Vault!Begin, Vault!Put, Vault!Fail, Vault!Upload, Vault!DoomDraft, Vault!DiscardDraft,
         Vault!ReadDraft, Vault!PickTarget, Vault!PromoteRollsBack, Vault!ReadFile, Vault!ReadMax,
         Vault!Snapshot, Vault!SnapshotRollsBack, Vault!db
<1> HIDE DEF D
<1>3. D \/ \E s \in Requests : Vault!Promote(s) \/ Vault!SaveDraft(s)
  BY <1>1, <1>2 DEF Vault!Next
<1> QED
  BY <1>3 DEF D

\* Objects are known by their put: the store only ever names what was put.
LEMMA StoreStaysTyped ==
  ASSUME VaultBounds, VaultInv, [Vault!Next]_(Vault!vars)
  PROVE  /\ puts' \in 0..MaxPuts /\ puts' >= puts
         /\ stored' \subseteq 1..puts' /\ doomed' \subseteq 1..puts'
<1> DEFINE P == /\ puts' \in 0..MaxPuts /\ puts' >= puts
                /\ stored' \subseteq 1..puts' /\ doomed' \subseteq 1..puts'
<1>1. puts \in 0..MaxPuts /\ MaxPuts \in Nat /\ stored \subseteq 1..puts /\ doomed \subseteq 1..puts
  BY DEF VaultBounds, VaultInv, VaultTyped
<1>2. draft # None => draft.obj \in 1..puts
  BY <1>1 DEF VaultInv, VaultTyped, DraftIsSound, Vault!Draft, Vault!Objects
<1>3. \A q \in Requests : work[q] # Vault!Idle /\ work[q].seen # None => work[q].seen.obj \in 1..puts
  BY <1>1, WorkFields DEF VaultInv, DraftIsSound, Vault!Works, Vault!Draft, Vault!Objects
<1>4. /\ Vault!Crash => P
      /\ \A f \in 1..MaxFiles : Vault!DeleteFile(f) => P
      /\ \A o \in Vault!Objects : Vault!DeleteObject(o) => P
      /\ UNCHANGED Vault!vars => P
  <2>1. puts' = puts /\ stored' \subseteq stored /\ doomed' \subseteq doomed => P
    BY <1>1
  <2> HIDE DEF P
  <2>2. Vault!Crash => P
    BY <2>1 DEF Vault!Crash
  <2>3. \A f \in 1..MaxFiles : Vault!DeleteFile(f) => P
    BY <2>1 DEF Vault!DeleteFile, Vault!store
  <2>4. ASSUME NEW o \in Vault!Objects, Vault!DeleteObject(o) PROVE P
    BY <2>1, <2>4 DEF Vault!DeleteObject
  <2>5. UNCHANGED Vault!vars => P
    BY <2>1 DEF Vault!vars, Vault!store
  <2> QED BY <2>2, <2>3, <2>4, <2>5
<1>5. ASSUME NEW s \in Requests, Vault!Put(s) PROVE P
  BY <1>1, <1>5 DEF Vault!Put
<1>6. ASSUME NEW s \in Requests, Vault!DoomDraft(s) PROVE P
  BY <1>1, <1>2, <1>6 DEF Vault!DoomDraft
<1>7. ASSUME NEW s \in Requests, Vault!Promote(s) \/ Vault!PromoteRollsBack(s) PROVE P
  <2>1. work[s].op = "promote" /\ work[s].pc = "commit"
    BY <1>7 DEF Vault!Promote, Vault!PromoteRollsBack
  <2>2. work[s].seen.obj \in 1..puts
    BY <2>1, <1>3, WorkFields DEF VaultInv, WorkIsSound, Phases
  <2>3. stored' = stored /\ puts' = puts /\ doomed' \in {doomed, doomed \cup {work[s].seen.obj}}
    BY <1>7 DEF Vault!Promote, Vault!PromoteRollsBack
  <2> QED BY <1>1, <2>2, <2>3
<1>8. ASSUME NEW s \in Requests PROVE
        /\ (\E op \in FileOps : Vault!Begin(s, op)) => P
        /\ Vault!Fail(s) \/ Vault!Upload(s) \/ Vault!SaveDraft(s) \/ Vault!DiscardDraft(s) => P
        /\ Vault!ReadDraft(s) \/ Vault!PickTarget(s) \/ Vault!ReadFile(s) \/ Vault!ReadMax(s) => P
        /\ Vault!Snapshot(s) \/ Vault!SnapshotRollsBack(s) => P
  <2>1. UNCHANGED <<puts, stored, doomed>> => P
    BY <1>1
  <2> HIDE DEF P
  <2> QED BY <2>1 DEF Vault!Begin, Vault!Fail, Vault!Upload, Vault!SaveDraft, Vault!DiscardDraft,
        Vault!ReadDraft, Vault!PickTarget, Vault!ReadFile, Vault!ReadMax, Vault!Snapshot,
        Vault!SnapshotRollsBack, Vault!store
<1> HIDE DEF P
<1>9. P
  BY <1>4, <1>5, <1>6, <1>7, <1>8 DEF Vault!Next
<1> QED
  BY <1>9 DEF P

\* A row read before a step and still in hand after it was in hand before, or
\* is the draft.
LEMMA SeenStays ==
  ASSUME VaultBounds, VaultInv, [Vault!Next]_(Vault!vars), NEW q \in Requests,
         work'[q] # Vault!Idle, work'[q].seen # None
  PROVE  \/ work'[q].seen = draft
         \/ work[q] # Vault!Idle /\ work'[q].seen = work[q].seen
BY WorkMoves

LEMMA DraftStaysSound ==
  ASSUME VaultBounds, VaultInv, [Vault!Next]_(Vault!vars)
  PROVE  DraftIsSound' /\ draft' \in Vault!Draft \cup {None} /\ drafts' \in 0..MaxDrafts
         /\ promoted' \in [1..MaxDrafts -> Nat]
<1>1. /\ draft \in Vault!Draft \cup {None} /\ drafts \in 0..MaxDrafts /\ promoted \in [1..MaxDrafts -> Nat]
      /\ puts \in Nat /\ MaxDrafts \in Nat
      /\ draft # None => draft.id \in 1..MaxDrafts /\ draft.obj \in 1..MaxPuts
  BY DEF VaultBounds, VaultInv, VaultTyped, Vault!Draft, Vault!Objects
<1>2. puts' \in Nat /\ puts' >= puts
  BY StoreStaysTyped DEF VaultBounds
<1>3. \A q \in Requests : work[q] # Vault!Idle /\ work[q].seen # None => work[q].seen.obj \in Nat
  BY WorkFields DEF VaultInv, VaultBounds, Vault!Works, Vault!Draft, Vault!Objects
<1>4. \A q \in Requests : work'[q] # Vault!Idle /\ work'[q].seen # None => work'[q].seen.obj <= puts'
  <2> SUFFICES ASSUME NEW q \in Requests, work'[q] # Vault!Idle, work'[q].seen # None
               PROVE  work'[q].seen.obj <= puts'
    OBVIOUS
  <2>1. CASE work'[q].seen = draft
    BY <1>1, <1>2, <2>1 DEF VaultInv, DraftIsSound
  <2>2. CASE work[q] # Vault!Idle /\ work'[q].seen = work[q].seen
    BY <1>1, <1>2, <1>3, <2>2 DEF VaultInv, DraftIsSound
  <2> QED BY <2>1, <2>2, SeenStays
<1>5. CASE draft' \in {draft, None} /\ drafts' = drafts /\ promoted' = promoted
  <2>1. ASSUME draft' = draft, draft # None, NEW q \in Requests, work'[q] # Vault!Idle,
               work'[q].seen # None, work'[q].seen.obj = draft.obj
        PROVE  work'[q].seen.id = draft.id
    BY <2>1, SeenStays DEF VaultInv, DraftIsSound
  <2> QED BY <1>1, <1>2, <1>4, <1>5, <2>1 DEF VaultInv, DraftIsSound
<1>6. ASSUME NEW s \in Requests, Vault!Promote(s)
      PROVE  DraftIsSound' /\ draft' \in Vault!Draft \cup {None} /\ drafts' \in 0..MaxDrafts
             /\ promoted' \in [1..MaxDrafts -> Nat]
  <2>1. /\ draft # None /\ draft.id = work[s].seen.id /\ draft' = None /\ drafts' = drafts
        /\ promoted' = [promoted EXCEPT ![work[s].seen.id] = @ + 1]
    BY <1>6 DEF Vault!Promote, Vault!DropsDraft
  <2>2. PICK d \in 1..MaxDrafts : d = draft.id /\ d <= drafts /\ promoted[d] = 0
    BY <1>1, <2>1 DEF VaultInv, DraftIsSound
  <2>3. promoted' = [promoted EXCEPT ![d] = 1]
    BY <2>1, <2>2
  <2>4. \A e \in 1..MaxDrafts : promoted'[e] <= 1 /\ (e > drafts => promoted'[e] = 0)
    BY <1>1, <2>2, <2>3 DEF VaultInv, DraftIsSound
  <2>5. promoted' \in [1..MaxDrafts -> Nat]
    BY <1>1, <2>3
  <2> QED BY <1>1, <1>4, <2>1, <2>4, <2>5 DEF DraftIsSound
<1>7. ASSUME NEW s \in Requests, Vault!SaveDraft(s)
      PROVE  DraftIsSound' /\ draft' \in Vault!Draft \cup {None} /\ drafts' \in 0..MaxDrafts
             /\ promoted' \in [1..MaxDrafts -> Nat]
  <2>1. /\ work[s].pc = "commit" /\ work[s].op = "save" /\ promoted' = promoted
        /\ work' = [work EXCEPT ![s] = Vault!Idle]
        /\ IF draft # None
             THEN draft' = [draft EXCEPT !.obj = work[s].obj] /\ drafts' = drafts
             ELSE drafts < MaxDrafts /\ drafts' = drafts + 1
                  /\ draft' = [id |-> drafts + 1, obj |-> work[s].obj]
    BY <1>7 DEF Vault!SaveDraft, Vault!Done
  <2>2. PICK o \in 1..MaxPuts : o = work[s].obj /\ Safe(o, {s})
    BY <2>1, WorkFields DEF VaultInv, WorkIsSound, BringsSafe, Vault!Works, Vault!Objects
  <2>3. o <= puts
    BY <1>1, <2>2 DEF VaultInv, VaultTyped, Safe
  <2>4. \A q \in Requests : work'[q] # Vault!Idle /\ work'[q].seen # None => work'[q].seen.obj # o
    BY <2>1, <2>2 DEF Safe, VaultInv, VaultTyped
  <2>5. draft' # None /\ draft'.obj = o /\ draft' \in Vault!Draft /\ draft'.id <= drafts'
        /\ drafts' \in 0..MaxDrafts /\ drafts' >= drafts /\ promoted[draft'.id] = 0
    <3>1. CASE draft # None
      <4>1. draft' = [draft EXCEPT !.obj = o] /\ drafts' = drafts /\ draft \in Vault!Draft
        BY <1>1, <2>1, <2>2, <3>1
      <4>2. draft' \in Vault!Draft /\ draft'.obj = o /\ draft'.id = draft.id
        BY <4>1 DEF Vault!Draft, Vault!Objects
      <4>3. draft' # None
        BY <4>2 DEF VaultBounds
      <4> QED BY <1>1, <3>1, <4>1, <4>2, <4>3 DEF VaultInv, DraftIsSound
    <3>2. CASE draft = None
      <4>1. PICK d \in 1..MaxDrafts : d = drafts + 1
        BY <1>1, <2>1, <3>2
      <4>2. draft' = [id |-> d, obj |-> o] /\ drafts' = d
        BY <2>1, <2>2, <3>2, <4>1
      <4>3. draft' \in Vault!Draft
        BY <4>2 DEF Vault!Draft, Vault!Objects
      <4>4. promoted[d] = 0
        BY <1>1, <4>1 DEF VaultInv, DraftIsSound
      <4> QED BY <1>1, <4>1, <4>2, <4>3, <4>4 DEF VaultBounds
    <3> QED BY <3>1, <3>2
  <2>6. \A e \in 1..MaxDrafts : promoted'[e] <= 1 /\ (e > drafts' => promoted'[e] = 0)
    BY <1>1, <2>1, <2>5 DEF VaultInv, DraftIsSound
  <2>7. draft'.obj <= puts'
    BY <1>1, <1>2, <2>3, <2>5
  <2> QED BY <1>1, <1>4, <2>1, <2>4, <2>5, <2>6, <2>7 DEF DraftIsSound
<1> QED
  BY <1>5, <1>6, <1>7, DraftWrites

\* A draft whose object is doomed or gone before a step, and whose row stays as
\* it is, still has who replaces it, or something has failed.
LEMMA ReplacerStays ==
  ASSUME VaultBounds, VaultInv, [Vault!Next]_(Vault!vars), NEW s \in Requests,
         work[s] # Vault!Idle, work[s].pc = "commit", work[s].op \in {"save", "discard"}
  PROVE  work'[s] = work[s] \/ faulty' \/ Vault!SaveDraft(s) \/ draft' = None
<1> DEFINE P == work'[s] = work[s] \/ faulty' \/ Vault!SaveDraft(s) \/ draft' = None
<1>0. work = [q \in Requests |-> work[q]]
  BY DEF VaultInv, VaultTyped
<1>1. /\ Vault!Crash => P
      /\ \A f \in 1..MaxFiles : Vault!DeleteFile(f) => P
      /\ \A o \in Vault!Objects : Vault!DeleteObject(o) => P
      /\ UNCHANGED Vault!vars => P
  BY DEF Vault!Crash, Vault!DeleteFile, Vault!DeleteObject, Vault!vars
<1>2. ASSUME NEW q \in Requests, q # s PROVE
        /\ (\E op \in FileOps : Vault!Begin(q, op)) => P
        /\ Vault!Put(q) \/ Vault!Fail(q) \/ Vault!Upload(q) \/ Vault!DoomDraft(q) => P
        /\ Vault!SaveDraft(q) \/ Vault!DiscardDraft(q) \/ Vault!ReadDraft(q) \/ Vault!PickTarget(q) => P
        /\ Vault!Promote(q) \/ Vault!PromoteRollsBack(q) \/ Vault!ReadFile(q) \/ Vault!ReadMax(q) => P
        /\ Vault!Snapshot(q) \/ Vault!SnapshotRollsBack(q) => P
  <2>1. (\E x : work' = [work EXCEPT ![q] = x]) => P
    BY <1>0, <1>2
  <2>2. work'[s] = work[s] => P
    OBVIOUS
  <2> HIDE DEF P
  <2>3. Vault!Fail(q) \/ Vault!Upload(q) \/ Vault!SaveDraft(q) \/ Vault!DiscardDraft(q) \/ Vault!Promote(q)
          \/ Vault!PromoteRollsBack(q) \/ Vault!Snapshot(q) \/ Vault!SnapshotRollsBack(q) => P
    BY <2>1 DEF Vault!Fail, Vault!Upload, Vault!SaveDraft, Vault!DiscardDraft, Vault!Promote,
                Vault!PromoteRollsBack, Vault!Snapshot, Vault!SnapshotRollsBack, Vault!Done
  <2>4. (\E op \in FileOps : Vault!Begin(q, op)) => P
    BY <1>2, <2>2, BeginIsSound
  <2>5. Vault!Put(q) => P
    BY <1>2, <2>2, PutIsSound
  <2>6. Vault!DoomDraft(q) => P
    BY <1>2, <2>2, DoomDraftIsSound
  <2>7. Vault!ReadDraft(q) => P
    BY <1>2, <2>2, ReadDraftIsSound
  <2>8. Vault!PickTarget(q) => P
    BY <1>2, <2>2, PickTargetIsSound
  <2>9. Vault!ReadFile(q) => P
    BY <1>2, <2>2, ReadFileIsSound
  <2>10. Vault!ReadMax(q) => P
    BY <1>2, <2>2, ReadMaxIsSound
  <2> QED BY <2>3, <2>4, <2>5, <2>6, <2>7, <2>8, <2>9, <2>10
<1>3. /\ (\E op \in FileOps : Vault!Begin(s, op)) => P
      /\ Vault!Fail(s) \/ Vault!SaveDraft(s) \/ Vault!DiscardDraft(s) => P
  BY DEF Vault!Begin, Vault!Fail, Vault!DiscardDraft
<1>4. /\ ~Vault!Put(s) /\ ~Vault!Upload(s) /\ ~Vault!DoomDraft(s) /\ ~Vault!ReadDraft(s)
      /\ ~Vault!PickTarget(s) /\ ~Vault!Promote(s) /\ ~Vault!PromoteRollsBack(s) /\ ~Vault!ReadFile(s)
      /\ ~Vault!Snapshot(s) /\ ~Vault!SnapshotRollsBack(s)
  BY DEF Vault!Put, Vault!Upload, Vault!DoomDraft, Vault!ReadDraft, Vault!PickTarget, Vault!Promote,
         Vault!PromoteRollsBack, Vault!ReadFile, Vault!Snapshot, Vault!SnapshotRollsBack
<1>5. ~Vault!ReadMax(s)
  BY DEF Vault!ReadMax
<1> HIDE DEF P
<1>6. P
  BY <1>1, <1>2, <1>3, <1>4, <1>5 DEF Vault!Next
<1> QED
  BY <1>6 DEF P

\* What a step does to the objects the draft's is one of.
LEMMA DraftObjectMoves ==
  ASSUME VaultBounds, VaultInv, [Vault!Next]_(Vault!vars), draft # None
  PROVE  \/ faulty' \/ draft' = None
         \/ \E s \in Requests : Vault!DoomDraft(s) \/ Vault!SaveDraft(s)
         \/ draft' = draft /\ (draft.obj \in doomed' \/ draft.obj \notin stored' =>
                                 draft.obj \in doomed \/ draft.obj \notin stored)
<1> DEFINE Q == draft' = draft /\ (draft.obj \in doomed' \/ draft.obj \notin stored' =>
                                     draft.obj \in doomed \/ draft.obj \notin stored)
           P == \/ faulty' \/ draft' = None
                \/ \E s \in Requests : Vault!DoomDraft(s) \/ Vault!SaveDraft(s)
                \/ Q
<1>1. UNCHANGED <<draft, stored, doomed>> => P
  OBVIOUS
<1>2. ASSUME NEW s \in Requests, Vault!Put(s) PROVE P
  BY <1>2 DEF Vault!Put, Vault!db
<1>3. ASSUME NEW s \in Requests, Vault!PromoteRollsBack(s) PROVE P
  <2>1. /\ work[s].op = "promote" /\ work[s].pc = "commit" /\ UNCHANGED <<draft, stored>>
        /\ \/ doomed' = doomed
           \/ draft.id # work[s].seen.id /\ doomed' = doomed \cup {work[s].seen.obj}
    BY <1>3 DEF Vault!PromoteRollsBack, Vault!db, Vault!DropsDraft
  <2>2. work[s] # Vault!Idle /\ work[s].seen # None
    BY <2>1, WorkFields DEF VaultInv, WorkIsSound, Phases
  <2>3. draft.id # work[s].seen.id => work[s].seen.obj # draft.obj
    BY <2>2 DEF VaultInv, DraftIsSound
  <2> QED BY <2>1, <2>3
<1>4. ASSUME NEW o \in Vault!Objects, Vault!DeleteObject(o) PROVE P
  BY <1>4 DEF Vault!DeleteObject, Vault!db
<1>5. ASSUME NEW s \in Requests, Vault!DoomDraft(s) \/ Vault!SaveDraft(s) PROVE P
  BY <1>5
<1> HIDE DEF P
<1>6. draft' = None \/ faulty' => P
  BY DEF P
<1>7. ASSUME NEW s \in Requests PROVE
        /\ (\E op \in FileOps : Vault!Begin(s, op)) => P
        /\ Vault!Fail(s) \/ Vault!Upload(s) \/ Vault!DiscardDraft(s) \/ Vault!ReadDraft(s)
             \/ Vault!PickTarget(s) => P
        /\ Vault!Promote(s) \/ Vault!ReadFile(s) \/ Vault!ReadMax(s) => P
        /\ Vault!Snapshot(s) \/ Vault!SnapshotRollsBack(s) => P
  <2>1. (\E op \in FileOps : Vault!Begin(s, op)) => P
    BY <1>1 DEF Vault!Begin, Vault!db, Vault!store
  <2>2. Vault!Fail(s) \/ Vault!Upload(s) \/ Vault!DiscardDraft(s) \/ Vault!Promote(s) => P
    BY <1>6 DEF Vault!Fail, Vault!Upload, Vault!DiscardDraft, Vault!Promote
  <2>3. UNCHANGED <<Vault!db, Vault!store>> => P
    BY <1>1 DEF Vault!db, Vault!store
  <2>4. Vault!ReadDraft(s) \/ Vault!PickTarget(s) \/ Vault!ReadFile(s) \/ Vault!ReadMax(s)
          \/ Vault!SnapshotRollsBack(s) => P
    BY <2>3 DEF Vault!ReadDraft, Vault!PickTarget, Vault!ReadFile, Vault!ReadMax, Vault!SnapshotRollsBack
  <2>5. Vault!Snapshot(s) => P
    BY <1>1 DEF Vault!Snapshot, Vault!store
  <2> QED BY <2>1, <2>2, <2>4, <2>5
<1>8. /\ Vault!Crash => P
      /\ \A f \in 1..MaxFiles : Vault!DeleteFile(f) => P
      /\ UNCHANGED Vault!vars => P
  BY <1>1, <1>6 DEF Vault!Crash, Vault!DeleteFile, Vault!vars, Vault!db, Vault!store
<1>9. P
  BY <1>2, <1>3, <1>4, <1>5, <1>7, <1>8 DEF Vault!Next
<1> QED
  BY <1>9 DEF P

\* A failure is not forgotten.
LEMMA FaultsStay == ASSUME [Vault!Next]_(Vault!vars), faulty PROVE faulty'
<1>1. UNCHANGED faulty => faulty'
  BY Zenon
<1>2. /\ Vault!Crash => faulty'
      /\ \A f \in 1..MaxFiles : Vault!DeleteFile(f) => faulty'
      /\ \A o \in Vault!Objects : Vault!DeleteObject(o) => faulty'
      /\ UNCHANGED Vault!vars => faulty'
  BY <1>1, Zenon DEF Vault!Crash, Vault!DeleteFile, Vault!DeleteObject, Vault!vars
<1>3. ASSUME NEW s \in Requests PROVE
        /\ (\E op \in FileOps : Vault!Begin(s, op)) => faulty'
        /\ Vault!Put(s) \/ Vault!Fail(s) \/ Vault!Upload(s) \/ Vault!DoomDraft(s) => faulty'
        /\ Vault!SaveDraft(s) \/ Vault!DiscardDraft(s) \/ Vault!ReadDraft(s) \/ Vault!PickTarget(s) => faulty'
        /\ Vault!Promote(s) \/ Vault!PromoteRollsBack(s) \/ Vault!ReadFile(s) \/ Vault!ReadMax(s) => faulty'
        /\ Vault!Snapshot(s) \/ Vault!SnapshotRollsBack(s) => faulty'
  BY <1>1, Zenon DEF Vault!Begin, Vault!Put, Vault!Fail, Vault!Upload, Vault!DoomDraft, Vault!SaveDraft,
       Vault!DiscardDraft, Vault!ReadDraft, Vault!PickTarget, Vault!Promote, Vault!PromoteRollsBack,
       Vault!ReadFile, Vault!ReadMax, Vault!Snapshot, Vault!SnapshotRollsBack, Vault!Done
<1> QED
  BY <1>2, <1>3 DEF Vault!Next

LEMMA DoomedStaysReplaced ==
  ASSUME VaultBounds, VaultInv, [Vault!Next]_(Vault!vars)
  PROVE  DoomedIsReplaced'
<1>0. faulty => faulty'
  BY FaultsStay
<1> SUFFICES ASSUME draft' # None, draft'.obj \in doomed' \/ draft'.obj \notin stored', ~faulty'
             PROVE  \E s \in Requests :
                      /\ work'[s] # Vault!Idle /\ work'[s].pc = "commit"
                      /\ work'[s].op \in {"save", "discard"}
                      /\ work'[s].seen # None /\ work'[s].seen.obj = draft'.obj
  BY DEF DoomedIsReplaced
<1>1. ASSUME NEW s \in Requests PROVE ~Vault!SaveDraft(s)
  <2> SUFFICES ASSUME Vault!SaveDraft(s) PROVE FALSE
    OBVIOUS
  <2>1. /\ work[s].pc = "commit" /\ work[s].op = "save" /\ UNCHANGED <<stored, doomed>>
        /\ \/ draft # None /\ draft' = [draft EXCEPT !.obj = work[s].obj]
           \/ draft'.obj = work[s].obj
    BY DEF Vault!SaveDraft, Vault!store
  <2>2. Safe(work[s].obj, {s})
    BY <2>1, WorkFields DEF VaultInv, WorkIsSound, BringsSafe
  <2>3. draft'.obj = work[s].obj
    BY <2>1 DEF VaultInv, VaultTyped, Vault!Draft
  <2> QED BY <2>1, <2>2, <2>3 DEF Safe
<1>2. ASSUME NEW s \in Requests, Vault!DoomDraft(s)
      PROVE  /\ work'[s] # Vault!Idle /\ work'[s].pc = "commit"
             /\ work'[s].op \in {"save", "discard"}
             /\ work'[s].seen # None /\ work'[s].seen.obj = draft'.obj
  <2>1. draft' = draft
    BY <1>2 DEF Vault!DoomDraft, Vault!db
  <2>2. work'[s].pc = "commit" /\ work'[s].op \in {"save", "discard"} /\ work'[s].seen = draft
    BY <1>2, DoomDraftIsSound
  <2>3. work'[s] # Vault!Idle
    BY <2>2 DEF Vault!Idle
  <2> QED BY <2>1, <2>2, <2>3
<1>3. CASE draft' = draft /\ (draft.obj \in doomed \/ draft.obj \notin stored)
  <2>1. PICK s \in Requests : /\ work[s] # Vault!Idle /\ work[s].pc = "commit"
                              /\ work[s].op \in {"save", "discard"}
                              /\ work[s].seen # None /\ work[s].seen.obj = draft.obj
    BY <1>0, <1>3 DEF VaultInv, DoomedIsReplaced
  <2>2. work'[s] = work[s]
    BY <1>1, <2>1, ReplacerStays
  <2> QED BY <1>3, <2>1, <2>2
<1>4. CASE draft = None
  <2>1. draft' = None \/ \E s \in Requests : Vault!Promote(s) \/ Vault!SaveDraft(s)
    BY <1>4, DraftWrites
  <2>2. \A s \in Requests : Vault!Promote(s) => draft' = None
    BY DEF Vault!Promote
  <2> QED BY <1>1, <2>1, <2>2
<1>5. CASE draft # None
  BY <1>1, <1>2, <1>3, <1>5, DraftObjectMoves
<1> QED
  BY <1>4, <1>5

LEMMA VaultStep ==
  ASSUME VaultBounds PROVE VaultInv /\ [Vault!Next]_(Vault!vars) => VaultInv'
<1> SUFFICES ASSUME VaultInv, [Vault!Next]_(Vault!vars) PROVE VaultInv'
  OBVIOUS
<1>1. DOMAIN workbook' = 1..MaxFiles /\ files' \in 0..MaxFiles
  <2>1. DOMAIN workbook = 1..MaxFiles /\ files \in 0..MaxFiles /\ MaxFiles \in Nat
    BY DEF VaultBounds, VaultInv, VaultTyped
  <2>2. CASE Untouched \/ Removed
    BY <2>1, <2>2 DEF Untouched, Removed
  <2>3. CASE Created
    BY <2>1, <2>3 DEF Created
  <2>4. ASSUME NEW o, NEW f, NEW kept, VersionAdded(o, kept, f)
        PROVE  DOMAIN workbook' = 1..MaxFiles /\ files' \in 0..MaxFiles
    BY <2>1, <2>4 DEF VersionAdded
  <2> QED BY <2>2, <2>3, <2>4, FileWrites
<1>2. VaultTyped'
  BY <1>1, StoreStaysTyped, DraftStaysSound, WorkStaysTyped DEF VaultTyped
<1> QED
  BY <1>2, FilesStaySound, WorkStaysSound, DraftStaysSound, DoomedStaysReplaced DEF VaultInv

\* What the files and the draft promise follows.
LEMMA InvLosesNothing ==
  ASSUME VaultBounds, VaultInv
  PROVE  Vault!VersionsHaveBytes /\ Vault!VersionsUnbroken /\ Vault!PromotedOnce /\ Vault!IdleDraftReadable
<1>1. \A f \in Vault!Existing : f \in 1..MaxFiles /\ workbook[f] # None
  BY DEF VaultBounds, VaultInv, VaultTyped, Vault!Existing
<1>2. Vault!VersionsHaveBytes /\ Vault!VersionsUnbroken
  BY <1>1 DEF VaultInv, FilesAreSound, Safe, Vault!VersionsHaveBytes, Vault!VersionsUnbroken
<1>3. Vault!PromotedOnce
  BY DEF VaultInv, DraftIsSound, Vault!PromotedOnce
<1>4. Vault!IdleDraftReadable
  BY DEF VaultInv, DoomedIsReplaced, Vault!IdleDraftReadable
<1> QED
  BY <1>2, <1>3, <1>4

LEMMA SnapshotsMayDiffer ==
  ASSUME VaultBounds, VaultInv, [Vault!Next]_(Vault!vars), NEW f \in Vault!Existing,
         workbook[f].versions[workbook[f].current] = workbook[f].obj,
         workbook'[f] # None, workbook'[f].versions[workbook'[f].current] # workbook'[f].obj
  PROVE  \E s \in Requests : work[s] # Vault!Idle /\ work[s].op = "snapshot" /\ work'[s] = Vault!Idle
<1>1. /\ DOMAIN workbook = 1..MaxFiles /\ files \in 0..MaxFiles /\ MaxFiles \in Nat
      /\ f \in 1..files /\ f \in 1..MaxFiles /\ workbook[f] # None /\ workbook[f].current \in Nat
  BY DEF VaultBounds, VaultInv, VaultTyped, Vault!Existing, FilesAreSound
<1>2. workbook'[f] # workbook[f]
  OBVIOUS
<1>3. ~Untouched /\ ~Created /\ ~Removed
  <2>1. ~Untouched
    BY <1>2 DEF Untouched
  <2>2. ~Created
    <3>1. f # files + 1
      BY <1>1
    <3> QED BY <1>1, <1>2, <3>1 DEF Created
  <2>3. ~Removed
    BY <1>1, <1>2 DEF Removed
  <2> QED BY <2>1, <2>2, <2>3
<1>4. ASSUME NEW o, NEW g, VersionAdded(o, o, g) PROVE FALSE
  <2>1. CASE g # f
    BY <1>1, <1>2, <1>4, <2>1 DEF VersionAdded
  <2>2. CASE g = f
    <3>1. PICK c \in Nat : c = workbook[f].current
      BY <1>1
    <3>2. /\ workbook'[f].current = c + 1 /\ workbook'[f].obj = o
          /\ workbook'[f].versions = [n \in 1..(c + 1) |-> IF n = c + 1 THEN o ELSE workbook[f].versions[n]]
      BY <1>1, <1>4, <2>2, <3>1 DEF VersionAdded
    <3>3. c + 1 \in 1..(c + 1)
      BY <3>1
    <3> QED BY <3>2, <3>3
  <2> QED BY <2>1, <2>2
<1>5. PICK s \in Requests : Vault!Snapshot(s)
  BY <1>3, <1>4, FileWrites
<1>6. work[s].op = "snapshot" /\ work[s].pc = "commit" /\ work' = [work EXCEPT ![s] = Vault!Idle]
  BY <1>5 DEF Vault!Snapshot, Vault!Done
<1>7. work[s] # Vault!Idle /\ work'[s] = Vault!Idle
  BY <1>6, WorkFields DEF VaultInv, VaultTyped
<1> QED
  BY <1>6, <1>7

-----------------------------------------------------------------------------
(* Attachments                                                               *)

AttachedTyped ==
  /\ \E n \in Nat : DOMAIN attached = 1..n
  /\ \A i \in DOMAIN attached : attached[i] \in Attached!Rows
  /\ attaching \in [Requests -> Attached!Calls \cup {None}]

\* Who is about to change a row, and to delete it rightfully.
CallIsAllowed ==
  \A q \in Requests : attaching[q] # None /\ attaching[q].op \in {"remove", "patch"} =>
    /\ attaching[q].id \in DOMAIN attached
    /\ attaching[q].op = "remove" =>
         attaching[q].user \in Admins \cup {attached[attaching[q].id].uploader}

Creating == {q \in Requests : attaching[q] # None /\ attaching[q].op = "create"}

\* The creates that have counted fit, together with the rows.
RoomIsLeft ==
  Cardinality(Attached!Active) + Cardinality(Creating) <= MaxAttachments + Cardinality(Requests) - 1

AttachedInv == AttachedTyped /\ CallIsAllowed /\ RoomIsLeft

LEMMA SameCount == \A S : Attached!Cardinality(S) = Cardinality(S)
BY DEF Attached!Cardinality, Cardinality

LEMMA SetsAreFinite ==
  ASSUME AttachmentBounds, AttachedTyped
  PROVE  /\ IsFiniteSet(DOMAIN attached) /\ IsFiniteSet(Attached!Active) /\ IsFiniteSet(Creating)
         /\ Cardinality(Attached!Active) \in Nat /\ Cardinality(Creating) \in Nat
         /\ Cardinality(Requests) \in Nat /\ Cardinality(Creating) <= Cardinality(Requests)
<1>1. PICK n \in Nat : DOMAIN attached = 1..n
  BY DEF AttachedTyped
<1>2. IsFiniteSet(1..n)
  BY FS_Interval
<1>3. Attached!Active \subseteq DOMAIN attached /\ Creating \subseteq Requests
  BY DEF Attached!Active, Creating
<1> QED
  BY <1>1, <1>2, <1>3, FS_Subset, FS_CardinalityType DEF AttachmentBounds

LEMMA AttachedInit == ASSUME AttachmentBounds PROVE Attached!Init => AttachedInv
<1> SUFFICES ASSUME Attached!Init PROVE AttachedInv
  OBVIOUS
<1>1. DOMAIN attached = {} /\ attaching = [q \in Requests |-> None]
  BY DEF Attached!Init
<1>2. AttachedTyped /\ CallIsAllowed
  <2>1. 1..0 = {}
    OBVIOUS
  <2> QED BY <1>1, <2>1 DEF AttachedTyped, CallIsAllowed
<1>3. Attached!Active = {} /\ Creating = {}
  BY <1>1 DEF Attached!Active, Creating
<1>4. Cardinality({}) = 0
  BY FS_EmptySet
<1>5. RoomIsLeft
  BY <1>2, <1>3, <1>4, SetsAreFinite DEF RoomIsLeft, AttachmentBounds
<1> QED
  BY <1>2, <1>5 DEF AttachedInv

\* A call other than an insert leaves as many creates under way, or one less;
\* one that begins is counted where there is room.
LEMMA CountKeepsRoom ==
  ASSUME AttachmentBounds, AttachedInv, NEW q \in Requests, NEW u \in Users, Attached!Count(q, u)
  PROVE  AttachedInv'
<1>1. /\ attaching[q] = None /\ attached' = attached
      /\ attaching' = [attaching EXCEPT ![q] = [op |-> "create", user |-> u]]
      /\ Attached!Cardinality(Attached!Active) < MaxAttachments
  BY DEF Attached!Count, Attached!BelowLimit
<1>2. [op |-> "create", user |-> u] \in Attached!Calls
  BY DEF Attached!Calls
<1>3. AttachedTyped'
  BY <1>1, <1>2 DEF AttachedInv, AttachedTyped
<1>4. CallIsAllowed'
  <2>1. \A r \in Requests : r # q => attaching'[r] = attaching[r]
    BY <1>1 DEF AttachedInv, AttachedTyped
  <2>2. attaching'[q].op = "create"
    BY <1>1 DEF AttachedInv, AttachedTyped
  <2> QED BY <1>1, <2>1, <2>2 DEF AttachedInv, CallIsAllowed
<1>5. Cardinality(Creating)' \in Nat /\ Cardinality(Creating)' <= Cardinality(Requests)
  <2>1. Creating' \subseteq Requests
    BY DEF Creating
  <2> QED BY <2>1, FS_Subset, FS_CardinalityType DEF AttachmentBounds
<1>6. Attached!Active' = Attached!Active
  BY <1>1 DEF Attached!Active
<1>7. RoomIsLeft'
  <2>1. PICK a \in Nat : a = Cardinality(Attached!Active) /\ a < MaxAttachments
    BY <1>1, SameCount, SetsAreFinite DEF AttachedInv
  <2>2. PICK c \in Nat : c = Cardinality(Creating)' /\ c <= Cardinality(Requests)
    BY <1>5
  <2>3. Cardinality(Requests) \in Nat /\ MaxAttachments \in Nat
    BY FS_CardinalityType DEF AttachmentBounds
  <2>4. a + c <= MaxAttachments + Cardinality(Requests) - 1
    BY <2>1, <2>2, <2>3
  <2> QED BY <1>6, <2>1, <2>2, <2>4 DEF RoomIsLeft
<1> QED
  BY <1>3, <1>4, <1>7 DEF AttachedInv

LEMMA InsertKeepsRoom ==
  ASSUME AttachmentBounds, AttachedInv, NEW q \in Requests, Attached!Insert(q)
  PROVE  /\ AttachedInv'
         /\ \A i \in DOMAIN attached : attached'[i] = attached[i]
<1>1. PICK n \in Nat : DOMAIN attached = 1..n
  BY DEF AttachedInv, AttachedTyped
<1>2. Cardinality(1..n) = n /\ IsFiniteSet(1..n)
  BY FS_Interval
<1>3. PICK id \in Nat : id = n + 1 /\ 1..id = (1..n) \cup {id}
  BY <1>1
<1>4. /\ attaching[q] # None /\ attaching[q].op = "create"
      /\ attached' = [i \in 1..id |-> IF i = id THEN [uploader |-> attaching[q].user, deleted |-> FALSE]
                                                ELSE attached[i]]
      /\ attaching' = [attaching EXCEPT ![q] = None]
  BY <1>1, <1>2, <1>3, SameCount DEF Attached!Insert
<1>5. \A i \in DOMAIN attached : attached'[i] = attached[i]
  BY <1>1, <1>3, <1>4
<1>6. AttachedTyped'
  <2>1. attaching[q].user \in Users
    BY <1>4 DEF AttachedInv, AttachedTyped, Attached!Calls
  <2>2. [uploader |-> attaching[q].user, deleted |-> FALSE] \in Attached!Rows
    BY <2>1 DEF Attached!Rows
  <2>3. \A i \in 1..id : attached'[i] \in Attached!Rows
    BY <1>1, <1>3, <1>4, <2>2 DEF AttachedInv, AttachedTyped
  <2> QED BY <1>3, <1>4, <2>3 DEF AttachedInv, AttachedTyped
<1>7. CallIsAllowed'
  <2>1. \A r \in Requests : r # q => attaching'[r] = attaching[r]
    BY <1>4 DEF AttachedInv, AttachedTyped
  <2>2. attaching'[q] = None
    BY <1>4 DEF AttachedInv, AttachedTyped
  <2>3. DOMAIN attached \subseteq DOMAIN attached'
    BY <1>1, <1>3, <1>4
  <2> QED BY <1>5, <2>1, <2>2, <2>3 DEF AttachedInv, CallIsAllowed
<1>8. Attached!Active' = Attached!Active \cup {id} /\ id \notin Attached!Active
  <2>1. id \notin DOMAIN attached
    BY <1>1, <1>3
  <2>2. DOMAIN attached' = DOMAIN attached \cup {id} /\ attached'[id].deleted = FALSE
    BY <1>1, <1>3, <1>4
  <2> QED BY <1>5, <2>1, <2>2 DEF Attached!Active
<1>9. Creating' = Creating \ {q} /\ q \in Creating
  BY <1>4 DEF AttachedInv, AttachedTyped, Creating
<1>10. /\ Cardinality(Attached!Active') = Cardinality(Attached!Active) + 1
       /\ Cardinality(Creating') = Cardinality(Creating) - 1
  BY <1>8, <1>9, SetsAreFinite, FS_AddElement, FS_RemoveElement DEF AttachedInv
<1>11. RoomIsLeft'
  BY <1>10, SetsAreFinite DEF AttachedInv, RoomIsLeft, AttachmentBounds
<1> QED
  BY <1>5, <1>6, <1>7, <1>11 DEF AttachedInv

\* Rows keep their uploader; the calls that go on were begun before.
LEMMA RestKeepsRoom ==
  ASSUME AttachmentBounds, AttachedInv, AttachedTyped', CallIsAllowed',
         Attached!Active' \subseteq Attached!Active, Creating' \subseteq Creating
  PROVE  AttachedInv'
<1>1. /\ Cardinality(Attached!Active') <= Cardinality(Attached!Active)
      /\ Cardinality(Creating') <= Cardinality(Creating)
      /\ Cardinality(Attached!Active') \in Nat /\ Cardinality(Creating') \in Nat
  BY SetsAreFinite, FS_Subset, FS_CardinalityType DEF AttachedInv
<1>2. RoomIsLeft'
  BY <1>1, SetsAreFinite DEF AttachedInv, RoomIsLeft, AttachmentBounds
<1> QED
  BY <1>2 DEF AttachedInv

LEMMA LoadKeepsRoom ==
  ASSUME AttachmentBounds, AttachedInv, NEW q \in Requests, NEW u \in Users,
         NEW op \in {"remove", "patch"}, NEW i \in Attached!Ids, Attached!Load(q, u, op, i)
  PROVE  AttachedInv'
<1>1. /\ attaching[q] = None /\ attached' = attached /\ i \in DOMAIN attached
      /\ attaching' = [attaching EXCEPT ![q] = [op |-> op, user |-> u, id |-> i]]
      /\ op = "remove" => u \in Admins \cup {attached[i].uploader}
  BY DEF Attached!Load, Attached!MayRemove, Attached!Active
<1>2. PICK c \in Attached!Calls : c = [op |-> op, user |-> u, id |-> i]
  BY DEF Attached!Calls
<1>3. /\ attaching'[q] = c /\ \A r \in Requests : r # q => attaching'[r] = attaching[r]
      /\ attaching' \in [Requests -> Attached!Calls \cup {None}]
  BY <1>1, <1>2 DEF AttachedInv, AttachedTyped
<1>4. c.op = op /\ c.user = u /\ c.id = i
  BY <1>2
<1>5. AttachedTyped' /\ CallIsAllowed'
  BY <1>1, <1>3, <1>4 DEF AttachedInv, AttachedTyped, CallIsAllowed
<1>6. Attached!Active' \subseteq Attached!Active /\ Creating' \subseteq Creating
  BY <1>1, <1>3, <1>4 DEF Attached!Active, Creating
<1> QED
  BY <1>5, <1>6, RestKeepsRoom

LEMMA RemoveKeepsRoom ==
  ASSUME AttachmentBounds, AttachedInv, NEW q \in Requests, Attached!Remove(q)
  PROVE  /\ AttachedInv' /\ attaching[q] # None /\ attaching[q].op = "remove"
         /\ attaching[q].user \in Admins \cup {attached[attaching[q].id].uploader}
         /\ \A i \in DOMAIN attached : i # attaching[q].id => attached'[i] = attached[i]
         /\ attached'[attaching[q].id].deleted = TRUE
<1>1. /\ attaching[q] # None /\ attaching[q].op = "remove"
      /\ attached' = [attached EXCEPT ![attaching[q].id].deleted = TRUE]
      /\ attaching' = [attaching EXCEPT ![q] = None]
  BY DEF Attached!Remove
<1>2. PICK i \in DOMAIN attached :
        i = attaching[q].id /\ attaching[q].user \in Admins \cup {attached[i].uploader}
  BY <1>1 DEF AttachedInv, CallIsAllowed
<1>3. PICK row \in Attached!Rows : row = attached[i]
  BY <1>2 DEF AttachedInv, AttachedTyped
<1>4. /\ DOMAIN attached' = DOMAIN attached
      /\ \A j \in DOMAIN attached : j # i => attached'[j] = attached[j]
      /\ attached'[i] = [row EXCEPT !.deleted = TRUE]
  BY <1>1, <1>2, <1>3
<1>5. attached'[i] \in Attached!Rows /\ attached'[i].uploader = attached[i].uploader /\ attached'[i].deleted
  BY <1>3, <1>4 DEF Attached!Rows
<1>6. /\ attaching'[q] = None /\ \A r \in Requests : r # q => attaching'[r] = attaching[r]
      /\ attaching' \in [Requests -> Attached!Calls \cup {None}]
  BY <1>1 DEF AttachedInv, AttachedTyped
<1>7. AttachedTyped'
  BY <1>4, <1>5, <1>6 DEF AttachedInv, AttachedTyped
<1>8. CallIsAllowed'
  <2>1. \A j \in DOMAIN attached : attached'[j].uploader = attached[j].uploader
    BY <1>4, <1>5
  <2> QED BY <1>4, <1>6, <2>1 DEF AttachedInv, CallIsAllowed
<1>9. Attached!Active' \subseteq Attached!Active /\ Creating' \subseteq Creating
  BY <1>4, <1>5, <1>6 DEF Attached!Active, Creating
<1> QED
  BY <1>1, <1>2, <1>4, <1>5, <1>7, <1>8, <1>9, RestKeepsRoom

LEMMA QuietCallKeepsRoom ==
  ASSUME AttachmentBounds, AttachedInv, NEW q \in Requests, Attached!Patch(q) \/ Attached!Fail(q)
  PROVE  /\ AttachedInv'
         /\ \A i \in DOMAIN attached : attached'[i] = attached[i]
<1>1. attaching' = [attaching EXCEPT ![q] = None]
  BY DEF Attached!Patch, Attached!Fail
<1>2. DOMAIN attached' = DOMAIN attached /\ \A i \in DOMAIN attached : attached'[i] = attached[i]
  BY DEF Attached!Patch, Attached!Fail, Attached!WithComment
<1>3. /\ attaching'[q] = None /\ \A r \in Requests : r # q => attaching'[r] = attaching[r]
      /\ attaching' \in [Requests -> Attached!Calls \cup {None}]
  BY <1>1 DEF AttachedInv, AttachedTyped
<1>4. AttachedTyped' /\ CallIsAllowed'
  BY <1>2, <1>3 DEF AttachedInv, AttachedTyped, CallIsAllowed
<1>5. Attached!Active' \subseteq Attached!Active /\ Creating' \subseteq Creating
  BY <1>2, <1>3 DEF Attached!Active, Creating
<1> QED
  BY <1>2, <1>4, <1>5, RestKeepsRoom

LEMMA AttachedStep ==
  ASSUME AttachmentBounds PROVE AttachedInv /\ [Attached!Next]_(Attached!vars) => AttachedInv'
<1>1. UNCHANGED Attached!vars /\ AttachedInv => AttachedInv'
  BY DEF Attached!vars, AttachedInv, AttachedTyped, CallIsAllowed, RoomIsLeft, Attached!Active, Creating
<1> QED
  BY <1>1, CountKeepsRoom, InsertKeepsRoom, LoadKeepsRoom, RemoveKeepsRoom, QuietCallKeepsRoom
  DEF Attached!Next

LEMMA DeletedStays ==
  ASSUME AttachmentBounds, AttachedInv, [Attached!Next]_(Attached!vars), NEW i \in DOMAIN attached
  PROVE  /\ attached[i].deleted => attached'[i].deleted
         /\ attached'[i].deleted /\ ~attached[i].deleted =>
              \E q \in Requests : /\ attaching[q] # None /\ attaching[q].op = "remove" /\ attaching[q].id = i
                                  /\ attaching[q].user \in Admins \cup {attached[i].uploader}
<1> DEFINE D == /\ attached[i].deleted => attached'[i].deleted
                /\ attached'[i].deleted /\ ~attached[i].deleted =>
                     \E q \in Requests : /\ attaching[q] # None /\ attaching[q].op = "remove"
                                         /\ attaching[q].id = i
                                         /\ attaching[q].user \in Admins \cup {attached[i].uploader}
<1>1. attached'[i] = attached[i] => D
  OBVIOUS
<1>2. ASSUME NEW q \in Requests, Attached!Remove(q) PROVE D
  BY <1>2, RemoveKeepsRoom
<1> HIDE DEF D
<1>3. ASSUME NEW q \in Requests PROVE
        /\ \A u \in Users : Attached!Count(q, u) => D
        /\ \A u \in Users, op \in {"remove", "patch"}, k \in Attached!Ids : Attached!Load(q, u, op, k) => D
  BY <1>1 DEF Attached!Count, Attached!Load
<1>4. ASSUME NEW q \in Requests, Attached!Insert(q) \/ Attached!Patch(q) \/ Attached!Fail(q) PROVE D
  BY <1>1, <1>4, InsertKeepsRoom, QuietCallKeepsRoom
<1>5. UNCHANGED Attached!vars => D
  BY <1>1 DEF Attached!vars
<1>6. D
  BY <1>2, <1>3, <1>4, <1>5 DEF Attached!Next
<1> QED
  BY <1>6 DEF D

-----------------------------------------------------------------------------
(* What an audit finds, and how two of its runs compare                      *)

\* The instance counts as this module does.
LEMMA SameFoundCount == \A S : Found!Cardinality(S) = Cardinality(S)
BY DEF Found!Cardinality, Cardinality

\* What is found in a row: by its engine e, and by the pilot's rules.
FoundIn(e, top, r, d) == Found!Findings(e, top, r, d) \cup Found!PilotFindings(r)

\* A column is known by where it stands.
LEMMA ColumnsDiffer ==
  ASSUME EngineBounds, NEW top, NEW c \in Found!PlannedDays,
         NEW k \in Found!PdColumns(top, c), NEW l \in Found!PdColumns(top, c)
  PROVE  k.at \in Nat /\ k.pd \in Nat /\ (k.at = l.at => k = l)
<1>1. PICK n \in Nat : Months = 1..n
  BY FS_CardinalityType DEF EngineBounds
<1>2. Found!Cardinality(Months) = n
  BY <1>1, FS_Interval, SameFoundCount
<1>3. /\ c.days \in [Months -> Days \cup {0}] /\ c.total \in Totals \cup {0}
      /\ Days \subseteq Nat /\ Totals \subseteq Nat
  BY DEF Found!PlannedDays, Found!NoDays, EngineBounds
<1>4. PICK merged : merged = (IF top = Found!Blank
                                THEN [days |-> [m \in Months |-> Found!NoDays], total |-> Found!NoDays]
                                ELSE top.cells)
  OBVIOUS
<1>5. \A x \in Found!PdColumns(top, c) :
        \/ \E m \in Months : x = [at |-> m, label |-> <<m, merged.days[m]>>, pd |-> c.days[m]]
        \/ x = [at |-> n + 1, label |-> <<n + 1, merged.total>>, pd |-> c.total]
  BY <1>2, <1>4 DEF Found!PdColumns
<1>6. \A x \in Found!PdColumns(top, c) :
        /\ x.at \in Nat /\ x.pd \in Nat
        /\ x.at \in Months => x = [at |-> x.at, label |-> <<x.at, merged.days[x.at]>>, pd |-> c.days[x.at]]
        /\ x.at \notin Months => x = [at |-> n + 1, label |-> <<n + 1, merged.total>>, pd |-> c.total]
  BY <1>1, <1>3, <1>5
<1> QED
  BY <1>6

\* Over-planning reports one column at most: the first of those with most days.
LEMMA OneWorstMonth ==
  ASSUME EngineBounds, NEW top, NEW c \in Found!PlannedDays, NEW d,
         NEW f \in Found!OverPlanning(top, c, d), NEW g \in Found!OverPlanning(top, c, d)
  PROVE  f = g
<1> DEFINE read == {k \in Found!PdColumns(top, c) : k.pd # Found!NoDays}
           worst == {k \in read : \A x \in read : x.pd < k.pd \/ (x.pd = k.pd /\ k.at <= x.at)}
<1>1. PICK k \in worst : f = Found!Found("month-pd", "high", <<k.label, k.pd, d>>)
  BY DEF Found!OverPlanning
<1>2. PICK l \in worst : g = Found!Found("month-pd", "high", <<l.label, l.pd, d>>)
  BY DEF Found!OverPlanning
<1>3. /\ k \in Found!PdColumns(top, c) /\ l \in Found!PdColumns(top, c)
      /\ l.pd < k.pd \/ (l.pd = k.pd /\ k.at <= l.at)
      /\ k.pd < l.pd \/ (k.pd = l.pd /\ l.at <= k.at)
  OBVIOUS
<1>4. /\ k.at \in Nat /\ k.pd \in Nat /\ l.at \in Nat /\ l.pd \in Nat
      /\ k.at = l.at => k = l
  BY <1>3, ColumnsDiffer
<1>5. k = l
  BY <1>3, <1>4
<1> QED
  BY <1>1, <1>2, <1>5

\* One engine gives one row no two findings with one code.
LEMMA OneFindingPerCode ==
  ASSUME EngineBounds, NEW e \in AuditedBy, NEW top, NEW r \in Found!RowsOf(e), NEW d,
         NEW f \in FoundIn(e, top, r, d), NEW g \in FoundIn(e, top, r, d), f.code = g.code
  PROVE  f = g
<1> DEFINE F == Found!Findings(e, top, r, d)
           P == Found!PilotFindings(r)
<1>1. \A p \in P : \E k : p = Found!Found("pilot", k, k)
  BY DEF Found!PilotFindings
<1>2. e \in {"over", "missing", "rate", "cost", "master", "opportunities"}
  BY DEF EngineBounds
<1>3. \A p \in F : p.code[1] # "pilot"
  <2>1. CASE e = "over"
    BY <2>1 DEF Found!Findings, Found!OverPlanning, Found!Found
  <2>2. CASE e = "missing"
    BY <2>2 DEF Found!Findings, Found!MissingPlan, Found!Found
  <2>3. CASE e = "rate"
    BY <2>3 DEF Found!Findings, Found!Rate, Found!Found
  <2>4. CASE e = "cost"
    BY <2>4 DEF Found!Findings, Found!CostRate, Found!Found
  <2>5. CASE e = "master"
    BY <2>5 DEF Found!Findings, Found!MasterData, Found!Product, Found!Found
  <2>6. CASE e = "opportunities"
    BY <2>6 DEF Found!Findings, Found!Opportunities, Found!Found
  <2> QED BY <1>2, <2>1, <2>2, <2>3, <2>4, <2>5, <2>6
<1>4. \A p, q \in F : p.code = q.code => p = q
  <2>1. CASE e = "over"
    <3>1. r.cells \in Found!PlannedDays /\ F = Found!OverPlanning(top, r.cells, d)
      BY <2>1 DEF Found!RowsOf, Found!Cells, Found!Findings
    <3> QED BY <3>1, OneWorstMonth
  <2>2. CASE e = "missing"
    BY <2>2 DEF Found!Findings, Found!MissingPlan
  <2>3. CASE e = "rate"
    BY <2>3 DEF Found!Findings, Found!Rate
  <2>4. CASE e = "cost"
    BY <2>4 DEF Found!Findings, Found!CostRate
  <2>5. CASE e = "master"
    <3>1. \A p \in F :
            \/ \E k : p = Found!Found("missing", k, k)
            \/ \E t : p = Found!Found("product", t, r.cells.product)
      BY <2>5 DEF Found!Findings, Found!MasterData, Found!Product
    <3> QED BY <3>1 DEF Found!Found
  <2>6. CASE e = "opportunities"
    BY <2>6 DEF Found!Findings, Found!Opportunities
  <2> QED BY <1>2, <2>1, <2>2, <2>3, <2>4, <2>5, <2>6
<1> HIDE DEF F, P
<1>5. \A p \in F, q \in P : p.code # q.code
  BY <1>1, <1>3 DEF Found!Found
<1>6. \A p, q \in P : p.code = q.code => p = q
  BY <1>1 DEF Found!Found
<1>7. f \in F \cup P /\ g \in F \cup P
  BY DEF FoundIn, F, P
<1> QED
  BY <1>4, <1>5, <1>6, <1>7

\* But for over-planning, what is found in a row is a matter of that row.
LEMMA RowDecides ==
  ASSUME EngineBounds, NEW e \in AuditedBy, e # "over", NEW r, NEW t, NEW u, NEW c, NEW d
  PROVE  FoundIn(e, t, r, c) = FoundIn(e, u, r, d)
<1>1. e \in {"missing", "rate", "cost", "master", "opportunities"}
  BY DEF EngineBounds
<1>2. Found!Findings(e, t, r, c) = Found!Findings(e, u, r, d)
  BY <1>1 DEF Found!Findings
<1> QED
  BY <1>2 DEF FoundIn

\* What a workbook of engine e may hold.
FilesOf(e) == [Tabs -> Seq(Found!RowsOf(e) \cup {Found!Blank})]

\* What run says of its file is what is found in the rows it scanned.
SaysWhatItFound(run) ==
  /\ run.selected \subseteq Tabs /\ run.file \in FilesOf(engine)
  /\ \A m \in run.result.issues :
       \E s \in run.selected : \E i \in Found!Scanned(run.file, s) :
         \E f \in FoundIn(engine, run.file[s][1], run.file[s][i], run.limit) :
           m = Found!Issue(s, i, run.file[s][i], f)
  /\ \A s \in run.selected : \A i \in Found!Scanned(run.file, s) :
       \A f \in FoundIn(engine, run.file[s][1], run.file[s][i], run.limit) :
         Found!Issue(s, i, run.file[s][i], f) \in run.result.issues
  /\ \A s \in run.selected :
       /\ run.result.flagged[s] = Found!Cardinality(Found!RowsFlagged(run.result.issues, s))
       /\ run.result.scanned[s] = Found!Cardinality(Found!Scanned(run.file, s))

FileTyped == engine \in AuditedBy /\ selected \subseteq Tabs /\ file \in FilesOf(engine)

FindingsInv ==
  /\ FileTyped
  /\ first = Found!NoRun => last = Found!NoRun
  /\ first # Found!NoRun => SaysWhatItFound(first) /\ SaysWhatItFound(last)

LEMMA FindingsInit == Found!Init => FindingsInv
<1> SUFFICES ASSUME Found!Init PROVE FindingsInv
  OBVIOUS
<1>1. file = [s \in Tabs |-> <<>>] /\ \A R : <<>> \in Seq(R)
  BY DEF Found!Init
<1> QED
  BY <1>1 DEF Found!Init, FindingsInv, FileTyped, FilesOf

LEMMA IssuesAreOfFindings ==
  ASSUME NEW found
  PROVE  \A m : m \in Found!IssuesOf(found) <=>
           \E s \in selected : \E i \in Found!Scanned(file, s) : \E f \in found[s][i] :
             m = Found!Issue(s, i, file[s][i], f)
BY DEF Found!IssuesOf

\* A run says what it found.
LEMMA RunSaysWhatItFound == ASSUME FileTyped, NEW run, run = Found!Run PROVE SaysWhatItFound(run)
<1>1. PICK ours : ours = Found!IssuesOf([s \in selected |-> [i \in Found!Scanned(file, s) |->
                                   Found!Findings(engine, file[s][1], file[s][i], limit)]])
  OBVIOUS
<1>2. PICK theirs : theirs = Found!IssuesOf([s \in selected |-> [i \in Found!Scanned(file, s) |->
                                   Found!PilotFindings(file[s][i])]])
  OBVIOUS
<1>3. /\ run.file = file /\ run.selected = selected /\ run.limit = limit
      /\ run.result = Found!Result
  BY DEF Found!Run
<1>4. Found!Result = [issues |-> ours \cup theirs,
         scanned |-> [s \in selected |-> Found!Cardinality(Found!Scanned(file, s))],
         flagged |-> [s \in selected |-> Found!Flagged(ours, theirs, s)]]
  BY <1>1, <1>2, Zenon DEF Found!Result
<1>5. \A m : m \in ours <=>
        \E s \in selected : \E i \in Found!Scanned(file, s) :
          \E f \in Found!Findings(engine, file[s][1], file[s][i], limit) :
            m = Found!Issue(s, i, file[s][i], f)
  <2>1. PICK found : found = [s \in selected |-> [i \in Found!Scanned(file, s) |->
                                   Found!Findings(engine, file[s][1], file[s][i], limit)]]
    OBVIOUS
  <2>2. \A s \in selected : \A i \in Found!Scanned(file, s) :
          found[s][i] = Found!Findings(engine, file[s][1], file[s][i], limit)
    BY <2>1
  <2>3. ours = Found!IssuesOf(found)
    BY <1>1, <2>1
  <2> QED BY <2>2, <2>3, IssuesAreOfFindings
<1>6. \A m : m \in theirs <=>
        \E s \in selected : \E i \in Found!Scanned(file, s) :
          \E f \in Found!PilotFindings(file[s][i]) : m = Found!Issue(s, i, file[s][i], f)
  <2>1. PICK found : found = [s \in selected |-> [i \in Found!Scanned(file, s) |->
                                   Found!PilotFindings(file[s][i])]]
    OBVIOUS
  <2>2. \A s \in selected : \A i \in Found!Scanned(file, s) :
          found[s][i] = Found!PilotFindings(file[s][i])
    BY <2>1
  <2>3. theirs = Found!IssuesOf(found)
    BY <1>2, <2>1
  <2> QED BY <2>2, <2>3, IssuesAreOfFindings
<1>7. run.result.issues = ours \cup theirs
  BY <1>3, <1>4
<1>8. \A m \in run.result.issues :
        \E s \in run.selected : \E i \in Found!Scanned(run.file, s) :
          \E f \in FoundIn(engine, run.file[s][1], run.file[s][i], run.limit) :
            m = Found!Issue(s, i, run.file[s][i], f)
  BY <1>3, <1>5, <1>6, <1>7 DEF FoundIn
<1>9. \A s \in run.selected : \A i \in Found!Scanned(run.file, s) :
        \A f \in FoundIn(engine, run.file[s][1], run.file[s][i], run.limit) :
          Found!Issue(s, i, run.file[s][i], f) \in run.result.issues
  BY <1>3, <1>5, <1>6, <1>7 DEF FoundIn
<1>10. \A s \in run.selected :
        /\ run.result.flagged[s] = Found!Cardinality(Found!RowsFlagged(run.result.issues, s))
        /\ run.result.scanned[s] = Found!Cardinality(Found!Scanned(run.file, s))
  BY <1>3, <1>4, <1>7 DEF Found!Flagged
<1> QED
  BY <1>3, <1>8, <1>9, <1>10 DEF SaysWhatItFound, FileTyped

\* Before the first run and between runs the workbook stays one.
LEMMA FileStays ==
  ASSUME FileTyped, NEW s \in Tabs,
         \/ \E r \in Found!RowsOf(engine) \cup {Found!Blank} : Found!Write(s, r)
         \/ \E i \in 1..Len(file[s]) + 1, r \in Found!RowsOf(engine) : Found!Insert(s, i, r)
         \/ \E i \in DOMAIN file[s] : \/ Found!TakeOut(s, i)
                                      \/ \E c \in Found!Cells[engine] : Found!Correct(s, i, c)
  PROVE  file' \in FilesOf(engine)
<1> DEFINE R == Found!RowsOf(engine) \cup {Found!Blank}
<1>1. file \in [Tabs -> Seq(R)] /\ file[s] \in Seq(R)
  BY DEF FileTyped, FilesOf
<1>2. SUFFICES \E q \in Seq(R) : file' = [file EXCEPT ![s] = q]
  BY <1>1 DEF FilesOf
<1>3. ASSUME NEW r \in R, Found!Write(s, r)
      PROVE  \E q \in Seq(R) : file' = [file EXCEPT ![s] = q]
  <2>1. Append(file[s], r) \in Seq(R) /\ file' = [file EXCEPT ![s] = Append(file[s], r)]
    BY <1>1, <1>3 DEF Found!Write
  <2> QED BY <2>1
<1>4. ASSUME NEW i \in 1..Len(file[s]) + 1, NEW r \in Found!RowsOf(engine), Found!Insert(s, i, r)
      PROVE  \E q \in Seq(R) : file' = [file EXCEPT ![s] = q]
  <2>1. PICK q : q = SubSeq(file[s], 1, i - 1) \o <<r>> \o SubSeq(file[s], i, Len(file[s]))
    OBVIOUS
  <2>2. SubSeq(file[s], 1, i - 1) \in Seq(R) /\ SubSeq(file[s], i, Len(file[s])) \in Seq(R) /\ <<r>> \in Seq(R)
    BY <1>1
  <2>3. q \in Seq(R)
    BY <2>1, <2>2
  <2>4. file' = [file EXCEPT ![s] = q]
    BY <1>4, <2>1 DEF Found!Insert, Found!InsertAt
  <2> QED BY <2>3, <2>4
<1>5. ASSUME NEW i \in DOMAIN file[s], Found!TakeOut(s, i)
      PROVE  \E q \in Seq(R) : file' = [file EXCEPT ![s] = q]
  <2>1. PICK q : q = SubSeq(file[s], 1, i - 1) \o SubSeq(file[s], i + 1, Len(file[s]))
    OBVIOUS
  <2>2. SubSeq(file[s], 1, i - 1) \in Seq(R) /\ SubSeq(file[s], i + 1, Len(file[s])) \in Seq(R)
    BY <1>1
  <2>3. q \in Seq(R)
    BY <2>1, <2>2
  <2>4. file' = [file EXCEPT ![s] = q]
    BY <1>5, <2>1 DEF Found!TakeOut, Found!RemoveAt
  <2> QED BY <2>3, <2>4
<1>6. ASSUME NEW i \in DOMAIN file[s], NEW c \in Found!Cells[engine], Found!Correct(s, i, c)
      PROVE  \E q \in Seq(R) : file' = [file EXCEPT ![s] = q]
  <2>1. PICK row : row = [file[s][i] EXCEPT !.cells = c]
    OBVIOUS
  <2>2. row \in R
    <3>1. file[s][i] \in R
      BY <1>1, <1>6
    <3>2. file[s][i] # Found!Blank
      BY <1>6 DEF Found!Correct
    <3>3. file[s][i] \in Found!RowsOf(engine)
      BY <3>1, <3>2
    <3> QED BY <1>6, <2>1, <3>3 DEF Found!RowsOf
  <2>3. PICK q : q = [file[s] EXCEPT ![i] = row]
    OBVIOUS
  <2>4. q \in Seq(R)
    BY <1>1, <2>2, <2>3
  <2>5. file' = [file EXCEPT ![s] = q]
    BY <1>1, <1>6, <2>1, <2>3 DEF Found!Correct
  <2> QED BY <2>4, <2>5
<1> QED
  BY <1>3, <1>4, <1>5, <1>6

LEMMA FindingsStep == FindingsInv /\ [Found!Next]_(Found!vars) => FindingsInv'
<1> SUFFICES ASSUME FindingsInv, [Found!Next]_(Found!vars) PROVE FindingsInv'
  OBVIOUS
<1>1. ASSUME UNCHANGED <<engine, first, last>>, selected' \subseteq Tabs, file' \in FilesOf(engine)
      PROVE  FindingsInv'
  <2>1. FileTyped' /\ FilesOf(engine)' = FilesOf(engine)
    BY <1>1 DEF FindingsInv, FileTyped, FilesOf, Found!RowsOf, Found!Cells, Found!PlannedDays, Found!Effort,
                Found!RateCells, Found!CostCells, Found!MasterCells, Found!OpportunityCells, Found!Blank
  <2>2. ASSUME NEW run, SaysWhatItFound(run) PROVE SaysWhatItFound(run)'
    BY <1>1, <2>1, <2>2 DEF SaysWhatItFound
  <2> QED BY <1>1, <2>1, <2>2 DEF FindingsInv
<1>2. CASE UNCHANGED Found!vars
  BY <1>1, <1>2 DEF Found!vars, FindingsInv, FileTyped
<1>3. ASSUME NEW s \in Tabs,
             \/ \E r \in Found!RowsOf(engine) \cup {Found!Blank} : Found!Write(s, r)
             \/ \E i \in 1..Len(file[s]) + 1, r \in Found!RowsOf(engine) : Found!Insert(s, i, r)
             \/ \E i \in DOMAIN file[s] : \/ Found!TakeOut(s, i)
                                          \/ \E c \in Found!Cells[engine] : Found!Correct(s, i, c)
      PROVE  FindingsInv'
  <2>1. file' \in FilesOf(engine)
    BY <1>3, FileStays DEF FindingsInv
  <2>2. UNCHANGED <<engine, first, last, selected>>
    BY <1>3 DEF Found!Write, Found!Insert, Found!TakeOut, Found!Correct
  <2> QED BY <1>1, <2>1, <2>2 DEF FindingsInv, FileTyped
<1>4. ASSUME NEW sheets \in SUBSET Tabs, Found!Select(sheets) PROVE FindingsInv'
  BY <1>1, <1>4 DEF Found!Select, FindingsInv, FileTyped
<1>5. ASSUME NEW d \in Limits, Found!SetLimit(d) PROVE FindingsInv'
  BY <1>1, <1>5 DEF Found!SetLimit, FindingsInv, FileTyped
<1>6. CASE Found!Audit
  <2>1. PICK run : run = Found!Run
    OBVIOUS
  <2>2. SaysWhatItFound(run) /\ FileTyped
    BY <2>1, RunSaysWhatItFound DEF FindingsInv
  <2>3. /\ last' = run /\ first' = IF first = Found!NoRun THEN run ELSE first
        /\ UNCHANGED <<engine, file, selected>>
    BY <1>6, <2>1 DEF Found!Audit
  <2>4. ASSUME NEW q, SaysWhatItFound(q) PROVE SaysWhatItFound(q)'
    BY <2>3, <2>4 DEF SaysWhatItFound, FilesOf, FoundIn
  <2>5. FileTyped'
    BY <2>2, <2>3 DEF FileTyped, FilesOf
  <2> QED BY <2>2, <2>3, <2>4, <2>5 DEF FindingsInv
<1> QED
  BY <1>2, <1>3, <1>4, <1>5, <1>6 DEF Found!Next

\* An issue of a run is a finding in a row it scanned.
LEMMA IssueHasRow ==
  ASSUME FindingsInv, NEW run, SaysWhatItFound(run), NEW m \in run.result.issues
  PROVE  \E s \in run.selected : \E i \in Found!Scanned(run.file, s) :
           LET r == run.file[s][i] IN
           /\ s \in Tabs /\ i \in 1..Len(run.file[s]) /\ r \in Found!RowsOf(engine) /\ engine \in AuditedBy
           /\ m.row = r /\ m.id[1] = s /\ m.id[2] = i
           /\ \E f \in FoundIn(engine, run.file[s][1], r, run.limit) :
                /\ m = Found!Issue(s, i, r, f) /\ m.id = <<s, i, f.code>> /\ m.reason = f.reason
                /\ m.key = Found!KeyOf(s, i, r, f.code)
<1>1. PICK s, i : s \in run.selected /\ i \in Found!Scanned(run.file, s) /\
        \E f \in FoundIn(engine, run.file[s][1], run.file[s][i], run.limit) :
          m = Found!Issue(s, i, run.file[s][i], f)
  BY DEF SaysWhatItFound
<1>2. PICK f \in FoundIn(engine, run.file[s][1], run.file[s][i], run.limit) :
        m = Found!Issue(s, i, run.file[s][i], f)
  BY <1>1
<1>3. s \in Tabs /\ run.file[s] \in Seq(Found!RowsOf(engine) \cup {Found!Blank})
  BY <1>1 DEF SaysWhatItFound, FilesOf
<1>4. i \in 1..Len(run.file[s]) /\ run.file[s][i] # Found!Blank
  BY <1>1, <1>3 DEF Found!Scanned
<1>5. run.file[s][i] \in Found!RowsOf(engine)
  BY <1>3, <1>4
<1>6. engine \in AuditedBy
  BY DEF FindingsInv, FileTyped
<1>7. /\ m.id = <<s, i, f.code>> /\ m.key = Found!KeyOf(s, i, run.file[s][i], f.code)
      /\ m.row = run.file[s][i] /\ m.reason = f.reason
  BY <1>2 DEF Found!Issue
<1> QED
  BY <1>1, <1>2, <1>3, <1>4, <1>5, <1>6, <1>7

\* The counts of a run are those of its issues, which have ids of their own.
LEMMA RunAddsUp ==
  ASSUME EngineBounds, FindingsInv, NEW run, SaysWhatItFound(run)
  PROVE  /\ \A m, x \in run.result.issues : m.id = x.id => m = x
         /\ \A s \in run.selected :
              /\ run.result.flagged[s] = Found!Cardinality(Found!RowsFlagged(run.result.issues, s))
              /\ run.result.flagged[s] <= run.result.scanned[s]
<1>1. ASSUME NEW m \in run.result.issues, NEW x \in run.result.issues, m.id = x.id PROVE m = x
  <2>1. PICK s, i :
          /\ s \in run.selected /\ i \in Found!Scanned(run.file, s)
          /\ run.file[s][i] \in Found!RowsOf(engine) /\ engine \in AuditedBy
          /\ \E f \in FoundIn(engine, run.file[s][1], run.file[s][i], run.limit) :
               m = Found!Issue(s, i, run.file[s][i], f) /\ m.id = <<s, i, f.code>>
    BY IssueHasRow
  <2>2. PICK f \in FoundIn(engine, run.file[s][1], run.file[s][i], run.limit) :
          m = Found!Issue(s, i, run.file[s][i], f) /\ m.id = <<s, i, f.code>>
    BY <2>1
  <2>3. PICK t, j : t \in run.selected /\ j \in Found!Scanned(run.file, t) /\
          \E f2 \in FoundIn(engine, run.file[t][1], run.file[t][j], run.limit) :
            x = Found!Issue(t, j, run.file[t][j], f2) /\ x.id = <<t, j, f2.code>>
    BY IssueHasRow
  <2>4. PICK g \in FoundIn(engine, run.file[t][1], run.file[t][j], run.limit) :
          x = Found!Issue(t, j, run.file[t][j], g) /\ x.id = <<t, j, g.code>>
    BY <2>3
  <2>5. s = t /\ i = j /\ f.code = g.code
    BY <1>1, <2>2, <2>4
  <2>6. f = g
    BY <2>1, <2>2, <2>4, <2>5, OneFindingPerCode
  <2> QED BY <2>2, <2>4, <2>5, <2>6
<1>2. ASSUME NEW s \in run.selected PROVE run.result.flagged[s] <= run.result.scanned[s]
  <2> DEFINE S == Found!Scanned(run.file, s)
             F == Found!RowsFlagged(run.result.issues, s)
  <2>1. s \in Tabs /\ run.file[s] \in Seq(Found!RowsOf(engine) \cup {Found!Blank})
    BY DEF SaysWhatItFound, FilesOf
  <2>2. S \subseteq 1..Len(run.file[s]) /\ Len(run.file[s]) \in Nat
    BY <2>1 DEF Found!Scanned
  <2>3. IsFiniteSet(S)
    <3> HIDE DEF S, F
    <3>1. IsFiniteSet(1..Len(run.file[s]))
      BY <2>2, FS_Interval
    <3> QED BY <2>2, <3>1, FS_Subset
  <2>4. F \subseteq S
    <3> SUFFICES ASSUME NEW m \in run.result.issues, m.id[1] = s PROVE m.id[2] \in S
      BY DEF Found!RowsFlagged
    <3>1. PICK t, j : t \in run.selected /\ j \in Found!Scanned(run.file, t) /\ m.id[1] = t /\ m.id[2] = j
      BY IssueHasRow
    <3> QED BY <3>1
  <2> HIDE DEF S, F
  <2>5. Cardinality(F) <= Cardinality(S)
    BY <2>3, <2>4, FS_Subset
  <2>6. run.result.flagged[s] = Cardinality(F) /\ run.result.scanned[s] = Cardinality(S)
    BY SameFoundCount DEF SaysWhatItFound, F, S
  <2> QED BY <2>5, <2>6
<1> QED
  BY <1>1, <1>2 DEF SaysWhatItFound

\* Where no other row of its sheets has a row's number, the run has no issue
\* with a key of that row but those found in it.
LEMMA KeyLeadsToRow ==
  ASSUME FindingsInv, NEW run, SaysWhatItFound(run)
  PROVE  \A s \in run.selected : \A i \in Found!Scanned(run.file, s) :
           \A x \in run.result.issues : \A code :
             /\ run.file[s][i].number # Found!NoNumber
             /\ Found!Alone(run, run.file[s][i].number)
             /\ x.key = Found!KeyOf(s, i, run.file[s][i], code)
             => /\ x.id[2] = i
                /\ \E f \in FoundIn(engine, run.file[s][1], run.file[s][i], run.limit) :
                     f.code = code /\ x.reason = f.reason
<1> SUFFICES ASSUME NEW s \in run.selected, NEW i \in Found!Scanned(run.file, s),
                    NEW x \in run.result.issues, NEW code, NEW r, run.file[s][i] = r,
                    r.number # Found!NoNumber, Found!Alone(run, r.number),
                    x.key = Found!KeyOf(s, i, r, code)
             PROVE  /\ x.id[2] = i
                    /\ \E f \in FoundIn(engine, run.file[s][1], r, run.limit) :
                         f.code = code /\ x.reason = f.reason
  OBVIOUS
<1>1. PICK t, j : /\ t \in run.selected /\ j \in Found!Scanned(run.file, t) /\ x.id[2] = j
                  /\ \E f \in FoundIn(engine, run.file[t][1], run.file[t][j], run.limit) :
                       x.reason = f.reason /\ x.key = Found!KeyOf(t, j, run.file[t][j], f.code)
  BY IssueHasRow
<1>2. PICK f \in FoundIn(engine, run.file[t][1], run.file[t][j], run.limit) :
        x.reason = f.reason /\ x.key = Found!KeyOf(t, j, run.file[t][j], f.code)
  BY <1>1
<1>3. Found!KeyOf(s, i, r, code) = <<s, <<"number", r.number>>, code>>
  BY DEF Found!KeyOf
<1>4. t = s /\ f.code = code /\ run.file[t][j].number = r.number
  <2>1. CASE run.file[t][j].number = Found!NoNumber
    <3>1. x.key = <<t, <<"row", j>>, f.code>>
      BY <1>2, <2>1 DEF Found!KeyOf
    <3> QED BY <1>3, <3>1
  <2>2. CASE run.file[t][j].number # Found!NoNumber
    <3>1. x.key = <<t, <<"number", run.file[t][j].number>>, f.code>>
      BY <1>2, <2>2 DEF Found!KeyOf
    <3> QED BY <1>3, <3>1
  <2> QED BY <2>1, <2>2
<1>5. \A a, b : /\ a \in run.selected /\ b \in Found!Scanned(run.file, a)
                /\ run.file[a][b].number = r.number
                => <<a, b>> \in Found!Places(run, r.number)
  BY DEF Found!Places
<1>6. <<t, j>> = <<s, i>>
  BY <1>1, <1>4, <1>5 DEF Found!Alone
<1> QED
  BY <1>1, <1>2, <1>4, <1>6

\* The same row, alone with its number in both runs, has the same issues under
\* the same keys, with the same reasons.
LEMMA SameRowSameIssues ==
  ASSUME EngineBounds, FindingsInv, engine # "over",
         NEW q, NEW z, SaysWhatItFound(q), SaysWhatItFound(z),
         NEW m \in q.result.issues, m.row.number # Found!NoNumber,
         m.id[1] \in q.selected \cap z.selected,
         Found!Alone(q, m.row.number), Found!Alone(z, m.row.number),
         \E j \in DOMAIN z.file[m.id[1]] : z.file[m.id[1]][j] = m.row
  PROVE  /\ m.key \in Found!Keys(z)
         /\ \A x \in z.result.issues : x.key = m.key => x.reason = m.reason
         /\ \A x, y \in z.result.issues : x.key = m.key /\ y.key = m.key => x.id[2] = y.id[2]
<1>1. PICK s, i :
        /\ s \in q.selected /\ i \in Found!Scanned(q.file, s) /\ s \in Tabs
        /\ q.file[s][i] \in Found!RowsOf(engine) /\ q.file[s][i] # Found!Blank /\ engine \in AuditedBy
        /\ m.row = q.file[s][i] /\ m.id[1] = s
        /\ \E f \in FoundIn(engine, q.file[s][1], m.row, q.limit) :
             m.key = Found!KeyOf(s, i, m.row, f.code) /\ m.reason = f.reason
  BY IssueHasRow DEF Found!Scanned
<1>2. PICK f \in FoundIn(engine, q.file[s][1], m.row, q.limit) :
        m.key = Found!KeyOf(s, i, m.row, f.code) /\ m.reason = f.reason
  BY <1>1
<1>3. PICK j \in DOMAIN z.file[s] : z.file[s][j] = m.row
  BY <1>1
<1>4. s \in z.selected /\ j \in Found!Scanned(z.file, s)
  BY <1>1, <1>3 DEF Found!Scanned
<1>5. FoundIn(engine, q.file[s][1], m.row, q.limit) = FoundIn(engine, z.file[s][1], m.row, z.limit)
  BY <1>1, RowDecides
<1>6. m.key = Found!KeyOf(s, j, m.row, f.code)
  BY <1>2 DEF Found!KeyOf
<1>7. m.key \in Found!Keys(z)
  <2>1. Found!Issue(s, j, z.file[s][j], f) \in z.result.issues
    BY <1>2, <1>3, <1>4, <1>5 DEF SaysWhatItFound
  <2>2. Found!Issue(s, j, z.file[s][j], f).key = m.key
    BY <1>3, <1>6 DEF Found!Issue
  <2> QED BY <2>1, <2>2 DEF Found!Keys
<1>8. \A t \in z.selected : \A k \in Found!Scanned(z.file, t) :
        \A x \in z.result.issues : \A code :
          /\ z.file[t][k].number # Found!NoNumber
          /\ Found!Alone(z, z.file[t][k].number)
          /\ x.key = Found!KeyOf(t, k, z.file[t][k], code)
          => /\ x.id[2] = k
             /\ \E g \in FoundIn(engine, z.file[t][1], z.file[t][k], z.limit) :
                  g.code = code /\ x.reason = g.reason
  BY KeyLeadsToRow
<1>9. ASSUME NEW x \in z.result.issues, x.key = m.key
      PROVE  x.reason = m.reason /\ x.id[2] = j
  <2>1. /\ x.id[2] = j
        /\ \E g \in FoundIn(engine, z.file[s][1], m.row, z.limit) : g.code = f.code /\ x.reason = g.reason
    <3>1. z.file[s][j] = m.row /\ x.key = Found!KeyOf(s, j, z.file[s][j], f.code)
      BY <1>3, <1>6, <1>9
    <3>2. z.file[s][j].number # Found!NoNumber /\ Found!Alone(z, z.file[s][j].number)
      BY <3>1
    <3>3. /\ x.id[2] = j
          /\ \E g \in FoundIn(engine, z.file[s][1], z.file[s][j], z.limit) :
               g.code = f.code /\ x.reason = g.reason
      BY <1>4, <1>8, <3>1, <3>2
    <3> QED BY <3>1, <3>3
  <2>2. PICK g \in FoundIn(engine, z.file[s][1], m.row, z.limit) : g.code = f.code /\ x.reason = g.reason
    BY <2>1
  <2>3. g = f
    BY <1>1, <1>2, <1>5, <2>2, OneFindingPerCode
  <2> QED BY <1>2, <2>1, <2>2, <2>3
<1> QED
  BY <1>7, <1>9

\* Between two runs an issue whose row stayed what it was keeps its history.
LEMMA HistoryOfRowsIsKept == ASSUME EngineBounds, FindingsInv PROVE Found!HistoryIsKept
<1> SUFFICES ASSUME first # Found!NoRun, engine # "over",
                    NEW m \in first.result.issues \cup last.result.issues,
                    m.row.number # Found!NoNumber,
                    m.id[1] \in first.selected \cap last.selected,
                    Found!Alone(first, m.row.number), Found!Alone(last, m.row.number),
                    \E i \in DOMAIN first.file[m.id[1]] : first.file[m.id[1]][i] = m.row,
                    \E i \in DOMAIN last.file[m.id[1]] : last.file[m.id[1]][i] = m.row
             PROVE  m \notin Found!Added(first, last) \cup Found!Resolved(first, last)
                             \cup Found!Changed(first, last)
  BY DEF Found!HistoryIsKept
<1>1. PICK q, z : q = first /\ z = last
  OBVIOUS
<1>2. SaysWhatItFound(q) /\ SaysWhatItFound(z)
  BY <1>1 DEF FindingsInv
<1>3. m \in z.result.issues => m.key \in Found!Keys(q)
  BY <1>1, <1>2, SameRowSameIssues
<1>4. m \in q.result.issues => m.key \in Found!Keys(z)
  BY <1>1, <1>2, SameRowSameIssues
<1>5. ASSUME m \in z.result.issues PROVE Found!Held(q, m.key).reason = m.reason
  <2>1. /\ \A x \in q.result.issues : x.key = m.key => x.reason = m.reason
        /\ \A x, y \in q.result.issues : x.key = m.key /\ y.key = m.key => x.id[2] = y.id[2]
    BY <1>1, <1>2, <1>5, SameRowSameIssues
  <2>2. PICK y \in q.result.issues : y.key = m.key
    BY <1>3, <1>5 DEF Found!Keys
  <2>3. \A x \in q.result.issues : x.key = m.key => x.id[2] \in Nat
    BY <1>2, IssueHasRow
  <2>4. \A x \in q.result.issues : x.key = m.key => x.id[2] <= y.id[2]
    BY <2>1, <2>2, <2>3
  <2>5. Found!Held(q, m.key) \in q.result.issues /\ Found!Held(q, m.key).key = m.key
    BY <2>2, <2>4 DEF Found!Held
  <2> QED BY <2>1, <2>5
<1> QED
  BY <1>1, <1>3, <1>4, <1>5 DEF Found!Added, Found!Resolved, Found!Changed

-----------------------------------------------------------------------------
(* Theorems *)

\* nextSequence gives no code twice within the first year of a series, nor ever
\* where the code shows its year.
THEOREM CodesAreFresh == Spec => []FreshWithinItsYear
<1> USE ConstantsAreApart
<1>1. Init => CodeInv
  BY PartsInit, CodeInit
<1>2. CodeInv /\ [Next]_vars => CodeInv'
  BY PartsStep, CodeStep
<1>3. CodeInv => FreshWithinItsYear
  BY InvIsFresh DEF FreshWithinItsYear
<1> QED
  BY <1>1, <1>2, <1>3, PTL DEF Spec

\* Runs of different engines and edits of the same entries overlap, and the
\* entries still say what the shown runs found, except where an edit has written
\* something else over it since.
THEOREM EntriesSayWhatRunsFound == Spec => []EntriesFollowRuns
<1> USE ConstantsAreApart
<1>1. Init => AuditInv
  BY PartsInit, AuditInit
<1>2. AuditInv /\ [Next]_vars => AuditInv'
  BY PartsStep, AuditStep
<1>3. AuditInv => EntriesFollowRuns
  BY DEF AuditInv, EntriesFollowRuns
<1> QED
  BY <1>1, <1>2, <1>3, PTL DEF Spec

\* In whatever order the rows of the source and the directory are read, an issue
\* gets a manager and a name an entry only where the data leave no doubt.
THEOREM AddressesAreSure == Spec => []AddressIsUnambiguous
<1> USE ConstantsAreApart
<1>1. Init => AddressInv
  BY PartsInit, AddressInit
<1>2. AddressInv /\ [Next]_vars => AddressInv'
  BY PartsStep, AddressStep
<1>3. AddressInv => AddressIsUnambiguous
  BY InvIsOrderFree DEF AddressInv, AddressIsUnambiguous, Addressing!AddressIsUnambiguous
<1> QED
  BY <1>1, <1>2, <1>3, PTL DEF Spec

\* However many batches overlap: a broadcast has an event for all it reports, a
\* resolution is undone only by a step checked before it, and nothing is taken
\* to L2 by a batch that did not see it at L1.
THEOREM BatchesDoWhatTheyRead == Spec => BatchesDoWhatTheySaw
<1>1. Init => BulkInv
  BY PartsInit, BulkInit
<1>2. BulkInv /\ [Next]_vars => BulkInv'
  BY PartsStep, BulkStep
<1>3. BulkInv => Bulk!ReportedIsOnRecord
  BY DEF BulkInv, BulkCall, Reported, Bulk!ReportedIsOnRecord, Bulk!Call
<1>4. BulkInv /\ [Next]_vars =>
        [\A e \in Tracked : stage[e] = "RESOLVED" /\ stage'[e] # "RESOLVED" =>
           \E b \in Batches : /\ batch[b] # Bulk!Idle /\ batch[b].open[e] # None
                              /\ batch[b].open[e].from # "RESOLVED"]_(Bulk!vars)
  <2>1. \A to : ~Bulk!CanTransition("RESOLVED", to)
    BY DEF Bulk!CanTransition, Bulk!Legal
  <2> QED BY <2>1, PartsStep, StagesAreCommitted DEF OpenStep, Bulk!Permitted
<1>5. BulkInv /\ [Next]_vars =>
        [\A e \in Tracked : stage[e] # "ESCALATED_L2" /\ stage'[e] = "ESCALATED_L2" =>
           \E b \in Batches : Bulk!Call(b, "reescalate") /\ batch[b].read[e] = "ESCALATED_L1"]_(Bulk!vars)
  <2>1. \A s : Bulk!Target(s) = "ESCALATED_L2" /\ Bulk!Target(s) # None => s = "ESCALATED_L1"
    BY DEF Bulk!Target
  <2> QED BY <2>1, PartsStep, StagesAreCommitted DEF OpenStep, Bulk!Permitted, Bulk!Call
<1> QED
  BY <1>1, <1>2, <1>3, <1>4, <1>5, PTL
  DEF Spec, BatchesDoWhatTheySaw, Bulk!BatchesDoWhatTheySaw, Bulk!ReopenedByOverlapOnly, Bulk!OnePressOneRung

\* Auditing the same upload again escalates nobody, importing a directory lowers
\* no level, and who is flagged for the first time starts at L1.
THEOREM LevelsGrowByFindings == Spec => LevelsAreEarned
<1>1. Init => LevelsInv
  BY PartsInit, LevelsInit
<1>2. LevelsInv /\ [Next]_vars => LevelsInv'
  BY PartsStep, LevelsStep
<1>3. LevelsInv /\ [Next]_vars =>
        [LevelsOf!AuditAgain /\ runs # <<>> /\ LevelsOf!Findings(sheet) = runs[Len(runs)]
           => \A k \in entries : LevelsOf!Lines(k)' = LevelsOf!Lines(k)]_(LevelsOf!vars)
  BY RerunsKeep
<1>4. LevelsInv /\ [Next]_vars =>
        [(\E m \in Managers : LevelsOf!List(m)) =>
           \A k \in entries : \A p \in DOMAIN LevelsOf!Lines(k) :
             LevelsOf!Lines(k)[p] <= LevelsOf!Lines(k)'[p]]_(LevelsOf!vars)
  BY ListingsKeep
<1>5. LevelsInv /\ [Next]_vars =>
        [LevelsOf!AuditUpload => \A k \in entries' : \A p \in DOMAIN LevelsOf!Lines(k)' :
           (\A n \in DOMAIN runs : \A i \in runs[n] : i.project = p => i.manager # k[1])
             => LevelsOf!Lines(k)'[p] = 1]_(LevelsOf!vars)
  BY NewcomersStart
<1> QED
  BY <1>1, <1>2, <1>3, <1>4, <1>5, PTL
  DEF Spec, LevelsAreEarned, LevelsOf!LevelsAreEarned, LevelsOf!RerunKeepsLevels, LevelsOf!ListingKeepsLevels,
      LevelsOf!NewcomerStartsAtOne

\* No interleaving, failure or crash loses the bytes of a version, leaves a gap in
\* the numbers, publishes a draft twice or loses it; and overlapping creates and
\* removals of attachments stay within the limit and undo nothing.
THEOREM BytesAndAttachmentsStay == Spec => NothingIsLost
<1> USE ConstantsAreApart
<1>1. Init => VaultInv /\ AttachedInv
  BY PartsInit, VaultInit, AttachedInit
<1>2. VaultInv /\ AttachedInv /\ [Next]_vars => (VaultInv /\ AttachedInv)'
  BY PartsStep, VaultStep, AttachedStep
<1>3. VaultInv /\ AttachedInv => /\ Vault!VersionsHaveBytes /\ Vault!VersionsUnbroken
                                 /\ Vault!PromotedOnce /\ Vault!IdleDraftReadable
  BY InvLosesNothing
<1>4. VaultInv /\ AttachedInv => Attached!LimitHolds
  <2> SUFFICES ASSUME AttachedInv PROVE Attached!LimitHolds
    OBVIOUS
  <2>1. Cardinality(Attached!Active) <= MaxAttachments + Cardinality(Requests) - 1
    BY SetsAreFinite DEF AttachedInv, RoomIsLeft, AttachmentBounds
  <2> QED BY <2>1, SameCount DEF Attached!LimitHolds
<1>5. VaultInv /\ AttachedInv /\ [Next]_vars =>
        [\A f \in Vault!Existing :
           /\ workbook[f].versions[workbook[f].current] = workbook[f].obj
           /\ workbook'[f] # None /\ workbook'[f].versions[workbook'[f].current] # workbook'[f].obj
           => \E s \in Requests : work[s] # Vault!Idle /\ work[s].op = "snapshot"
                                  /\ work'[s] = Vault!Idle]_(Vault!vars)
  BY PartsStep, SnapshotsMayDiffer
<1>6. VaultInv /\ AttachedInv /\ [Next]_vars =>
        [\A i \in DOMAIN attached :
           /\ attached[i].deleted => attached'[i].deleted
           /\ attached'[i].deleted /\ ~attached[i].deleted =>
                \E q \in Requests : /\ attaching[q] # None /\ attaching[q].op = "remove" /\ attaching[q].id = i
                                    /\ attaching[q].user \in Admins \cup {attached[i].uploader}]_(Attached!vars)
  BY PartsStep, DeletedStays
<1> QED
  BY <1>1, <1>2, <1>3, <1>4, <1>5, <1>6, PTL
  DEF Spec, NothingIsLost, Vault!NothingIsLost, Vault!OnlySnapshotsDiffer, Attached!AttachmentsStay,
      Attached!DeletedForGood

\* A run counts what it found, and a comparison of two runs leaves alone what
\* did not change.
THEOREM RunsAndComparisonsAddUp == Spec => []AuditsAddUp
<1> USE ConstantsAreApart
<1>1. Init => FindingsInv
  BY PartsInit, FindingsInit
<1>2. FindingsInv /\ [Next]_vars => FindingsInv'
  BY PartsStep, FindingsStep
<1>3. FindingsInv => AuditsAddUp
  <2>1. FindingsInv => Found!HistoryIsKept
    BY HistoryOfRowsIsKept
  <2>2. FindingsInv => Found!IssuesAddUp
    BY RunAddsUp DEF FindingsInv, Found!IssuesAddUp
  <2> QED BY <2>1, <2>2 DEF AuditsAddUp, Found!AuditsAddUp
<1> QED
  BY <1>1, <1>2, <1>3, PTL DEF Spec

-----------------------------------------------------------------------------
(* The types of all parts.                                                   *)

LevelsTyped == threshold \in Thresholds /\ Len(runs) <= MaxHistory

LEMMA LevelsTypes ==
  ASSUME TypeBounds
  PROVE  /\ LevelsOf!Init => LevelsTyped
         /\ LevelsInv /\ LevelsTyped /\ [LevelsOf!Next]_(LevelsOf!vars) => LevelsTyped'
         /\ LevelsInv /\ LevelsTyped => LevelsOf!TypeOK
<1>1. LevelsOf!Init => LevelsTyped
  BY DEF LevelsOf!Init, LevelsTyped, TypeBounds
<1>2. ASSUME LevelsInv, LevelsTyped, [LevelsOf!Next]_(LevelsOf!vars) PROVE LevelsTyped'
  <2>1. ASSUME NEW found, LevelsOf!Record(found) PROVE Len(runs') <= MaxHistory
    <3>1. Len(runs) \in Nat /\ Len(runs) < MaxHistory /\ runs' = Append(runs, found)
      BY <1>2, <2>1 DEF LevelsOf!Record, LevelsInv
    <3>2. Len(runs') = Len(runs) + 1
      BY <1>2, <3>1 DEF LevelsInv
    <3> QED BY <3>1, <3>2 DEF TypeBounds
  <2> QED
    BY <1>2, <2>1 DEF LevelsTyped, LevelsOf!Next, LevelsOf!vars, LevelsOf!AuditUpload, LevelsOf!AuditAgain,
                      LevelsOf!SetThreshold, LevelsOf!List, LevelsOf!Unlist
<1>3. ASSUME LevelsInv, LevelsTyped PROVE LevelsOf!TypeOK
  BY <1>3 DEF LevelsInv, LevelsTyped, LevelsOf!TypeOK
<1> QED
  BY <1>1, <1>2, <1>3

RegistrationsTyped == Len(rows) <= MaxRows /\ todo \subseteq (Listed \X Managers)

LEMMA AddressTypes ==
  ASSUME TypeBounds
  PROVE  /\ Addressing!Init => RegistrationsTyped
         /\ AddressInv /\ RegistrationsTyped /\ [Addressing!Next]_(Addressing!vars) => RegistrationsTyped'
         /\ AddressInv /\ RegistrationsTyped => Addressing!TypeOK
<1>1. Addressing!Init => RegistrationsTyped
  BY DEF Addressing!Init, RegistrationsTyped, TypeBounds
<1>2. ASSUME AddressInv, RegistrationsTyped, [Addressing!Next]_(Addressing!vars) PROVE RegistrationsTyped'
  <2>1. ASSUME NEW row \in Addressing!Rows, Addressing!HandRow(row) PROVE RegistrationsTyped'
    <3>1. Len(rows) \in Nat /\ Len(rows) < MaxRows /\ rows' = Append(rows, row) /\ todo' = todo
      BY <1>2, <2>1 DEF Addressing!HandRow, AddressInv, AddressTyped
    <3>2. Len(rows') = Len(rows) + 1
      BY <1>2, <3>1 DEF AddressInv, AddressTyped
    <3> QED BY <1>2, <3>1, <3>2 DEF TypeBounds, RegistrationsTyped
  <2>2. CASE Addressing!MapAddress
    BY <1>2, <2>2 DEF Addressing!MapAddress, RegistrationsTyped
  <2>3. CASE UNCHANGED Addressing!vars \/ Addressing!Join \/ Addressing!Resolve
             \/ \E e \in Listed, m \in Managers : Addressing!Register(e, m)
    BY <1>2, <2>3 DEF RegistrationsTyped, Addressing!vars, Addressing!Join, Addressing!Resolve,
                      Addressing!Register
  <2> QED BY <1>2, <2>1, <2>2, <2>3 DEF Addressing!Next
<1>3. ASSUME AddressInv, RegistrationsTyped PROVE Addressing!TypeOK
  BY <1>3 DEF AddressInv, AddressTyped, RegistrationsTyped, Addressing!TypeOK, Addressing!Rows
<1> QED
  BY <1>1, <1>2, <1>3

BulkCalls ==
  [kind : Bulk!AllKinds, left : SUBSET Tracked, read : [Tracked -> Bulk!Stages], had : [Tracked -> Nat],
   open : [Tracked -> [from : Bulk!Stages, to : Bulk!Stages] \cup {None}],
   result : [Tracked -> {"applied", "skipped", "failed", None}]]

BulkTyped ==
  /\ stage \in [Tracked -> Bulk!Stages] /\ reachable \in [Tracked -> BOOLEAN]
  /\ batch \in [Batches -> BulkCalls \cup {Bulk!Idle}]
  /\ log \in [Tracked -> Seq({"prepared", "skipped", "failed"})]
  /\ ticks \in [Tracked -> Nat]

LEMMA IdleIsNoCall == Bulk!Idle \notin BulkCalls
BY DEF Bulk!Idle, BulkCalls, Bulk!AllKinds

LEMMA DoneKeepsType ==
  ASSUME BulkTyped, NEW b \in Batches, batch[b] # Bulk!Idle, NEW e \in Tracked,
         NEW outcome \in {"applied", "skipped", "failed"}, Bulk!Done(b, e, outcome)
  PROVE  batch' \in [Batches -> BulkCalls \cup {Bulk!Idle}]
<1>1. PICK c \in BulkCalls : c = batch[b]
  BY DEF BulkTyped
<1>2. PICK d : d = [[[c EXCEPT !.left = c.left \ {e}]
                        EXCEPT !.open = [c.open EXCEPT ![e] = None]]
                        EXCEPT !.result = [c.result EXCEPT ![e] = outcome]]
  OBVIOUS
<1>3. d \in BulkCalls
  BY <1>1, <1>2 DEF BulkCalls
<1>4. batch' = [batch EXCEPT ![b] = d]
  BY <1>1, <1>2 DEF Bulk!Done, BulkCalls
<1> QED
  BY <1>3, <1>4 DEF BulkTyped

LEMMA BulkTypes ==
  ASSUME TypeBounds
  PROVE  /\ Bulk!Init => BulkTyped
         /\ BulkTyped /\ [Bulk!Next]_(Bulk!vars) => BulkTyped'
         /\ BulkTyped => Bulk!TypeOK
<1>1. Bulk!Init => BulkTyped
  BY DEF Bulk!Init, BulkTyped, TypeBounds
<1>2. ASSUME BulkTyped, [Bulk!Next]_(Bulk!vars) PROVE BulkTyped'
  <2>0. CASE UNCHANGED Bulk!vars
    BY <1>2, <2>0 DEF Bulk!vars, BulkTyped, BulkCalls
  <2>1. ASSUME NEW b \in Batches, NEW kind \in Bulk!AllKinds, NEW chosen \in SUBSET Tracked,
               Bulk!Read(b, kind, chosen)
        PROVE  BulkTyped'
    <3>1. PICK new : new = [kind |-> kind, left |-> chosen, read |-> stage,
                            had |-> [e \in Tracked |-> Len(log[e])], open |-> Bulk!NoneYet,
                            result |-> Bulk!NoneYet]
      OBVIOUS
    <3>2. [e \in Tracked |-> Len(log[e])] \in [Tracked -> Nat]
      BY <1>2 DEF BulkTyped
    <3>3. new \in BulkCalls
      BY <1>2, <3>1, <3>2 DEF BulkCalls, BulkTyped, Bulk!NoneYet
    <3>4. batch' = [batch EXCEPT ![b] = new] /\ UNCHANGED <<stage, reachable, log>>
          /\ ticks' = [e \in Tracked |-> IF e \in chosen THEN ticks[e] + 1 ELSE ticks[e]]
      BY <2>1, <3>1 DEF Bulk!Read
    <3>5. ticks' \in [Tracked -> Nat]
      BY <1>2, <3>4 DEF BulkTyped
    <3>6. batch' \in [Batches -> BulkCalls \cup {Bulk!Idle}]
      BY <1>2, <3>3, <3>4 DEF BulkTyped
    <3> QED BY <1>2, <3>4, <3>5, <3>6 DEF BulkTyped
  <2>2. ASSUME NEW b \in Batches, Bulk!Check(b) PROVE BulkTyped'
    <3>1. PICK e \in Bulk!Turn(b) :
            IF Bulk!Permitted(stage[e], Bulk!Asked(b, e))
              THEN batch' = [batch EXCEPT ![b].open[e] = [from |-> stage[e], to |-> Bulk!Asked(b, e)]]
              ELSE Bulk!Done(b, e, IF Bulk!Call(b, "resolve") THEN "failed" ELSE "skipped")
      BY <2>2 DEF Bulk!Check
    <3>2. batch[b] # Bulk!Idle /\ UNCHANGED <<stage, reachable, log, ticks>>
      BY <2>2 DEF Bulk!Check
    <3>3. PICK c \in BulkCalls : c = batch[b]
      BY <1>2, <3>2 DEF BulkTyped
    <3>4. e \in Tracked
      BY <3>3 DEF Bulk!Turn, BulkCalls
    <3>5. CASE ~Bulk!Permitted(stage[e], Bulk!Asked(b, e))
      <4>1. batch' \in [Batches -> BulkCalls \cup {Bulk!Idle}]
        BY <1>2, <3>1, <3>2, <3>4, <3>5, DoneKeepsType
      <4> QED BY <1>2, <3>2, <4>1 DEF BulkTyped
    <3>6. CASE Bulk!Permitted(stage[e], Bulk!Asked(b, e))
      <4>1. Bulk!Asked(b, e) \in Bulk!Stages /\ stage[e] \in Bulk!Stages
        BY <1>2, <3>4, <3>6 DEF BulkTyped, Bulk!Permitted, Bulk!Asked, Bulk!PickReescalationTarget,
                                Bulk!Target, Bulk!Stages
      <4>2. PICK step \in [from : Bulk!Stages, to : Bulk!Stages] :
              step = [from |-> stage[e], to |-> Bulk!Asked(b, e)]
        BY <4>1
      <4>3. PICK d : d = [c EXCEPT !.open = [c.open EXCEPT ![e] = step]]
        OBVIOUS
      <4>4. d \in BulkCalls
        BY <3>3, <4>2, <4>3 DEF BulkCalls
      <4>5. batch' = [batch EXCEPT ![b] = d]
        BY <3>1, <3>3, <3>6, <4>2, <4>3
      <4>6. batch' \in [Batches -> BulkCalls \cup {Bulk!Idle}]
        BY <1>2, <4>4, <4>5 DEF BulkTyped
      <4> QED BY <1>2, <3>2, <4>6 DEF BulkTyped
    <3> QED BY <3>5, <3>6
  <2>3. ASSUME NEW b \in Batches, Bulk!Broadcast(b) PROVE BulkTyped'
    <3>1. PICK e \in batch[b].left :
            \/ \E outcome \in {"skipped", "prepared", "failed"}, result \in {"skipped", "applied", "failed"} :
                 Bulk!Record(e, outcome) /\ Bulk!Done(b, e, result)
            \/ UNCHANGED log /\ batch' = [batch EXCEPT ![b] = Bulk!Idle]
      BY <2>3 DEF Bulk!Broadcast
    <3>2. batch[b] # Bulk!Idle /\ UNCHANGED <<stage, reachable, ticks>>
      BY <2>3 DEF Bulk!Broadcast, Bulk!Call
    <3>3. e \in Tracked
      BY <1>2, <3>2 DEF BulkTyped, BulkCalls
    <3>4. ASSUME NEW outcome \in {"skipped", "prepared", "failed"}, Bulk!Record(e, outcome)
          PROVE  log' \in [Tracked -> Seq({"prepared", "skipped", "failed"})]
      <4>1. log[e] \in Seq({"prepared", "skipped", "failed"})
        BY <1>2, <3>3 DEF BulkTyped
      <4>2. Append(log[e], outcome) \in Seq({"prepared", "skipped", "failed"})
        BY <4>1
      <4> QED BY <1>2, <3>4, <4>2 DEF Bulk!Record, BulkTyped
    <3>5. CASE UNCHANGED log /\ batch' = [batch EXCEPT ![b] = Bulk!Idle]
      BY <1>2, <3>2, <3>5 DEF BulkTyped
    <3>6. ASSUME NEW outcome \in {"skipped", "prepared", "failed"}, NEW result \in {"skipped", "applied", "failed"},
                 Bulk!Record(e, outcome), Bulk!Done(b, e, result)
          PROVE  BulkTyped'
      <4>1. batch' \in [Batches -> BulkCalls \cup {Bulk!Idle}]
        BY <1>2, <3>2, <3>3, <3>6, DoneKeepsType
      <4> QED BY <1>2, <3>2, <3>4, <3>6, <4>1 DEF BulkTyped
    <3> QED BY <3>1, <3>5, <3>6
  <2>4. ASSUME NEW b \in Batches, Bulk!Answer(b) PROVE BulkTyped'
    BY <1>2, <2>4 DEF Bulk!Answer, BulkTyped
  <2>5. ASSUME NEW b \in Batches, NEW e \in Tracked, Bulk!Commit(b, e) PROVE BulkTyped'
    <3>1. batch[b] # Bulk!Idle /\ batch[b].open[e] # None /\ UNCHANGED <<reachable, log, ticks>>
          /\ stage' = [stage EXCEPT ![e] = batch[b].open[e].to] /\ Bulk!Done(b, e, "applied")
      BY <2>5 DEF Bulk!Commit
    <3>2. batch[b].open[e].to \in Bulk!Stages
      <4>1. batch[b].open[e] \in [from : Bulk!Stages, to : Bulk!Stages]
        BY <1>2, <3>1 DEF BulkTyped, BulkCalls
      <4> QED BY <4>1
    <3>3. batch' \in [Batches -> BulkCalls \cup {Bulk!Idle}]
      BY <1>2, <3>1, DoneKeepsType
    <3> QED BY <1>2, <3>1, <3>2, <3>3 DEF BulkTyped
  <2> QED
    BY <1>2, <2>0, <2>1, <2>2, <2>3, <2>4, <2>5 DEF Bulk!Next
<1>3. ASSUME BulkTyped PROVE Bulk!TypeOK
  BY <1>3 DEF BulkTyped, BulkCalls, Bulk!TypeOK
<1> QED
  BY <1>1, <1>2, <1>3

SettingsTyped == limit \in Limits /\ uploads \in 0..MaxUploads

LEMMA FindingsTypes ==
  ASSUME TypeBounds
  PROVE  /\ Found!Init => SettingsTyped
         /\ SettingsTyped /\ [Found!Next]_(Found!vars) => SettingsTyped'
         /\ FindingsInv /\ SettingsTyped => Found!TypeOK
<1>1. Found!Init => SettingsTyped
  BY DEF Found!Init, SettingsTyped, TypeBounds
<1>2. ASSUME SettingsTyped, [Found!Next]_(Found!vars) PROVE SettingsTyped'
  <2>1. Found!Changing => uploads' \in 0..MaxUploads
    BY <1>2 DEF Found!Changing, SettingsTyped, TypeBounds
  <2>2. ASSUME NEW d \in Limits, Found!SetLimit(d) PROVE SettingsTyped'
    BY <2>1, <2>2 DEF Found!SetLimit, SettingsTyped
  <2>3. ASSUME NEW s \in Tabs,
               \/ \E r \in Found!RowsOf(engine) \cup {Found!Blank} : Found!Write(s, r)
               \/ \E i \in 1..Len(file[s]) + 1, r \in Found!RowsOf(engine) : Found!Insert(s, i, r)
               \/ \E i \in DOMAIN file[s] :
                    Found!TakeOut(s, i) \/ \E c \in Found!Cells[engine] : Found!Correct(s, i, c)
        PROVE  SettingsTyped'
    BY <1>2, <2>1, <2>3 DEF Found!Write, Found!Insert, Found!TakeOut, Found!Correct, SettingsTyped
  <2>4. CASE UNCHANGED Found!vars \/ Found!Audit \/ \E sheets \in SUBSET Tabs : Found!Select(sheets)
    BY <1>2, <2>1, <2>4 DEF Found!vars, Found!Audit, Found!Select, SettingsTyped
  <2> QED BY <1>2, <2>2, <2>3, <2>4 DEF Found!Next
<1>3. ASSUME FindingsInv, SettingsTyped PROVE Found!TypeOK
  <2>1. file \in [Tabs -> Seq(Found!RowsOf(engine) \cup {Found!Blank})] /\ engine \in AuditedBy
        /\ selected \subseteq Tabs
    BY <1>3 DEF FindingsInv, FileTyped, FilesOf
  <2>2. \A s \in Tabs : \A i \in DOMAIN file[s] : file[s][i] \in Found!RowsOf(engine) \cup {Found!Blank}
    <3> SUFFICES ASSUME NEW s \in Tabs, NEW i \in DOMAIN file[s]
                 PROVE  file[s][i] \in Found!RowsOf(engine) \cup {Found!Blank}
      OBVIOUS
    <3>1. file[s] \in Seq(Found!RowsOf(engine) \cup {Found!Blank})
      BY <2>1
    <3> QED BY <3>1
  <2> QED BY <1>3, <2>1, <2>2 DEF SettingsTyped, Found!TypeOK
<1> QED
  BY <1>1, <1>2, <1>3

\* What deletions leave is what there was, and their logs.
LEMMA RecordTypes ==
  /\ Init => records \subseteq Deletions!AllRows
  /\ records \subseteq Deletions!AllRows /\ [Next]_vars => records' \subseteq Deletions!AllRows
<1>1. Init => records \subseteq Deletions!AllRows
  BY DEF Init, Deletions!Init
<1>2. ASSUME records \subseteq Deletions!AllRows, [Next]_vars PROVE records' \subseteq Deletions!AllRows
  <2>1. \A R, S : Deletions!Without(R, S) \subseteq R
    BY DEF Deletions!Without
  <2>2. \A p \in Owners \cup {None} : Deletions!LogRow(p, None) \in Deletions!AllRows
    BY DEF Deletions!AllRows, Deletions!LogRows
  <2>3. CASE UNCHANGED records
    BY <1>2, <2>3
  <2>4. ASSUME NEW p \in Owners, Deletions!DeleteProcess(p) PROVE records' \subseteq Deletions!AllRows
    BY <1>2, <2>1, <2>2, <2>4 DEF Deletions!DeleteProcess
  <2>5. ASSUME NEW b \in {"x", "z"}, Deletions!DeleteFile(b) PROVE records' \subseteq Deletions!AllRows
    <3>1. PICK p : p = IF b = "z" THEN "q" ELSE "p"
      OBVIOUS
    <3>2. <<"WorkbookFile", p, b>> \in records
          /\ \E R1, R2, R3 : /\ R1 \subseteq records /\ R2 \subseteq R1 /\ R3 \subseteq R2
                           /\ records' \subseteq R3 \cup {Deletions!LogRow(p, b)}
      BY <2>1, <2>5, <3>1 DEF Deletions!DeleteFile
    <3>3. Deletions!LogRow(p, b) \in Deletions!AllRows
      <4>1. p \in Owners \cup {None}
        <5>1. <<"WorkbookFile", p, b>> \in Deletions!AllRows
          BY <1>2, <3>2
        <5> QED BY <5>1 DEF Deletions!AllRows, Deletions!SharedRows, Deletions!RowsOf, Deletions!LogRows,
                            Deletions!LogRow
      <4> QED BY <4>1 DEF Deletions!AllRows, Deletions!LogRows
    <3> QED BY <1>2, <3>2, <3>3
  <2>6. ASSUME NEW table, NEW p \in Owners, Deletions!DeleteOne(table, p)
        PROVE  records' \subseteq Deletions!AllRows
    BY <1>2, <2>1, <2>2, <2>6 DEF Deletions!DeleteOne
  <2>7. CASE Deletions!DeleteManager \/ Deletions!ReapSessions
    BY <1>2, <2>1, <2>2, <2>7 DEF Deletions!DeleteManager, Deletions!ReapSessions
  <2>8. CASE Deletions!Next
    BY <2>4, <2>5, <2>6, <2>7, <2>8 DEF Deletions!Next
  <2> QED BY <1>2, <2>3, <2>8 DEF Next, vars
<1> QED
  BY <1>1, <1>2

LEMMA VaultTypes ==
  ASSUME VaultBounds
  PROVE  /\ Vault!Init => faulty \in BOOLEAN
         /\ faulty \in BOOLEAN /\ [Vault!Next]_(Vault!vars) => faulty' \in BOOLEAN
         /\ VaultInv /\ faulty \in BOOLEAN => Vault!TypeOK
<1>1. Vault!Init => faulty \in BOOLEAN
  BY DEF Vault!Init
<1>2. ASSUME faulty \in BOOLEAN, [Vault!Next]_(Vault!vars) PROVE faulty' \in BOOLEAN
  <2> DEFINE P == faulty' = faulty \/ faulty' = TRUE
  <2>1. (UNCHANGED faulty => P) /\ (faulty' = TRUE => P)
    OBVIOUS
  <2>2. /\ Vault!Crash => P
        /\ \A f \in 1..MaxFiles : Vault!DeleteFile(f) => P
        /\ \A o \in Vault!Objects : Vault!DeleteObject(o) => P
        /\ UNCHANGED Vault!vars => P
    BY <2>1, Zenon DEF Vault!Crash, Vault!DeleteFile, Vault!DeleteObject, Vault!vars
  <2>3. ASSUME NEW s \in Requests PROVE
          /\ (\E op \in FileOps : Vault!Begin(s, op)) => P
          /\ Vault!Put(s) \/ Vault!Fail(s) \/ Vault!Upload(s) \/ Vault!DoomDraft(s) => P
          /\ Vault!SaveDraft(s) \/ Vault!DiscardDraft(s) \/ Vault!ReadDraft(s) \/ Vault!PickTarget(s) => P
          /\ Vault!Promote(s) \/ Vault!PromoteRollsBack(s) \/ Vault!ReadFile(s) \/ Vault!ReadMax(s) => P
          /\ Vault!Snapshot(s) \/ Vault!SnapshotRollsBack(s) => P
    BY <2>1, Zenon DEF Vault!Begin, Vault!Put, Vault!Fail, Vault!Upload, Vault!DoomDraft, Vault!SaveDraft,
         Vault!DiscardDraft, Vault!ReadDraft, Vault!PickTarget, Vault!Promote, Vault!PromoteRollsBack,
         Vault!ReadFile, Vault!ReadMax, Vault!Snapshot, Vault!SnapshotRollsBack, Vault!Done
  <2>4. P
    BY <1>2, <2>2, <2>3 DEF Vault!Next
  <2> QED BY <1>2, <2>4
<1>3. ASSUME VaultInv, faulty \in BOOLEAN PROVE Vault!TypeOK
  <2>1. stored \subseteq Vault!Objects /\ doomed \subseteq Vault!Objects
    BY <1>3 DEF VaultInv, VaultTyped, VaultBounds, Vault!Objects
  <2>2. ASSUME NEW f \in 1..MaxFiles, workbook[f] # None
        PROVE  /\ DOMAIN workbook[f] = {"current", "obj", "versions"}
               /\ workbook[f].current \in Nat /\ workbook[f].obj \in Vault!Objects
               /\ \A n \in DOMAIN workbook[f].versions : workbook[f].versions[n] \in Vault!Objects
    BY <1>3, <2>1, <2>2 DEF VaultInv, FilesAreSound, Safe
  <2> QED BY <1>3, <2>1, <2>2 DEF VaultInv, VaultTyped, Vault!TypeOK
<1> QED
  BY <1>1, <1>2, <1>3

LEMMA AttachedTypes ==
  ASSUME TypeBounds
  PROVE  /\ Attached!Init => DOMAIN attached \subseteq Attached!Ids
         /\ AttachedInv /\ DOMAIN attached \subseteq Attached!Ids /\ [Attached!Next]_(Attached!vars)
              => DOMAIN attached' \subseteq Attached!Ids
         /\ AttachedInv /\ DOMAIN attached \subseteq Attached!Ids => Attached!TypeOK
<1>1. Attached!Init => DOMAIN attached \subseteq Attached!Ids
  BY DEF Attached!Init
<1>2. ASSUME AttachedInv, DOMAIN attached \subseteq Attached!Ids, [Attached!Next]_(Attached!vars)
      PROVE  DOMAIN attached' \subseteq Attached!Ids
  <2>1. ASSUME NEW q \in Requests, Attached!Insert(q) PROVE DOMAIN attached' \subseteq Attached!Ids
    <3>1. PICK id \in Attached!Ids : DOMAIN attached' = 1..id
      BY <2>1 DEF Attached!Insert
    <3> QED BY <3>1 DEF Attached!Ids, TypeBounds
  <2>2. ASSUME NEW q \in Requests, Attached!Remove(q) \/ Attached!Patch(q)
        PROVE  DOMAIN attached' = DOMAIN attached
    BY <2>2 DEF Attached!Remove, Attached!Patch
  <2>3. ASSUME NEW q \in Requests,
               \/ \E u \in Users : Attached!Count(q, u)
                    \/ \E op \in {"remove", "patch"}, i \in Attached!Ids : Attached!Load(q, u, op, i)
               \/ Attached!Fail(q)
        PROVE  attached' = attached
    BY <2>3 DEF Attached!Count, Attached!Load, Attached!Fail
  <2>4. CASE UNCHANGED Attached!vars
    BY <1>2, <2>4 DEF Attached!vars
  <2> QED BY <1>2, <2>1, <2>2, <2>3, <2>4 DEF Attached!Next
<1>3. ASSUME AttachedInv, DOMAIN attached \subseteq Attached!Ids PROVE Attached!TypeOK
  BY <1>3 DEF AttachedInv, AttachedTyped, Attached!TypeOK
<1> QED
  BY <1>1, <1>2, <1>3

LEMMA AuditTypes == AuditInv => Runs!TypeOK
<1> SUFFICES ASSUME AuditInv PROVE Runs!TypeOK
  OBVIOUS
<1>1. ASSUME NEW r \in Requests
      PROVE  \/ request[r] = Runs!Idle
             \/ /\ request[r].pc \in {"loaded", "drawn", "read"}
                /\ request[r].engine \in Engines /\ request[r].open \in Runs!Findings
             \/ request[r].pc = "edit" /\ request[r].prior \in AuditRows
  BY AuditPhases DEF AuditInv
<1> QED
  BY <1>1 DEF AuditInv, AuditTyped, AuditRows, Runs!TypeOK

FocusTyped ==
  focus \in {"audit", "levels", "addressing", "bulk", "codes", "findings", "records", "vault", "attachments"}

TypeInv ==
  /\ FocusTyped /\ LevelsTyped /\ RegistrationsTyped /\ BulkTyped /\ SettingsTyped
  /\ records \subseteq Deletions!AllRows /\ faulty \in BOOLEAN /\ DOMAIN attached \subseteq Attached!Ids

PartsInv ==
  /\ AuditInv /\ LevelsInv /\ AddressInv /\ CodeInv /\ FindingsInv /\ VaultInv /\ AttachedInv

\* Every view of the tables keeps its types: rows, versions, runs, codes and
\* settings, and what each request under way holds of them.
THEOREM TablesKeepTheirTypes == Spec => []TypeOK
<1> USE ConstantsAreApart
<1>1. Init => PartsInv
  BY PartsInit, AuditInit, LevelsInit, AddressInit, CodeInit, FindingsInit, VaultInit, AttachedInit
     DEF PartsInv
<1>2. PartsInv /\ [Next]_vars => PartsInv'
  BY PartsStep, AuditStep, LevelsStep, AddressStep, CodeStep, FindingsStep, VaultStep, AttachedStep
     DEF PartsInv
<1>3. Init => TypeInv
  BY PartsInit, LevelsTypes, AddressTypes, BulkTypes, FindingsTypes, RecordTypes, VaultTypes,
     AttachedTypes DEF Init, TypeInv, FocusTyped
<1>4. PartsInv /\ TypeInv /\ [Next]_vars => TypeInv'
  <2> SUFFICES ASSUME PartsInv, TypeInv, [Next]_vars PROVE TypeInv'
    OBVIOUS
  <2>1. FocusTyped'
    BY DEF TypeInv, FocusTyped, Next, vars
  <2> QED
    BY <2>1, PartsStep, LevelsTypes, AddressTypes, BulkTypes, FindingsTypes, RecordTypes, VaultTypes,
       AttachedTypes DEF PartsInv, TypeInv
<1>5. PartsInv /\ TypeInv => TypeOK
  <2> SUFFICES ASSUME PartsInv, TypeInv PROVE TypeOK
    OBVIOUS
  <2>1. Runs!TypeOK /\ LevelsOf!TypeOK /\ Addressing!TypeOK /\ Bulk!TypeOK
    BY AuditTypes, LevelsTypes, AddressTypes, BulkTypes DEF PartsInv, TypeInv
  <2>2. Codes!TypeOK /\ Found!TypeOK /\ Deletions!TypeOK /\ Vault!TypeOK /\ Attached!TypeOK
    BY FindingsTypes, VaultTypes, AttachedTypes DEF PartsInv, TypeInv, CodeInv, Deletions!TypeOK
  <2> QED BY <2>1, <2>2 DEF TypeOK, TypeInv, FocusTyped
<1> QED
  BY <1>1, <1>2, <1>3, <1>4, <1>5, PTL DEF Spec

=============================================================================
