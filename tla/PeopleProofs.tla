------------------------------ MODULE PeopleProofs ------------------------------
(***************************************************************************)
(* The people around a process, for any number of users, requests, editors *)
(* and fields.                                                             *)
(***************************************************************************)
EXTENDS MCPeople, FiniteSetTheorems, SequenceTheorems, TLAPS

\* Each part takes its own steps, or none.
LEMMA PartsInit ==
  Init => Members!Init /\ Record!Init /\ Watching!Init /\ Preferences!Init /\ Listed!Init
BY DEF Init

LEMMA PartsStep ==
  [Next]_vars => /\ [Members!Next]_(Members!vars) /\ [Record!Next]_(Record!vars)
                 /\ [Watching!Next]_(Watching!vars)
                 /\ [Preferences!Next]_(Preferences!vars) /\ [Listed!Next]_(Listed!vars)
BY DEF Next, vars, members, record, watching, preferences, directory, Members!vars, Record!vars,
       Watching!vars, Watching!browser, Watching!server, Preferences!vars, Listed!vars

-----------------------------------------------------------------------------
(* The process row                                                           *)

\* A version number is given once: whoever holds a copy with the version of the
\* row holds the row, and nobody holds a later one.
IsOld(known) ==
  row # Gone => known.version <= row.version /\ (known.version = row.version => known = row)

KnownIsOld ==
  \A e \in Editors :
    /\ IsOld(copy[e]) /\ IsOld(base[e])
    /\ save[e].pc \in {"read", "answered"} => IsOld(save[e].cur)

\* The row read in the transaction is no older than the copy the save was made
\* on, unless the row is gone.
ReadIsNewer ==
  row # Gone =>
    \A e \in Editors : save[e].pc = "read" => base[e].version <= save[e].cur.version

RecordInv == Record!TypeOK /\ KnownIsOld /\ ReadIsNewer

LEMMA RecordInit == Record!Init => RecordInv
<1> SUFFICES ASSUME Record!Init PROVE RecordInv
  OBVIOUS
<1>1. PICK v \in Values : row = [version |-> 1, data |-> [f \in Fields |-> v]]
  BY DEF Record!Init
<1>2. row \in Record!Rows
  BY <1>1 DEF Record!Rows
<1> QED
  BY <1>2 DEF Record!Init, RecordInv, Record!TypeOK, KnownIsOld, IsOld, ReadIsNewer, Record!NoSave

-----------------------------------------------------------------------------
(* What each step leaves of the invariant. *)

LEMMA PatchValues ==
  ASSUME NEW patch \in Record!Patches, NEW f \in DOMAIN patch
  PROVE  patch[f] \in Values
<1>1. CASE patch \in [{"policy"} -> Values]
  BY <1>1
<1>2. CASE \E mentioned \in SUBSET (Fields \ {"policy"}) : patch \in [mentioned -> Values]
  BY <1>2
<1> QED
  BY <1>1, <1>2 DEF Record!Patches

LEMMA WrittenIsData ==
  ASSUME Record!TypeOK, NEW e \in Editors, save[e].pc = "read", row # Gone
  PROVE  Record!Written(e) \in [Fields -> Values]
<1>1. save[e] \in [pc : {"read", "answered"}, patch : Record!Patches, cur : Record!Rows]
  BY DEF Record!TypeOK, Record!Saves, Record!NoSave
<1>2. save[e].patch \in Record!Patches /\ save[e].cur \in Record!Rows /\ row \in Record!Rows
  BY <1>1 DEF Record!TypeOK
<1>3. \A f \in DOMAIN save[e].patch : save[e].patch[f] \in Values
  BY <1>2, PatchValues
<1> QED
  BY <1>2, <1>3 DEF Record!Written, Record!Rows

LEMMA RecordStep == RecordInv /\ [Record!Next]_(Record!vars) => RecordInv'
<1> SUFFICES ASSUME RecordInv, [Record!Next]_(Record!vars) PROVE RecordInv'
  OBVIOUS
<1> USE DEF RecordInv
<1>1. CASE Record!Delete
  BY <1>1 DEF Record!Delete, Record!TypeOK, KnownIsOld, IsOld, ReadIsNewer
<1>2. ASSUME NEW e \in Editors, Record!Load(e) PROVE RecordInv'
  <2>1. Record!TypeOK'
    BY <1>2 DEF Record!Load, Record!TypeOK
  <2>2. KnownIsOld'
    BY <1>2 DEF Record!Load, Record!TypeOK, KnownIsOld, IsOld, Record!Rows
  <2>3. ReadIsNewer'
    BY <1>2 DEF Record!Load, ReadIsNewer
  <2> QED BY <2>1, <2>2, <2>3
<1>3. ASSUME NEW e \in Editors, NEW patch \in Record!Patches, Record!Submit(e, patch) PROVE RecordInv'
  <2>1. Record!TypeOK'
    BY <1>3 DEF Record!Submit, Record!TypeOK, Record!Saves
  <2>2. KnownIsOld'
    BY <1>3 DEF Record!Submit, Record!TypeOK, KnownIsOld, IsOld
  <2>3. ReadIsNewer'
    BY <1>3 DEF Record!Submit, Record!TypeOK, ReadIsNewer
  <2> QED BY <2>1, <2>2, <2>3
<1>4. ASSUME NEW e \in Editors, Record!ReadRow(e) PROVE RecordInv'
  <2>1. save[e].patch \in Record!Patches
    BY <1>4 DEF Record!ReadRow, Record!TypeOK, Record!Saves, Record!NoSave
  <2>2. Record!TypeOK'
    BY <1>4, <2>1 DEF Record!ReadRow, Record!TypeOK, Record!Saves
  <2>3. KnownIsOld'
    BY <1>4 DEF Record!ReadRow, Record!TypeOK, KnownIsOld, IsOld, Record!Rows, Record!NoSave
  <2>4. ReadIsNewer'
    BY <1>4 DEF Record!ReadRow, Record!TypeOK, KnownIsOld, IsOld, ReadIsNewer, Record!NoSave
  <2> QED BY <2>2, <2>3, <2>4
<1>5. ASSUME NEW e \in Editors, Record!Accept(e) PROVE RecordInv'
  <2>1. row \in Record!Rows /\ row' \in Record!Rows /\ row'.version = row.version + 1
    BY <1>5, WrittenIsData DEF Record!Accept, Record!TypeOK, Record!Rows
  <2>2. save[e].patch \in Record!Patches
    BY <1>5 DEF Record!Accept, Record!TypeOK, Record!Saves, Record!NoSave
  <2>3. Record!TypeOK'
    BY <1>5, <2>1, <2>2 DEF Record!Accept, Record!TypeOK, Record!Saves
  <2>4. KnownIsOld'
    BY <1>5, <2>1 DEF Record!Accept, Record!TypeOK, KnownIsOld, IsOld, Record!Rows, Record!Saves, Record!NoSave
  <2>5. ReadIsNewer'
    BY <1>5, <2>1 DEF Record!Accept, Record!TypeOK, ReadIsNewer
  <2> QED BY <2>3, <2>4, <2>5
<1>6. ASSUME NEW e \in Editors, Record!Refuse(e) \/ Record!Answer(e) \/ Record!LoseAnswer(e) PROVE RecordInv'
  <2>1. save[e].pc = "answered" => save[e].cur \in Record!Rows
    BY DEF Record!TypeOK, Record!Saves, Record!NoSave
  <2>2. Record!TypeOK'
    BY <1>6, <2>1 DEF Record!Refuse, Record!Answer, Record!LoseAnswer, Record!TypeOK
  <2>3. KnownIsOld'
    BY <1>6 DEF Record!Refuse, Record!Answer, Record!LoseAnswer, Record!TypeOK, KnownIsOld, IsOld, Record!NoSave
  <2>4. ReadIsNewer'
    BY <1>6 DEF Record!Refuse, Record!Answer, Record!LoseAnswer, Record!TypeOK, ReadIsNewer, Record!NoSave
  <2> QED BY <2>2, <2>3, <2>4
<1>7. CASE UNCHANGED Record!vars
  BY <1>7 DEF Record!vars, Record!TypeOK, KnownIsOld, IsOld, ReadIsNewer
<1> QED
  BY <1>1, <1>2, <1>3, <1>4, <1>5, <1>6, <1>7 DEF Record!Next

\* A save that is let through was made on the row it replaces, and what the
\* row read in its transaction supplies is no other row's.
LEMMA AcceptedIsCurrent ==
  ASSUME RecordInv, NEW e \in Editors, Record!Accept(e)
  PROVE  base[e] = row /\ save[e].cur = row
<1>1. save[e].cur \in Record!Rows /\ base[e] \in Record!Rows /\ row \in Record!Rows
  BY DEF Record!Accept, RecordInv, Record!TypeOK, Record!Saves, Record!NoSave
<1> QED
  BY <1>1 DEF Record!Accept, RecordInv, KnownIsOld, IsOld, ReadIsNewer, Record!Rows

\* The patch as VersionedRow knows it.
LEMMA PatchApplies ==
  ASSUME RecordInv, NEW e \in Editors, Record!Accept(e)
  PROVE  \E patch \in Record!VR!Patches : Record!Written(e) = Record!VR!Apply(row.data, patch)
<1> DEFINE given == save[e].patch
           patch == [f \in Fields \cap DOMAIN given |-> given[f]]
<1>1. given \in Record!Patches
  BY DEF Record!Accept, RecordInv, Record!TypeOK, Record!Saves, Record!NoSave
<1>2. \A f \in DOMAIN given : given[f] \in Values
  BY <1>1, PatchValues
<1>3. patch \in Record!VR!Patches
  <2>1. Fields \cap DOMAIN given \in SUBSET Fields
    OBVIOUS
  <2>2. patch \in [Fields \cap DOMAIN given -> Values]
    BY <1>2
  <2> QED
    BY <2>1, <2>2 DEF Record!VR!Patches
<1>4. Record!Written(e) = Record!VR!Apply(row.data, patch)
  BY AcceptedIsCurrent DEF Record!Written, Record!VR!Apply
<1> QED
  BY <1>3, <1>4

LEMMA RecordMapsInit == Record!Init => Record!VR!Init
<1> SUFFICES ASSUME Record!Init PROVE Record!VR!Init
  OBVIOUS
<1>1. PICK v \in Values : row = [version |-> 1, data |-> [f \in Fields |-> v]]
  BY DEF Record!Init
<1> QED
  BY <1>1 DEF Record!Init, Record!VR!Init, Record!VR!Rows

LEMMA RecordMapsSteps ==
  RecordInv /\ [Record!Next]_(Record!vars) => [Record!VR!Next]_(Record!VR!vars)
<1> SUFFICES ASSUME RecordInv, [Record!Next]_(Record!vars) PROVE [Record!VR!Next]_(Record!VR!vars)
  OBVIOUS
<1>1. CASE Record!Delete
  BY <1>1 DEF Record!Delete, Record!VR!Next, Record!VR!Delete
<1>2. ASSUME NEW e \in Editors, NEW patch \in Record!Patches, Record!Submit(e, patch)
      PROVE  Record!VR!Edit(e)
  BY <1>2 DEF Record!Submit, Record!VR!Edit, RecordInv, Record!TypeOK, Record!Rows, Record!VR!Rows
<1>3. ASSUME NEW e \in Editors, Record!Accept(e) PROVE Record!VR!Save(e)
  <2>1. row' = [version |-> row.version + 1, data |-> Record!Written(e)] /\ row # Gone
        /\ UNCHANGED base
    BY <1>3 DEF Record!Accept
  <2> QED
    BY <1>3, <2>1, AcceptedIsCurrent, PatchApplies DEF Record!VR!Save
<1>4. ASSUME NEW e \in Editors,
             Record!Load(e) \/ Record!ReadRow(e) \/ Record!Refuse(e) \/ Record!Answer(e) \/ Record!LoseAnswer(e)
      PROVE  UNCHANGED <<row, base>>
  BY <1>4 DEF Record!Load, Record!ReadRow, Record!Refuse, Record!Answer, Record!LoseAnswer
<1>5. CASE UNCHANGED Record!vars
  BY <1>5 DEF Record!vars, Record!VR!vars
<1> QED
  BY <1>1, <1>2, <1>3, <1>4, <1>5 DEF Record!Next, Record!VR!Next, Record!VR!vars

-----------------------------------------------------------------------------
(* Preferences                                                               *)

\* The requests that have read the column.
HasRead(s) == request[s].pc \in {"write", "listThenWrite"}

\* What is stored and was not read was stored while the reader was in flight.
MissedIsMarked ==
  \A s \in Slots : HasRead(s) =>
    \A i \in Preferences!Stored :
      s \in during[i] \/ (request[s].seen # None /\ i \in request[s].seen)

PreferencesInv == Preferences!TypeOK /\ MissedIsMarked

LEMMA PreferencesInit == Preferences!Init => PreferencesInv
BY DEF Preferences!Init, PreferencesInv, Preferences!TypeOK, Preferences!Calls, Preferences!Idle,
       MissedIsMarked, Preferences!Stored

LEMMA RequestFields ==
  ASSUME Preferences!TypeOK, NEW s \in Slots, request[s].pc # "idle"
  PROVE  /\ request[s] # Preferences!Idle
         /\ request[s] \in [pc : {"list", "read", "write", "listThenWrite"},
                            adds : SUBSET Preferences!Items, seen : (SUBSET Preferences!Items) \cup {None}]
BY DEF Preferences!TypeOK, Preferences!Calls, Preferences!Idle

LEMMA StoredAreItems == Preferences!TypeOK => Preferences!Stored \subseteq Preferences!Items
BY DEF Preferences!TypeOK, Preferences!Stored

LEMMA BeginKeepsMarks ==
  ASSUME PreferencesInv, NEW s \in Slots, NEW pc \in {"read", "list"},
         NEW adds \in SUBSET Preferences!Items, Preferences!Begin(s, pc, adds)
  PROVE  PreferencesInv'
<1>1. PICK c : c = [pc |-> pc, adds |-> adds, seen |-> None]
  OBVIOUS
<1>2. /\ request' = [request EXCEPT ![s] = c] /\ UNCHANGED <<data, published, during>>
      /\ c \in Preferences!Calls /\ c.pc = pc
  BY <1>1 DEF Preferences!Begin, Preferences!Calls
<1>3. Preferences!TypeOK'
  BY <1>2 DEF PreferencesInv, Preferences!TypeOK
<1>4. MissedIsMarked'
  BY <1>2 DEF PreferencesInv, Preferences!TypeOK, MissedIsMarked, HasRead, Preferences!Stored
<1> QED
  BY <1>3, <1>4 DEF PreferencesInv

LEMMA ReadKeepsMarks ==
  ASSUME PreferencesInv, NEW s \in Slots, Preferences!ReadRow(s) \/ Preferences!ListLog(s)
  PROVE  PreferencesInv'
<1>1. request[s].pc # "idle" /\ UNCHANGED <<data, published, during>>
  BY DEF Preferences!ReadRow, Preferences!ListLog
<1>2. PICK c \in Preferences!Calls \ {Preferences!Idle} : c = request[s]
  BY <1>1, RequestFields DEF PreferencesInv, Preferences!Calls
<1>3. c \in [pc : {"list", "read", "write", "listThenWrite"},
             adds : SUBSET Preferences!Items, seen : (SUBSET Preferences!Items) \cup {None}]
  BY <1>1, <1>2, RequestFields DEF PreferencesInv
<1>4. CASE Preferences!ReadRow(s)
  <2>1. PICK d \in Preferences!Calls :
          /\ request' = [request EXCEPT ![s] = d] /\ d.seen = data
    <3>1. PICK d : d = [c EXCEPT !.seen = data, !.pc = IF c.pc = "read" THEN "write" ELSE "listThenWrite"]
      OBVIOUS
    <3>2. d \in Preferences!Calls /\ d.seen = data
      BY <1>3, <3>1 DEF PreferencesInv, Preferences!TypeOK, Preferences!Calls
    <3>3. request' = [request EXCEPT ![s] = d]
      BY <1>2, <1>4, <3>1 DEF Preferences!ReadRow
    <3> QED BY <3>2, <3>3
  <2>2. Preferences!TypeOK'
    BY <1>1, <2>1 DEF PreferencesInv, Preferences!TypeOK
  <2>3. MissedIsMarked'
    BY <1>1, <2>1 DEF PreferencesInv, Preferences!TypeOK, MissedIsMarked, HasRead, Preferences!Stored
  <2> QED BY <2>2, <2>3 DEF PreferencesInv
<1>5. CASE Preferences!ListLog(s)
  <2>1. PICK d \in Preferences!Calls :
          /\ request' = [request EXCEPT ![s] = d] /\ d.seen = c.seen
          /\ d.pc = "write" => HasRead(s)
          /\ d.pc # "listThenWrite"
    <3>1. PICK d : d = [c EXCEPT !.adds = {"read"} \X published,
                                 !.pc = IF c.pc = "list" THEN "read" ELSE "write"]
      OBVIOUS
    <3>2. {"read"} \X published \in SUBSET Preferences!Items
      BY DEF PreferencesInv, Preferences!TypeOK, Preferences!Items
    <3>3. d \in Preferences!Calls /\ d.seen = c.seen /\ d.pc = (IF c.pc = "list" THEN "read" ELSE "write")
      BY <1>3, <3>1, <3>2 DEF Preferences!Calls
    <3>4. request' = [request EXCEPT ![s] = d] /\ c.pc \in {"list", "listThenWrite"}
      BY <1>2, <1>5, <3>1 DEF Preferences!ListLog
    <3> QED BY <1>2, <3>3, <3>4 DEF HasRead
  <2>2. Preferences!TypeOK'
    BY <1>1, <2>1 DEF PreferencesInv, Preferences!TypeOK
  <2>3. MissedIsMarked'
    BY <1>1, <1>2, <2>1 DEF PreferencesInv, Preferences!TypeOK, MissedIsMarked, HasRead, Preferences!Stored
  <2> QED BY <2>2, <2>3 DEF PreferencesInv
<1> QED
  BY <1>4, <1>5

\* A write marks what it stores with the requests in flight, and takes away
\* only what it had missed.
LEMMA WriteKeepsMarks ==
  ASSUME NoneIsNoData, PreferencesInv, NEW s \in Slots, Preferences!Write(s)
  PROVE  /\ PreferencesInv'
         /\ request[s] # Preferences!Idle /\ request'[s] = Preferences!Idle
         /\ \A i \in Preferences!Stored : i \in Preferences!Stored' \/ s \in during[i]
<1>1. PICK c : c = request[s]
  OBVIOUS
<1>2. /\ c \in [pc : {"list", "read", "write", "listThenWrite"},
                adds : SUBSET Preferences!Items, seen : (SUBSET Preferences!Items) \cup {None}]
      /\ c # Preferences!Idle /\ c.pc = "write"
  BY <1>1, RequestFields DEF PreferencesInv, Preferences!Write
<1> DEFINE lost == c.seen = None /\ data # None
           new == IF c.seen = None THEN c.adds ELSE Preferences!Merged(c)
           others == {t \in Slots \ {s} : request[t] # Preferences!Idle}
<1>3. /\ data' = (IF lost THEN data ELSE new) /\ UNCHANGED published
      /\ during' = [i \in Preferences!Items |->
           (IF ~lost /\ i \in new \ Preferences!Stored THEN others ELSE during[i]) \ {s}]
      /\ request' = [request EXCEPT ![s] = Preferences!Idle]
  BY <1>1 DEF Preferences!Write
<1>4. new \in SUBSET Preferences!Items
  BY <1>2 DEF Preferences!Merged
<1>5. Preferences!Stored \subseteq Preferences!Items
  BY StoredAreItems DEF PreferencesInv
<1> HIDE DEF new
<1>6. Preferences!TypeOK'
  <2>1. request' \in [Slots -> Preferences!Calls]
    BY <1>3 DEF PreferencesInv, Preferences!TypeOK, Preferences!Calls
  <2>2. during' \in [Preferences!Items -> SUBSET Slots]
    BY <1>3 DEF PreferencesInv, Preferences!TypeOK
  <2> QED BY <1>3, <1>4, <2>1, <2>2 DEF PreferencesInv, Preferences!TypeOK
<1>7. \A i \in Preferences!Stored' : i \in Preferences!Items /\ (i \in Preferences!Stored \/ (~lost /\ i \in new))
  BY <1>3, <1>4, <1>5 DEF Preferences!Stored
<1>8. MissedIsMarked'
  <2> SUFFICES ASSUME NEW t \in Slots, HasRead(t)', NEW i \in Preferences!Stored'
               PROVE  t \in during'[i] \/ (request'[t].seen # None /\ i \in request'[t].seen)
    BY DEF MissedIsMarked
  <2>1. t # s /\ request'[t] = request[t]
    BY <1>3 DEF PreferencesInv, Preferences!TypeOK, HasRead, Preferences!Idle
  <2>2. HasRead(t) /\ request[t] # Preferences!Idle
    BY <2>1 DEF HasRead, Preferences!Idle
  <2>3. CASE i \in Preferences!Stored
    BY <1>3, <1>5, <2>1, <2>2, <2>3 DEF PreferencesInv, MissedIsMarked
  <2>4. CASE i \notin Preferences!Stored
    BY <1>3, <1>4, <1>7, <2>1, <2>2, <2>4
  <2> QED BY <2>3, <2>4
<1>9. \A i \in Preferences!Stored : i \in Preferences!Stored' \/ s \in during[i]
  <2> SUFFICES ASSUME NEW i \in Preferences!Stored, s \notin during[i] PROVE i \in Preferences!Stored'
    OBVIOUS
  <2>1. c.seen # None /\ i \in c.seen
    BY <1>1, <1>2 DEF PreferencesInv, MissedIsMarked, HasRead
  <2>2. i \in new /\ ~lost
    BY <2>1 DEF new, Preferences!Merged
  <2>3. data' = new
    BY <1>3, <2>2
  <2> QED BY <1>4, <2>2, <2>3 DEF Preferences!Stored, NoneIsNoData
<1> QED
  BY <1>1, <1>2, <1>3, <1>6, <1>8, <1>9 DEF PreferencesInv, Preferences!TypeOK

LEMMA PreferencesStep ==
  ASSUME NoneIsNoData PROVE PreferencesInv /\ [Preferences!Next]_(Preferences!vars) => PreferencesInv'
<1> SUFFICES ASSUME PreferencesInv, [Preferences!Next]_(Preferences!vars) PROVE PreferencesInv'
  OBVIOUS
<1>1. ASSUME NEW n \in Notices, Preferences!Publish(n) PROVE PreferencesInv'
  BY <1>1 DEF Preferences!Publish, PreferencesInv, Preferences!TypeOK, MissedIsMarked, HasRead, Preferences!Stored
<1>2. ASSUME NEW s \in Slots,
             \/ \E n \in Notices : Preferences!MarkRead(s, n)
             \/ \E v \in Views : Preferences!SaveView(s, v)
             \/ Preferences!MarkAllRead(s) \/ Preferences!DismissWelcome(s)
      PROVE  PreferencesInv'
  <2>1. /\ \A n \in Notices : {<<"read", n>>} \in SUBSET Preferences!Items
        /\ \A v \in Views : {<<"view", v>>} \in SUBSET Preferences!Items
        /\ {<<"welcome", None>>} \in SUBSET Preferences!Items /\ {} \in SUBSET Preferences!Items
    BY DEF Preferences!Items
  <2>2. \E pc \in {"read", "list"}, adds \in SUBSET Preferences!Items : Preferences!Begin(s, pc, adds)
    BY <1>2, <2>1 DEF Preferences!MarkRead, Preferences!SaveView, Preferences!MarkAllRead,
                      Preferences!DismissWelcome
  <2> QED BY <2>2, BeginKeepsMarks
<1>3. CASE UNCHANGED Preferences!vars
  BY <1>3 DEF Preferences!vars, PreferencesInv, Preferences!TypeOK, MissedIsMarked, HasRead, Preferences!Stored
<1> QED
  BY <1>1, <1>2, <1>3, ReadKeepsMarks, WriteKeepsMarks DEF Preferences!Next

LEMMA DropsAreOverlaps ==
  ASSUME NoneIsNoData, PreferencesInv, [Preferences!Next]_(Preferences!vars), NEW i \in Preferences!Items,
         i \in Preferences!Stored, i \notin Preferences!Stored'
  PROVE  \E s \in during[i] : request[s] # Preferences!Idle /\ request'[s] = Preferences!Idle
<1>1. data' # data
  BY DEF Preferences!Stored
<1>2. ASSUME NEW s \in Slots PROVE
        /\ \A n \in Notices : ~Preferences!MarkRead(s, n)
        /\ \A v \in Views : ~Preferences!SaveView(s, v)
        /\ ~Preferences!MarkAllRead(s) /\ ~Preferences!DismissWelcome(s)
        /\ ~Preferences!ReadRow(s) /\ ~Preferences!ListLog(s)
  BY <1>1 DEF Preferences!MarkRead, Preferences!SaveView, Preferences!MarkAllRead,
              Preferences!DismissWelcome, Preferences!ReadRow, Preferences!ListLog, Preferences!Begin
<1>3. /\ \A n \in Notices : ~Preferences!Publish(n)
      /\ ~UNCHANGED Preferences!vars
  BY <1>1 DEF Preferences!Publish, Preferences!vars
<1>4. PICK s \in Slots : Preferences!Write(s)
  BY <1>2, <1>3 DEF Preferences!Next
<1> QED
  BY <1>4, WriteKeepsMarks

-----------------------------------------------------------------------------
(* Members and their grants                                                  *)

\* Only calls of addMember overlap: the counts of owners run alone.
OnlyAddsOverlap == Overlapping \subseteq {"add"}

\* A member row has an id of its own, and the grants of one list.
RowsAreSound ==
  /\ \A u \in Users : member[u] # None =>
       member[u].id < rows /\ \E body \in Members!Bodies : member[u].grants = body.grants
  /\ \A u, v \in Users : member[u] # None /\ member[v] # None /\ member[u].id = member[v].id => u = v

RunsAlone ==
  \A s, t \in Slots :
    s # t /\ memberCall[s] # Members!Idle /\ memberCall[s].handler # "add" => memberCall[t] = Members!Idle

\* Who writes a row holds it, and deletes all the grants there are; who may
\* take an owner away leaves another.
CallIsSound(s) ==
  LET c == memberCall[s] IN
  /\ c.handler \in {"add", "update", "remove"} /\ (c.handler # "add" => c.id # None)
  /\ c.pc \in {"locked", "cleared"} => c.handler # "remove" /\ c.id # None
  /\ c.pc = "locked" => Members!WritesRow(c)
  /\ c.pc \in {"locked", "cleared"} /\ Members!WritesRow(c) => rowLock[c.user] = s
  /\ c.pc \in {"locked", "cleared"} \/ c.handler # "add" => Members!IdOf(c.user) = c.id
  /\ IF c.pc = "cleared" THEN c.body.touch /\ c.gone = member[c.user].grants ELSE c.gone = {}
  /\ c.handler # "add" /\ c.perm # "owner" => \E v \in Members!Owners : v # c.user
  /\ c.handler = "remove" => c.perm # "owner"

MembersInv ==
  /\ Members!MembersTypeOK /\ RowsAreSound /\ RunsAlone
  /\ \A s \in Slots : memberCall[s] # Members!Idle => CallIsSound(s)

LEMMA MembersInit == ASSUME MemberBounds PROVE Members!Init => MembersInv
<1> SUFFICES ASSUME Members!Init PROVE MembersInv
  OBVIOUS
<1>1. PICK u \in Users : member = [v \in Users |-> IF v = u
                           THEN [id |-> 0, perm |-> "owner", grants |-> {}] ELSE None]
  BY DEF Members!Init
<1>2. PICK own : own = [id |-> 0, perm |-> "owner", grants |-> {}]
  OBVIOUS
<1>3. own \in Members!Row /\ own # None /\ own.id = 0 /\ own.grants = {}
  BY <1>2 DEF MemberBounds, Members!Row, Members!Perms
<1>4. [touch |-> TRUE, grants |-> {}] \in Members!Bodies
  BY DEF Members!Bodies
<1>5. member = [v \in Users |-> IF v = u THEN own ELSE None] /\ rows = 1
  BY <1>1, <1>2 DEF Members!Init
<1>6. RowsAreSound
  BY <1>3, <1>4, <1>5 DEF RowsAreSound
<1>7. Members!MembersTypeOK
  BY <1>3, <1>5 DEF Members!Init, Members!MembersTypeOK, MemberBounds
<1> QED
  BY <1>6, <1>7 DEF Members!Init, MembersInv, RunsAlone

LEMMA MemberCall ==
  ASSUME Members!MembersTypeOK, NEW s \in Slots, memberCall[s] # Members!Idle
  PROVE  memberCall[s] \in Members!Busy
BY DEF Members!MembersTypeOK

LEMMA SameOwners == \A S : Members!Cardinality(S) = Cardinality(S)
BY DEF Members!Cardinality, Cardinality

\* A second owner, where more than one is counted.
LEMMA AnotherOwner ==
  ASSUME NEW u, Members!Owners # {},
         u \in Members!Owners => Members!Cardinality(Members!Owners) > 1
  PROVE  \E v \in Members!Owners : v # u
<1> SUFFICES ASSUME \A v \in Members!Owners : v = u PROVE FALSE
  OBVIOUS
<1>1. Members!Owners = {u}
  OBVIOUS
<1>2. Cardinality({u}) = 1
  BY FS_Singleton
<1> QED
  BY <1>1, <1>2, SameOwners

\* A call begins: what it keeps of the member row is what is there.
LEMMA BeginKeepsMembers ==
  ASSUME MemberBounds, OnlyAddsOverlap, MembersInv, NEW s \in Slots,
         NEW h \in {"add", "update", "remove"}, h \in Handlers, NEW u \in Users,
         NEW perm \in Members!Perms, NEW body \in Members!Bodies,
         memberCall[s] = Members!Idle, Members!MayStart(h), Members!Begin(s, h, u, perm, body),
         UNCHANGED <<member, rows, rowLock>>,
         h # "add" => member[u] # None /\ (perm # "owner" => \E v \in Members!Owners : v # u),
         h = "remove" => perm # "owner"
  PROVE  MembersInv'
<1>1. PICK c : c = [pc |-> "read", handler |-> h, user |-> u, id |-> Members!IdOf(u),
                    was |-> IF member[u] = None THEN None ELSE member[u].perm,
                    perm |-> perm, body |-> body, gone |-> {}]
  OBVIOUS
<1>2. memberCall' = [memberCall EXCEPT ![s] = c]
  BY <1>1 DEF Members!Begin
<1>3. /\ c.pc = "read" /\ c.handler = h /\ c.user = u /\ c.id = Members!IdOf(u) /\ c.perm = perm
      /\ c.gone = {}
  BY <1>1
<1>4. member[u] # None => member[u] \in Members!Row /\ Members!IdOf(u) = member[u].id
                          /\ Members!IdOf(u) \in 0..MaxRows
  BY DEF MembersInv, Members!MembersTypeOK, Members!IdOf, Members!Row
<1>5. c \in Members!Busy
  <2>1. Members!IdOf(u) \in (0..MaxRows) \cup {None}
    BY <1>4 DEF Members!IdOf
  <2>2. (IF member[u] = None THEN None ELSE member[u].perm) \in Members!Perms \cup {None}
    BY <1>4 DEF Members!Row
  <2> QED BY <1>1, <2>1, <2>2 DEF Members!Busy
<1>6. Members!MembersTypeOK'
  BY <1>2, <1>5 DEF MembersInv, Members!MembersTypeOK
<1>7. RowsAreSound'
  BY DEF MembersInv, RowsAreSound
<1>8. /\ memberCall'[s] = c /\ \A t \in Slots : t # s => memberCall'[t] = memberCall[t]
  BY <1>2 DEF MembersInv, Members!MembersTypeOK
<1>9. \A t \in Slots : memberCall[t] # Members!Idle => h = "add" /\ memberCall[t].handler = "add"
  BY DEF Members!MayStart, OnlyAddsOverlap
<1>10. RunsAlone'
  BY <1>3, <1>8, <1>9 DEF MembersInv, RunsAlone
<1>11. CallIsSound(s)'
  <2>1. memberCall'[s].pc = "read" /\ memberCall'[s].handler = h /\ memberCall'[s].gone = {}
        /\ memberCall'[s].user = u /\ memberCall'[s].perm = perm /\ memberCall'[s].id = Members!IdOf(u)
    BY <1>3, <1>8
  <2>2. h # "add" => Members!IdOf(u) # None
    BY <1>4 DEF MemberBounds
  <2>3. Members!IdOf(u)' = Members!IdOf(u) /\ Members!Owners' = Members!Owners
    BY DEF Members!IdOf, Members!Owners
  <2> QED BY <2>1, <2>2, <2>3 DEF CallIsSound
<1>12. ASSUME NEW t \in Slots, t # s, memberCall[t] # Members!Idle PROVE CallIsSound(t)'
  BY <1>8, <1>12 DEF MembersInv, CallIsSound, Members!IdOf, Members!Owners
<1> QED
  BY <1>6, <1>7, <1>8, <1>10, <1>11, <1>12 DEF MembersInv

LEMMA StartsKeepMembers ==
  ASSUME MemberBounds, OnlyAddsOverlap, MembersInv, NEW s \in Slots, NEW u \in Users,
         \/ \E perm \in Asked, body \in Members!Bodies :
              Members!StartAdd(s, u, perm, body) \/ Members!StartUpdate(s, u, perm, body)
         \/ Members!StartRemove(s, u)
  PROVE  MembersInv' /\ UNCHANGED member
<1>1. ASSUME NEW perm \in Asked, NEW body \in Members!Bodies, Members!StartAdd(s, u, perm, body)
      PROVE  MembersInv' /\ UNCHANGED member
  <2>1. /\ "add" \in Handlers /\ memberCall[s] = Members!Idle /\ Members!MayStart("add")
        /\ Members!Begin(s, "add", u, perm, body) /\ UNCHANGED <<member, rows, rowLock>>
    BY <1>1 DEF Members!StartAdd
  <2> QED BY <2>1, BeginKeepsMembers DEF MemberBounds
<1>2. ASSUME NEW perm \in Asked, NEW body \in Members!Bodies, Members!StartUpdate(s, u, perm, body)
      PROVE  MembersInv' /\ UNCHANGED member
  <2>1. PICK given : given = IF perm = "owner" THEN [touch |-> TRUE, grants |-> {}] ELSE body
    OBVIOUS
  <2>2. given \in Members!Bodies
    BY <2>1 DEF Members!Bodies
  <2>3. /\ "update" \in Handlers /\ memberCall[s] = Members!Idle /\ Members!MayStart("update")
        /\ Members!Begin(s, "update", u, perm, given) /\ UNCHANGED <<member, rows, rowLock>>
        /\ member[u] # None /\ Members!Owners # {}
        /\ u \in Members!Owners /\ perm # "owner" => Members!Cardinality(Members!Owners) > 1
    BY <1>2, <2>1 DEF Members!StartUpdate
  <2>4. perm # "owner" => \E v \in Members!Owners : v # u
    BY <2>3, AnotherOwner
  <2> QED BY <2>2, <2>3, <2>4, BeginKeepsMembers DEF MemberBounds
<1>3. ASSUME Members!StartRemove(s, u) PROVE MembersInv' /\ UNCHANGED member
  <2>1. PICK given \in Members!Bodies : given = [touch |-> FALSE, grants |-> {}]
    BY DEF Members!Bodies
  <2>2. /\ "remove" \in Handlers /\ memberCall[s] = Members!Idle /\ Members!MayStart("remove")
        /\ Members!Begin(s, "remove", u, "viewer", given) /\ UNCHANGED <<member, rows, rowLock>>
        /\ member[u] # None /\ Members!Owners # {}
        /\ u \in Members!Owners => Members!Cardinality(Members!Owners) > 1
    BY <1>3, <2>1 DEF Members!StartRemove
  <2>3. \E v \in Members!Owners : v # u
    BY <2>2, AnotherOwner
  <2>4. "viewer" \in Members!Perms
    BY DEF Members!Perms
  <2> QED BY <2>2, <2>3, <2>4, BeginKeepsMembers
<1> QED
  BY <1>1, <1>2, <1>3

\* A call in progress: its row is there while it holds it or runs alone.
LEMMA CallHasRow ==
  ASSUME MemberBounds, MembersInv, NEW s \in Slots, memberCall[s] # Members!Idle,
         memberCall[s].pc \in {"locked", "cleared"} \/ memberCall[s].handler # "add"
  PROVE  /\ memberCall[s].user \in Users /\ member[memberCall[s].user] # None
         /\ member[memberCall[s].user] \in Members!Row
         /\ member[memberCall[s].user].id = memberCall[s].id
<1>1. memberCall[s].user \in Users
  BY MemberCall DEF MembersInv, Members!Busy
<1>2. Members!IdOf(memberCall[s].user) = memberCall[s].id /\ memberCall[s].id # None
  BY DEF MembersInv, CallIsSound
<1> QED
  BY <1>1, <1>2 DEF MembersInv, Members!MembersTypeOK, Members!IdOf

\* A call that a step of another leaves alone, and whose row it leaves alone,
\* stays sound.
LEMMA OthersStaySound ==
  ASSUME MembersInv, NEW t \in Slots, memberCall[t] # Members!Idle, memberCall'[t] = memberCall[t],
         memberCall[t].pc \in {"locked", "cleared"} => member'[memberCall[t].user] = member[memberCall[t].user],
         memberCall[t].handler # "add" => member' = member,
         rowLock[memberCall[t].user] = t => rowLock'[memberCall[t].user] = t
  PROVE  CallIsSound(t)'
<1>1. CallIsSound(t)
  BY DEF MembersInv
<1>2. memberCall[t].handler # "add" => Members!Owners' = Members!Owners
  BY DEF Members!Owners
<1>3. memberCall[t].pc \in {"locked", "cleared"} \/ memberCall[t].handler # "add" =>
        Members!IdOf(memberCall[t].user)' = Members!IdOf(memberCall[t].user)
  BY DEF Members!IdOf
<1>4. memberCall[t].pc = "cleared" =>
        (memberCall'[t].gone = member'[memberCall'[t].user].grants
           <=> memberCall[t].gone = member[memberCall[t].user].grants)
  OBVIOUS
<1>5. Members!WritesRow(memberCall'[t]) <=> Members!WritesRow(memberCall[t])
  OBVIOUS
<1> QED
  BY <1>1, <1>2, <1>3, <1>4, <1>5 DEF CallIsSound

LEMMA ReleaseKeeps ==
  ASSUME MemberBounds, MembersInv, NEW s \in Slots, rowLock' = Members!Release(s)
  PROVE  /\ rowLock' \in [Users -> Slots \cup {None}]
         /\ \A t \in Slots, u \in Users : t # s /\ rowLock[u] = t => rowLock'[u] = t
BY DEF MembersInv, Members!MembersTypeOK, Members!Release

LEMMA LockKeepsMembers ==
  ASSUME MemberBounds, MembersInv, NEW s \in Slots, memberCall[s] # Members!Idle, Members!LockRow(s)
  PROVE  MembersInv'
<1>1. PICK c \in Members!Busy : c = memberCall[s]
  BY MemberCall DEF MembersInv
<1>2. /\ c.pc = "read" /\ c.handler # "remove" /\ Members!WritesRow(c)
      /\ Members!IdOf(c.user) = c.id /\ rowLock[c.user] = None
      /\ rowLock' = [rowLock EXCEPT ![c.user] = s] /\ memberCall' = [memberCall EXCEPT ![s].pc = "locked"]
      /\ UNCHANGED <<member, rows>>
  BY <1>1 DEF Members!LockRow
<1>3. PICK d : d = [c EXCEPT !.pc = "locked"]
  OBVIOUS
<1>4. /\ d \in Members!Busy /\ d.pc = "locked" /\ d.handler = c.handler /\ d.user = c.user /\ d.id = c.id
      /\ d.was = c.was /\ d.perm = c.perm /\ d.body = c.body /\ d.gone = c.gone
  BY <1>3 DEF Members!Busy
<1>5. memberCall' = [memberCall EXCEPT ![s] = d]
  BY <1>1, <1>2, <1>3
<1>6. memberCall'[s] = d /\ \A t \in Slots : t # s => memberCall'[t] = memberCall[t]
  BY <1>5 DEF MembersInv, Members!MembersTypeOK
<1>7. c.user \in Users
  BY DEF Members!Busy
<1>8. Members!MembersTypeOK'
  BY <1>2, <1>4, <1>5, <1>7 DEF MembersInv, Members!MembersTypeOK
<1>9. RowsAreSound'
  BY <1>2 DEF MembersInv, RowsAreSound
<1>10. RunsAlone'
  BY <1>1, <1>4, <1>6 DEF MembersInv, RunsAlone
<1>11. CallIsSound(s)'
  <2>1. Members!IdOf(c.user)' = Members!IdOf(c.user) /\ Members!Owners' = Members!Owners
    BY <1>2 DEF Members!IdOf, Members!Owners
  <2>2. rowLock'[c.user] = s
    BY <1>2, <1>7 DEF MembersInv, Members!MembersTypeOK
  <2>3. CallIsSound(s) /\ (Members!WritesRow(d) <=> Members!WritesRow(c)) /\ c.id # None
    BY <1>2, <1>4 DEF MembersInv, Members!WritesRow
  <2> QED BY <1>1, <1>2, <1>4, <1>6, <2>1, <2>2, <2>3 DEF CallIsSound
<1>12. ASSUME NEW t \in Slots, t # s, memberCall[t] # Members!Idle PROVE CallIsSound(t)'
  <2>1. memberCall[t].user \in Users
    BY <1>12, MemberCall DEF MembersInv, Members!Busy
  <2>2. rowLock[memberCall[t].user] = t => rowLock'[memberCall[t].user] = t
    BY <1>2, <2>1 DEF MembersInv, Members!MembersTypeOK, MemberBounds
  <2> QED BY <1>2, <1>6, <1>12, <2>2, OthersStaySound
<1> QED
  BY <1>6, <1>8, <1>9, <1>10, <1>11, <1>12 DEF MembersInv

LEMMA ClearKeepsMembers ==
  ASSUME MemberBounds, MembersInv, NEW s \in Slots, memberCall[s] # Members!Idle, Members!ClearGrants(s)
  PROVE  MembersInv'
<1>1. PICK c \in Members!Busy : c = memberCall[s]
  BY MemberCall DEF MembersInv
<1>2. /\ c.pc = "locked" \/ (c.pc = "read" /\ c.handler = "update" /\ ~Members!WritesRow(c))
      /\ c.body.touch /\ UNCHANGED <<member, rows, rowLock>>
      /\ memberCall' = [memberCall EXCEPT ![s].pc = "cleared",
           ![s].gone = IF Members!IdOf(c.user) = c.id THEN member[c.user].grants ELSE {}]
  BY <1>1 DEF Members!ClearGrants
<1>3. Members!IdOf(c.user) = c.id /\ member[c.user] \in Members!Row /\ CallIsSound(s)
  BY <1>1, <1>2, CallHasRow DEF MembersInv, CallIsSound
<1>4. PICK d : d = [c EXCEPT !.pc = "cleared", !.gone = member[c.user].grants]
  OBVIOUS
<1>5. /\ d \in Members!Busy /\ d.pc = "cleared" /\ d.handler = c.handler /\ d.user = c.user /\ d.id = c.id
      /\ d.was = c.was /\ d.perm = c.perm /\ d.body = c.body /\ d.gone = member[c.user].grants
  BY <1>3, <1>4 DEF Members!Busy, Members!Row
<1>6. memberCall' = [memberCall EXCEPT ![s] = d]
  BY <1>1, <1>2, <1>3, <1>4
<1>7. memberCall'[s] = d /\ \A t \in Slots : t # s => memberCall'[t] = memberCall[t]
  BY <1>6 DEF MembersInv, Members!MembersTypeOK
<1>8. Members!MembersTypeOK'
  BY <1>2, <1>5, <1>6 DEF MembersInv, Members!MembersTypeOK
<1>9. RowsAreSound'
  BY <1>2 DEF MembersInv, RowsAreSound
<1>10. RunsAlone'
  BY <1>1, <1>5, <1>7 DEF MembersInv, RunsAlone
<1>11. CallIsSound(s)'
  <2>1. Members!IdOf(c.user)' = Members!IdOf(c.user) /\ Members!Owners' = Members!Owners
    BY <1>2 DEF Members!IdOf, Members!Owners
  <2>2. Members!WritesRow(d) <=> Members!WritesRow(c)
    BY <1>5 DEF Members!WritesRow
  <2>3. c.handler # "remove" /\ c.id # None /\ (Members!WritesRow(c) => rowLock[c.user] = s)
    BY <1>1, <1>2, <1>3 DEF CallIsSound
  <2>4. d.gone = member'[d.user].grants /\ d.body.touch
    BY <1>2, <1>5
  <2>5. /\ c.handler \in {"add", "update"}
        /\ c.handler # "add" /\ c.perm # "owner" => \E v \in Members!Owners : v # c.user
    <3>1. c.handler \in {"add", "update", "remove"}
      BY <1>1, <1>3 DEF CallIsSound
    <3>2. c.handler # "add" /\ c.perm # "owner" => \E v \in Members!Owners : v # c.user
      BY <1>1, <1>3 DEF CallIsSound
    <3> QED BY <2>3, <3>1, <3>2
  <2>6. /\ d.handler \in {"add", "update"} /\ d.pc = "cleared" /\ d.id # None
        /\ Members!IdOf(d.user)' = d.id /\ (Members!WritesRow(d) => rowLock[d.user] = s)
        /\ d.handler # "add" /\ d.perm # "owner" => \E v \in Members!Owners' : v # d.user
    BY <1>3, <1>5, <2>1, <2>2, <2>3, <2>5
  <2>7. Members!WritesRow(d)' = Members!WritesRow(d) /\ rowLock' = rowLock
    BY <1>2 DEF Members!WritesRow
  <2> QED BY <1>7, <2>4, <2>6, <2>7 DEF CallIsSound
<1>12. ASSUME NEW t \in Slots, t # s, memberCall[t] # Members!Idle PROVE CallIsSound(t)'
  BY <1>2, <1>7, <1>12, OthersStaySound
<1> QED
  BY <1>7, <1>8, <1>9, <1>10, <1>11, <1>12 DEF MembersInv

\* A commit replaces the grants of its member by its list, or leaves them.
LEMMA CommitWrites ==
  ASSUME MemberBounds, MembersInv, NEW s \in Slots, memberCall[s] # Members!Idle, Members!Commit(s)
  PROVE  LET c == memberCall[s]
             p == IF Members!WritesRow(c) THEN c.perm ELSE member[c.user].perm
             g == IF c.body.touch THEN c.body.grants ELSE member[c.user].grants
         IN  /\ member' = [member EXCEPT ![c.user].grants = g, ![c.user].perm = p]
             /\ c.pc \in {"locked", "cleared"} \/ (c.handler = "update" /\ ~Members!WritesRow(c))
             /\ rows' = rows /\ rowLock' = Members!Release(s)
             /\ memberCall' = [t \in Slots |->
                  IF t = s THEN Members!Idle
                  ELSE IF memberCall[t] # Members!Idle /\ memberCall[t].id = c.id
                         THEN [memberCall[t] EXCEPT !.gone = @ \ c.gone] ELSE memberCall[t]]
<1> DEFINE c == memberCall[s]
           p == IF Members!WritesRow(c) THEN c.perm ELSE member[c.user].perm
           g == IF c.body.touch THEN c.body.grants ELSE member[c.user].grants
           kept == member[c.user].grants \ c.gone
           added == IF c.body.touch THEN c.body.grants ELSE {}
           refused == \E x \in kept, y \in added : x.scope = y.scope
           done == Members!IdOf(c.user) = c.id /\ ~refused
<1>1. \/ c.pc = "cleared"
      \/ c.pc = "locked" /\ ~c.body.touch
      \/ c.pc = "read" /\ c.handler = "update" /\ ~Members!WritesRow(c) /\ ~c.body.touch
  BY DEF Members!Commit
<1>2. CallIsSound(s) /\ Members!IdOf(c.user) = c.id
  BY <1>1 DEF MembersInv, CallIsSound
<1>3. kept \cup added = g /\ ~refused
  <2>1. CASE c.pc = "cleared"
    <3>1. kept = {} /\ c.body.touch
      BY <1>2, <2>1 DEF CallIsSound
    <3> QED BY <3>1
  <2>2. CASE c.pc # "cleared"
    <3>1. c.gone = {} /\ ~c.body.touch
      BY <1>1, <1>2, <2>2 DEF CallIsSound
    <3>2. kept = member[c.user].grants /\ added = {}
      BY <3>1
    <3> HIDE DEF kept, added
    <3> QED BY <3>1, <3>2
  <2> QED BY <2>1, <2>2
<1>4. done
  BY <1>2, <1>3
<1>5. /\ member' = IF ~done THEN member
                   ELSE [member EXCEPT ![c.user].grants = kept \cup added,
                           ![c.user].perm = IF Members!WritesRow(c) THEN c.perm ELSE @]
      /\ memberCall' = [t \in Slots |->
           IF t = s THEN Members!Idle
           ELSE IF done /\ memberCall[t] # Members!Idle /\ memberCall[t].id = c.id
                  THEN [memberCall[t] EXCEPT !.gone = @ \ c.gone] ELSE memberCall[t]]
      /\ rowLock' = Members!Release(s) /\ UNCHANGED rows
  BY DEF Members!Commit
<1>6. member[c.user] \in Members!Row
  BY <1>1, CallHasRow
<1> HIDE DEF kept, added, refused, done
<1>7. member' = [member EXCEPT ![c.user].grants = g, ![c.user].perm = IF Members!WritesRow(c) THEN c.perm ELSE @]
  BY <1>3, <1>4, <1>5
<1>8. [member EXCEPT ![c.user].grants = g, ![c.user].perm = IF Members!WritesRow(c) THEN c.perm ELSE @]
        = [member EXCEPT ![c.user].grants = g, ![c.user].perm = p]
  <2>1. c.user \in Users /\ member \in [Users -> Members!Row \cup {None}]
    BY <1>1, CallHasRow DEF MembersInv, Members!MembersTypeOK
  <2> HIDE DEF g
  <2> QED BY <1>6, <2>1 DEF Members!Row
<1> QED
  BY <1>1, <1>4, <1>5, <1>7, <1>8

LEMMA CommitKeepsMembers ==
  ASSUME MemberBounds, MembersInv, NEW s \in Slots, memberCall[s] # Members!Idle, Members!Commit(s)
  PROVE  MembersInv'
<1>1. PICK c \in Members!Busy : c = memberCall[s]
  BY MemberCall DEF MembersInv
<1>2. PICK p : p = IF Members!WritesRow(c) THEN c.perm ELSE member[c.user].perm
  OBVIOUS
<1>3. PICK g : g = IF c.body.touch THEN c.body.grants ELSE member[c.user].grants
  OBVIOUS
<1>4. /\ member' = [member EXCEPT ![c.user].grants = g, ![c.user].perm = p]
      /\ c.pc \in {"locked", "cleared"} \/ (c.handler = "update" /\ ~Members!WritesRow(c))
      /\ rows' = rows /\ rowLock' = Members!Release(s)
      /\ memberCall' = [t \in Slots |->
           IF t = s THEN Members!Idle
           ELSE IF memberCall[t] # Members!Idle /\ memberCall[t].id = c.id
                  THEN [memberCall[t] EXCEPT !.gone = @ \ c.gone] ELSE memberCall[t]]
  BY <1>1, <1>2, <1>3, CommitWrites
<1>5. c.user \in Users /\ member[c.user] \in Members!Row /\ member[c.user] # None /\ member[c.user].id = c.id
  BY <1>1, <1>4, CallHasRow
<1>6. \E body \in Members!Bodies : g = body.grants
  BY <1>3, <1>5 DEF MembersInv, RowsAreSound, Members!Busy
<1>7. g \in SUBSET Members!Grants
  BY <1>6 DEF Members!Bodies, Members!Grants, Members!Scopes, Members!Levels, Members!Functions,
              Members!AllFunctions
<1>8. p \in Members!Perms
  BY <1>2, <1>5 DEF Members!Busy, Members!Row
<1>9. PICK new : new = [member[c.user] EXCEPT !.grants = g, !.perm = p]
  OBVIOUS
<1>10. new \in Members!Row /\ new.id = c.id /\ new.grants = g /\ new.perm = p /\ new # None
  <2>1. new \in Members!Row /\ new.id = c.id /\ new.grants = g /\ new.perm = p
    BY <1>5, <1>7, <1>8, <1>9 DEF Members!Row
  <2> QED BY <2>1 DEF MemberBounds
<1>11. member' = [member EXCEPT ![c.user] = new]
  BY <1>4, <1>5, <1>9
<1>12. /\ member'[c.user] = new /\ \A u \in Users : u # c.user => member'[u] = member[u]
       /\ member' \in [Users -> Members!Row \cup {None}]
  BY <1>5, <1>10, <1>11 DEF MembersInv, Members!MembersTypeOK
<1>13. ASSUME NEW t \in Slots, t # s, memberCall[t] # Members!Idle
       PROVE  memberCall'[t] = memberCall[t] /\ CallIsSound(t)'
  <2>1. memberCall[t].handler = "add" /\ c.handler = "add"
    BY <1>1, <1>13 DEF MembersInv, RunsAlone
  <2>2. CallIsSound(t) /\ memberCall[t] \in Members!Busy
    BY <1>13, MemberCall DEF MembersInv
  <2>3. CallIsSound(s) /\ rowLock[c.user] = s
    BY <1>1, <1>4, <2>1 DEF MembersInv, CallIsSound, Members!WritesRow
  <2>4. CASE memberCall[t].pc = "read"
    <3>1. memberCall[t].gone = {}
      BY <2>2, <2>4 DEF CallIsSound
    <3>2. [memberCall[t] EXCEPT !.gone = @ \ c.gone] = memberCall[t]
      <4>1. memberCall[t].gone \ c.gone = memberCall[t].gone
        BY <3>1
      <4> QED BY <2>2, <4>1 DEF Members!Busy
    <3>3. memberCall'[t] = memberCall[t]
      BY <1>4, <1>13, <3>2
    <3>4. rowLock[memberCall[t].user] = t => rowLock'[memberCall[t].user] = t
      BY <1>4, <1>13, <2>2, ReleaseKeeps DEF Members!Busy
    <3> QED BY <1>13, <2>1, <2>4, <3>3, <3>4, OthersStaySound
  <2>5. CASE memberCall[t].pc \in {"locked", "cleared"}
    <3>1. /\ memberCall[t].user \in Users /\ member[memberCall[t].user] # None
          /\ member[memberCall[t].user].id = memberCall[t].id
      BY <1>13, <2>5, CallHasRow
    <3>2. rowLock[memberCall[t].user] = t
      BY <2>1, <2>2, <2>5 DEF CallIsSound, Members!WritesRow
    <3>3. memberCall[t].user # c.user
      BY <1>13, <2>3, <3>2
    <3>4. memberCall[t].id # c.id
      BY <1>5, <3>1, <3>3 DEF MembersInv, RowsAreSound
    <3>5. memberCall'[t] = memberCall[t] /\ member'[memberCall[t].user] = member[memberCall[t].user]
      BY <1>4, <1>12, <1>13, <3>1, <3>3, <3>4
    <3>6. rowLock'[memberCall[t].user] = t
      BY <1>4, <1>13, <3>1, <3>2, ReleaseKeeps
    <3> QED BY <1>13, <2>1, <3>5, <3>6, OthersStaySound
  <2> QED BY <2>2, <2>4, <2>5 DEF Members!Busy
<1>14. memberCall'[s] = Members!Idle /\ \A t \in Slots : memberCall[t] = Members!Idle => memberCall'[t] = Members!Idle
  BY <1>4
<1>15. memberCall' \in [Slots -> {Members!Idle} \cup Members!Busy]
  <2>1. \A t \in Slots : memberCall'[t] \in {Members!Idle} \cup Members!Busy
    BY <1>13, <1>14 DEF MembersInv, Members!MembersTypeOK
  <2> QED BY <1>4, <2>1
<1>16. Members!MembersTypeOK'
  BY <1>4, <1>12, <1>15, ReleaseKeeps DEF MembersInv, Members!MembersTypeOK
<1>17. RowsAreSound'
  BY <1>4, <1>5, <1>6, <1>10, <1>12 DEF MembersInv, RowsAreSound
<1>18. RunsAlone'
  BY <1>13, <1>14 DEF MembersInv, RunsAlone
<1> QED
  BY <1>13, <1>14, <1>16, <1>17, <1>18 DEF MembersInv

\* A call that ends and writes no row but one that nobody else holds.
LEMMA DoneKeepsMembers ==
  ASSUME MemberBounds, MembersInv, NEW s \in Slots, memberCall[s] # Members!Idle, Members!Done(s),
         member' \in [Users -> Members!Row \cup {None}], rows' \in 0..MaxRows, RowsAreSound',
         \A t \in Slots : t # s /\ memberCall[t] # Members!Idle /\ memberCall[t].pc \in {"locked", "cleared"}
           => member'[memberCall[t].user] = member[memberCall[t].user],
         memberCall[s].handler = "update" => UNCHANGED member
  PROVE  MembersInv'
<1>1. memberCall' = [memberCall EXCEPT ![s] = Members!Idle] /\ rowLock' = Members!Release(s)
  BY DEF Members!Done
<1>2. memberCall'[s] = Members!Idle /\ \A t \in Slots : t # s => memberCall'[t] = memberCall[t]
  BY <1>1 DEF MembersInv, Members!MembersTypeOK
<1>3. Members!MembersTypeOK'
  BY <1>1, ReleaseKeeps DEF MembersInv, Members!MembersTypeOK
<1>4. RunsAlone'
  BY <1>2 DEF MembersInv, RunsAlone
<1>5. ASSUME NEW t \in Slots, t # s, memberCall[t] # Members!Idle PROVE CallIsSound(t)'
  <2>1. memberCall[t].handler = "add"
    BY <1>5 DEF MembersInv, RunsAlone
  <2>2. memberCall[t].user \in Users
    BY <1>5, MemberCall DEF MembersInv, Members!Busy
  <2>3. rowLock[memberCall[t].user] = t => rowLock'[memberCall[t].user] = t
    BY <1>1, <1>5, <2>2, ReleaseKeeps
  <2> QED BY <1>2, <1>5, <2>1, <2>3, OthersStaySound
<1> QED
  BY <1>2, <1>3, <1>4, <1>5 DEF MembersInv

LEMMA CreateKeepsMembers ==
  ASSUME MemberBounds, MembersInv, NEW s \in Slots, memberCall[s] # Members!Idle, Members!Create(s)
  PROVE  MembersInv' /\ memberCall[s].handler = "add"
<1>1. PICK c \in Members!Busy : c = memberCall[s]
  BY MemberCall DEF MembersInv
<1>2. c.handler = "add" /\ Members!Done(s)
  BY <1>1 DEF Members!Create
<1>3. CASE UNCHANGED <<member, rows>>
  <2>1. RowsAreSound'
    BY <1>3 DEF MembersInv, RowsAreSound
  <2> QED BY <1>1, <1>2, <1>3, <2>1, DoneKeepsMembers DEF MembersInv, Members!MembersTypeOK
<1>4. CASE /\ member[c.user] = None /\ rows < MaxRows /\ rows' = rows + 1
           /\ member' = [member EXCEPT ![c.user] = [id |-> rows, perm |-> c.perm, grants |-> c.body.grants]]
  <2>1. PICK new : new = [id |-> rows, perm |-> c.perm, grants |-> c.body.grants]
    OBVIOUS
  <2>2. rows \in 0..MaxRows /\ MaxRows \in Nat /\ c.user \in Users /\ c.body \in Members!Bodies /\ c.perm \in Members!Perms
    BY DEF MembersInv, Members!MembersTypeOK, MemberBounds, Members!Busy
  <2>3. c.body.grants \in SUBSET Members!Grants
    BY <2>2 DEF Members!Bodies, Members!Grants, Members!Scopes, Members!Levels, Members!Functions,
                Members!AllFunctions
  <2>4. new \in Members!Row /\ new.id = rows /\ new.grants = c.body.grants
    BY <2>1, <2>2, <2>3 DEF Members!Row
  <2>5. new # None
    BY <2>4 DEF MemberBounds
  <2>6. member'[c.user] = new /\ \A u \in Users : u # c.user => member'[u] = member[u]
    BY <1>4, <2>1, <2>2 DEF MembersInv, Members!MembersTypeOK
  <2>7. member' \in [Users -> Members!Row \cup {None}] /\ rows' \in 0..MaxRows
    BY <1>4, <2>1, <2>2, <2>4 DEF MembersInv, Members!MembersTypeOK
  <2>8. RowsAreSound'
    <3>1. \A u \in Users : u # c.user /\ member[u] # None => member[u].id < rows /\ member[u].id \in Nat
      BY <2>2 DEF MembersInv, RowsAreSound, Members!MembersTypeOK, Members!Row
    <3>2. \A u \in Users : member'[u] # None =>
            member'[u].id < rows' /\ \E body \in Members!Bodies : member'[u].grants = body.grants
      <4> TAKE u \in Users
      <4>1. CASE u = c.user
        BY <1>4, <2>2, <2>4, <2>6, <4>1
      <4>2. CASE u # c.user
        BY <1>4, <2>2, <2>6, <3>1, <4>2 DEF MembersInv, RowsAreSound
      <4> QED BY <4>1, <4>2
    <3>3. \A u, v \in Users : member'[u] # None /\ member'[v] # None /\ member'[u].id = member'[v].id => u = v
      BY <2>2, <2>4, <2>6, <3>1 DEF MembersInv, RowsAreSound
    <3> QED BY <3>2, <3>3 DEF RowsAreSound
  <2>9. ASSUME NEW t \in Slots, t # s, memberCall[t] # Members!Idle, memberCall[t].pc \in {"locked", "cleared"}
        PROVE  member'[memberCall[t].user] = member[memberCall[t].user]
    BY <1>4, <2>6, <2>9, CallHasRow
  <2> QED BY <1>1, <1>2, <2>7, <2>8, <2>9, DoneKeepsMembers
<1> QED
  BY <1>1, <1>2, <1>3, <1>4 DEF Members!Create

LEMMA RemoveKeepsMembers ==
  ASSUME MemberBounds, MembersInv, NEW s \in Slots, memberCall[s] # Members!Idle,
         Members!Remove(s) \/ Members!RowGone(s)
  PROVE  MembersInv'
<1>1. PICK c \in Members!Busy : c = memberCall[s]
  BY MemberCall DEF MembersInv
<1>2. c.user \in Users
  BY DEF Members!Busy
<1>3. CASE Members!Remove(s)
  <2>1. c.handler = "remove" /\ Members!Done(s) /\ member' = [member EXCEPT ![c.user] = None] /\ rows' = rows
    BY <1>1, <1>3 DEF Members!Remove
  <2>2. member' \in [Users -> Members!Row \cup {None}] /\ member'[c.user] = None
        /\ \A u \in Users : u # c.user => member'[u] = member[u]
    BY <1>2, <2>1 DEF MembersInv, Members!MembersTypeOK
  <2>3. RowsAreSound'
    BY <2>1, <2>2 DEF MembersInv, RowsAreSound
  <2>4. \A t \in Slots : t # s => memberCall[t] = Members!Idle
    BY <1>1, <2>1 DEF MembersInv, RunsAlone
  <2> QED BY <1>1, <2>1, <2>2, <2>3, <2>4, DoneKeepsMembers DEF MembersInv, Members!MembersTypeOK
<1>4. CASE Members!RowGone(s)
  <2>1. Members!Done(s) /\ UNCHANGED <<member, rows>>
    BY <1>4 DEF Members!RowGone
  <2>2. RowsAreSound'
    BY <2>1 DEF MembersInv, RowsAreSound
  <2> QED BY <2>1, <2>2, DoneKeepsMembers DEF MembersInv, Members!MembersTypeOK
<1> QED
  BY <1>3, <1>4

LEMMA MembersStep ==
  ASSUME MemberBounds, OnlyAddsOverlap
  PROVE  MembersInv /\ [Members!Next]_(Members!vars) => MembersInv'
<1> SUFFICES ASSUME MembersInv, [Members!Next]_(Members!vars) PROVE MembersInv'
  OBVIOUS
<1>1. ASSUME NEW s \in Slots, memberCall[s] # Members!Idle, Members!Step(s) PROVE MembersInv'
  BY <1>1, LockKeepsMembers, ClearKeepsMembers, CommitKeepsMembers, CreateKeepsMembers, RemoveKeepsMembers
  DEF Members!Step
<1>2. CASE UNCHANGED Members!vars
  BY <1>2 DEF Members!vars, MembersInv, Members!MembersTypeOK, RowsAreSound, RunsAlone, CallIsSound,
              Members!IdOf, Members!Owners, Members!WritesRow
<1> QED
  BY <1>1, <1>2, StartsKeepMembers DEF Members!Next

\* Where no call of addMember is under way, a step leaves an owner: the calls
\* that count owners run alone.
LEMMA StepKeepsOwner ==
  ASSUME MemberBounds, MembersInv, Members!Owners # {}, NEW s \in Slots,
         memberCall[s] # Members!Idle, memberCall[s].handler # "add", Members!Step(s)
  PROVE  Members!Owners' # {}
<1>1. PICK c \in Members!Busy : c = memberCall[s]
  BY MemberCall DEF MembersInv
<1>2. c.user \in Users /\ member[c.user] \in Members!Row /\ c.perm \in Members!Perms
  BY <1>1, CallHasRow DEF Members!Busy
<1>3. member \in [Users -> Members!Row \cup {None}]
  BY DEF MembersInv, Members!MembersTypeOK
<1>4. CallIsSound(s)
  BY DEF MembersInv
<1>5. CASE UNCHANGED member
  BY <1>5 DEF Members!Owners
<1>6. CASE Members!Commit(s)
  <2>1. PICK p : p = IF Members!WritesRow(c) THEN c.perm ELSE member[c.user].perm
    OBVIOUS
  <2>2. PICK g : g = IF c.body.touch THEN c.body.grants ELSE member[c.user].grants
    OBVIOUS
  <2>3. member' = [member EXCEPT ![c.user].grants = g, ![c.user].perm = p]
    BY <1>1, <1>6, <2>1, <2>2, CommitWrites
  <2>4. PICK new : new = [member[c.user] EXCEPT !.grants = g, !.perm = p]
    OBVIOUS
  <2>5. new.perm = p /\ DOMAIN new = {"id", "perm", "grants"}
    BY <1>2, <2>4 DEF Members!Row
  <2>6. member'[c.user] = new /\ \A v \in Users : v # c.user => member'[v] = member[v]
    BY <1>2, <1>3, <2>3, <2>4
  <2>7. CASE \E v \in Members!Owners : v # c.user
    BY <2>6, <2>7 DEF Members!Owners
  <2>8. CASE ~\E v \in Members!Owners : v # c.user
    <3>1. c.perm = "owner" /\ c.user \in Members!Owners
      BY <1>1, <1>4, <2>8 DEF CallIsSound
    <3>2. p = "owner"
      BY <2>1, <3>1 DEF Members!Owners
    <3>3. new # None
      <4>1. g \in SUBSET Members!Grants
        <5>1. \E body \in Members!Bodies : g = body.grants
          BY <1>2, <2>2, <3>1 DEF MembersInv, RowsAreSound, Members!Busy, Members!Owners
        <5> QED BY <5>1 DEF Members!Bodies, Members!Grants, Members!Scopes, Members!Levels,
                            Members!Functions, Members!AllFunctions
      <4>2. new \in Members!Row
        BY <1>2, <2>4, <3>2, <4>1 DEF Members!Row, Members!Perms
      <4> QED BY <4>2 DEF MemberBounds
    <3> QED BY <1>2, <2>5, <2>6, <3>2, <3>3 DEF Members!Owners
  <2> QED BY <2>7, <2>8
<1>7. CASE Members!Remove(s)
  <2>1. c.handler = "remove" /\ member' = [member EXCEPT ![c.user] = None]
    BY <1>1, <1>7 DEF Members!Remove
  <2>2. \A v \in Users : v # c.user => member'[v] = member[v]
    BY <1>3, <2>1
  <2>3. \E v \in Members!Owners : v # c.user
    BY <1>1, <1>4, <2>1 DEF CallIsSound
  <2> QED BY <2>2, <2>3 DEF Members!Owners
<1>8. CASE Members!Create(s)
  BY <1>1, <1>8, CreateKeepsMembers
<1> QED
  BY <1>5, <1>6, <1>7, <1>8 DEF Members!Step, Members!LockRow, Members!ClearGrants, Members!RowGone

LEMMA OwnersOutlastCounts ==
  ASSUME MemberBounds, OnlyAddsOverlap, MembersInv, [Members!Next]_(Members!vars),
         Members!Owners # {}, Members!Owners' = {}
  PROVE  \E s \in Slots : memberCall[s] # Members!Idle /\ memberCall[s].handler = "add"
<1>1. CASE UNCHANGED member
  BY <1>1 DEF Members!Owners
<1>2. ASSUME NEW s \in Slots, memberCall[s] # Members!Idle, Members!Step(s)
      PROVE  memberCall[s].handler = "add"
  BY <1>2, StepKeepsOwner
<1> QED
  BY <1>1, <1>2, StartsKeepMembers DEF Members!Next, Members!vars

\* No list that a request brings names a scope twice.
LEMMA OneGrantPerScope ==
  ASSUME NEW body \in Members!Bodies
  PROVE  /\ body.grants \subseteq Members!Grants
         /\ \A g, h \in body.grants : g.scope = h.scope => g = h
BY DEF Members!Bodies, Members!Grants, Members!Scopes, Members!Levels, Members!Functions,
       Members!AllFunctions

\* With one grant per scope find() has no choice, and resolve answers what its
\* comment says.
LEMMA ResolveHasOneAnswer ==
  ASSUME NEW perm \in Members!Perms, NEW body \in Members!Bodies, NEW ctx \in Members!Contexts
  PROVE  Members!Resolve(perm, body.grants, ctx) = {Members!Permitted(perm, body.grants, ctx)}
<1> DEFINE grants == body.grants
           has == {sc \in Members!Deciding(ctx) : Members!Matching(grants, sc) # {}}
           picks == {p \in [has -> grants] : \A sc \in has : p[sc].scope = sc}
           best == \E g \in grants : g.scope \in Members!Deciding(ctx)
                                     /\ Members!Rank(g.level) >= Members!Required(ctx)
<1>1. \A g, h \in grants : g.scope = h.scope => g = h
  BY OneGrantPerScope
<1>2. \A sc \in has : \E g \in grants : g.scope = sc
  BY DEF Members!Matching
<1>3. PICK q : q = [sc \in has |-> CHOOSE g \in grants : g.scope = sc]
  OBVIOUS
<1>4. q \in picks
  <2>1. \A sc \in has : q[sc] \in grants /\ q[sc].scope = sc
    BY <1>2, <1>3
  <2> QED BY <1>3, <2>1
<1>5. \A g \in grants : g.scope \in Members!Deciding(ctx) => g.scope \in has
  BY DEF Members!Matching
<1>6. ASSUME NEW p \in picks
      PROVE  (\E sc \in has : Members!Rank(p[sc].level) >= Members!Required(ctx)) <=> best
  <2>1. \A sc \in has : p[sc] \in grants /\ p[sc].scope = sc /\ sc \in Members!Deciding(ctx)
    BY <1>6
  <2>2. \A g \in grants : g.scope \in has => p[g.scope] = g
    BY <1>1, <2>1
  <2> HIDE DEF has, picks, grants
  <2>3. ASSUME NEW sc \in has, Members!Rank(p[sc].level) >= Members!Required(ctx) PROVE best
    BY <2>1, <2>3
  <2>4. ASSUME NEW g \in grants, g.scope \in Members!Deciding(ctx),
               Members!Rank(g.level) >= Members!Required(ctx)
        PROVE  \E sc \in has : Members!Rank(p[sc].level) >= Members!Required(ctx)
    BY <1>5, <2>2, <2>4
  <2> QED BY <2>3, <2>4
<1>7. {\E sc \in has : Members!Rank(p[sc].level) >= Members!Required(ctx) : p \in picks} = {best}
  <2>1. \A p \in picks : (\E sc \in has : Members!Rank(p[sc].level) >= Members!Required(ctx)) <=> best
    BY <1>6
  <2> DEFINE found(p) == \E sc \in has : Members!Rank(p[sc].level) >= Members!Required(ctx)
  <2>2. \A p \in picks : found(p) <=> best
    BY <2>1
  <2> HIDE DEF has, picks, best, grants, found
  <2>3. \A p \in picks : found(p) \in BOOLEAN /\ best \in BOOLEAN
    BY DEF found, best
  <2>4. \A p \in picks : found(p) = best
    BY <2>2, <2>3
  <2>5. {found(p) : p \in picks} = {best}
    BY <1>4, <2>4
  <2> QED BY <2>5 DEF found
<1>8. ctx.scope.kind = "all-functions" /\ ctx.action = "view"
        <=> ctx = [scope |-> Members!AllFunctions, action |-> "view"]
  BY DEF Members!Contexts, Members!Scopes, Members!AllFunctions, Members!Functions
<1>9. CASE perm = "owner"
  BY <1>9 DEF Members!Resolve, Members!Permitted
<1>10. CASE perm # "owner" /\ grants = {}
  <2>1. Members!Resolve(perm, body.grants, ctx) = {Members!Rank(perm) >= Members!Required(ctx)}
    BY <1>10 DEF Members!Resolve
  <2>2. Members!Permitted(perm, body.grants, ctx) <=> Members!Rank(perm) >= Members!Required(ctx)
    BY <1>10 DEF Members!Permitted
  <2>3. /\ Members!Permitted(perm, body.grants, ctx) \in BOOLEAN
        /\ (Members!Rank(perm) >= Members!Required(ctx)) \in BOOLEAN
    BY DEF Members!Permitted
  <2> QED BY <2>1, <2>2, <2>3
<1>11. CASE perm # "owner" /\ grants # {} /\ ctx.scope.kind = "all-functions" /\ ctx.action = "view"
  <2>1. Members!Resolve(perm, body.grants, ctx) = {TRUE}
    BY <1>11 DEF Members!Resolve
  <2>2. Members!Permitted(perm, body.grants, ctx) = TRUE
    BY <1>8, <1>11 DEF Members!Permitted
  <2> QED BY <2>1, <2>2
<1>12. CASE perm # "owner" /\ grants # {} /\ ~(ctx.scope.kind = "all-functions" /\ ctx.action = "view")
  <2>1. Members!Resolve(perm, body.grants, ctx) = {best}
    <3>1. Members!Resolve(perm, body.grants, ctx)
            = {\E sc \in has : Members!Rank(p[sc].level) >= Members!Required(ctx) : p \in picks}
      BY <1>12 DEF Members!Resolve
    <3> HIDE DEF has, picks, best, grants
    <3> QED BY <1>7, <3>1
  <2>2. Members!Permitted(perm, body.grants, ctx) <=> best
    BY <1>8, <1>12 DEF Members!Permitted
  <2>3. Members!Permitted(perm, body.grants, ctx) \in BOOLEAN /\ best \in BOOLEAN
    BY DEF Members!Permitted
  <2> HIDE DEF best, grants
  <2>4. Members!Permitted(perm, body.grants, ctx) = best
    BY <2>2, <2>3
  <2> QED BY <2>1, <2>4
<1> QED
  BY <1>9, <1>10, <1>11, <1>12

LEMMA GrantsAreSound ==
  ASSUME MembersInv
  PROVE  Members!GrantsDecide
<1>1. ASSUME NEW u \in Users, member[u] # None
      PROVE  member[u].perm \in Members!Perms /\ \E body \in Members!Bodies : member[u].grants = body.grants
  BY <1>1 DEF MembersInv, RowsAreSound, Members!MembersTypeOK, Members!Row
<1>2. Members!AccessIsMostPermissive
  BY <1>1, ResolveHasOneAnswer DEF Members!AccessIsMostPermissive
<1> QED
  BY <1>1, <1>2 DEF Members!GrantsDecide, Members!GrantsAreOneList

-----------------------------------------------------------------------------
(* The directory                                                             *)

\* What a request read is what is there, unless it was overtaken.
ReadIsCurrent ==
  \A q \in Slots : call[q] # None =>
    /\ call[q] \in Listed!Calls
    /\ call[q].kind = "merge" => call[q].id # call[q].target
    /\ call[q].kind = "email" => call[q].to \in Emails
    /\ ~call[q].overtaken => entry[call[q].id] = call[q].was /\ entry[call[q].target] = call[q].into

\* A deletion knows the open rows that refer to its entry since it counted none.
LateIsKnown ==
  \A q \in Slots : call[q] # None /\ call[q].kind = "delete" =>
    \A r \in tracked : r.open /\ Listed!RefersTo(r, call[q].was.email) => r \in call[q].late

DirectoryInv ==
  /\ Listed!TypeOK /\ call \in [Slots -> Listed!Calls \cup {None}]
  /\ ReadIsCurrent /\ LateIsKnown

LEMMA DirectoryInit == ASSUME DirectoryBounds PROVE Listed!Init => DirectoryInv
<1> SUFFICES ASSUME Listed!Init PROVE DirectoryInv
  OBVIOUS
<1>1. PICK address \in [Listing -> Emails] :
        /\ \A i, j \in Listing : address[i] = address[j] => i = j
        /\ entry = [i \in Listing |-> [email |-> address[i], active |-> TRUE, aliases |-> {}]]
  BY DEF Listed!Init
<1>2. tracked = {} /\ calls = 0 /\ call = [q \in Slots |-> None]
  BY DEF Listed!Init
<1>3. \A i \in Listing : entry[i] \in Listed!Entries /\ entry[i].email = address[i]
  BY <1>1 DEF Listed!Entries
<1>4. entry \in [Listing -> Listed!Entries \cup {None}]
  BY <1>1, <1>3
<1>5. Listed!TypeOK
  BY <1>1, <1>2, <1>3, <1>4 DEF Listed!TypeOK, DirectoryBounds
<1> QED
  BY <1>2, <1>5 DEF DirectoryInv, ReadIsCurrent, LateIsKnown

LEMMA DirectoryCall ==
  ASSUME DirectoryInv, NEW q \in Slots, call[q] # None
  PROVE  call[q] \in Listed!Calls
BY DEF DirectoryInv

\* A write tells the other requests that it overtook them, and which rows came.
LEMMA EndingKeepsReads ==
  ASSUME DirectoryBounds, DirectoryInv, NEW q, NEW ids, NEW after \in SUBSET Listed!Rows,
         Listed!Ending(q, ids, after), tracked' = after,
         \A i \in Listing \ ids : entry'[i] = entry[i]
  PROVE  call' \in [Slots -> Listed!Calls \cup {None}] /\ ReadIsCurrent' /\ LateIsKnown'
<1>1. call' = [p \in Slots |->
        IF p = q \/ call[p] = None THEN None
        ELSE [call[p] EXCEPT
                !.overtaken = @ \/ {call[p].id, call[p].target} \cap ids # {},
                !.late = @ \cup {r \in after \ tracked :
                           call[p].kind = "delete" /\ r.open /\ Listed!RefersTo(r, call[p].was.email)}]]
  BY DEF Listed!Ending
<1>2. ASSUME NEW p \in Slots, call'[p] # None
      PROVE  /\ call'[p] \in Listed!Calls
             /\ call'[p].kind = "merge" => call'[p].id # call'[p].target
             /\ call'[p].kind = "email" => call'[p].to \in Emails
             /\ ~call'[p].overtaken => entry'[call'[p].id] = call'[p].was
                                       /\ entry'[call'[p].target] = call'[p].into
             /\ call'[p].kind = "delete" =>
                  \A r \in tracked' : r.open /\ Listed!RefersTo(r, call'[p].was.email) => r \in call'[p].late
  <2>1. p # q /\ call[p] # None
    BY <1>1, <1>2
  <2>2. PICK c \in Listed!Calls : c = call[p]
    BY <2>1, DirectoryCall
  <2>3. PICK o : o = (c.overtaken \/ {c.id, c.target} \cap ids # {})
    OBVIOUS
  <2>4. PICK came : came = {r \in after \ tracked : c.kind = "delete" /\ r.open /\ Listed!RefersTo(r, c.was.email)}
    OBVIOUS
  <2>5. call'[p] = [c EXCEPT !.overtaken = o, !.late = @ \cup came]
    BY <1>1, <2>1, <2>2, <2>3, <2>4
  <2>6. o \in BOOLEAN /\ came \in SUBSET Listed!Rows
    BY <2>2, <2>3, <2>4 DEF Listed!Calls
  <2>7. PICK d : d = [c EXCEPT !.overtaken = o, !.late = @ \cup came]
    OBVIOUS
  <2>8. /\ d \in Listed!Calls /\ d.kind = c.kind /\ d.id = c.id /\ d.target = c.target /\ d.was = c.was
        /\ d.into = c.into /\ d.to = c.to /\ d.overtaken = o /\ d.late = c.late \cup came
    BY <2>6, <2>7 DEF Listed!Calls
  <2>9. call'[p] = d
    BY <2>5, <2>7
  <2>10. /\ c.kind = "merge" => c.id # c.target
         /\ c.kind = "email" => c.to \in Emails
         /\ ~c.overtaken => entry[c.id] = c.was /\ entry[c.target] = c.into
         /\ c.kind = "delete" =>
              \A r \in tracked : r.open /\ Listed!RefersTo(r, c.was.email) => r \in c.late
    BY <2>1, <2>2 DEF DirectoryInv, ReadIsCurrent, LateIsKnown
  <2>11. c.id \in Listing /\ c.target \in Listing
    BY DEF Listed!Calls
  <2>12. ~d.overtaken => entry'[d.id] = d.was /\ entry'[d.target] = d.into
    BY <2>3, <2>8, <2>10, <2>11
  <2>13. d.kind = "delete" => \A r \in tracked' : r.open /\ Listed!RefersTo(r, d.was.email) => r \in d.late
    BY <2>4, <2>8, <2>10
  <2> QED BY <2>8, <2>9, <2>10, <2>12, <2>13
<1>3. call' \in [Slots -> Listed!Calls \cup {None}]
  <2>1. \A p \in Slots : call'[p] \in Listed!Calls \cup {None}
    BY <1>2
  <2> QED BY <1>1, <2>1
<1>4. ReadIsCurrent'
  BY <1>2 DEF ReadIsCurrent
<1>5. LateIsKnown'
  BY <1>2 DEF LateIsKnown
<1> QED
  BY <1>3, <1>4, <1>5

\* No two entries share an address.
OwnAddress(e) == \A i, j \in Listing : e[i] # None /\ e[j] # None /\ e[i].email = e[j].email => i = j

OneRowPerKey(set) == \A r, s \in set : r.proc = s.proc /\ r.key = s.key => r = s

\* A write of entries and rows that keeps them well formed.
LEMMA WriteKeepsDirectory ==
  ASSUME DirectoryBounds, DirectoryInv, NEW q, NEW ids, NEW after \in SUBSET Listed!Rows,
         Listed!Ending(q, ids, after), tracked' = after, calls' = calls,
         \A i \in Listing \ ids : entry'[i] = entry[i],
         entry' \in [Listing -> Listed!Entries \cup {None}], OwnAddress(entry'), OneRowPerKey(after)
  PROVE  DirectoryInv'
<1>1. call' \in [Slots -> Listed!Calls \cup {None}] /\ ReadIsCurrent' /\ LateIsKnown'
  BY EndingKeepsReads
<1>2. Listed!TypeOK'
  BY <1>1 DEF DirectoryInv, Listed!TypeOK, OwnAddress, OneRowPerKey
<1> QED
  BY <1>1, <1>2 DEF DirectoryInv

\* An entry replaced, its address kept or free.
LEMMA ReplacedEntry ==
  ASSUME DirectoryBounds, DirectoryInv, NEW e \in [Listing -> Listed!Entries \cup {None}], OwnAddress(e),
         NEW id \in Listing, NEW new \in Listed!Entries \cup {None}, e[id] # None,
         new # None => \A i \in Listing \ {id} : e[i] # None => e[i].email # new.email,
         NEW e2, e2 = [e EXCEPT ![id] = new]
  PROVE  /\ e2 \in [Listing -> Listed!Entries \cup {None}] /\ OwnAddress(e2)
         /\ e2[id] = new /\ \A i \in Listing \ {id} : e2[i] = e[i]
<1>1. e2 \in [Listing -> Listed!Entries \cup {None}] /\ e2[id] = new /\ \A i \in Listing \ {id} : e2[i] = e[i]
  OBVIOUS
<1>2. OwnAddress(e2)
  BY <1>1 DEF OwnAddress
<1> QED
  BY <1>1, <1>2

\* The updateMany of merge and patchEntry leaves no row behind, and one row per
\* process and key.
LEMMA RepointedRows ==
  ASSUME DirectoryInv, NEW from, NEW to \in Emails, ~Listed!Clash(from, to)
  PROVE  /\ Listed!Repointed(from, to) \in SUBSET Listed!Rows
         /\ OneRowPerKey(Listed!Repointed(from, to))
         /\ from # to => \A r \in Listed!Repointed(from, to) : ~(r.email = from \/ r.key = from)
         /\ {r.proc : r \in Listed!Repointed(from, to)} = {r.proc : r \in tracked}
<1> DEFINE moved(r) == IF Listed!RefersTo(r, from) THEN [r EXCEPT !.key = to, !.email = to] ELSE r
<1>1. Listed!Repointed(from, to) = {moved(r) : r \in tracked}
  BY DEF Listed!Repointed
<1>2. \A r \in tracked : r \in Listed!Rows
  BY DEF DirectoryInv, Listed!TypeOK
<1>3. ASSUME NEW r \in tracked
      PROVE  /\ moved(r) \in Listed!Rows /\ moved(r).proc = r.proc
             /\ Listed!RefersTo(r, from) => moved(r).key = to /\ moved(r).email = to
             /\ ~Listed!RefersTo(r, from) => moved(r) = r
  BY <1>2 DEF Listed!Rows
<1>4. \A r, s \in tracked : r.proc = s.proc /\ r.key = s.key => r = s
  BY DEF DirectoryInv, Listed!TypeOK
<1>5. \A r, s \in tracked : r # s /\ r.proc = s.proc /\ Listed!RefersTo(r, from)
                            => ~Listed!RefersTo(s, from) /\ s.key # to
  BY DEF Listed!Clash
<1>6. \A r \in tracked : ~Listed!RefersTo(r, from) => r.email # from /\ r.key # from
  BY DEF Listed!RefersTo
<1> HIDE DEF moved
<1>7. ASSUME NEW r \in tracked, NEW s \in tracked, moved(r).proc = moved(s).proc, moved(r).key = moved(s).key
      PROVE  r = s
  BY <1>3, <1>4, <1>5, <1>7
<1>8. OneRowPerKey(Listed!Repointed(from, to))
  BY <1>1, <1>7 DEF OneRowPerKey
<1>9. ASSUME from # to, NEW r \in tracked PROVE moved(r).email # from /\ moved(r).key # from
  BY <1>3, <1>6, <1>9
<1>10. {moved(r).proc : r \in tracked} = {r.proc : r \in tracked}
  BY <1>3
<1>11. {r.proc : r \in Listed!Repointed(from, to)} = {moved(r).proc : r \in tracked}
  BY <1>1
<1> QED
  BY <1>1, <1>3, <1>8, <1>9, <1>10, <1>11

LEMMA EntriesNow ==
  ASSUME DirectoryInv
  PROVE  /\ entry \in [Listing -> Listed!Entries \cup {None}] /\ OwnAddress(entry)
         /\ tracked \in SUBSET Listed!Rows /\ OneRowPerKey(tracked)
BY DEF DirectoryInv, Listed!TypeOK, OwnAddress, OneRowPerKey

\* What every step but the deletion says of the aliases.
AliasesOf(e, e2) ==
  \A i \in Listing :
    \/ e[i] = None \/ e2[i] = None
    \/ e[i].aliases \subseteq e2[i].aliases
    \/ \E q \in Slots : call[q] # None /\ call'[q] = None /\ call[q].overtaken

LEMMA MergeKeepsDirectory ==
  ASSUME DirectoryBounds, DirectoryInv, NEW q \in Slots, Listed!Merge(q)
  PROVE  /\ DirectoryInv' /\ AliasesOf(entry, entry')
         /\ ~call[q].overtaken =>
              /\ \A r \in tracked' : ~(r.email = call[q].was.email \/ r.key = call[q].was.email)
              /\ {r.proc : r \in tracked'} = {r.proc : r \in tracked}
<1>1. call[q] # None /\ call[q].kind = "merge"
  BY DEF Listed!Merge
<1>2. PICK c \in Listed!Calls : c = call[q]
  BY <1>1, DirectoryCall
<1>3. PICK aliases : aliases = c.into.aliases \cup c.was.aliases \cup {c.was.email}
  OBVIOUS
<1>4. PICK after : after = Listed!Repointed(c.was.email, c.into.email)
  OBVIOUS
<1>5. /\ entry[c.id] # None /\ entry[c.target] # None /\ ~Listed!Clash(c.was.email, c.into.email)
      /\ tracked' = after /\ calls' = calls /\ Listed!Ending(q, {c.id, c.target}, after)
      /\ entry' = [entry EXCEPT ![c.target].aliases = aliases, ![c.id].active = FALSE]
  BY <1>2, <1>3, <1>4 DEF Listed!Merge
<1>6. /\ c.id \in Listing /\ c.target \in Listing /\ c.was \in Listed!Entries /\ c.into \in Listed!Entries
      /\ c.into.email \in Emails /\ aliases \in SUBSET (Names \cup Emails)
  BY <1>3 DEF Listed!Calls, Listed!Entries
<1>7. c.id # c.target /\ (~c.overtaken => entry[c.id] = c.was /\ entry[c.target] = c.into)
  BY <1>1, <1>2 DEF DirectoryInv, ReadIsCurrent
<1>8. entry[c.id] \in Listed!Entries /\ entry[c.target] \in Listed!Entries
  BY <1>5, <1>6, EntriesNow
<1>9. PICK kept : kept = [entry[c.target] EXCEPT !.aliases = aliases]
  OBVIOUS
<1>10. PICK gone : gone = [entry[c.id] EXCEPT !.active = FALSE]
  OBVIOUS
<1>11. /\ kept \in Listed!Entries /\ kept.email = entry[c.target].email /\ kept.aliases = aliases
       /\ gone \in Listed!Entries /\ gone.email = entry[c.id].email /\ gone.aliases = entry[c.id].aliases
  BY <1>6, <1>8, <1>9, <1>10 DEF Listed!Entries
<1>12. PICK e1 : e1 = [entry EXCEPT ![c.target] = kept]
  OBVIOUS
<1>13. /\ e1 \in [Listing -> Listed!Entries \cup {None}] /\ OwnAddress(e1)
       /\ e1[c.target] = kept /\ \A i \in Listing \ {c.target} : e1[i] = entry[i]
  <2>1. \A i \in Listing \ {c.target} : entry[i] # None => entry[i].email # kept.email
    BY <1>5, <1>6, <1>11, EntriesNow DEF OwnAddress
  <2> QED BY <1>5, <1>6, <1>11, <1>12, <2>1, EntriesNow, ReplacedEntry
<1>14. entry' = [e1 EXCEPT ![c.id] = gone]
  <2>1. e1[c.id] = entry[c.id]
    BY <1>6, <1>7, <1>13
  <2>2. entry' = [[entry EXCEPT ![c.target].aliases = aliases] EXCEPT ![c.id].active = FALSE]
    BY <1>5
  <2>3. [entry EXCEPT ![c.target].aliases = aliases] = e1
    BY <1>9, <1>12
  <2> QED BY <1>10, <2>1, <2>2, <2>3
<1>15. /\ entry' \in [Listing -> Listed!Entries \cup {None}] /\ OwnAddress(entry')
       /\ entry'[c.id] = gone /\ \A i \in Listing \ {c.id} : entry'[i] = e1[i]
  <2>1. e1[c.id] = entry[c.id]
    BY <1>6, <1>7, <1>13
  <2>2. \A i \in Listing \ {c.id} : e1[i] # None => e1[i].email # gone.email
    BY <1>5, <1>6, <1>11, <1>13, <2>1 DEF OwnAddress
  <2>3. PICK e2 : e2 = [e1 EXCEPT ![c.id] = gone]
    OBVIOUS
  <2>4. /\ e2 \in [Listing -> Listed!Entries \cup {None}] /\ OwnAddress(e2)
        /\ e2[c.id] = gone /\ \A i \in Listing \ {c.id} : e2[i] = e1[i]
    BY <1>5, <1>6, <1>11, <1>13, <2>1, <2>2, <2>3, ReplacedEntry
  <2> QED BY <1>14, <2>3, <2>4
<1>16. after \in SUBSET Listed!Rows /\ OneRowPerKey(after)
  BY <1>4, <1>5, <1>6, RepointedRows
<1>17. DirectoryInv'
  <2>1. \A i \in Listing \ {c.id, c.target} : entry'[i] = entry[i]
    BY <1>13, <1>15
  <2> QED BY <1>5, <1>15, <1>16, <2>1, WriteKeepsDirectory
<1>18. AliasesOf(entry, entry')
  <2>1. call'[q] = None
    BY <1>5 DEF Listed!Ending
  <2>2. CASE c.overtaken
    BY <1>1, <1>2, <2>1, <2>2 DEF AliasesOf
  <2>3. CASE ~c.overtaken
    <3>1. entry[c.target].aliases \subseteq aliases
      BY <1>3, <1>7, <2>3
    <3>2. \A i \in Listing : entry[i].aliases \subseteq entry'[i].aliases
      BY <1>6, <1>7, <1>11, <1>13, <1>15, <3>1
    <3> QED BY <3>2 DEF AliasesOf
  <2> QED BY <2>2, <2>3
<1>19. ASSUME ~c.overtaken PROVE c.was.email # c.into.email
  BY <1>5, <1>6, <1>7, <1>19, EntriesNow DEF OwnAddress
<1> QED
  BY <1>2, <1>4, <1>5, <1>6, <1>17, <1>18, <1>19, RepointedRows

LEMMA EmailKeepsDirectory ==
  ASSUME DirectoryBounds, DirectoryInv, NEW q \in Slots, Listed!Email(q)
  PROVE  DirectoryInv' /\ AliasesOf(entry, entry')
<1>1. call[q] # None /\ call[q].kind = "email"
  BY DEF Listed!Email
<1>2. PICK c \in Listed!Calls : c = call[q]
  BY <1>1, DirectoryCall
<1>3. PICK after : after = Listed!Repointed(c.was.email, c.to)
  OBVIOUS
<1>4. /\ entry[c.id] # None /\ ~Listed!Clash(c.was.email, c.to)
      /\ \A i \in Listing \ {c.id} : entry[i] # None => entry[i].email # c.to
      /\ tracked' = after /\ calls' = calls /\ Listed!Ending(q, {c.id}, after)
      /\ entry' = [entry EXCEPT ![c.id].email = c.to]
  BY <1>2, <1>3 DEF Listed!Email
<1>5. c.id \in Listing /\ c.to \in Emails
  BY <1>1, <1>2 DEF DirectoryInv, ReadIsCurrent, Listed!Calls
<1>6. entry[c.id] \in Listed!Entries
  BY <1>4, <1>5, EntriesNow
<1>7. PICK new : new = [entry[c.id] EXCEPT !.email = c.to]
  OBVIOUS
<1>8. new \in Listed!Entries /\ new.email = c.to /\ new.aliases = entry[c.id].aliases
  BY <1>5, <1>6, <1>7 DEF Listed!Entries
<1>9. entry' = [entry EXCEPT ![c.id] = new]
  BY <1>4, <1>7
<1>10. /\ entry' \in [Listing -> Listed!Entries \cup {None}] /\ OwnAddress(entry')
       /\ entry'[c.id] = new /\ \A i \in Listing \ {c.id} : entry'[i] = entry[i]
  <2>1. PICK e2 : e2 = [entry EXCEPT ![c.id] = new]
    OBVIOUS
  <2>2. /\ e2 \in [Listing -> Listed!Entries \cup {None}] /\ OwnAddress(e2)
        /\ e2[c.id] = new /\ \A i \in Listing \ {c.id} : e2[i] = entry[i]
    <3>1. \A i \in Listing \ {c.id} : entry[i] # None => entry[i].email # new.email
      BY <1>4, <1>8
    <3> QED BY <1>4, <1>5, <1>8, <2>1, <3>1, EntriesNow, ReplacedEntry
  <2> QED BY <1>9, <2>1, <2>2
<1>11. after \in SUBSET Listed!Rows /\ OneRowPerKey(after)
  BY <1>3, <1>4, <1>5, RepointedRows
<1>12. DirectoryInv'
  BY <1>4, <1>10, <1>11, WriteKeepsDirectory
<1>13. \A i \in Listing : entry[i].aliases \subseteq entry'[i].aliases
  BY <1>8, <1>10
<1> QED
  BY <1>12, <1>13 DEF AliasesOf

LEMMA DeleteKeepsDirectory ==
  ASSUME DirectoryBounds, DirectoryInv, NEW q \in Slots, Listed!Delete(q)
  PROVE  /\ DirectoryInv' /\ AliasesOf(entry, entry')
         /\ \A r \in tracked :
              r.open /\ call[q].was.email \in {r.email, r.key} => r \in call[q].late
<1>1. PICK c \in Listed!Calls : c = call[q]
  BY DirectoryCall DEF Listed!Delete
<1>2. /\ call[q] # None /\ c.kind = "delete" /\ entry[c.id] # None /\ c.id \in Listing
      /\ entry' = [entry EXCEPT ![c.id] = None] /\ Listed!Ending(q, {c.id}, tracked)
      /\ tracked' = tracked /\ calls' = calls
  BY <1>1 DEF Listed!Delete, Listed!Calls
<1>3. /\ entry' \in [Listing -> Listed!Entries \cup {None}] /\ OwnAddress(entry')
      /\ entry'[c.id] = None /\ \A i \in Listing \ {c.id} : entry'[i] = entry[i]
  BY <1>2, EntriesNow, ReplacedEntry
<1>4. DirectoryInv'
  BY <1>2, <1>3, EntriesNow, WriteKeepsDirectory
<1>5. AliasesOf(entry, entry')
  BY <1>3 DEF AliasesOf
<1>6. \A r \in tracked : r.open /\ Listed!RefersTo(r, c.was.email) => r \in c.late
  BY <1>1, <1>2 DEF DirectoryInv, LateIsKnown
<1> QED
  BY <1>1, <1>4, <1>5, <1>6 DEF Listed!RefersTo

LEMMA AliasKeepsDirectory ==
  ASSUME DirectoryBounds, DirectoryInv, NEW q \in Slots, Listed!Alias(q)
  PROVE  DirectoryInv' /\ AliasesOf(entry, entry')
<1>1. PICK c \in Listed!Calls : c = call[q]
  BY DirectoryCall DEF Listed!Alias
<1>2. /\ call[q] # None /\ c.kind = "alias" /\ entry[c.id] # None /\ c.id \in Listing
      /\ entry' = [entry EXCEPT ![c.id].aliases = Listed!WithAlias(c)] /\ Listed!Ending(q, {c.id}, tracked)
      /\ tracked' = tracked /\ calls' = calls
  BY <1>1 DEF Listed!Alias, Listed!Calls
<1>3. PICK new : new = [entry[c.id] EXCEPT !.aliases = Listed!WithAlias(c)]
  OBVIOUS
<1>4. Listed!WithAlias(c) \in SUBSET (Names \cup Emails) /\ c.was.aliases \subseteq Listed!WithAlias(c)
  BY DEF Listed!WithAlias, Listed!Calls, Listed!Entries
<1>5. entry[c.id] \in Listed!Entries
  BY <1>2, EntriesNow
<1>6. new \in Listed!Entries /\ new.email = entry[c.id].email /\ new.aliases = Listed!WithAlias(c)
  BY <1>3, <1>4, <1>5 DEF Listed!Entries
<1>7. entry' = [entry EXCEPT ![c.id] = new]
  BY <1>2, <1>3
<1>8. \A i \in Listing \ {c.id} : entry[i] # None => entry[i].email # new.email
  BY <1>2, <1>6, EntriesNow DEF OwnAddress
<1>9. /\ entry' \in [Listing -> Listed!Entries \cup {None}] /\ OwnAddress(entry')
      /\ entry'[c.id] = new /\ \A i \in Listing \ {c.id} : entry'[i] = entry[i]
  <2>1. PICK e2 : e2 = [entry EXCEPT ![c.id] = new]
    OBVIOUS
  <2>2. /\ e2 \in [Listing -> Listed!Entries \cup {None}] /\ OwnAddress(e2)
        /\ e2[c.id] = new /\ \A i \in Listing \ {c.id} : e2[i] = entry[i]
    BY <1>2, <1>6, <1>7, <1>8, <2>1, EntriesNow, ReplacedEntry
  <2> QED BY <1>7, <2>1, <2>2
<1>10. DirectoryInv'
  BY <1>2, <1>9, EntriesNow, WriteKeepsDirectory
<1>11. call'[q] = None
  BY <1>2 DEF Listed!Ending
<1>12. c.overtaken \/ entry[c.id] = c.was
  BY <1>1, <1>2 DEF DirectoryInv, ReadIsCurrent
<1>13. c.overtaken \/ \A i \in Listing : entry[i].aliases \subseteq entry'[i].aliases
  BY <1>4, <1>6, <1>9, <1>12
<1> QED
  BY <1>1, <1>2, <1>10, <1>11, <1>13 DEF AliasesOf

LEMMA ArchiveKeepsDirectory ==
  ASSUME DirectoryBounds, DirectoryInv, NEW i \in Listing, Listed!Archive(i)
  PROVE  DirectoryInv' /\ AliasesOf(entry, entry')
<1>1. /\ entry[i] # None /\ entry' = [entry EXCEPT ![i].active = FALSE] /\ Listed!Ending(None, {i}, tracked)
      /\ tracked' = tracked /\ calls' = calls
  BY DEF Listed!Archive
<1>2. PICK new : new = [entry[i] EXCEPT !.active = FALSE]
  OBVIOUS
<1>3. entry[i] \in Listed!Entries
  BY <1>1, EntriesNow
<1>4. new \in Listed!Entries /\ new.email = entry[i].email /\ new.aliases = entry[i].aliases
  BY <1>2, <1>3 DEF Listed!Entries
<1>5. entry' = [entry EXCEPT ![i] = new]
  BY <1>1, <1>2
<1>6. \A j \in Listing \ {i} : entry[j] # None => entry[j].email # new.email
  BY <1>1, <1>4, EntriesNow DEF OwnAddress
<1>7. /\ entry' \in [Listing -> Listed!Entries \cup {None}] /\ OwnAddress(entry')
      /\ entry'[i] = new /\ \A j \in Listing \ {i} : entry'[j] = entry[j]
  <2>1. PICK e2 : e2 = [entry EXCEPT ![i] = new]
    OBVIOUS
  <2>2. /\ e2 \in [Listing -> Listed!Entries \cup {None}] /\ OwnAddress(e2)
        /\ e2[i] = new /\ \A j \in Listing \ {i} : e2[j] = entry[j]
    BY <1>1, <1>4, <1>5, <1>6, <2>1, EntriesNow, ReplacedEntry
  <2> QED BY <1>5, <2>1, <2>2
<1>8. DirectoryInv'
  BY <1>1, <1>7, EntriesNow, WriteKeepsDirectory
<1>9. \A j \in Listing : entry[j].aliases \subseteq entry'[j].aliases
  BY <1>4, <1>7
<1> QED
  BY <1>8, <1>9 DEF AliasesOf

\* The tracking side: an audit run, a resolution, a corrected address.
LEMMA RowsKeepDirectory ==
  ASSUME DirectoryBounds, DirectoryInv, NEW after \in SUBSET Listed!Rows, OneRowPerKey(after),
         Listed!WriteRows(after)
  PROVE  DirectoryInv' /\ UNCHANGED entry
<1>1. tracked' = after /\ Listed!Ending(None, {}, after) /\ UNCHANGED <<entry, calls>>
  BY DEF Listed!WriteRows
<1> QED
  BY <1>1, EntriesNow, WriteKeepsDirectory DEF OwnAddress

LEMMA TrackingKeepsDirectory ==
  ASSUME DirectoryBounds, DirectoryInv,
         \/ \E p \in Processes, i \in Listing : Listed!Flag(p, i)
         \/ \E r \in tracked : Listed!Settle(r)
         \/ \E r \in tracked, e \in Emails : Listed!Readdress(r, e)
  PROVE  DirectoryInv' /\ UNCHANGED entry
<1>1. tracked \in SUBSET Listed!Rows /\ OneRowPerKey(tracked)
  BY EntriesNow
<1>2. ASSUME NEW r \in tracked, NEW new \in Listed!Rows, new.proc = r.proc, new.key = r.key,
             Listed!WriteRows((tracked \ {r}) \cup {new})
      PROVE  DirectoryInv' /\ UNCHANGED entry
  <2>1. OneRowPerKey((tracked \ {r}) \cup {new})
    BY <1>1, <1>2 DEF OneRowPerKey
  <2> QED BY <1>1, <1>2, <2>1, RowsKeepDirectory
<1>3. ASSUME NEW p \in Processes, NEW i \in Listing, Listed!Flag(p, i)
      PROVE  DirectoryInv' /\ UNCHANGED entry
  <2>1. PICK k : k = entry[i].email
    OBVIOUS
  <2>2. PICK mine : mine = {r \in tracked : r.proc = p /\ r.key = k}
    OBVIOUS
  <2>3. k \in Emails
    BY <1>3, <2>1, EntriesNow DEF Listed!Flag, Listed!Entries
  <2>4. CASE mine = {}
    <3>1. PICK new : new = [proc |-> p, key |-> k, email |-> k, open |-> TRUE]
      OBVIOUS
    <3>2. new \in Listed!Rows /\ new.proc = p /\ new.key = k
      BY <2>3, <3>1 DEF Listed!Rows
    <3>3. OneRowPerKey(tracked \cup {new})
      BY <1>1, <2>2, <2>4, <3>2 DEF OneRowPerKey
    <3>4. Listed!WriteRows(tracked \cup {new})
      BY <1>3, <2>1, <2>2, <2>4, <3>1 DEF Listed!Flag
    <3> QED BY <1>1, <3>2, <3>3, <3>4, RowsKeepDirectory
  <2>5. CASE mine # {}
    <3>1. PICK r \in tracked : r \in mine
      BY <2>2, <2>5
    <3>2. mine = {r}
      BY <1>1, <2>2, <3>1 DEF OneRowPerKey
    <3>3. PICK new : new = [r EXCEPT !.open = TRUE]
      OBVIOUS
    <3>4. new \in Listed!Rows /\ new.proc = r.proc /\ new.key = r.key
      BY <1>1, <3>3 DEF Listed!Rows
    <3>5. {[s EXCEPT !.open = TRUE] : s \in mine} = {new}
      BY <3>2, <3>3
    <3>6. Listed!WriteRows((tracked \ mine) \cup {[s EXCEPT !.open = TRUE] : s \in mine})
      BY <1>3, <2>1, <2>2, <2>5 DEF Listed!Flag
    <3>7. Listed!WriteRows((tracked \ {r}) \cup {new})
      BY <3>2, <3>5, <3>6
    <3> QED BY <1>2, <3>4, <3>7
  <2> QED BY <2>4, <2>5
<1>4. ASSUME NEW r \in tracked, Listed!Settle(r) PROVE DirectoryInv' /\ UNCHANGED entry
  <2>1. PICK new : new = [r EXCEPT !.open = FALSE]
    OBVIOUS
  <2>2. new \in Listed!Rows /\ new.proc = r.proc /\ new.key = r.key
    BY <1>1, <2>1 DEF Listed!Rows
  <2>3. Listed!WriteRows((tracked \ {r}) \cup {new})
    BY <1>4, <2>1 DEF Listed!Settle
  <2> QED BY <1>2, <2>2, <2>3
<1>5. ASSUME NEW r \in tracked, NEW e \in Emails, Listed!Readdress(r, e)
      PROVE  DirectoryInv' /\ UNCHANGED entry
  <2>1. PICK new : new = [r EXCEPT !.email = e]
    OBVIOUS
  <2>2. new \in Listed!Rows /\ new.proc = r.proc /\ new.key = r.key
    BY <1>1, <2>1 DEF Listed!Rows
  <2>3. Listed!WriteRows((tracked \ {r}) \cup {new})
    BY <1>5, <2>1 DEF Listed!Readdress
  <2> QED BY <1>2, <2>2, <2>3
<1> QED
  BY <1>3, <1>4, <1>5

\* A request reads entries that are there.
LEMMA ReadKeepsDirectory ==
  ASSUME DirectoryBounds, DirectoryInv, NEW q \in Slots, NEW kind \in Listed!Kinds, NEW i \in Listing,
         NEW j \in Listing, NEW to \in Emails \cup Names, Listed!Read(q, kind, i, j, to),
         kind = "merge" => i # j, kind = "email" => to \in Emails,
         kind = "delete" => ~\E r \in tracked : r.open /\ Listed!RefersTo(r, entry[i].email)
  PROVE  DirectoryInv' /\ UNCHANGED entry
<1>1. /\ call[q] = None /\ calls < MaxCalls /\ entry[i] # None /\ entry[j] # None
      /\ calls' = calls + 1 /\ UNCHANGED <<entry, tracked>>
  BY DEF Listed!Read
<1>2. PICK c : c = [kind |-> kind, id |-> i, target |-> j, was |-> entry[i], into |-> entry[j], to |-> to,
                    overtaken |-> FALSE, late |-> {}]
  OBVIOUS
<1>3. call' = [call EXCEPT ![q] = c]
  BY <1>2 DEF Listed!Read
<1>4. entry[i] \in Listed!Entries /\ entry[j] \in Listed!Entries
  BY <1>1, EntriesNow
<1>5. /\ c \in Listed!Calls /\ c.kind = kind /\ c.id = i /\ c.target = j /\ c.was = entry[i]
      /\ c.into = entry[j] /\ c.to = to /\ c.late = {}
  BY <1>2, <1>4 DEF Listed!Calls
<1>6. call' \in [Slots -> Listed!Calls \cup {None}] /\ call'[q] = c /\ \A p \in Slots : p # q => call'[p] = call[p]
  BY <1>3, <1>5 DEF DirectoryInv
<1>7. ReadIsCurrent'
  BY <1>1, <1>5, <1>6 DEF DirectoryInv, ReadIsCurrent
<1>8. LateIsKnown'
  <2>1. kind = "delete" => ~\E r \in tracked : r.open /\ Listed!RefersTo(r, c.was.email)
    BY <1>5
  <2> QED BY <1>1, <1>5, <1>6, <2>1 DEF DirectoryInv, LateIsKnown
<1>9. calls' \in 0..MaxCalls
  BY <1>1 DEF DirectoryInv, Listed!TypeOK, DirectoryBounds
<1>10. Listed!TypeOK'
  BY <1>1, <1>6, <1>9 DEF DirectoryInv, Listed!TypeOK
<1> QED
  BY <1>1, <1>6, <1>7, <1>8, <1>10 DEF DirectoryInv

LEMMA ReadsKeepDirectory ==
  ASSUME DirectoryBounds, DirectoryInv, NEW q \in Slots,
         \/ \E i, j \in Listing : Listed!ReadMerge(q, i, j)
         \/ \E i \in Listing, e \in Emails : Listed!ReadEmail(q, i, e)
         \/ \E i \in Listing : Listed!ReadDelete(q, i)
         \/ \E i \in Listing, n \in Names : Listed!ReadAlias(q, i, n)
  PROVE  DirectoryInv' /\ UNCHANGED entry
<1>1. \A i \in Listing : entry[i] # None => entry[i].email \in Emails
  BY EntriesNow DEF Listed!Entries
<1>2. ASSUME NEW i \in Listing, NEW j \in Listing, Listed!ReadMerge(q, i, j)
      PROVE  DirectoryInv' /\ UNCHANGED entry
  BY <1>1, <1>2, ReadKeepsDirectory DEF Listed!ReadMerge, Listed!Kinds
<1>3. ASSUME NEW i \in Listing, NEW e \in Emails, Listed!ReadEmail(q, i, e)
      PROVE  DirectoryInv' /\ UNCHANGED entry
  BY <1>3, ReadKeepsDirectory DEF Listed!ReadEmail, Listed!Kinds
<1>4. ASSUME NEW i \in Listing, Listed!ReadDelete(q, i) PROVE DirectoryInv' /\ UNCHANGED entry
  BY <1>1, <1>4, ReadKeepsDirectory DEF Listed!ReadDelete, Listed!Kinds
<1>5. ASSUME NEW i \in Listing, NEW n \in Names, Listed!ReadAlias(q, i, n)
      PROVE  DirectoryInv' /\ UNCHANGED entry
  BY <1>5, ReadKeepsDirectory DEF Listed!ReadAlias, Listed!Kinds
<1> QED
  BY <1>2, <1>3, <1>4, <1>5

LEMMA FailKeepsDirectory ==
  ASSUME DirectoryBounds, DirectoryInv, NEW q \in Slots, Listed!Fail(q)
  PROVE  DirectoryInv' /\ UNCHANGED entry
<1>1. call' = [call EXCEPT ![q] = None] /\ UNCHANGED <<entry, tracked, calls>>
  BY DEF Listed!Fail
<1>2. call' \in [Slots -> Listed!Calls \cup {None}] /\ call'[q] = None
      /\ \A p \in Slots : p # q => call'[p] = call[p]
  BY <1>1 DEF DirectoryInv
<1>3. ReadIsCurrent' /\ LateIsKnown'
  BY <1>1, <1>2 DEF DirectoryInv, ReadIsCurrent, LateIsKnown
<1>4. Listed!TypeOK'
  BY <1>1, <1>2 DEF DirectoryInv, Listed!TypeOK
<1> QED
  BY <1>1, <1>2, <1>3, <1>4 DEF DirectoryInv

LEMMA DirectoryStep ==
  ASSUME DirectoryBounds, DirectoryInv, [Listed!Next]_(Listed!vars)
  PROVE  DirectoryInv' /\ AliasesOf(entry, entry')
<1>1. UNCHANGED entry => AliasesOf(entry, entry')
  BY DEF AliasesOf
<1>2. CASE UNCHANGED Listed!vars
  <2>1. DirectoryInv'
    BY <1>2 DEF Listed!vars, DirectoryInv, Listed!TypeOK, ReadIsCurrent, LateIsKnown
  <2> QED BY <1>1, <1>2, <2>1 DEF Listed!vars
<1>3. ASSUME NEW q \in Slots,
             Listed!Merge(q) \/ Listed!Email(q) \/ Listed!Delete(q) \/ Listed!Alias(q) \/ Listed!Fail(q)
      PROVE  DirectoryInv' /\ AliasesOf(entry, entry')
  BY <1>1, <1>3, MergeKeepsDirectory, EmailKeepsDirectory, DeleteKeepsDirectory, AliasKeepsDirectory,
     FailKeepsDirectory
<1> QED
  BY <1>1, <1>2, <1>3, ReadsKeepDirectory, ArchiveKeepsDirectory, TrackingKeepsDirectory DEF Listed!Next

-----------------------------------------------------------------------------
(* Presence                                                                  *)

\* What an update of the registry's maps finds in them.
MapsTyped ==
  /\ bucket \in [Procs -> SUBSET Watching!Sockets]
  /\ index \in [Watching!Sockets -> Procs \cup {None}]
  /\ rooms \in [Watching!Sockets -> SUBSET Procs]
  /\ late \in [Watching!Sockets -> SUBSET Procs]

PresenceInv == MapsTyped /\ Watching!PresenceIsConsistent

LEMMA PresenceInit == ASSUME NoneIsNoProcess PROVE Watching!Init => PresenceInv
BY DEF NoneIsNoProcess, Watching!Init, PresenceInv, MapsTyped, Watching!PresenceIsConsistent,
       Watching!IndexedIsPresent, Watching!GhostsWereLate

\* A join that finishes moves the socket's entry; the bucket of the process it
\* was in is left to a ghost, which is noted.
LEMMA FinishJoinKeepsPresence ==
  ASSUME NoneIsNoProcess, PresenceInv, NEW s \in Watching!Sockets, NEW p \in Procs,
         Watching!FinishJoin(s, p)
  PROVE  PresenceInv'
<1>1. /\ \A q \in Procs : bucket'[q] = IF q = p THEN bucket[q] \cup {s} ELSE bucket[q]
      /\ \A t \in Watching!Sockets : index'[t] = IF t = s THEN p ELSE index[t]
      /\ \A t \in Watching!Sockets :
           rooms'[t] = IF t = s /\ s \notin closed THEN rooms[t] \cup {p} ELSE rooms[t]
      /\ closed' = closed
  BY DEF Watching!FinishJoin, PresenceInv, MapsTyped
<1>2. /\ \A t \in Watching!Sockets : late[t] \subseteq late'[t]
      /\ s \in closed => p \in late'[s]
      /\ index[s] \notin {None, p} => index[s] \in late'[s]
  BY DEF Watching!FinishJoin, PresenceInv, MapsTyped, NoneIsNoProcess
<1>3. MapsTyped'
  <2>1. /\ bucket' \in [Procs -> SUBSET Watching!Sockets]
        /\ index' \in [Watching!Sockets -> Procs \cup {None}]
    BY DEF Watching!FinishJoin, PresenceInv, MapsTyped
  <2>2. rooms' \in [Watching!Sockets -> SUBSET Procs]
    BY DEF Watching!FinishJoin, PresenceInv, MapsTyped
  <2>3. late' \in [Watching!Sockets -> SUBSET Procs]
    BY DEF Watching!FinishJoin, PresenceInv, MapsTyped
  <2> QED BY <2>1, <2>2, <2>3 DEF MapsTyped, Watching!Sockets
<1>4. Watching!IndexedIsPresent'
  <2> SUFFICES ASSUME NEW t \in Watching!Sockets, index'[t] # None
               PROVE  /\ t \in bucket'[index'[t]]
                      /\ t \notin closed' => index'[t] \in rooms'[t]
    BY DEF Watching!IndexedIsPresent, Watching!Sockets
  <2>1. CASE t = s
    BY <1>1, <2>1
  <2>2. CASE t # s
    <3>1. index'[t] = index[t] /\ index[t] \in Procs
      BY <1>1, <2>2 DEF PresenceInv, MapsTyped
    <3>2. t \in bucket[index[t]] /\ (t \notin closed => index[t] \in rooms[t])
      BY <3>1 DEF PresenceInv, Watching!PresenceIsConsistent, Watching!IndexedIsPresent
    <3>3. bucket[index[t]] \subseteq bucket'[index[t]]
      BY <1>1, <3>1
    <3>4. rooms'[t] = rooms[t] /\ closed' = closed
      BY <1>1, <2>2
    <3> QED BY <3>1, <3>2, <3>3, <3>4
  <2> QED BY <2>1, <2>2
<1>5. Watching!GhostsWereLate'
  <2> SUFFICES ASSUME NEW q \in Procs, NEW t \in bucket'[q], index'[t] # q \/ t \in closed'
               PROVE  q \in late'[t]
    BY DEF Watching!GhostsWereLate
  <2>1. t \in Watching!Sockets
    BY <1>3 DEF MapsTyped, Watching!Sockets
  <2>2. CASE t # s
    <3>1. t \in bucket[q] /\ (index[t] # q \/ t \in closed)
      BY <1>1, <2>1, <2>2
    <3>2. q \in late[t]
      BY <3>1 DEF PresenceInv, Watching!PresenceIsConsistent, Watching!GhostsWereLate
    <3> QED BY <1>2, <2>1, <3>2
  <2>3. CASE t = s /\ q = p
    BY <1>1, <1>2, <2>3
  <2>4. CASE t = s /\ q # p
    BY <1>1, <1>2, <2>4 DEF NoneIsNoProcess, PresenceInv, Watching!PresenceIsConsistent,
                            Watching!GhostsWereLate
  <2> QED BY <2>2, <2>3, <2>4
<1> QED
  BY <1>3, <1>4, <1>5 DEF PresenceInv, Watching!PresenceIsConsistent

\* Leaving the registry takes the socket out of the bucket it is indexed under.
\* Whatever bucket it stays in, it was a ghost there before.
LEMMA UnregisterKeepsPresence ==
  ASSUME PresenceInv, NEW s \in Watching!Sockets, Watching!Unregister(s),
         closed' = closed \/ closed' = closed \cup {s},
         rooms' \in [Watching!Sockets -> SUBSET Procs],
         \A t \in Watching!Sockets : t # s => rooms'[t] = rooms[t],
         late' \in [Watching!Sockets -> SUBSET Procs],
         \A t \in Watching!Sockets : late[t] \subseteq late'[t]
  PROVE  PresenceInv'
<1>1. /\ \A q \in Procs : bucket'[q] = IF index[s] = q THEN bucket[q] \ {s} ELSE bucket[q]
      /\ \A t \in Watching!Sockets : index'[t] = IF t = s THEN None ELSE index[t]
  BY DEF Watching!Unregister, PresenceInv, MapsTyped
<1>2. MapsTyped'
  <2>1. /\ bucket' \in [Procs -> SUBSET Watching!Sockets]
        /\ index' \in [Watching!Sockets -> Procs \cup {None}]
    BY DEF Watching!Unregister, PresenceInv, MapsTyped
  <2> QED BY <2>1 DEF MapsTyped, Watching!Sockets
<1>3. Watching!IndexedIsPresent'
  <2> SUFFICES ASSUME NEW t \in Watching!Sockets, index'[t] # None
               PROVE  /\ t \in bucket'[index'[t]]
                      /\ t \notin closed' => index'[t] \in rooms'[t]
    BY DEF Watching!IndexedIsPresent, Watching!Sockets
  <2>1. t # s /\ index'[t] = index[t] /\ index[t] \in Procs
    BY <1>1 DEF PresenceInv, MapsTyped
  <2>2. t \in bucket[index[t]] /\ (t \notin closed => index[t] \in rooms[t])
    BY <2>1 DEF PresenceInv, Watching!PresenceIsConsistent, Watching!IndexedIsPresent
  <2> QED BY <1>1, <2>1, <2>2
<1>4. Watching!GhostsWereLate'
  <2> SUFFICES ASSUME NEW q \in Procs, NEW t \in bucket'[q], index'[t] # q \/ t \in closed'
               PROVE  q \in late'[t]
    BY DEF Watching!GhostsWereLate
  <2>1. t \in Watching!Sockets /\ t \in bucket[q]
    BY <1>1, <1>2 DEF MapsTyped, Watching!Sockets
  <2>2. index[t] # q \/ t \in closed
    BY <1>1, <2>1
  <2> QED
    BY <2>1, <2>2 DEF PresenceInv, Watching!PresenceIsConsistent, Watching!GhostsWereLate
<1> QED
  BY <1>2, <1>3, <1>4 DEF PresenceInv, Watching!PresenceIsConsistent

LEMMA PresenceStep ==
  ASSUME NoneIsNoProcess
  PROVE  PresenceInv /\ [Watching!Next]_(Watching!vars) => PresenceInv'
<1> SUFFICES ASSUME PresenceInv, [Watching!Next]_(Watching!vars) PROVE PresenceInv'
  OBVIOUS
<1>1. ASSUME UNCHANGED <<closed, rooms, bucket, index, late>> PROVE PresenceInv'
  BY <1>1 DEF PresenceInv, MapsTyped, Watching!PresenceIsConsistent, Watching!IndexedIsPresent,
              Watching!GhostsWereLate, Watching!Sockets
<1>2. CASE UNCHANGED Watching!vars
  BY <1>1, <1>2 DEF Watching!vars, Watching!server
<1>3. ASSUME NEW b \in Browsers,
             Watching!Drop(b) \/ Watching!Reconnect(b) \/ \E p \in Procs \cup {None} : Watching!Open(b, p)
      PROVE  PresenceInv'
  BY <1>1, <1>3 DEF Watching!Drop, Watching!Reconnect, Watching!Open
<1>4. ASSUME NEW s \in Watching!Sockets, Watching!BeginJoin(s) PROVE PresenceInv'
  BY <1>1, <1>4 DEF Watching!BeginJoin
<1>5. ASSUME NEW s \in Watching!Sockets, NEW p \in Procs, Watching!RefuseJoin(s, p) PROVE PresenceInv'
  BY <1>1, <1>5 DEF Watching!RefuseJoin
<1>6. ASSUME NEW s \in Watching!Sockets, NEW p \in Procs, Watching!FinishJoin(s, p) PROVE PresenceInv'
  BY <1>6, FinishJoinKeepsPresence
<1>7. ASSUME NEW s \in Watching!Sockets, Watching!Leave(s) PROVE PresenceInv'
  <2>1. /\ rooms' \in [Watching!Sockets -> SUBSET Procs]
        /\ \A t \in Watching!Sockets : t # s => rooms'[t] = rooms[t]
    BY <1>7 DEF Watching!Leave, PresenceInv, MapsTyped
  <2>2. /\ late' \in [Watching!Sockets -> SUBSET Procs]
        /\ \A t \in Watching!Sockets : late[t] \subseteq late'[t]
    BY <1>7 DEF Watching!Leave, PresenceInv, MapsTyped
  <2>3. Watching!Unregister(s) /\ closed' = closed
    BY <1>7 DEF Watching!Leave
  <2> QED BY <2>1, <2>2, <2>3, UnregisterKeepsPresence
<1>8. ASSUME NEW s \in Watching!Sockets, Watching!Disconnect(s) PROVE PresenceInv'
  <2>1. /\ rooms' \in [Watching!Sockets -> SUBSET Procs]
        /\ \A t \in Watching!Sockets : t # s => rooms'[t] = rooms[t]
    BY <1>8 DEF Watching!Disconnect, PresenceInv, MapsTyped
  <2>2. /\ late' \in [Watching!Sockets -> SUBSET Procs]
        /\ \A t \in Watching!Sockets : late[t] \subseteq late'[t]
    BY <1>8 DEF Watching!Disconnect, PresenceInv, MapsTyped
  <2>3. Watching!Unregister(s) /\ closed' = closed \cup {s}
    BY <1>8 DEF Watching!Disconnect
  <2> QED BY <2>1, <2>2, <2>3, UnregisterKeepsPresence
<1> QED
  BY <1>2, <1>3, <1>4, <1>5, <1>6, <1>7, <1>8 DEF Watching!Next, Watching!Serve

\* A socket is sent two messages for every process opened, and one for being
\* the next: no more than that are waiting or being checked.
JoinsOwed(s) == 2 * views[s[1]] + IF 1 < s[2] /\ s[2] <= socket[s[1]] THEN 1 ELSE 0

WatchingBounded ==
  \A s \in Watching!Sockets, p \in Procs : checks[s][p] + Len(inbox[s]) <= JoinsOwed(s)

WatchingTypes ==
  /\ view \in [Browsers -> Procs \cup {None}]
  /\ views \in [Browsers -> 0..MaxViews]
  /\ socket \in [Browsers -> 1..MaxSockets]
  /\ online \in [Browsers -> BOOLEAN]
  /\ inbox \in [Watching!Sockets -> Seq(Watching!Msgs)]
  /\ checks \in [Watching!Sockets -> [Procs -> Nat]]
  /\ closed \subseteq Watching!Sockets
  \* A browser without a connection has a socket left to reconnect with.
  /\ \A b \in Browsers : ~online[b] => socket[b] < MaxSockets

WatchingInv == WatchingTypes /\ WatchingBounded

LEMMA WatchingInit == ASSUME BrowserBounds PROVE Watching!Init => WatchingInv
BY DEF BrowserBounds, Watching!Init, WatchingInv, WatchingTypes, WatchingBounded, JoinsOwed,
       Watching!Sockets

\* A message about a process, or none.
LEMMA MsgIsShort ==
  \A type \in {"join", "leave"}, p \in Procs \cup {None} :
    Watching!Msg(type, p) \in Seq(Watching!Msgs) /\ Len(Watching!Msg(type, p)) <= 1
<1> SUFFICES ASSUME NEW type \in {"join", "leave"}, NEW p \in Procs \cup {None}
             PROVE  Watching!Msg(type, p) \in Seq(Watching!Msgs) /\ Len(Watching!Msg(type, p)) <= 1
  OBVIOUS
<1>1. CASE p = None
  <2>1. Watching!Msg(type, p) = <<>>
    BY <1>1 DEF Watching!Msg
  <2> QED BY <2>1
<1>2. CASE p # None
  <2>1. PICK m \in Watching!Msgs : m = [type |-> type, proc |-> p]
    BY <1>2 DEF Watching!Msgs
  <2>2. Watching!Msg(type, p) = <<m>>
    BY <1>2, <2>1 DEF Watching!Msg
  <2> QED BY <2>2
<1> QED BY <1>1, <1>2

LEMMA AppendedSeq ==
  \A q, m \in Seq(Watching!Msgs) : q \o m \in Seq(Watching!Msgs) /\ Len(q \o m) = Len(q) + Len(m)
OBVIOUS

LEMMA OpenKeepsWatching ==
  ASSUME BrowserBounds, WatchingInv, NEW b \in Browsers, NEW p \in Procs \cup {None},
         Watching!Open(b, p)
  PROVE  WatchingInv'
<1> DEFINE sent == Watching!Msg("leave", view[b]) \o Watching!Msg("join", p)
           s == IF online[b] THEN <<b, socket[b]>> ELSE <<b, socket[b] + 1>>
<1>1. sent \in Seq(Watching!Msgs) /\ Len(sent) <= 2
  <2>1. view[b] \in Procs \cup {None}
    BY DEF WatchingInv, WatchingTypes
  <2>2. /\ Watching!Msg("leave", view[b]) \in Seq(Watching!Msgs)
        /\ Len(Watching!Msg("leave", view[b])) <= 1
        /\ Watching!Msg("join", p) \in Seq(Watching!Msgs) /\ Len(Watching!Msg("join", p)) <= 1
    BY <2>1, MsgIsShort
  <2> HIDE DEF sent
  <2>3. Len(Watching!Msg("leave", view[b])) \in Nat /\ Len(Watching!Msg("join", p)) \in Nat
    BY <2>2
  <2> QED BY <2>2, <2>3, AppendedSeq DEF sent
<1>2. s \in Watching!Sockets /\ s[1] = b
  BY DEF WatchingInv, WatchingTypes, Watching!Sockets, BrowserBounds
<1> HIDE DEF sent, s
<1>3. inbox' = [inbox EXCEPT ![s] = inbox[s] \o sent]
  BY DEF Watching!Open, Watching!Emit, sent, s
<1>4. inbox[s] \in Seq(Watching!Msgs) /\ inbox[s] \o sent \in Seq(Watching!Msgs)
      /\ Len(inbox[s] \o sent) = Len(inbox[s]) + Len(sent)
  BY <1>1, <1>2, AppendedSeq DEF WatchingInv, WatchingTypes
<1>5. WatchingTypes'
  <2>1. inbox' \in [Watching!Sockets -> Seq(Watching!Msgs)]
    BY <1>3, <1>4 DEF WatchingInv, WatchingTypes
  <2>2. views' \in [Browsers -> 0..MaxViews]
    BY DEF Watching!Open, WatchingInv, WatchingTypes, BrowserBounds
  <2> QED
    BY <2>1, <2>2 DEF Watching!Open, WatchingInv, WatchingTypes, Watching!Sockets, Watching!Msgs
<1>6. ASSUME NEW t \in Watching!Sockets, NEW q \in Procs
      PROVE  checks'[t][q] + Len(inbox'[t]) <= JoinsOwed(t)'
  <2>1. /\ checks[t][q] \in Nat /\ Len(inbox[t]) \in Nat /\ t[1] \in Browsers /\ t[2] \in Nat
        /\ views[t[1]] \in Nat /\ Len(sent) \in Nat /\ socket[t[1]] \in Nat
    BY <1>1 DEF WatchingInv, WatchingTypes, Watching!Sockets, BrowserBounds
  <2>2. checks[t][q] + Len(inbox[t]) <= JoinsOwed(t)
    BY DEF WatchingInv, WatchingBounded
  <2>3. checks' = checks /\ socket' = socket
        /\ views'[t[1]] = IF t[1] = b THEN views[t[1]] + 1 ELSE views[t[1]]
    BY <2>1 DEF Watching!Open, WatchingInv, WatchingTypes
  <2>4. Len(inbox'[t]) = IF t = s THEN Len(inbox[t]) + Len(sent) ELSE Len(inbox[t])
    BY <1>3, <1>4 DEF WatchingInv, WatchingTypes
  <2>5. JoinsOwed(t)' = JoinsOwed(t) + 2 * (views'[t[1]] - views[t[1]]) /\ JoinsOwed(t) \in Nat
    BY <2>1, <2>3 DEF JoinsOwed
  <2>6. CASE t = s
    <3>1. views'[t[1]] = views[t[1]] + 1 /\ checks'[t][q] = checks[t][q]
      BY <1>2, <2>3, <2>6
    <3>2. JoinsOwed(t)' = JoinsOwed(t) + 2
      BY <2>1, <2>5, <3>1
    <3>3. Len(inbox'[t]) = Len(inbox[t]) + Len(sent)
      BY <2>4, <2>6
    <3> QED BY <1>1, <2>1, <2>2, <2>5, <3>1, <3>2, <3>3
  <2>7. CASE t # s
    <3>1. Len(inbox'[t]) = Len(inbox[t]) /\ checks'[t][q] = checks[t][q]
      BY <2>3, <2>4, <2>7
    <3>2. views[t[1]] <= views'[t[1]] /\ views'[t[1]] \in Nat
      BY <2>1, <2>3
    <3>3. JoinsOwed(t) <= JoinsOwed(t)' /\ JoinsOwed(t)' \in Int
      BY <2>1, <2>5, <3>2
    <3>4. checks[t][q] \in Nat /\ Len(inbox[t]) \in Nat /\ JoinsOwed(t) \in Nat
      BY <2>1, <2>5
    <3> QED BY <2>2, <3>1, <3>3, <3>4
  <2> QED BY <2>6, <2>7
<1> QED
  BY <1>5, <1>6 DEF WatchingInv, WatchingBounded, Watching!Sockets

LEMMA DropKeepsWatching ==
  ASSUME BrowserBounds, WatchingInv, NEW b \in Browsers, Watching!Drop(b)
  PROVE  WatchingInv'
<1> DEFINE s == <<b, socket[b]>>
<1>1. s \in Watching!Sockets
  BY DEF WatchingInv, WatchingTypes, Watching!Sockets
<1> HIDE DEF s
<1>2. PICK n \in 0..Len(inbox[s]) : inbox' = [inbox EXCEPT ![s] = SubSeq(inbox[s], 1, n)]
  BY DEF Watching!Drop, s
<1>3. inbox[s] \in Seq(Watching!Msgs)
  BY <1>1 DEF WatchingInv, WatchingTypes
<1>4. SubSeq(inbox[s], 1, n) \in Seq(Watching!Msgs) /\ Len(SubSeq(inbox[s], 1, n)) <= Len(inbox[s])
      /\ Len(SubSeq(inbox[s], 1, n)) \in Nat
  BY <1>3, SubSeqProperties
<1>5. WatchingTypes'
  <2>1. inbox' \in [Watching!Sockets -> Seq(Watching!Msgs)]
    BY <1>2, <1>4 DEF WatchingInv, WatchingTypes
  <2> QED
    BY <2>1 DEF Watching!Drop, WatchingInv, WatchingTypes, Watching!Sockets, Watching!Msgs
<1>6. ASSUME NEW t \in Watching!Sockets, NEW q \in Procs
      PROVE  checks'[t][q] + Len(inbox'[t]) <= JoinsOwed(t)'
  <2>1. /\ checks[t][q] \in Nat /\ Len(inbox[t]) \in Nat /\ t[1] \in Browsers /\ t[2] \in Nat
        /\ views[t[1]] \in Nat /\ socket[t[1]] \in Nat
    BY DEF WatchingInv, WatchingTypes, Watching!Sockets, BrowserBounds
  <2>2. checks[t][q] + Len(inbox[t]) <= JoinsOwed(t)
    BY DEF WatchingInv, WatchingBounded
  <2>3. checks' = checks /\ socket' = socket /\ views' = views
    BY DEF Watching!Drop
  <2>4. Len(inbox'[t]) <= Len(inbox[t]) /\ Len(inbox'[t]) \in Nat
    BY <1>2, <1>4, <2>1 DEF WatchingInv, WatchingTypes
  <2>5. JoinsOwed(t)' = JoinsOwed(t) /\ JoinsOwed(t) \in Nat /\ checks'[t][q] = checks[t][q]
    BY <2>1, <2>3 DEF JoinsOwed
  <2> QED
    BY <2>1, <2>2, <2>4, <2>5
<1> QED
  BY <1>5, <1>6 DEF WatchingInv, WatchingBounded, Watching!Sockets

LEMMA ReconnectKeepsWatching ==
  ASSUME BrowserBounds, WatchingInv, NEW b \in Browsers, Watching!Reconnect(b)
  PROVE  WatchingInv'
<1> DEFINE s == <<b, socket[b] + 1>>
           sent == Watching!Msg("join", view[b])
<1>1. s \in Watching!Sockets /\ s[1] = b /\ s[2] = socket[b] + 1 /\ socket'[b] = socket[b] + 1
  BY DEF WatchingInv, WatchingTypes, Watching!Sockets, Watching!Reconnect, BrowserBounds
<1>2. sent \in Seq(Watching!Msgs) /\ Len(sent) <= 1
  <2>1. view[b] \in Procs \cup {None}
    BY DEF WatchingInv, WatchingTypes
  <2> QED BY <2>1, MsgIsShort
<1>3. inbox' = [inbox EXCEPT ![s] = inbox[s] \o sent]
  BY <1>1 DEF Watching!Reconnect
<1> HIDE DEF s, sent
<1>4. inbox[s] \in Seq(Watching!Msgs) /\ inbox[s] \o sent \in Seq(Watching!Msgs)
      /\ Len(inbox[s] \o sent) = Len(inbox[s]) + Len(sent)
  BY <1>1, <1>2, AppendedSeq DEF WatchingInv, WatchingTypes
<1>5. WatchingTypes'
  <2>1. inbox' \in [Watching!Sockets -> Seq(Watching!Msgs)]
    BY <1>3, <1>4 DEF WatchingInv, WatchingTypes
  <2>2. socket' \in [Browsers -> 1..MaxSockets] /\ online' \in [Browsers -> BOOLEAN]
        /\ \A c \in Browsers : ~online'[c] => socket'[c] < MaxSockets
    BY DEF Watching!Reconnect, WatchingInv, WatchingTypes, BrowserBounds
  <2> QED
    BY <2>1, <2>2 DEF Watching!Reconnect, WatchingInv, WatchingTypes, Watching!Sockets, Watching!Msgs
<1>6. ASSUME NEW t \in Watching!Sockets, NEW q \in Procs
      PROVE  checks'[t][q] + Len(inbox'[t]) <= JoinsOwed(t)'
  <2>1. /\ checks[t][q] \in Nat /\ Len(inbox[t]) \in Nat /\ t[1] \in Browsers /\ t[2] \in Nat
        /\ views[t[1]] \in Nat /\ Len(sent) \in Nat /\ socket[t[1]] \in Nat \ {0}
    BY <1>2 DEF WatchingInv, WatchingTypes, Watching!Sockets, BrowserBounds
  <2>2. checks[t][q] + Len(inbox[t]) <= JoinsOwed(t)
    BY DEF WatchingInv, WatchingBounded
  <2>3. checks' = checks /\ views' = views
        /\ socket'[t[1]] = IF t[1] = b THEN socket[t[1]] + 1 ELSE socket[t[1]]
    BY <2>1 DEF Watching!Reconnect, WatchingInv, WatchingTypes
  <2>4. Len(inbox'[t]) = IF t = s THEN Len(inbox[t]) + Len(sent) ELSE Len(inbox[t])
    BY <1>3, <1>4 DEF WatchingInv, WatchingTypes
  <2>5. CASE t = s
    <3>1. JoinsOwed(t) = 2 * views[b] /\ JoinsOwed(t)' = 2 * views[b] + 1
      <4>1. t[1] = b /\ t[2] = socket[b] + 1 /\ socket[b] \in Nat \ {0} /\ views[b] \in Nat
        BY <1>1, <2>1, <2>5
      <4>2. socket'[t[1]] = socket[b] + 1 /\ views'[t[1]] = views[b]
        BY <2>3, <4>1
      <4>3. 1 < t[2] /\ ~(t[2] <= socket[t[1]]) /\ t[2] <= socket'[t[1]]
        BY <4>1, <4>2
      <4> QED BY <4>1, <4>2, <4>3 DEF JoinsOwed
    <3>2. Len(inbox'[t]) = Len(inbox[t]) + Len(sent) /\ checks'[t][q] = checks[t][q]
      BY <2>3, <2>4, <2>5
    <3>3. checks[t][q] + Len(inbox[t]) <= 2 * views[b] /\ views[b] \in Nat
      BY <1>1, <2>1, <2>2, <2>5, <3>1
    <3> QED BY <1>2, <2>1, <3>1, <3>2, <3>3
  <2>6. CASE t # s
    <3>1. JoinsOwed(t) <= JoinsOwed(t)' /\ JoinsOwed(t) \in Nat /\ JoinsOwed(t)' \in Nat
      <4>1. views'[t[1]] = views[t[1]] /\ socket[t[1]] <= socket'[t[1]] /\ socket'[t[1]] \in Nat
        BY <2>1, <2>3
      <4>2. CASE 1 < t[2] /\ t[2] <= socket[t[1]]
        <5>1. t[2] <= socket'[t[1]]
          BY <2>1, <4>1, <4>2
        <5> QED BY <2>1, <4>1, <4>2, <5>1 DEF JoinsOwed
      <4>3. CASE ~(1 < t[2] /\ t[2] <= socket[t[1]])
        BY <2>1, <4>1, <4>3 DEF JoinsOwed
      <4> QED BY <4>2, <4>3
    <3> QED BY <2>1, <2>2, <2>3, <2>4, <2>6, <3>1
  <2> QED BY <2>5, <2>6
<1> QED
  BY <1>5, <1>6 DEF WatchingInv, WatchingBounded, Watching!Sockets

LEMMA ServeKeepsWatching ==
  ASSUME BrowserBounds, WatchingInv, NEW s \in Watching!Sockets, Watching!Serve(s)
  PROVE  WatchingInv'
<1>1. ASSUME WatchingTypes', UNCHANGED <<views, socket>>,
             \A t \in Watching!Sockets, q \in Procs :
               checks'[t][q] + Len(inbox'[t]) <= checks[t][q] + Len(inbox[t])
      PROVE  WatchingInv'
  <2> SUFFICES WatchingBounded'
    BY <1>1 DEF WatchingInv
  <2> SUFFICES ASSUME NEW t \in Watching!Sockets, NEW q \in Procs
               PROVE  checks'[t][q] + Len(inbox'[t]) <= JoinsOwed(t)'
    BY DEF WatchingBounded, Watching!Sockets
  <2>1. checks[t][q] + Len(inbox[t]) <= JoinsOwed(t) /\ JoinsOwed(t)' = JoinsOwed(t)
    BY <1>1 DEF WatchingInv, WatchingBounded, JoinsOwed
  <2>2. /\ checks[t][q] \in Nat /\ Len(inbox[t]) \in Nat /\ checks'[t][q] \in Nat
        /\ Len(inbox'[t]) \in Nat
    <3>1. /\ inbox[t] \in Seq(Watching!Msgs) /\ inbox'[t] \in Seq(Watching!Msgs)
          /\ checks[t] \in [Procs -> Nat] /\ checks'[t] \in [Procs -> Nat]
      BY <1>1 DEF WatchingInv, WatchingTypes, Watching!Sockets
    <3> QED BY <3>1
  <2>3. JoinsOwed(t) \in Int
    BY DEF WatchingInv, WatchingTypes, JoinsOwed, Watching!Sockets, BrowserBounds
  <2> QED BY <1>1, <2>1, <2>2, <2>3
<1>2. ASSUME inbox[s] # <<>>
      PROVE  /\ Tail(inbox[s]) \in Seq(Watching!Msgs) /\ Len(Tail(inbox[s])) = Len(inbox[s]) - 1
             /\ Head(inbox[s]).proc \in Procs /\ Len(inbox[s]) \in Nat
  <2>1. inbox[s] \in Seq(Watching!Msgs)
    BY DEF WatchingInv, WatchingTypes
  <2>2. Head(inbox[s]) \in Watching!Msgs /\ Tail(inbox[s]) \in Seq(Watching!Msgs)
        /\ Len(Tail(inbox[s])) = Len(inbox[s]) - 1
    BY <1>2, <2>1, HeadTailProperties
  <2> QED BY <2>1, <2>2 DEF Watching!Msgs
<1>3. CASE Watching!BeginJoin(s)
  <2>1. inbox[s] # <<>>
    BY <1>3 DEF Watching!BeginJoin, Watching!Received
  <2>2. PICK p \in Procs : p = Head(inbox[s]).proc
    BY <1>2, <2>1
  <2>3. /\ checks' = [checks EXCEPT ![s] = [checks[s] EXCEPT ![p] = checks[s][p] + 1]]
        /\ inbox' = [inbox EXCEPT ![s] = Tail(inbox[s])] /\ UNCHANGED <<view, views, socket, online, closed>>
    BY <1>3, <2>2 DEF Watching!BeginJoin, Watching!browser
  <2>4. WatchingTypes'
    <3>1. inbox' \in [Watching!Sockets -> Seq(Watching!Msgs)]
      BY <1>2, <2>1, <2>3 DEF WatchingInv, WatchingTypes
    <3>2. checks' \in [Watching!Sockets -> [Procs -> Nat]]
      BY <2>3 DEF WatchingInv, WatchingTypes
    <3> QED BY <2>3, <3>1, <3>2 DEF WatchingInv, WatchingTypes, Watching!Sockets, Watching!Msgs
  <2>5. ASSUME NEW t \in Watching!Sockets, NEW q \in Procs
        PROVE  checks'[t][q] + Len(inbox'[t]) <= checks[t][q] + Len(inbox[t])
    <3>1. checks[t][q] \in Nat /\ Len(inbox[t]) \in Nat
      BY DEF WatchingInv, WatchingTypes
    <3>2. CASE t = s
      <4>1. Len(inbox'[t]) = Len(inbox[t]) - 1
        BY <1>2, <2>1, <2>3, <3>2 DEF WatchingInv, WatchingTypes
      <4>2. checks'[t][q] = IF q = p THEN checks[t][q] + 1 ELSE checks[t][q]
        BY <2>3, <3>2 DEF WatchingInv, WatchingTypes
      <4> QED BY <3>1, <4>1, <4>2
    <3>3. CASE t # s
      BY <2>3, <3>1, <3>3 DEF WatchingInv, WatchingTypes
    <3> QED BY <3>2, <3>3
  <2> QED BY <1>1, <2>3, <2>4, <2>5
<1>4. CASE Watching!Leave(s)
  <2>1. inbox[s] # <<>> /\ inbox' = [inbox EXCEPT ![s] = Tail(inbox[s])]
        /\ UNCHANGED <<view, views, socket, online, checks, closed>>
    BY <1>4 DEF Watching!Leave, Watching!Received, Watching!browser
  <2>2. inbox' \in [Watching!Sockets -> Seq(Watching!Msgs)]
    BY <1>2, <2>1 DEF WatchingInv, WatchingTypes
  <2>3. WatchingTypes'
    BY <2>1, <2>2 DEF WatchingInv, WatchingTypes, Watching!Sockets, Watching!Msgs
  <2>4. ASSUME NEW t \in Watching!Sockets, NEW q \in Procs
        PROVE  checks'[t][q] + Len(inbox'[t]) <= checks[t][q] + Len(inbox[t])
    BY <1>2, <2>1 DEF WatchingInv, WatchingTypes
  <2> QED BY <1>1, <2>1, <2>3, <2>4
<1>5. ASSUME NEW p \in Procs, Watching!FinishJoin(s, p) \/ Watching!RefuseJoin(s, p) PROVE WatchingInv'
  <2>1. /\ checks[s][p] > 0
        /\ checks' = [checks EXCEPT ![s] = [checks[s] EXCEPT ![p] = checks[s][p] - 1]]
        /\ UNCHANGED <<view, views, socket, online, inbox, closed>>
    BY <1>5 DEF Watching!FinishJoin, Watching!RefuseJoin, Watching!browser
  <2>2. checks' \in [Watching!Sockets -> [Procs -> Nat]]
    BY <2>1 DEF WatchingInv, WatchingTypes
  <2>3. WatchingTypes'
    BY <2>1, <2>2 DEF WatchingInv, WatchingTypes, Watching!Sockets, Watching!Msgs
  <2>4. ASSUME NEW t \in Watching!Sockets, NEW q \in Procs
        PROVE  checks'[t][q] + Len(inbox'[t]) <= checks[t][q] + Len(inbox[t])
    <3>1. checks[t][q] \in Nat /\ checks[s][p] \in Nat /\ Len(inbox[t]) \in Nat
      BY DEF WatchingInv, WatchingTypes
    <3> QED BY <2>1, <3>1 DEF WatchingInv, WatchingTypes
  <2> QED BY <1>1, <2>1, <2>3, <2>4
<1>6. CASE Watching!Disconnect(s)
  <2>1. UNCHANGED <<view, views, socket, online, inbox, checks>> /\ closed' = closed \cup {s}
    BY <1>6 DEF Watching!Disconnect, Watching!browser
  <2>2. WatchingTypes'
    BY <2>1 DEF WatchingInv, WatchingTypes, Watching!Sockets, Watching!Msgs
  <2>3. ASSUME NEW t \in Watching!Sockets, NEW q \in Procs
        PROVE  checks'[t][q] + Len(inbox'[t]) <= checks[t][q] + Len(inbox[t])
    <3>1. checks[t][q] \in Nat /\ Len(inbox[t]) \in Nat
      BY DEF WatchingInv, WatchingTypes
    <3> QED BY <2>1, <3>1
  <2> QED BY <1>1, <2>1, <2>2, <2>3
<1> QED
  BY <1>3, <1>4, <1>5, <1>6 DEF Watching!Serve

LEMMA WatchingStep ==
  ASSUME BrowserBounds
  PROVE  WatchingInv /\ [Watching!Next]_(Watching!vars) => WatchingInv'
<1> SUFFICES ASSUME WatchingInv, [Watching!Next]_(Watching!vars) PROVE WatchingInv'
  OBVIOUS
<1>1. CASE UNCHANGED Watching!vars
  BY <1>1 DEF Watching!vars, Watching!browser, Watching!server, WatchingInv, WatchingTypes,
              WatchingBounded, JoinsOwed, Watching!Sockets, Watching!Msgs
<1>2. CASE Watching!Next
  BY <1>2, OpenKeepsWatching, DropKeepsWatching, ReconnectKeepsWatching, ServeKeepsWatching
     DEF Watching!Next
<1> QED
  BY <1>1, <1>2

LEMMA CheckBound ==
  ASSUME BrowserBounds, WatchingInv, NEW s \in Watching!Sockets, NEW p \in Procs
  PROVE  checks[s][p] \in 0..(2 * MaxViews + 1)
<1>1. checks[s][p] \in Nat /\ Len(inbox[s]) \in Nat /\ views[s[1]] \in 0..MaxViews
  BY DEF WatchingInv, WatchingTypes, Watching!Sockets
<1>2. checks[s][p] + Len(inbox[s]) <= 2 * views[s[1]] + 1
  BY <1>1 DEF WatchingInv, WatchingBounded, JoinsOwed, BrowserBounds
<1> QED
  BY <1>1, <1>2 DEF BrowserBounds

-----------------------------------------------------------------------------
(* Theorems *)

\* Every accepted change was computed from the row it replaced: the process
\* row, as update and updatePolicy write it, implements VersionedRow.
THEOREM ImplementsVersionedRow == FairSpec => RowIsVersioned
<1>1. Init => RecordInv /\ Record!VR!Init
  BY PartsInit, RecordInit, RecordMapsInit
<1>2. RecordInv /\ [Next]_vars => RecordInv' /\ [Record!VR!Next]_(Record!VR!vars)
  BY PartsStep, RecordStep, RecordMapsSteps
<1> QED
  BY <1>1, <1>2, PTL DEF FairSpec, RowIsVersioned, Record!RowIsVersioned, Record!VR!Spec

\* What a request drops from the preferences was stored while it was in flight.
THEOREM OnlyOverlapsLose == FairSpec => LostToOverlapOnly
<1> USE ConstantsAreApart
<1>1. Init => PreferencesInv
  BY PartsInit, PreferencesInit
<1>2. PreferencesInv /\ [Next]_vars => PreferencesInv'
  BY PartsStep, PreferencesStep
<1>3. PreferencesInv /\ [Next]_vars =>
        [\A i \in Preferences!Items : i \in Preferences!Stored /\ i \notin Preferences!Stored' =>
           \E s \in during[i] : request[s] # Preferences!Idle
                                /\ request'[s] = Preferences!Idle]_(Preferences!vars)
  BY PartsStep, DropsAreOverlaps
<1> QED
  BY <1>1, <1>2, <1>3, PTL DEF FairSpec, LostToOverlapOnly, Preferences!LostToOverlapOnly

\* While the handlers that count owners run alone, the last owner goes only in
\* a call of addMember.
THEOREM CountsKeepAnOwner == ASSUME OnlyAddsOverlap PROVE FairSpec => CountedOwnerStays
<1> USE ConstantsAreApart
<1>1. Init => MembersInv
  BY PartsInit, MembersInit
<1>2. MembersInv /\ [Next]_vars => MembersInv'
  BY PartsStep, MembersStep
<1>3. MembersInv /\ [Next]_vars =>
        [Members!Owners # {} /\ Members!Owners' = {} =>
           \E s \in Slots : memberCall[s] # Members!Idle /\ memberCall[s].handler = "add"]_(Members!vars)
  BY PartsStep, OwnersOutlastCounts
<1> QED
  BY <1>1, <1>2, <1>3, PTL DEF FairSpec, CountedOwnerStays, Members!CountedOwnerStays

\* The grants of a member are the list of one call, and resolve answers what
\* that list grants.
THEOREM OneListDecides == ASSUME OnlyAddsOverlap PROVE FairSpec => []GrantsDecide
<1> USE ConstantsAreApart
<1>1. Init => MembersInv
  BY PartsInit, MembersInit
<1>2. MembersInv /\ [Next]_vars => MembersInv'
  BY PartsStep, MembersStep
<1>3. MembersInv => GrantsDecide
  BY GrantsAreSound DEF GrantsDecide
<1> QED
  BY <1>1, <1>2, <1>3, PTL DEF FairSpec

\* After a merge that nobody overtook nothing refers to its source, a deletion
\* leaves only what came after its check, and aliases go only with an older read.
THEOREM NothingRefersToTheGone == FairSpec => ReferencesFollow
<1> USE ConstantsAreApart
<1>1. Init => DirectoryInv
  BY PartsInit, DirectoryInit
<1>2. DirectoryInv /\ [Next]_vars => DirectoryInv'
  BY PartsStep, DirectoryStep
<1>3. FairSpec => Listed!MergeMovesEveryRow
  <2>1. DirectoryInv /\ [Next]_vars =>
          [\A q \in Slots : Listed!Merge(q) /\ ~call[q].overtaken =>
             /\ \A r \in tracked' : ~(r.email = call[q].was.email \/ r.key = call[q].was.email)
             /\ {r.proc : r \in tracked'} = {r.proc : r \in tracked}]_(Listed!vars)
    BY MergeKeepsDirectory
  <2> QED BY <1>1, <1>2, <2>1, PTL DEF FairSpec, Listed!MergeMovesEveryRow, Listed!Merge
<1>4. FairSpec => Listed!DeletedWasIdle
  <2>1. DirectoryInv /\ [Next]_vars =>
          [\A q \in Slots : Listed!Delete(q) =>
             \A r \in tracked :
               r.open /\ call[q].was.email \in {r.email, r.key} => r \in call[q].late]_(Listed!vars)
    BY DeleteKeepsDirectory
  <2> QED BY <1>1, <1>2, <2>1, PTL DEF FairSpec, Listed!DeletedWasIdle, Listed!Delete
<1>5. FairSpec => Listed!AliasesStay
  <2>1. DirectoryInv /\ [Next]_vars =>
          [\A i \in Listing :
             \/ entry[i] = None \/ entry'[i] = None
             \/ entry[i].aliases \subseteq entry'[i].aliases
             \/ \E q \in Slots : call[q] # None /\ call'[q] = None /\ call[q].overtaken]_(Listed!vars)
    BY PartsStep, DirectoryStep DEF AliasesOf
  <2> QED BY <1>1, <1>2, <2>1, PTL DEF FairSpec, Listed!AliasesStay
<1> QED
  BY <1>3, <1>4, <1>5 DEF ReferencesFollow, Listed!ReferencesFollow

\* The registry's two maps and the rooms tell the same story: an indexed socket
\* is in its bucket and its room, and a bucket holds no other socket but ghosts
\* of joins that finished out of turn.
THEOREM PresenceMapsAgree == FairSpec => []Watching!PresenceIsConsistent
<1> USE ConstantsAreApart
<1>1. Init => PresenceInv
  BY PartsInit, PresenceInit
<1>2. PresenceInv /\ [Next]_vars => PresenceInv'
  BY PartsStep, PresenceStep
<1>3. PresenceInv => Watching!PresenceIsConsistent
  BY DEF PresenceInv
<1> QED
  BY <1>1, <1>2, <1>3, PTL DEF FairSpec

\* Every part of the state keeps its type: what is stored, what each request
\* holds, the messages under way and how many joins wait for their check.
THEOREM PeopleKeepTheirTypes == ASSUME OnlyAddsOverlap PROVE FairSpec => []TypeOK
<1> USE ConstantsAreApart
<1>1. Init => MembersInv /\ RecordInv /\ PreferencesInv /\ DirectoryInv /\ PresenceInv /\ WatchingInv
  BY PartsInit, MembersInit, RecordInit, PreferencesInit, DirectoryInit, PresenceInit, WatchingInit
<1>2. MembersInv /\ [Next]_vars => MembersInv'
  BY PartsStep, MembersStep
<1>3. RecordInv /\ [Next]_vars => RecordInv'
  BY PartsStep, RecordStep
<1>4. PreferencesInv /\ [Next]_vars => PreferencesInv'
  BY PartsStep, PreferencesStep
<1>5. DirectoryInv /\ [Next]_vars => DirectoryInv'
  BY PartsStep, DirectoryStep
<1>6. PresenceInv /\ [Next]_vars => PresenceInv'
  BY PartsStep, PresenceStep
<1>7. WatchingInv /\ [Next]_vars => WatchingInv'
  BY PartsStep, WatchingStep
<1>8. MembersInv /\ RecordInv /\ PreferencesInv /\ DirectoryInv /\ PresenceInv /\ WatchingInv => TypeOK
  <2> SUFFICES ASSUME MembersInv, RecordInv, PreferencesInv, DirectoryInv, PresenceInv, WatchingInv
               PROVE  TypeOK
    OBVIOUS
  <2>1. Members!MembersTypeOK /\ Record!TypeOK /\ Preferences!TypeOK /\ Listed!TypeOK
    BY DEF MembersInv, RecordInv, PreferencesInv, DirectoryInv
  <2>2. checks \in [Watching!Sockets -> [Procs -> 0..(2 * MaxViews + 1)]]
    <3>1. checks \in [Watching!Sockets -> [Procs -> Nat]]
      BY DEF WatchingInv, WatchingTypes
    <3>2. \A s \in Watching!Sockets, p \in Procs : checks[s][p] \in 0..(2 * MaxViews + 1)
      BY CheckBound
    <3> QED BY <3>1, <3>2
  <2>3. Watching!TypeOK
    BY <2>2 DEF PresenceInv, MapsTyped, WatchingInv, WatchingTypes, Watching!TypeOK
  <2> QED BY <2>1, <2>3 DEF TypeOK
<1> QED
  BY <1>1, <1>2, <1>3, <1>4, <1>5, <1>6, <1>7, <1>8, PTL DEF FairSpec
=============================================================================
