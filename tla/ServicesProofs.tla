---------------------------- MODULE ServicesProofs ----------------------------
(***************************************************************************)
(* What stands between the pages and the database, and what the pages      *)
(* show, for any number of requests, rules, entries, processes, questions  *)
(* and changes.                                                            *)
(***************************************************************************)
EXTENDS PagesProofs, VersionsProofs

\* Each part starts as it should, the comparison when it is looked at.
LEMMA PartsInit ==
  Init => /\ Pilot!Init /\ Chat!Init /\ Agent!Init /\ Client!Init /\ Author!Init
          /\ Store!Init /\ Workspace!Init /\ Tab!Init /\ History!Init /\ Desk!Init /\ Pane!Init
          /\ Documents!Init /\ (focus = "compare" => Compare!Init)
BY DEF Init, BrowserInit

\* Each part takes its own steps, or none.
LEMMA PartsStep ==
  [Next]_vars => /\ UNCHANGED focus
                 /\ [Pilot!Next]_(Pilot!vars) /\ [Chat!Next]_(Chat!vars)
                 /\ [Agent!Next]_(Agent!vars) /\ [Client!Next]_(Client!clientVars)
                 /\ [Author!Next]_(Author!authoring)
                 /\ [~overtaken /\ Store!Next]_(Store!vars)
                 /\ [Workspace!Next]_(Workspace!vars) /\ [Compare!Next]_(Compare!vars)
                 /\ [Tab!Next]_(Tab!vars) /\ [History!Next]_(History!vars)
                 /\ [Desk!Next]_(Desk!deskVars) /\ [Pane!Next]_(Pane!paneVars)
                 /\ [Documents!Next]_(Documents!vars)
<1>1. /\ UNCHANGED pilot => UNCHANGED Pilot!vars
      /\ UNCHANGED analytics => UNCHANGED Chat!vars
      /\ UNCHANGED agent => UNCHANGED Agent!vars
      /\ UNCHANGED client => UNCHANGED Client!clientVars
      /\ UNCHANGED authoring => UNCHANGED Author!authoring
  BY DEF authoring, Author!authoring, pilot, analytics, agent, client, Pilot!vars, Chat!vars, Agent!vars, Client!clientVars
<1>2. /\ UNCHANGED tab => UNCHANGED Tab!vars
      /\ UNCHANGED history => UNCHANGED History!vars
      /\ UNCHANGED desk => UNCHANGED Desk!deskVars
      /\ UNCHANGED pane => UNCHANGED Pane!paneVars
  BY DEF tab, history, desk, pane, Tab!vars, Tab!local, History!vars, Desk!deskVars, Pane!paneVars
<1>3. /\ UNCHANGED store => UNCHANGED Store!vars
      /\ UNCHANGED workspace => UNCHANGED Workspace!vars
      /\ UNCHANGED compare => UNCHANGED Compare!vars
      /\ UNCHANGED documents => UNCHANGED Documents!vars
  BY DEF store, workspace, compare, documents, Store!vars, Workspace!vars, Compare!vars,
         Documents!vars, Documents!server, Documents!sheets
<1>4. UNCHANGED browser =>
        UNCHANGED <<store, workspace, tab, compare, history, desk, pane, documents>>
  BY DEF browser
<1>5. UNCHANGED vars =>
        UNCHANGED <<focus, pilot, analytics, agent, client, authoring, browser>>
  BY DEF vars
<1>6. BrowserNext => /\ Tab!Next \/ UNCHANGED tab
                     /\ History!Next \/ UNCHANGED history
                     /\ Desk!Next \/ UNCHANGED desk
                     /\ Pane!Next \/ UNCHANGED pane
                     /\ (~overtaken /\ Store!Next) \/ UNCHANGED store
                     /\ Workspace!Next \/ UNCHANGED workspace
                     /\ Compare!Next \/ UNCHANGED compare
                     /\ Documents!Next \/ UNCHANGED documents
  BY DEF BrowserNext
<1> QED
  BY <1>1, <1>2, <1>3, <1>4, <1>5, <1>6 DEF Next

-----------------------------------------------------------------------------
(* The AI pilot's rules                                                      *)

\* Every check somebody wants has an active rule.
WantedIsActive ==
  \A sig \in wanted : \E c \in Codes : rule[c] # None /\ rule[c].sig = sig
                                       /\ rule[c].status = "active"

\* What a save is about to archive are rules with its signature.
TwinsAreTwins ==
  \A s \in Requests : saving[s].pc # "idle" =>
    \A c \in saving[s].twins : rule[c] # None /\ rule[c].sig = saving[s].sig

\* A session is inserted behind its upload, and the row of its sample before it.
UploadInTurn ==
  \A i \in Sessions :
    /\ upload[i] \in {"put", "marked"} \/ session[i] # "none" => i \in samples
    /\ upload[i] # "none" \/ i \in samples => meta[i] # None

PilotInv == Pilot!TypeOK /\ WantedIsActive /\ TwinsAreTwins /\ UploadInTurn

LEMMA PilotStart == ASSUME NoneIsNoRule PROVE Pilot!Init => PilotInv
BY DEF Pilot!Init, PilotInv, Pilot!TypeOK, WantedIsActive, TwinsAreTwins, UploadInTurn,
       Pilot!Idle, NoneIsNoRule

\* The upload of a sample, the sessions and their end.
LEMMA UploadStep ==
  ASSUME NoneIsNoRule, PilotInv, NEW i \in Sessions,
         Pilot!Reserve(i) \/ Pilot!Put(i) \/ Pilot!UploadFails(i) \/ Pilot!MarkUploaded(i)
           \/ Pilot!InsertSession(i) \/ Pilot!Expire(i)
  PROVE  PilotInv'
<1> USE DEF PilotInv, Pilot!TypeOK, NoneIsNoRule
<1>0. UNCHANGED <<rule, saving, wanted>>
  BY DEF Pilot!Reserve, Pilot!Put, Pilot!UploadFails, Pilot!MarkUploaded, Pilot!InsertSession,
         Pilot!Expire
<1>1. Pilot!TypeOK'
  <2>1. CASE Pilot!Reserve(i)  BY <1>0, <2>1 DEF Pilot!Reserve
  <2>2. CASE Pilot!Put(i)  BY <1>0, <2>2 DEF Pilot!Put
  <2>3. CASE Pilot!UploadFails(i)  BY <1>0, <2>3 DEF Pilot!UploadFails
  <2>4. CASE Pilot!MarkUploaded(i)  BY <1>0, <2>4 DEF Pilot!MarkUploaded
  <2>5. CASE Pilot!InsertSession(i)  BY <1>0, <2>5 DEF Pilot!InsertSession
  <2>6. CASE Pilot!Expire(i)  BY <1>0, <2>6 DEF Pilot!Expire
  <2> QED BY <2>1, <2>2, <2>3, <2>4, <2>5, <2>6
<1>2. UploadInTurn'
  <2> USE DEF UploadInTurn
  <2>1. CASE Pilot!Reserve(i)  BY <2>1 DEF Pilot!Reserve
  <2>2. CASE Pilot!Put(i)  BY <2>2 DEF Pilot!Put
  <2>3. CASE Pilot!UploadFails(i)  BY <2>3 DEF Pilot!UploadFails
  <2>4. CASE Pilot!MarkUploaded(i)  BY <2>4 DEF Pilot!MarkUploaded
  <2>5. CASE Pilot!InsertSession(i)  BY <2>5 DEF Pilot!InsertSession
  <2>6. CASE Pilot!Expire(i)  BY <2>6 DEF Pilot!Expire
  <2> QED BY <2>1, <2>2, <2>3, <2>4, <2>5, <2>6
<1> QED BY <1>0, <1>1, <1>2 DEF WantedIsActive, TwinsAreTwins

LEMMA EndStep ==
  ASSUME PilotInv, Pilot!Cleanup \/ Pilot!Crash
  PROVE  PilotInv'
<1> USE DEF PilotInv, Pilot!TypeOK
<1>1. CASE Pilot!Cleanup
  <2>1. Pilot!TypeOK'  BY <1>1 DEF Pilot!Cleanup
  <2>2. UploadInTurn'  BY <1>1 DEF Pilot!Cleanup, UploadInTurn
  <2> QED BY <1>1, <2>1, <2>2 DEF Pilot!Cleanup, WantedIsActive, TwinsAreTwins
<1>2. CASE Pilot!Crash
  <2>1. Pilot!TypeOK'  BY <1>2 DEF Pilot!Crash
  <2>2. UploadInTurn'  BY <1>2 DEF Pilot!Crash, UploadInTurn
  <2>3. TwinsAreTwins'  BY <1>2 DEF Pilot!Crash, TwinsAreTwins, Pilot!Idle
  <2> QED BY <1>2, <2>1, <2>2, <2>3 DEF Pilot!Crash, WantedIsActive
<1> QED BY <1>1, <1>2

\* A save archives the twins it has found and puts an active rule in their place.
LEMMA SaveRuleStep ==
  ASSUME NoneIsNoRule, PilotInv, NEW s \in Requests, Pilot!SaveRule(s)
  PROVE  PilotInv'
<1> DEFINE c == saving[s]
           new == [sig |-> c.sig, status |-> "active"]
<1> USE DEF PilotInv, Pilot!TypeOK
<1>0. /\ c.pc = "found" /\ c \in Pilot!Saves
      /\ rule' = [Pilot!Archived(c.twins) EXCEPT ![c.code] = new]
      /\ rule[c.code] = None
      /\ wanted' = wanted \cup {c.sig} /\ saving' = [saving EXCEPT ![s] = Pilot!Idle]
      /\ UNCHANGED <<upload, meta, samples, session>>
  BY DEF Pilot!SaveRule, Pilot!Idle
<1>1. c.code \in Codes /\ c.sig \in Sigs /\ c.twins \subseteq Codes
  BY <1>0 DEF Pilot!Saves
<1>2. \A d \in c.twins : rule[d] # None /\ rule[d].sig = c.sig
  BY <1>0 DEF TwinsAreTwins
<1>3. new \in [sig : Sigs, status : Pilot!Statuses] /\ new # None
  BY <1>1 DEF Pilot!Statuses, NoneIsNoRule
<1>4. /\ rule'[c.code] = new
      /\ \A d \in Codes \ {c.code} : d \notin c.twins => rule'[d] = rule[d]
      /\ \A d \in c.twins : rule'[d] = [rule[d] EXCEPT !.status = "archived"]
  BY <1>0, <1>1, <1>2 DEF Pilot!Archived
<1>5. \A d \in c.twins : rule'[d] \in [sig : Sigs, status : Pilot!Statuses]
                         /\ rule'[d].sig = c.sig /\ rule'[d] # None
  <2> SUFFICES ASSUME NEW d \in c.twins
               PROVE  rule'[d] \in [sig : Sigs, status : Pilot!Statuses]
                      /\ rule'[d].sig = c.sig /\ rule'[d] # None
    OBVIOUS
  <2>1. rule[d] \in [sig : Sigs, status : Pilot!Statuses]  BY <1>1, <1>2
  <2>2. [rule[d] EXCEPT !.status = "archived"] \in [sig : Sigs, status : Pilot!Statuses]
        /\ [rule[d] EXCEPT !.status = "archived"].sig = rule[d].sig
    BY <2>1 DEF Pilot!Statuses
  <2> QED BY <1>2, <1>4, <2>2 DEF NoneIsNoRule
<1> HIDE DEF c, new
<1>6. rule' \in [Codes -> [sig : Sigs, status : Pilot!Statuses] \cup {None}]
  <2>1. rule' = [d \in Codes |-> rule'[d]]  BY <1>0 DEF Pilot!Archived
  <2>2. \A d \in Codes : rule'[d] \in [sig : Sigs, status : Pilot!Statuses] \cup {None}
    BY <1>3, <1>4, <1>5
  <2> QED BY <2>1, <2>2
<1>7. Pilot!TypeOK'
  BY <1>0, <1>1, <1>6 DEF Pilot!Idle
<1>8. WantedIsActive'
  <2> SUFFICES ASSUME NEW sig \in wanted'
               PROVE  \E d \in Codes : rule'[d] # None /\ rule'[d].sig = sig
                                       /\ rule'[d].status = "active"
    BY DEF WantedIsActive
  <2>1. CASE sig = c.sig  BY <1>1, <1>3, <1>4, <2>1 DEF new
  <2>2. CASE sig # c.sig
    <3>1. PICK d \in Codes : rule[d] # None /\ rule[d].sig = sig /\ rule[d].status = "active"
      BY <1>0, <2>2 DEF WantedIsActive
    <3>2. d # c.code /\ d \notin c.twins  BY <1>0, <1>2, <2>2, <3>1
    <3> QED BY <1>4, <3>1, <3>2
  <2> QED BY <2>1, <2>2
<1>9. TwinsAreTwins'
  <2> SUFFICES ASSUME NEW t \in Requests, saving'[t].pc # "idle", NEW d \in saving'[t].twins
               PROVE  rule'[d] # None /\ rule'[d].sig = saving'[t].sig
    BY DEF TwinsAreTwins
  <2>1. t # s /\ saving'[t] = saving[t]  BY <1>0 DEF Pilot!Idle
  <2>2. rule[d] # None /\ rule[d].sig = saving[t].sig  BY <2>1 DEF TwinsAreTwins
  <2>3. d \in Codes
    <3>1. saving[t] \in Pilot!Saves  BY <2>1 DEF Pilot!Idle
    <3> QED BY <2>1, <3>1 DEF Pilot!Saves
  <2>4. d # c.code  BY <1>0, <2>2
  <2> QED BY <1>2, <1>4, <1>5, <2>1, <2>2, <2>3, <2>4
<1> QED BY <1>0, <1>7, <1>8, <1>9 DEF UploadInTurn

LEMMA SavingStep ==
  ASSUME NoneIsNoRule, PilotInv, NEW s \in Requests,
         \/ Pilot!FindTwins(s) \/ Pilot!SaveFails(s)
         \/ \E code \in Codes, sig \in Sigs, i \in Sessions, order \in {"database", "other"} :
              Pilot!CheckSession(s, code, sig, i, order)
  PROVE  PilotInv'
<1> USE DEF PilotInv, Pilot!TypeOK
<1>0. UNCHANGED <<upload, meta, samples, session, rule, wanted>>
  BY DEF Pilot!FindTwins, Pilot!SaveFails, Pilot!CheckSession
<1>1. CASE Pilot!FindTwins(s)
  <2> DEFINE twins == IF saving[s].order = "database" THEN Pilot!Active(saving[s].sig) ELSE {}
  <2>1. /\ saving[s].pc = "checked" /\ saving[s] \in Pilot!Saves
        /\ saving' = [saving EXCEPT ![s].pc = "found", ![s].twins = twins]
    BY <1>1 DEF Pilot!FindTwins, Pilot!Idle
  <2>2. twins \subseteq Codes /\ \A c \in twins : rule[c] # None /\ rule[c].sig = saving[s].sig
    BY DEF Pilot!Active
  <2> HIDE DEF twins
  <2>3. /\ saving'[s] \in Pilot!Saves /\ saving'[s].twins = twins
        /\ saving'[s].sig = saving[s].sig
        /\ \A t \in Requests \ {s} : saving'[t] = saving[t]
    BY <2>1, <2>2 DEF Pilot!Saves
  <2>4. saving' \in [Requests -> Pilot!Saves \cup {Pilot!Idle}]
    BY <2>1, <2>3
  <2> QED BY <1>0, <2>2, <2>3, <2>4 DEF WantedIsActive, TwinsAreTwins, UploadInTurn
<1>2. CASE Pilot!SaveFails(s)
  <2>1. saving' = [saving EXCEPT ![s] = Pilot!Idle]  BY <1>2 DEF Pilot!SaveFails
  <2>2. TwinsAreTwins'  BY <1>0, <2>1 DEF TwinsAreTwins, Pilot!Idle
  <2> QED BY <1>0, <2>1, <2>2 DEF WantedIsActive, UploadInTurn
<1>3. ASSUME NEW code \in Codes, NEW sig \in Sigs, NEW i \in Sessions,
             NEW order \in {"database", "other"}, Pilot!CheckSession(s, code, sig, i, order)
      PROVE  PilotInv'
  <2>1. saving' = [saving EXCEPT ![s] = [pc |-> "checked", code |-> code, sig |-> sig,
                     session |-> i, order |-> order, twins |-> {}]]
    BY <1>3 DEF Pilot!CheckSession
  <2>2. [pc |-> "checked", code |-> code, sig |-> sig, session |-> i, order |-> order,
         twins |-> {}] \in Pilot!Saves
    BY DEF Pilot!Saves
  <2>3. saving' \in [Requests -> Pilot!Saves \cup {Pilot!Idle}]  BY <2>1, <2>2
  <2>4. TwinsAreTwins'  BY <1>0, <2>1 DEF TwinsAreTwins
  <2> QED BY <1>0, <2>3, <2>4 DEF WantedIsActive, UploadInTurn
<1> QED BY <1>1, <1>2, <1>3

LEMMA SetStatusStep ==
  ASSUME NoneIsNoRule, PilotInv, NEW code \in Codes, NEW status \in Pilot!Statuses,
         Pilot!SetStatus(code, status)
  PROVE  PilotInv'
<1> USE DEF PilotInv, Pilot!TypeOK
<1>0. /\ rule[code] # None /\ rule' = [rule EXCEPT ![code].status = status]
      /\ wanted' = IF status = "active" THEN wanted \cup {rule[code].sig}
                                        ELSE wanted \ {rule[code].sig}
      /\ UNCHANGED <<upload, meta, samples, session, saving>>
  BY DEF Pilot!SetStatus
<1>1. rule[code] \in [sig : Sigs, status : Pilot!Statuses]  BY <1>0
<1>2. /\ rule'[code] \in [sig : Sigs, status : Pilot!Statuses]
      /\ rule'[code].sig = rule[code].sig /\ rule'[code].status = status
      /\ rule'[code] # None
      /\ \A d \in Codes \ {code} : rule'[d] = rule[d]
  BY <1>0, <1>1 DEF NoneIsNoRule
<1>3. rule' \in [Codes -> [sig : Sigs, status : Pilot!Statuses] \cup {None}]
  BY <1>0, <1>2
<1>4. WantedIsActive'
  <2> SUFFICES ASSUME NEW sig \in wanted'
               PROVE  \E d \in Codes : rule'[d] # None /\ rule'[d].sig = sig
                                       /\ rule'[d].status = "active"
    BY DEF WantedIsActive
  <2>1. CASE sig = rule[code].sig  BY <1>0, <1>2, <2>1
  <2>2. CASE sig # rule[code].sig
    <3>1. PICK d \in Codes : rule[d] # None /\ rule[d].sig = sig /\ rule[d].status = "active"
      BY <1>0, <2>2 DEF WantedIsActive
    <3> QED BY <1>2, <2>2, <3>1
  <2> QED BY <2>1, <2>2
<1>5. TwinsAreTwins'
  <2> SUFFICES ASSUME NEW t \in Requests, saving'[t].pc # "idle", NEW d \in saving'[t].twins
               PROVE  rule'[d] # None /\ rule'[d].sig = saving'[t].sig
    BY DEF TwinsAreTwins
  <2>1. saving[t] \in Pilot!Saves  BY <1>0 DEF Pilot!Idle
  <2>2. d \in Codes /\ rule[d] # None /\ rule[d].sig = saving[t].sig
    BY <1>0, <2>1 DEF TwinsAreTwins, Pilot!Saves
  <2> QED BY <1>0, <1>2, <2>2
<1> QED BY <1>0, <1>1, <1>3, <1>4, <1>5 DEF UploadInTurn

LEMMA PilotStep ==
  ASSUME NoneIsNoRule PROVE PilotInv /\ [Pilot!Next]_(Pilot!vars) => PilotInv'
<1> SUFFICES ASSUME PilotInv, [Pilot!Next]_(Pilot!vars) PROVE PilotInv'
  OBVIOUS
<1>1. CASE UNCHANGED Pilot!vars
  BY <1>1 DEF Pilot!vars, PilotInv, Pilot!TypeOK, WantedIsActive, TwinsAreTwins, UploadInTurn
<1> QED BY <1>1, UploadStep, EndStep, SaveRuleStep, SavingStep, SetStatusStep DEF Pilot!Next

\* The part counts as everyone does.
LEMMA PilotCounts == \A S : Pilot!Cardinality(S) = Cardinality(S)
BY DEF Pilot!Cardinality, Cardinality, Pilot!IsFiniteSet, IsFiniteSet

\* An audit loads one rule of each signature that has an active one.
LEMMA LoadedOnce ==
  ASSUME PilotInv
  PROVE  Pilot!PilotIsConsistent
<1> DEFINE current == {c \in Codes : rule[c] # None /\ rule[c].status = "active"}
<1>1. ASSUME NEW codes \in Pilot!LoadedCodes(current), NEW sig \in Sigs
      PROVE  /\ Cardinality({c \in codes : rule[c].sig = sig}) <= 1
             /\ sig \in wanted => \E c \in codes : rule[c].sig = sig
  <2>1. codes \subseteq current /\ \A c \in current :
          Cardinality({d \in codes : rule[d].sig = rule[c].sig}) = 1
    BY PilotCounts DEF Pilot!LoadedCodes
  <2>2. CASE \E c \in current : rule[c].sig = sig
    <3>1. Cardinality({d \in codes : rule[d].sig = sig}) = 1  BY <2>1, <2>2
    <3>2. {d \in codes : rule[d].sig = sig} # {}  BY <3>1, FS_EmptySet
    <3> QED BY <3>1, <3>2
  <2>3. CASE ~\E c \in current : rule[c].sig = sig
    <3>1. {c \in codes : rule[c].sig = sig} = {}  BY <2>1, <2>3
    <3>2. sig \notin wanted  BY <2>3 DEF PilotInv, WantedIsActive
    <3>3. Cardinality({c \in codes : rule[c].sig = sig}) = 0
      <4> DEFINE none == {c \in codes : rule[c].sig = sig}
      <4> SUFFICES Cardinality(none) = 0  OBVIOUS
      <4> QED BY <3>1, FS_EmptySet
    <3> QED BY <3>2, <3>3
  <2> QED BY <2>2, <2>3
<1>2. Pilot!EveryCheckRunsOnce  BY <1>1, PilotCounts DEF Pilot!EveryCheckRunsOnce
<1>3. Pilot!SessionHasSample /\ Pilot!SamplesLeaveTrail
  BY DEF PilotInv, UploadInTurn, Pilot!TypeOK, Pilot!SessionHasSample, Pilot!SamplesLeaveTrail
<1> QED BY <1>2, <1>3 DEF Pilot!PilotIsConsistent


-----------------------------------------------------------------------------
(* The data client: what its three-valued clauses say                        *)

Truths == {0, 1, 2}

LEMMA LeastTruth ==
  \A S : S # {} /\ S \subseteq Truths =>
           Client!Least(S) \in S /\ \A y \in S : Client!Least(S) <= y
<1> SUFFICES ASSUME NEW S, S # {}, S \subseteq Truths
             PROVE  Client!Least(S) \in S /\ \A y \in S : Client!Least(S) <= y
  OBVIOUS
<1>1. \E x \in S : \A y \in S : x <= y
  <2>1. CASE 0 \in S  BY <2>1 DEF Truths
  <2>2. CASE 0 \notin S /\ 1 \in S  BY <2>2 DEF Truths
  <2>3. CASE 0 \notin S /\ 1 \notin S
    <3>1. S = {2}  BY <2>3 DEF Truths
    <3> QED BY <3>1
  <2> QED BY <2>1, <2>2, <2>3
<1> QED BY <1>1 DEF Client!Least

LEMMA MostTruth ==
  \A S : S # {} /\ S \subseteq Truths =>
           Client!Most(S) \in S /\ \A y \in S : Client!Most(S) >= y
<1> SUFFICES ASSUME NEW S, S # {}, S \subseteq Truths
             PROVE  Client!Most(S) \in S /\ \A y \in S : Client!Most(S) >= y
  OBVIOUS
<1>1. \E x \in S : \A y \in S : x >= y
  <2>1. CASE 2 \in S  BY <2>1 DEF Truths
  <2>2. CASE 2 \notin S /\ 1 \in S  BY <2>2 DEF Truths
  <2>3. CASE 2 \notin S /\ 1 \notin S
    <3>1. S = {0}  BY <2>3 DEF Truths
    <3> QED BY <3>1
  <2> QED BY <2>1, <2>2, <2>3
<1> QED BY <1>1 DEF Client!Most

\* A condition holds when all its parts are true.
LEMMA HoldsWhenTrue == \A P : P \subseteq Truths => (Client!Holds(P) <=> P \subseteq {2})
<1> SUFFICES ASSUME NEW P, P \subseteq Truths PROVE Client!Holds(P) <=> P \subseteq {2}
  OBVIOUS
<1>1. {2} \cup P # {} /\ {2} \cup P \subseteq Truths  BY DEF Truths
<1>2. Client!Least({2} \cup P) \in {2} \cup P
      /\ \A y \in {2} \cup P : Client!Least({2} \cup P) <= y
  BY <1>1, LeastTruth
<1>3. ASSUME P \subseteq {2} PROVE Client!Least({2} \cup P) = 2  BY <1>2, <1>3
<1>4. ASSUME Client!Least({2} \cup P) = 2 PROVE P \subseteq {2}
  <2> SUFFICES ASSUME NEW x \in P PROVE x = 2  OBVIOUS
  <2>1. 2 <= x /\ x \in {0, 1, 2}  BY <1>2, <1>4 DEF Truths
  <2> QED BY <2>1
<1> QED BY <1>3, <1>4 DEF Client!Holds

LEMMA OrOfOne ==
  \A P : P # {} /\ P \subseteq Truths => Client!OrOf({P}) = {Client!Least(P)}
<1> SUFFICES ASSUME NEW P, P # {}, P \subseteq Truths
             PROVE  Client!OrOf({P}) = {Client!Least(P)}
  OBVIOUS
<1>1. {P} \ {{}} = {P}  OBVIOUS
<1>2. {Client!Least(parts) : parts \in {P}} = {Client!Least(P)}  OBVIOUS
<1>3. Client!Least(P) \in Truths  BY LeastTruth
<1>4. Client!Most({Client!Least(P)}) = Client!Least(P)  BY <1>3, MostTruth
<1> QED BY <1>1, <1>2, <1>4 DEF Client!OrOf

LEMMA OrOfTwo ==
  \A a, b \in Truths : Client!OrOf({{a}, {b}}) = {Client!Most({a, b})}
<1> SUFFICES ASSUME NEW a \in Truths, NEW b \in Truths
             PROVE  Client!OrOf({{a}, {b}}) = {Client!Most({a, b})}
  OBVIOUS
<1>1. {{a}, {b}} \ {{}} = {{a}, {b}}  OBVIOUS
<1>2. Client!Least({a}) = a /\ Client!Least({b}) = b  BY LeastTruth
<1>3. {Client!Least(parts) : parts \in {{a}, {b}}} = {a, b}  BY <1>2
<1> QED BY <1>1, <1>3 DEF Client!OrOf

\* What the forms of conditions the services use come down to.
LEMMA OneHolds == \A a \in Truths : Client!Holds({a}) <=> a = 2
BY HoldsWhenTrue

LEMMA TwoHold == \A a, b \in Truths : Client!Holds({a} \cup {b}) <=> a = 2 /\ b = 2
<1> SUFFICES ASSUME NEW a \in Truths, NEW b \in Truths
             PROVE  Client!Holds({a} \cup {b}) <=> a = 2 /\ b = 2
  OBVIOUS
<1>1. {a} \cup {b} \subseteq Truths  OBVIOUS
<1> QED BY <1>1, HoldsWhenTrue

LEMMA EitherHolds ==
  \A a, b \in Truths : Client!Holds(Client!OrOf({{a}, {b}})) <=> a = 2 \/ b = 2
<1> SUFFICES ASSUME NEW a \in Truths, NEW b \in Truths
             PROVE  Client!Holds(Client!OrOf({{a}, {b}})) <=> a = 2 \/ b = 2
  OBVIOUS
<1>0. Client!OrOf({{a}, {b}}) = {Client!Most({a, b})}  BY OrOfTwo
<1>1. Client!Most({a, b}) \in {a, b} /\ \A y \in {a, b} : Client!Most({a, b}) >= y
  BY MostTruth
<1>2. Client!Holds({Client!Most({a, b})}) <=> Client!Most({a, b}) = 2  BY <1>1, OneHolds
<1>3. Client!Most({a, b}) = 2 <=> a = 2 \/ b = 2  BY <1>1 DEF Truths
<1> QED BY <1>0, <1>2, <1>3

LEMMA AllOfOneHold ==
  \A a, b \in Truths : Client!Holds(Client!OrOf({{a, b}})) <=> a = 2 /\ b = 2
<1> SUFFICES ASSUME NEW a \in Truths, NEW b \in Truths
             PROVE  Client!Holds(Client!OrOf({{a, b}})) <=> a = 2 /\ b = 2
  OBVIOUS
<1>0. Client!OrOf({{a, b}}) = {Client!Least({a, b})}  BY OrOfOne
<1>1. Client!Least({a, b}) \in {a, b} /\ \A y \in {a, b} : Client!Least({a, b}) <= y
  BY LeastTruth
<1>2. Client!Holds({Client!Least({a, b})}) <=> Client!Least({a, b}) = 2  BY <1>1, OneHolds
<1>3. Client!Least({a, b}) = 2 <=> a = 2 /\ b = 2  BY <1>1 DEF Truths
<1> QED BY <1>0, <1>2, <1>3

LEMMA ThreeHold ==
  \A a, b, c \in Truths :
    Client!Holds({a} \cup Client!OrOf({{b}}) \cup {c}) <=> a = 2 /\ b = 2 /\ c = 2
<1> SUFFICES ASSUME NEW a \in Truths, NEW b \in Truths, NEW c \in Truths
             PROVE  Client!Holds({a} \cup Client!OrOf({{b}}) \cup {c}) <=> a = 2 /\ b = 2 /\ c = 2
  OBVIOUS
<1>1. Client!OrOf({{b}}) = {b}
  <2>1. Client!OrOf({{b}}) = {Client!Least({b})}  BY OrOfOne
  <2>2. Client!Least({b}) \in {b}  BY LeastTruth
  <2> QED BY <2>1, <2>2
<1>2. {a} \cup {b} \cup {c} \subseteq Truths  OBVIOUS
<1>3. Client!Holds({a} \cup {b} \cup {c}) <=> {a} \cup {b} \cup {c} \subseteq {2}
  BY <1>2, HoldsWhenTrue
<1> QED BY <1>1, <1>3

LEMMA OneAndEither ==
  \A a, b, c \in Truths :
    Client!Holds({a} \cup Client!OrOf({{b}, {c}})) <=> a = 2 /\ (b = 2 \/ c = 2)
<1> SUFFICES ASSUME NEW a \in Truths, NEW b \in Truths, NEW c \in Truths
             PROVE  Client!Holds({a} \cup Client!OrOf({{b}, {c}})) <=> a = 2 /\ (b = 2 \/ c = 2)
  OBVIOUS
<1>0. Client!OrOf({{b}, {c}}) = {Client!Most({b, c})}  BY OrOfTwo
<1>1. Client!Most({b, c}) \in {b, c} /\ \A y \in {b, c} : Client!Most({b, c}) >= y
  BY MostTruth
<1>2. Client!Holds({a} \cup {Client!Most({b, c})}) <=> a = 2 /\ Client!Most({b, c}) = 2
  BY <1>1, TwoHold
<1>3. Client!Most({b, c}) = 2 <=> b = 2 \/ c = 2  BY <1>1 DEF Truths
<1> QED BY <1>0, <1>2, <1>3

LEMMA OneWithoutOther ==
  \A a, b \in Truths : Client!Holds({a} \cup Client!NotOf({b})) <=> a = 2 /\ b = 0
<1> SUFFICES ASSUME NEW a \in Truths, NEW b \in Truths
             PROVE  Client!Holds({a} \cup Client!NotOf({b})) <=> a = 2 /\ b = 0
  OBVIOUS
<1>1. Client!NotOf({b}) = {2 - b}  BY LeastTruth DEF Client!NotOf
<1>2. 2 - b \in Truths  BY DEF Truths
<1> QED BY <1>1, <1>2, TwoHold DEF Truths

LEMMA JoinedHold ==
  \A a, b \in Truths : Client!Holds(Client!AndOf({{a}, {b}})) <=> a = 2 /\ b = 2
<1> SUFFICES ASSUME NEW a \in Truths, NEW b \in Truths
             PROVE  Client!Holds(Client!AndOf({{a}, {b}})) <=> a = 2 /\ b = 2
  OBVIOUS
<1>1. UNION {{a}, {b}} = {a, b}  OBVIOUS
<1>2. Client!AndOf({{a}, {b}}) = {Client!Least({a, b})}  BY <1>1 DEF Client!AndOf
<1>3. Client!Least({a, b}) \in {a, b} /\ \A y \in {a, b} : Client!Least({a, b}) <= y
  BY LeastTruth
<1>4. Client!Holds({Client!Least({a, b})}) <=> Client!Least({a, b}) = 2  BY <1>3, OneHolds
<1>5. Client!Least({a, b}) = 2 <=> a = 2 /\ b = 2  BY <1>3 DEF Truths
<1> QED BY <1>2, <1>4, <1>5

LEMMA UndefinedIsSkipped ==
  \A a \in Truths :
    Client!Holds(Client!Undefined \cup {a} \cup Client!AndOf({Client!Undefined})) <=> a = 2
<1> SUFFICES ASSUME NEW a \in Truths
             PROVE  Client!Holds(Client!Undefined \cup {a} \cup Client!AndOf({Client!Undefined}))
                    <=> a = 2
  OBVIOUS
<1>1. Client!AndOf({Client!Undefined}) = {}  BY DEF Client!AndOf, Client!Undefined
<1>2. Client!Undefined \cup {a} \cup {} = {a}  BY DEF Client!Undefined
<1> QED BY <1>1, <1>2, OneHolds

\* What a comparison says of a cell.
LEMMA EqualsCell ==
  \A cell, v : Client!Equals(cell, v) \in Truths /\ (Client!Equals(cell, v) = 2 <=> cell = v)
BY DEF Truths, Client!Equals, Client!Truth, Client!Compared

LEMMA UnequalCell ==
  \A cell, v : cell # None => (Client!Equals(cell, v) = 0 <=> cell # v)
BY DEF Client!Equals, Client!Truth, Client!Compared

LEMMA FalseCell == \A cell \in BOOLEAN : Client!Equals(cell, FALSE) = 2 <=> ~cell
<1> SUFFICES ASSUME NEW cell \in BOOLEAN PROVE Client!Equals(cell, FALSE) = 2 <=> ~cell
  OBVIOUS
<1>1. cell = FALSE <=> ~cell  BY Zenon
<1>2. Client!Equals(cell, FALSE) = 2 <=> cell = FALSE  BY EqualsCell, Zenon
<1> QED BY <1>1, <1>2, Zenon

LEMMA AnyOfCell ==
  \A cell, S : /\ Client!AnyOf(cell, S) \in Truths
               /\ cell # None => (Client!AnyOf(cell, S) = 2 <=> cell \in S)
BY DEF Truths, Client!AnyOf, Client!Truth, Client!Compared

LEMMA AtMostCell ==
  \A cell, v : /\ Client!AtMost(cell, v) \in Truths
               /\ Client!AtMost(cell, v) = 2 <=> cell # None /\ cell <= v
BY DEF Truths, Client!AtMost, Client!Truth

LEMMA NotNullCell ==
  \A cell : Client!IsNotNull(cell) \in Truths /\ (Client!IsNotNull(cell) = 2 <=> cell # None)
BY DEF Truths, Client!IsNotNull, Client!Truth

LEMMA ExistsWhenJoined ==
  \A S : \E a \in Truths : Client!Exists(S) = {a} /\ (a = 2 <=> S # {})
BY DEF Truths, Client!Exists, Client!Truth

-----------------------------------------------------------------------------
(* The data client: what its queries find                                    *)

\* The foreign key: the process of an entry is there.
OwnersAreThere ==
  \A e \in Client!Present : owners[entries[e].process] # None

LEMMA RowCells ==
  ASSUME ClientNames, Client!TypeOK, OwnersAreThere
  PROVE  \A e \in Client!Present :
           /\ e \in Tabled /\ e # None /\ Client!Code(e) # None
           /\ entries[e] \in Row(e)
           /\ entries[e].id = e /\ entries[e].code = Client!Code(e)
           /\ entries[e].process \in Owners /\ entries[e].process # None
           /\ entries[e].due \in Dues \cup {None} /\ entries[e].resolved \in BOOLEAN
           /\ entries[e].version \in 1..MaxVersion
           /\ Client!Owner(e) = owners[entries[e].process] /\ Client!Owner(e) # None
           /\ Client!Owner(e) \in [archived : BOOLEAN, members : SUBSET People]
           /\ Client!Owner(e).archived \in BOOLEAN
           /\ Client!ProcessOf(e) = {Client!Owner(e)}
<1> SUFFICES ASSUME NEW e \in Client!Present
             PROVE  /\ e \in Tabled /\ e # None /\ Client!Code(e) # None
                    /\ entries[e] \in Row(e)
                    /\ entries[e].id = e /\ entries[e].code = Client!Code(e)
                    /\ entries[e].process \in Owners /\ entries[e].process # None
                    /\ entries[e].due \in Dues \cup {None} /\ entries[e].resolved \in BOOLEAN
                    /\ entries[e].version \in 1..MaxVersion
                    /\ Client!Owner(e) = owners[entries[e].process] /\ Client!Owner(e) # None
                    /\ Client!Owner(e) \in [archived : BOOLEAN, members : SUBSET People]
                    /\ Client!Owner(e).archived \in BOOLEAN
                    /\ Client!ProcessOf(e) = {Client!Owner(e)}
  OBVIOUS
<1>1. e \in Tabled /\ entries[e] # None  BY DEF Client!Present
<1>2. entries[e] \in Row(e)  BY <1>1 DEF Client!TypeOK, Row
<1>3. /\ entries[e].id = e /\ entries[e].code = Client!Code(e)
      /\ entries[e].process \in Owners
      /\ entries[e].due \in Dues \cup {None} /\ entries[e].resolved \in BOOLEAN
      /\ entries[e].version \in 1..MaxVersion
  BY <1>2 DEF Row
<1>4. /\ Client!Owner(e) = owners[entries[e].process] /\ Client!Owner(e) # None
      /\ Client!Owner(e) \in [archived : BOOLEAN, members : SUBSET People]
  BY <1>3 DEF OwnersAreThere, Client!Owner, Client!TypeOK
<1>5. Client!Owner(e).archived \in BOOLEAN  BY <1>4
<1>6. Client!ProcessOf(e) = {Client!Owner(e)}
  BY <1>4 DEF Client!ProcessOf
<1>7. e # None /\ Client!Code(e) # None /\ entries[e].process # None
  BY <1>1, <1>3 DEF ClientNames
<1> QED BY <1>1, <1>2, <1>3, <1>4, <1>5, <1>6, <1>7

LEMMA LookUpFinds ==
  ASSUME ClientNames, Client!TypeOK, OwnersAreThere
  PROVE  \A x : Client!LookUp(x).found = Client!LookUp(x).says
<1> SUFFICES ASSUME NEW x PROVE Client!LookUp(x).found = Client!LookUp(x).says
  OBVIOUS
<1>1. ASSUME NEW e \in Client!Present
      PROVE  Client!Holds(Client!OrOf({{Client!Equals(entries[e].id, x)},
                                       {Client!Equals(entries[e].code, x)}}))
               <=> x \in {e, Client!Code(e)}
  <2>1. entries[e].id = e /\ entries[e].code = Client!Code(e)  BY RowCells
  <2>2. PICK a \in Truths : a = Client!Equals(entries[e].id, x) /\ (a = 2 <=> x = e)
    BY <2>1, EqualsCell
  <2>3. PICK b \in Truths : b = Client!Equals(entries[e].code, x) /\ (b = 2 <=> x = Client!Code(e))
    BY <2>1, EqualsCell
  <2>4. Client!Holds(Client!OrOf({{a}, {b}})) <=> a = 2 \/ b = 2  BY EitherHolds
  <2> QED BY <2>2, <2>3, <2>4
<1> QED BY <1>1 DEF Client!LookUp

LEMMA OverdueFinds ==
  ASSUME ClientNames, Client!TypeOK, OwnersAreThere
  PROVE  \A d \in Dues : Client!Overdue(d).found = Client!Overdue(d).says
<1> SUFFICES ASSUME NEW d \in Dues PROVE Client!Overdue(d).found = Client!Overdue(d).says
  OBVIOUS
<1>1. ASSUME NEW e \in Client!Present
      PROVE  Client!Holds(Client!OrOf({{Client!Equals(entries[e].resolved, FALSE),
                                        Client!AtMost(entries[e].due, d)}}))
               <=> /\ ~entries[e].resolved
                   /\ entries[e].due \in {due \in Dues : due <= d}
  <2>1. entries[e].resolved \in BOOLEAN /\ entries[e].due \in Dues \cup {None}
    BY RowCells
  <2>2. PICK a \in Truths : a = Client!Equals(entries[e].resolved, FALSE)
                            /\ (a = 2 <=> ~entries[e].resolved)
    BY <2>1, EqualsCell, FalseCell
  <2>3. PICK b \in Truths : b = Client!AtMost(entries[e].due, d)
                            /\ (b = 2 <=> entries[e].due # None /\ entries[e].due <= d)
    BY AtMostCell
  <2>4. b = 2 <=> entries[e].due \in {due \in Dues : due <= d}
    BY <2>1, <2>3 DEF ClientNames
  <2>5. Client!Holds(Client!OrOf({{a, b}})) <=> a = 2 /\ b = 2  BY AllOfOneHold
  <2> QED BY <2>2, <2>3, <2>4, <2>5
<1> QED BY <1>1 DEF Client!Overdue

LEMMA StillUsedFinds ==
  ASSUME ClientNames, Client!TypeOK, OwnersAreThere
  PROVE  \A k : Client!StillUsed(k).found = Client!StillUsed(k).says
<1> SUFFICES ASSUME NEW k PROVE Client!StillUsed(k).found = Client!StillUsed(k).says
  OBVIOUS
<1>1. ASSUME NEW e \in Client!Present
      PROVE  Client!Holds({Client!Equals(entries[e].resolved, FALSE)}
                          \cup Client!OrOf({{Client!Equals(entries[e].key, k)}})
                          \cup Client!Exists({p \in Client!ProcessOf(e) :
                                 Client!Holds({Client!Equals(p.archived, FALSE)})}))
               <=> ~entries[e].resolved /\ entries[e].key = k /\ ~Client!Owner(e).archived
  <2> DEFINE live == {p \in Client!ProcessOf(e) : Client!Holds({Client!Equals(p.archived, FALSE)})}
  <2>1. PICK a \in Truths : a = Client!Equals(entries[e].resolved, FALSE)
                            /\ (a = 2 <=> ~entries[e].resolved)
    BY RowCells, EqualsCell, FalseCell
  <2>2. PICK b \in Truths : b = Client!Equals(entries[e].key, k) /\ (b = 2 <=> entries[e].key = k)
    BY EqualsCell
  <2>3. Client!ProcessOf(e) = {Client!Owner(e)} /\ Client!Owner(e).archived \in BOOLEAN
    BY RowCells
  <2>4. Client!Holds({Client!Equals(Client!Owner(e).archived, FALSE)}) <=> ~Client!Owner(e).archived
    <3>1. PICK n \in Truths : n = Client!Equals(Client!Owner(e).archived, FALSE)
                              /\ (n = 2 <=> ~Client!Owner(e).archived)
      BY <2>3, EqualsCell, FalseCell
    <3>2. Client!Holds({n}) <=> n = 2  BY OneHolds
    <3> QED BY <3>1, <3>2
  <2>5. live # {} <=> ~Client!Owner(e).archived
    BY <2>3, <2>4
  <2> HIDE DEF live
  <2>6. PICK c \in Truths : Client!Exists(live) = {c} /\ (c = 2 <=> live # {})
    BY ExistsWhenJoined
  <2>7. Client!Holds({a} \cup Client!OrOf({{b}}) \cup {c}) <=> a = 2 /\ b = 2 /\ c = 2
    BY ThreeHold
  <2>8. Client!Holds({Client!Equals(entries[e].resolved, FALSE)}
                     \cup Client!OrOf({{Client!Equals(entries[e].key, k)}})
                     \cup Client!Exists(live))
          <=> ~entries[e].resolved /\ entries[e].key = k /\ ~Client!Owner(e).archived
    BY <2>1, <2>2, <2>5, <2>6, <2>7
  <2> QED BY <2>8 DEF live
<1> QED BY <1>1 DEF Client!StillUsed

LEMMA InProcessesFinds ==
  ASSUME ClientNames, Client!TypeOK, OwnersAreThere
  PROVE  \A u : Client!InProcesses(u).found = Client!InProcesses(u).says
<1> SUFFICES ASSUME NEW u PROVE Client!InProcesses(u).found = Client!InProcesses(u).says
  OBVIOUS
<1> DEFINE ids == {p \in Owners : owners[p] # None /\ u \in owners[p].members}
<1>1. ASSUME NEW e \in Client!Present
      PROVE  Client!Holds({Client!AnyOf(entries[e].process, ids)}) <=> u \in Client!Owner(e).members
  <2>1. entries[e].process \in Owners /\ entries[e].process # None
    BY RowCells
  <2>2. entries[e].process \in ids <=> u \in Client!Owner(e).members
    BY RowCells
  <2> HIDE DEF ids
  <2>3. PICK a \in Truths : a = Client!AnyOf(entries[e].process, ids)
                            /\ (a = 2 <=> entries[e].process \in ids)
    BY <2>1, AnyOfCell
  <2>4. Client!Holds({a}) <=> a = 2  BY OneHolds
  <2> QED BY <2>2, <2>3, <2>4
<1> QED BY <1>1 DEF Client!InProcesses

LEMMA OfAMemberFinds ==
  ASSUME ClientNames, Client!TypeOK, OwnersAreThere
  PROVE  \A u, k : Client!OfAMember(u, k).found = Client!OfAMember(u, k).says
<1> SUFFICES ASSUME NEW u, NEW k
             PROVE  Client!OfAMember(u, k).found = Client!OfAMember(u, k).says
  OBVIOUS
<1>1. ASSUME NEW S
      PROVE  Client!Holds(Client!Exists({m \in S : Client!Holds({Client!Equals(m, u)})})) <=> u \in S
  <2> DEFINE mine == {m \in S : Client!Holds({Client!Equals(m, u)})}
  <2>1. ASSUME NEW m PROVE Client!Holds({Client!Equals(m, u)}) <=> m = u
    <3>1. PICK a \in Truths : a = Client!Equals(m, u) /\ (a = 2 <=> m = u)  BY EqualsCell
    <3>2. Client!Holds({a}) <=> a = 2  BY OneHolds
    <3> QED BY <3>1, <3>2
  <2>2. mine # {} <=> u \in S  BY <2>1
  <2> HIDE DEF mine
  <2>3. PICK a \in Truths : Client!Exists(mine) = {a} /\ (a = 2 <=> mine # {})
    BY ExistsWhenJoined
  <2>4. Client!Holds({a}) <=> a = 2  BY OneHolds
  <2>5. Client!Holds(Client!Exists(mine)) <=> u \in S  BY <2>2, <2>3, <2>4
  <2> QED BY <2>5 DEF mine
<1>2. ASSUME NEW e \in Client!Present
      PROVE  Client!Holds({Client!Equals(entries[e].key, k)} \cup
               Client!Exists({p \in Client!ProcessOf(e) :
                 Client!Holds(Client!Exists({m \in p.members : Client!Holds({Client!Equals(m, u)})}))}))
               <=> entries[e].key = k /\ u \in Client!Owner(e).members
  <2> DEFINE joined ==
        {p \in Client!ProcessOf(e) :
           Client!Holds(Client!Exists({m \in p.members : Client!Holds({Client!Equals(m, u)})}))}
  <2>1. joined = {p \in Client!ProcessOf(e) : u \in p.members}
    BY <1>1
  <2>2. joined # {} <=> u \in Client!Owner(e).members
    BY <2>1, RowCells
  <2> HIDE DEF joined
  <2>3. PICK a \in Truths : a = Client!Equals(entries[e].key, k) /\ (a = 2 <=> entries[e].key = k)
    BY EqualsCell
  <2>4. PICK b \in Truths : Client!Exists(joined) = {b} /\ (b = 2 <=> joined # {})
    BY ExistsWhenJoined
  <2>5. Client!Holds({a} \cup {b}) <=> a = 2 /\ b = 2  BY TwoHold
  <2>6. Client!Holds({Client!Equals(entries[e].key, k)} \cup Client!Exists(joined))
          <=> entries[e].key = k /\ u \in Client!Owner(e).members
    BY <2>2, <2>3, <2>4, <2>5
  <2> QED BY <2>6 DEF joined
<1> QED BY <1>2 DEF Client!OfAMember

LEMMA OthersFind ==
  ASSUME ClientNames, Client!TypeOK, OwnersAreThere
  PROVE  \A p, v : /\ Client!NoneOrThis(p, v).found = Client!NoneOrThis(p, v).says
                   /\ Client!AllButThis(p, v).found = Client!AllButThis(p, v).says
                   /\ Client!OfManager(p, v).found = Client!OfManager(p, v).says
                   /\ Client!IfAskedFor.found = Client!IfAskedFor.says
<1> SUFFICES ASSUME NEW p, NEW v
             PROVE  /\ Client!NoneOrThis(p, v).found = Client!NoneOrThis(p, v).says
                    /\ Client!AllButThis(p, v).found = Client!AllButThis(p, v).says
                    /\ Client!OfManager(p, v).found = Client!OfManager(p, v).says
                    /\ Client!IfAskedFor.found = Client!IfAskedFor.says
  OBVIOUS
<1>0. ASSUME NEW cell, NEW w
      PROVE  \E a \in Truths : a = Client!Equals(cell, w) /\ (a = 2 <=> cell = w)
  BY EqualsCell
<1>1. ASSUME NEW e \in Client!Present
      PROVE  Client!Holds({Client!Equals(entries[e].process, p)}
                          \cup Client!OrOf({{Client!Equals(entries[e].due, None)},
                                            {Client!Equals(entries[e].due, v)}}))
               <=> entries[e].process = p /\ entries[e].due \in {None, v}
  <2>1. PICK a \in Truths : a = Client!Equals(entries[e].process, p)
                            /\ (a = 2 <=> entries[e].process = p)  BY <1>0
  <2>2. PICK b \in Truths : b = Client!Equals(entries[e].due, None)
                            /\ (b = 2 <=> entries[e].due = None)  BY <1>0
  <2>3. PICK c \in Truths : c = Client!Equals(entries[e].due, v)
                            /\ (c = 2 <=> entries[e].due = v)  BY <1>0
  <2>4. Client!Holds({a} \cup Client!OrOf({{b}, {c}})) <=> a = 2 /\ (b = 2 \/ c = 2)
    BY OneAndEither
  <2> QED BY <2>1, <2>2, <2>3, <2>4
<1>2. ASSUME NEW e \in Client!Present
      PROVE  Client!Holds({Client!Equals(entries[e].process, p)}
                          \cup Client!NotOf({Client!Equals(entries[e].id, v)}))
               <=> entries[e].process = p /\ e # v
  <2>1. PICK a \in Truths : a = Client!Equals(entries[e].process, p)
                            /\ (a = 2 <=> entries[e].process = p)  BY <1>0
  <2>2. entries[e].id = e /\ e # None  BY RowCells
  <2>3. PICK b \in Truths : b = Client!Equals(entries[e].id, v) /\ (b = 0 <=> e # v)
    BY <2>2, EqualsCell, UnequalCell
  <2>4. Client!Holds({a} \cup Client!NotOf({b})) <=> a = 2 /\ b = 0  BY OneWithoutOther
  <2> QED BY <2>1, <2>3, <2>4
<1>3. ASSUME NEW e \in Client!Present
      PROVE  Client!Holds(Client!AndOf({{Client!Equals(entries[e].process, p)},
                                        {Client!Equals(entries[e].key, v)}}))
               <=> entries[e].process = p /\ entries[e].key = v
  <2>1. PICK a \in Truths : a = Client!Equals(entries[e].process, p)
                            /\ (a = 2 <=> entries[e].process = p)  BY <1>0
  <2>2. PICK b \in Truths : b = Client!Equals(entries[e].key, v)
                            /\ (b = 2 <=> entries[e].key = v)  BY <1>0
  <2>3. Client!Holds(Client!AndOf({{a}, {b}})) <=> a = 2 /\ b = 2  BY JoinedHold
  <2> QED BY <2>1, <2>2, <2>3
<1>4. ASSUME NEW e \in Client!Present
      PROVE  Client!Holds(Client!Undefined \cup {Client!IsNotNull(entries[e].due)}
                          \cup Client!AndOf({Client!Undefined}))
               <=> entries[e].due # None
  <2>1. PICK a \in Truths : a = Client!IsNotNull(entries[e].due)
                            /\ (a = 2 <=> entries[e].due # None)  BY NotNullCell
  <2>2. Client!Holds(Client!Undefined \cup {a} \cup Client!AndOf({Client!Undefined})) <=> a = 2
    BY UndefinedIsSkipped
  <2> QED BY <2>1, <2>2
<1>5. Client!NoneOrThis(p, v).found = Client!NoneOrThis(p, v).says
  BY <1>1 DEF Client!NoneOrThis
<1>6. Client!AllButThis(p, v).found = Client!AllButThis(p, v).says
  BY <1>2 DEF Client!AllButThis
<1>7. Client!OfManager(p, v).found = Client!OfManager(p, v).says
  BY <1>3 DEF Client!OfManager
<1>8. Client!IfAskedFor.found = Client!IfAskedFor.says
  BY <1>4 DEF Client!IfAskedFor
<1> QED BY <1>5, <1>6, <1>7, <1>8

LEMMA ClausesReachRows ==
  /\ \A x : Client!LookUp(x).found \subseteq Client!Present
  /\ \A x : Client!Overdue(x).found \subseteq Client!Present
  /\ \A x : Client!StillUsed(x).found \subseteq Client!Present
  /\ \A x : Client!InProcesses(x).found \subseteq Client!Present
  /\ \A x, y : Client!OfAMember(x, y).found \subseteq Client!Present
  /\ \A x, y : Client!NoneOrThis(x, y).found \subseteq Client!Present
  /\ \A x, y : Client!AllButThis(x, y).found \subseteq Client!Present
  /\ \A x, y : Client!OfManager(x, y).found \subseteq Client!Present
  /\ Client!IfAskedFor.found \subseteq Client!Present
<1>1. \A x : Client!LookUp(x).found \subseteq Client!Present  BY DEF Client!LookUp
<1>2. \A x : Client!Overdue(x).found \subseteq Client!Present  BY DEF Client!Overdue
<1>3. \A x : Client!StillUsed(x).found \subseteq Client!Present  BY DEF Client!StillUsed
<1>4. \A x : Client!InProcesses(x).found \subseteq Client!Present  BY DEF Client!InProcesses
<1>5. \A x, y : Client!OfAMember(x, y).found \subseteq Client!Present  BY DEF Client!OfAMember
<1>6. \A x, y : Client!NoneOrThis(x, y).found \subseteq Client!Present  BY DEF Client!NoneOrThis
<1>7. \A x, y : Client!AllButThis(x, y).found \subseteq Client!Present  BY DEF Client!AllButThis
<1>8. \A x, y : Client!OfManager(x, y).found \subseteq Client!Present  BY DEF Client!OfManager
<1>9. Client!IfAskedFor.found \subseteq Client!Present  BY DEF Client!IfAskedFor
<1> QED BY <1>1, <1>2, <1>3, <1>4, <1>5, <1>6, <1>7, <1>8, <1>9

\* Whatever is NULL in the rows, a clause finds what it is meant to say.
LEMMA ClausesFind ==
  ASSUME ClientNames, Client!TypeOK, OwnersAreThere
  PROVE  \A c \in Client!Clauses : c.found = c.says /\ c.found \subseteq Client!Present
BY LookUpFinds, OverdueFinds, StillUsedFinds, InProcessesFinds, OfAMemberFinds, OthersFind,
   ClausesReachRows DEF Client!Clauses

-----------------------------------------------------------------------------
(* The data client: what its answers hold                                    *)

LEMMA HighestIsHighest ==
  ASSUME ClientNames, Client!TypeOK, OwnersAreThere, NEW c, c.found \subseteq Client!Present
  PROVE  \A e \in c.found : Client!Highest(c) >= entries[e].version
<1> SUFFICES ASSUME NEW e \in c.found PROVE Client!Highest(c) >= entries[e].version
  OBVIOUS
<1> DEFINE S == {entries[f].version : f \in c.found}
<1>1. S \subseteq 1..MaxVersion /\ entries[e].version \in S  BY RowCells
<1>2. Client!Highest(c) = Client!Most(S)  BY DEF Client!Highest
<1> HIDE DEF S
<1>3. \E i \in S : \A j \in S : i >= j  BY <1>1, HighestVersion DEF ClientNames
<1>4. \A j \in S : Client!Most(S) >= j  BY <1>3 DEF Client!Most
<1> QED BY <1>1, <1>2, <1>4

LEMMA ClientCounts == \A S : Client!Cardinality(S) = Cardinality(S)
BY DEF Client!Cardinality, Cardinality, Client!IsFiniteSet, IsFiniteSet

\* A list without repetitions of as many rows as there are holds them all.
LEMMA ListHoldsAll ==
  ASSUME NEW S, IsFiniteSet(S), NEW q \in [1..Cardinality(S) -> S],
         \A i, j \in DOMAIN q : i < j => q[i] # q[j]
  PROVE  \A e \in S : \E i \in 1..Cardinality(S) : q[i] = e
<1> DEFINE n == Cardinality(S)
<1>1. n \in Nat  BY FS_CardinalityType
<1>2. IsFiniteSet(1..n) /\ Cardinality(1..n) = n  BY <1>1, FS_Interval
<1> HIDE DEF n
<1>3. q \in [1..n -> S]  BY DEF n
<1>4. \A i, j \in 1..n : q[i] = q[j] => i = j
  <2> SUFFICES ASSUME NEW i \in 1..n, NEW j \in 1..n, q[i] = q[j], i # j PROVE FALSE
    OBVIOUS
  <2>1. DOMAIN q = 1..n  BY <1>3
  <2>2. i < j \/ j < i  BY <1>1
  <2> QED BY <2>1, <2>2
<1>5. q \in Injection(1..n, S)  BY <1>3, <1>4, Fun_IsInj
<1>6. Cardinality(1..n) = Cardinality(S) <=> q \in Surjection(1..n, S)  BY <1>5, FS_Injection
<1>7. q \in Surjection(1..n, S)  BY <1>2, <1>6 DEF n
<1>8. \A e \in S : \E i \in 1..n : q[i] = e  BY <1>7 DEF Surjection
<1> QED BY <1>8 DEF n

LEMMA PagesAreInOrder ==
  ASSUME NEW c, IsFiniteSet(c.found), NEW dir, NEW take \in 0..1,
         NEW ids \in Client!FindMany(c, dir, 0, take)
  PROVE  LET onPage == {ids[i] : i \in DOMAIN ids}
         IN  /\ \A e \in c.found \ onPage, f \in onPage : Client!Before(f, e, dir)
             /\ take = 0 => onPage = c.found
             /\ onPage # {} \/ c.found = {}
<1> DEFINE S == c.found
           n == Cardinality(S)
           onPage == {ids[i] : i \in DOMAIN ids}
<1>1. n \in Nat  BY FS_CardinalityType
<1>2. PICK q \in Client!InOrder(S, dir) :
        ids = Client!SubSeq(q, 1, IF take = 0 \/ take > Client!Len(q) THEN Client!Len(q) ELSE take)
  BY DEF Client!FindMany
<1>3. /\ q \in [1..n -> S]
      /\ \A i, j \in DOMAIN q : i < j => q[i] # q[j] /\ Client!Before(q[i], q[j], dir)
  BY ClientCounts DEF Client!InOrder
<1>4. \A e \in S : \E i \in 1..n : q[i] = e
  <2>1. IsFiniteSet(S) /\ \A i, j \in DOMAIN q : i < j => q[i] # q[j]  BY <1>3
  <2> HIDE DEF S
  <2> QED BY <1>3, <2>1, ListHoldsAll
<1> HIDE DEF n
<1>5. Client!Len(q) = n /\ DOMAIN q = 1..n  BY <1>1, <1>3
<1>6. CASE take = 0 \/ n = 0
  <2>1. ids = Client!SubSeq(q, 1, n)  BY <1>2, <1>5, <1>6
  <2>2. DOMAIN ids = 1..n /\ \A i \in 1..n : ids[i] = q[i]  BY <1>1, <1>3, <2>1
  <2>3. onPage = S  BY <1>3, <1>4, <2>2
  <2> QED BY <2>3
<1>7. CASE take = 1 /\ n # 0
  <2>1. ids = Client!SubSeq(q, 1, 1)  BY <1>1, <1>2, <1>5, <1>7
  <2>2. DOMAIN ids = {1} /\ ids[1] = q[1]  BY <1>1, <1>3, <1>7, <2>1
  <2>3. onPage = {q[1]}  BY <2>2
  <2>4. \A e \in S \ {q[1]} : Client!Before(q[1], e, dir)
    <3> SUFFICES ASSUME NEW e \in S \ {q[1]} PROVE Client!Before(q[1], e, dir)
      OBVIOUS
    <3>1. PICK i \in 1..n : q[i] = e  BY <1>4
    <3>2. 1 < i /\ 1 \in 1..n  BY <1>1, <1>7, <3>1
    <3> QED BY <1>3, <1>5, <3>1, <3>2
  <2> QED BY <1>7, <2>3, <2>4
<1>8. take = 0 \/ take = 1  OBVIOUS
<1> QED BY <1>6, <1>7, <1>8

LEMMA AnswersHold ==
  ASSUME ClientNames, Client!TypeOK, OwnersAreThere
  PROVE  Client!ClausesMeanWhatTheySay
<1> SUFFICES ASSUME NEW c \in Client!Clauses
             PROVE  /\ c.found = c.says
                    /\ Client!Count(c) = Client!Cardinality(c.says)
                    /\ \A e \in c.says : Client!Highest(c) >= entries[e].version
                    /\ \A g \in Client!GroupByProcess(c) :
                         g[2] = Client!Cardinality({e \in c.says : entries[e].process = g[1]})
                    /\ \A dir \in {"asc", "desc"}, take \in 0..1 :
                         \A ids \in Client!FindMany(c, dir, 0, take) :
                           LET onPage == {ids[i] : i \in DOMAIN ids}
                           IN  /\ \A e \in c.says \ onPage, f \in onPage : Client!Before(f, e, dir)
                               /\ take = 0 => onPage = c.says
                               /\ onPage # {} \/ c.says = {}
  BY DEF Client!ClausesMeanWhatTheySay
<1>1. c.found = c.says /\ c.found \subseteq Client!Present  BY ClausesFind
<1>2. IsFiniteSet(c.found)
  <2>1. c.found \in SUBSET Tabled  BY <1>1 DEF Client!Present
  <2> QED BY <2>1, FS_Subset DEF ClientNames
<1>3. Client!Count(c) = Client!Cardinality(c.says)  BY <1>1 DEF Client!Count
<1>4. \A e \in c.says : Client!Highest(c) >= entries[e].version  BY <1>1, HighestIsHighest
<1>5. \A g \in Client!GroupByProcess(c) :
        g[2] = Client!Cardinality({e \in c.says : entries[e].process = g[1]})
  <2> SUFFICES ASSUME NEW g \in Client!GroupByProcess(c)
               PROVE  g[2] = Client!Cardinality({e \in c.says : entries[e].process = g[1]})
    OBVIOUS
  <2>1. PICK p : g = <<p, Client!Cardinality({e \in c.found : entries[e].process = p})>>
    BY DEF Client!GroupByProcess
  <2>2. g[1] = p /\ g[2] = Client!Cardinality({e \in c.found : entries[e].process = p})  BY <2>1
  <2> QED BY <1>1, <2>2
<1>6. \A dir \in {"asc", "desc"}, take \in 0..1 :
        \A ids \in Client!FindMany(c, dir, 0, take) :
          LET onPage == {ids[i] : i \in DOMAIN ids}
          IN  /\ \A e \in c.says \ onPage, f \in onPage : Client!Before(f, e, dir)
              /\ take = 0 => onPage = c.says
              /\ onPage # {} \/ c.says = {}
  BY <1>1, <1>2, PagesAreInOrder
<1> QED BY <1>1, <1>3, <1>4, <1>5, <1>6

-----------------------------------------------------------------------------
(* The data client: what its writes leave                                    *)

\* A row counts its changes, and each has left an event.
EventsCount ==
  \A e \in Tabled : IF entries[e] = None THEN events[e] \in {-1, 0}
                    ELSE events[e] = entries[e].version

TablesInv ==
  /\ \A e \in Tabled : /\ events[e] \in -1..MaxVersion
                       /\ entries[e] = None \/ entries[e] \in Row(e)
  /\ DOMAIN owners = Owners
  /\ \A p \in Owners : \/ owners[p] = None
                       \/ owners[p] \in [archived : BOOLEAN, members : SUBSET People]
  /\ OwnersAreThere /\ EventsCount

\* What a request has read is no newer than the tables.
ReadRow == [id : Tabled, version : Nat, events : Int]
Asks == [op : {"upsert"}, p : Owners, k : Mails, found : BOOLEAN]
        \cup [op : {"rows", "answered"}, rows : SUBSET ReadRow]

AskIsOld(r) ==
  ask[r] # None =>
    /\ ask[r] \in Asks
    /\ ask[r].op \in {"rows", "answered"} =>
         \A x \in ask[r].rows :
           /\ x \in ReadRow
           /\ x.version <= events[x.id] \/ events[x.id] = -1
           /\ ask[r].op = "answered" => x.events >= x.version \/ x.events = -1

ClientInv == TablesInv /\ DOMAIN ask = Asking /\ \A r \in Asking : AskIsOld(r)

\* No step takes an event away without its entry.
EventsGrow ==
  \A e \in Tabled : events'[e] = -1 \/ (events[e] # -1 /\ events'[e] >= events[e])

LEMMA ClientTyped == ClientInv => Client!TypeOK /\ OwnersAreThere
BY DEF ClientInv, TablesInv, Client!TypeOK, Row

LEMMA ClientStart == ASSUME ClientNames PROVE Client!Init => ClientInv
<1> SUFFICES ASSUME Client!Init PROVE ClientInv
  OBVIOUS
<1>1. PICK a \in Owners : owners = [p \in Owners |-> [archived |-> p = a,
                            members |-> IF p = a THEN {} ELSE People]]
  BY DEF Client!Init
<1>2. \A p \in Owners : owners[p] \in [archived : BOOLEAN, members : SUBSET People]
  BY <1>1
<1>3. Client!Present = {}  BY DEF Client!Init, Client!Present
<1>4. OwnersAreThere  BY <1>3 DEF OwnersAreThere
<1>5. \A e \in Tabled : entries[e] = None /\ events[e] = 0  BY DEF Client!Init
<1>6. EventsCount  BY <1>5 DEF EventsCount
<1>7. \A e \in Tabled : events[e] \in -1..MaxVersion
  <2>1. MaxVersion \in Nat  BY DEF ClientNames
  <2>2. 0 \in -1..MaxVersion  BY <2>1
  <2> QED BY <1>5, <2>2
<1>8. TablesInv
  BY <1>1, <1>2, <1>4, <1>5, <1>6, <1>7 DEF TablesInv
<1> QED BY <1>8 DEF ClientInv, Client!Init, AskIsOld

LEMMA Insertion ==
  ASSUME ClientNames, TablesInv, NEW S \in SUBSET Tabled, NEW rowOf,
         \A e \in S : /\ Client!Fresh(e) /\ rowOf[e] \in Row(e) /\ rowOf[e].version = 1
                      /\ owners[rowOf[e].process] # None,
         Client!Inserted(S, rowOf), UNCHANGED owners
  PROVE  TablesInv' /\ EventsGrow
<1>1. \A e \in Tabled : /\ entries'[e] = IF e \in S THEN rowOf[e] ELSE entries[e]
                        /\ events'[e] = IF e \in S THEN 1 ELSE events[e]
  BY DEF Client!Inserted
<1>2. \A e \in S : /\ entries[e] = None /\ events[e] = 0 /\ entries'[e] = rowOf[e]
                   /\ events'[e] = 1 /\ entries'[e] # None
  BY <1>1 DEF Client!Fresh, ClientNames
<1>3. \A e \in Tabled \ S : entries'[e] = entries[e] /\ events'[e] = events[e]
  BY <1>1
<1>4. EventsGrow
  BY <1>2, <1>3 DEF EventsGrow, TablesInv
<1>5. \A e \in Tabled : /\ events'[e] \in -1..MaxVersion
                        /\ entries'[e] = None \/ entries'[e] \in Row(e)
  BY <1>2, <1>3 DEF TablesInv, ClientNames
<1>6. EventsCount'
  BY <1>2, <1>3 DEF TablesInv, EventsCount
<1>7. OwnersAreThere'
  BY <1>2, <1>3 DEF TablesInv, OwnersAreThere, Client!Present
<1> QED BY <1>4, <1>5, <1>6, <1>7 DEF TablesInv

LEMMA Assignment ==
  ASSUME ClientNames, TablesInv, NEW S, S \subseteq Client!Present,
         NEW d \in Dues \cup {None}, NEW flip \in BOOLEAN,
         Client!Assigned(S, d, flip), UNCHANGED owners
  PROVE  TablesInv' /\ EventsGrow
<1>1. \A e \in Tabled : /\ entries'[e] = IF e \in S THEN Client!Changed(e, d, flip) ELSE entries[e]
                        /\ events'[e] = IF e \in S THEN events[e] + 1 ELSE events[e]
  BY DEF Client!Assigned
<1>2. \A e \in S : e \in Tabled /\ entries[e] # None /\ entries[e].version < MaxVersion
  BY DEF Client!Assigned, Client!Present
<1>3. ASSUME NEW e \in S
      PROVE  /\ entries'[e] \in Row(e) /\ entries'[e].version = entries[e].version + 1
             /\ entries'[e].process = entries[e].process /\ entries'[e] # None
             /\ events[e] = entries[e].version /\ events'[e] = entries[e].version + 1
             /\ events[e] \in 1..MaxVersion /\ events'[e] \in 1..MaxVersion
  <2>1. entries[e] \in Row(e) /\ entries[e].version \in 1..MaxVersion
    BY <1>2 DEF TablesInv, Row
  <2>2. PICK flipped \in BOOLEAN :
          entries'[e] = [entries[e] EXCEPT !.due = d, !.resolved = flipped, !.version = @ + 1]
    <3>1. entries[e].resolved \in BOOLEAN  BY <2>1 DEF Row
    <3>2. CASE flip
      <4>1. entries'[e] = [entries[e] EXCEPT !.due = d, !.resolved = ~entries[e].resolved,
                                             !.version = @ + 1]
        BY <1>1, <1>2, <3>2 DEF Client!Changed
      <4> QED BY <4>1
    <3>3. CASE ~flip
      <4>1. entries'[e] = [entries[e] EXCEPT !.due = d, !.resolved = entries[e].resolved,
                                             !.version = @ + 1]
        BY <1>1, <1>2, <3>3 DEF Client!Changed
      <4> QED BY <3>1, <4>1
    <3> QED BY <3>2, <3>3
  <2>3. entries'[e] \in Row(e) /\ entries'[e].version = entries[e].version + 1
        /\ entries'[e].process = entries[e].process
    <3>1. PICK new : new = entries'[e]  OBVIOUS
    <3>2. PICK old : old = entries[e]  OBVIOUS
    <3>3. old \in Row(e) /\ old.version < MaxVersion /\ MaxVersion \in Nat
          /\ new = [old EXCEPT !.due = d, !.resolved = flipped, !.version = @ + 1]
      BY <1>2, <2>1, <2>2, <3>1, <3>2 DEF ClientNames
    <3>4. new.version = old.version + 1 /\ new.process = old.process
      BY <3>3 DEF Row
    <3>5. old.version + 1 \in 1..MaxVersion  BY <3>3 DEF Row
    <3>6. new \in Row(e)  BY <3>3, <3>5 DEF Row
    <3> QED BY <3>1, <3>2, <3>4, <3>6
  <2>4. events[e] = entries[e].version  BY <1>2 DEF TablesInv, EventsCount
  <2> QED BY <1>1, <1>2, <2>1, <2>3, <2>4 DEF ClientNames
<1>4. \A e \in Tabled \ S : entries'[e] = entries[e] /\ events'[e] = events[e]
  BY <1>1
<1>5. EventsGrow
  BY <1>3, <1>4 DEF EventsGrow, TablesInv
<1>6. \A e \in Tabled : /\ events'[e] \in -1..MaxVersion
                        /\ entries'[e] = None \/ entries'[e] \in Row(e)
  BY <1>3, <1>4 DEF TablesInv, ClientNames
<1>7. EventsCount'
  BY <1>3, <1>4 DEF TablesInv, EventsCount
<1>8. OwnersAreThere'
  BY <1>2, <1>3, <1>4 DEF TablesInv, OwnersAreThere, Client!Present
<1> QED BY <1>5, <1>6, <1>7, <1>8 DEF TablesInv

LEMMA Removal ==
  ASSUME ClientNames, TablesInv, NEW S, S \subseteq Client!Present, Client!Gone(S),
         \/ UNCHANGED owners
         \/ \E p \in Owners : /\ owners' = [owners EXCEPT ![p] = None]
                              /\ S = {e \in Client!Present : entries[e].process = p}
  PROVE  TablesInv' /\ EventsGrow
<1>1. \A e \in Tabled : /\ entries'[e] = IF e \in S THEN None ELSE entries[e]
                        /\ events'[e] = IF e \in S THEN -1 ELSE events[e]
  BY DEF Client!Gone
<1>2. EventsGrow
  BY <1>1 DEF EventsGrow, TablesInv
<1>3. \A e \in Tabled : /\ events'[e] \in -1..MaxVersion
                        /\ entries'[e] = None \/ entries'[e] \in Row(e)
  BY <1>1 DEF TablesInv, ClientNames
<1>4. EventsCount'
  BY <1>1 DEF TablesInv, EventsCount
<1>5. /\ DOMAIN owners' = Owners
      /\ \A p \in Owners : \/ owners'[p] = None
                           \/ owners'[p] \in [archived : BOOLEAN, members : SUBSET People]
  BY DEF TablesInv
<1>6. OwnersAreThere'
  <2> SUFFICES ASSUME NEW e \in Client!Present' PROVE owners'[entries'[e].process] # None
    BY DEF OwnersAreThere
  <2>1. e \in Client!Present /\ e \notin S /\ entries'[e] = entries[e] /\ e \in Tabled
    BY <1>1 DEF Client!Present
  <2>2. owners[entries[e].process] # None  BY <2>1 DEF TablesInv, OwnersAreThere
  <2>3. entries[e].process \in Owners  BY <2>1 DEF TablesInv, Row, Client!Present
  <2>4. ASSUME NEW p \in Owners, owners' = [owners EXCEPT ![p] = None],
               S = {f \in Client!Present : entries[f].process = p}
        PROVE  owners'[entries'[e].process] # None
    BY <2>1, <2>2, <2>3, <2>4 DEF TablesInv
  <2> QED BY <2>1, <2>2, <2>4
<1> QED BY <1>2, <1>3, <1>4, <1>5, <1>6 DEF TablesInv

\* A request that has read something still has read it.
LEMMA AskStaysOld ==
  ASSUME EventsGrow, TablesInv, TablesInv'
  PROVE  \A r \in Asking : AskIsOld(r) /\ ask'[r] = ask[r] => AskIsOld(r)'
<1> SUFFICES ASSUME NEW r \in Asking, AskIsOld(r), ask'[r] = ask[r], ask[r] # None,
                    ask[r].op \in {"rows", "answered"}, NEW x \in ask[r].rows
             PROVE  x.version <= events'[x.id] \/ events'[x.id] = -1
  BY DEF AskIsOld
<1>1. x \in ReadRow /\ (x.version <= events[x.id] \/ events[x.id] = -1)  BY DEF AskIsOld
<1>2. x.id \in Tabled /\ x.version \in Nat  BY <1>1 DEF ReadRow
<1>3. events[x.id] \in Int /\ events'[x.id] \in Int
  <2>1. events[x.id] \in -1..MaxVersion  BY <1>2 DEF TablesInv
  <2>2. events'[x.id] \in -1..MaxVersion  BY <1>2 DEF TablesInv
  <2> QED BY <2>1, <2>2
<1>4. events'[x.id] = -1 \/ (events[x.id] # -1 /\ events'[x.id] >= events[x.id])
  BY <1>2 DEF EventsGrow
<1>5. CASE events'[x.id] = -1  BY <1>5
<1>6. CASE events[x.id] # -1 /\ events'[x.id] >= events[x.id]
  BY <1>1, <1>2, <1>3, <1>6
<1> QED BY <1>4, <1>5, <1>6

-----------------------------------------------------------------------------
(* The data client: each step                                                *)

LEMMA NewRowFits ==
  ASSUME ClientNames, NEW e \in Tabled, NEW p \in Owners, NEW k \in Mails,
         NEW d \in Dues \cup {None}
  PROVE  /\ Client!NewRow(e, p, k, d) \in Row(e)
         /\ Client!NewRow(e, p, k, d).version = 1 /\ Client!NewRow(e, p, k, d).process = p
<1>1. MaxVersion \in Nat \ {0}  BY DEF ClientNames
<1>2. 1 \in 1..MaxVersion  BY <1>1
<1> QED BY <1>2 DEF Client!NewRow, Row

\* What writes nothing, and asks nothing, keeps all of it.
LEMMA TablesUntouched ==
  ASSUME TablesInv, UNCHANGED <<entries, events, owners>>
  PROVE  TablesInv' /\ EventsGrow
<1>1. TablesInv'
  BY DEF TablesInv, OwnersAreThere, EventsCount, Client!Present
<1>2. \A e \in Tabled : events[e] \in -1..MaxVersion  BY DEF TablesInv
<1>3. EventsGrow  BY <1>2 DEF EventsGrow
<1> QED BY <1>1, <1>3

LEMMA WriteStep ==
  ASSUME ClientNames, TablesInv,
         \/ \E S \in (SUBSET Tabled) \ {{}}, p \in Owners, d \in Dues \cup {None} :
              \E key \in [S -> Mails] : Client!CreateMany(S, p, d, key)
         \/ \E e \in Tabled : Client!DeleteMany(Client!LookUp(e))
         \/ \E e \in Tabled, d \in Dues \cup {None}, flip \in BOOLEAN :
              Client!UpdateMany(Client!LookUp(e), d, flip)
         \/ \E p \in Owners, x \in Tabled, d \in Dues :
              Client!UpdateMany(Client!AllButThis(p, x), d, TRUE)
         \/ \E p \in Owners : Client!DeleteProcess(p)
  PROVE  TablesInv' /\ EventsGrow /\ UNCHANGED ask
<1>1. ASSUME NEW S \in (SUBSET Tabled) \ {{}}, NEW p \in Owners, NEW d \in Dues \cup {None},
             NEW key \in [S -> Mails], Client!CreateMany(S, p, d, key)
      PROVE  TablesInv' /\ EventsGrow /\ UNCHANGED ask
  <2> DEFINE rowOf == [e \in S |-> Client!NewRow(e, p, key[e], d)]
  <2>1. /\ \A e \in S : Client!Fresh(e) /\ owners[p] # None
        /\ Client!Inserted(S, rowOf) /\ UNCHANGED <<owners, ask>>
    BY <1>1 DEF Client!CreateMany, Client!Fits
  <2>2. \A e \in S : /\ rowOf[e] \in Row(e) /\ rowOf[e].version = 1
                     /\ rowOf[e].process = p
    BY NewRowFits
  <2> HIDE DEF rowOf
  <2> QED BY <2>1, <2>2, Insertion
<1>2. ASSUME NEW e \in Tabled, Client!DeleteMany(Client!LookUp(e))
      PROVE  TablesInv' /\ EventsGrow /\ UNCHANGED ask
  <2>1. Client!Gone(Client!LookUp(e).found) /\ UNCHANGED <<owners, ask>>
    BY <1>2 DEF Client!DeleteMany
  <2>2. Client!LookUp(e).found \subseteq Client!Present  BY ClausesReachRows
  <2> QED BY <2>1, <2>2, Removal
<1>3. ASSUME NEW e \in Tabled, NEW d \in Dues \cup {None}, NEW flip \in BOOLEAN,
             Client!UpdateMany(Client!LookUp(e), d, flip)
      PROVE  TablesInv' /\ EventsGrow /\ UNCHANGED ask
  <2>1. Client!Assigned(Client!LookUp(e).found, d, flip) /\ UNCHANGED <<owners, ask>>
    BY <1>3 DEF Client!UpdateMany
  <2>2. Client!LookUp(e).found \subseteq Client!Present  BY ClausesReachRows
  <2> QED BY <2>1, <2>2, Assignment
<1>4. ASSUME NEW p \in Owners, NEW x \in Tabled, NEW d \in Dues,
             Client!UpdateMany(Client!AllButThis(p, x), d, TRUE)
      PROVE  TablesInv' /\ EventsGrow /\ UNCHANGED ask
  <2>1. Client!Assigned(Client!AllButThis(p, x).found, d, TRUE) /\ UNCHANGED <<owners, ask>>
    BY <1>4 DEF Client!UpdateMany
  <2>2. Client!AllButThis(p, x).found \subseteq Client!Present  BY ClausesReachRows
  <2> QED BY <2>1, <2>2, Assignment
<1>5. ASSUME NEW p \in Owners, Client!DeleteProcess(p)
      PROVE  TablesInv' /\ EventsGrow /\ UNCHANGED ask
  <2> DEFINE S == {e \in Client!Present : entries[e].process = p}
  <2>1. Client!Gone(S) /\ owners' = [owners EXCEPT ![p] = None] /\ UNCHANGED ask
    BY <1>5 DEF Client!DeleteProcess
  <2>2. \E o \in Owners : /\ owners' = [owners EXCEPT ![o] = None]
                          /\ S = {e \in Client!Present : entries[e].process = o}
    BY <2>1
  <2>3. S \subseteq Client!Present  OBVIOUS
  <2> HIDE DEF S
  <2> QED BY <2>1, <2>2, <2>3, Removal
<1> QED BY <1>1, <1>2, <1>3, <1>4, <1>5

LEMMA AskStep ==
  ASSUME ClientNames, ClientInv, NEW r \in Asking,
         \/ \E p \in Owners, k \in Mails : Client!UpsertFind(r, p, k)
         \/ \E e \in Tabled, d \in Dues \cup {None} : Client!UpsertWrite(r, e, d)
         \/ \E e \in Tabled : Client!LoadRows(r, Client!LookUp(e))
         \/ \E u \in People : Client!LoadRows(r, Client!InProcesses(u))
         \/ Client!LoadRelations(r) \/ Client!Return(r)
  PROVE  /\ TablesInv' /\ EventsGrow
         /\ \E x : ask' = [ask EXCEPT ![r] = x]
         /\ AskIsOld(r)'
<1> USE DEF ClientInv
<1>0. DOMAIN ask = Asking /\ TablesInv /\ AskIsOld(r)  OBVIOUS
<1>1. ASSUME NEW p \in Owners, NEW k \in Mails, Client!UpsertFind(r, p, k)
      PROVE  TablesInv' /\ EventsGrow /\ (\E x : ask' = [ask EXCEPT ![r] = x]) /\ AskIsOld(r)'
  <2>1. PICK f \in BOOLEAN :
          ask' = [ask EXCEPT ![r] = [op |-> "upsert", p |-> p, k |-> k, found |-> f]]
    BY <1>1 DEF Client!UpsertFind
  <2>2. ask'[r] = [op |-> "upsert", p |-> p, k |-> k, found |-> f]  BY <1>0, <2>1
  <2>3. ask'[r] \in Asks /\ ask'[r].op = "upsert"  BY <2>2 DEF Asks
  <2>4. AskIsOld(r)'  BY <2>3 DEF AskIsOld
  <2> QED BY <1>1, <2>1, <2>4, TablesUntouched DEF Client!UpsertFind
<1>2. ASSUME NEW e \in Tabled, NEW d \in Dues \cup {None}, Client!UpsertWrite(r, e, d)
      PROVE  TablesInv' /\ EventsGrow /\ (\E x : ask' = [ask EXCEPT ![r] = x]) /\ AskIsOld(r)'
  <2> DEFINE m == Client!OfManager(ask[r].p, ask[r].k).found
  <2>1. ask' = [ask EXCEPT ![r] = None] /\ UNCHANGED owners /\ ask[r] # None /\ ask[r].op = "upsert"
    BY <1>2 DEF Client!UpsertWrite, Client!Idle
  <2>2. AskIsOld(r)'  BY <1>0, <2>1 DEF AskIsOld
  <2>3. ask[r].p \in Owners /\ ask[r].k \in Mails  BY <1>0, <2>1 DEF AskIsOld, Asks
  <2>4. CASE Client!Assigned(m, d, FALSE)
    <3>1. m \subseteq Client!Present  BY ClausesReachRows
    <3> HIDE DEF m
    <3>2. TablesInv' /\ EventsGrow  BY <1>0, <2>1, <2>4, <3>1, Assignment
    <3> QED BY <2>1, <2>2, <3>2
  <2>5. CASE /\ Client!Fresh(e) /\ Client!Fits(ask[r].p, ask[r].k)
             /\ Client!Inserted({e}, [f \in {e} |-> Client!NewRow(f, ask[r].p, ask[r].k, d)])
    <3> DEFINE rowOf == [f \in {e} |-> Client!NewRow(f, ask[r].p, ask[r].k, d)]
    <3>1. \A f \in {e} : /\ rowOf[f] \in Row(f) /\ rowOf[f].version = 1
                         /\ rowOf[f].process = ask[r].p
      BY <2>3, NewRowFits
    <3>2. owners[ask[r].p] # None  BY <2>5 DEF Client!Fits
    <3>3. Client!Inserted({e}, rowOf)  BY <2>5
    <3> HIDE DEF rowOf
    <3>4. \A f \in {e} : /\ Client!Fresh(f) /\ rowOf[f] \in Row(f) /\ rowOf[f].version = 1
                         /\ owners[rowOf[f].process] # None
      BY <2>5, <3>1, <3>2
    <3>5. TablesInv' /\ EventsGrow  BY <1>0, <2>1, <3>3, <3>4, Insertion
    <3> QED BY <2>1, <2>2, <3>5
  <2>6. CASE UNCHANGED <<entries, events>>
    <3>1. TablesInv' /\ EventsGrow  BY <1>0, <2>1, <2>6, TablesUntouched
    <3> QED BY <2>1, <2>2, <3>1
  <2> QED BY <1>2, <2>4, <2>5, <2>6 DEF Client!UpsertWrite
<1>3. ASSUME NEW c, c.found \subseteq Client!Present, Client!LoadRows(r, c)
      PROVE  TablesInv' /\ EventsGrow /\ (\E x : ask' = [ask EXCEPT ![r] = x]) /\ AskIsOld(r)'
  <2> DEFINE read == {[id |-> e, version |-> entries[e].version, events |-> 0] : e \in c.found}
  <2>1. ask' = [ask EXCEPT ![r] = [op |-> "rows", rows |-> read]]
        /\ UNCHANGED <<entries, events, owners>>
    BY <1>3 DEF Client!LoadRows
  <2>2. \A x \in read : x \in ReadRow /\ x.version <= events[x.id]
    <3> SUFFICES ASSUME NEW e \in c.found
                 PROVE  /\ e \in Tabled /\ entries[e].version \in Nat
                        /\ entries[e].version <= events[e]
      BY DEF ReadRow
    <3>1. e \in Tabled /\ entries[e] # None  BY <1>3 DEF Client!Present
    <3>2. entries[e].version \in 1..MaxVersion  BY <1>0, <3>1 DEF TablesInv, Row
    <3>3. events[e] = entries[e].version  BY <1>0, <3>1 DEF TablesInv, EventsCount
    <3>4. MaxVersion \in Nat  BY DEF ClientNames
    <3>5. entries[e].version \in Nat  BY <3>2, <3>4
    <3> QED BY <3>1, <3>3, <3>5
  <2> HIDE DEF read
  <2>3. ask'[r] = [op |-> "rows", rows |-> read]  BY <1>0, <2>1
  <2>4. ask'[r] \in Asks /\ ask'[r].op = "rows" /\ ask'[r].rows = read
    BY <2>2, <2>3 DEF Asks
  <2>5. AskIsOld(r)'  BY <2>1, <2>2, <2>4 DEF AskIsOld
  <2> QED BY <1>0, <2>1, <2>5, TablesUntouched
<1>4. CASE Client!LoadRelations(r)
  <2> DEFINE read == {[x EXCEPT !.events = events[x.id]] : x \in ask[r].rows}
  <2>1. /\ ask' = [ask EXCEPT ![r] = [op |-> "answered", rows |-> read]]
        /\ UNCHANGED <<entries, events, owners>>
        /\ ask[r] # None /\ ask[r].op = "rows"
    BY <1>4 DEF Client!LoadRelations, Client!Idle
  <2>2. \A x \in ask[r].rows : x \in ReadRow /\ (x.version <= events[x.id] \/ events[x.id] = -1)
    BY <1>0, <2>1 DEF AskIsOld
  <2>3. \A y \in read : /\ y \in ReadRow
                        /\ y.version <= events[y.id] \/ events[y.id] = -1
                        /\ y.events >= y.version \/ y.events = -1
    <3> SUFFICES ASSUME NEW x \in ask[r].rows,
                        NEW y, y = [x EXCEPT !.events = events[x.id]]
                 PROVE  /\ y \in ReadRow
                        /\ y.version <= events[y.id] \/ events[y.id] = -1
                        /\ y.events >= y.version \/ y.events = -1
      OBVIOUS
    <3>1. x \in ReadRow /\ (x.version <= events[x.id] \/ events[x.id] = -1)  BY <2>2
    <3>2. x.id \in Tabled /\ x.version \in Nat  BY <3>1 DEF ReadRow
    <3>3. events[x.id] \in -1..MaxVersion  BY <1>0, <3>2 DEF TablesInv
    <3>4. events[x.id] \in Int  BY <3>3
    <3>5. /\ y \in ReadRow /\ y.id = x.id /\ y.version = x.version
          /\ y.events = events[x.id]
      BY <3>1, <3>4 DEF ReadRow
    <3> QED BY <3>1, <3>2, <3>4, <3>5
  <2> HIDE DEF read
  <2>4. ask'[r] = [op |-> "answered", rows |-> read]  BY <1>0, <2>1
  <2>5. ask'[r] \in Asks /\ ask'[r].op = "answered" /\ ask'[r].rows = read
    BY <2>3, <2>4 DEF Asks
  <2>6. AskIsOld(r)'  BY <2>1, <2>3, <2>5 DEF AskIsOld
  <2> QED BY <1>0, <2>1, <2>6, TablesUntouched
<1>5. CASE Client!Return(r)
  <2>1. ask' = [ask EXCEPT ![r] = None] /\ UNCHANGED <<entries, events, owners>>
    BY <1>5 DEF Client!Return
  <2>2. AskIsOld(r)'  BY <1>0, <2>1 DEF AskIsOld
  <2> QED BY <1>0, <2>1, <2>2, TablesUntouched
<1> QED BY <1>1, <1>2, <1>3, <1>4, <1>5, ClausesReachRows

LEMMA ClientStep ==
  ASSUME ClientNames PROVE ClientInv /\ [Client!Next]_(Client!clientVars) => ClientInv'
<1> SUFFICES ASSUME ClientInv, [Client!Next]_(Client!clientVars) PROVE ClientInv'
  OBVIOUS
<1>1. ASSUME TablesInv', EventsGrow, UNCHANGED ask PROVE ClientInv'
  <2>1. \A r \in Asking : AskIsOld(r)'
    BY <1>1, AskStaysOld DEF ClientInv
  <2> QED BY <1>1, <2>1 DEF ClientInv
<1>2. ASSUME NEW r \in Asking, TablesInv', EventsGrow, \E x : ask' = [ask EXCEPT ![r] = x],
             AskIsOld(r)'
      PROVE  ClientInv'
  <2>1. DOMAIN ask' = Asking /\ \A q \in Asking \ {r} : ask'[q] = ask[q]
    BY <1>2 DEF ClientInv
  <2>2. \A q \in Asking \ {r} : AskIsOld(q)'
    BY <1>2, <2>1, AskStaysOld DEF ClientInv
  <2>3. \A q \in Asking : AskIsOld(q)'  BY <1>2, <2>2
  <2> QED BY <1>2, <2>1, <2>3 DEF ClientInv
<1>3. CASE UNCHANGED Client!clientVars
  <2>1. UNCHANGED <<entries, events, owners, ask>>  BY <1>3 DEF Client!clientVars
  <2>2. TablesInv' /\ EventsGrow  BY <2>1, TablesUntouched DEF ClientInv
  <2> QED BY <1>1, <2>1, <2>2
<1>4. CASE Client!Next
  BY <1>1, <1>2, <1>4, WriteStep, AskStep DEF Client!Next, ClientInv
<1> QED BY <1>3, <1>4

LEMMA WordIsKept ==
  ASSUME ClientNames, ClientInv PROVE Client!ClientKeepsItsWord
<1>1. Client!ClausesMeanWhatTheySay  BY ClientTyped, AnswersHold
<1>2. Client!HistoryIsNotBehind
  BY DEF ClientInv, AskIsOld, Client!HistoryIsNotBehind, Client!Idle
<1> QED BY <1>1, <1>2 DEF Client!ClientKeepsItsWord

-----------------------------------------------------------------------------
(* Sequences that lose or gain an element                                     *)

\* A sequence without its element i.
LEMMA OneLess ==
  ASSUME NEW S, NEW q \in Seq(S), NEW i \in 1..Len(q)
  PROVE  LET r == SubSeq(q, 1, i - 1) \o SubSeq(q, i + 1, Len(q))
         IN  /\ r \in Seq(S) /\ Len(r) = Len(q) - 1
             /\ \A j \in 1..Len(r) : r[j] = IF j < i THEN q[j] ELSE q[j + 1]
<1> DEFINE a == SubSeq(q, 1, i - 1)
           b == SubSeq(q, i + 1, Len(q))
<1>1. a \in Seq(S) /\ Len(a) = i - 1 /\ \A j \in 1..(i - 1) : a[j] = q[j]
  OBVIOUS
<1>2. b \in Seq(S) /\ Len(b) = Len(q) - i /\ \A j \in 1..(Len(q) - i) : b[j] = q[i + j]
  OBVIOUS
<1> HIDE DEF a, b
<1>3. a \o b \in Seq(S) /\ Len(a \o b) = Len(q) - 1
  <2>1. a \o b \in Seq(S) /\ Len(a \o b) = Len(a) + Len(b)
    BY <1>1, <1>2, ConcatProperties
  <2>2. Len(a) = i - 1 /\ Len(b) = Len(q) - i /\ Len(q) \in Nat /\ i \in Nat
    BY <1>1, <1>2
  <2> QED BY <2>1, <2>2
<1>4. \A j \in 1..Len(a \o b) : (a \o b)[j] = IF j < i THEN q[j] ELSE q[j + 1]
  <2> SUFFICES ASSUME NEW j \in 1..Len(a \o b) PROVE (a \o b)[j] = IF j < i THEN q[j] ELSE q[j + 1]
    OBVIOUS
  <2>1. CASE j < i
    <3>1. j \in 1..Len(a) /\ j \in 1..Len(a \o b) /\ Len(a) = i - 1
      BY <1>1, <1>3, <2>1
    <3>2. (a \o b)[j] = a[j]
      BY <1>1, <1>2, <3>1, ConcatProperties
    <3> QED BY <1>1, <2>1, <3>1, <3>2
  <2>2. CASE j >= i
    <3>1. (a \o b)[j] = b[j - (i - 1)] /\ j - (i - 1) \in 1..(Len(q) - i)
      BY <1>1, <1>2, <1>3, <2>2, ConcatProperties
    <3>2. b[j - (i - 1)] = q[i + (j - (i - 1))] /\ i + (j - (i - 1)) = j + 1
      BY <1>2, <3>1
    <3> QED BY <2>2, <3>1, <3>2
  <2> QED BY <2>1, <2>2
<1> QED
  BY <1>3, <1>4 DEF a, b

\* With an element more, and without the first.
LEMMA OneMore ==
  ASSUME NEW S, NEW q \in Seq(S), NEW x
  PROVE  \A i \in DOMAIN Append(q, x) :
           (i \in DOMAIN q /\ Append(q, x)[i] = q[i]) \/ (i = Len(q) + 1 /\ Append(q, x)[i] = x)
OBVIOUS
LEMMA FirstGone ==
  ASSUME NEW S, NEW q \in Seq(S), q # <<>>
  PROVE  /\ Tail(q) \in Seq(S) /\ Head(q) \in S /\ 1 \in DOMAIN q /\ Head(q) = q[1]
         /\ \A i \in DOMAIN Tail(q) : i \in Nat /\ i > 0 /\ i + 1 \in DOMAIN q /\ Tail(q)[i] = q[i + 1]
OBVIOUS

-----------------------------------------------------------------------------
(* Questions to the agent                                                    *)

\* The rows a question about f reads of a saved version: those of the run it was
\* made of, if that was a run of f.
RowsOf(ref, f) == IF versioned[ref][1] = f THEN {<<f, versioned[ref][2]>>} ELSE {}

\* Rows kept under a key for a question: a hash is theirs, and a version asked of
\* one function has been saved and has no others.
Fits(key, of, shipped) ==
  /\ key[1] = "hash" => shipped = key[2]
  /\ key[1] = "ref" /\ of # None => versioned[key[2]] # <<>> /\ shipped = RowsOf(key[2], of)

\* What is read for a version is read of one that has been saved, and of one
\* function it is all there or not yet there.
ReadsVersion(c) ==
  c.ref # None =>
    /\ versioned[c.ref] # <<>>
    /\ c.scope # None => \/ c.left = <<c.scope>> /\ c.rows = {}
                         \/ c.left = <<>> /\ c.rows = RowsOf(c.ref, c.scope)
StreamFits(c) ==
  /\ c.pc = "reading" => ReadsVersion(c)
  /\ c.pc = "agent" => c.key[1] # "other" /\ Fits(c.key, c.scope, c.rows)

Dataset == [key : Agent!Keys, rows : SUBSET Agent!Runs, scope : Agent!Scopes]
Fitting == {d \in Dataset : Fits(d.key, d.scope, d.rows)}

AgentInv ==
  /\ Agent!TypeOK
  /\ \A p \in Panes : StreamFits(question[p])
  /\ datasets \in Seq(Fitting) /\ Agent!CacheIsBounded

LEMMA OneFunction ==
  /\ Agent!Range(<<f1>>) = {f1} /\ Agent!Scopes = {f1, None}
  /\ <<f1>> \in Seq({f1}) /\ Agent!Runs = {f1} \X (1..MaxCompleted)
<1>1. Agent!Range(<<f1>>) = {f1}
  BY DEF Agent!Range
<1> QED BY <1>1 DEF Agent!Scopes, Agent!Runs

\* What a question holds, by what has come of it.
LEMMA StreamPhases ==
  ASSUME Agent!TypeOK, NEW p \in Panes
  PROVE  /\ question[p].pc \in {"none", "reading", "agent", "relaying"}
         /\ question[p].pc = "reading" =>
              question[p] \in [pc : {"reading"}, scope : Agent!Scopes, ref : Refs \cup {None},
                           rows : SUBSET Agent!Runs, left : Seq({f1})]
         /\ question[p].pc = "agent" =>
              question[p] \in [pc : {"agent"}, scope : Agent!Scopes, rows : SUBSET Agent!Runs,
                           key : Agent!Keys, round : 1..MaxIterations]
         /\ question[p].pc = "relaying" => question[p] \in [pc : {"relaying"}, out : Seq(Agent!Answers)]
<1>1. question[p] \in Agent!Streams
  BY DEF Agent!TypeOK
<1> QED
  BY <1>1, OneFunction DEF Agent!Streams, Agent!NoChat

\* A question, a stream or a answers with other values in its fields.
LEMMA ReadingRecords ==
  ASSUME NEW A, NEW B, NEW R, NEW L, NEW r \in R, NEW l \in L,
         NEW x \in [pc : {"reading"}, scope : A, ref : B, rows : R, left : L]
  PROVE  /\ [[x EXCEPT !.rows = r] EXCEPT !.left = l]
               \in [pc : {"reading"}, scope : A, ref : B, rows : R, left : L]
         /\ [[x EXCEPT !.rows = r] EXCEPT !.left = l].ref = x.ref
OBVIOUS
LEMMA RoundRecords ==
  ASSUME NEW A, NEW R, NEW K, NEW N, NEW n \in N,
         NEW x \in [pc : {"agent"}, scope : A, rows : R, key : K, round : N]
  PROVE  [x EXCEPT !.round = n] \in [pc : {"agent"}, scope : A, rows : R, key : K, round : N]
OBVIOUS
LEMMA RelayRecords ==
  ASSUME NEW O, NEW o \in O, NEW x \in [pc : {"relaying"}, out : O]
  PROVE  [x EXCEPT !.out = o] \in [pc : {"relaying"}, out : O]
OBVIOUS
LEMMA PaneRecords ==
  ASSUME NEW Q, NEW q \in Q, NEW v \in BOOLEAN, NEW x \in [pending : BOOLEAN, sawFinal : BOOLEAN, queue : Q]
  PROVE  /\ [[x EXCEPT !.queue = q] EXCEPT !.sawFinal = v] \in [pending : BOOLEAN, sawFinal : BOOLEAN, queue : Q]
         /\ [[x EXCEPT !.sawFinal = v] EXCEPT !.queue = q] \in [pending : BOOLEAN, sawFinal : BOOLEAN, queue : Q]
         /\ [x EXCEPT !.queue = q] \in [pending : BOOLEAN, sawFinal : BOOLEAN, queue : Q]
         /\ [x EXCEPT !.pending = v] \in [pending : BOOLEAN, sawFinal : BOOLEAN, queue : Q]
OBVIOUS
LEMMA ClosingUpdates ==
  /\ <<"idle">> \in Seq(Agent!Updates) /\ <<"no answer", "idle">> \in Seq(Agent!Updates)
  /\ <<"failed", "idle">> \in Seq(Agent!Updates) /\ <<>> \in Seq(Agent!Updates)
BY DEF Agent!Updates

\* A answers's question moves on; the rest stays.
LEMMA ChatMoves ==
  ASSUME AgentInv, NEW p \in Panes, NEW c \in Agent!Streams, question' = [question EXCEPT ![p] = c],
         UNCHANGED <<completed, versioned>>, StreamFits(c),
         datasets' \in Seq(Fitting), Agent!CacheIsBounded',
         answers' \in [Panes -> [pending : BOOLEAN, sawFinal : BOOLEAN, queue : Seq(Agent!Updates)]]
  PROVE  AgentInv'
<1>1. question' \in [Panes -> Agent!Streams] /\ \A q \in Panes : question'[q] = IF q = p THEN c ELSE question[q]
  BY DEF AgentInv, Agent!TypeOK
<1>2. \A x \in Agent!Streams : StreamFits(x) => StreamFits(x)'
  BY DEF StreamFits, Fits, ReadsVersion, RowsOf
<1>3. \A q \in Panes : StreamFits(question[q])'
  <2> TAKE q \in Panes
  <2>1. PICK x \in Agent!Streams : x = question'[q] /\ StreamFits(x)
    BY <1>1 DEF AgentInv, Agent!TypeOK
  <2>2. StreamFits(x)'
    BY <1>2, <2>1
  <2> QED BY <2>1, <2>2 DEF StreamFits, Fits, ReadsVersion, RowsOf
<1>4. Fitting' = Fitting
  BY DEF Fitting, Fits, RowsOf, Dataset, Agent!Keys, Agent!Runs, Agent!Scopes
<1>5. datasets' \in Seq(Dataset)
  <2>1. Fitting \subseteq Dataset
    BY DEF Fitting
  <2> HIDE DEF Fitting, Dataset
  <2> QED BY <2>1
<1> QED
  BY <1>1, <1>3, <1>4, <1>5 DEF AgentInv, Agent!TypeOK, Dataset

\* A dataset that was asked for again becomes the youngest, and a new one pushes
\* the oldest out: no key comes twice.
LEMMA AskedAgain ==
  ASSUME AgentInv, NEW i \in 1..Len(datasets),
         datasets' = Append(Agent!RemoveAt(datasets, i), datasets[i])
  PROVE  datasets' \in Seq(Fitting) /\ Agent!CacheIsBounded'
<1>1. datasets \in Seq(Fitting)
  BY DEF AgentInv
<1> HIDE DEF Fitting
<1>2. PICK q \in Seq(Fitting) : /\ q = Agent!RemoveAt(datasets, i) /\ Len(q) = Len(datasets) - 1
                                /\ \A j \in 1..Len(q) : q[j] = IF j < i THEN datasets[j] ELSE datasets[j + 1]
  BY <1>1, OneLess DEF Agent!RemoveAt
<1>3. datasets[i] \in Fitting
  BY <1>1
<1>4. /\ datasets' \in Seq(Fitting) /\ Len(datasets') = Len(datasets)
      /\ DOMAIN datasets' = 1..Len(datasets)
      /\ \A j \in 1..Len(datasets) :
           datasets'[j] = datasets[IF j = Len(datasets) THEN i ELSE IF j < i THEN j ELSE j + 1]
  <2>1. /\ Append(q, datasets[i]) \in Seq(Fitting) /\ Len(Append(q, datasets[i])) = Len(q) + 1
        /\ \A j \in 1..Len(q) : Append(q, datasets[i])[j] = q[j]
        /\ Append(q, datasets[i])[Len(q) + 1] = datasets[i]
    BY <1>3, AppendProperties
  <2>2. Len(datasets) \in Nat /\ Len(q) + 1 = Len(datasets)
    BY <1>1, <1>2
  <2> QED BY <1>1, <1>2, <2>1, <2>2
<1>5. ASSUME NEW j \in 1..Len(datasets), NEW k \in 1..Len(datasets), datasets'[j].key = datasets'[k].key
      PROVE  j = k
  <2> DEFINE at(m) == IF m = Len(datasets) THEN i ELSE IF m < i THEN m ELSE m + 1
  <2>1. PICK a, b : a = at(j) /\ b = at(k)
    OBVIOUS
  <2>2. Len(datasets) \in Nat
    BY <1>1
  <2>3. a \in 1..Len(datasets) /\ b \in 1..Len(datasets) /\ (a = b => j = k)
    BY <2>1, <2>2
  <2>4. datasets[a].key = datasets[b].key
    BY <1>4, <1>5, <2>1
  <2> QED BY <1>1, <2>3, <2>4 DEF AgentInv, Agent!CacheIsBounded
<1>6. Len(datasets) <= MaxDatasets
  BY DEF AgentInv, Agent!CacheIsBounded
<1>7. \A j, k \in DOMAIN datasets' : datasets'[j].key = datasets'[k].key => j = k
  BY <1>4, <1>5
<1>8. Len(datasets') <= MaxDatasets
  BY <1>4, <1>6
<1>9. Agent!CacheIsBounded'
  BY <1>7, <1>8 DEF Agent!CacheIsBounded
<1> QED
  BY <1>4, <1>9

LEMMA AskedAnew ==
  ASSUME AgentBounds, AgentInv, NEW d \in Fitting, Agent!At(d.key) = {},
         datasets' = IF Len(Append(datasets, d)) > MaxDatasets THEN Tail(Append(datasets, d))
                     ELSE Append(datasets, d)
  PROVE  datasets' \in Seq(Fitting) /\ Agent!CacheIsBounded'
<1>1. datasets \in Seq(Fitting) /\ Len(datasets) <= MaxDatasets /\ Len(datasets) \in Nat
  BY DEF AgentInv, Agent!CacheIsBounded
<1> HIDE DEF Fitting
<1>2. PICK q \in Seq(Fitting) : q = Append(datasets, d) /\ q # <<>> /\ Len(q) = Len(datasets) + 1
  <2>1. Append(datasets, d) \in Seq(Fitting) /\ Len(Append(datasets, d)) = Len(datasets) + 1
    BY <1>1, AppendProperties
  <2>2. Append(datasets, d) # <<>>
    BY <1>1
  <2> QED BY <2>1, <2>2
<1>3. \A j, k \in DOMAIN q : q[j].key = q[k].key => j = k
  <2>1. \A j \in DOMAIN q : \/ j \in DOMAIN datasets /\ q[j] = datasets[j]
                            \/ j = Len(datasets) + 1 /\ q[j] = d
    BY <1>1, <1>2, OneMore
  <2>2. \A j \in DOMAIN datasets : datasets[j].key # d.key
    BY DEF Agent!At
  <2> QED BY <2>1, <2>2 DEF AgentInv, Agent!CacheIsBounded
<1>4. CASE datasets' = q /\ Len(q) <= MaxDatasets
  BY <1>3, <1>4 DEF Agent!CacheIsBounded
<1>5. CASE datasets' = Tail(q)
  <2>1. Tail(q) \in Seq(Fitting) /\ Len(Tail(q)) = Len(datasets)
    BY <1>1, <1>2
  <2>2. \A j \in DOMAIN Tail(q) : j \in Nat /\ j + 1 \in DOMAIN q /\ Tail(q)[j] = q[j + 1]
    BY <1>2, FirstGone
  <2>3. \A j, k \in DOMAIN Tail(q) : Tail(q)[j].key = Tail(q)[k].key => j = k
    <3> TAKE j, k \in DOMAIN Tail(q)
    <3>1. Tail(q)[j].key = Tail(q)[k].key => j + 1 = k + 1
      BY <1>3, <2>2
    <3> QED BY <2>2, <3>1
  <2> QED BY <1>1, <1>5, <2>1, <2>3 DEF Agent!CacheIsBounded
<1>6. (datasets' = q /\ Len(q) <= MaxDatasets) \/ datasets' = Tail(q)
  BY <1>1, <1>2 DEF AgentBounds
<1> QED
  BY <1>4, <1>5, <1>6

LEMMA DatasetsFit ==
  ASSUME AgentBounds, AgentInv, NEW key \in Agent!Keys, NEW shipped \in SUBSET Agent!Runs,
         NEW of \in Agent!Scopes, Fits(key, of, shipped), Agent!Materialize(key, shipped, of)
  PROVE  datasets' \in Seq(Fitting) /\ Agent!CacheIsBounded'
<1>1. PICK d \in Fitting : d = [key |-> key, rows |-> shipped, scope |-> of] /\ d.key = key
  <2> DEFINE d == [key |-> key, rows |-> shipped, scope |-> of]
  <2>1. d.key = key /\ d.scope = of /\ d.rows = shipped
    OBVIOUS
  <2>2. d \in Dataset
    BY DEF Dataset
  <2> HIDE DEF d
  <2>3. d \in Fitting
    BY <2>1, <2>2 DEF Fitting
  <2> QED BY <2>1, <2>3 DEF d
<1>2. CASE \E i \in Agent!At(key) : datasets' = Append(Agent!RemoveAt(datasets, i), datasets[i])
  <2>1. Agent!At(key) \subseteq 1..Len(datasets)
    BY DEF Agent!At, AgentInv
  <2> QED BY <1>2, <2>1, AskedAgain
<1>3. CASE /\ Agent!At(key) = {}
           /\ datasets' = IF Len(Append(datasets, d)) > MaxDatasets THEN Tail(Append(datasets, d))
                          ELSE Append(datasets, d)
  BY <1>1, <1>3, AskedAnew
<1> QED
  BY <1>1, <1>2, <1>3 DEF Agent!Materialize

LEMMA AgentInit == ASSUME AgentBounds PROVE Agent!Init => AgentInv
<1> SUFFICES ASSUME Agent!Init PROVE AgentInv
  OBVIOUS
<1>1. Agent!NoChat \in Agent!Streams /\ Agent!NoChat.pc = "none"
  BY DEF Agent!NoChat, Agent!Streams
<1>2. question \in [Panes -> Agent!Streams] /\ \A p \in Panes : question[p].pc = "none"
  BY <1>1 DEF Agent!Init
<1>3. completed \in [Agent!Range(<<f1>>) -> 0..MaxCompleted] /\ versioned \in [Refs -> Agent!Runs \cup {<<>>}]
  BY DEF Agent!Init, AgentBounds
<1>4. /\ datasets \in Seq(Fitting) /\ datasets \in Seq(Dataset) /\ Agent!CacheIsBounded
      /\ answers \in [Panes -> [pending : BOOLEAN, sawFinal : BOOLEAN, queue : Seq(Agent!Updates)]]
  BY DEF Agent!Init, Agent!Idle, Agent!CacheIsBounded, AgentBounds
<1> QED
  BY <1>2, <1>3, <1>4 DEF AgentInv, Agent!TypeOK, Dataset, StreamFits

\* What an answer is relayed in.
LEMMA RelaysAreStreams ==
  \A answer \in Agent!Answers : Agent!Relay(answer) \in Agent!Streams /\ Agent!Relay(answer).pc = "relaying"
<1> TAKE answer \in Agent!Answers
<1>1. <<answer>> \in Seq(Agent!Answers)
  OBVIOUS
<1> QED BY <1>1 DEF Agent!Relay, Agent!Streams

\* A version stays what it was saved as.
LEMMA SavedStaysSo ==
  ASSUME AgentInv, Agent!TypeOK', UNCHANGED <<question, datasets>>,
         \A ref \in Refs : versioned[ref] # <<>> => versioned'[ref] = versioned[ref]
  PROVE  AgentInv'
<1>1. ASSUME NEW d \in Dataset, Fits(d.key, d.scope, d.rows) PROVE Fits(d.key, d.scope, d.rows)'
  <2>1. d.key[1] = "ref" => d.key[2] \in Refs
    BY DEF Dataset, Agent!Keys
  <2> QED BY <1>1, <2>1 DEF Fits, RowsOf
<1>2. Fitting \subseteq Fitting'
  BY <1>1 DEF Fitting, Dataset, Agent!Keys, Agent!Runs, Agent!Scopes
<1>3. datasets' \in Seq(Fitting)'
  <2>1. \A S, T : S \subseteq T /\ datasets \in Seq(S) => datasets \in Seq(T)
    OBVIOUS
  <2> QED BY <1>2, <2>1 DEF AgentInv
<1>4. \A p \in Panes : StreamFits(question[p])'
  <2> TAKE p \in Panes
  <2>1. PICK c : c = question[p] /\ StreamFits(c)
    BY DEF AgentInv
  <2>2. /\ c.pc = "reading" => c.ref \in Refs \cup {None}
        /\ c.pc = "agent" => [key |-> c.key, rows |-> c.rows, scope |-> c.scope] \in Dataset
    BY <2>1, StreamPhases DEF AgentInv, Dataset
  <2>3. c.pc = "agent" => Fits(c.key, c.scope, c.rows)'
    <3> DEFINE d == [key |-> c.key, rows |-> c.rows, scope |-> c.scope]
    <3>1. d.key = c.key /\ d.rows = c.rows /\ d.scope = c.scope
      OBVIOUS
    <3> QED BY <1>1, <2>1, <2>2, <3>1 DEF StreamFits
  <2>4. c.pc = "reading" => ReadsVersion(c)'
    BY <2>1, <2>2 DEF StreamFits, ReadsVersion, RowsOf
  <2> QED BY <2>1, <2>3, <2>4 DEF StreamFits, Fits, ReadsVersion, RowsOf
<1> QED
  BY <1>3, <1>4 DEF AgentInv, Agent!CacheIsBounded

LEMMA SavingKeepsAgent ==
  ASSUME AgentBounds, AgentInv, NEW f \in Agent!Range(<<f1>>),
         Agent!AuditRun(f) \/ \E r \in Refs : Agent!SaveVersion(r, f)
  PROVE  AgentInv'
<1>1. CASE Agent!AuditRun(f)
  <2>0. completed \in [Agent!Range(<<f1>>) -> 0..MaxCompleted]
    BY DEF AgentInv, Agent!TypeOK
  <2>1. completed[f] + 1 \in 0..MaxCompleted
    BY <1>1, <2>0 DEF Agent!AuditRun, AgentBounds
  <2>2. completed' \in [Agent!Range(<<f1>>) -> 0..MaxCompleted]
    BY <1>1, <2>0, <2>1 DEF Agent!AuditRun
  <2>3. Agent!TypeOK'
    BY <1>1, <2>2 DEF Agent!AuditRun, AgentInv, Agent!TypeOK
  <2> QED BY <1>1, <2>3, SavedStaysSo DEF Agent!AuditRun
<1>2. ASSUME NEW r \in Refs, Agent!SaveVersion(r, f) PROVE AgentInv'
  <2>1. PICK n \in 1..completed[f] : versioned' = [versioned EXCEPT ![r] = <<f, n>>]
    BY <1>2 DEF Agent!SaveVersion
  <2>2. <<f, n>> \in Agent!Runs
    BY OneFunction, <2>1 DEF AgentBounds, AgentInv, Agent!TypeOK
  <2>3. /\ versioned' \in [Refs -> Agent!Runs \cup {<<>>}]
        /\ \A x \in Refs : versioned[x] # <<>> => versioned'[x] = versioned[x]
    BY <1>2, <2>1, <2>2 DEF Agent!SaveVersion, AgentInv, Agent!TypeOK
  <2>4. Agent!TypeOK'
    BY <1>2, <2>3 DEF Agent!SaveVersion, AgentInv, Agent!TypeOK
  <2> QED BY <1>2, <2>3, <2>4, SavedStaysSo DEF Agent!SaveVersion
<1> QED BY <1>1, <1>2

LEMMA ReadingKeepsAgent ==
  ASSUME AgentBounds, AgentInv, NEW p \in Panes, Agent!ReadFunction(p)
  PROVE  AgentInv'
<1>1. PICK c, n : c = question[p] /\ n = Agent!RunFor(c, Head(c.left))
  OBVIOUS
<1>2. PICK more, left : more = (c.rows \cup IF n = 0 THEN {} ELSE {<<Head(c.left), n>>}) /\ left = Tail(c.left)
  OBVIOUS
<1>3. /\ c.pc = "reading" /\ c.left # <<>>
      /\ question' = [question EXCEPT ![p] = [[question[p] EXCEPT !.rows = more] EXCEPT !.left = left]]
      /\ UNCHANGED <<completed, versioned, datasets, answers>>
  BY <1>1, <1>2 DEF Agent!ReadFunction, AgentInv, Agent!TypeOK
<1>4. /\ c \in [pc : {"reading"}, scope : Agent!Scopes, ref : Refs \cup {None},
                 rows : SUBSET Agent!Runs, left : Seq({f1})]
      /\ ReadsVersion(c)
  BY <1>1, <1>3, StreamPhases DEF AgentInv, StreamFits
<1>5. Head(c.left) = f1 /\ left \in Seq({f1})
  <2>1. c.left \in Seq({f1})
    BY <1>4
  <2> QED BY <1>2, <1>3, <2>1
<1>6. n \in 0..MaxCompleted
  <2>1. completed[f1] \in 0..MaxCompleted
    BY OneFunction DEF AgentInv, Agent!TypeOK
  <2>2. c.ref # None => versioned[c.ref] \in {f1} \X (1..MaxCompleted)
    BY <1>4, OneFunction DEF AgentInv, Agent!TypeOK, ReadsVersion
  <2> QED BY <1>1, <1>5, <2>1, <2>2 DEF Agent!RunFor, AgentBounds
<1>7. more \in SUBSET Agent!Runs
  <2>1. n # 0 => <<f1, n>> \in Agent!Runs
    BY <1>6, OneFunction DEF AgentBounds
  <2> QED BY <1>2, <1>4, <1>5, <2>1
<1>8. PICK d : d = [[c EXCEPT !.rows = more] EXCEPT !.left = left]
  OBVIOUS
<1>9. /\ d \in [pc : {"reading"}, scope : Agent!Scopes, ref : Refs \cup {None},
                 rows : SUBSET Agent!Runs, left : Seq({f1})]
      /\ d.ref = c.ref
  BY <1>4, <1>5, <1>7, <1>8, ReadingRecords
<1>10. d \in Agent!Streams
  BY <1>9, OneFunction DEF Agent!Streams
<1>11. question' = [question EXCEPT ![p] = d]
  BY <1>1, <1>3, <1>8
<1>12. /\ datasets' \in Seq(Fitting) /\ Agent!CacheIsBounded'
       /\ answers' \in [Panes -> [pending : BOOLEAN, sawFinal : BOOLEAN, queue : Seq(Agent!Updates)]]
  BY <1>3 DEF AgentInv, Agent!TypeOK, Agent!CacheIsBounded
<1>13. StreamFits(d)
  <2>1. d.pc = "reading" /\ d.scope = c.scope /\ d.rows = more /\ d.left = left
    BY <1>3, <1>4, <1>8, ReadingRecords
  <2>2. ASSUME c.ref # None, c.scope # None
        PROVE  left = <<>> /\ more = RowsOf(c.ref, c.scope)
    <3>1. c.left = <<c.scope>> /\ c.rows = {} /\ Head(c.left) = c.scope
      BY <1>3, <1>4, <2>2 DEF ReadsVersion
    <3>2. left = <<>>
      BY <1>2, <3>1
    <3>3. versioned[c.ref] # <<>> /\ versioned[c.ref] \in {f1} \X (1..MaxCompleted)
      BY <1>4, <2>2, OneFunction DEF AgentInv, Agent!TypeOK, ReadsVersion
    <3>4. n = (IF versioned[c.ref][1] = c.scope THEN versioned[c.ref][2] ELSE 0)
      BY <1>1, <2>2, <3>1 DEF Agent!RunFor
    <3>5. versioned[c.ref][2] # 0
      BY <3>3 DEF AgentBounds
    <3> QED BY <1>2, <3>1, <3>2, <3>4, <3>5 DEF RowsOf
  <2> QED BY <1>4, <1>9, <2>1, <2>2 DEF StreamFits, ReadsVersion
<1> QED
  BY <1>3, <1>10, <1>11, <1>12, <1>13, ChatMoves

\* A new question.
LEMMA AskKeepsAgent ==
  ASSUME AgentBounds, AgentInv, NEW p \in Panes, NEW of \in Agent!Scopes, NEW ref \in Refs \cup {None},
         Agent!Ask(p, of, ref)
  PROVE  AgentInv'
<1> DEFINE left == IF of = None THEN <<f1>> ELSE <<of>>
           d == [pc |-> "reading", scope |-> of, ref |-> ref, rows |-> {}, left |-> left]
<1>1. left \in Seq({f1})
  BY OneFunction
<1>2. d \in Agent!Streams /\ d.ref = ref
  BY <1>1, OneFunction DEF Agent!Streams
<1>3. question' = [question EXCEPT ![p] = d] /\ UNCHANGED <<completed, versioned, datasets>>
  BY DEF Agent!Ask
<1>4. answers' \in [Panes -> [pending : BOOLEAN, sawFinal : BOOLEAN, queue : Seq(Agent!Updates)]]
  <2>1. Agent!Idle \in [pending : BOOLEAN, sawFinal : BOOLEAN, queue : Seq(Agent!Updates)]
    BY DEF Agent!Idle
  <2>3. [Agent!Idle EXCEPT !.pending = TRUE] \in [pending : BOOLEAN, sawFinal : BOOLEAN, queue : Seq(Agent!Updates)]
    BY <2>1, ClosingUpdates, PaneRecords
  <2> QED BY <2>3 DEF Agent!Ask, AgentInv, Agent!TypeOK
<1>5. StreamFits(d)
  BY DEF Agent!Ask, StreamFits, ReadsVersion
<1>6. datasets' \in Seq(Fitting) /\ Agent!CacheIsBounded'
  BY <1>3 DEF AgentInv, Agent!CacheIsBounded
<1> HIDE DEF d
<1> QED
  BY <1>2, <1>3, <1>4, <1>5, <1>6, ChatMoves

\* The rows are shipped: the question goes to the agent, or its answer is relayed.
LEMMA ShippedKeepsAgent ==
  ASSUME AgentBounds, AgentInv, NEW p \in Panes, Agent!StubAnswer(p) \/ Agent!StreamChat(p)
  PROVE  AgentInv'
<1>1. PICK c : c = question[p]
  OBVIOUS
<1>2. /\ c.pc = "reading" /\ c.scope \in Agent!Scopes /\ c.ref \in Refs \cup {None}
      /\ c.rows \subseteq Agent!Runs
      /\ Agent!Materialize(Agent!DatasetKey(c), c.rows, c.scope) /\ UNCHANGED <<completed, versioned, answers>>
  BY <1>1, StreamPhases DEF AgentInv, Agent!StubAnswer, Agent!StreamChat, Agent!Shipped
<1>3. Agent!DatasetKey(c) \in Agent!Keys
  BY <1>2 DEF Agent!DatasetKey, Agent!Keys
<1>9. c.left = <<>> /\ Fits(Agent!DatasetKey(c), c.scope, c.rows)
  <2>1. c.left = <<>> /\ ReadsVersion(c)
    BY <1>1, <1>2 DEF AgentInv, StreamFits, Agent!StubAnswer, Agent!StreamChat, Agent!Shipped
  <2>2. CASE c.ref = None
    BY <2>1, <2>2 DEF Fits, Agent!DatasetKey
  <2>3. CASE c.ref # None
    BY <2>1, <2>3 DEF Fits, Agent!DatasetKey, ReadsVersion
  <2> QED BY <2>1, <2>2, <2>3
<1>4. datasets' \in Seq(Fitting) /\ Agent!CacheIsBounded'
  BY <1>2, <1>3, <1>9, DatasetsFit
<1> DEFINE a == [pc |-> "agent", scope |-> c.scope, rows |-> c.rows, key |-> Agent!DatasetKey(c), round |-> 1]
<1>5. a \in Agent!Streams /\ a.pc = "agent"
  BY <1>2, <1>3 DEF Agent!Streams, AgentBounds
<1>6. question' = [question EXCEPT ![p] = Agent!Relay("final")] \/ question' = [question EXCEPT ![p] = a]
  BY <1>1 DEF Agent!StubAnswer, Agent!StreamChat, AgentInv, Agent!TypeOK
<1> HIDE DEF a
<1>7. "final" \in Agent!Answers
  BY DEF Agent!Answers
<1>10. StreamFits(a)
  <2>1. a.pc = "agent" /\ a.key = Agent!DatasetKey(c) /\ a.scope = c.scope /\ a.rows = c.rows
    BY DEF a
  <2>2. Agent!DatasetKey(c)[1] # "other"
    BY DEF Agent!DatasetKey
  <2> QED BY <1>9, <2>1, <2>2 DEF StreamFits
<1>8. PICK x \in Agent!Streams : question' = [question EXCEPT ![p] = x] /\ StreamFits(x)
  BY <1>5, <1>6, <1>7, <1>10, RelaysAreStreams DEF StreamFits
<1> QED
  BY <1>2, <1>4, <1>8, ChatMoves DEF AgentInv, Agent!TypeOK

\* The agent's rounds, and what ends them.
LEMMA RoundsKeepAgent ==
  ASSUME AgentBounds, AgentInv, NEW p \in Panes,
         \/ Agent!Unavailable(p) \/ Agent!ModelFails(p) \/ Agent!Unparsed(p) \/ Agent!Query(p)
         \/ \E v \in BOOLEAN : Agent!Final(p, v)
  PROVE  AgentInv'
<1>1. PICK c : c = question[p]
  OBVIOUS
<1>2. UNCHANGED <<completed, versioned, datasets, answers>>
  BY DEF Agent!Unavailable, Agent!ModelFails, Agent!Unparsed, Agent!Query, Agent!Final
<1>3. \/ \E answer \in Agent!Answers : question' = [question EXCEPT ![p] = Agent!Relay(answer)]
      \/ c.pc = "agent" /\ c.round # MaxIterations /\ question' = [question EXCEPT ![p].round = @ + 1]
  <2>1. CASE Agent!Unavailable(p) \/ Agent!ModelFails(p) \/ Agent!Unparsed(p)
    BY <2>1 DEF Agent!Unavailable, Agent!ModelFails, Agent!Unparsed, Agent!End, Agent!Answers
  <2>2. CASE \E answer \in Agent!Answers : Agent!End(p, answer)
    BY <2>2 DEF Agent!End
  <2>3. CASE c.pc = "agent" /\ Agent!Continue(p)
    BY <1>1, <2>2, <2>3 DEF Agent!Continue, Agent!End, Agent!Answers
  <2> QED BY <1>1, <2>1, <2>2, <2>3 DEF Agent!Query, Agent!Final, Agent!Answers
<1>4. ASSUME c.pc = "agent", c.round # MaxIterations, question' = [question EXCEPT ![p].round = @ + 1]
      PROVE  \E x \in Agent!Streams : question' = [question EXCEPT ![p] = x] /\ StreamFits(x)
  <2>1. c \in [pc : {"agent"}, scope : Agent!Scopes, rows : SUBSET Agent!Runs,
              key : Agent!Keys, round : 1..MaxIterations]
    BY <1>1, <1>4, StreamPhases DEF AgentInv
  <2>2. PICK n \in 1..MaxIterations : n = c.round + 1
    BY <1>4, <2>1 DEF AgentBounds
  <2>3. PICK x : x = [c EXCEPT !.round = n]
    OBVIOUS
  <2>4. x \in [pc : {"agent"}, scope : Agent!Scopes, rows : SUBSET Agent!Runs,
              key : Agent!Keys, round : 1..MaxIterations]
    BY <2>1, <2>3, RoundRecords
  <2>5. question' = [question EXCEPT ![p] = x]
    BY <1>1, <1>4, <2>2, <2>3 DEF AgentInv, Agent!TypeOK
  <2>6. StreamFits(x)
    <3>1. x.pc = "agent" /\ x.key = c.key /\ x.scope = c.scope /\ x.rows = c.rows
      BY <2>1, <2>3
    <3> QED BY <1>1, <1>4, <3>1 DEF AgentInv, StreamFits
  <2>7. x \in Agent!Streams
    BY <2>4 DEF Agent!Streams
  <2> QED BY <2>5, <2>6, <2>7
<1>5. PICK x \in Agent!Streams : question' = [question EXCEPT ![p] = x] /\ StreamFits(x)
  BY <1>3, <1>4, RelaysAreStreams DEF StreamFits
<1> QED
  BY <1>2, <1>5, ChatMoves DEF AgentInv, Agent!TypeOK, Agent!CacheIsBounded

\* What the answers receives, and what React makes of it.
LEMMA PaneKeepsAgent ==
  ASSUME AgentBounds, AgentInv, NEW p \in Panes,
         Agent!Receive(p) \/ Agent!EndOfStream(p) \/ Agent!Break(p) \/ Agent!Render(p)
  PROVE  AgentInv'
<1> DEFINE Answering == [pending : BOOLEAN, sawFinal : BOOLEAN, queue : Seq(Agent!Updates)]
<1>1. answers \in [Panes -> Answering] /\ answers[p] \in Answering
  BY DEF AgentInv, Agent!TypeOK
<1>2. UNCHANGED <<completed, versioned, datasets>>
  BY DEF Agent!Receive, Agent!EndOfStream, Agent!Break, Agent!Render
<1>3. \E x \in Answering : answers' = [answers EXCEPT ![p] = x]
  <2>0. PICK y \in Answering : y = answers[p]
    BY <1>1
  <2>1. CASE Agent!Receive(p)
    <3>1. PICK update \in {"answer", "error"}, early \in {FALSE, answers[p].queue = <<>>} :
            answers' = [answers EXCEPT ![p].queue = Append(@, update),
                                 ![p].sawFinal = @ \/ (early /\ update = "answer")]
      BY <2>1 DEF Agent!Receive
    <3>2. PICK v \in BOOLEAN : v = (y.sawFinal \/ (early /\ update = "answer"))
      OBVIOUS
    <3>6. y.queue \in Seq(Agent!Updates) /\ update \in Agent!Updates
      BY DEF Agent!Updates
    <3>3. PICK q \in Seq(Agent!Updates) : q = Append(y.queue, update)
      BY <3>6, AppendProperties
    <3>4. answers' = [answers EXCEPT ![p] = [[y EXCEPT !.queue = q] EXCEPT !.sawFinal = v]]
      BY <1>1, <2>0, <3>1, <3>2, <3>3
    <3>5. [[y EXCEPT !.queue = q] EXCEPT !.sawFinal = v] \in Answering
      BY PaneRecords
    <3> QED BY <3>4, <3>5
  <2>2. CASE Agent!EndOfStream(p) \/ Agent!Break(p)
    <3>1. PICK w \in Seq(Agent!Updates) : answers' = [answers EXCEPT ![p].queue = @ \o w]
      BY <2>2, ClosingUpdates DEF Agent!EndOfStream, Agent!Break
    <3>2. PICK q \in Seq(Agent!Updates) : q = y.queue \o w
      BY ConcatProperties
    <3>3. answers' = [answers EXCEPT ![p] = [y EXCEPT !.queue = q]]
      BY <1>1, <2>0, <3>1, <3>2
    <3>4. [y EXCEPT !.queue = q] \in Answering
      BY <3>2, ClosingUpdates, PaneRecords
    <3> QED BY <3>3, <3>4
  <2>3. CASE Agent!Render(p)
    <3>1. Agent!Idle \in Answering
      BY DEF Agent!Idle
    <3>2. PICK v \in BOOLEAN : v = (y.sawFinal \/ Agent!Contains(y.queue, "answer"))
      OBVIOUS
    <3>3. [[y EXCEPT !.sawFinal = v] EXCEPT !.queue = <<>>] \in Answering
      BY ClosingUpdates, PaneRecords
    <3>4. \/ answers' = [answers EXCEPT ![p] = Agent!Idle]
          \/ answers' = [answers EXCEPT ![p] = [[y EXCEPT !.sawFinal = v] EXCEPT !.queue = <<>>]]
      BY <1>1, <2>0, <2>3, <3>2 DEF Agent!Render
    <3> QED BY <3>1, <3>3, <3>4
  <2> QED BY <2>1, <2>2, <2>3
<1>4. answers' \in [Panes -> Answering]
  BY <1>1, <1>3
<1> HIDE DEF Answering
<1>5. \E x \in Agent!Streams : question' = [question EXCEPT ![p] = x] /\ StreamFits(x)
  <2>1. CASE Agent!Receive(p)
    <3>1. PICK c \in [pc : {"relaying"}, out : Seq(Agent!Answers)] : c = question[p] /\ c.out # <<>>
      BY <2>1, StreamPhases DEF Agent!Receive, AgentInv
    <3>5. c.out \in Seq(Agent!Answers)
      OBVIOUS
    <3>2. PICK o \in Seq(Agent!Answers) : o = Tail(c.out)
      BY <3>1, <3>5, FirstGone
    <3>3. [c EXCEPT !.out = o] \in [pc : {"relaying"}, out : Seq(Agent!Answers)]
      BY <3>1, RelayRecords
    <3>4. question' = [question EXCEPT ![p] = [c EXCEPT !.out = o]]
      BY <2>1, <3>1, <3>2 DEF Agent!Receive, AgentInv, Agent!TypeOK
    <3>6. [c EXCEPT !.out = o] \in Agent!Streams /\ [c EXCEPT !.out = o].pc = "relaying"
      BY <3>3 DEF Agent!Streams
    <3> QED BY <3>4, <3>6 DEF StreamFits
  <2>2. CASE Agent!EndOfStream(p) \/ Agent!Break(p)
    <3>1. Agent!NoChat \in Agent!Streams /\ Agent!NoChat.pc = "none"
      BY DEF Agent!NoChat, Agent!Streams
    <3> QED BY <2>2, <3>1 DEF Agent!EndOfStream, Agent!Break, StreamFits
  <2>3. CASE Agent!Render(p)
    BY <2>3 DEF Agent!Render, AgentInv, Agent!TypeOK
  <2> QED BY <2>1, <2>2, <2>3
<1>6. PICK x \in Agent!Streams : question' = [question EXCEPT ![p] = x] /\ StreamFits(x)
  BY <1>5
<1> QED
  BY <1>2, <1>4, <1>6, ChatMoves DEF AgentInv, Agent!TypeOK, Answering, Agent!CacheIsBounded

LEMMA AgentStep == ASSUME AgentBounds PROVE AgentInv /\ [Agent!Next]_(Agent!vars) => AgentInv'
<1> SUFFICES ASSUME AgentInv, [Agent!Next]_(Agent!vars) PROVE AgentInv'
  OBVIOUS
<1>1. CASE UNCHANGED Agent!vars
  <2>1. Agent!TypeOK'
    BY <1>1 DEF Agent!vars, AgentInv, Agent!TypeOK
  <2> QED BY <1>1, <2>1, SavedStaysSo DEF Agent!vars
<1>2. ASSUME NEW o \in Elsewhere, Agent!OtherChat(o) PROVE AgentInv'
  <2>1. <<"other", o>> \in Agent!Keys /\ None \in Agent!Scopes
    BY DEF Agent!Keys, Agent!Scopes
  <2>2. Fits(<<"other", o>>, None, {})
    BY DEF Fits
  <2>3. datasets' \in Seq(Fitting) /\ Agent!CacheIsBounded'
    BY <1>2, <2>1, <2>2, DatasetsFit DEF Agent!OtherChat
  <2>4. Fitting' = Fitting
    BY <1>2 DEF Agent!OtherChat, Fitting, Fits, RowsOf, Dataset, Agent!Keys, Agent!Runs, Agent!Scopes
  <2>5. datasets' \in Seq(Dataset)
    <3>1. Fitting \subseteq Dataset
      BY DEF Fitting
    <3> HIDE DEF Fitting, Dataset
    <3> QED BY <2>3, <3>1
  <2>6. \A p \in Panes : StreamFits(question[p])'
    BY <1>2 DEF Agent!OtherChat, AgentInv, StreamFits, Fits, ReadsVersion, RowsOf
  <2>7. Agent!TypeOK'
    BY <1>2, <2>5 DEF Agent!OtherChat, AgentInv, Agent!TypeOK, Dataset
  <2> QED BY <2>3, <2>4, <2>6, <2>7 DEF AgentInv
<1> QED
  BY <1>1, <1>2, SavingKeepsAgent, AskKeepsAgent, ReadingKeepsAgent, ShippedKeepsAgent, RoundsKeepAgent,
     PaneKeepsAgent DEF Agent!Next


LEMMA AgentIsTrue == AgentInv => Agent!AgentKeepsApart
<1> SUFFICES ASSUME AgentInv PROVE Agent!AgentKeepsApart
  OBVIOUS
<1>1. ASSUME NEW p \in Agent!Working, NEW i \in DOMAIN datasets, datasets[i].key = question[p].key,
             \/ question[p].key[1] = "hash"
             \/ question[p].scope # None /\ question[p].scope = datasets[i].scope
      PROVE  datasets[i].rows = question[p].rows
  <2>1. PICK c : c = question[p] /\ c.pc = "agent" /\ Fits(c.key, c.scope, c.rows)
                                   /\ c.key[1] # "other" /\ c.key \in Agent!Keys
    BY StreamPhases DEF AgentInv, StreamFits, Agent!Working
  <2>2. PICK d \in Fitting : d = datasets[i]
    BY DEF AgentInv
  <2>3. Fits(c.key, d.scope, d.rows)
    BY <1>1, <2>1, <2>2 DEF Fitting
  <2>4. CASE c.key[1] = "hash"
    BY <2>1, <2>2, <2>3, <2>4 DEF Fits
  <2>5. CASE c.key[1] # "hash" /\ c.scope # None /\ c.scope = d.scope
    <3>1. CASE c.key[1] = "ref"
      BY <2>1, <2>2, <2>3, <2>5, <3>1 DEF Fits
    <3> QED BY <2>1, <2>5, <3>1 DEF Agent!Keys
  <2> QED BY <1>1, <2>1, <2>2, <2>4, <2>5
<1>2. Agent!SqlSeesItsRows
  BY <1>1 DEF Agent!SqlSeesItsRows
<1> QED BY <1>2 DEF Agent!AgentKeepsApart, AgentInv

-----------------------------------------------------------------------------
(* The theorems                                                              *)

Focuses == {"pilot", "analytics", "agent", "client", "author"} \cup InBrowser

\* What is kept in one part and in all.
ServicesInv ==
  /\ focus \in Focuses
  /\ PilotInv /\ ChatInv /\ AgentInv /\ ClientInv /\ AuthorInv
  /\ StoreInv /\ WorkspaceInv /\ TabInv /\ HistoryInv /\ DeskInv /\ PaneInv /\ DocumentsInv
  /\ focus = "compare" => CompareInv

LEMMA PartsStart == Init => ServicesInv
<1>1. Init => focus \in Focuses
  BY DEF Init, Focuses
<1> QED
  BY <1>1, ConstantsAreApart, PartsInit, PilotStart, ChatStarts, AgentInit, ClientStart, AuthorStarts,
     StoreStarts, WorkspaceStarts, TabStarts, HistoryStarts, DeskStarts, PaneStarts,
     DocumentsStart, CompareStarts DEF ServicesInv

LEMMA PartsKeep == ServicesInv /\ [Next]_vars => ServicesInv'
<1> SUFFICES ASSUME ServicesInv, [Next]_vars PROVE ServicesInv'
  OBVIOUS
<1>1. PilotInv' /\ ChatInv' /\ AgentInv' /\ ClientInv' /\ AuthorInv'
  BY ConstantsAreApart, PartsStep, PilotStep, ChatStep, AgentStep, ClientStep, AuthorStep
     DEF ServicesInv
<1>2. StoreInv' /\ WorkspaceInv' /\ DocumentsInv'
  BY ConstantsAreApart, PartsStep, StoreStep, WorkspaceStep, DocumentsStep DEF ServicesInv
<1>3. TabInv' /\ HistoryInv' /\ DeskInv' /\ PaneInv'
  BY ConstantsAreApart, PartsStep, TabStep, HistoryStep, DeskStep, PaneStep DEF ServicesInv
<1>4. focus' = focus
  BY PartsStep
<1>5. focus' = "compare" => CompareInv'
  BY <1>4, PartsStep, CompareStep DEF ServicesInv
<1> QED
  BY <1>1, <1>2, <1>3, <1>4, <1>5 DEF ServicesInv

LEMMA ServicesKept == Spec => []ServicesInv
BY PartsStart, PartsKeep, PTL DEF Spec

\* Whatever saves, pauses, expiries, failed uploads and crashes come between: an
\* audit runs each wanted check exactly once, and samples are there and on record.
THEOREM PilotStaysConsistent == Spec => []PilotIsConsistent
<1>1. ServicesInv => PilotIsConsistent
  BY LoadedOnce DEF ServicesInv, PilotIsConsistent
<1> QED BY <1>1, ServicesKept, PTL

\* A query finds exactly the rows its clause is meant to say, whatever is NULL in
\* them, a page comes in order and leaves out nothing that should have come before
\* it, and no entry is shown with less of its history than its row tells of.
THEOREM ClientStaysTrue == Spec => []ClientKeepsItsWord
<1>1. ServicesInv => ClientKeepsItsWord
  BY ConstantsAreApart, WordIsKept DEF ServicesInv, ClientKeepsItsWord
<1> QED BY <1>1, ServicesKept, PTL

\* What a notification's link leads to is there to be seen until the user turns
\* away from it, and the numbers of the findings tab add up.
THEOREM FindingsStayFound == Spec => []Tab!FindingsAreFound
<1>1. ServicesInv => Tab!FindingsAreFound
  BY LinkLeadsToRow, NumbersAddUp DEF ServicesInv, Tab!FindingsAreFound
<1> QED BY <1>1, ServicesKept, PTL

\* An optimistic change that nothing overlapped is shown as the server holds it,
\* and no comment is shown twice or after it was taken back.
THEOREM HistoryStaysTrue == Spec => []History!ShownIsHeld
<1>1. ServicesInv => History!ShownIsHeld
  BY HistoryIsTrue DEF ServicesInv
<1> QED BY <1>1, ServicesKept, PTL

\* A list with nothing under way shows the entries as they are, the cursor is on a
\* row of it, and an answer changes the ticks only the first time, to the entry the
\* address names, and moves the cursor to no other row.
THEOREM DeskStaysCurrent ==
  Spec => /\ [](Desk!QuietListIsCurrent /\ Desk!CursorIsShown)
          /\ [][Desk!RowsLeaveTicks]_(Desk!deskVars)
<1>1. ServicesInv => Desk!QuietListIsCurrent /\ Desk!CursorIsShown
  BY DeskIsTrue DEF ServicesInv
<1>2. ServicesInv /\ [Next]_vars => [Desk!RowsLeaveTicks]_(Desk!deskVars)
  BY ConstantsAreApart, PartsStep, TicksAreLeft DEF ServicesInv
<1> QED BY <1>1, <1>2, ServicesKept, PTL DEF Spec

\* What the composer previews, saves and sends is what was written in it, whatever
\* answer comes late and whoever else edits the entry.
THEOREM ComposerStaysTrue == Spec => []Pane!ComposerKeepsItsWord
<1>1. ServicesInv => Pane!ComposerKeepsItsWord
  BY PaneIsTrue DEF ServicesInv
<1> QED BY <1>1, ServicesKept, PTL

\* Whatever runs complete and whoever else asks: a question about one function, or
\* without a version, is answered from the rows it shipped, and no dataset is kept
\* twice or beyond the limit.
THEOREM AgentStaysApart == Spec => []Agent!AgentKeepsApart
<1>1. ServicesInv => Agent!AgentKeepsApart
  BY AgentIsTrue DEF ServicesInv
<1> QED BY <1>1, ServicesKept, PTL

\* Whatever answer is lost or comes late: a rule is saved only as it was previewed,
\* each step of the dialog has the session, the rule and the results it is about,
\* and the sheet shown is the one the server runs the rule on.
THEOREM WizardStaysTrue == Spec => []Author!WizardKeepsItsWord
<1>1. ServicesInv => Author!WizardKeepsItsWord
  BY AuthorIsTrue DEF ServicesInv
<1> QED BY <1>1, ServicesKept, PTL

\* A cached answer is about the versions as they were asked about unless a save
\* overtook its stream, the cache keeps its limit and one answer per question, and
\* versions are numbered without a gap, whichever saves overlap.
THEOREM CacheStaysTrue == Spec => []Chat!CacheFollowsVersions
<1>1. ServicesInv => Chat!CacheFollowsVersions
  BY DEF ServicesInv, ChatInv
<1> QED BY <1>1, ServicesKept, PTL

\* Whatever uploads, drafts, deletions and readings cross: a file is listed once if
\* and only if the server has it, but for what overlaps are said to leave open, a
\* failed upload can be repeated from its draft, and what is counted is ticked.
THEOREM DocumentsStayTrue == Spec => []Documents!DocumentsAreTrue
<1>1. ServicesInv => Documents!DocumentsAreTrue
  BY DocumentsAreAsShown DEF ServicesInv
<1> QED BY <1>1, ServicesKept, PTL

\* The list of processes holds each once, but for one that a fetch brought in before
\* the answer to its creation, and the active one with them until an older list
\* replaces it; no step takes what is only in the browser from a process that stays.
THEOREM ListStaysWhole == Spec => []Store!ListIsConsistent /\ Store!LocalDataKept
<1>1. ServicesInv => Store!ListIsConsistent
  BY ListIsWhole DEF ServicesInv
<1>2. ServicesInv /\ [Next]_vars =>
        [~overtaken' => \A p \in Store!Ids(list) \cap Store!Ids(list') :
           Store!HasFiles(list, p) => Store!HasFiles(list', p)]_(Store!vars)
  BY ConstantsAreApart, PartsStep, FilesAreKept DEF ServicesInv
<1> QED BY <1>1, <1>2, ServicesKept, PTL DEF Spec, Store!LocalDataKept

\* The run that may commit is the one under way, and only the one started last
\* changes a result; versions count up in each function, a quick save refreshes what
\* its message says, and the version before is repeated only when that is confirmed.
THEOREM RunsAndVersionsStayInTurn ==
  Spec => /\ []Workspace!RunsAndVersionsInTurn
          /\ Workspace!OvertakenRunsAreDropped /\ Workspace!DuplicatesAreConfirmed
<1>1. ServicesInv => Workspace!RunsAndVersionsInTurn
  BY WorkspaceIsTyped DEF ServicesInv
<1>2. ServicesInv /\ [Next]_vars => [LastCommits]_(Workspace!vars) /\ [Confirmed]_(Workspace!vars)
  BY ConstantsAreApart, PartsStep, WorkspaceSteps DEF ServicesInv
<1> QED
  BY <1>1, <1>2, ServicesKept, PTL
     DEF Spec, Workspace!OvertakenRunsAreDropped, Workspace!DuplicatesAreConfirmed,
         LastCommits, Confirmed

\* Both sides of the comparison are versions that can be picked, each finding is in
\* one row, across from itself, and a row is left out only when its sides agree.
THEOREM ComparisonStaysTrue == Spec => [](focus = "compare" => Compare!VersionsCompare)
<1>1. ServicesInv => (focus = "compare" => Compare!VersionsCompare)
  BY CompareIsTrue DEF ServicesInv
<1> QED BY <1>1, ServicesKept, PTL

\* Every part keeps its types.
THEOREM ServicesKeepTheirTypes == Spec => []TypeOK
<1>1. ServicesInv => TypeOK
  <2> SUFFICES ASSUME ServicesInv PROVE TypeOK
    OBVIOUS
  <2>1. Pilot!TypeOK /\ Chat!TypeOK /\ Agent!TypeOK /\ Client!TypeOK /\ Author!TypeOK
    BY ChatIsTyped, ClientTyped, AuthorIsTyped DEF ServicesInv, PilotInv, AgentInv
  <2>2. Store!TypeOK /\ Workspace!TypeOK /\ Tab!TypeOK /\ History!TypeOK
    BY ListIsWhole, WorkspaceIsTyped, HistoryIsTyped DEF ServicesInv, TabInv
  <2>3. Desk!TypeOK /\ Pane!TypeOK /\ Documents!TypeOK
    BY ConstantsAreApart, DeskIsTrue, PaneIsTrue, DocumentsAreTyped DEF ServicesInv
  <2>4. focus = "compare" => Compare!TypeOK
    BY CompareIsTyped DEF ServicesInv
  <2>5. focus \in Focuses
    BY DEF ServicesInv
  <2> QED
    BY <2>1, <2>2, <2>3, <2>4, <2>5 DEF TypeOK, Focuses, InBrowser
<1> QED BY <1>1, ServicesKept, PTL

\* Whatever is looked at shows what is so.
THEOREM ServicesStayTrue == Spec => []ShownIsTrue
<1>1. ServicesInv => ShownIsTrue
  <2> SUFFICES ASSUME ServicesInv PROVE ShownIsTrue
    OBVIOUS
  <2>1. Chat!CacheFollowsVersions /\ Agent!AgentKeepsApart /\ Author!WizardKeepsItsWord
    BY AgentIsTrue, AuthorIsTrue DEF ServicesInv, ChatInv
  <2>2. Store!ListIsConsistent /\ Workspace!RunsAndVersionsInTurn /\ Documents!DocumentsAreTrue
    BY ListIsWhole, WorkspaceIsTyped, DocumentsAreAsShown DEF ServicesInv
  <2>3. Tab!FindingsAreFound /\ History!ShownIsHeld
    BY LinkLeadsToRow, NumbersAddUp, HistoryIsTrue DEF ServicesInv, Tab!FindingsAreFound
  <2>4. /\ Desk!QuietListIsCurrent /\ Desk!CursorIsShown
        /\ Pane!ComposerKeepsItsWord
    BY DeskIsTrue, PaneIsTrue DEF ServicesInv
  <2>5. focus = "compare" => Compare!VersionsCompare
    BY CompareIsTrue DEF ServicesInv
  <2> QED
    BY <2>1, <2>2, <2>3, <2>4, <2>5 DEF ShownIsTrue
<1> QED BY <1>1, ServicesKept, PTL

\* What a step takes away in the browser, it may take away.
THEOREM BrowserStaysBehindServer == Spec => BrowserFollowsServer
<1>1. ServicesInv /\ [Next]_vars => [focus = "desk" => Desk!RowsLeaveTicks]_desk
  BY ConstantsAreApart, PartsStep, TicksAreLeft DEF ServicesInv, desk, Desk!deskVars
<1> QED
  BY <1>1, ServicesKept, ListStaysWhole, RunsAndVersionsStayInTurn, PTL
     DEF Spec, BrowserFollowsServer
=============================================================================
