---------------------------- MODULE SignedLinks ----------------------------
(***************************************************************************)
(* The public answer of a manager through a signed link: peek without      *)
(* consuming, then one transaction that claims the link and writes the     *)
(* event, the tracking entry, the correction and the acknowledgment.       *)
(*                                                                         *)
(* Statements of a transaction run at READ COMMITTED. What they write is   *)
(* visible at commit; the row locks they take are held until then: claim   *)
(* locks the link's row, the event's display code locks the EVT row of     *)
(* IdentifierCounter. All links are for one manager, so one tracking       *)
(* entry, and those in IssueLinks for one issue, whose acknowledgment and  *)
(* correction the auditors write as well.                                  *)
(*                                                                         *)
(* Sources: apps/api/src/modules/signed-links/signed-link.service.ts,      *)
(* public-response.service.ts, issues/issues.service.ts                    *)
(***************************************************************************)
EXTENDS Sequences, Integers, TLAPS

CONSTANTS
  Links,           \* issued links
  IssueLinks,      \* those issued with an issueKey
  Slots,           \* request slots
  None,
  UpdaterNullable, \* whether updatedById of IssueAcknowledgment and
                   \* IssueCorrection may be null; the migrations say NOT NULL
  Faults           \* whether a transaction may fail for another reason

Actions == {"acknowledge", "correct", "dispute"}

Statuses == {"acknowledged", "corrected", "needs_review"}

ASSUME LinksAssumption ==
  /\ IssueLinks \subseteq Links
  /\ UpdaterNullable \in BOOLEAN /\ Faults \in BOOLEAN
  /\ None \notin Slots /\ None \notin Links /\ None \notin Statuses

\* Mutant: a dispute is stored under its own name, which is no status.
StatusOfRaw(action) == CASE action = "acknowledge" -> "acknowledged"
                         [] action = "correct"     -> "corrected"
                         [] OTHER                  -> "disputed"

StatusOf(action) == CASE action = "acknowledge" -> "acknowledged"
                      [] action = "correct"     -> "corrected"
                      [] OTHER                  -> "needs_review"

VARIABLES
  used,       \* links whose usedAt is set
  expired,    \* links past their expiresAt
  log,        \* activity rows signed_link.<action>, oldest first
  tracked,    \* whether the manager has a tracking entry in the process
  entry,      \* stage and resolved of that entry
  ack,        \* status of the issue's acknowledgment row, None without one
  correction, \* whether the issue has a correction row
  call,       \* per slot, the submit in progress
  evtLock     \* the slot whose transaction holds the EVT counter row

vars == <<used, expired, log, tracked, entry, ack, correction, call, evtLock>>

\* Where a submit is: waiting to claim; in its transaction, about to look for
\* the tracking entry, about to record the event, about to look for the
\* acknowledgment and the correction, or about to write them and commit.
InTx == {"claimed", "found", "events", "ready"}

\* sawEntry, sawResolved, sawAck, sawCorrection: what its SELECTs returned.
\* The correction it saw may be deleted before it is updated by its id.
Call == [pc : {"idle", "peeked"} \cup InTx, link : Links \cup {None},
         action : Actions, sawEntry : BOOLEAN, sawResolved : BOOLEAN,
         sawAck : BOOLEAN, sawCorrection : {"absent", "present", "deleted"}]

NoCall == [pc |-> "idle", link |-> None, action |-> "acknowledge",
           sawEntry |-> FALSE, sawResolved |-> FALSE, sawAck |-> FALSE,
           sawCorrection |-> "absent"]

Answers == [link : Links, action : Actions]

TypeOK ==
  /\ used \subseteq Links /\ expired \subseteq Links
  /\ log \in Seq(Answers)
  /\ tracked \in BOOLEAN /\ correction \in BOOLEAN
  /\ entry \in [stage : {"NEW", "RESPONDED", "RESOLVED"}, resolved : BOOLEAN]
  /\ ack \in Statuses \cup {None}
  /\ call \in [Slots -> Call]
  /\ evtLock \in Slots \cup {None}

Init ==
  /\ used = {} /\ expired = {} /\ log = <<>>
  /\ tracked \in BOOLEAN
  /\ entry = [stage |-> "NEW", resolved |-> FALSE]
  /\ ack = None /\ correction = FALSE
  /\ call = [s \in Slots |-> NoCall]
  /\ evtLock = None

-----------------------------------------------------------------------------
LinkLocked(l) == \E s \in Slots : call[s].pc \in InTx /\ call[s].link = l

\* Mutant: the counter is taken outside the transaction and never released.
EndKeepsLock(s) ==
  /\ call' = [call EXCEPT ![s] = NoCall]
  /\ UNCHANGED evtLock

\* A transaction ends: its slot is idle and its locks are released.
End(s) ==
  /\ call' = [call EXCEPT ![s] = NoCall]
  /\ evtLock' = IF evtLock = s THEN None ELSE evtLock

\* peek, then assertActionAllowed, outside any transaction.
Peek(s, l, action) ==
  /\ call[s].pc = "idle"
  /\ l \notin used /\ l \notin expired
  /\ call' = [call EXCEPT ![s] = [NoCall EXCEPT !.pc = "peeked", !.link = l,
                                                !.action = action]]
  /\ UNCHANGED <<used, expired, log, tracked, entry, ack, correction, evtLock>>

\* Mutant: the UPDATE does not look at usedAt.
ClaimUsed(s) ==
  /\ call[s].pc = "peeked"
  /\ ~LinkLocked(call[s].link)
  /\ call' = [call EXCEPT ![s].pc = IF call[s].link \in IssueLinks
                                      THEN "claimed" ELSE "ready"]
  /\ UNCHANGED <<used, expired, log, tracked, entry, ack, correction, evtLock>>

\* claim: UPDATE ... WHERE usedAt IS NULL. It waits while another transaction
\* holds the row and then looks at what that one left. Expiry is not looked
\* at again.
Claim(s) ==
  /\ call[s].pc = "peeked"
  /\ ~LinkLocked(call[s].link)
  /\ call[s].link \notin used
  /\ call' = [call EXCEPT ![s].pc = IF call[s].link \in IssueLinks
                                      THEN "claimed" ELSE "ready"]
  /\ UNCHANGED <<used, expired, log, tracked, entry, ack, correction, evtLock>>

ClaimLost(s) ==
  /\ call[s].pc = "peeked"
  /\ ~LinkLocked(call[s].link)
  /\ call[s].link \in used
  /\ call' = [call EXCEPT ![s] = NoCall]
  /\ UNCHANGED <<used, expired, log, tracked, entry, ack, correction, evtLock>>

\* findTrackingForIssue.
FindTracking(s) ==
  /\ call[s].pc = "claimed"
  /\ call' = [call EXCEPT ![s].pc = IF tracked THEN "found" ELSE "events",
                          ![s].sawEntry = tracked,
                          ![s].sawResolved = entry.resolved]
  /\ UNCHANGED <<used, expired, log, tracked, entry, ack, correction, evtLock>>

\* The event's display code takes the counter row; the entry is updated.
RecordEvent(s) ==
  /\ call[s].pc = "found"
  /\ evtLock = None
  /\ evtLock' = s
  /\ call' = [call EXCEPT ![s].pc = "events"]
  /\ UNCHANGED <<used, expired, log, tracked, entry, ack, correction>>

\* The findFirst of upsertCorrection and upsertAcknowledgment.
FindRows(s) ==
  /\ call[s].pc = "events"
  /\ call' = [call EXCEPT ![s].pc = "ready",
                          ![s].sawAck = (ack # None),
                          ![s].sawCorrection = IF correction THEN "present"
                                                             ELSE "absent"]
  /\ UNCHANGED <<used, expired, log, tracked, entry, ack, correction, evtLock>>

\* The database accepts the writes: the null updater of a public write is
\* allowed, no row is inserted twice for the issue, and the correction to
\* update still exists. Acknowledgments are never deleted.
Writable(c) ==
  c.link \in IssueLinks =>
    /\ UpdaterNullable
    /\ ~c.sawAck => ack = None
    /\ c.action = "correct" =>
         \/ c.sawCorrection = "absent" /\ ~correction
         \/ c.sawCorrection = "present"

\* Mutant: a dispute takes the manager's word and resolves the entry.
AnswerDispute(c) ==
  CASE c.sawEntry /\ c.action # "acknowledge" ->
         [stage |-> "RESOLVED", resolved |-> TRUE]
    [] c.sawEntry /\ c.action = "acknowledge" ->
         [stage |-> "RESPONDED", resolved |-> c.sawResolved]
    [] OTHER -> entry

\* The entry's update: a correction resolves it, an acknowledgment keeps the
\* resolved flag that was read with it.
Answer(c) ==
  CASE c.sawEntry /\ c.action = "correct" ->
         [stage |-> "RESOLVED", resolved |-> TRUE]
    [] c.sawEntry /\ c.action = "acknowledge" ->
         [stage |-> "RESPONDED", resolved |-> c.sawResolved]
    [] OTHER -> entry

\* The writes of submit become visible, all of them.
Commit(s) ==
  LET c == call[s] IN
  /\ c.pc = "ready"
  /\ Writable(c)
  /\ used' = used \cup {c.link}
  /\ log' = Append(log, [link |-> c.link, action |-> c.action])
  /\ entry' = Answer(c)
  /\ IF c.link \in IssueLinks
       THEN /\ ack' = StatusOf(c.action)
            /\ correction' = (correction \/ c.action = "correct")
       ELSE UNCHANGED <<ack, correction>>
  /\ End(s)
  /\ UNCHANGED <<expired, tracked>>

\* Mutant: claim runs outside the transaction, and the link stays spent.
RefusedSpends(s) ==
  /\ call[s].pc = "ready"
  /\ ~Writable(call[s])
  /\ used' = used \cup {call[s].link}
  /\ End(s)
  /\ UNCHANGED <<expired, log, tracked, entry, ack, correction>>

\* The database refuses a write and the transaction rolls back.
Refused(s) ==
  /\ call[s].pc = "ready"
  /\ ~Writable(call[s])
  /\ End(s)
  /\ UNCHANGED <<used, expired, log, tracked, entry, ack, correction>>

\* Any other failure, up to the death of the process, rolls back as well.
Fail(s) ==
  /\ Faults
  /\ call[s].pc # "idle"
  /\ End(s)
  /\ UNCHANGED <<used, expired, log, tracked, entry, ack, correction>>

Expire(l) ==
  /\ l \notin expired
  /\ expired' = expired \cup {l}
  /\ UNCHANGED <<used, log, tracked, entry, ack, correction, call, evtLock>>

\* An audit creates the manager's entry (ensureTrackingEntriesExist).
CreateEntry ==
  /\ ~tracked
  /\ tracked' = TRUE
  /\ UNCHANGED <<used, expired, log, entry, ack, correction, call, evtLock>>

\* issues.service.ts: an auditor acknowledges, corrects or clears. Each is a
\* transaction of its own; one that loses a race with another insert or
\* delete fails and changes nothing.
SaveAcknowledgment(status) ==
  /\ ack' = status
  /\ UNCHANGED <<used, expired, log, tracked, entry, correction, call, evtLock>>

SaveCorrection ==
  /\ correction' = TRUE
  /\ UNCHANGED <<used, expired, log, tracked, entry, ack, call, evtLock>>

\* The submits that saw the row will update it by its id and fail.
ClearCorrection ==
  /\ correction
  /\ correction' = FALSE
  /\ call' = [s \in Slots |->
                IF call[s].sawCorrection = "present"
                  THEN [call[s] EXCEPT !.sawCorrection = "deleted"]
                  ELSE call[s]]
  /\ UNCHANGED <<used, expired, log, tracked, entry, ack, evtLock>>

Serve(s) == \/ Claim(s) \/ ClaimLost(s) \/ FindTracking(s) \/ RecordEvent(s)
            \/ FindRows(s) \/ Commit(s) \/ Refused(s)

Next ==
  \/ \E s \in Slots, l \in Links, action \in Actions : Peek(s, l, action)
  \/ \E s \in Slots : Serve(s) \/ Fail(s)
  \/ \E l \in Links : Expire(l)
  \/ CreateEntry
  \/ \E status \in Statuses : SaveAcknowledgment(status)
  \/ SaveCorrection \/ ClearCorrection

Spec == Init /\ [][Next]_vars

\* A request that was accepted is served: the event loop and the database
\* keep running, and a lock is granted in turn to whoever waits for it.
FairSpec == Spec /\ \A s \in Slots : SF_vars(Serve(s))

-----------------------------------------------------------------------------
(* Properties *)

\* Two tabs, a replay or a retry never record two answers of one link
\* (signed-link.service.ts:157-169).
SingleUse ==
  \A i, j \in 1..Len(log) : log[i].link = log[j].link => i = j

\* A link is spent exactly when its answer is on record: a failed write does
\* not consume the token (signed-link.service.ts:145-149).
SpentIffRecorded ==
  \A l \in Links : l \in used <=> \E i \in 1..Len(log) : log[i].link = l

\* While a transaction holds a link nobody else does.
LinkMutex ==
  \A s, t \in Slots :
    /\ call[s].pc \in InTx /\ call[t].pc \in InTx
    /\ call[s].link = call[t].link
    => s = t

\* No submit waits for ever: link row before counter row is the only order
\* in which the two locks are taken.
SubmitEnds == \A s \in Slots : call[s].pc = "peeked" ~> call[s].pc = "idle"

\* public-response.service.ts:67: a submit consumes the link and writes the
\* response, so one that holds its link gets it recorded.
AnswerIsRecorded ==
  \A s \in Slots, l \in Links :
    (call[s].pc = "ready" /\ call[s].link = l) ~> l \in used

\* The machinery implements the one-shot link: an answer, its entry, its
\* acknowledgment and its correction appear together or not at all
\* (public-response.service.ts:75-130).
OneShot == INSTANCE OneShotLink
Implements == OneShot!Spec
-----------------------------------------------------------------------------
(* Proofs, for every set of links and slots and both schemas: types, one   *)
(* answer per link, a link spent exactly when its answer is on record, and *)
(* that the machinery implements the one-shot link.                        *)

\* A submit that runs holds one of the links.
HoldsLink == \A s \in Slots : call[s].pc # "idle" => call[s].link \in Links

\* The link a transaction has claimed is not yet spent for anybody else.
ClaimedUnspent == \A s \in Slots : call[s].pc \in InTx => call[s].link \notin used

\* Only an answer about the issue looks for the tracking entry.
EntryForIssue ==
  \A s \in Slots :
    call[s].pc = "claimed" \/ call[s].sawEntry => call[s].link \in IssueLinks

-----------------------------------------------------------------------------
(* Types *)

LEMMA NoCallType == NoCall \in Call
BY DEF NoCall, Call, Actions

\* Field updates of a call stay calls.
LEMMA CallFields ==
  ASSUME NEW c \in Call
  PROVE  /\ \A pc \in {"idle", "peeked"} \cup InTx : [c EXCEPT !.pc = pc] \in Call
         /\ \A b \in BOOLEAN : [c EXCEPT !.sawEntry = b] \in Call
         /\ \A b \in BOOLEAN : [c EXCEPT !.sawResolved = b] \in Call
         /\ \A b \in BOOLEAN : [c EXCEPT !.sawAck = b] \in Call
         /\ \A x \in {"absent", "present", "deleted"} :
              [c EXCEPT !.sawCorrection = x] \in Call
BY DEF Call

LEMMA EndType ==
  ASSUME TypeOK, LinksAssumption, NEW s \in Slots, End(s)
  PROVE  call' \in [Slots -> Call] /\ evtLock' \in Slots \cup {None}
BY NoCallType DEF TypeOK, End

LEMMA InitType == ASSUME Init, LinksAssumption PROVE TypeOK /\ HoldsLink
<1> USE NoCallType
<1>1. log \in Seq(Answers)
  BY DEF Init
<1>2. \A s \in Slots : call[s].pc = "idle"
  BY DEF Init, NoCall
<1> QED
  BY <1>1, <1>2 DEF Init, TypeOK, HoldsLink

LEMMA NextType ==
  ASSUME TypeOK, HoldsLink, LinksAssumption, [Next]_vars
  PROVE  TypeOK' /\ HoldsLink'
<1> USE DEF TypeOK, HoldsLink
<1>1. ASSUME NEW s \in Slots, NEW l \in Links, NEW action \in Actions,
             Peek(s, l, action)
      PROVE  TypeOK' /\ HoldsLink'
  <2>1. [NoCall EXCEPT !.pc = "peeked", !.link = l, !.action = action] \in Call
    BY <1>1 DEF NoCall, Call
  <2>2. [NoCall EXCEPT !.pc = "peeked", !.link = l, !.action = action].link = l
    BY DEF NoCall
  <2> QED BY <1>1, <2>1, <2>2 DEF Peek
<1>2. ASSUME NEW s \in Slots, Serve(s) \/ Fail(s) PROVE TypeOK' /\ HoldsLink'
  <2>1. call[s] \in Call
    BY <1>2
  <2>2. CASE Claim(s)
    <3>1. [call[s] EXCEPT !.pc = IF call[s].link \in IssueLinks
                                   THEN "claimed" ELSE "ready"] \in Call
      BY <2>1, CallFields DEF InTx
    <3>2. call[s].link \in Links
      BY <2>2 DEF Claim
    <3> QED BY <2>1, <2>2, <3>1, <3>2 DEF Claim, Call
  <2>3. CASE ClaimLost(s)
    BY <2>3, NoCallType DEF ClaimLost, NoCall
  <2>4. CASE FindTracking(s)
    <3> DEFINE pc == IF tracked THEN "found" ELSE "events"
               c1 == [call[s] EXCEPT !.pc = pc]
               c2 == [c1 EXCEPT !.sawEntry = tracked]
               c3 == [c2 EXCEPT !.sawResolved = entry.resolved]
    <3>1. c1 \in Call
      BY <2>1, CallFields DEF InTx
    <3>2. c2 \in Call
      BY <3>1, CallFields
    <3>3. c3 \in Call
      BY <3>2, CallFields
    <3>4. call' = [call EXCEPT ![s] = c3]
      BY <2>4, <2>1 DEF FindTracking, Call
    <3>5. c3.link \in Links
      BY <2>4, <2>1 DEF FindTracking, Call
    <3> HIDE DEF c3
    <3>6. call' \in [Slots -> Call]
      BY <3>3, <3>4
    <3>7. HoldsLink'
      BY <3>4, <3>5
    <3> QED BY <2>4, <3>6, <3>7 DEF FindTracking
  <2>5. CASE RecordEvent(s)
    <3>1. [call[s] EXCEPT !.pc = "events"] \in Call
      BY <2>1, CallFields DEF InTx
    <3> QED BY <2>1, <2>5, <3>1 DEF RecordEvent, Call
  <2>6. CASE FindRows(s)
    <3> DEFINE c1 == [call[s] EXCEPT !.pc = "ready"]
               c2 == [c1 EXCEPT !.sawAck = (ack # None)]
               c3 == [c2 EXCEPT !.sawCorrection = IF correction THEN "present"
                                                                ELSE "absent"]
    <3>1. c1 \in Call
      BY <2>1, CallFields DEF InTx
    <3>2. c2 \in Call
      BY <3>1, CallFields
    <3>3. c3 \in Call
      BY <3>2, CallFields
    <3>4. call' = [call EXCEPT ![s] = c3]
      BY <2>6, <2>1 DEF FindRows, Call
    <3>5. c3.link \in Links
      BY <2>6, <2>1 DEF FindRows, Call
    <3> HIDE DEF c3
    <3>6. call' \in [Slots -> Call]
      BY <3>3, <3>4
    <3>7. HoldsLink'
      BY <3>4, <3>5
    <3> QED BY <2>6, <3>6, <3>7 DEF FindRows
  <2>7. CASE Commit(s)
    <3> DEFINE c == call[s]
    <3>1. c.link \in Links /\ c.action \in Actions /\ c.sawResolved \in BOOLEAN
      BY <2>7, <2>1 DEF Commit, Call
    <3>2. used' \subseteq Links /\ expired' \subseteq Links /\ tracked' \in BOOLEAN
      BY <2>7, <3>1 DEF Commit
    <3>3. log' \in Seq(Answers)
      BY <2>7, <3>1 DEF Commit, Answers
    <3>4. entry' \in [stage : {"NEW", "RESPONDED", "RESOLVED"}, resolved : BOOLEAN]
      BY <2>7, <3>1 DEF Commit, Answer
    <3>5. ack' \in Statuses \cup {None} /\ correction' \in BOOLEAN
      BY <2>7 DEF Commit, StatusOf, Statuses
    <3>6. call' \in [Slots -> Call] /\ evtLock' \in Slots \cup {None}
      BY <2>7, EndType DEF Commit
    <3>7. HoldsLink'
      BY <2>7 DEF Commit, End, NoCall
    <3> QED BY <3>2, <3>3, <3>4, <3>5, <3>6, <3>7
  <2>8. CASE Refused(s)
    <3>1. HoldsLink'
      BY <2>8 DEF Refused, End, NoCall
    <3> QED BY <2>8, <3>1, EndType DEF Refused
  <2>9. CASE Fail(s)
    <3>1. HoldsLink'
      BY <2>9 DEF Fail, End, NoCall
    <3> QED BY <2>9, <3>1, EndType DEF Fail
  <2> QED BY <1>2, <2>2, <2>3, <2>4, <2>5, <2>6, <2>7, <2>8, <2>9 DEF Serve
<1>3. ASSUME NEW l \in Links, Expire(l) PROVE TypeOK' /\ HoldsLink'
  BY <1>3 DEF Expire
<1>4. CASE CreateEntry
  BY <1>4 DEF CreateEntry
<1>5. ASSUME NEW status \in Statuses, SaveAcknowledgment(status)
      PROVE  TypeOK' /\ HoldsLink'
  BY <1>5 DEF SaveAcknowledgment
<1>6. CASE SaveCorrection
  BY <1>6 DEF SaveCorrection
<1>7. CASE ClearCorrection
  <2>1. call' \in [Slots -> Call]
    BY <1>7, CallFields DEF ClearCorrection
  <2>2. \A s \in Slots : call'[s].pc = call[s].pc /\ call'[s].link = call[s].link
    BY <1>7 DEF ClearCorrection, Call
  <2> QED BY <1>7, <2>1, <2>2 DEF ClearCorrection
<1>8. CASE UNCHANGED vars
  BY <1>8 DEF vars
<1> QED BY <1>1, <1>2, <1>3, <1>4, <1>5, <1>6, <1>7, <1>8 DEF Next

\* Every variable keeps its type, and a submit that runs holds a link.
THEOREM TypeCorrect == Spec => [](TypeOK /\ HoldsLink)
<1>1. Init => TypeOK /\ HoldsLink
  BY InitType, LinksAssumption
<1>2. (TypeOK /\ HoldsLink) /\ [Next]_vars => (TypeOK /\ HoldsLink)'
  BY NextType, LinksAssumption
<1> QED BY <1>1, <1>2, PTL DEF Spec

-----------------------------------------------------------------------------
(* One answer per link *)

\* LinkMutex and ClaimedUnspent make SpentIffRecorded and SingleUse
\* inductive: whoever commits is alone with a link that is on no record.
SafeInv == LinkMutex /\ ClaimedUnspent /\ SpentIffRecorded /\ SingleUse

\* A step that records nothing and lets no submit into its transaction.
LEMMA QuietStep ==
  ASSUME SafeInv, UNCHANGED <<used, log>>,
         \A s \in Slots : call'[s].pc \in InTx =>
           call[s].pc \in InTx /\ call'[s].link = call[s].link
  PROVE  SafeInv'
<1>1. LinkMutex'
  BY DEF SafeInv, LinkMutex
<1>2. ClaimedUnspent'
  BY DEF SafeInv, ClaimedUnspent
<1>3. SpentIffRecorded' /\ SingleUse'
  BY DEF SafeInv, SpentIffRecorded, SingleUse
<1> QED BY <1>1, <1>2, <1>3 DEF SafeInv

LEMMA EndLeaves ==
  ASSUME TypeOK, NEW s \in Slots, End(s), NEW t \in Slots
  PROVE  call'[t].pc \in InTx =>
           t # s /\ call[t].pc \in InTx /\ call'[t].link = call[t].link
BY DEF TypeOK, End, NoCall, InTx

LEMMA ClaimSafe ==
  ASSUME TypeOK, SafeInv, NEW s \in Slots, Claim(s) PROVE SafeInv'
<1>1. \A t \in Slots : call'[t].link = call[t].link
  BY DEF Claim, TypeOK, Call
<1>2. \A t \in Slots : t # s => call'[t].pc = call[t].pc
  BY DEF Claim, TypeOK
<1>3. \A t \in Slots : call[t].pc \in InTx => call[t].link # call[s].link
  BY DEF Claim, LinkLocked
<1>4. LinkMutex'
  BY <1>1, <1>2, <1>3 DEF SafeInv, LinkMutex
<1>5. ClaimedUnspent'
  BY <1>1, <1>2 DEF SafeInv, ClaimedUnspent, Claim
<1>6. SpentIffRecorded' /\ SingleUse'
  BY DEF SafeInv, SpentIffRecorded, SingleUse, Claim
<1> QED BY <1>4, <1>5, <1>6 DEF SafeInv

LEMMA CommitSafe ==
  ASSUME TypeOK, HoldsLink, SafeInv, NEW s \in Slots, Commit(s) PROVE SafeInv'
<1> DEFINE l == call[s].link
           a == [link |-> l, action |-> call[s].action]
<1>1. /\ used' = used \cup {l} /\ log' = Append(log, a) /\ End(s)
      /\ call[s].pc = "ready" /\ l \in Links /\ l \notin used
  BY DEF Commit, HoldsLink, SafeInv, ClaimedUnspent, InTx
<1>2. /\ Len(log') = Len(log) + 1 /\ Len(log) \in Nat
      /\ \A i \in 1..Len(log) : log'[i] = log[i]
      /\ log'[Len(log) + 1] = a
  <2>1. a \in Answers
    BY <1>1 DEF Answers, TypeOK, Call
  <2> HIDE DEF a
  <2> QED BY <1>1, <2>1 DEF TypeOK
<1>3. ~\E i \in 1..Len(log) : log[i].link = l
  BY <1>1 DEF SafeInv, SpentIffRecorded
<1>4. LinkMutex'
  BY <1>1, EndLeaves DEF SafeInv, LinkMutex
<1>5. ClaimedUnspent'
  <2> SUFFICES ASSUME NEW t \in Slots, call'[t].pc \in InTx
               PROVE  call'[t].link \notin used'
    BY DEF ClaimedUnspent
  <2>1. t # s /\ call[t].pc \in InTx /\ call'[t].link = call[t].link
    BY <1>1, EndLeaves
  <2>2. call[t].link # l
    BY <1>1, <2>1 DEF SafeInv, LinkMutex, InTx
  <2> QED BY <1>1, <2>1, <2>2 DEF SafeInv, ClaimedUnspent
<1>6. SpentIffRecorded'
  <2> SUFFICES ASSUME NEW m \in Links
               PROVE  m \in used' <=> \E i \in 1..Len(log') : log'[i].link = m
    BY DEF SpentIffRecorded
  <2>1. m \in used <=> \E i \in 1..Len(log) : log[i].link = m
    BY DEF SafeInv, SpentIffRecorded
  <2>2. (\E i \in 1..Len(log') : log'[i].link = m)
          <=> (\E i \in 1..Len(log) : log[i].link = m) \/ m = l
    BY <1>2
  <2> QED BY <1>1, <2>1, <2>2
<1>7. SingleUse'
  <2> SUFFICES ASSUME NEW i \in 1..Len(log'), NEW j \in 1..Len(log'),
                      log'[i].link = log'[j].link
               PROVE  i = j
    BY DEF SingleUse
  <2>1. CASE i \in 1..Len(log) /\ j \in 1..Len(log)
    BY <1>2, <2>1 DEF SafeInv, SingleUse
  <2>2. CASE i = Len(log) + 1 \/ j = Len(log) + 1
    BY <1>2, <1>3, <2>2
  <2> QED BY <1>2, <2>1, <2>2
<1> QED BY <1>4, <1>5, <1>6, <1>7 DEF SafeInv

LEMMA NextSafe ==
  ASSUME TypeOK, HoldsLink, SafeInv, [Next]_vars PROVE SafeInv'
<1>1. ASSUME NEW s \in Slots, NEW l \in Links, NEW action \in Actions,
             Peek(s, l, action)
      PROVE  SafeInv'
  BY <1>1, QuietStep DEF Peek, TypeOK, InTx, NoCall
<1>2. ASSUME NEW s \in Slots, Serve(s) \/ Fail(s) PROVE SafeInv'
  <2>1. CASE Claim(s)
    BY <2>1, ClaimSafe
  <2>2. CASE Commit(s)
    BY <2>2, CommitSafe
  <2>3. CASE ClaimLost(s)
    BY <2>3, QuietStep DEF ClaimLost, TypeOK, InTx, NoCall
  <2>4. CASE FindTracking(s) \/ RecordEvent(s) \/ FindRows(s)
    <3>1. \A t \in Slots : t # s => call'[t] = call[t]
      BY <2>4 DEF FindTracking, RecordEvent, FindRows, TypeOK
    <3>2. call[s].pc \in InTx /\ call'[s].link = call[s].link
      BY <2>4 DEF FindTracking, RecordEvent, FindRows, TypeOK, Call, InTx
    <3> QED BY <2>4, <3>1, <3>2, QuietStep
            DEF FindTracking, RecordEvent, FindRows
  <2>5. CASE Refused(s) \/ Fail(s)
    BY <2>5, QuietStep, EndLeaves DEF Refused, Fail
  <2> QED BY <1>2, <2>1, <2>2, <2>3, <2>4, <2>5 DEF Serve
<1>3. ASSUME NEW l \in Links, Expire(l) PROVE SafeInv'
  BY <1>3, QuietStep DEF Expire
<1>4. CASE CreateEntry
  BY <1>4, QuietStep DEF CreateEntry
<1>5. ASSUME NEW status \in Statuses, SaveAcknowledgment(status) PROVE SafeInv'
  BY <1>5, QuietStep DEF SaveAcknowledgment
<1>6. CASE SaveCorrection
  BY <1>6, QuietStep DEF SaveCorrection
<1>7. CASE ClearCorrection
  <2>1. \A s \in Slots : call'[s].pc = call[s].pc /\ call'[s].link = call[s].link
    BY <1>7 DEF ClearCorrection, TypeOK, Call
  <2> QED BY <1>7, <2>1, QuietStep DEF ClearCorrection
<1>8. CASE UNCHANGED vars
  BY <1>8, QuietStep DEF vars
<1> QED BY <1>1, <1>2, <1>3, <1>4, <1>5, <1>6, <1>7, <1>8 DEF Next

LEMMA Safe == Spec => []SafeInv
<1>1. Init => SafeInv
  BY DEF Init, SafeInv, LinkMutex, ClaimedUnspent, SpentIffRecorded, SingleUse,
         NoCall, InTx
<1>2. TypeOK /\ HoldsLink /\ SafeInv /\ [Next]_vars => SafeInv'
  BY NextSafe
<1> QED BY <1>1, <1>2, TypeCorrect, PTL DEF Spec

\* No link ever has two answers on record (signed-link.service.ts:157-169).
THEOREM OneAnswerPerLink == Spec => []SingleUse
<1>1. SafeInv => SingleUse
  BY DEF SafeInv
<1> QED BY <1>1, Safe, PTL

\* A failed write consumes no link and a recorded answer always does
\* (signed-link.service.ts:142-149).
THEOREM SpentExactlyWhenRecorded == Spec => []SpentIffRecorded
<1>1. SafeInv => SpentIffRecorded
  BY DEF SafeInv
<1> QED BY <1>1, Safe, PTL

-----------------------------------------------------------------------------
(* Refinement *)

LEMMA InitEntry == ASSUME Init PROVE EntryForIssue
BY DEF Init, NoCall, EntryForIssue

LEMMA EndEntry ==
  ASSUME TypeOK, EntryForIssue, NEW s \in Slots, End(s) PROVE EntryForIssue'
BY DEF TypeOK, EntryForIssue, End, NoCall

LEMMA NextEntry ==
  ASSUME TypeOK, EntryForIssue, [Next]_vars PROVE EntryForIssue'
<1> USE DEF EntryForIssue
<1>1. ASSUME NEW s \in Slots, NEW l \in Links, NEW action \in Actions,
             Peek(s, l, action)
      PROVE  EntryForIssue'
  BY <1>1 DEF Peek, TypeOK, NoCall
<1>2. ASSUME NEW s \in Slots, Serve(s) \/ Fail(s) PROVE EntryForIssue'
  <2>1. CASE Claim(s)
    BY <2>1 DEF Claim, TypeOK, Call
  <2>2. CASE ClaimLost(s)
    BY <2>2 DEF ClaimLost, TypeOK, NoCall
  <2>3. CASE FindTracking(s)
    <3>1. \A t \in Slots : t # s => call'[t] = call[t]
      BY <2>3 DEF FindTracking, TypeOK
    <3>2. call[s].pc = "claimed" /\ call'[s].link = call[s].link
      BY <2>3 DEF FindTracking, TypeOK, Call
    <3> QED BY <3>1, <3>2
  <2>4. CASE RecordEvent(s)
    BY <2>4 DEF RecordEvent, TypeOK, Call
  <2>5. CASE FindRows(s)
    <3>1. \A t \in Slots : t # s => call'[t] = call[t]
      BY <2>5 DEF FindRows, TypeOK
    <3>2. /\ call'[s].pc = "ready" /\ call'[s].link = call[s].link
          /\ call'[s].sawEntry = call[s].sawEntry
      BY <2>5 DEF FindRows, TypeOK, Call
    <3> QED BY <3>1, <3>2
  <2>6. CASE Commit(s) \/ Refused(s) \/ Fail(s)
    BY <2>6, EndEntry DEF Commit, Refused, Fail
  <2> QED BY <1>2, <2>1, <2>2, <2>3, <2>4, <2>5, <2>6 DEF Serve
<1>3. CASE ClearCorrection
  <2>1. \A s \in Slots :
          /\ call'[s].pc = call[s].pc /\ call'[s].link = call[s].link
          /\ call'[s].sawEntry = call[s].sawEntry
    BY <1>3 DEF ClearCorrection, TypeOK, Call
  <2> QED BY <2>1
<1>4. CASE UNCHANGED call
  BY <1>4
<1> QED BY <1>1, <1>2, <1>3, <1>4 DEF Next, Expire, CreateEntry,
        SaveAcknowledgment, SaveCorrection, vars

LEMMA AnswerAllowed ==
  ASSUME TypeOK, NEW s \in Slots, Answer(call[s]) # entry
  PROVE  call[s].sawEntry /\ Answer(call[s]) \in OneShot!EntryAfter(call[s].action)
<1>1. call[s].sawResolved \in BOOLEAN
  BY DEF TypeOK, Call
<1> QED BY <1>1 DEF Answer, OneShot!EntryAfter

LEMMA CommitIsAnswer ==
  ASSUME TypeOK, HoldsLink, SafeInv, EntryForIssue, NEW s \in Slots, Commit(s)
  PROVE  OneShot!Answer(call[s].link, call[s].action)
<1>1. call[s].link \in Links /\ call[s].link \notin used
  BY DEF Commit, HoldsLink, SafeInv, ClaimedUnspent, InTx
<1>2. ~OneShot!Answered(call[s].link)
  BY <1>1 DEF SafeInv, SpentIffRecorded, OneShot!Answered
<1>3. OneShot!StatusOf(call[s].action) = StatusOf(call[s].action)
  BY DEF OneShot!StatusOf, StatusOf
<1>4. entry' = Answer(call[s])
  BY DEF Commit
<1>5. call[s].link \in IssueLinks
        => entry' \in OneShot!EntryAfter(call[s].action) \cup {entry}
  BY <1>4, AnswerAllowed
<1>6. call[s].link \notin IssueLinks => entry' = entry
  BY <1>4, AnswerAllowed DEF EntryForIssue
<1> QED BY <1>2, <1>3, <1>5, <1>6 DEF Commit, OneShot!Answer

\* Every step of the machinery is an answer, an auditor's write or invisible.
THEOREM ImplementsOneShot == Spec => Implements
<1>1. Init => OneShot!Init /\ EntryForIssue
  BY InitEntry DEF Init, OneShot!Init
<1>2. TypeOK /\ EntryForIssue /\ [Next]_vars => EntryForIssue'
  BY NextEntry
<1>3. TypeOK /\ HoldsLink /\ SafeInv /\ EntryForIssue /\ [Next]_vars
        => [OneShot!Next]_OneShot!vars
  <2> SUFFICES ASSUME TypeOK, HoldsLink, SafeInv, EntryForIssue, [Next]_vars
               PROVE  OneShot!Next \/ UNCHANGED <<log, ack, correction, entry>>
    BY DEF OneShot!vars
  <2>1. ASSUME NEW s \in Slots, Commit(s) PROVE OneShot!Next
    <3>1. call[s].link \in Links /\ call[s].action \in OneShot!Actions
      BY <2>1 DEF Commit, HoldsLink, TypeOK, Call, Actions, OneShot!Actions
    <3> QED BY <2>1, <3>1, CommitIsAnswer DEF OneShot!Next
  <2>2. ASSUME NEW s \in Slots, Serve(s) \/ Fail(s)
        PROVE  OneShot!Next \/ UNCHANGED <<log, ack, correction, entry>>
    BY <2>1, <2>2 DEF Serve, Fail, Claim, ClaimLost, FindTracking, RecordEvent,
                      FindRows, Refused
  <2>3. ASSUME NEW status \in Statuses, SaveAcknowledgment(status)
        PROVE  OneShot!Next
    BY <2>3 DEF SaveAcknowledgment, OneShot!Next, OneShot!Audit, Statuses,
                OneShot!Statuses
  <2>4. CASE SaveCorrection \/ ClearCorrection
    BY <2>4 DEF SaveCorrection, ClearCorrection, OneShot!Next, OneShot!Audit
  <2> QED BY <2>2, <2>3, <2>4 DEF Next, Peek, Expire, CreateEntry, vars
<1> QED BY <1>1, <1>2, <1>3, TypeCorrect, Safe, PTL
        DEF Spec, Implements, OneShot!Spec
=============================================================================
