--------------------------- MODULE TrackingLadder ---------------------------
(***************************************************************************)
(* One tracking entry (a manager to be chased in one process) and every    *)
(* handler of the API that writes its row, running concurrently.           *)
(*                                                                         *)
(* The database runs at READ COMMITTED and no handler takes a row lock or  *)
(* compares a version before it writes, so a handler is two atomic steps:  *)
(* a read that takes what it needs from the committed row, and, after any  *)
(* number of awaits, a commit that writes values computed from that read.  *)
(* Increments are evaluated by the database on the committed row. Whether  *)
(* the read is inside the transaction (upsert, transition, the SLA sweep)  *)
(* or before it makes no difference at this isolation level.               *)
(*                                                                         *)
(* A request slot holds the call it is serving: one slot is a server that  *)
(* serves one request at a time, two slots let two requests overlap.       *)
(*                                                                         *)
(* Sources: apps/api/src/modules/tracking/**, escalations/sla-engine,      *)
(* signed-links/public-response (its effect on the entry).                 *)
(***************************************************************************)
EXTENDS EscalationStages, FiniteSets, TLC, TLAPS

CONSTANTS
  Users,        \* auditors who call the API
  Admins,       \* the ones whose role is 'admin'
  Slots,        \* request slots
  Sweeps,       \* runs of the SLA timer that may be in progress at once
  Handlers,     \* the endpoints in use, a subset of Ops
  None,         \* null
  UpdaterNullable, \* whether an acknowledgment or correction may be written
                \* without a user; the migrations say NOT NULL
  Overrides,    \* stages a PATCH or an upsert may carry
  Deadlines,    \* due dates the composer offers
  LockTicks,    \* LOCK_MS
  SlaTicks,     \* process.slaInitialHours
  L2Ticks,      \* policy.l2DelayHours
  SnoozeTicks,  \* the days of a snooze
  MaxNow,       \* bound on the clock
  MaxDue,       \* bound on due dates
  MaxContacts   \* bound on contacts per channel and cycle

\* Calls with a read step and a later commit, and calls that use nothing
\* they read and so take effect in one step.
TwoStepOps == {"patchEntry", "transition", "saveDraft", "discardDraft",
               "send", "verify", "revertVerification", "snooze",
               "publicResponse"}
OneStepOps == {"addEvent", "forceReescalate", "reconcile"}
Ops        == TwoStepOps \cup OneStepOps

Channels == {"outlook", "teams"}
Rungs    == {"L1", "L2"}

ASSUME ConstantsAssumption ==
  /\ Admins \subseteq Users
  /\ Handlers \subseteq Ops
  /\ Overrides \subseteq Stages
  /\ Deadlines \subseteq Nat
  /\ LockTicks \in Nat /\ SlaTicks \in Nat /\ L2Ticks \in Nat
  /\ SnoozeTicks \in Nat \ {0}
  /\ MaxNow \in Nat /\ MaxDue \in Nat /\ MaxContacts \in Nat
  /\ None \notin Nat /\ None \notin Users
  /\ UpdaterNullable \in BOOLEAN

VARIABLES
  row,      \* the tracking_entry row
  queued,   \* per rung, the sla_draft_queued events of the entry
  contacts, \* per channel, the contact events since the last cycle_reset
  now,      \* the clock the API and the timer read
  req,      \* what each slot has read and is about to commit
  sweep     \* what each SLA run has read and is about to commit

vars == <<row, queued, contacts, now, req, sweep>>

-----------------------------------------------------------------------------
(* Types *)

Time == Nat \cup {None}
User == Users \cup {None}

Row == [stage : Stages, level : Levels, resolved : BOOLEAN,
        verifiedBy : User,          \* set and cleared with verifiedAt
        outlook : Nat, teams : Nat, slaDue : Time,
        draft : User,               \* who wrote composeDraft, None when null
        lockUser : User, lockExp : Time]

\* A call in progress: the operation, its caller, and the values it will
\* write. Fields an operation does not use keep their value in NoRequest.
Request == [op : TwoStepOps \cup {"idle"}, user : User, stage : Stages,
            level : Levels, resolved : BOOLEAN, due : Time,
            channel : Channels]

NoRequest == [op |-> "idle", user |-> None, stage |-> "NEW", level |-> 0,
              resolved |-> FALSE, due |-> None, channel |-> "outlook"]

\* A run of enforce(): idle; scanned, with the entry among its candidates;
\* or read, inside the transaction of handleEntry, about to queue a rung.
Sweep == [pc : {"idle", "scanned", "read"}, at : Nat, rung : Rungs]

NoSweep == [pc |-> "idle", at |-> 0, rung |-> "L1"]

TypeOK ==
  /\ row \in Row
  /\ queued \in [Rungs -> Nat]
  /\ contacts \in [Channels -> Nat]
  /\ now \in Nat
  /\ req \in [Slots -> Request]
  /\ sweep \in [Sweeps -> Sweep]

-----------------------------------------------------------------------------
(* The entry as it is created: by upsert, by the reconciler after an audit *)

Init ==
  /\ row = [stage |-> "NEW", level |-> 0, resolved |-> FALSE,
            verifiedBy |-> None, outlook |-> 0, teams |-> 0, slaDue |-> None,
            draft |-> None, lockUser |-> None, lockExp |-> None]
  /\ queued = [r \in Rungs |-> 0]
  /\ contacts = [c \in Channels |-> 0]
  /\ now = 0
  /\ req = [s \in Slots |-> NoRequest]
  /\ sweep = [k \in Sweeps |-> NoSweep]

-----------------------------------------------------------------------------
(* Requests: shared shape *)

\* Mutant: the expiry is compared the wrong way round.
LockedAgainstExpired(u) ==
  /\ row.lockExp # None /\ row.lockExp <= now
  /\ row.lockUser # None /\ row.lockUser # u

\* The draft lock another user holds and that has not expired.
LockedAgainst(u) ==
  /\ row.lockExp # None /\ row.lockExp > now
  /\ row.lockUser # None /\ row.lockUser # u

Call(op, u) == [NoRequest EXCEPT !.op = op, !.user = u]

\* Slot s has finished reading and holds call c.
Accept(s, c) ==
  /\ req[s].op = "idle"
  /\ c.op \in Handlers
  /\ req' = [req EXCEPT ![s] = c]
  /\ UNCHANGED <<row, queued, contacts, now, sweep>>

\* Slot s commits an operation op and replaces the row by r.
Commit(s, op, r) ==
  /\ req[s].op = op
  /\ row' = r
  /\ req' = [req EXCEPT ![s] = NoRequest]
  /\ UNCHANGED <<queued, now, sweep>>

\* The call fails between its read and its commit (a validation that comes
\* later, a database error, the process dies) and nothing was written.
Abort(s) ==
  /\ req[s].op # "idle"
  /\ req' = [req EXCEPT ![s] = NoRequest]
  /\ UNCHANGED <<row, queued, contacts, now, sweep>>

\* The contact counter of a channel, advanced with the event that logs it.
Count(r, c) == IF c = "outlook" THEN r.outlook ELSE r.teams
Contacted(r, c) == IF c = "outlook" THEN [r EXCEPT !.outlook = @ + 1]
                                    ELSE [r EXCEPT !.teams = @ + 1]
LogContact(c) == contacts' = [contacts EXCEPT ![c] = @ + 1]

-----------------------------------------------------------------------------
(* tracking.service.ts *)

\* upsert of an existing entry and patchEntry: stage and resolved come from
\* the body or, when omitted, from the row as it was read. No edge is checked.
PatchEntryRead(s, u) ==
  \E stage \in Overrides \cup {row.stage}, resolved \in BOOLEAN :
    Accept(s, [Call("patchEntry", u) EXCEPT !.stage = stage,
                                            !.resolved = resolved])

PatchEntryCommit(s) ==
  /\ Commit(s, "patchEntry", [row EXCEPT !.stage = req[s].stage,
                                         !.resolved = req[s].resolved])
  /\ UNCHANGED contacts

\* addEvent: a contact logged by hand. Channels other than these two only
\* set lastContactAt.
AddEvent(c) ==
  /\ "addEvent" \in Handlers
  /\ Count(row, c) < MaxContacts
  /\ row' = Contacted(row, c)
  /\ LogContact(c)
  /\ UNCHANGED <<queued, now, req, sweep>>

\* transition: the edge is checked on the row read in the transaction. The
\* bulk resolve, acknowledge and re-escalate endpoints are this call with
\* the target RESOLVED, RESPONDED, or ESCALATED_L1 or ESCALATED_L2.
TransitionRead(s, u) ==
  \E to \in Stages :
    /\ CanTransition(row.stage, to)
    /\ Accept(s, [Call("transition", u) EXCEPT
                    !.stage = to,
                    !.level = NextEscalationLevel(to, row.level),
                    !.resolved = NextResolved(to, row.resolved)])

TransitionCommit(s) ==
  /\ Commit(s, "transition", [row EXCEPT !.stage = req[s].stage,
                                         !.level = req[s].level,
                                         !.resolved = req[s].resolved])
  /\ UNCHANGED contacts

-----------------------------------------------------------------------------
(* compose/tracking-compose.service.ts *)

\* Mutant: a renewal adds LOCK_MS to what is left of the lock.
SaveDraftReadExtend(s, u) ==
  /\ ~LockedAgainst(u)
  /\ Accept(s, [Call("saveDraft", u) EXCEPT
                  !.stage = IF row.stage = "NEW" THEN "DRAFTED" ELSE row.stage,
                  !.due = IF row.lockExp # None /\ row.lockExp > now
                            THEN row.lockExp + LockTicks ELSE now + LockTicks])

\* saveDraft: 409 when another user's lock is unexpired; otherwise takes or
\* renews the lock, and a NEW entry becomes DRAFTED.
SaveDraftRead(s, u) ==
  /\ ~LockedAgainst(u)
  /\ Accept(s, [Call("saveDraft", u) EXCEPT
                  !.stage = IF row.stage = "NEW" THEN "DRAFTED" ELSE row.stage,
                  !.due = now + LockTicks])

SaveDraftCommit(s) ==
  /\ Commit(s, "saveDraft", [row EXCEPT !.draft = req[s].user,
                                        !.lockUser = req[s].user,
                                        !.lockExp = req[s].due,
                                        !.stage = req[s].stage])
  /\ UNCHANGED contacts

Undrafted(r) == [r EXCEPT !.draft = None, !.lockUser = None, !.lockExp = None]

\* Mutant: the stage is left as it is.
DiscardDraftReadKeepsStage(s, u) ==
  Accept(s, [Call("discardDraft", u) EXCEPT !.stage = row.stage])

\* discardDraft: any editor may discard; the lock is not consulted.
DiscardDraftRead(s, u) ==
  Accept(s, [Call("discardDraft", u) EXCEPT
               !.stage = IF row.stage = "DRAFTED" THEN "NEW" ELSE row.stage])

DiscardDraftCommit(s) ==
  /\ Commit(s, "discardDraft",
            [Undrafted(row) EXCEPT !.stage = req[s].stage])
  /\ UNCHANGED contacts

Sendable == {"NEW", "DRAFTED", "AWAITING_RESPONSE", "ESCALATED_L1",
             "NO_RESPONSE"}

\* send: the lock and the stage are checked when the entry is loaded, long
\* before the transaction. The due date is the composer's deadline or the
\* SLA window of the process.
SendRead(s, u) ==
  /\ ~LockedAgainst(u)
  /\ row.stage \in Sendable
  /\ \E c \in Channels, due \in Deadlines \cup {now + SlaTicks} :
       Accept(s, [Call("send", u) EXCEPT
                    !.stage = IF c = "teams" THEN "ESCALATED_L1"
                                             ELSE "AWAITING_RESPONSE",
                    !.due = due,
                    !.channel = c])

SendCommit(s) ==
  LET c == req[s].channel IN
  /\ Count(row, c) < MaxContacts
  /\ Commit(s, "send", Contacted([Undrafted(row) EXCEPT
                                    !.stage = req[s].stage,
                                    !.slaDue = req[s].due], c))
  /\ LogContact(c)

\* Mutant: only the Outlook counter is reset.
ForceReescalateOutlook(u) ==
  /\ "forceReescalate" \in Handlers
  /\ u \in Admins
  /\ row' = [row EXCEPT !.outlook = 0, !.stage = "NEW", !.slaDue = None]
  /\ contacts' = [c \in Channels |-> 0]
  /\ UNCHANGED <<queued, now, req, sweep>>

\* forceReescalate (admin): a new cycle. The level, the verification, the
\* draft with its lock and the queued rungs stay as they are.
ForceReescalate(u) ==
  /\ "forceReescalate" \in Handlers
  /\ u \in Admins
  /\ row' = [row EXCEPT !.outlook = 0, !.teams = 0, !.stage = "NEW",
                        !.slaDue = None]
  /\ contacts' = [c \in Channels |-> 0]
  /\ UNCHANGED <<queued, now, req, sweep>>

-----------------------------------------------------------------------------
(* stage/tracking-stage.service.ts *)

\* verify: a no-op when the entry, as loaded, is already verified.
VerifyRead(s, u) ==
  /\ row.verifiedBy = None
  /\ Accept(s, Call("verify", u))

VerifyCommit(s) ==
  /\ Commit(s, "verify", [row EXCEPT !.verifiedBy = req[s].user,
                                     !.stage = "RESOLVED",
                                     !.resolved = TRUE])
  /\ UNCHANGED contacts

\* revertVerification (admin): the stage stays RESOLVED.
RevertVerificationRead(s, u) ==
  /\ u \in Admins
  /\ row.verifiedBy # None
  /\ Accept(s, Call("revertVerification", u))

RevertVerificationCommit(s) ==
  /\ Commit(s, "revertVerification", [row EXCEPT !.verifiedBy = None,
                                                 !.resolved = FALSE])
  /\ UNCHANGED contacts

-----------------------------------------------------------------------------
(* bulk, public response, audit *)

\* snooze: the base is the due date of the row as it was listed.
SnoozeRead(s, u) ==
  LET base == IF row.slaDue = None THEN now ELSE row.slaDue IN
  /\ base + SnoozeTicks <= MaxDue
  /\ Accept(s, [Call("snooze", u) EXCEPT !.due = base + SnoozeTicks])

SnoozeCommit(s) ==
  /\ Commit(s, "snooze", [row EXCEPT !.slaDue = req[s].due])
  /\ UNCHANGED contacts

\* submit of a signed link, as far as it writes the entry: the manager
\* acknowledges or corrects. No edge is checked. The transaction also writes
\* the issue's acknowledgment with a null updatedById, so it commits only if
\* the column takes null (see SignedLinks); otherwise the call aborts.
PublicResponseRead(s) ==
  \E action \in {"acknowledge", "correct"} :
    Accept(s, [Call("publicResponse", None) EXCEPT
                 !.stage = IF action = "correct" THEN "RESOLVED"
                                                 ELSE "RESPONDED",
                 !.resolved = action = "correct" \/ row.resolved])

PublicResponseCommit(s) ==
  /\ UpdaterNullable
  /\ Commit(s, "publicResponse", [row EXCEPT !.stage = req[s].stage,
                                             !.resolved = req[s].resolved])
  /\ UNCHANGED contacts

\* reconcileAfterAudit: the flag becomes what the per-engine statuses say,
\* whatever the stage or the verification.
Reconcile ==
  /\ "reconcile" \in Handlers
  /\ \E resolved \in BOOLEAN : row' = [row EXCEPT !.resolved = resolved]
  /\ UNCHANGED <<queued, contacts, now, req, sweep>>

-----------------------------------------------------------------------------
(* escalations/sla-engine.service.ts *)

Due(stages) == row.stage \in stages /\ row.slaDue # None /\ row.slaDue <= now

\* enforce: `now` is read once and the due entries are listed.
SweepScan(k) ==
  /\ sweep[k].pc = "idle"
  /\ Due({"SENT", "AWAITING_RESPONSE", "ESCALATED_L1"})
  /\ sweep' = [sweep EXCEPT ![k] = [NoSweep EXCEPT !.pc = "scanned",
                                                   !.at = now]]
  /\ UNCHANGED <<row, queued, contacts, now, req>>

\* Mutant: AWAITING_RESPONSE is forgotten.
RungOfSentOnly(stage) ==
  CASE stage = "SENT"         -> {"L1"}
    [] stage = "ESCALATED_L1" -> {"L2"}
    [] OTHER                  -> {}

\* The rungs handleEntry would queue for the entry it re-reads: L1 for one
\* that was mailed, L2 for one escalated at least l2DelayHours past its due
\* date. That L1 is still due is not re-checked.
RungOf(stage) ==
  CASE stage \in {"SENT", "AWAITING_RESPONSE"} -> {"L1"}
    [] stage = "ESCALATED_L1"                  -> {"L2"}
    [] OTHER                                   -> {}

\* Mutant: the alreadyQueued check is missing.
RungsToQueueAgain(at) ==
  {r \in RungOf(row.stage) :
     row.slaDue # None /\ (r = "L2" => row.slaDue + L2Ticks <= at)}

RungsToQueue(at) ==
  {r \in RungOf(row.stage) :
     /\ row.slaDue # None
     /\ r = "L2" => row.slaDue + L2Ticks <= at
     /\ queued[r] = 0}

\* handleEntry up to its first write: it returns early, or goes on to queue.
SweepSkip(k) ==
  /\ sweep[k].pc = "scanned"
  /\ RungsToQueue(sweep[k].at) = {}
  /\ sweep' = [sweep EXCEPT ![k] = NoSweep]
  /\ UNCHANGED <<row, queued, contacts, now, req>>

SweepRead(k) ==
  /\ sweep[k].pc = "scanned"
  /\ \E r \in RungsToQueue(sweep[k].at) :
       sweep' = [sweep EXCEPT ![k].pc = "read", ![k].rung = r]
  /\ UNCHANGED <<row, queued, contacts, now, req>>

\* The writes of handleEntry: the stage, the level and the queued event.
SweepCommit(k) ==
  /\ sweep[k].pc = "read"
  /\ row' = [row EXCEPT !.stage = "NO_RESPONSE",
                        !.level = IF sweep[k].rung = "L2" THEN 2 ELSE 1]
  /\ queued' = [queued EXCEPT ![sweep[k].rung] = @ + 1]
  /\ sweep' = [sweep EXCEPT ![k] = NoSweep]
  /\ UNCHANGED <<contacts, now, req>>

\* The entry's transaction fails and is logged; the next run tries again.
SweepFail(k) ==
  /\ sweep[k].pc # "idle"
  /\ sweep' = [sweep EXCEPT ![k] = NoSweep]
  /\ UNCHANGED <<row, queued, contacts, now, req>>

-----------------------------------------------------------------------------
Tick ==
  /\ now < MaxNow
  /\ now' = now + 1
  /\ UNCHANGED <<row, queued, contacts, req, sweep>>

Read(s) ==
  \/ PublicResponseRead(s)
  \/ \E u \in Users :
       \/ PatchEntryRead(s, u)
       \/ TransitionRead(s, u)
       \/ SaveDraftRead(s, u)
       \/ DiscardDraftRead(s, u)
       \/ SendRead(s, u)
       \/ VerifyRead(s, u)
       \/ RevertVerificationRead(s, u)
       \/ SnoozeRead(s, u)

Write(s) ==
  \/ PatchEntryCommit(s)
  \/ TransitionCommit(s)
  \/ SaveDraftCommit(s)
  \/ DiscardDraftCommit(s)
  \/ SendCommit(s)
  \/ VerifyCommit(s)
  \/ RevertVerificationCommit(s)
  \/ SnoozeCommit(s)
  \/ PublicResponseCommit(s)

Next ==
  \/ \E s \in Slots : Read(s) \/ Write(s) \/ Abort(s)
  \/ \E c \in Channels : AddEvent(c)
  \/ \E u \in Users : ForceReescalate(u)
  \/ Reconcile
  \/ \E k \in Sweeps : SweepScan(k) \/ SweepSkip(k) \/ SweepRead(k)
                       \/ SweepCommit(k) \/ SweepFail(k)
  \/ Tick

Spec == Init /\ [][Next]_vars

\* The timer keeps firing, so a scan is not put off for ever, and an entry
\* whose transaction fails is tried again at every tick, so a transaction
\* that can commit again and again eventually does. Callers of the API are
\* not fair: nobody has to press anything.
Fairness ==
  \A k \in Sweeps : /\ WF_vars(SweepScan(k))
                    /\ WF_vars(SweepSkip(k))
                    /\ SF_vars(SweepRead(k))
                    /\ SF_vars(SweepCommit(k))

FairSpec == Spec /\ Fairness
-----------------------------------------------------------------------------
(* What the handlers promise together: invariants of the row and its event   *)
(* log, what no commit may do, and what the SLA timer eventually does.       *)

\* Users and requests can be exchanged, but for liveness.
Symmetry == Permutations(Users) \cup Permutations(Slots)

-----------------------------------------------------------------------------
(* Overlapping requests *)

\* outlookCount and teamsCount equal the number of contact events logged
\* since the last cycle reset, however sends, manual contacts and resets
\* overlap: send and addEvent let the database increment
\* (tracking-compose.service.ts:266-268, tracking.service.ts:263-267).
CountersMatchLog ==
  /\ row.outlook = contacts["outlook"]
  /\ row.teams = contacts["teams"]

\* A draft, its lock holder and its lock expiry exist together, and the
\* holder is the draft's author, whatever stale writes are committed.
DraftIsLocked ==
  /\ row.draft = row.lockUser
  /\ row.draft = None <=> row.lockExp = None

\* No lock keeps other users out for longer than LOCK_MS from now.
LockExpiresInTime ==
  row.lockExp # None => row.lockExp <= now + LockTicks

\* Draft and lock together: nobody is kept out by a lock without a draft or by
\* one that does not end.
DraftLock == DraftIsLocked /\ LockExpiresInTime

\* An entry that shows as DRAFTED has a draft: saveDraft, discardDraft, send
\* and the others compute the stage from an old read, and still none of
\* their interleavings leaves DRAFTED behind without the draft. It is false
\* once patchEntry, upsert or transition are in use, which write DRAFTED.
DraftedHasDraft == row.stage = "DRAFTED" => row.draft # None

\* The SLA timer queues a rung at most once for an entry when its runs do
\* not overlap, whatever the API does in the meantime
\* (sla-engine.service.ts:113-126).
EachRungQueuedOnce == \A r \in Rungs : queued[r] <= 1

\* An entry that is past its due date and has never breached is escalated,
\* or stops waiting for an answer.
Unhandled == Due({"SENT", "AWAITING_RESPONSE"}) /\ queued["L1"] = 0
BreachIsEscalated == Unhandled ~> ~Unhandled

-----------------------------------------------------------------------------
(* What makes those invariants inductive: what a call in flight holds *)

\* A save in flight carries its author and a lock that ends in time.
SaveInFlight ==
  \A s \in Slots : req[s].op = "saveDraft" =>
    req[s].user # None /\ req[s].due # None /\ req[s].due <= now + LockTicks

\* Only a save in flight may be about to write DRAFTED, when the endpoints
\* that take the stage from their caller are not in use.
NoStageOverride == Handlers \cap {"patchEntry", "transition"} = {}
DraftedInFlight ==
  \A s \in Slots : req[s].op # "idle" =>
    /\ req[s].op \in Handlers
    /\ req[s].op # "saveDraft" => req[s].stage # "DRAFTED"

\* A run that is about to queue a rung has seen no event for it, and there
\* is none yet.
RungInFlight ==
  \A k \in Sweeps : sweep[k].pc = "read" => queued[sweep[k].rung] = 0

\* What a call is about to write fits the row it will write it to, as it does
\* while no other call and no SLA run commits in between.
Current(s) ==
  LET c == req[s] IN
  /\ c.op \in {"transition", "send"} => row.stage # "RESOLVED"
  /\ c.op \in {"saveDraft", "discardDraft"} /\ row.stage = "RESOLVED"
       => c.stage = "RESOLVED"
  /\ c.op = "transition" /\ c.level < row.level => c.stage = "RESOLVED"
  /\ c.op = "verify" => row.verifiedBy = None
  /\ c.op \in {"saveDraft", "send"} /\ row.draft # None /\ row.lockExp > now
       => row.draft = c.user
  /\ c.op = "snooze" => c.due # None /\ (row.slaDue # None => c.due > row.slaDue)
CallIsCurrent == \A s \in Slots : Current(s)

-----------------------------------------------------------------------------
(* One request at a time *)

\* Only an explicit override takes an entry out of RESOLVED, which has no
\* outgoing edge in the ladder: a patch, the manager's own answer through a
\* signed link, or the admin's cycle reset.
Reopens ==
  \/ \E s \in Slots : PatchEntryCommit(s) \/ PublicResponseCommit(s)
  \/ \E u \in Users : ForceReescalate(u)
ResolvedLeftByOverrideOnly ==
  [][row.stage = "RESOLVED" /\ row'.stage # "RESOLVED" => Reopens]_vars

\* The first verifier of an entry is replaced by nobody: a later verify is a
\* no-op (tracking-stage.service.ts:124-127).
FirstVerifierWins ==
  [][row.verifiedBy # None => row'.verifiedBy \in {row.verifiedBy, None}]_vars

\* While a user holds an unexpired lock nobody else's save or send replaces
\* or consumes the draft; only discardDraft, which any editor may call.
DraftSurvivesOthers ==
  [][\A s \in Slots :
       /\ SaveDraftCommit(s) \/ SendCommit(s)
       /\ row.draft # None /\ row.lockExp > now
       => row.draft = req[s].user]_vars

\* A snooze never brings the due date forward.
SnoozePostpones ==
  [][\A s \in Slots : SnoozeCommit(s) /\ row.slaDue # None
                        => row'.slaDue > row.slaDue]_vars

\* A stage transition never takes a rung back, except by resolving.
TransitionKeepsLevel ==
  [][\A s \in Slots : TransitionCommit(s) /\ row'.level < row.level
                        => row'.stage = "RESOLVED"]_vars

\* With one request at a time no sequence of calls takes back what an earlier
\* one achieved: a resolution, a verification, another user's draft, a
\* postponed due date, a rung.
NothingIsTakenBack ==
  /\ ResolvedLeftByOverrideOnly /\ FirstVerifierWins /\ DraftSurvivesOthers
  /\ SnoozePostpones /\ TransitionKeepsLevel

-----------------------------------------------------------------------------
(* What the repository says and the code does not do *)

\* "Idempotent - first verifier wins" is FirstVerifierWins above. It does not
\* hold with two requests in flight, nor do DraftSurvivesOthers and
\* SnoozePostpones.

\* README.md:6: the SLA-timed ladder is walked until the issue is resolved,
\* so the timer never moves a resolved entry.
SlaStopsAtResolved ==
  [][\A k \in Sweeps : SweepCommit(k) => row.stage # "RESOLVED"]_vars

\* Does not hold. README.md:158: the SLA cron escalates tracking entries on breach, so an
\* entry that is past its due date does not keep waiting.
EveryBreachIsEscalated ==
  Due({"SENT", "AWAITING_RESPONSE"}) ~> ~Due({"SENT", "AWAITING_RESPONSE"})

\* Does not hold. tracking-bulk.service.ts:176-177: entries past RESPONDED are eligible for
\* "mark acknowledged", a transition to RESPONDED.
AcknowledgeIsEligible ==
  row.stage \in {"NO_RESPONSE", "ESCALATED_L1", "ESCALATED_L2"}
    => CanTransition(row.stage, "RESPONDED")

-----------------------------------------------------------------------------
(* From here on: machine-checked proofs, for every set of users, slots and   *)
(* SLA runs, every choice of endpoints and every bound.                      *)

-----------------------------------------------------------------------------
(* The pure operators of the ladder *)

\* nextEscalationLevel stays within the levels.
LEMMA NextLevelType ==
  ASSUME NEW to \in Stages, NEW current \in Levels
  PROVE  NextEscalationLevel(to, current) \in Levels
  BY DEF NextEscalationLevel, Levels

-----------------------------------------------------------------------------
(* Type correctness *)

\* The members of the field types the handlers write.
LEMMA Fields ==
  /\ None \in User /\ \A u \in Users : u \in User
  /\ None \in Time /\ \A t \in Nat : t \in Time
  /\ {"NEW", "DRAFTED", "AWAITING_RESPONSE", "ESCALATED_L1", "RESPONDED",
      "NO_RESPONSE", "RESOLVED"} \subseteq Stages
  /\ {0, 1, 2} \subseteq Levels
  /\ "outlook" \in Channels /\ "teams" \in Channels
  BY ConstantsAssumption DEF User, Time, Stages, Levels, Channels

LEMMA NoRequestType == NoRequest \in Request
  BY Fields DEF NoRequest, Request

LEMMA NoSweepType == NoSweep \in Sweep
  BY DEF NoSweep, Sweep, Rungs

\* A call a slot accepts is a request.
LEMMA AcceptType ==
  ASSUME TypeOK, NEW s \in Slots, NEW c \in Request, Accept(s, c)
  PROVE  TypeOK'
  BY DEF Accept, TypeOK

\* A commit whose new row is a row keeps the types.
LEMMA CommitType ==
  ASSUME TypeOK, NEW s \in Slots, NEW op, NEW r \in Row, Commit(s, op, r),
         contacts' \in [Channels -> Nat]
  PROVE  TypeOK'
  BY NoRequestType DEF Commit, TypeOK

\* A call is a request, and stays one when its fields are filled in with
\* values of their types.
LEMMA CallType ==
  ASSUME NEW op \in TwoStepOps, NEW u \in User
  PROVE  Call(op, u) \in Request
  BY NoRequestType DEF Call, Request

LEMMA CallFields ==
  ASSUME NEW c \in Request, NEW stage \in Stages, NEW level \in Levels,
         NEW resolved \in BOOLEAN, NEW due \in Time, NEW ch \in Channels
  PROVE  /\ [c EXCEPT !.due = due] \in Request
         /\ [c EXCEPT !.stage = stage] \in Request
         /\ [c EXCEPT !.stage = stage, !.due = due] \in Request
         /\ [c EXCEPT !.stage = stage, !.due = due, !.channel = ch] \in Request
         /\ [c EXCEPT !.stage = stage, !.resolved = resolved] \in Request
         /\ [c EXCEPT !.stage = stage, !.level = level,
                      !.resolved = resolved] \in Request
  BY DEF Request

LEMMA ReadType ==
  ASSUME TypeOK, NEW s \in Slots, Read(s)
  PROVE  TypeOK'
<1> USE Fields
<1>0. \A u \in User, op \in TwoStepOps : Call(op, u) \in Request
  BY CallType
<1>a. TwoStepOps = {"patchEntry", "transition", "saveDraft", "discardDraft",
                    "send", "verify", "revertVerification", "snooze",
                    "publicResponse"}
  BY DEF TwoStepOps
<1>1. CASE PublicResponseRead(s)
  <2>1. PICK action \in {"acknowledge", "correct"} :
          Accept(s, [Call("publicResponse", None) EXCEPT
                       !.stage = IF action = "correct" THEN "RESOLVED"
                                                       ELSE "RESPONDED",
                       !.resolved = action = "correct" \/ row.resolved])
    BY <1>1 DEF PublicResponseRead
  <2> DEFINE stage == IF action = "correct" THEN "RESOLVED" ELSE "RESPONDED"
             resolved == action = "correct" \/ row.resolved
  <2>2. stage \in Stages /\ resolved \in BOOLEAN
    OBVIOUS
  <2> HIDE DEF stage, resolved
  <2>3. [Call("publicResponse", None) EXCEPT !.stage = stage,
                                             !.resolved = resolved] \in Request
    BY <2>2, <1>0, <1>a, CallFields
  <2> QED
    BY <2>1, <2>3, AcceptType DEF stage, resolved
<1>2. ASSUME NEW u \in Users, PatchEntryRead(s, u) PROVE TypeOK'
  <2>1. PICK stage \in Stages, resolved \in BOOLEAN :
          Accept(s, [Call("patchEntry", u) EXCEPT !.stage = stage,
                                                  !.resolved = resolved])
    BY <1>2, ConstantsAssumption DEF PatchEntryRead, TypeOK, Row
  <2>2. [Call("patchEntry", u) EXCEPT !.stage = stage, !.resolved = resolved]
          \in Request
    BY <1>0, <1>a, CallFields
  <2> QED
    BY <2>1, <2>2, AcceptType
<1>3. ASSUME NEW u \in Users, TransitionRead(s, u) PROVE TypeOK'
  <2>1. PICK to \in Stages :
          Accept(s, [Call("transition", u) EXCEPT
                       !.stage = to,
                       !.level = NextEscalationLevel(to, row.level),
                       !.resolved = NextResolved(to, row.resolved)])
    BY <1>3 DEF TransitionRead
  <2>2. /\ NextEscalationLevel(to, row.level) \in Levels
        /\ NextResolved(to, row.resolved) \in BOOLEAN
    BY NextLevelType DEF NextResolved, TypeOK, Row
  <2>3. [Call("transition", u) EXCEPT
           !.stage = to,
           !.level = NextEscalationLevel(to, row.level),
           !.resolved = NextResolved(to, row.resolved)] \in Request
    BY <2>2, <1>0, <1>a, CallFields
  <2> QED
    BY <2>1, <2>3, AcceptType
<1>4. ASSUME NEW u \in Users, SaveDraftRead(s, u) PROVE TypeOK'
  <2> DEFINE stage == IF row.stage = "NEW" THEN "DRAFTED" ELSE row.stage
  <2>1. stage \in Stages /\ now + LockTicks \in Time
    BY ConstantsAssumption DEF TypeOK, Row
  <2>2. [Call("saveDraft", u) EXCEPT !.stage = stage, !.due = now + LockTicks]
          \in Request
    BY <2>1, <1>0, <1>a, CallFields
  <2> QED
    BY <1>4, <2>2, AcceptType DEF SaveDraftRead
<1>5. ASSUME NEW u \in Users, DiscardDraftRead(s, u) PROVE TypeOK'
  <2> DEFINE stage == IF row.stage = "DRAFTED" THEN "NEW" ELSE row.stage
  <2>1. stage \in Stages
    BY DEF TypeOK, Row
  <2>2. [Call("discardDraft", u) EXCEPT !.stage = stage] \in Request
    BY <2>1, <1>0, <1>a, CallFields
  <2> QED
    BY <1>5, <2>2, AcceptType DEF DiscardDraftRead
<1>6. ASSUME NEW u \in Users, SendRead(s, u) PROVE TypeOK'
  <2> DEFINE stage(c) == IF c = "teams" THEN "ESCALATED_L1"
                                        ELSE "AWAITING_RESPONSE"
  <2>1. PICK c \in Channels, due \in Time :
          Accept(s, [Call("send", u) EXCEPT !.stage = stage(c), !.due = due,
                                            !.channel = c])
    <3>1. \A due \in Deadlines \cup {now + SlaTicks} : due \in Time
      BY ConstantsAssumption DEF TypeOK
    <3> QED
      BY <1>6, <3>1 DEF SendRead
  <2>2. stage(c) \in Stages
    OBVIOUS
  <2>3. [Call("send", u) EXCEPT !.stage = stage(c), !.due = due, !.channel = c]
          \in Request
    BY <2>2, <1>0, <1>a, CallFields
  <2> QED
    BY <2>1, <2>3, AcceptType
<1>7. ASSUME NEW u \in Users, VerifyRead(s, u) PROVE TypeOK'
  BY <1>7, <1>0, <1>a, AcceptType DEF VerifyRead
<1>8. ASSUME NEW u \in Users, RevertVerificationRead(s, u) PROVE TypeOK'
  BY <1>8, <1>0, <1>a, AcceptType DEF RevertVerificationRead
<1>9. ASSUME NEW u \in Users, SnoozeRead(s, u) PROVE TypeOK'
  <2> DEFINE base == IF row.slaDue = None THEN now ELSE row.slaDue
  <2>1. base + SnoozeTicks \in Time
    BY ConstantsAssumption DEF TypeOK, Row, Time
  <2>2. [Call("snooze", u) EXCEPT !.due = base + SnoozeTicks] \in Request
    BY <2>1, <1>0, <1>a, CallFields
  <2> QED
    BY <1>9, <2>2, AcceptType DEF SnoozeRead
<1> QED
  BY <1>1, <1>2, <1>3, <1>4, <1>5, <1>6, <1>7, <1>8, <1>9 DEF Read

\* A row stays a row when its fields are set to values of their types.
LEMMA RowFields ==
  ASSUME NEW r \in Row, NEW stage \in Stages, NEW level \in Levels,
         NEW resolved \in BOOLEAN, NEW due \in Time, NEW u \in User,
         NEW v \in User
  PROVE  /\ [r EXCEPT !.stage = stage] \in Row
         /\ [r EXCEPT !.slaDue = due] \in Row
         /\ [r EXCEPT !.resolved = resolved] \in Row
         /\ [r EXCEPT !.stage = stage, !.resolved = resolved] \in Row
         /\ [r EXCEPT !.stage = stage, !.level = level] \in Row
         /\ [r EXCEPT !.stage = stage, !.slaDue = due] \in Row
         /\ [r EXCEPT !.stage = stage, !.level = level,
                      !.resolved = resolved] \in Row
         /\ [r EXCEPT !.verifiedBy = u, !.resolved = resolved] \in Row
         /\ [r EXCEPT !.verifiedBy = u, !.stage = stage,
                      !.resolved = resolved] \in Row
         /\ [r EXCEPT !.draft = u, !.lockUser = v, !.lockExp = due] \in Row
         /\ [r EXCEPT !.draft = u, !.lockUser = v, !.lockExp = due,
                      !.stage = stage] \in Row
  BY DEF Row

LEMMA CountersType ==
  ASSUME NEW r \in Row, NEW c \in Channels
  PROVE  /\ Contacted(r, c) \in Row
         /\ Undrafted(r) \in Row
         /\ [r EXCEPT !.outlook = 0, !.teams = 0, !.stage = "NEW",
                      !.slaDue = None] \in Row
<1>1. Contacted(r, c) \in Row
  BY DEF Contacted, Row
<1>2. Undrafted(r) \in Row
  BY RowFields, Fields DEF Undrafted
<1>3. [r EXCEPT !.outlook = 0, !.teams = 0, !.stage = "NEW",
                !.slaDue = None] \in Row
  BY Fields DEF Row
<1> QED
  BY <1>1, <1>2, <1>3

LEMMA WriteType ==
  ASSUME TypeOK, NEW s \in Slots, Write(s)
  PROVE  TypeOK'
<1> USE Fields
<1>0. /\ row \in Row
      /\ contacts \in [Channels -> Nat]
      /\ req[s].user \in User /\ req[s].stage \in Stages
      /\ req[s].level \in Levels /\ req[s].resolved \in BOOLEAN
      /\ req[s].due \in Time /\ req[s].channel \in Channels
  BY DEF TypeOK, Request
<1>1. CASE PatchEntryCommit(s)
  BY <1>0, <1>1, RowFields, CommitType DEF PatchEntryCommit
<1>2. CASE TransitionCommit(s)
  BY <1>0, <1>2, RowFields, CommitType DEF TransitionCommit
<1>3. CASE SaveDraftCommit(s)
  BY <1>0, <1>3, RowFields, CommitType DEF SaveDraftCommit
<1>4. CASE DiscardDraftCommit(s)
  <2>1. [Undrafted(row) EXCEPT !.stage = req[s].stage] \in Row
    BY <1>0, RowFields, CountersType
  <2> QED
    BY <1>0, <1>4, <2>1, CommitType DEF DiscardDraftCommit
<1>5. CASE SendCommit(s)
  <2>1. [Undrafted(row) EXCEPT !.stage = req[s].stage,
                               !.slaDue = req[s].due] \in Row
    BY <1>0, RowFields, CountersType
  <2>2. Contacted([Undrafted(row) EXCEPT !.stage = req[s].stage,
                                         !.slaDue = req[s].due],
                  req[s].channel) \in Row
    BY <1>0, <2>1, CountersType
  <2>3. contacts' \in [Channels -> Nat]
    BY <1>0, <1>5 DEF SendCommit, LogContact
  <2> QED
    BY <1>5, <2>2, <2>3, CommitType DEF SendCommit
<1>6. CASE VerifyCommit(s)
  BY <1>0, <1>6, RowFields, CommitType DEF VerifyCommit
<1>7. CASE RevertVerificationCommit(s)
  BY <1>0, <1>7, RowFields, CommitType DEF RevertVerificationCommit
<1>8. CASE SnoozeCommit(s)
  BY <1>0, <1>8, RowFields, CommitType DEF SnoozeCommit
<1>9. CASE PublicResponseCommit(s)
  BY <1>0, <1>9, RowFields, CommitType DEF PublicResponseCommit
<1> QED
  BY <1>1, <1>2, <1>3, <1>4, <1>5, <1>6, <1>7, <1>8, <1>9 DEF Write

\* Every step keeps the types: reads, commits, the one-step calls, the timer.
LEMMA TypeStep ==
  ASSUME TypeOK, [Next]_vars
  PROVE  TypeOK'
<1> USE Fields
<1>1. ASSUME NEW s \in Slots, Read(s) \/ Write(s) PROVE TypeOK'
  BY <1>1, ReadType, WriteType
<1>2. ASSUME NEW s \in Slots, Abort(s) PROVE TypeOK'
  BY <1>2, NoRequestType DEF Abort, TypeOK
<1>3. ASSUME NEW c \in Channels, AddEvent(c) PROVE TypeOK'
  <2>1. row' \in Row
    BY <1>3, CountersType DEF AddEvent, TypeOK
  <2>2. contacts' \in [Channels -> Nat]
    BY <1>3 DEF AddEvent, LogContact, TypeOK
  <2> QED
    BY <1>3, <2>1, <2>2 DEF AddEvent, TypeOK
<1>4. ASSUME NEW u \in Users, ForceReescalate(u) PROVE TypeOK'
  <2>1. row' \in Row
    BY <1>4, CountersType DEF ForceReescalate, TypeOK
  <2> QED
    BY <1>4, <2>1 DEF ForceReescalate, TypeOK
<1>5. CASE Reconcile
  <2>1. row' \in Row
    BY <1>5, RowFields DEF Reconcile, TypeOK
  <2> QED
    BY <1>5, <2>1 DEF Reconcile, TypeOK
<1>6. ASSUME NEW k \in Sweeps,
             SweepScan(k) \/ SweepSkip(k) \/ SweepRead(k) \/ SweepFail(k)
      PROVE  TypeOK'
  <2>1. sweep' \in [Sweeps -> Sweep]
    <3>1. CASE SweepScan(k)
      BY <3>1, NoSweepType DEF SweepScan, TypeOK, Sweep
    <3>2. CASE SweepSkip(k) \/ SweepFail(k)
      BY <3>2, NoSweepType DEF SweepSkip, SweepFail, TypeOK
    <3>3. CASE SweepRead(k)
      <4>1. PICK r \in Rungs :
              sweep' = [sweep EXCEPT ![k].pc = "read", ![k].rung = r]
        BY <3>3 DEF SweepRead, RungsToQueue, RungOf, Rungs
      <4> QED
        BY <4>1 DEF TypeOK, Sweep
    <3> QED
      BY <1>6, <3>1, <3>2, <3>3
  <2> QED
    BY <1>6, <2>1 DEF SweepScan, SweepSkip, SweepRead, SweepFail, TypeOK
<1>7. ASSUME NEW k \in Sweeps, SweepCommit(k) PROVE TypeOK'
  <2>1. row' \in Row
    BY <1>7, RowFields DEF SweepCommit, TypeOK
  <2>2. queued' \in [Rungs -> Nat] /\ sweep' \in [Sweeps -> Sweep]
    BY <1>7, NoSweepType DEF SweepCommit, TypeOK, Sweep
  <2> QED
    BY <1>7, <2>1, <2>2 DEF SweepCommit, TypeOK
<1>8. CASE Tick
  BY <1>8 DEF Tick, TypeOK
<1>9. CASE UNCHANGED vars
  BY <1>9 DEF vars, TypeOK
<1> QED
  BY <1>1, <1>2, <1>3, <1>4, <1>5, <1>6, <1>7, <1>8, <1>9 DEF Next

\* The row, its event counts, the clock and the calls in flight keep their
\* types in every behaviour.
THEOREM TypeCorrect == Spec => []TypeOK
<1>1. Init => TypeOK
  BY Fields, NoRequestType, NoSweepType DEF Init, TypeOK, Row
<1> QED
  BY <1>1, TypeStep, PTL DEF Spec

-----------------------------------------------------------------------------
(* The contact counters *)

\* The calls that are no contact leave the counters as they are.
LEMMA OtherWritesKeepCounters ==
  ASSUME TypeOK, NEW s \in Slots, Write(s), ~SendCommit(s)
  PROVE  row'.outlook = row.outlook /\ row'.teams = row.teams
         /\ contacts' = contacts
<1> USE DEF TypeOK, Row, Commit
<1>1. CASE PatchEntryCommit(s)
  BY <1>1 DEF PatchEntryCommit
<1>2. CASE TransitionCommit(s)
  BY <1>2 DEF TransitionCommit
<1>3. CASE SaveDraftCommit(s)
  BY <1>3 DEF SaveDraftCommit
<1>4. CASE DiscardDraftCommit(s)
  BY <1>4 DEF DiscardDraftCommit, Undrafted
<1>5. CASE VerifyCommit(s)
  BY <1>5 DEF VerifyCommit
<1>6. CASE RevertVerificationCommit(s)
  BY <1>6 DEF RevertVerificationCommit
<1>7. CASE SnoozeCommit(s)
  BY <1>7 DEF SnoozeCommit
<1>8. CASE PublicResponseCommit(s)
  BY <1>8 DEF PublicResponseCommit
<1> QED
  BY <1>1, <1>2, <1>3, <1>4, <1>5, <1>6, <1>7, <1>8 DEF Write

\* What a contact on channel c does to the two counters.
LEMMA ContactedCounters ==
  ASSUME NEW r \in Row, NEW c \in Channels
  PROVE  /\ Contacted(r, c).outlook = IF c = "outlook" THEN r.outlook + 1
                                                       ELSE r.outlook
         /\ Contacted(r, c).teams = IF c = "teams" THEN r.teams + 1
                                                   ELSE r.teams
  BY DEF Contacted, Row, Channels

LEMMA LoggedContacts ==
  ASSUME TypeOK, NEW c \in Channels, LogContact(c)
  PROVE  \A d \in Channels :
           contacts'[d] = IF c = d THEN contacts[d] + 1 ELSE contacts[d]
  BY DEF LogContact, TypeOK

LEMMA CountersStep ==
  ASSUME TypeOK, CountersMatchLog, [Next]_vars
  PROVE  CountersMatchLog'
<1> USE Fields DEF CountersMatchLog
<1>1. ASSUME NEW s \in Slots, Write(s), ~SendCommit(s)
      PROVE  CountersMatchLog'
  BY <1>1, OtherWritesKeepCounters
<1>2. ASSUME NEW s \in Slots, SendCommit(s) PROVE CountersMatchLog'
  <2> DEFINE c == req[s].channel
             sent == [Undrafted(row) EXCEPT !.stage = req[s].stage,
                                            !.slaDue = req[s].due]
  <2>1. c \in Channels /\ row \in Row /\ req[s].stage \in Stages
        /\ req[s].due \in Time
    BY DEF TypeOK, Request
  <2>2. sent \in Row
    BY <2>1, RowFields, CountersType
  <2>3. sent.outlook = row.outlook /\ sent.teams = row.teams
    BY <2>1 DEF Undrafted, Row
  <2>4. row' = Contacted(sent, c) /\ LogContact(c)
    BY <1>2 DEF SendCommit, Commit
  <2> HIDE DEF sent, c
  <2> QED
    BY <2>1, <2>2, <2>3, <2>4, ContactedCounters, LoggedContacts
<1>3. ASSUME NEW c \in Channels, AddEvent(c) PROVE CountersMatchLog'
  <2>1. row' = Contacted(row, c) /\ LogContact(c) /\ row \in Row
    BY <1>3 DEF AddEvent, TypeOK
  <2> QED
    BY <2>1, ContactedCounters, LoggedContacts
<1>4. ASSUME NEW u \in Users, ForceReescalate(u) PROVE CountersMatchLog'
  BY <1>4 DEF ForceReescalate, TypeOK, Row
<1>5. CASE Reconcile
  BY <1>5 DEF Reconcile, TypeOK, Row
<1>6. ASSUME NEW k \in Sweeps, SweepCommit(k) PROVE CountersMatchLog'
  BY <1>6 DEF SweepCommit, TypeOK, Row
<1>7. ASSUME UNCHANGED <<row, contacts>> PROVE CountersMatchLog'
  BY <1>7
<1>8. ASSUME NEW s \in Slots, Read(s) PROVE UNCHANGED <<row, contacts>>
  BY <1>8 DEF Read, PublicResponseRead, PatchEntryRead, TransitionRead,
     SaveDraftRead, DiscardDraftRead, SendRead, VerifyRead,
     RevertVerificationRead, SnoozeRead, Accept
<1> QED
  BY <1>1, <1>2, <1>3, <1>4, <1>5, <1>6, <1>7, <1>8
     DEF Next, Abort, Tick, SweepScan, SweepSkip, SweepRead, SweepFail, vars

\* However sends, manual contacts and cycle resets overlap, no count is lost
\* or kept across a reset.
THEOREM CountersCorrect == Spec => []CountersMatchLog
<1>1. Init => CountersMatchLog
  BY DEF Init, CountersMatchLog, Channels
<1> QED
  BY <1>1, CountersStep, TypeCorrect, PTL DEF Spec

-----------------------------------------------------------------------------
(* The draft and its lock *)

\* What a step can do to the draft fields: nothing, a save's commit, or the
\* clearing that a discard and a send do.
LEMMA DraftFields ==
  ASSUME TypeOK, [Next]_vars
  PROVE  \/ /\ row'.draft = row.draft
            /\ row'.lockUser = row.lockUser
            /\ row'.lockExp = row.lockExp
         \/ \E s \in Slots :
              /\ req[s].op = "saveDraft"
              /\ row'.draft = req[s].user
              /\ row'.lockUser = req[s].user
              /\ row'.lockExp = req[s].due
         \/ /\ row'.draft = None
            /\ row'.lockUser = None
            /\ row'.lockExp = None
<1> DEFINE Kept == /\ row'.draft = row.draft
                   /\ row'.lockUser = row.lockUser
                   /\ row'.lockExp = row.lockExp
           Cleared == /\ row'.draft = None
                      /\ row'.lockUser = None
                      /\ row'.lockExp = None
<1>0. row \in Row
  BY DEF TypeOK
<1>1. ASSUME NEW s \in Slots, SaveDraftCommit(s)
      PROVE  /\ req[s].op = "saveDraft"
             /\ row'.draft = req[s].user
             /\ row'.lockUser = req[s].user
             /\ row'.lockExp = req[s].due
  BY <1>0, <1>1 DEF SaveDraftCommit, Commit, Row
<1>2. ASSUME NEW s \in Slots, DiscardDraftCommit(s) PROVE Cleared
  BY <1>0, <1>2 DEF DiscardDraftCommit, Commit, Undrafted, Row
<1>3. ASSUME NEW s \in Slots, SendCommit(s) PROVE Cleared
  BY <1>0, <1>3 DEF SendCommit, Commit, Contacted, Undrafted, Row
<1>4. ASSUME NEW s \in Slots, Write(s),
             ~SaveDraftCommit(s), ~DiscardDraftCommit(s), ~SendCommit(s)
      PROVE  Kept
  <2> USE <1>0 DEF Commit, Row
  <2>1. CASE PatchEntryCommit(s)
    BY <2>1 DEF PatchEntryCommit
  <2>2. CASE TransitionCommit(s)
    BY <2>2 DEF TransitionCommit
  <2>3. CASE VerifyCommit(s)
    BY <2>3 DEF VerifyCommit
  <2>4. CASE RevertVerificationCommit(s)
    BY <2>4 DEF RevertVerificationCommit
  <2>5. CASE SnoozeCommit(s)
    BY <2>5 DEF SnoozeCommit
  <2>6. CASE PublicResponseCommit(s)
    BY <2>6 DEF PublicResponseCommit
  <2> QED
    BY <1>4, <2>1, <2>2, <2>3, <2>4, <2>5, <2>6 DEF Write
<1>5. ASSUME NEW c \in Channels, AddEvent(c) PROVE Kept
  BY <1>0, <1>5 DEF AddEvent, Contacted, Row
<1>6. ASSUME NEW u \in Users, ForceReescalate(u) PROVE Kept
  BY <1>0, <1>6 DEF ForceReescalate, Row
<1>7. CASE Reconcile
  BY <1>0, <1>7 DEF Reconcile, Row
<1>8. ASSUME NEW k \in Sweeps, SweepCommit(k) PROVE Kept
  BY <1>0, <1>8 DEF SweepCommit, Row
<1>9. ASSUME NEW s \in Slots, Read(s) PROVE UNCHANGED row
  BY <1>9 DEF Read, PublicResponseRead, PatchEntryRead, TransitionRead,
     SaveDraftRead, DiscardDraftRead, SendRead, VerifyRead,
     RevertVerificationRead, SnoozeRead, Accept
<1>10. ASSUME UNCHANGED row PROVE Kept
  BY <1>10
<1> HIDE DEF Kept, Cleared
<1> QED
  BY <1>1, <1>2, <1>3, <1>4, <1>5, <1>6, <1>7, <1>8, <1>9, <1>10
     DEF Next, Abort, Tick, SweepScan, SweepSkip, SweepRead, SweepFail, vars,
         Kept, Cleared

\* What a step can do to a call in flight: keep it, drop it, or accept a new
\* one in its place.
LEMMA SlotSteps ==
  ASSUME TypeOK, [Next]_vars, NEW s \in Slots
  PROVE  \/ req'[s] = req[s]
         \/ req'[s] = NoRequest
         \/ Read(s) /\ UNCHANGED <<row, now>>
<1> USE DEF TypeOK
<1>1. ASSUME NEW t \in Slots, Read(t)
      PROVE  /\ UNCHANGED <<row, now>>
             /\ t # s => req'[s] = req[s]
  <2>1. \A c : Accept(t, c) => UNCHANGED <<row, now>>
                               /\ (t # s => req'[s] = req[s])
    BY DEF Accept
  <2> QED
    BY <1>1, <2>1 DEF Read, PublicResponseRead, PatchEntryRead,
       TransitionRead, SaveDraftRead, DiscardDraftRead, SendRead, VerifyRead,
       RevertVerificationRead, SnoozeRead
<1>2. ASSUME NEW t \in Slots, Write(t) \/ Abort(t)
      PROVE  req'[s] = req[s] \/ req'[s] = NoRequest
  <2>1. req' = [req EXCEPT ![t] = NoRequest]
    BY <1>2 DEF Write, Abort, Commit, PatchEntryCommit, TransitionCommit,
       SaveDraftCommit, DiscardDraftCommit, SendCommit, VerifyCommit,
       RevertVerificationCommit, SnoozeCommit, PublicResponseCommit
  <2> QED
    BY <2>1
<1>3. ASSUME UNCHANGED req PROVE req'[s] = req[s]
  BY <1>3
<1> QED
  BY <1>1, <1>2, <1>3
     DEF Next, AddEvent, ForceReescalate, Reconcile, SweepScan, SweepSkip,
         SweepRead, SweepCommit, SweepFail, Tick, vars

\* What a slot holds after a read.
LEMMA ReadCalls ==
  ASSUME TypeOK, NEW s \in Slots, Read(s)
  PROVE  /\ req'[s].op \in Handlers
         /\ req'[s].op = "saveDraft" =>
              req'[s].user \in Users /\ req'[s].due = now + LockTicks
         /\ req'[s].op \notin {"saveDraft", "patchEntry", "transition"} =>
              req'[s].stage # "DRAFTED"
<1> USE DEF TypeOK, Accept, Call, NoRequest
<1>1. CASE PublicResponseRead(s)
  BY <1>1 DEF PublicResponseRead
<1>2. ASSUME NEW u \in Users, PatchEntryRead(s, u)
      PROVE  req'[s].op = "patchEntry" /\ req'[s].op \in Handlers
  BY <1>2 DEF PatchEntryRead
<1>3. ASSUME NEW u \in Users, TransitionRead(s, u)
      PROVE  req'[s].op = "transition" /\ req'[s].op \in Handlers
  BY <1>3 DEF TransitionRead
<1>4. ASSUME NEW u \in Users, SaveDraftRead(s, u)
      PROVE  /\ req'[s].op = "saveDraft" /\ req'[s].op \in Handlers
             /\ req'[s].user \in Users /\ req'[s].due = now + LockTicks
  BY <1>4 DEF SaveDraftRead
<1>5. ASSUME NEW u \in Users, DiscardDraftRead(s, u)
      PROVE  /\ req'[s].op = "discardDraft" /\ req'[s].op \in Handlers
             /\ req'[s].stage # "DRAFTED"
  BY <1>5 DEF DiscardDraftRead
<1>6. ASSUME NEW u \in Users, SendRead(s, u)
      PROVE  /\ req'[s].op = "send" /\ req'[s].op \in Handlers
             /\ req'[s].stage # "DRAFTED"
  BY <1>6 DEF SendRead
<1>7. ASSUME NEW u \in Users,
             VerifyRead(s, u) \/ RevertVerificationRead(s, u)
               \/ SnoozeRead(s, u)
      PROVE  /\ req'[s].op \in {"verify", "revertVerification", "snooze"}
             /\ req'[s].op \in Handlers
             /\ req'[s].stage # "DRAFTED"
  <2>1. CASE VerifyRead(s, u)
    BY <2>1 DEF VerifyRead
  <2>2. CASE RevertVerificationRead(s, u)
    BY <2>2 DEF RevertVerificationRead
  <2>3. CASE SnoozeRead(s, u)
    BY <2>3 DEF SnoozeRead
  <2> QED
    BY <1>7, <2>1, <2>2, <2>3
<1> QED
  BY <1>1, <1>2, <1>3, <1>4, <1>5, <1>6, <1>7 DEF Read

\* The clock never goes back.
LEMMA ClockStep ==
  ASSUME TypeOK, [Next]_vars
  PROVE  now' \in Nat /\ now \in Nat /\ now <= now'
<1>1. now' \in Nat /\ now \in Nat
  BY TypeStep DEF TypeOK
<1>2. ASSUME NEW t \in Slots, Read(t) PROVE now' = now
  BY <1>2 DEF Read, PublicResponseRead, PatchEntryRead, TransitionRead,
     SaveDraftRead, DiscardDraftRead, SendRead, VerifyRead,
     RevertVerificationRead, SnoozeRead, Accept
<1>3. ASSUME NEW t \in Slots, Write(t) PROVE now' = now
  BY <1>3 DEF Write, Commit, PatchEntryCommit, TransitionCommit,
     SaveDraftCommit, DiscardDraftCommit, SendCommit, VerifyCommit,
     RevertVerificationCommit, SnoozeCommit, PublicResponseCommit
<1>4. now' = now \/ now' = now + 1
  BY <1>2, <1>3 DEF Next, Abort, AddEvent, ForceReescalate, Reconcile,
     SweepScan, SweepSkip, SweepRead, SweepCommit, SweepFail, Tick, vars
<1> QED
  BY <1>1, <1>4

LEMMA SaveInFlightStep ==
  ASSUME TypeOK, SaveInFlight, [Next]_vars
  PROVE  SaveInFlight'
<1> SUFFICES ASSUME NEW s \in Slots, req'[s].op = "saveDraft"
             PROVE  /\ req'[s].user # None
                    /\ req'[s].due # None
                    /\ req'[s].due <= now' + LockTicks
  BY DEF SaveInFlight
<1>1. now' \in Nat /\ now <= now' /\ now \in Nat
  BY ClockStep
<1>2. CASE req'[s] = req[s]
  <2>1. req[s].due \in Time
    BY DEF TypeOK, Request
  <2> QED
    BY <1>1, <1>2, <2>1, ConstantsAssumption DEF SaveInFlight, Time
<1>3. CASE req'[s] = NoRequest
  BY <1>3 DEF NoRequest
<1>4. CASE Read(s) /\ UNCHANGED <<row, now>>
  BY <1>1, <1>4, ReadCalls, ConstantsAssumption
<1> QED
  BY <1>2, <1>3, <1>4, SlotSteps

LEMMA DraftLockStep ==
  ASSUME TypeOK, SaveInFlight, DraftIsLocked, LockExpiresInTime, [Next]_vars
  PROVE  DraftIsLocked' /\ LockExpiresInTime'
<1>1. now' \in Nat /\ now \in Nat /\ row.lockExp \in Time
  BY TypeStep DEF TypeOK, Row
<1>2. now <= now'
  BY ClockStep
<1>3. CASE /\ row'.draft = row.draft
           /\ row'.lockUser = row.lockUser
           /\ row'.lockExp = row.lockExp
  BY <1>1, <1>2, <1>3, ConstantsAssumption
     DEF DraftIsLocked, LockExpiresInTime, Time
<1>4. ASSUME NEW s \in Slots,
             req[s].op = "saveDraft",
             row'.draft = req[s].user,
             row'.lockUser = req[s].user,
             row'.lockExp = req[s].due
      PROVE  DraftIsLocked' /\ LockExpiresInTime'
  <2>1. req[s].user # None /\ req[s].due # None
        /\ req[s].due <= now + LockTicks
    BY <1>4 DEF SaveInFlight
  <2>2. req[s].due \in Nat
    BY <2>1 DEF TypeOK, Request, Time
  <2> QED
    BY <1>1, <1>2, <1>4, <2>1, <2>2, ConstantsAssumption
       DEF DraftIsLocked, LockExpiresInTime
<1>5. CASE /\ row'.draft = None
           /\ row'.lockUser = None
           /\ row'.lockExp = None
  BY <1>5 DEF DraftIsLocked, LockExpiresInTime
<1> QED
  BY <1>3, <1>4, <1>5, DraftFields

\* A draft, its lock and its author stay together and the lock ends in time,
\* in every behaviour of every set of endpoints.
THEOREM DraftLockCorrect == Spec => []DraftLock
<1> DEFINE Inv == SaveInFlight /\ DraftIsLocked /\ LockExpiresInTime
<1>1. Init => Inv
  BY DEF Init, SaveInFlight, DraftIsLocked, LockExpiresInTime, NoRequest
<1>2. TypeOK /\ Inv /\ [Next]_vars => Inv'
  BY SaveInFlightStep, DraftLockStep
<1>3. Inv => DraftLock
  BY DEF DraftLock
<1> QED
  BY <1>1, <1>2, <1>3, TypeCorrect, PTL DEF Spec

-----------------------------------------------------------------------------
(* A DRAFTED entry has its draft *)

LEMMA DraftedInFlightStep ==
  ASSUME TypeOK, NoStageOverride, DraftedInFlight, [Next]_vars
  PROVE  DraftedInFlight'
<1> SUFFICES ASSUME NEW s \in Slots, req'[s].op # "idle"
             PROVE  /\ req'[s].op \in Handlers
                    /\ req'[s].op # "saveDraft" => req'[s].stage # "DRAFTED"
  BY DEF DraftedInFlight
<1>1. CASE req'[s] = req[s]
  BY <1>1 DEF DraftedInFlight
<1>2. CASE req'[s] = NoRequest
  BY <1>2 DEF NoRequest
<1>3. CASE Read(s) /\ UNCHANGED <<row, now>>
  BY <1>3, ReadCalls DEF NoStageOverride
<1> QED
  BY <1>1, <1>2, <1>3, SlotSteps

\* Only a save in flight can put an entry in DRAFTED.
LEMMA DraftedStep ==
  ASSUME TypeOK, NoStageOverride, DraftedInFlight, SaveInFlight,
         DraftedHasDraft, [Next]_vars
  PROVE  DraftedHasDraft'
<1> USE DEF DraftedHasDraft
<1>0. row \in Row
  BY DEF TypeOK
<1>1. ASSUME NEW s \in Slots, Write(s) PROVE DraftedHasDraft'
  <2> USE <1>0 DEF Commit, Row
  <2>1. CASE PatchEntryCommit(s) \/ TransitionCommit(s)
    BY <2>1 DEF PatchEntryCommit, TransitionCommit, DraftedInFlight,
       NoStageOverride
  <2>2. CASE SaveDraftCommit(s)
    BY <2>2 DEF SaveDraftCommit, SaveInFlight
  <2>3. CASE DiscardDraftCommit(s)
    <3>1. req[s].op = "discardDraft"
      BY <2>3 DEF DiscardDraftCommit
    <3>2. req[s].stage # "DRAFTED"
      BY <3>1 DEF DraftedInFlight
    <3> QED
      BY <2>3, <3>2 DEF DiscardDraftCommit, Undrafted
  <2>4. CASE SendCommit(s)
    <3>1. req[s].op = "send"
      BY <2>4 DEF SendCommit
    <3>2. req[s].stage # "DRAFTED"
      BY <3>1 DEF DraftedInFlight
    <3> QED
      BY <2>4, <3>2 DEF SendCommit, Contacted, Undrafted
  <2>5. CASE VerifyCommit(s)
    BY <2>5 DEF VerifyCommit
  <2>6. CASE RevertVerificationCommit(s)
    BY <2>6 DEF RevertVerificationCommit
  <2>7. CASE SnoozeCommit(s)
    BY <2>7 DEF SnoozeCommit
  <2>8. CASE PublicResponseCommit(s)
    <3>1. req[s].op = "publicResponse"
      BY <2>8 DEF PublicResponseCommit
    <3>2. req[s].stage # "DRAFTED"
      BY <3>1 DEF DraftedInFlight
    <3> QED
      BY <2>8, <3>2 DEF PublicResponseCommit
  <2> QED
    BY <1>1, <2>1, <2>2, <2>3, <2>4, <2>5, <2>6, <2>7, <2>8 DEF Write
<1>2. ASSUME NEW c \in Channels, AddEvent(c) PROVE DraftedHasDraft'
  BY <1>0, <1>2 DEF AddEvent, Contacted, Row
<1>3. ASSUME NEW u \in Users, ForceReescalate(u) PROVE DraftedHasDraft'
  BY <1>0, <1>3 DEF ForceReescalate, Row
<1>4. CASE Reconcile
  BY <1>0, <1>4 DEF Reconcile, Row
<1>5. ASSUME NEW k \in Sweeps, SweepCommit(k) PROVE DraftedHasDraft'
  BY <1>0, <1>5 DEF SweepCommit, Row
<1>6. ASSUME NEW s \in Slots, Read(s) PROVE UNCHANGED row
  BY <1>6 DEF Read, PublicResponseRead, PatchEntryRead, TransitionRead,
     SaveDraftRead, DiscardDraftRead, SendRead, VerifyRead,
     RevertVerificationRead, SnoozeRead, Accept
<1>7. ASSUME UNCHANGED row PROVE DraftedHasDraft'
  BY <1>7
<1> QED
  BY <1>1, <1>2, <1>3, <1>4, <1>5, <1>6, <1>7
     DEF Next, Abort, Tick, SweepScan, SweepSkip, SweepRead, SweepFail, vars

\* Where no endpoint takes the stage from its caller, no interleaving of
\* stale saves, discards, sends, verifications, resets, answers and SLA runs
\* shows an entry as DRAFTED without a draft.
THEOREM DraftedCorrect ==
  ASSUME NoStageOverride
  PROVE  Spec => []DraftedHasDraft
<1> DEFINE Inv == SaveInFlight /\ DraftedInFlight /\ DraftedHasDraft
<1>1. Init => Inv
  BY DEF Init, SaveInFlight, DraftedInFlight, DraftedHasDraft, NoRequest
<1>2. TypeOK /\ Inv /\ [Next]_vars => Inv'
  BY SaveInFlightStep, DraftedInFlightStep, DraftedStep
<1> QED
  BY <1>1, <1>2, TypeCorrect, PTL DEF Spec

-----------------------------------------------------------------------------
(* The SLA timer *)

\* Only the commit of an SLA run adds an sla_draft_queued event, and only a
\* run that is about to commit holds a rung.
LEMMA RungStep ==
  ASSUME TypeOK, \A k, l \in Sweeps : k = l,
         RungInFlight, EachRungQueuedOnce, [Next]_vars
  PROVE  RungInFlight' /\ EachRungQueuedOnce'
<1> USE DEF RungInFlight, EachRungQueuedOnce
<1>0. queued \in [Rungs -> Nat] /\ sweep \in [Sweeps -> Sweep]
  BY DEF TypeOK
<1>1. ASSUME NEW k \in Sweeps, SweepCommit(k)
      PROVE  RungInFlight' /\ EachRungQueuedOnce'
  <2>1. sweep[k].rung \in Rungs /\ queued[sweep[k].rung] = 0
    BY <1>0, <1>1 DEF SweepCommit, Sweep
  <2>2. \A r \in Rungs : queued'[r] <= 1
    BY <1>0, <1>1, <2>1 DEF SweepCommit
  <2>3. \A l \in Sweeps : sweep'[l].pc # "read"
    BY <1>0, <1>1 DEF SweepCommit, NoSweep
  <2> QED
    BY <2>2, <2>3
<1>2. ASSUME NEW k \in Sweeps, SweepRead(k)
      PROVE  RungInFlight' /\ EachRungQueuedOnce'
  <2>1. PICK r \in RungsToQueue(sweep[k].at) :
          sweep' = [sweep EXCEPT ![k].pc = "read", ![k].rung = r]
    BY <1>2 DEF SweepRead
  <2>2. queued[r] = 0
    BY <2>1 DEF RungsToQueue
  <2>3. \A l \in Sweeps : sweep'[l].rung = r
    <3>1. sweep[k] \in Sweep
      BY <1>0
    <3>2. sweep'[k].rung = r
      BY <1>0, <2>1, <3>1 DEF Sweep
    <3> QED
      BY <3>2
  <2> QED
    BY <1>2, <2>2, <2>3 DEF SweepRead
<1>3. ASSUME NEW k \in Sweeps, SweepScan(k) \/ SweepSkip(k) \/ SweepFail(k)
      PROVE  RungInFlight' /\ EachRungQueuedOnce'
  <2>1. CASE SweepScan(k)
    <3>1. sweep'[k].pc = "scanned"
      BY <1>0, <2>1 DEF SweepScan, NoSweep
    <3> QED
      BY <2>1, <3>1 DEF SweepScan
  <2>2. CASE SweepSkip(k) \/ SweepFail(k)
    <3>1. sweep'[k].pc = "idle"
      BY <1>0, <2>2 DEF SweepSkip, SweepFail, NoSweep
    <3> QED
      BY <2>2, <3>1 DEF SweepSkip, SweepFail
  <2> QED
    BY <1>3, <2>1, <2>2
<1>4. ASSUME UNCHANGED <<queued, sweep>>
      PROVE  RungInFlight' /\ EachRungQueuedOnce'
  BY <1>4
<1>5. ASSUME NEW s \in Slots, Read(s) PROVE UNCHANGED <<queued, sweep>>
  BY <1>5 DEF Read, PublicResponseRead, PatchEntryRead, TransitionRead,
     SaveDraftRead, DiscardDraftRead, SendRead, VerifyRead,
     RevertVerificationRead, SnoozeRead, Accept
<1>6. ASSUME NEW s \in Slots, Write(s) PROVE UNCHANGED <<queued, sweep>>
  BY <1>6 DEF Write, Commit, PatchEntryCommit, TransitionCommit,
     SaveDraftCommit, DiscardDraftCommit, SendCommit, VerifyCommit,
     RevertVerificationCommit, SnoozeCommit, PublicResponseCommit
<1> QED
  BY <1>1, <1>2, <1>3, <1>4, <1>5, <1>6
     DEF Next, Abort, AddEvent, ForceReescalate, Reconcile, Tick, vars

\* When runs of the SLA timer do not overlap, a rung is queued at most once,
\* whatever any number of API calls do between a run's read and its commit.
THEOREM SlaQueuesOnce ==
  ASSUME \A k, l \in Sweeps : k = l
  PROVE  Spec => []EachRungQueuedOnce
<1> DEFINE Inv == RungInFlight /\ EachRungQueuedOnce
<1>1. Init => Inv
  BY DEF Init, RungInFlight, EachRungQueuedOnce, NoSweep
<1>2. TypeOK /\ Inv /\ [Next]_vars => Inv'
  BY RungStep
<1> QED
  BY <1>1, <1>2, TypeCorrect, PTL DEF Spec

-----------------------------------------------------------------------------
(* One request at a time *)

OneRequest == (\A s, t \in Slots : s = t) /\ Sweeps = {}

\* The steps that may come between the read of the one call and its commit.
Between ==
  \/ \E c \in Channels : AddEvent(c)
  \/ \E u \in Users : ForceReescalate(u)
  \/ Reconcile
  \/ Tick
  \/ UNCHANGED vars

\* With one slot and no SLA run the step is a step of that slot, or between.
LEMMA OneRequestSteps ==
  ASSUME OneRequest, [Next]_vars, NEW s \in Slots
  PROVE  Read(s) \/ Write(s) \/ Abort(s) \/ Between
  BY DEF OneRequest, Next, Between

\* No edge leaves RESOLVED, and only resolving lowers the level.
LEMMA LegalTransitions ==
  ASSUME NEW from \in Stages, NEW to \in Stages, CanTransition(from, to),
         NEW level \in Levels
  PROVE  /\ from # "RESOLVED"
         /\ NextEscalationLevel(to, level) < level => to = "RESOLVED"
<1>1. from # "RESOLVED"
  BY DEF CanTransition, Legal
<1>2. NextEscalationLevel(to, level) < level => to = "RESOLVED"
  BY DEF NextEscalationLevel, Levels
<1> QED
  BY <1>1, <1>2

\* A call that has just read fits the row.
LEMMA ReadIsCurrent ==
  ASSUME TypeOK, DraftIsLocked, NEW s \in Slots, Read(s)
  PROVE  Current(s)'
<1> USE DEF Accept, Call, NoRequest
<1>0. /\ req \in [Slots -> Request] /\ row \in Row /\ now \in Nat
      /\ row.stage \in Stages /\ row.level \in Levels
      /\ row.slaDue \in Time /\ row.lockExp \in Time
  BY DEF TypeOK, Row
<1>1. ASSUME NEW u, ~LockedAgainst(u), row.draft # None, row.lockExp > now
      PROVE  row.draft = u
  BY <1>1 DEF LockedAgainst, DraftIsLocked
<1>2. CASE PublicResponseRead(s)
  <2>1. req'[s].op = "publicResponse"
    BY <1>0, <1>2 DEF PublicResponseRead
  <2> QED
    BY <2>1 DEF Current
<1>3. ASSUME NEW u \in Users,
             \/ PatchEntryRead(s, u) \/ RevertVerificationRead(s, u)
      PROVE  Current(s)'
  <2>1. req'[s].op \in {"patchEntry", "revertVerification"}
    BY <1>0, <1>3 DEF PatchEntryRead, RevertVerificationRead
  <2> QED
    BY <2>1 DEF Current
<1>4. ASSUME NEW u \in Users, TransitionRead(s, u) PROVE Current(s)'
  <2>1. PICK to \in Stages :
          /\ CanTransition(row.stage, to)
          /\ Accept(s, [Call("transition", u) EXCEPT
                          !.stage = to,
                          !.level = NextEscalationLevel(to, row.level),
                          !.resolved = NextResolved(to, row.resolved)])
    BY <1>4 DEF TransitionRead
  <2>2. /\ row.stage # "RESOLVED"
        /\ NextEscalationLevel(to, row.level) < row.level => to = "RESOLVED"
    BY <1>0, <2>1, LegalTransitions
  <2>3. /\ req'[s].op = "transition" /\ req'[s].stage = to
        /\ req'[s].level = NextEscalationLevel(to, row.level)
        /\ row' = row
    BY <1>0, <2>1
  <2> QED
    BY <2>2, <2>3 DEF Current
<1>5. ASSUME NEW u \in Users, SaveDraftRead(s, u) PROVE Current(s)'
  <2>1. /\ req'[s].op = "saveDraft" /\ req'[s].user = u
        /\ row.stage = "RESOLVED" => req'[s].stage = "RESOLVED"
        /\ row' = row /\ now' = now
    BY <1>0, <1>5 DEF SaveDraftRead
  <2>2. ~LockedAgainst(u)
    BY <1>5 DEF SaveDraftRead
  <2> QED
    BY <1>1, <2>1, <2>2 DEF Current
<1>6. ASSUME NEW u \in Users, DiscardDraftRead(s, u) PROVE Current(s)'
  <2>1. /\ req'[s].op = "discardDraft"
        /\ row.stage = "RESOLVED" => req'[s].stage = "RESOLVED"
        /\ row' = row
    BY <1>0, <1>6 DEF DiscardDraftRead
  <2> QED
    BY <2>1 DEF Current
<1>7. ASSUME NEW u \in Users, SendRead(s, u) PROVE Current(s)'
  <2>1. /\ req'[s].op = "send" /\ req'[s].user = u
        /\ row' = row /\ now' = now
    BY <1>0, <1>7 DEF SendRead
  <2>2. ~LockedAgainst(u) /\ row.stage # "RESOLVED"
    BY <1>7 DEF SendRead, Sendable
  <2> QED
    BY <1>1, <2>1, <2>2 DEF Current
<1>8. ASSUME NEW u \in Users, VerifyRead(s, u) PROVE Current(s)'
  <2>1. req'[s].op = "verify" /\ row' = row /\ row.verifiedBy = None
    BY <1>0, <1>8 DEF VerifyRead
  <2> QED
    BY <2>1 DEF Current
<1>9. ASSUME NEW u \in Users, SnoozeRead(s, u) PROVE Current(s)'
  <2> DEFINE base == IF row.slaDue = None THEN now ELSE row.slaDue
  <2>1. req'[s].op = "snooze" /\ req'[s].due = base + SnoozeTicks /\ row' = row
    BY <1>0, <1>9 DEF SnoozeRead
  <2>2. base \in Nat /\ SnoozeTicks \in Nat /\ SnoozeTicks > 0
    BY <1>0, ConstantsAssumption DEF Time
  <2>3. base + SnoozeTicks \in Nat /\ base + SnoozeTicks > base
    BY <2>2
  <2>4. req'[s].due # None
    BY <2>1, <2>3, ConstantsAssumption
  <2> QED
    BY <2>1, <2>3, <2>4 DEF Current
<1> QED
  BY <1>2, <1>3, <1>4, <1>5, <1>6, <1>7, <1>8, <1>9 DEF Read

\* Contacts, resets, audits and the clock may come between the read of a call
\* and its commit, and the call still fits the row.
LEMMA BetweenKeepsCurrent ==
  ASSUME TypeOK, DraftIsLocked, NEW s \in Slots, Current(s), Between
  PROVE  Current(s)'
<1>0. row \in Row /\ row.lockExp \in Time /\ now \in Nat
  BY DEF TypeOK, Row
<1>1. ASSUME req'[s] = req[s], now' = now, row'.level = row.level,
             row'.verifiedBy = row.verifiedBy, row'.draft = row.draft,
             row'.lockExp = row.lockExp,
             row'.stage \in {row.stage, "NEW"},
             row'.slaDue \in {row.slaDue, None}
      PROVE  Current(s)'
  BY <1>1 DEF Current
<1>2. ASSUME NEW c \in Channels, AddEvent(c) PROVE Current(s)'
  <2>1. /\ row'.level = row.level /\ row'.verifiedBy = row.verifiedBy
        /\ row'.draft = row.draft /\ row'.lockExp = row.lockExp
        /\ row'.stage = row.stage /\ row'.slaDue = row.slaDue
    BY <1>0, <1>2 DEF AddEvent, Contacted, Row
  <2> QED
    BY <1>1, <1>2, <2>1 DEF AddEvent
<1>3. ASSUME NEW u \in Users, ForceReescalate(u) PROVE Current(s)'
  <2>1. /\ row'.level = row.level /\ row'.verifiedBy = row.verifiedBy
        /\ row'.draft = row.draft /\ row'.lockExp = row.lockExp
        /\ row'.stage = "NEW" /\ row'.slaDue = None
    BY <1>0, <1>3 DEF ForceReescalate, Row
  <2> QED
    BY <1>1, <1>3, <2>1 DEF ForceReescalate
<1>4. CASE Reconcile
  <2>1. /\ row'.level = row.level /\ row'.verifiedBy = row.verifiedBy
        /\ row'.draft = row.draft /\ row'.lockExp = row.lockExp
        /\ row'.stage = row.stage /\ row'.slaDue = row.slaDue
    BY <1>0, <1>4 DEF Reconcile, Row
  <2> QED
    BY <1>1, <1>4, <2>1 DEF Reconcile
<1>5. CASE Tick
  <2>1. req'[s] = req[s] /\ row' = row /\ now' = now + 1
    BY <1>5 DEF Tick
  <2>2. row.draft # None => row.lockExp \in Nat
    BY <1>0 DEF DraftIsLocked, Time
  <2>3. row.draft # None /\ row.lockExp > now' => row.lockExp > now
    BY <1>0, <2>1, <2>2
  <2> QED
    BY <2>1, <2>3 DEF Current
<1>6. CASE UNCHANGED vars
  BY <1>6 DEF vars, Current
<1> QED
  BY <1>2, <1>3, <1>4, <1>5, <1>6 DEF Between

\* A commit and a failure leave the slot empty.
LEMMA EndedIsCurrent ==
  ASSUME TypeOK, NEW s \in Slots, Write(s) \/ Abort(s)
  PROVE  Current(s)'
<1>1. req' = [req EXCEPT ![s] = NoRequest]
  BY DEF Write, Abort, Commit, PatchEntryCommit, TransitionCommit,
     SaveDraftCommit, DiscardDraftCommit, SendCommit, VerifyCommit,
     RevertVerificationCommit, SnoozeCommit, PublicResponseCommit
<1>2. req'[s].op = "idle"
  BY <1>1 DEF TypeOK, NoRequest
<1> QED
  BY <1>2 DEF Current

LEMMA CurrentStep ==
  ASSUME TypeOK, DraftIsLocked, OneRequest, CallIsCurrent, [Next]_vars
  PROVE  CallIsCurrent'
<1> SUFFICES ASSUME NEW s \in Slots PROVE Current(s)'
  BY DEF CallIsCurrent
<1> QED
  BY OneRequestSteps, ReadIsCurrent, EndedIsCurrent, BetweenKeepsCurrent
     DEF CallIsCurrent

\* What each commit writes, as far as the properties of one request look.
LEMMA CommitWrites ==
  ASSUME TypeOK, NEW s \in Slots
  PROVE  /\ TransitionCommit(s) => /\ req[s].op = "transition"
                                   /\ row'.stage = req[s].stage
                                   /\ row'.level = req[s].level
                                   /\ row'.verifiedBy = row.verifiedBy
         /\ SaveDraftCommit(s) => /\ req[s].op = "saveDraft"
                                  /\ row'.stage = req[s].stage
                                  /\ row'.verifiedBy = row.verifiedBy
         /\ DiscardDraftCommit(s) => /\ req[s].op = "discardDraft"
                                     /\ row'.stage = req[s].stage
                                     /\ row'.verifiedBy = row.verifiedBy
         /\ SendCommit(s) => /\ req[s].op = "send"
                             /\ row'.verifiedBy = row.verifiedBy
         /\ VerifyCommit(s) => /\ req[s].op = "verify"
                               /\ row'.stage = "RESOLVED"
         /\ RevertVerificationCommit(s) => /\ row'.stage = row.stage
                                           /\ row'.verifiedBy = None
         /\ SnoozeCommit(s) => /\ req[s].op = "snooze"
                               /\ row'.stage = row.stage
                               /\ row'.slaDue = req[s].due
                               /\ row'.verifiedBy = row.verifiedBy
         /\ PatchEntryCommit(s) \/ PublicResponseCommit(s) =>
              row'.verifiedBy = row.verifiedBy
<1> USE DEF TypeOK, Row, Commit
<1>1. TransitionCommit(s) => /\ req[s].op = "transition"
                             /\ row'.stage = req[s].stage
                             /\ row'.level = req[s].level
                             /\ row'.verifiedBy = row.verifiedBy
  BY DEF TransitionCommit
<1>2. SaveDraftCommit(s) => /\ req[s].op = "saveDraft"
                            /\ row'.stage = req[s].stage
                            /\ row'.verifiedBy = row.verifiedBy
  BY DEF SaveDraftCommit
<1>3. DiscardDraftCommit(s) => /\ req[s].op = "discardDraft"
                               /\ row'.stage = req[s].stage
                               /\ row'.verifiedBy = row.verifiedBy
  BY DEF DiscardDraftCommit, Undrafted
<1>4. SendCommit(s) => /\ req[s].op = "send"
                       /\ row'.verifiedBy = row.verifiedBy
  BY DEF SendCommit, Contacted, Undrafted
<1>5. VerifyCommit(s) => /\ req[s].op = "verify"
                         /\ row'.stage = "RESOLVED"
  BY DEF VerifyCommit
<1>6. RevertVerificationCommit(s) => /\ row'.stage = row.stage
                                     /\ row'.verifiedBy = None
  BY DEF RevertVerificationCommit
<1>7. SnoozeCommit(s) => /\ req[s].op = "snooze"
                         /\ row'.stage = row.stage
                         /\ row'.slaDue = req[s].due
                         /\ row'.verifiedBy = row.verifiedBy
  BY DEF SnoozeCommit
<1>8. PatchEntryCommit(s) \/ PublicResponseCommit(s) =>
        row'.verifiedBy = row.verifiedBy
  BY DEF PatchEntryCommit, PublicResponseCommit
<1> QED
  BY <1>1, <1>2, <1>3, <1>4, <1>5, <1>6, <1>7, <1>8

\* The stage leaves RESOLVED only through an endpoint meant to do so, and a
\* verifier is replaced by nobody.
LEMMA ResolutionStays ==
  ASSUME TypeOK, OneRequest, CallIsCurrent, [Next]_vars
  PROVE  /\ row.stage = "RESOLVED" /\ row'.stage # "RESOLVED" => Reopens
         /\ row.verifiedBy # None => row'.verifiedBy \in {row.verifiedBy, None}
<1> DEFINE Goal == /\ row.stage = "RESOLVED" /\ row'.stage # "RESOLVED" => Reopens
                   /\ row.verifiedBy # None
                        => row'.verifiedBy \in {row.verifiedBy, None}
<1>0. row \in Row
  BY DEF TypeOK
<1>1. ASSUME NEW s \in Slots, Write(s) PROVE Goal
  <2>1. Current(s)
    BY DEF CallIsCurrent
  <2>2. CASE PatchEntryCommit(s) \/ PublicResponseCommit(s)
    BY <2>2, CommitWrites DEF Reopens
  <2>3. CASE TransitionCommit(s) \/ SendCommit(s)
    BY <2>1, <2>3, CommitWrites DEF Current
  <2>4. CASE SaveDraftCommit(s) \/ DiscardDraftCommit(s)
    BY <2>1, <2>4, CommitWrites DEF Current
  <2>5. CASE VerifyCommit(s)
    BY <2>1, <2>5, CommitWrites DEF Current
  <2>6. CASE RevertVerificationCommit(s) \/ SnoozeCommit(s)
    BY <2>6, CommitWrites
  <2> QED
    BY <1>1, <2>2, <2>3, <2>4, <2>5, <2>6 DEF Write
<1>2. ASSUME NEW c \in Channels, AddEvent(c) PROVE Goal
  BY <1>0, <1>2 DEF AddEvent, Contacted, Row
<1>3. ASSUME NEW u \in Users, ForceReescalate(u) PROVE Goal
  <2>1. row'.verifiedBy = row.verifiedBy
    BY <1>0, <1>3 DEF ForceReescalate, Row
  <2> QED
    BY <1>3, <2>1 DEF Reopens
<1>4. CASE Reconcile
  BY <1>0, <1>4 DEF Reconcile, Row
<1>5. ASSUME NEW s \in Slots, Read(s) PROVE UNCHANGED row
  BY <1>5 DEF Read, PublicResponseRead, PatchEntryRead, TransitionRead,
     SaveDraftRead, DiscardDraftRead, SendRead, VerifyRead,
     RevertVerificationRead, SnoozeRead, Accept
<1>6. ASSUME UNCHANGED row PROVE Goal
  BY <1>6
<1>7. ASSUME Tick \/ UNCHANGED vars \/ \E s \in Slots : Abort(s) PROVE UNCHANGED row
  BY <1>7 DEF Tick, vars, Abort
<1>8. (\E s \in Slots : Read(s) \/ Write(s) \/ Abort(s)) \/ Between
  BY DEF Next, OneRequest, Between
<1>9. CASE Between
  BY <1>2, <1>3, <1>4, <1>6, <1>7, <1>9 DEF Between
<1>10. ASSUME NEW s \in Slots, Read(s) \/ Write(s) \/ Abort(s) PROVE Goal
  BY <1>1, <1>5, <1>6, <1>7, <1>10
<1> QED
  BY <1>8, <1>9, <1>10

\* With one request at a time, whatever contacts, resets and audits come between
\* its read and its commit, no sequence of calls takes back a resolution, a
\* verification, another user's locked draft, a postponed due date or a rung.
THEOREM OneRequestTakesNothingBack ==
  ASSUME OneRequest
  PROVE  Spec => NothingIsTakenBack
<1> DEFINE Inv == DraftIsLocked /\ CallIsCurrent
<1>1. Spec => []DraftIsLocked
  BY DraftLockCorrect, PTL DEF DraftLock
<1>2. Init => CallIsCurrent
  BY DEF Init, CallIsCurrent, Current, NoRequest
<1>3. TypeOK /\ DraftIsLocked /\ CallIsCurrent /\ [Next]_vars => CallIsCurrent'
  BY CurrentStep
<1>4. Spec => []CallIsCurrent
  BY <1>1, <1>2, <1>3, TypeCorrect, PTL DEF Spec
<1>5. TypeOK /\ CallIsCurrent /\ [Next]_vars =>
        [row.stage = "RESOLVED" /\ row'.stage # "RESOLVED" =>
           (\/ \E s \in Slots : PatchEntryCommit(s) \/ PublicResponseCommit(s)
            \/ \E u \in Users : ForceReescalate(u))]_vars
  BY ResolutionStays DEF Reopens
<1>6. TypeOK /\ CallIsCurrent /\ [Next]_vars =>
        [row.verifiedBy # None => row'.verifiedBy \in {row.verifiedBy, None}]_vars
  BY ResolutionStays
<1>7. TypeOK /\ CallIsCurrent =>
        [\A s \in Slots :
           /\ SaveDraftCommit(s) \/ SendCommit(s)
           /\ row.draft # None /\ row.lockExp > now
           => row.draft = req[s].user]_vars
  BY CommitWrites DEF CallIsCurrent, Current
<1>8. TypeOK /\ CallIsCurrent =>
        [\A s \in Slots : SnoozeCommit(s) /\ row.slaDue # None
                            => row'.slaDue > row.slaDue]_vars
  BY CommitWrites DEF CallIsCurrent, Current
<1>9. TypeOK /\ CallIsCurrent =>
        [\A s \in Slots : TransitionCommit(s) /\ row'.level < row.level
                            => row'.stage = "RESOLVED"]_vars
  BY CommitWrites DEF CallIsCurrent, Current
<1> QED
  BY <1>4, <1>5, <1>6, <1>7, <1>8, <1>9, TypeCorrect, PTL
  DEF Spec, NothingIsTakenBack, ResolvedLeftByOverrideOnly, Reopens,
      FirstVerifierWins, DraftSurvivesOthers, SnoozePostpones, TransitionKeepsLevel
=============================================================================
