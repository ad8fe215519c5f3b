---------------------------- MODULE TrackingBulk ----------------------------
(***************************************************************************)
(* Bulk operations on the tracking entries of one process. A batch reads   *)
(* its entries once and then takes them one by one, in an order left open, *)
(* each in a transaction of its own that checks the entry again, while     *)
(* other batches do the same. A resolution starts all its entries          *)
(* together. (A snooze is one transaction, see TrackingLadder.)            *)
(*                                                                         *)
(* transition reads the entry, waits for the counter of event codes and    *)
(* then writes the stage it was asked for, so that check and write are two *)
(* steps.                                                                  *)
(***************************************************************************)
EXTENDS EscalationStages, Sequences

CONSTANTS
  Entries,
  Batches,   \* request slots
  Kinds,     \* the endpoints in use
  Started,   \* stages the entries are in to begin with
  MaxTicks,  \* bound on batches that take an entry
  None

VARIABLES
  stage,    \* per entry
  address,  \* per entry, whether its manager has an e-mail address
  batch,    \* per slot, the call it serves
  log,      \* per entry, its broadcast events: "prepared", "skipped", "failed"
  ticks     \* per entry, the batches that have taken it

vars == <<stage, address, batch, log, ticks>>

AllKinds == {"resolve", "acknowledge", "reescalate", "broadcast"}
Idle == [kind |-> "none"]

TypeOK ==
  /\ stage \in [Entries -> Stages] /\ address \in [Entries -> BOOLEAN]
  /\ \A b \in Batches : batch[b] # Idle =>
       /\ batch[b].kind \in AllKinds /\ batch[b].left \subseteq Entries
       /\ batch[b].read \in [Entries -> Stages]
       /\ batch[b].open \in [Entries -> [from : Stages, to : Stages] \cup {None}]
       /\ batch[b].result \in [Entries -> {"applied", "skipped", "failed", None}]
  /\ log \in [Entries -> Seq({"prepared", "skipped", "failed"})]
  /\ ticks \in [Entries -> Nat]

Init ==
  /\ stage \in [Entries -> Started] /\ address \in [Entries -> BOOLEAN]
  /\ batch = [b \in Batches |-> Idle]
  /\ log = [e \in Entries |-> <<>>] /\ ticks = [e \in Entries |-> 0]

NoneYet == [e \in Entries |-> None]

\* listEntries; a broadcast takes the entries that are not resolved.
Read(b, kind, chosen) ==
  /\ batch[b] = Idle /\ chosen # {} /\ kind \in Kinds
  /\ kind = "broadcast" => chosen = {e \in Entries : stage[e] # "RESOLVED"}
  /\ \A e \in chosen : ticks[e] < MaxTicks
  /\ ticks' = [e \in Entries |-> IF e \in chosen THEN ticks[e] + 1 ELSE ticks[e]]
  /\ batch' = [batch EXCEPT ![b] =
       [kind |-> kind, left |-> chosen, read |-> stage,
        had |-> [e \in Entries |-> Len(log[e])], open |-> NoneYet, result |-> NoneYet]]
  /\ UNCHANGED <<stage, address, log>>

Call(b, kind) == batch[b] # Idle /\ batch[b].kind = kind

Done(b, e, outcome) ==
  batch' = [batch EXCEPT ![b].left = @ \ {e},
                         ![b].open[e] = None, ![b].result[e] = outcome]

Target(s) ==
  CASE s \in {"AWAITING_RESPONSE", "NO_RESPONSE", "SENT"} -> "ESCALATED_L1"
    [] s = "ESCALATED_L1"                                 -> "ESCALATED_L2"
    [] OTHER                                              -> None

\* Mutant: the target is picked when the entry's turn comes.
PickReescalationTargetLate(b, e) == Target(stage[e])

\* pickReescalationTarget, from the stage the batch has read.
PickReescalationTarget(b, e) == Target(batch[b].read[e])

Asked(b, e) ==
  CASE Call(b, "resolve")     -> "RESOLVED"
    [] Call(b, "acknowledge") -> "RESPONDED"
    [] OTHER                  -> PickReescalationTarget(b, e)

\* The entries whose turn it may be: but in a resolution, one at a time.
Turn(b) ==
  IF Call(b, "resolve") \/ batch[b].open = NoneYet THEN batch[b].left ELSE {}

Permitted(from, to) == to # None /\ CanTransition(from, to)

\* transition reads the entry; an illegal step is skipped, or, in a
\* resolution, fails the call without stopping the others.
Check(b) ==
  /\ batch[b] # Idle /\ batch[b].kind \in {"resolve", "acknowledge", "reescalate"}
  /\ \E e \in Turn(b) :
       /\ batch[b].open[e] = None
       /\ IF Permitted(stage[e], Asked(b, e))
            THEN batch' = [batch EXCEPT ![b].open[e] =
                             [from |-> stage[e], to |-> Asked(b, e)]]
            ELSE Done(b, e, IF Call(b, "resolve") THEN "failed" ELSE "skipped")
  /\ UNCHANGED <<stage, address, log, ticks>>

\* ... and writes the stage.
Commit(b, e) ==
  /\ batch[b] # Idle /\ batch[b].open[e] # None
  /\ stage' = [stage EXCEPT ![e] = batch[b].open[e].to]
  /\ Done(b, e, "applied")
  /\ UNCHANGED <<address, log, ticks>>

Record(e, outcome) == log' = [log EXCEPT ![e] = Append(@, outcome)]

\* broadcast: an entry is skipped, prepared or has failed, each with an event.
\* Writing the event of a skip or of a failure may fail in turn, and then the
\* rest of the batch is given up.
Broadcast(b) ==
  /\ Call(b, "broadcast")
  /\ \E e \in batch[b].left :
        \/ /\ ~address[e] /\ Record(e, "skipped") /\ Done(b, e, "skipped")
        \/ /\ address[e] /\ Record(e, "prepared") /\ Done(b, e, "applied")
        \/ /\ address[e] /\ Record(e, "failed") /\ Done(b, e, "failed")
        \/ UNCHANGED log /\ batch' = [batch EXCEPT ![b] = Idle]
  /\ UNCHANGED <<stage, address, ticks>>

Answer(b) ==
  /\ batch[b] # Idle /\ batch[b].left = {}
  /\ batch' = [batch EXCEPT ![b] = Idle]
  /\ UNCHANGED <<stage, address, log, ticks>>

Next ==
  \E b \in Batches :
    \/ \E kind \in AllKinds, chosen \in SUBSET Entries : Read(b, kind, chosen)
    \/ Check(b) \/ Broadcast(b) \/ Answer(b)
    \/ \E e \in Entries : Commit(b, e)

Spec == Init /\ [][Next]_vars

-----------------------------------------------------------------------------

\* A bulk step takes an entry out of RESOLVED only if its check had passed
\* before the entry was resolved: with no overlap a resolution is final.
ReopenedByOverlapOnly ==
  [][\A e \in Entries : stage[e] = "RESOLVED" /\ stage'[e] # "RESOLVED" =>
       \E b \in Batches : /\ batch[b] # Idle /\ batch[b].open[e] # None
                          /\ batch[b].open[e].from # "RESOLVED"]_vars

\* Two auditors who re-escalate what they saw on the same screen take an entry
\* up one rung, not two: it reaches L2 only by a batch that saw it at L1.
OnePressOneRung ==
  [][\A e \in Entries : stage[e] # "ESCALATED_L2" /\ stage'[e] = "ESCALATED_L2" =>
       \E b \in Batches : Call(b, "reescalate") /\ batch[b].read[e] = "ESCALATED_L1"]_vars

\* Every recipient a broadcast reports has an event of it in its history, the
\* skipped and the failed ones too.
ReportedIsOnRecord ==
  \A b \in Batches : Call(b, "broadcast") =>
    \A e \in Entries : batch[b].result[e] # None => Len(log[e]) > batch[b].had[e]

\* Together: overlapping batches do to each entry what they report, from what
\* they saw.
BatchesDoWhatTheySaw == []ReportedIsOnRecord /\ ReopenedByOverlapOnly /\ OnePressOneRung
=============================================================================
