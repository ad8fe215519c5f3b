---------------------------- MODULE OneShotLink ----------------------------
(***************************************************************************)
(* What a signed response link promises, with none of its machinery: an    *)
(* answer takes effect at once and as a whole, and a link gives at most    *)
(* one. The links in IssueLinks name the issue; their answer sets its      *)
(* acknowledgment, a correction also leaves a correction behind, and with  *)
(* it, never alone, the manager's tracking entry moves. Auditors set       *)
(* acknowledgment and correction whenever they like.                       *)
(***************************************************************************)
EXTENDS Sequences, Naturals

CONSTANTS Links, IssueLinks, None

Actions == {"acknowledge", "correct", "dispute"}

Statuses == {"acknowledged", "corrected", "needs_review"}

\* The acknowledgment status an answer leaves on its issue.
StatusOf(action) == CASE action = "acknowledge" -> "acknowledged"
                      [] action = "correct"     -> "corrected"
                      [] OTHER                  -> "needs_review"

VARIABLES log,        \* the recorded answers, oldest first
          ack,        \* the issue's acknowledgment, None before the first
          correction, \* whether the issue has a correction
          entry       \* stage and resolved flag of the tracking entry

vars == <<log, ack, correction, entry>>

Init ==
  /\ log = <<>> /\ ack = None /\ correction = FALSE
  /\ entry = [stage |-> "NEW", resolved |-> FALSE]

Answered(l) == \E i \in 1..Len(log) : log[i].link = l

\* Where an answer about the issue may take the entry. A dispute leaves it.
EntryAfter(action) ==
  CASE action = "correct"     -> {[stage |-> "RESOLVED", resolved |-> TRUE]}
    [] action = "acknowledge" -> [stage : {"RESPONDED"}, resolved : BOOLEAN]
    [] OTHER                  -> {}

Answer(l, action) ==
  /\ ~Answered(l)
  /\ log' = Append(log, [link |-> l, action |-> action])
  /\ IF l \in IssueLinks
       THEN /\ ack' = StatusOf(action)
            /\ correction' = (correction \/ action = "correct")
            /\ entry' \in EntryAfter(action) \cup {entry}
       ELSE UNCHANGED <<ack, correction, entry>>

Audit ==
  /\ \/ ack' \in Statuses /\ UNCHANGED correction
     \/ correction' \in BOOLEAN /\ UNCHANGED ack
  /\ UNCHANGED <<log, entry>>

Next == Audit \/ \E l \in Links, action \in Actions : Answer(l, action)

Spec == Init /\ [][Next]_vars
=============================================================================
