-------------------------- MODULE EscalationStages --------------------------
(***************************************************************************)
(* The escalation ladder of @ses/domain as pure operators: the stages a    *)
(* tracking entry can be in, the edges between them, and what taking an    *)
(* edge does to the escalation level and the resolved flag.                *)
(*                                                                         *)
(* Source: packages/domain/src/escalation/escalationStages.ts              *)
(***************************************************************************)
EXTENDS Integers

Stages == {"NEW", "DRAFTED", "SENT", "AWAITING_RESPONSE", "RESPONDED",
           "NO_RESPONSE", "ESCALATED_L1", "ESCALATED_L2", "RESOLVED"}

Levels == 0..2

\* The edge table LEGAL. RESOLVED has no outgoing edge.
Legal ==
  [ NEW               |-> {"DRAFTED", "SENT", "AWAITING_RESPONSE", "RESOLVED"},
    DRAFTED           |-> {"NEW", "SENT"},
    SENT              |-> {"AWAITING_RESPONSE", "RESPONDED", "NO_RESPONSE",
                           "RESOLVED"},
    AWAITING_RESPONSE |-> {"RESPONDED", "NO_RESPONSE", "SENT", "ESCALATED_L1",
                           "RESOLVED"},
    RESPONDED         |-> {"RESOLVED", "AWAITING_RESPONSE", "NO_RESPONSE"},
    NO_RESPONSE       |-> {"ESCALATED_L1", "SENT", "AWAITING_RESPONSE",
                           "RESOLVED"},
    ESCALATED_L1      |-> {"ESCALATED_L2", "SENT", "AWAITING_RESPONSE",
                           "RESOLVED", "NO_RESPONSE"},
    ESCALATED_L2      |-> {"RESOLVED", "SENT", "NO_RESPONSE",
                           "AWAITING_RESPONSE"},
    RESOLVED          |-> {} ]

CanTransition(from, to) == from # to /\ to \in Legal[from]

\* Mutant: every escalation counts one more.
NextEscalationLevelUncapped(to, current) ==
  CASE to = "RESOLVED"                       -> 0
    [] to \in {"ESCALATED_L1", "ESCALATED_L2"} -> current + 1
    [] OTHER                                 -> current

\* nextEscalationLevel: reaching L1 never lowers the level, L2 sets it,
\* resolving clears it, every other edge keeps it.
NextEscalationLevel(to, current) ==
  CASE to = "RESOLVED"     -> 0
    [] to = "ESCALATED_L1" -> IF current > 1 THEN current ELSE 1
    [] to = "ESCALATED_L2" -> 2
    [] OTHER               -> current

\* transition(): resolving sets the flag, no other edge clears it.
NextResolved(to, current) == to = "RESOLVED" \/ current
=============================================================================
