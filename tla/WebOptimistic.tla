---------------------------- MODULE WebOptimistic ----------------------------
(***************************************************************************)
(* What one browser shows before the server has answered: the contacts and *)
(* manual moves of one manager's tracking entry, which a refusal rolls     *)
(* back to the entry as it was when the change was made, and the comments  *)
(* of one issue, which carry a temporary id until the server names them.   *)
(*                                                                         *)
(* A change or a comment is told from the others by its number. The server *)
(* serves requests in any order.                                           *)
(***************************************************************************)
EXTENDS Naturals, Sequences, SequencesExt

CONSTANTS
  Changes,   \* contacts and moves the user makes, at most once each
  Contacts,  \* the ones that are contacts, which take two requests
  Comments   \* comments the user adds

VARIABLES
  shown,    \* the history of the entry in the store, as changes
  change,   \* per change, how far it is and the entry before it
  held,     \* changes the server has recorded
  overlap,  \* per change, the changes under way with it at some time
  listed,   \* the comments shown, each under its temporary or its own id
  comment,  \* per comment, its creation and its deletion
  stored    \* comments the server has

vars == <<shown, change, held, overlap, listed, comment, stored>>

Steps == {"idle", "entry", "event", "saved", "refused"}

TypeOK ==
  /\ shown \in Seq(Changes) /\ held \subseteq Changes
  /\ \A c \in Changes : change[c].pc \in Steps /\ change[c].prior \in Seq(Changes)
  /\ overlap \in [Changes -> SUBSET Changes]
  /\ listed \in [Comments -> {"absent", "temporary", "named"}]
  /\ comment \in [Comments -> [create : {"idle", "sent", "named", "failed"},
                                delete : {"none", "sent", "early", "unknown", "gone", "failed"}]]
  /\ stored \subseteq Comments

Init ==
  /\ shown = <<>> /\ held = {}
  /\ change = [c \in Changes |-> [pc |-> "idle", prior |-> <<>>]]
  /\ overlap = [c \in Changes |-> {}]
  /\ listed = [n \in Comments |-> "absent"]
  /\ comment = [n \in Comments |-> [create |-> "idle", delete |-> "none"]]
  /\ stored = {}

entryVars == <<shown, change, held, overlap>>
commentVars == <<listed, comment, stored>>

UnderWay == {c \in Changes : change[c].pc \in {"entry", "event"}}

\* recordTrackingEvent and setTrackingStage: the entry before the change is
\* kept, the upsert sent, the change shown at once.
Make(c) ==
  /\ change[c].pc = "idle"
  /\ change' = [change EXCEPT ![c] = [pc |-> "entry", prior |-> shown]]
  /\ shown' = Append(shown, c)
  /\ overlap' = [d \in Changes |->
       CASE d = c             -> UnderWay
         [] d \in UnderWay    -> overlap[d] \cup {c}
         [] OTHER             -> overlap[d]]
  /\ UNCHANGED <<held, commentVars>>

\* A move is recorded by the upsert itself, a contact by a second request.
Serve(c) ==
  /\ \/ /\ change[c].pc = "entry" /\ c \in Contacts
        /\ change' = [change EXCEPT ![c].pc = "event"] /\ UNCHANGED held
     \/ /\ change[c].pc = IF c \in Contacts THEN "event" ELSE "entry"
        /\ change' = [change EXCEPT ![c].pc = "saved"] /\ held' = held \cup {c}
  /\ UNCHANGED <<shown, overlap, commentVars>>

\* Mutant: a refusal is only reported.
RolledBackNever(c) == shown

RolledBack(c) == change[c].prior

Refuse(c) ==
  /\ c \in UnderWay
  /\ change' = [change EXCEPT ![c].pc = "refused"]
  /\ shown' = RolledBack(c)
  /\ UNCHANGED <<held, overlap, commentVars>>

\* addIssueComment.
AddComment(n) ==
  /\ comment[n].create = "idle"
  /\ comment' = [comment EXCEPT ![n].create = "sent"]
  /\ listed' = [listed EXCEPT ![n] = "temporary"]
  /\ UNCHANGED <<stored, entryVars>>

\* The answer gives the comment its id, if it is still there.
Named(n) == IF listed[n] = "temporary" THEN "named" ELSE listed[n]

CommentSaved(n) ==
  /\ comment[n].create = "sent"
  /\ comment' = [comment EXCEPT ![n].create = "named"] /\ stored' = stored \cup {n}
  /\ listed' = [listed EXCEPT ![n] = Named(n)]
  /\ UNCHANGED entryVars

CommentFails(n) ==
  /\ comment[n].create = "sent"
  /\ comment' = [comment EXCEPT ![n].create = "failed"]
  /\ UNCHANGED <<listed, stored, entryVars>>

\* deleteIssueComment sends the id shown, which the server may not know.
DeleteComment(n) ==
  /\ listed[n] # "absent" /\ listed' = [listed EXCEPT ![n] = "absent"]
  /\ comment' = [comment EXCEPT ![n].delete =
                   CASE listed[n] = "named"         -> "sent"
                     [] comment[n].create = "sent" -> "early"
                     [] OTHER                      -> "unknown"]
  /\ UNCHANGED <<stored, entryVars>>

DeleteServed(n) ==
  /\ comment[n].delete = "sent"
  /\ \/ comment' = [comment EXCEPT ![n].delete = "gone"] /\ stored' = stored \ {n}
     \/ comment' = [comment EXCEPT ![n].delete = "failed"] /\ UNCHANGED stored
  /\ UNCHANGED <<listed, entryVars>>

Next ==
  \/ \E c \in Changes : Make(c) \/ Serve(c) \/ Refuse(c)
  \/ \E n \in Comments : AddComment(n) \/ CommentSaved(n) \/ CommentFails(n)
                           \/ DeleteComment(n) \/ DeleteServed(n)

Spec == Init /\ [][Next]_vars

-----------------------------------------------------------------------------

Ended(c) == change[c].pc \in {"saved", "refused"}
Shown(c) == Contains(shown, c)
Refused(c) == change[c].pc = "refused"

\* Once its requests have ended, a change is shown if and only if the server
\* has it, unless another change under way with it was refused: a rollback
\* restores the whole entry, and takes back or brings back what else happened.
ShownIffHeld ==
  \A c \in Changes : Ended(c) =>
    \/ Shown(c) <=> c \in held
    \/ \E d \in overlap[c] : Refused(d)

\* Does not hold: each refusal takes back its own change, whatever else is under
\* way. Another rollback may bring it back.
RefusedIsTakenBack == \A c \in Changes : Refused(c) => ~Shown(c)

\* A comment deleted in the browser is deleted on the server, unless it was
\* deleted before its creation was answered or the server refused.
DeletedIsGone ==
  \A n \in Comments :
    comment[n].create = "named" /\ listed[n] = "absent" =>
      n \notin stored \/ comment[n].delete \in {"sent", "early", "failed"}

\* Together: what is shown is what the server holds, refusals apart.
ShownIsHeld == ShownIffHeld /\ DeletedIsGone
=============================================================================
