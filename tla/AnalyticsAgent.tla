--------------------------- MODULE AnalyticsAgent ---------------------------
(***************************************************************************)
(* Questions about one process, from the chat pane of a browser over the   *)
(* API to the sidecar's agent and back. The API reads the rows the         *)
(* question is about, function by function, and ships them; the sidecar    *)
(* keeps them as a dataset, in an LRU cache shared with everybody's        *)
(* questions, and lets a language model query it for a few rounds.         *)
(*                                                                         *)
(* The answers the API keeps are in ChatCache; here every question reaches *)
(* the sidecar. The model may say anything, or nothing.                    *)
(***************************************************************************)
EXTENDS Naturals, FiniteSets, SequencesExt

CONSTANTS
  Registry,      \* FUNCTION_REGISTRY, a sequence of functions
  Refs,          \* display codes of saved versions
  None,          \* no function: the whole process. No version: the latest
  Panes,
  Elsewhere,     \* datasets of other processes
  MaxDatasets,   \* max_entries of DuckCache
  MaxIterations, \* AGENT_MAX_ITER
  MaxRuns        \* bound on the runs of a function

VARIABLES
  latest,   \* per function, its last completed run
  saved,    \* per saved version, the run it was made of
  datasets, \* DuckCache, least recently asked first
  chat,     \* per pane, what its question has come to in API and sidecar
  pane      \* per pane, its pending question and what React has queued

vars == <<latest, saved, datasets, chat, pane>>

Scopes == Range(Registry) \cup {None}
Runs == Range(Registry) \X (1..MaxRuns)

\* _hash_rows is taken as injective, its first eight digits too.
Keys == ({"ref"} \X Refs) \cup ({"hash"} \X SUBSET Runs) \cup ({"other"} \X Elsewhere)

Answers == {"final", "error"}
Updates == {"answer", "error", "no answer", "failed", "idle"}

NoChat == [pc |-> "none"]
Streams ==
  [pc : {"reading"}, scope : Scopes, ref : Refs \cup {None}, rows : SUBSET Runs,
   left : Seq(Range(Registry))]
    \cup [pc : {"agent"}, scope : Scopes, rows : SUBSET Runs, key : Keys, round : 1..MaxIterations]
    \cup [pc : {"relaying"}, out : Seq(Answers)]
    \cup {NoChat}
Idle == [pending |-> FALSE, sawFinal |-> FALSE, queue |-> <<>>]

TypeOK ==
  /\ latest \in [Range(Registry) -> 0..MaxRuns] /\ saved \in [Refs -> Runs \cup {<<>>}]
  /\ datasets \in Seq([key : Keys, rows : SUBSET Runs, scope : Scopes])
  /\ chat \in [Panes -> Streams]
  /\ pane \in [Panes -> [pending : BOOLEAN, sawFinal : BOOLEAN, queue : Seq(Updates)]]

Init ==
  /\ latest = [f \in Range(Registry) |-> 0] /\ saved = [r \in Refs |-> <<>>] /\ datasets = <<>>
  /\ chat = [p \in Panes |-> NoChat] /\ pane = [p \in Panes |-> Idle]

AuditRun(f) ==
  /\ latest[f] < MaxRuns /\ latest' = [latest EXCEPT ![f] = @ + 1]
  /\ UNCHANGED <<saved, datasets, chat, pane>>

SaveVersion(r, f) ==
  /\ saved[r] = <<>>
  /\ \E n \in 1..latest[f] : saved' = [saved EXCEPT ![r] = <<f, n>>]
  /\ UNCHANGED <<latest, datasets, chat, pane>>

\* ask: one question at a time. What an earlier one still does on the server
\* goes nowhere.
Ask(p, scope, ref) ==
  /\ ~pane[p].pending
  /\ ref # None => saved[ref] # <<>>
  /\ pane' = [pane EXCEPT ![p] = [Idle EXCEPT !.pending = TRUE]]
  /\ chat' = [chat EXCEPT ![p] = [pc |-> "reading", scope |-> scope, ref |-> ref, rows |-> {},
                                  left |-> IF scope = None THEN Registry ELSE <<scope>>]]
  /\ UNCHANGED <<latest, saved, datasets>>

\* buildRows: only a question about one function looks at the version.
RunFor(c, f) ==
  IF c.ref # None /\ c.scope # None THEN (IF saved[c.ref][1] = f THEN saved[c.ref][2] ELSE 0)
  ELSE latest[f]

ReadFunction(p) ==
  LET c == chat[p]
      f == Head(c.left)
      rows == IF RunFor(c, f) = 0 THEN {} ELSE {<<f, RunFor(c, f)>>}
  IN /\ c.pc = "reading" /\ c.left # <<>>
     /\ chat' = [chat EXCEPT ![p].rows = @ \cup rows, ![p].left = Tail(@)]
     /\ UNCHANGED <<latest, saved, datasets, pane>>

Relay(answer) == [pc |-> "relaying", out |-> <<answer>>]

\* The sidecar cannot be reached: UPSTREAM_UNAVAILABLE.
Unavailable(p) ==
  /\ chat[p].pc = "reading" /\ chat[p].left = <<>>
  /\ chat' = [chat EXCEPT ![p] = Relay("error")]
  /\ UNCHANGED <<latest, saved, datasets, pane>>

\* Mutant: what the API calls the dataset version, "latest".
KeyOfScope(c) == IF c.ref # None THEN <<"ref", c.ref>> ELSE <<"hash", {}>>

\* dataset_version in stream_chat.
DatasetKey(c) == IF c.ref # None THEN <<"ref", c.ref>> ELSE <<"hash", c.rows>>

\* DuckCache.materialize: a dataset that is there stays as it is and becomes
\* the youngest; a new one pushes the oldest out.
At(key) == {i \in DOMAIN datasets : datasets[i].key = key}
Materialize(key, rows, scope) ==
  LET all == Append(datasets, [key |-> key, rows |-> rows, scope |-> scope])
  IN \/ \E i \in At(key) : datasets' = Append(RemoveAt(datasets, i), datasets[i])
     \/ At(key) = {} /\ datasets' = IF Len(all) > MaxDatasets THEN Tail(all) ELSE all

\* Its rows are read, and become a dataset, or the one of that key is taken.
Shipped(p) ==
  /\ chat[p].pc = "reading" /\ chat[p].left = <<>>
  /\ Materialize(DatasetKey(chat[p]), chat[p].rows, chat[p].scope)
  /\ UNCHANGED <<latest, saved, pane>>

\* Asked for the stub, the sidecar answers from a list.
StubAnswer(p) == Shipped(p) /\ chat' = [chat EXCEPT ![p] = Relay("final")]

\* stream_chat: the agent answers at once if there are no rows.
StreamChat(p) ==
  /\ Shipped(p)
  /\ chat' = [chat EXCEPT ![p] =
       IF @.rows = {} THEN Relay("final")
       ELSE [pc |-> "agent", scope |-> @.scope, rows |-> @.rows, key |-> DatasetKey(@), round |-> 1]]

\* Somebody asks about another process.
OtherChat(o) ==
  /\ Materialize(<<"other", o>>, {}, None)
  /\ UNCHANGED <<latest, saved, chat, pane>>

End(p, answer) == chat' = [chat EXCEPT ![p] = Relay(answer)]

\* Another round, unless it was the last: "Iteration limit reached".
Continue(p) ==
  IF chat[p].round = MaxIterations THEN End(p, "final") ELSE chat' = [chat EXCEPT ![p].round = @ + 1]

\* _local_chat fails.
ModelFails(p) ==
  chat[p].pc = "agent" /\ End(p, "error") /\ UNCHANGED <<latest, saved, datasets, pane>>

\* What is neither an answer nor a query, or no JSON at all, is taken as the answer.
Unparsed(p) ==
  chat[p].pc = "agent" /\ End(p, "final") /\ UNCHANGED <<latest, saved, datasets, pane>>

\* A final answer. A chart that does not validate goes back to the model while
\* there are rounds left, and is left out of the answer after them.
Final(p, validChart) ==
  /\ chat[p].pc = "agent"
  /\ IF validChart \/ chat[p].round = MaxIterations THEN End(p, "final") ELSE Continue(p)
  /\ UNCHANGED <<latest, saved, datasets, pane>>

\* A query. Its rows, or what safe_query or the database has against it, go
\* back to the model; without the dataset (NO_DATASET) it is over.
Query(p) ==
  /\ chat[p].pc = "agent"
  /\ IF At(chat[p].key) = {} THEN End(p, "error") ELSE Continue(p)
  /\ UNCHANGED <<latest, saved, datasets, pane>>

\* onEvent queues an update of the messages; React runs it at once only if
\* nothing else is queued, and sawFinal is set when it runs.
Receive(p) ==
  LET update == IF Head(chat[p].out) = "final" THEN "answer" ELSE "error"
  IN /\ chat[p].pc = "relaying" /\ chat[p].out # <<>> /\ pane[p].pending
     /\ chat' = [chat EXCEPT ![p].out = Tail(@)]
     /\ \E early \in {FALSE, pane[p].queue = <<>>} :
          pane' = [pane EXCEPT ![p].queue = Append(@, update),
                               ![p].sawFinal = @ \/ (early /\ update = "answer")]
     /\ UNCHANGED <<latest, saved, datasets>>

\* The stream has ended. The answer of a stream that brought none says so.
EndOfStream(p) ==
  LET closing == IF pane[p].sawFinal THEN <<"idle">> ELSE <<"no answer", "idle">>
  IN /\ chat[p].pc = "relaying" /\ chat[p].out = <<>> /\ pane[p].pending
     /\ chat' = [chat EXCEPT ![p] = NoChat]
     /\ pane' = [pane EXCEPT ![p].queue = @ \o closing]
     /\ UNCHANGED <<latest, saved, datasets>>

\* Mutant: pending is cleared at the end of the stream only.
BreakStaysPending(p) ==
  /\ pane[p].pending /\ chat[p].pc # "none"
  /\ chat' = [chat EXCEPT ![p] = NoChat]
  /\ pane' = [pane EXCEPT ![p].queue = Append(@, "failed")]
  /\ UNCHANGED <<latest, saved, datasets>>

\* The request fails, or is aborted after ten minutes.
Break(p) ==
  /\ pane[p].pending /\ chat[p].pc # "none"
  /\ chat' = [chat EXCEPT ![p] = NoChat]
  /\ pane' = [pane EXCEPT ![p].queue = @ \o <<"failed", "idle">>]
  /\ UNCHANGED <<latest, saved, datasets>>

\* React runs what is queued, in order; the last text stays.
Render(p) ==
  LET q == pane[p].queue
  IN /\ q # <<>>
     /\ pane' = IF Contains(q, "idle") THEN [pane EXCEPT ![p] = Idle]
                ELSE [pane EXCEPT ![p].sawFinal = @ \/ Contains(q, "answer"), ![p].queue = <<>>]
     /\ UNCHANGED <<latest, saved, datasets, chat>>

Next ==
  \/ \E f \in Range(Registry) : AuditRun(f) \/ \E r \in Refs : SaveVersion(r, f)
  \/ \E o \in Elsewhere : OtherChat(o)
  \/ \E p \in Panes :
       \/ \E scope \in Scopes, ref \in Refs \cup {None} : Ask(p, scope, ref)
       \/ ReadFunction(p) \/ Unavailable(p) \/ StubAnswer(p) \/ StreamChat(p)
       \/ ModelFails(p) \/ Unparsed(p) \/ \E v \in BOOLEAN : Final(p, v)
       \/ Query(p) \/ Receive(p) \/ EndOfStream(p) \/ Break(p) \/ Render(p)

Spec == Init /\ [][Next]_vars

\* React renders what is queued, and the ten minutes pass.
Fairness == \A p \in Panes : WF_vars(Render(p)) /\ WF_vars(Break(p))
FairSpec == Spec /\ Fairness

Working == {p \in Panes : chat[p].pc = "agent"}

\* "The agent's SQL only ever sees rows the user is already authorised to read"
\* (sql.py:3): what a question without a version can query are the rows shipped
\* with it, whatever runs complete and whoever else asks; what one with a version
\* can query was shipped for that version, if nobody asked for it from another scope.
SqlSeesItsRows ==
  \A p \in Working : \A i \in DOMAIN datasets :
    LET c == chat[p]
        d == datasets[i]
        sameQuestion == c.key[1] = "hash" \/ (c.scope # None /\ c.scope = d.scope)
    IN d.key = c.key /\ sameQuestion => d.rows = c.rows

\* No two datasets under one key, and no more than the limit.
CacheIsBounded ==
  /\ Len(datasets) <= MaxDatasets
  /\ \A i, j \in DOMAIN datasets : datasets[i].key = datasets[j].key => i = j

\* Together: questions at a time do not see each other's rows.
AgentKeepsApart == SqlSeesItsRows /\ CacheIsBounded

\* Whatever model, sidecar and network do, a new question is possible in the end.
PaneSettles == \A p \in Panes : pane[p].pending ~> ~pane[p].pending

\* Does not hold: with a version too, the SQL sees the rows shipped with the
\* question. The workbench asks about the whole process, where the version
\* changes only the name they are kept under, and a later run's are not looked at.
VersionSeesItsRows ==
  \A p \in Working : \A i \in DOMAIN datasets :
    datasets[i].key = chat[p].key => datasets[i].rows = chat[p].rows

\* Does not hold: an answer that came is shown. When the end of the stream is
\* read before React has run the update, it is overwritten with "No answer
\* returned", and so is the message of every error.
AnswerIsShown ==
  [][\A p \in Panes : EndOfStream(p) /\ Contains(pane[p].queue, "answer")
                        => Last(SelectSeq(pane'[p].queue, LAMBDA u : u # "idle")) = "answer"]_vars
=============================================================================
