------------------------------- MODULE AiRules -------------------------------
(***************************************************************************)
(* The AI pilot's rules for one function: samples that are uploaded into   *)
(* sandbox sessions, sessions that expire and are reaped, rules that are   *)
(* saved, paused, resumed and archived, and the rules an audit run loads.  *)
(*                                                                         *)
(* Two rules are the same check when flag message and logic are equal, the *)
(* signature. Where saveRule compares signatures it compares JSON texts,   *)
(* the incoming one with one read from a JSONB column, which does not keep *)
(* the order of keys; loadActiveSpecs compares two that were both read.    *)
(***************************************************************************)
EXTENDS Naturals, FiniteSets

CONSTANTS
  Sessions, \* sandbox sessions ever opened
  Codes,    \* rule codes, each from one answer of the generator
  Sigs,     \* signatures
  Slots,    \* saves in flight
  None

Statuses == {"active", "paused", "archived"}

VARIABLES
  upload,  \* per session, how far uploadSample has come
  meta,    \* per session, the status of its uploaded-object row, or None
  stored,  \* sessions whose sample is in the object store
  session, \* per session, "none", "live", "expired" or "reaped"
  rule,    \* per code, the AuditRule row with its signature, None without one
  saving,  \* per slot, the saveRule in progress
  wanted   \* signatures saved and not paused or archived by anybody since

vars == <<upload, meta, stored, session, rule, saving, wanted>>

\* order: whether the keys of the incoming logic come in the order in which
\* the database returns them; twins: the active rules found to be the same.
Idle == [pc |-> "idle"]
Saves == [pc : {"checked", "found"}, code : Codes, sig : Sigs,
          session : Sessions, order : {"database", "other"}, twins : SUBSET Codes]

TypeOK ==
  /\ upload \in [Sessions -> {"none", "reserved", "put", "marked", "over"}]
  /\ meta \in [Sessions -> {None, "pending", "uploaded", "failed"}]
  /\ stored \subseteq Sessions
  /\ session \in [Sessions -> {"none", "live", "expired", "reaped"}]
  /\ rule \in [Codes -> [sig : Sigs, status : Statuses] \cup {None}]
  /\ saving \in [Slots -> Saves \cup {Idle}]
  /\ wanted \subseteq Sigs

Init ==
  /\ upload = [i \in Sessions |-> "none"] /\ meta = [i \in Sessions |-> None]
  /\ stored = {} /\ session = [i \in Sessions |-> "none"]
  /\ rule = [c \in Codes |-> None]
  /\ saving = [s \in Slots |-> Idle] /\ wanted = {}

\* uploadSample: createPending.
Reserve(i) ==
  /\ upload[i] = "none"
  /\ upload' = [upload EXCEPT ![i] = "reserved"] /\ meta' = [meta EXCEPT ![i] = "pending"]
  /\ UNCHANGED <<stored, session, rule, saving, wanted>>

\* uploadSample: putObject.
Put(i) ==
  /\ upload[i] = "reserved"
  /\ upload' = [upload EXCEPT ![i] = "put"] /\ stored' = stored \cup {i}
  /\ UNCHANGED <<meta, session, rule, saving, wanted>>

\* putObject or markUploaded fails, with the object stored or not, and then
\* markFailed may fail as well.
UploadFails(i) ==
  /\ upload[i] \in {"reserved", "put"}
  /\ upload' = [upload EXCEPT ![i] = "over"]
  /\ meta' \in {meta, [meta EXCEPT ![i] = "failed"]}
  /\ stored' \in {stored, stored \cup {i}}
  /\ UNCHANGED <<session, rule, saving, wanted>>

MarkUploaded(i) ==
  /\ upload[i] = "put"
  /\ upload' = [upload EXCEPT ![i] = "marked"] /\ meta' = [meta EXCEPT ![i] = "uploaded"]
  /\ UNCHANGED <<stored, session, rule, saving, wanted>>

InsertSession(i) ==
  /\ upload[i] = "marked"
  /\ upload' = [upload EXCEPT ![i] = "over"] /\ session' = [session EXCEPT ![i] = "live"]
  /\ UNCHANGED <<meta, stored, rule, saving, wanted>>

\* Its time to live passes.
Expire(i) ==
  /\ session[i] = "live" /\ session' = [session EXCEPT ![i] = "expired"]
  /\ UNCHANGED <<upload, meta, stored, rule, saving, wanted>>

\* cleanupExpiredSessions: one deleteMany. Object and row of the sample stay.
Cleanup ==
  /\ \E i \in Sessions : session[i] = "expired"
  /\ session' = [i \in Sessions |-> IF session[i] = "expired" THEN "reaped" ELSE session[i]]
  /\ UNCHANGED <<upload, meta, stored, rule, saving, wanted>>

\* saveRule up to its transaction: the session must be live. The code comes
\* from generate, and nothing stops a client from saving one answer twice.
CheckSession(s, code, sig, i, order) ==
  /\ saving[s] = Idle /\ session[i] = "live"
  /\ saving' = [saving EXCEPT ![s] = [pc |-> "checked", code |-> code, sig |-> sig,
                  session |-> i, order |-> order, twins |-> {}]]
  /\ UNCHANGED <<upload, meta, stored, session, rule, wanted>>

Active(sig) == {c \in Codes : rule[c] # None /\ rule[c].sig = sig /\ rule[c].status = "active"}

\* The findMany of the transaction, and the comparison of the JSON texts.
FindTwins(s) ==
  LET c == saving[s] IN
  /\ c.pc = "checked"
  /\ saving' = [saving EXCEPT ![s].pc = "found",
       ![s].twins = IF c.order = "database" THEN Active(c.sig) ELSE {}]
  /\ UNCHANGED <<upload, meta, stored, session, rule, wanted>>

Archived(twins) ==
  [c \in Codes |-> IF c \in twins THEN [rule[c] EXCEPT !.status = "archived"] ELSE rule[c]]

\* The inserts of the rule and of its meta row go through: the code is unused
\* and the session is there.
SaveRule(s) ==
  LET c == saving[s] IN
  /\ c.pc = "found" /\ rule[c.code] = None /\ session[c.session] # "reaped"
  /\ rule' = [Archived(c.twins) EXCEPT ![c.code] = [sig |-> c.sig, status |-> "active"]]
  /\ wanted' = wanted \cup {c.sig}
  /\ saving' = [saving EXCEPT ![s] = Idle]
  /\ UNCHANGED <<upload, meta, stored, session>>

\* Mutant: the archiving is not part of the transaction.
SaveFailsArchived(s) ==
  LET c == saving[s] IN
  /\ c.pc = "found" /\ (rule[c.code] # None \/ session[c.session] = "reaped")
  /\ rule' = Archived(c.twins)
  /\ saving' = [saving EXCEPT ![s] = Idle]
  /\ UNCHANGED <<upload, meta, stored, session, wanted>>

\* One of them fails and the transaction is rolled back, archiving included.
SaveFails(s) ==
  LET c == saving[s] IN
  /\ c.pc = "found" /\ (rule[c.code] # None \/ session[c.session] = "reaped")
  /\ saving' = [saving EXCEPT ![s] = Idle]
  /\ UNCHANGED <<upload, meta, stored, session, rule, wanted>>

SetStatus(code, status) ==
  /\ rule[code] # None /\ rule[code].status # status
  /\ rule' = [rule EXCEPT ![code].status = status]
  /\ wanted' = IF status = "active" THEN wanted \cup {rule[code].sig}
                                    ELSE wanted \ {rule[code].sig}
  /\ UNCHANGED <<upload, meta, stored, session, saving>>

\* The server stops: uploads and saves in progress are gone.
Crash ==
  /\ upload' = [i \in Sessions |-> IF upload[i] = "none" THEN "none" ELSE "over"]
  /\ saving' = [s \in Slots |-> Idle]
  /\ UNCHANGED <<meta, stored, session, rule, wanted>>

Next ==
  \/ Cleanup \/ Crash
  \/ \E i \in Sessions :
       \/ Reserve(i) \/ Put(i) \/ UploadFails(i) \/ MarkUploaded(i)
       \/ InsertSession(i) \/ Expire(i)
  \/ \E s \in Slots :
       \/ FindTwins(s) \/ SaveRule(s) \/ SaveFails(s)
       \/ \E code \in Codes, sig \in Sigs, i \in Sessions, order \in {"database", "other"} :
            CheckSession(s, code, sig, i, order)
  \/ \E code \in Codes, status \in Statuses : SetStatus(code, status)

Spec == Init /\ [][Next]_vars

-----------------------------------------------------------------------------

\* loadActiveSpecs: the codes an audit may run with. The query has no order,
\* and of several active rules with one signature the first one is taken.
LoadedCodes(active) ==
  {codes \in SUBSET active : \A c \in active :
     Cardinality({d \in codes : rule[d].sig = rule[c].sig}) = 1}

\* Duplicates that overlapping saves, a resumed rule or the order of keys leave
\* active do not make an audit flag a row twice for one check, and every check
\* somebody wants is run: a save that fails half-way does not take it away.
EveryCheckRunsOnce ==
  LET active == {c \in Codes : rule[c] # None /\ rule[c].status = "active"} IN
  \A codes \in LoadedCodes(active), sig \in Sigs :
    /\ Cardinality({c \in codes : rule[c].sig = sig}) <= 1
    /\ sig \in wanted => \E c \in codes : rule[c].sig = sig

\* A session's sample can be read: generate and preview find its bytes,
\* wherever an upload failed or the server stopped.
SessionHasSample == \A i \in Sessions : session[i] # "none" => i \in stored

\* "Reserve metadata row before storage so mid-upload crashes leave a trail":
\* no sample is in the store without a row that names it.
SamplesLeaveTrail == \A i \in stored : meta[i] # None

\* Together: rules, samples and their trail survive overlap and crashes.
PilotIsConsistent == EveryCheckRunsOnce /\ SessionHasSample /\ SamplesLeaveTrail

\* Does not hold: what the comment in saveRule says, "Archive any active rule with
\* identical signature so re-saves don't double-flag". Two saves that overlap find
\* no twin each.
SaveArchivesTwins ==
  [][\A c \in Codes : rule[c] = None /\ rule'[c] # None =>
       \A d \in Codes \ {c} : rule'[d] # None /\ rule'[d].sig = rule'[c].sig
                             => rule'[d].status # "active"]_vars
=============================================================================
