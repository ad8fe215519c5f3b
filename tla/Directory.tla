------------------------------ MODULE Directory ------------------------------
(***************************************************************************)
(* The manager directory of a tenant, and the tracking entries that its    *)
(* merge and patchEntry repoint. Every handler reads its directory entries *)
(* before the transaction that writes them, and deleteManager counts the   *)
(* open tracking entries of the manager there as well.                     *)
(***************************************************************************)
EXTENDS Naturals, FiniteSets

CONSTANTS
  Ids,       \* directory entries
  Emails, Names, \* addresses, and raw names that may become aliases
  Procs,     \* processes of the tenant
  None,
  Requests,
  MaxCalls   \* bound on the calls of a behaviour

VARIABLES
  entry,  \* per id, the directory entry, or None once deleted
  rows,   \* the tracking entries: process, managerKey, managerEmail, unresolved?
  call,   \* per request, the call under way and what it read
  calls

vars == <<entry, rows, call, calls>>

Entries == [email : Emails, active : BOOLEAN, aliases : SUBSET (Names \cup Emails)]
Rows == [proc : Procs, key : Emails, email : Emails, open : BOOLEAN]
Kinds == {"merge", "email", "delete", "alias"}

\* overtaken: an entry it read has changed; late: rows that came to refer to
\* its entry since it counted them.
Calls == [kind : Kinds, id : Ids, target : Ids, was : Entries, into : Entries,
          to : Emails \cup Names, overtaken : BOOLEAN, late : SUBSET Rows]

TypeOK ==
  /\ entry \in [Ids -> Entries \cup {None}] /\ rows \subseteq Rows
  /\ \A r, s \in rows : r.proc = s.proc /\ r.key = s.key => r = s
  /\ \A i, j \in Ids : entry[i] # None /\ entry[j] # None /\ entry[i].email = entry[j].email => i = j
  /\ \A q \in Requests : call[q] = None \/ call[q] \in Calls
  /\ calls \in 0..MaxCalls

Init ==
  /\ \E address \in [Ids -> Emails] :
       /\ \A i, j \in Ids : address[i] = address[j] => i = j
       /\ entry = [i \in Ids |-> [email |-> address[i], active |-> TRUE, aliases |-> {}]]
  /\ rows = {} /\ calls = 0
  /\ call = [q \in Requests |-> None]

\* Mutant: only the key is looked at.
KeyRefersTo(row, email) == row.key = email

\* deleteManager, merge, patchEntry: by address or by key.
RefersTo(row, email) == row.email = email \/ row.key = email

Read(q, kind, id, target, to) ==
  /\ call[q] = None /\ calls < MaxCalls
  /\ entry[id] # None /\ entry[target] # None
  /\ call' = [call EXCEPT ![q] = [kind |-> kind, id |-> id, target |-> target,
       was |-> entry[id], into |-> entry[target], to |-> to,
       overtaken |-> FALSE, late |-> {}]]
  /\ calls' = calls + 1
  /\ UNCHANGED <<entry, rows>>

\* merge: the source must not be archived; the target may be.
ReadMerge(q, id, target) ==
  id # target /\ entry[id] # None /\ entry[id].active /\ Read(q, "merge", id, target, entry[id].email)

\* patchEntry, with the change of address confirmed.
ReadEmail(q, id, to) ==
  entry[id] # None /\ to # entry[id].email /\ Read(q, "email", id, id, to)

\* deleteManager, when no unresolved tracking entry refers to the manager.
ReadDelete(q, id) ==
  /\ entry[id] # None /\ ~\E row \in rows : row.open /\ RefersTo(row, entry[id].email)
  /\ Read(q, "delete", id, id, entry[id].email)

\* resolve, onto an existing entry.
ReadAlias(q, id, raw) ==
  entry[id] # None /\ entry[id].active /\ Read(q, "alias", id, id, raw)

\* What the other requests make of a write to ids and of the rows after it.
Ending(q, ids, after) ==
  call' = [p \in Requests |->
    IF p = q \/ call[p] = None THEN None
    ELSE [call[p] EXCEPT
            !.overtaken = @ \/ {call[p].id, call[p].target} \cap ids # {},
            !.late = @ \cup {row \in after \ rows :
                       call[p].kind = "delete" /\ row.open /\ RefersTo(row, call[p].was.email)}]]

\* The updateMany of merge and patchEntry.
Repointed(from, to) ==
  {IF RefersTo(row, from) THEN [row EXCEPT !.key = to, !.email = to] ELSE row : row \in rows}

\* Mutant: there is no such index.
NeverClash(from, to) == FALSE

\* The unique index on process and managerKey: two entries of a process would
\* become one, and the transaction fails.
Clash(from, to) ==
  \E r, s \in rows : /\ r # s /\ r.proc = s.proc /\ RefersTo(r, from)
                     /\ RefersTo(s, from) \/ s.key = to

Merge(q) ==
  LET c == call[q]
      aliases == c.into.aliases \cup c.was.aliases \cup {c.was.email}
      after == Repointed(c.was.email, c.into.email)
  IN
  /\ c # None /\ c.kind = "merge"
  /\ entry[c.id] # None /\ entry[c.target] # None /\ ~Clash(c.was.email, c.into.email)
  /\ rows' = after
  /\ entry' = [entry EXCEPT ![c.target].aliases = aliases, ![c.id].active = FALSE]
  /\ Ending(q, {c.id, c.target}, after)
  /\ UNCHANGED calls

Email(q) ==
  LET c == call[q]
      after == Repointed(c.was.email, c.to)
  IN
  /\ c # None /\ c.kind = "email"
  /\ entry[c.id] # None /\ ~Clash(c.was.email, c.to)
  /\ \A i \in Ids \ {c.id} : entry[i] # None => entry[i].email # c.to
  /\ rows' = after
  /\ entry' = [entry EXCEPT ![c.id].email = c.to]
  /\ Ending(q, {c.id}, after)
  /\ UNCHANGED calls

Delete(q) ==
  /\ call[q] # None /\ call[q].kind = "delete" /\ entry[call[q].id] # None
  /\ entry' = [entry EXCEPT ![call[q].id] = None]
  /\ Ending(q, {call[q].id}, rows)
  /\ UNCHANGED <<rows, calls>>

\* resolve writes back the list it read, with the new alias.
WithAlias(c) == c.was.aliases \cup {c.to}

Alias(q) ==
  /\ call[q] # None /\ call[q].kind = "alias" /\ entry[call[q].id] # None
  /\ entry' = [entry EXCEPT ![call[q].id].aliases = WithAlias(call[q])]
  /\ Ending(q, {call[q].id}, rows)
  /\ UNCHANGED <<rows, calls>>

\* The transaction fails: the entry is gone, the address taken, or two
\* tracking entries would share a key.
Fail(q) ==
  /\ call[q] # None
  /\ call' = [call EXCEPT ![q] = None]
  /\ UNCHANGED <<entry, rows, calls>>

\* archiveBulk.
Archive(i) ==
  /\ entry[i] # None /\ entry[i].active
  /\ entry' = [entry EXCEPT ![i].active = FALSE]
  /\ Ending(None, {i}, rows)
  /\ UNCHANGED <<rows, calls>>

WriteRows(after) == rows' = after /\ Ending(None, {}, after) /\ UNCHANGED <<entry, calls>>

\* An audit run finds issues of a manager the directory has: the entry is
\* opened, or made.
Flag(p, i) ==
  /\ entry[i] # None /\ entry[i].active
  /\ LET k == entry[i].email
         mine == {row \in rows : row.proc = p /\ row.key = k} IN
     IF mine = {} THEN WriteRows(rows \cup {[proc |-> p, key |-> k, email |-> k, open |-> TRUE]})
     ELSE WriteRows((rows \ mine) \cup {[row EXCEPT !.open = TRUE] : row \in mine})

\* It finds none, or the entry is resolved.
Settle(row) == row \in rows /\ row.open /\ WriteRows((rows \ {row}) \cup {[row EXCEPT !.open = FALSE]})

\* TrackingService.patchEntry: the address of a tracking entry, not its key.
Readdress(row, email) ==
  /\ row \in rows /\ row.email # email
  /\ WriteRows((rows \ {row}) \cup {[row EXCEPT !.email = email]})

Next ==
  \/ \E q \in Requests :
       \/ \E i, j \in Ids : ReadMerge(q, i, j)
       \/ \E i \in Ids, e \in Emails : ReadEmail(q, i, e)
       \/ \E i \in Ids : ReadDelete(q, i)
       \/ \E i \in Ids, n \in Names : ReadAlias(q, i, n)
       \/ Merge(q) \/ Email(q) \/ Delete(q) \/ Alias(q) \/ Fail(q)
  \/ \E i \in Ids : Archive(i)
  \/ \E p \in Procs, i \in Ids : Flag(p, i)
  \/ \E row \in rows : Settle(row)
  \/ \E row \in rows, e \in Emails : Readdress(row, e)

Spec == Init /\ [][Next]_vars

\* After a merge nobody overtook, no tracking entry refers to the source, and
\* no process has lost its entry for the manager.
MergeMovesEveryRow ==
  [][\A q \in Requests : Merge(q) /\ ~call[q].overtaken =>
       /\ \A r \in rows' : ~(r.email = call[q].was.email \/ r.key = call[q].was.email)
       /\ {r.proc : r \in rows'} = {r.proc : r \in rows}]_vars

\* Deleting a manager leaves an open tracking entry behind only if that came
\* to refer to the manager after the check.
DeletedWasIdle ==
  [][\A q \in Requests : Delete(q) =>
       \A r \in rows :
         r.open /\ call[q].was.email \in {r.email, r.key} => r \in call[q].late]_vars

\* An alias somebody resolved is lost only to a write from an earlier read.
AliasesStay ==
  [][\A i \in Ids :
       \/ entry[i] = None \/ entry'[i] = None
       \/ entry[i].aliases \subseteq entry'[i].aliases
       \/ \E q \in Requests : call[q] # None /\ call'[q] = None /\ call[q].overtaken]_vars

\* Together: what merges, deletions and aliases do to what refers to a manager.
ReferencesFollow == MergeMovesEveryRow /\ DeletedWasIdle /\ AliasesStay
=============================================================================
