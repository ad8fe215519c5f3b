--------------------------- MODULE ProcessMembers ---------------------------
(***************************************************************************)
(* The members of one process, their permissions and their scope grants:   *)
(* addMember, updateMember and removeMember as they overlap, and the       *)
(* resolver that turns permission and grants into an answer.               *)
(*                                                                         *)
(* The handlers check and count before their transaction; in it every      *)
(* statement sees what is committed when it starts, and an updated member  *)
(* row stays locked until the commit. A row is removed with its grants     *)
(* (ON DELETE CASCADE); a user who is added again gets a new row.          *)
(***************************************************************************)
EXTENDS Naturals, FiniteSets

CONSTANTS
  Users,
  Slots,       \* request slots
  None,
  Handlers,    \* the handlers that are called
  Overlapping, \* the handlers whose calls may overlap; the others run alone
  Asked,       \* the permissions requests name
  MaxRows      \* bound on member rows ever created

Perms == {"viewer", "editor", "owner"}
Levels == {"viewer", "editor"}
Rank(p) == CASE p = "viewer" -> 1 [] p = "editor" -> 2 [] p = "owner" -> 3

\* The functions a grant may name, and the contexts a route may ask about.
Functions == {"f", "g"}
Scopes == [kind : {"function"}, fn : Functions]
            \cup [kind : {"all-functions", "escalation-center"}, fn : {"-"}]
Grants == [scope : Scopes, level : Levels]
Contexts == [scope : Scopes, action : {"view", "edit"}]
Required(ctx) == IF ctx.action = "view" THEN 1 ELSE 2

\* The grants that find() may return for a scope: any row with that scope.
Matching(grants, scope) == {g \in grants : g.scope = scope}

AllFunctions == [kind |-> "all-functions", fn |-> "-"]

\* The scopes whose grants decide a context.
Deciding(ctx) == IF ctx.scope.kind = "function"
                   THEN {ctx.scope, AllFunctions} ELSE {ctx.scope}

\* resolve: the answers it may give. find() takes one row of each deciding
\* scope, and the best level of those taken is compared.
Resolve(perm, grants, ctx) ==
  IF perm = "owner" THEN {TRUE}
  ELSE IF grants = {} THEN {Rank(perm) >= Required(ctx)}
  ELSE IF ctx.scope.kind = "all-functions" /\ ctx.action = "view" THEN {TRUE}
  ELSE LET has == {sc \in Deciding(ctx) : Matching(grants, sc) # {}}
           picks == {p \in [has -> grants] : \A sc \in has : p[sc].scope = sc}
       IN {\E sc \in has : Rank(p[sc].level) >= Required(ctx) : p \in picks}

\* What a body may say of the scopes: nothing (left alone), unrestricted
\* (emptied), or a list; the two lists have no scope in common.
Bodies == {[touch |-> FALSE, grants |-> {}], [touch |-> TRUE, grants |-> {}],
  [touch |-> TRUE,
   grants |-> {[scope |-> [kind |-> "escalation-center", fn |-> "-"], level |-> "viewer"]}],
  [touch |-> TRUE,
   grants |-> {[scope |-> [kind |-> "function", fn |-> "f"], level |-> "viewer"],
               [scope |-> AllFunctions, level |-> "editor"]}]}

\* resolveDesiredScopes: owners cannot be scoped.
DesiredScopes(body, perm) == perm = "owner" => body.grants = {}

VARIABLES
  member,  \* per user, the member row with its grants, None without one
  rows,    \* member rows created so far: the next row's id
  rowLock, \* per user, the slot whose transaction locks the member row
  call     \* per slot, the call in progress

vars == <<member, rows, rowLock, call>>

Row == [id : 0..MaxRows, perm : Perms, grants : SUBSET Grants]

\* "read": about to open the transaction, with the member row it loaded;
\* "locked": holds the row; "cleared": deleted the grants it saw, gone.
Idle == [pc |-> "idle"]
Busy == [pc : {"read", "locked", "cleared"}, handler : Handlers, user : Users,
         id : (0..MaxRows) \cup {None}, was : Perms \cup {None}, perm : Perms,
         body : Bodies, gone : SUBSET Grants]

MembersTypeOK ==
  /\ member \in [Users -> Row \cup {None}]
  /\ rows \in 0..MaxRows
  /\ rowLock \in [Users -> Slots \cup {None}]
  /\ call \in [Slots -> {Idle} \cup Busy]

Owners == {u \in Users : member[u] # None /\ member[u].perm = "owner"}

IdOf(u) == IF member[u] = None THEN None ELSE member[u].id

\* create: whoever creates the process is its owner.
Init ==
  /\ \E u \in Users : member = [v \in Users |-> IF v = u
                        THEN [id |-> 0, perm |-> "owner", grants |-> {}] ELSE None]
  /\ rows = 1
  /\ rowLock = [u \in Users |-> None]
  /\ call = [s \in Slots |-> Idle]

MayStart(h) ==
  \A s \in Slots : call[s] # Idle => {h, call[s].handler} \subseteq Overlapping

Begin(s, h, u, perm, body) ==
  call' = [call EXCEPT ![s] = [pc |-> "read", handler |-> h, user |-> u,
             id |-> IdOf(u), was |-> IF member[u] = None THEN None ELSE member[u].perm,
             perm |-> perm, body |-> body, gone |-> {}]]

\* addMember up to the look-up of an existing row, which its transaction
\* starts with. The caller is an owner.
StartAdd(s, u, perm, body) ==
  /\ "add" \in Handlers /\ call[s] = Idle /\ MayStart("add") /\ Owners # {}
  /\ DesiredScopes(body, perm)
  /\ Begin(s, "add", u, perm, body)
  /\ UNCHANGED <<member, rows, rowLock>>

\* updateMember up to its transaction. The owners are counted only when one
\* is demoted; a promotion to owner drops the grants.
StartUpdate(s, u, perm, body) ==
  /\ "update" \in Handlers /\ call[s] = Idle /\ MayStart("update") /\ Owners # {}
  /\ member[u] # None
  /\ u \in Owners /\ perm # "owner" => Cardinality(Owners) > 1
  /\ perm # "owner" => DesiredScopes(body, perm)
  /\ Begin(s, "update", u, perm,
           IF perm = "owner" THEN [touch |-> TRUE, grants |-> {}] ELSE body)
  /\ UNCHANGED <<member, rows, rowLock>>

\* Mutant: the count leaves out nobody but zero.
StartRemoveAnyOwner(s, u) ==
  /\ "remove" \in Handlers /\ call[s] = Idle /\ MayStart("remove") /\ Owners # {}
  /\ member[u] # None
  /\ u \in Owners => Cardinality(Owners) > 0
  /\ Begin(s, "remove", u, "viewer", [touch |-> FALSE, grants |-> {}])
  /\ UNCHANGED <<member, rows, rowLock>>

\* removeMember up to its transaction.
StartRemove(s, u) ==
  /\ "remove" \in Handlers /\ call[s] = Idle /\ MayStart("remove") /\ Owners # {}
  /\ member[u] # None
  /\ u \in Owners => Cardinality(Owners) > 1
  /\ Begin(s, "remove", u, "viewer", [touch |-> FALSE, grants |-> {}])
  /\ UNCHANGED <<member, rows, rowLock>>

\* Whether a call writes the member row: addMember updates the row it found
\* whatever it holds, updateMember only when the permission changes.
WritesRow(c) == c.id # None /\ (c.handler = "add" \/ c.perm # c.was)

\* The statement that writes the member row, by the id it was loaded with.
\* It waits while another transaction locks the row.
LockRow(s) ==
  LET c == call[s] IN
  /\ c.pc = "read" /\ c.handler # "remove" /\ WritesRow(c)
  /\ IdOf(c.user) = c.id /\ rowLock[c.user] = None
  /\ rowLock' = [rowLock EXCEPT ![c.user] = s]
  /\ call' = [call EXCEPT ![s].pc = "locked"]
  /\ UNCHANGED <<member, rows>>

\* Mutant: the grants are deleted before the member row is written.
ClearGrantsUnlocked(s) ==
  LET c == call[s] IN
  /\ c.pc \in {"read", "locked"} /\ c.id # None /\ c.handler # "remove"
  /\ c.body.touch
  /\ call' = [call EXCEPT ![s].pc = "cleared",
                ![s].gone = IF IdOf(c.user) = c.id THEN member[c.user].grants ELSE {}]
  /\ UNCHANGED <<member, rows, rowLock>>

\* deleteMany of replaceMemberScopes: it deletes the grants it sees.
ClearGrants(s) ==
  LET c == call[s] IN
  /\ c.pc = "locked" \/ (c.pc = "read" /\ c.handler = "update" /\ ~WritesRow(c))
  /\ c.body.touch
  /\ call' = [call EXCEPT ![s].pc = "cleared",
                ![s].gone = IF IdOf(c.user) = c.id THEN member[c.user].grants ELSE {}]
  /\ UNCHANGED <<member, rows, rowLock>>

Release(s) == [u \in Users |-> IF rowLock[u] = s THEN None ELSE rowLock[u]]

Done(s) == call' = [call EXCEPT ![s] = Idle] /\ rowLock' = Release(s)

\* createMany and the commit of a call that leaves a member row in place. The
\* rows it deleted are gone for the others too; grants for a member row that is
\* gone have nothing to belong to; a second row for a scope is refused by the
\* unique indexes and the transaction rolls back.
Commit(s) ==
  LET c == call[s]
      row == member[c.user]
      kept == row.grants \ c.gone
      added == IF c.body.touch THEN c.body.grants ELSE {}
      refused == \E g \in kept, h \in added : g.scope = h.scope
      done == IdOf(c.user) = c.id /\ ~refused
  IN
  /\ \/ c.pc = "cleared"
     \/ c.pc = "locked" /\ ~c.body.touch
     \/ c.pc = "read" /\ c.handler = "update" /\ ~WritesRow(c) /\ ~c.body.touch
  /\ member' = IF ~done THEN member
               ELSE [member EXCEPT ![c.user].grants = kept \cup added,
                       ![c.user].perm = IF WritesRow(c) THEN c.perm ELSE @]
  /\ call' = [t \in Slots |->
       IF t = s THEN Idle
       ELSE IF done /\ call[t] # Idle /\ call[t].id = c.id
              THEN [call[t] EXCEPT !.gone = @ \ c.gone]
              ELSE call[t]]
  /\ rowLock' = Release(s) /\ UNCHANGED rows

\* addMember for a user without a row, to its commit. The second of two
\* inserts fails on the unique (process, user).
Create(s) ==
  LET c == call[s] IN
  /\ c.pc = "read" /\ c.handler = "add" /\ c.id = None
  /\ \/ /\ member[c.user] = None /\ rows < MaxRows
        /\ member' = [member EXCEPT ![c.user] =
             [id |-> rows, perm |-> c.perm, grants |-> c.body.grants]]
        /\ rows' = rows + 1
     \/ member[c.user] # None /\ UNCHANGED <<member, rows>>
  /\ Done(s)

\* The delete of removeMember, by id. It waits while the row is locked.
Remove(s) ==
  LET c == call[s] IN
  /\ c.pc = "read" /\ c.handler = "remove"
  /\ IdOf(c.user) = c.id /\ rowLock[c.user] = None
  /\ member' = [member EXCEPT ![c.user] = None]
  /\ Done(s) /\ UNCHANGED rows

\* A write by id finds its row gone and throws.
RowGone(s) ==
  LET c == call[s] IN
  /\ c.pc = "read" /\ c.id # None /\ IdOf(c.user) # c.id
  /\ c.handler = "remove" \/ WritesRow(c)
  /\ Done(s) /\ UNCHANGED <<member, rows>>

Step(s) ==
  \/ LockRow(s) \/ ClearGrants(s) \/ Commit(s) \/ Create(s) \/ Remove(s) \/ RowGone(s)

Next ==
  \E s \in Slots :
    \/ \E u \in Users, perm \in Asked, body \in Bodies :
         StartAdd(s, u, perm, body) \/ StartUpdate(s, u, perm, body)
    \/ \E u \in Users : StartRemove(s, u)
    \/ call[s] # Idle /\ Step(s)

Spec == Init /\ [][Next]_vars

-----------------------------------------------------------------------------

\* What the resolver's comment says: "owner allows; no scope rows falls back to
\* legacy permission; otherwise matches by ctx.kind and picks the most
\* permissive accessLevel".
Permitted(perm, grants, ctx) ==
  \/ perm = "owner"
  \/ grants = {} /\ Rank(perm) >= Required(ctx)
  \/ /\ grants # {}
     /\ \/ ctx = [scope |-> AllFunctions, action |-> "view"]
        \/ \E g \in grants : g.scope \in Deciding(ctx) /\ Rank(g.level) >= Required(ctx)

\* On every member row that can come about, resolve has one answer, the one
\* its comment describes.
AccessIsMostPermissive ==
  \A u \in Users, ctx \in Contexts :
    member[u] # None =>
      Resolve(member[u].perm, member[u].grants, ctx)
        = {Permitted(member[u].perm, member[u].grants, ctx)}

\* "Replace-all writer": the grants a member ends up with are the list of one
\* call, never a mixture of two. It holds while the calls that may overlap lock
\* the member's row before they delete; the unique indexes only keep two
\* lists apart that have a scope in common.
GrantsAreOneList ==
  \A u \in Users : member[u] # None => \E body \in Bodies : member[u].grants = body.grants

\* Grants and decisions together: what resolve answers is what one admin's list
\* grants.
GrantsDecide == AccessIsMostPermissive /\ GrantsAreOneList

\* The counts of owners before a demotion and a removal do their work: where
\* they do not overlap, only addMember of an existing owner loses the last.
CountedOwnerStays ==
  [][Owners # {} /\ Owners' = {} =>
       \E s \in Slots : call[s] # Idle /\ call[s].handler = "add"]_vars

\* Does not hold: the process keeps an owner. addMember demotes the last one,
\* and so do two counts that overlap.
OwnerRemains == Owners # {}
=============================================================================
