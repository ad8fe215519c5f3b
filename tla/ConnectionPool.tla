--------------------------- MODULE ConnectionPool ---------------------------
(***************************************************************************)
(* Requests that share the connections of the API's pool and the rows they *)
(* lock. A transaction keeps its connection and its row locks to its end;  *)
(* a query outside a transaction takes a connection for itself, also when  *)
(* the request has a transaction open: an audit run loads the pilot rules  *)
(* that way, the deletion of a comment and the creation of a template      *)
(* check access that way. The pool and the rows serve their waiters in     *)
(* order; the pool waits for ever, the database aborts one transaction of  *)
(* a cycle.                                                                *)
(*                                                                         *)
(* An identifier counter is a row: the code drawn from it is the old value *)
(* plus one, and the row stays locked until the transaction ends. The      *)
(* activity counter, always the last row a transaction locks, can close no *)
(* cycle and is left out.                                                  *)
(***************************************************************************)
EXTENDS Naturals, Sequences, SequencesExt, FiniteSets, Relation

CONSTANTS
  Slots,     \* requests in flight
  PoolMax,   \* DB_POOL_MAX
  MaxNested, \* requests at a time that query outside their own transaction
  MaxCodes   \* bound on event codes before new requests stop

Rows == {"run", "entry", "event"} \* run code counter, tracking entry, EVT counter

\* What a request does, in order: run of an audit, transition, verify (as the
\* SLA run and forceReescalate), and deleteComment or a template's creation.
Programs ==
  [audit |-> <<"query", "begin", "run", "query", "entry", "commit">>,
   transition |-> <<"query", "begin", "event", "entry", "commit">>,
   verify |-> <<"query", "begin", "entry", "event", "commit">>,
   comment |-> <<"begin", "query", "commit">>]
Nested == {"audit", "comment"}

VARIABLES
  prog,    \* per slot, the program of its request, "none" without one
  at,      \* per slot, the step it is at
  conns,   \* per slot, the connections it holds
  held,    \* per slot, the rows it has locked
  queue,   \* per resource, the slots waiting for it in order
  code,    \* per slot, the event code it has drawn, 0 without one
  counter, \* the EVT counter
  log      \* codes of the committed events in commit order

vars == <<prog, at, conns, held, queue, code, counter, log>>

Resources == Rows \cup {"pool"}

TypeOK ==
  /\ prog \in [Slots -> DOMAIN Programs \cup {"none"}]
  /\ at \in [Slots -> 0..6]
  /\ conns \in [Slots -> 0..2] /\ held \in [Slots -> SUBSET Rows]
  /\ queue \in [Resources -> Seq(Slots)]
  /\ \A r \in Resources : \A i, j \in DOMAIN queue[r] : queue[r][i] = queue[r][j] => i = j
  /\ code \in [Slots -> Nat] /\ counter \in Nat /\ log \in Seq(Nat)

Init ==
  /\ prog = [s \in Slots |-> "none"] /\ at = [s \in Slots |-> 0]
  /\ conns = [s \in Slots |-> 0] /\ held = [s \in Slots |-> {}]
  /\ queue = [r \in Resources |-> <<>>]
  /\ code = [s \in Slots |-> 0] /\ counter = 0 /\ log = <<>>

Active(s) == prog[s] # "none"
Op(s) == Programs[prog[s]][at[s]]
InTx(s) == \E i \in 1..(at[s] - 1) : Programs[prog[s]][i] = "begin"
Waits(s, r) == Contains(queue[r], s)
Without(q, s) == IF Contains(q, s) THEN RemoveAt(q, CHOOSE i \in DOMAIN q : q[i] = s) ELSE q
Waiting(s) == \E r \in Resources : Waits(s, r)
Needs(s) == CASE Op(s) \in {"begin", "query"} -> "pool"
              [] Op(s) \in Rows -> Op(s)
              [] OTHER -> "nothing"

Start(s, p) ==
  /\ ~Active(s) /\ counter < MaxCodes
  /\ p \in Nested => Cardinality({t \in Slots : prog[t] \in Nested}) < MaxNested
  /\ prog' = [prog EXCEPT ![s] = p] /\ at' = [at EXCEPT ![s] = 1]
  /\ UNCHANGED <<conns, held, queue, code, counter, log>>

\* pool.connect, pool.query and the statements that lock a row begin to wait.
Ask(s) ==
  /\ Active(s) /\ ~Waiting(s) /\ Needs(s) # "nothing"
  /\ Op(s) = "query" => conns[s] = (IF InTx(s) THEN 1 ELSE 0)
  /\ queue' = [queue EXCEPT ![Needs(s)] = Append(@, s)]
  /\ UNCHANGED <<prog, at, conns, held, code, counter, log>>

InUse == Cardinality({s \in Slots : conns[s] > 0}) + Cardinality({s \in Slots : conns[s] > 1})

Holder(r) == {s \in Slots : r \in held[s]}

\* The pool hands a connection to its first waiter.
Connect ==
  /\ queue["pool"] # <<>> /\ InUse < PoolMax
  /\ LET s == Head(queue["pool"]) IN
       /\ conns' = [conns EXCEPT ![s] = @ + 1]
       /\ at' = IF Op(s) = "begin" THEN [at EXCEPT ![s] = @ + 1] ELSE at
  /\ queue' = [queue EXCEPT !["pool"] = Tail(@)]
  /\ UNCHANGED <<prog, held, code, counter, log>>

\* A query outside the transaction is answered and its connection given back.
Answer(s) ==
  /\ Active(s) /\ Op(s) = "query" /\ ~Waiting(s)
  /\ conns[s] = (IF InTx(s) THEN 2 ELSE 1)
  /\ conns' = [conns EXCEPT ![s] = @ - 1] /\ at' = [at EXCEPT ![s] = @ + 1]
  /\ UNCHANGED <<prog, held, queue, code, counter, log>>

\* Mutant: the code is drawn on a connection of its own, which commits at once.
LockAutocommit(r) ==
  /\ r \in Rows /\ queue[r] # <<>> /\ Holder(r) = {}
  /\ LET s == Head(queue[r]) IN
       /\ held' = IF r = "event" THEN held ELSE [held EXCEPT ![s] = @ \cup {r}]
       /\ at' = [at EXCEPT ![s] = @ + 1]
       /\ code' = IF r = "event" THEN [code EXCEPT ![s] = counter + 1] ELSE code
       /\ counter' = IF r = "event" THEN counter + 1 ELSE counter
  /\ queue' = [queue EXCEPT ![r] = Tail(@)]
  /\ UNCHANGED <<prog, conns, log>>

\* The first waiter locks the row; nextSequence draws the next code.
Lock(r) ==
  /\ r \in Rows /\ queue[r] # <<>> /\ Holder(r) = {}
  /\ LET s == Head(queue[r]) IN
       /\ held' = [held EXCEPT ![s] = @ \cup {r}]
       /\ at' = [at EXCEPT ![s] = @ + 1]
       /\ code' = IF r = "event" THEN [code EXCEPT ![s] = counter + 1] ELSE code
  /\ queue' = [queue EXCEPT ![r] = Tail(@)]
  /\ UNCHANGED <<prog, conns, counter, log>>

\* The request is over and whatever it holds or waits for is given up.
End(s) ==
  /\ prog' = [prog EXCEPT ![s] = "none"] /\ at' = [at EXCEPT ![s] = 0]
  /\ conns' = [conns EXCEPT ![s] = 0] /\ held' = [held EXCEPT ![s] = {}]
  /\ queue' = [r \in Resources |-> Without(queue[r], s)]
  /\ code' = [code EXCEPT ![s] = 0]

Commit(s) ==
  /\ Active(s) /\ Op(s) = "commit" /\ End(s)
  /\ log' = IF code[s] = 0 THEN log ELSE Append(log, code[s])
  /\ counter' = IF code[s] = 0 THEN counter ELSE code[s]

\* Mutant: the connection is given back after a commit only.
RollbackLeaks(s) ==
  /\ prog' = [prog EXCEPT ![s] = "none"] /\ at' = [at EXCEPT ![s] = 0]
  /\ held' = [held EXCEPT ![s] = {}]
  /\ queue' = [r \in Resources |-> Without(queue[r], s)]
  /\ code' = [code EXCEPT ![s] = 0]
  /\ UNCHANGED <<conns, counter, log>>

\* ROLLBACK and release of a transaction that throws.
Rollback(s) == End(s) /\ UNCHANGED <<counter, log>>

\* A statement fails, or the handler throws: not found, an illegal transition,
\* no access.
Fail(s) == Active(s) /\ ~Waiting(s) /\ Rollback(s)

\* s waits for a row that t has locked or is in line for.
Blocks(s, t) ==
  \E r \in Rows : Waits(s, r) /\
    (t \in Holder(r) \/ \E i, j \in DOMAIN queue[r] : i < j /\ queue[r][i] = t /\ queue[r][j] = s)

\* deadlock_timeout: the database aborts one transaction of a cycle.
DeadlockAbort(s) ==
  /\ \E t, u \in Slots : Blocks(s, t) /\ Blocks(u, s)
  /\ LET blocked == [e \in Slots \X Slots |-> Blocks(e[1], e[2])]
     IN TransitiveClosure(blocked, Slots)[<<s, s>>]
  /\ Rollback(s)

Serve(s) == Ask(s) \/ Answer(s) \/ Commit(s)
Grant == Connect \/ \E r \in Rows : Lock(r)
Break == \E s \in Slots : DeadlockAbort(s)

Next ==
  \/ Grant \/ Break
  \/ \E s \in Slots :
       \/ \E p \in DOMAIN Programs : Start(s, p)
       \/ Serve(s) \/ Fail(s)

Fairness ==
  /\ \A s \in Slots : WF_vars(Serve(s))
  /\ WF_vars(Connect) /\ \A r \in Rows : WF_vars(Lock(r))
  /\ WF_vars(Break)

Spec == Init /\ [][Next]_vars
FairSpec == Spec /\ Fairness

-----------------------------------------------------------------------------

\* Codes are handed out without gaps and become visible in their order,
\* whatever fails: nobody who has seen a code will see a smaller one appear.
CodesInOrder == \A i \in DOMAIN log : log[i] = i

\* Every request gets its connections and locks and ends, as long as fewer
\* requests than connections query outside their own transaction at a time.
EveryRequestEnds == \A s \in Slots : Active(s) ~> ~Active(s)
=============================================================================
