--------------------------- MODULE WebProcessStore ---------------------------
(***************************************************************************)
(* The list of processes one browser keeps, against the processes its user *)
(* may see on the server. A fetch, an own create, update or delete, and    *)
(* the realtime news of a deletion are under way at the same time and      *)
(* their answers reach the store in any order. A failed fetch falls back   *)
(* to the copy in localStorage, which an immediate save follows closely    *)
(* and a debounced one after 400 ms.                                       *)
(*                                                                         *)
(* The user's workbook data stays in the browser: files says whether an    *)
(* entry carries any.                                                      *)
(***************************************************************************)
EXTENDS Naturals, Sequences, SequencesExt

CONSTANTS Procs, None

VARIABLES
  server,    \* per process, "none" before it is created, "live" or "gone"
  list,      \* processes of the store, in its order
  active,    \* activeProcessId
  saved,     \* the list in localStorage
  fetch,     \* the fetch of the list under way
  op,        \* the user's own create, update or delete under way
  news,      \* processes whose process.deleted is on its way
  twice,     \* processes a fetch has brought before their create's answer
  overtaken  \* whether a fallback has replaced a list it did not equal

vars == <<server, list, active, saved, fetch, op, news, twice, overtaken>>

Entry(p) == [id |-> p, files |-> FALSE]
Ids(l) == {l[i].id : i \in DOMAIN l}

\* The entries at some positions, in their order.
Nth(positions, n) == CHOOSE i \in positions : Cardinality({j \in positions : j < i}) = n - 1
Kept(l, positions) == [n \in 1..Cardinality(positions) |-> l[Nth(positions, n)]]

Without(l, p) == Kept(l, {i \in DOMAIN l : l[i].id # p})
HasFiles(l, p) == \E i \in DOMAIN l : l[i].id = p /\ l[i].files

FirstOf(l) == IF l = <<>> THEN None ELSE Head(l).id

NoFetch == [pc |-> "none"]
NoOp == [pc |-> "none"]

TypeOK ==
  /\ server \in [Procs -> {"none", "live", "gone"}]
  /\ \A l \in {list, saved} : \A i \in DOMAIN l :
       l[i] \in [id : Procs, files : BOOLEAN]
  /\ active \in Procs \cup {None}
  /\ fetch.pc \in {"none", "sent", "served", "fallback"}
  /\ op = NoOp \/ op \in [pc : {"sent", "served"}, kind : {"create", "update", "delete"}, id : Procs]
  /\ news \subseteq Procs /\ twice \subseteq Procs
  /\ overtaken \in BOOLEAN

Live == {p \in Procs : server[p] = "live"}

Init ==
  /\ \E seen \in SUBSET Procs :
       /\ server = [p \in Procs |-> IF p \in seen THEN "live" ELSE "none"]
       /\ list = SetToSeq({Entry(p) : p \in seen})
  /\ saved = list /\ active = FirstOf(list)
  /\ fetch = NoFetch /\ op = NoOp
  /\ news = {} /\ twice = {} /\ overtaken = FALSE

\* Other people and other browsers of the user.
OthersCreate(p) ==
  /\ server[p] = "none" /\ op # [pc |-> "sent", kind |-> "create", id |-> p]
  /\ server' = [server EXCEPT ![p] = "live"]
  /\ UNCHANGED <<list, active, saved, fetch, op, news, twice, overtaken>>

\* process.deleted, and process.member_removed for this user.
OthersDelete(p) ==
  /\ server[p] = "live"
  /\ server' = [server EXCEPT ![p] = "gone"] /\ news' = news \cup {p}
  /\ UNCHANGED <<list, active, saved, fetch, op, twice, overtaken>>

\* evictProcess.
Evict(p) ==
  /\ p \in news /\ news' = news \ {p}
  /\ IF p \in Ids(list)
       THEN /\ list' = Without(list, p) /\ saved' = list'
            /\ active' = IF active = p THEN FirstOf(list') ELSE active
       ELSE UNCHANGED <<list, saved, active>>
  /\ UNCHANGED <<server, fetch, op, twice, overtaken>>

\* hydrateProcesses.
SendFetch ==
  /\ fetch = NoFetch /\ fetch' = [pc |-> "sent"]
  /\ UNCHANGED <<server, list, active, saved, op, news, twice, overtaken>>

ServeFetch ==
  /\ fetch.pc = "sent" /\ fetch' = [pc |-> "served", got |-> Live]
  /\ UNCHANGED <<server, list, active, saved, op, news, twice, overtaken>>

\* No answer, or one that is not a list: localStorage is read, and the
\* workbook data looked up in IndexedDB before the store is set.
FetchFails ==
  /\ fetch.pc = "sent" /\ fetch' = [pc |-> "fallback", got |-> saved]
  /\ UNCHANGED <<server, list, active, saved, op, news, twice, overtaken>>

FallBack ==
  /\ fetch.pc = "fallback" /\ fetch' = NoFetch
  /\ list' = IF fetch.got = <<>> THEN list ELSE fetch.got
  /\ overtaken' = (overtaken \/ list' # list)
  /\ UNCHANGED <<server, active, saved, op, news, twice>>

\* reconcileProcessesFromServer: known processes keep what is local, absent
\* ones go, new ones are appended.
Reconcile(l, got) ==
  Kept(l, {i \in DOMAIN l : l[i].id \in got})
    \o SetToSeq({Entry(p) : p \in got \ Ids(l)})

FetchArrives ==
  /\ fetch.pc = "served" /\ fetch' = NoFetch
  /\ list' = Reconcile(list, fetch.got) /\ saved' = list'
  /\ active' = IF active \in Ids(list') THEN active ELSE FirstOf(list')
  /\ twice' = IF op # NoOp /\ op.kind = "create" /\ op.id \in fetch.got
                THEN twice \cup {op.id} ELSE twice
  /\ UNCHANGED <<server, op, news, overtaken>>

\* createProcess, updateProcess and deleteProcess send their request.
SendOp(kind, p) ==
  /\ op = NoOp /\ op' = [pc |-> "sent", kind |-> kind, id |-> p]
  /\ IF kind = "create" THEN server[p] = "none" ELSE p \in Ids(list)
  /\ UNCHANGED <<server, list, active, saved, fetch, news, twice, overtaken>>

\* The server serves it, or refuses it and the store stays as it is.
ServeOp ==
  /\ op # NoOp /\ op.pc = "sent"
  /\ \/ /\ op.kind = "create" \/ server[op.id] = "live"
        /\ op' = [op EXCEPT !.pc = "served"]
        /\ server' = [server EXCEPT ![op.id] =
             IF op.kind = "delete" THEN "gone" ELSE "live"]
     \/ op' = NoOp /\ UNCHANGED server
  /\ UNCHANGED <<list, active, saved, fetch, news, twice, overtaken>>

CreateArrives ==
  /\ op # NoOp /\ op.pc = "served" /\ op.kind = "create"
  /\ list' = <<Entry(op.id)>> \o list /\ active' = op.id /\ saved' = list'
  /\ op' = NoOp /\ UNCHANGED <<server, fetch, news, twice, overtaken>>

\* Mutant: the entry is replaced as a whole.
RefreshedAsSent(e) == Entry(e.id)

\* The row is replaced in place, the local parts are carried over.
Refreshed(e) == [Entry(e.id) EXCEPT !.files = e.files]

UpdateArrives ==
  /\ op # NoOp /\ op.pc = "served" /\ op.kind = "update"
  /\ list' = [i \in DOMAIN list |->
                IF list[i].id = op.id THEN Refreshed(list[i]) ELSE list[i]]
  /\ saved' = list'
  /\ op' = NoOp /\ UNCHANGED <<server, active, fetch, news, twice, overtaken>>

DeleteArrives ==
  /\ op # NoOp /\ op.pc = "served" /\ op.kind = "delete"
  /\ list' = Without(list, op.id) /\ saved' = list'
  /\ active' = IF active = op.id THEN FirstOf(list') ELSE active
  /\ op' = NoOp /\ UNCHANGED <<server, fetch, news, twice, overtaken>>

\* setActiveProcess, from the list.
Select(p) ==
  /\ p \in Ids(list) /\ active' = p
  /\ UNCHANGED <<server, list, saved, fetch, op, news, twice, overtaken>>

\* uploadFile puts the parsed workbook into the entry, to be saved later.
Upload(p) ==
  /\ p \in Ids(list)
  /\ list' = [i \in DOMAIN list |->
                IF list[i].id = p THEN [list[i] EXCEPT !.files = TRUE] ELSE list[i]]
  /\ UNCHANGED <<server, active, saved, fetch, op, news, twice, overtaken>>

\* The debounce timer of the persist middleware.
SaveLater ==
  /\ saved # list /\ saved' = list
  /\ UNCHANGED <<server, list, active, fetch, op, news, twice, overtaken>>

Next ==
  \/ SendFetch \/ ServeFetch \/ FetchFails \/ FallBack \/ FetchArrives \/ SaveLater
  \/ ServeOp \/ CreateArrives \/ UpdateArrives \/ DeleteArrives
  \/ \E p \in Procs :
       \/ OthersCreate(p) \/ OthersDelete(p) \/ Evict(p) \/ Select(p) \/ Upload(p)
       \/ \E kind \in {"create", "update", "delete"} : SendOp(kind, p)

Spec == Init /\ [][Next]_vars

-----------------------------------------------------------------------------

\* Whatever answers, evictions and reconciliations cross, the active process
\* is one of the list, unless a fallback has put an older list in its place.
ActiveIsListed == active \in Ids(list) \cup {None} \/ overtaken

\* A process is listed once, unless a fetch brought it in while the answer to
\* its creation was on the way: createProcess prepends without looking.
ListedOnce ==
  \A i, j \in DOMAIN list :
    list[i].id = list[j].id => i = j \/ list[i].id \in twice \/ overtaken

\* What is only in the browser survives every answer of the server that
\* leaves the process in the list.
LocalDataKept ==
  [][~overtaken' => \A p \in Ids(list) \cap Ids(list') :
       HasFiles(list, p) => HasFiles(list', p)]_vars

\* Together: the list stays whole through crossing answers.
ListIsConsistent == ActiveIsListed /\ ListedOnce
=============================================================================
