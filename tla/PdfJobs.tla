------------------------------- MODULE PdfJobs -------------------------------
(***************************************************************************)
(* The PDF jobs of one idempotency key: startJob and getJob in several     *)
(* requests, the row they share, and the sidecar behind gRPC, which is     *)
(* not part of the repository and modelled by its contract: a job is       *)
(* started once per key and answers under the id the sidecar gave it.      *)
(***************************************************************************)
EXTENDS Naturals

CONSTANTS
  Slots,       \* requests in flight
  None,
  MaxRetries,  \* calls one unary gRPC request makes at most
  AsksByRowId  \* TRUE: a sidecar that also finds a job by the id of the API's
               \* row, as getJob presumes; StartJob's request does not carry it

VARIABLES
  job,     \* the status of the row, None while there is no row
  remote,  \* the job's status in the sidecar, None before it is started
  req,     \* per slot, the request in progress
  handed   \* how many requests have gone on to hand the job over

vars == <<job, remote, req, handed>>

Statuses == {"queued", "running", "succeeded", "failed", "cancelled"}
Ended == {"succeeded", "failed", "cancelled"}

Idle == [pc |-> "idle"]
Reqs == {Idle}
  \cup [pc : {"insert"}, saw : BOOLEAN]
  \cup [pc : {"presign", "run", "failed"}]
  \cup [pc : {"call"}, tries : 0..MaxRetries]
  \cup [pc : {"ask"}]
  \cup [pc : {"settle"}, answer : Ended]

TypeOK ==
  /\ job \in Statuses \cup {None}
  /\ remote \in (Statuses \ {"queued"}) \cup {None}
  /\ req \in [Slots -> Reqs]
  /\ handed \in Nat

Init ==
  /\ job = None /\ remote = None /\ handed = 0
  /\ req = [s \in Slots |-> Idle]

Goto(s, r) == req' = [req EXCEPT ![s] = r]

\* startJob up to the statement of createOrGet, whose snapshot shows the row
\* or does not.
Start(s) ==
  /\ req[s] = Idle
  /\ Goto(s, [pc |-> "insert", saw |-> job # None])
  /\ UNCHANGED <<job, remote, handed>>

\* The INSERT of the statement, and its commit. A conflicting row it did not
\* see makes the statement return nothing, and createOrGet throws; one it saw
\* is returned, and startJob is done.
CreateOrGet(s) ==
  /\ req[s].pc = "insert"
  /\ IF job = None
       THEN job' = "queued" /\ handed' = handed + 1 /\ Goto(s, [pc |-> "presign"])
       ELSE UNCHANGED <<job, handed>> /\ Goto(s, Idle)
  /\ UNCHANGED remote

\* The presigned URL, which may fail.
Presign(s) ==
  /\ req[s].pc = "presign"
  /\ \/ Goto(s, [pc |-> "run"]) \/ Goto(s, [pc |-> "failed"])
  /\ UNCHANGED <<job, remote, handed>>

MarkRunning(s) ==
  /\ req[s].pc = "run"
  /\ job' = IF job = "queued" THEN "running" ELSE job
  /\ Goto(s, [pc |-> "call", tries |-> 0])
  /\ UNCHANGED <<remote, handed>>

\* One call of StartJob reaches the sidecar, or does not, and its answer
\* arrives, or does not; transient failures are tried again. The read of the
\* job that follows may fail as well, with the job started.
CallSidecar(s) ==
  /\ req[s].pc = "call"
  /\ remote' \in {remote, IF remote = None THEN "running" ELSE remote}
  /\ \/ remote' # None /\ Goto(s, Idle)
     \/ req[s].tries + 1 < MaxRetries /\ Goto(s, [pc |-> "call", tries |-> req[s].tries + 1])
     \/ Goto(s, [pc |-> "failed"])
  /\ UNCHANGED <<job, handed>>

\* Mutant: the clause is missing.
SettledAlways(was, status) == status

\* What the WHERE clause of markSucceeded, markFailed and markCancelled lets
\* through.
Settled(was, status) == IF was \in {"succeeded", "cancelled"} THEN was ELSE status

\* markFailed of startJob. It may fail in its turn, and nobody is told.
MarkFailed(s) ==
  /\ req[s].pc = "failed"
  /\ job' \in {job, Settled(job, "failed")}
  /\ Goto(s, Idle)
  /\ UNCHANGED <<remote, handed>>

\* getJob: a row that has ended is returned as it is.
Poll(s) ==
  /\ req[s] = Idle /\ job # None
  /\ job \notin Ended /\ Goto(s, [pc |-> "ask"])
  /\ UNCHANGED <<job, remote, handed>>

\* Mutant: the sidecar is asked under an id it was never told.
AnswerUnknown == None

\* What GetJob says of the row's id: the job's status, or that there is none.
Answer == IF AsksByRowId THEN remote ELSE None

\* Mutant: a state that is not terminal is reconciled as well.
AskSidecarAny(s) ==
  /\ req[s].pc = "ask"
  /\ \/ Answer = None /\ Goto(s, Idle)
     \/ Answer # None /\ Goto(s, [pc |-> "settle", answer |-> Answer])
  /\ UNCHANGED <<job, remote, handed>>

\* The call of GetJob; it fails, or finds a job that has not ended, or one
\* that has.
AskSidecar(s) ==
  /\ req[s].pc = "ask"
  /\ \/ Answer \notin Ended /\ Goto(s, Idle)
     \/ Answer \in Ended /\ Goto(s, [pc |-> "settle", answer |-> Answer])
  /\ UNCHANGED <<job, remote, handed>>

AskFails(s) ==
  /\ req[s].pc = "ask" /\ Goto(s, Idle) /\ UNCHANGED <<job, remote, handed>>

Settle(s) ==
  /\ req[s].pc = "settle"
  /\ job' = Settled(job, req[s].answer)
  /\ Goto(s, Idle) /\ UNCHANGED <<remote, handed>>

\* The sidecar works on the job.
SidecarEnds ==
  /\ remote = "running" /\ remote' \in Ended
  /\ UNCHANGED <<job, req, handed>>

\* The API stops.
Crash ==
  /\ \E s \in Slots : req[s] # Idle
  /\ req' = [s \in Slots |-> Idle]
  /\ UNCHANGED <<job, remote, handed>>

Serve(s) ==
  \/ CreateOrGet(s) \/ Presign(s) \/ MarkRunning(s) \/ CallSidecar(s) \/ MarkFailed(s)
  \/ AskSidecar(s) \/ Settle(s)

Next ==
  \/ SidecarEnds \/ Crash
  \/ \E s \in Slots : Start(s) \/ Poll(s) \/ AskFails(s) \/ Serve(s)

Spec == Init /\ [][Next]_vars

\* Requests that are served are served to the end, somebody keeps asking for
\* the job whenever a request slot is free, and asking does not fail for ever.
FairSpec ==
  /\ Spec
  /\ \A s \in Slots : WF_vars(Serve(s)) /\ SF_vars(Poll(s))
                      /\ SF_vars(AskSidecar(s)) /\ SF_vars(Settle(s))

-----------------------------------------------------------------------------

\* The row lives as the migration says, however starts, polls, late failures
\* and crashes interleave.
Lifecycle == INSTANCE JobLifecycle WITH status <- job, None <- None
FollowsLifecycle == Lifecycle!Spec

\* One of the requests with the same key hands the job over, the others do not,
\* and a row says succeeded or cancelled only of a job that ended so.
OneHandOver == handed <= 1

EndIsTrue == job \in {"succeeded", "cancelled"} => job = remote

\* Together: one hand-over, the legal steps, a true end.
JobsFollowLifecycle == FollowsLifecycle /\ [](OneHandOver /\ EndIsTrue)

\* "Reconcile with the sidecar - terminal state there is authoritative": what
\* has ended there comes to be ended here, while somebody asks.
JobSettles == (remote \in Ended) ~> (job \in Ended)
=============================================================================
