------------------------------ MODULE MCWaiting -------------------------------
(* What waits for an answer or a lock, for TLC: the PDF jobs, the requests   *)
(* in line for a connection or a row, the questions to the analytics agent,  *)
(* and the runs of the migrations. They share no state, so a behaviour       *)
(* follows one of them, the focus, while the others rest.                    *)
EXTENDS Naturals, Sequences

CONSTANTS
  None, w1, w2, w3,
  Asking, MaxRetries, AsksByRowId,
  Clients, PoolMax, MaxNested, MaxCodes,
  Refs, Panes, Elsewhere, MaxDatasets, MaxIterations, MaxRuns,
  Runners, Files, MaxDeploys

VARIABLES
  focus,
  job, remote, req, handed,
  prog, at, conns, held, queue, code, counter, log,
  latest, saved, datasets, chat, pane,
  ledger, ran, lock, runner, runs

Jobs == INSTANCE PdfJobs WITH Slots <- Asking
Pool == INSTANCE ConnectionPool WITH Slots <- Clients
Agent == INSTANCE AnalyticsAgent WITH Registry <- <<"f1">>
Migrations == INSTANCE MigrationRunner WITH MaxRuns <- MaxDeploys

\* NULL is no status; the retries are a number.
NoneIsNoStatus == None \notin Jobs!Statuses /\ MaxRetries \in Nat

\* Nobody is NULL, and the files are counted.
NobodyIsNone == None \notin Runners /\ Files \in Nat

\* There is a round to answer in, and runs are counted.
AgentBounds == MaxIterations \in Nat \ {0} /\ MaxRuns \in Nat

\* The runs of the migrations are counted.
RunsCounted == MaxDeploys \in Nat

ASSUME ConstantsAreApart == NoneIsNoStatus /\ NobodyIsNone /\ AgentBounds /\ RunsCounted

jobs == <<job, remote, req, handed>>
pool == <<prog, at, conns, held, queue, code, counter, log>>
agent == <<latest, saved, datasets, chat, pane>>
migrations == <<ledger, ran, lock, runner, runs>>

vars == <<focus, jobs, pool, agent, migrations>>

Init ==
  /\ focus \in {"jobs", "pool", "agent", "migrations"}
  /\ Jobs!Init /\ Pool!Init /\ Agent!Init /\ Migrations!Init
  \* What rests starts in one state.
  /\ focus # "migrations" => ledger = {}

Next ==
  /\ UNCHANGED focus
  /\ \/ focus = "jobs" /\ Jobs!Next /\ UNCHANGED <<pool, agent, migrations>>
     \/ focus = "pool" /\ Pool!Next /\ UNCHANGED <<jobs, agent, migrations>>
     \/ focus = "agent" /\ Agent!Next /\ UNCHANGED <<jobs, pool, migrations>>
     \/ focus = "migrations" /\ Migrations!Next /\ UNCHANGED <<jobs, pool, agent>>

\* The fairness of PdfJobs, ConnectionPool and AnalyticsAgent.
InJobs(A) == focus = "jobs" /\ A /\ UNCHANGED <<focus, pool, agent, migrations>>
InPool(A) == focus = "pool" /\ A /\ UNCHANGED <<focus, jobs, agent, migrations>>
InAgent(A) == focus = "agent" /\ A /\ UNCHANGED <<focus, jobs, pool, migrations>>

Fairness ==
  /\ \A s \in Asking : /\ WF_vars(InJobs(Jobs!Serve(s))) /\ SF_vars(InJobs(Jobs!Poll(s)))
                       /\ SF_vars(InJobs(Jobs!AskSidecar(s))) /\ SF_vars(InJobs(Jobs!Settle(s)))
  /\ \A s \in Clients : WF_vars(InPool(Pool!Serve(s)))
  /\ \A r \in Pool!Rows : WF_vars(InPool(Pool!Lock(r)))
  /\ WF_vars(InPool(Pool!Connect)) /\ WF_vars(InPool(Pool!Break))
  /\ \A p \in Panes : WF_vars(InAgent(Agent!Render(p))) /\ WF_vars(InAgent(Agent!Break(p)))

FairSpec == Init /\ [][Next]_vars /\ Fairness

TypeOK == Jobs!TypeOK /\ Pool!TypeOK /\ Agent!TypeOK /\ Migrations!TypeOK

JobsFollowLifecycle == Jobs!JobsFollowLifecycle
JobSettles == Jobs!JobSettles
CodesInOrder == Pool!CodesInOrder
EveryRequestEnds == Pool!EveryRequestEnds
PaneSettles == Agent!PaneSettles
OnceInOrder == Migrations!OnceInOrder
=============================================================================
