----------------------------- MODULE WaitingProofs -----------------------------
(***************************************************************************)
(* What waits for an answer or a lock, for any number of requests,         *)
(* connections, retries, panes and deployments: event codes appear in      *)
(* their order, the row of a PDF job lives as JobLifecycle says, and every *)
(* migration is applied once, in order; and what waits is typed: no        *)
(* request stands in two lines, or in one twice.                           *)
(***************************************************************************)
EXTENDS MCWaiting, SequenceTheorems, TLAPS

\* Each part takes its own steps, or none.
LEMMA PartsStep ==
  [Next]_vars => /\ [Jobs!Next]_(Jobs!vars) /\ [Pool!Next]_(Pool!vars)
                 /\ [Agent!Next]_(Agent!vars) /\ [Migrations!Next]_(Migrations!vars)
BY DEF Next, vars, jobs, pool, agent, migrations, Jobs!vars, Pool!vars, Agent!vars, Migrations!vars

LEMMA PartsInit == Init => Jobs!Init /\ Pool!Init /\ Agent!Init /\ Migrations!Init
BY DEF Init

-----------------------------------------------------------------------------
(* Event codes                                                               *)

\* The part of the types the codes depend on.
CodesAreNumbers ==
  /\ held \in [Clients -> SUBSET Pool!Rows]
  /\ code \in [Clients -> Nat] /\ counter \in Nat /\ log \in Seq(Nat)

\* The row of the counter has one holder at most, and whoever has drawn a code
\* holds it and has the one that follows the committed value.
HolderHasNextCode ==
  /\ \A s, t \in Clients : "event" \in held[s] /\ "event" \in held[t] => s = t
  /\ \A s \in Clients : code[s] # 0 => "event" \in held[s] /\ code[s] = counter + 1

\* The counter has counted what is visible.
CounterFollowsLog == Len(log) = counter

PoolInv == CodesAreNumbers /\ HolderHasNextCode /\ CounterFollowsLog /\ Pool!CodesInOrder

LEMMA PoolInit == Pool!Init => PoolInv
BY DEF Pool!Init, PoolInv, CodesAreNumbers, HolderHasNextCode, CounterFollowsLog, Pool!CodesInOrder

\* A step that changes none of what the invariant speaks of.
LEMMA RestKeepsCodes ==
  ASSUME PoolInv, UNCHANGED <<held, code, counter, log>>
  PROVE  PoolInv'
BY DEF PoolInv, CodesAreNumbers, HolderHasNextCode, CounterFollowsLog, Pool!CodesInOrder

\* A row is locked when nobody holds it: the code that is drawn with the
\* counter's row follows the committed value, and no other has been drawn.
LEMMA LockKeepsCodes ==
  ASSUME PoolInv, NEW r \in Pool!Rows, Pool!Lock(r)
  PROVE  PoolInv'
<1> DEFINE s == Head(queue[r])
<1>1. /\ held' = [held EXCEPT ![s] = @ \cup {r}]
      /\ code' = IF r = "event" THEN [code EXCEPT ![s] = counter + 1] ELSE code
      /\ UNCHANGED <<counter, log>>
      /\ \A t \in Clients : r \notin held[t]
  BY DEF Pool!Lock, Pool!Holder
<1> HIDE DEF s
<1>2. CodesAreNumbers'
  <2>1. held' \in [Clients -> SUBSET Pool!Rows]
    BY <1>1 DEF PoolInv, CodesAreNumbers
  <2>2. code \in [Clients -> Nat] /\ counter + 1 \in Nat
    BY DEF PoolInv, CodesAreNumbers
  <2>3. [code EXCEPT ![s] = counter + 1] \in [Clients -> Nat]
    BY <2>2
  <2> QED BY <1>1, <2>1, <2>2, <2>3 DEF PoolInv, CodesAreNumbers
<1>3. \A t \in Clients : held'[t] = IF t = s THEN held[t] \cup {r} ELSE held[t]
  BY <1>1 DEF PoolInv, CodesAreNumbers
<1>4. \A t \in Clients : code'[t] = IF t = s /\ r = "event" THEN counter + 1 ELSE code[t]
  BY <1>1 DEF PoolInv, CodesAreNumbers
<1>5. HolderHasNextCode'
  <2>1. \A t, u \in Clients : "event" \in held'[t] /\ "event" \in held'[u] => t = u
    BY <1>1, <1>3 DEF PoolInv, HolderHasNextCode
  <2>2. \A t \in Clients : code'[t] # 0 => "event" \in held'[t] /\ code'[t] = counter' + 1
    BY <1>1, <1>3, <1>4 DEF PoolInv, HolderHasNextCode
  <2> QED BY <2>1, <2>2 DEF HolderHasNextCode
<1>6. CounterFollowsLog' /\ Pool!CodesInOrder'
  BY <1>1 DEF PoolInv, CounterFollowsLog, Pool!CodesInOrder
<1> QED
  BY <1>2, <1>5, <1>6 DEF PoolInv

\* What a request that is over gives up.
LEMMA EndGivesUp ==
  ASSUME PoolInv, NEW s \in Clients, Pool!End(s)
  PROVE  /\ held' \in [Clients -> SUBSET Pool!Rows] /\ code' \in [Clients -> Nat]
         /\ held'[s] = {} /\ code'[s] = 0
         /\ \A t \in Clients \ {s} : held'[t] = held[t] /\ code'[t] = code[t]
BY DEF PoolInv, CodesAreNumbers, Pool!End

\* The counter's row keeps every other code back until the one drawn is visible.
LEMMA CommitKeepsCodes ==
  ASSUME PoolInv, NEW s \in Clients, Pool!Commit(s)
  PROVE  PoolInv'
<1>1. /\ Pool!End(s)
      /\ log' = IF code[s] = 0 THEN log ELSE Append(log, code[s])
      /\ counter' = IF code[s] = 0 THEN counter ELSE code[s]
  BY DEF Pool!Commit
<1>2. CASE code[s] = 0
  BY <1>1, <1>2, EndGivesUp
     DEF PoolInv, CodesAreNumbers, HolderHasNextCode, CounterFollowsLog, Pool!CodesInOrder
<1>3. CASE code[s] # 0
  <2>1. code[s] = counter + 1 /\ counter \in Nat /\ log \in Seq(Nat) /\ Len(log) = counter
    BY <1>3 DEF PoolInv, CodesAreNumbers, HolderHasNextCode, CounterFollowsLog
  <2>2. log' = Append(log, counter + 1) /\ counter' = counter + 1
    BY <1>1, <1>3, <2>1
  <2>3. CodesAreNumbers' /\ CounterFollowsLog'
    BY <1>1, <2>1, <2>2, EndGivesUp DEF CodesAreNumbers, CounterFollowsLog
  <2>4. \A t \in Clients : code'[t] = 0
    BY <1>1, <1>3, EndGivesUp DEF PoolInv, HolderHasNextCode
  <2>5. HolderHasNextCode'
    BY <1>1, <2>4, EndGivesUp DEF PoolInv, HolderHasNextCode
  <2>6. Pool!CodesInOrder'
    BY <2>1, <2>2 DEF PoolInv, Pool!CodesInOrder
  <2> QED BY <2>3, <2>5, <2>6 DEF PoolInv
<1> QED
  BY <1>2, <1>3

\* A rollback takes the code back with the row.
LEMMA RollbackKeepsCodes ==
  ASSUME PoolInv, NEW s \in Clients, Pool!Rollback(s)
  PROVE  PoolInv'
<1>1. Pool!End(s) /\ UNCHANGED <<counter, log>>
  BY DEF Pool!Rollback
<1> QED
  BY <1>1, EndGivesUp DEF PoolInv, CodesAreNumbers, HolderHasNextCode, CounterFollowsLog, Pool!CodesInOrder

LEMMA PoolStep == PoolInv /\ [Pool!Next]_(Pool!vars) => PoolInv'
<1> SUFFICES ASSUME PoolInv, [Pool!Next]_(Pool!vars) PROVE PoolInv'
  OBVIOUS
<1>1. CASE Pool!Connect
  BY <1>1, RestKeepsCodes DEF Pool!Connect
<1>2. ASSUME NEW r \in Pool!Rows, Pool!Lock(r) PROVE PoolInv'
  BY <1>2, LockKeepsCodes
<1>3. ASSUME NEW s \in Clients, Pool!DeadlockAbort(s) PROVE PoolInv'
  BY <1>3, RollbackKeepsCodes DEF Pool!DeadlockAbort
<1>4. ASSUME NEW s \in Clients, NEW p \in DOMAIN Pool!Programs, Pool!Start(s, p) PROVE PoolInv'
  BY <1>4, RestKeepsCodes DEF Pool!Start
<1>5. ASSUME NEW s \in Clients, Pool!Ask(s) \/ Pool!Answer(s) PROVE PoolInv'
  BY <1>5, RestKeepsCodes DEF Pool!Ask, Pool!Answer
<1>6. ASSUME NEW s \in Clients, Pool!Commit(s) PROVE PoolInv'
  BY <1>6, CommitKeepsCodes
<1>7. ASSUME NEW s \in Clients, Pool!Fail(s) PROVE PoolInv'
  BY <1>7, RollbackKeepsCodes DEF Pool!Fail
<1>8. CASE UNCHANGED Pool!vars
  BY <1>8, RestKeepsCodes DEF Pool!vars
<1> QED
  BY <1>1, <1>2, <1>3, <1>4, <1>5, <1>6, <1>7, <1>8 DEF Pool!Next, Pool!Grant, Pool!Break, Pool!Serve

-----------------------------------------------------------------------------
(* PDF jobs                                                                  *)

\* The request that has handed the job over and is not done with it.
Owns(s) == req[s].pc \in {"presign", "run", "call", "failed"}

\* There is one owner at most, and none before there is a row.
OneOwner ==
  /\ handed = (IF job = None THEN 0 ELSE 1)
  /\ \A s \in Asking : Owns(s) => job # None
  /\ \A s, t \in Asking : Owns(s) /\ Owns(t) => s = t

\* Until the row says running the sidecar has not heard of the job, and its
\* owner has not turned to it.
StartsAfterRunning ==
  /\ remote # None => job \notin {None, "queued"}
  /\ \A s \in Asking :
       /\ req[s].pc \in {"presign", "run"} => remote = None
       /\ req[s].pc = "call" => job # "queued"

\* An answer that waits to be written down is how the job has ended.
AnswersAreTrue == \A s \in Asking : req[s].pc = "settle" => req[s].answer = remote

JobInv == Jobs!TypeOK /\ OneOwner /\ StartsAfterRunning /\ AnswersAreTrue /\ Jobs!EndIsTrue

LEMMA JobInit == ASSUME NoneIsNoStatus PROVE Jobs!Init => JobInv /\ Jobs!Lifecycle!Init
BY DEF NoneIsNoStatus, Jobs!Statuses, Jobs!Init, JobInv, Jobs!TypeOK, Jobs!Idle, Jobs!Reqs, Owns, OneOwner, StartsAfterRunning,
       AnswersAreTrue, Jobs!EndIsTrue, Jobs!Lifecycle!Init

\* A request is in one of its phases.
LEMMA Phases ==
  ASSUME Jobs!TypeOK, NEW s \in Asking
  PROVE  /\ req[s] \in Jobs!Reqs
         /\ req[s].pc \in {"idle", "insert", "presign", "run", "failed", "call", "ask", "settle"}
         /\ req[s].pc = "settle" => req[s].answer \in Jobs!Ended
         /\ req[s].pc = "call" => req[s].tries \in 0..MaxRetries
         /\ req[s].pc = "idle" <=> req[s] = Jobs!Idle
BY DEF Jobs!TypeOK, Jobs!Reqs, Jobs!Idle

\* A step of a request that leaves row, sidecar and count alone and neither
\* becomes an owner nor gets an answer.
LEMMA QuietStep ==
  ASSUME NoneIsNoStatus, JobInv, NEW s \in Asking, NEW r \in Jobs!Reqs, Jobs!Goto(s, r),
         UNCHANGED <<job, remote, handed>>,
         r.pc \in {"idle", "insert", "ask"}
  PROVE  JobInv'
<1>1. \A t \in Asking : req'[t] = IF t = s THEN r ELSE req[t]
  BY DEF Jobs!Goto, JobInv, Jobs!TypeOK
<1>2. req' \in [Asking -> Jobs!Reqs]
  BY DEF Jobs!Goto, JobInv, Jobs!TypeOK
<1> QED
  BY <1>1, <1>2 DEF JobInv, Jobs!TypeOK, Owns, OneOwner, StartsAfterRunning, AnswersAreTrue, Jobs!EndIsTrue

\* The INSERT that finds no row makes its request the owner.
LEMMA CreateKeeps ==
  ASSUME NoneIsNoStatus, JobInv, NEW s \in Asking, Jobs!CreateOrGet(s)
  PROVE  JobInv' /\ [Jobs!Lifecycle!Next]_job
<1>1. CASE job # None
  <2>1. Jobs!Goto(s, Jobs!Idle) /\ UNCHANGED <<job, remote, handed>>
    BY <1>1 DEF Jobs!CreateOrGet
  <2> QED BY <2>1, QuietStep DEF Jobs!Idle, Jobs!Reqs
<1>2. CASE job = None
  <2> DEFINE r == [pc |-> "presign"]
  <2>1. /\ job' = "queued" /\ handed' = handed + 1 /\ remote' = remote /\ r \in Jobs!Reqs
        /\ req' = [req EXCEPT ![s] = r]
    BY <1>2 DEF Jobs!CreateOrGet, Jobs!Goto, Jobs!Reqs
  <2>2. \A t \in Asking : req'[t] = IF t = s THEN r ELSE req[t]
    BY <2>1 DEF JobInv, Jobs!TypeOK
  <2>3. remote = None /\ handed = 0 /\ \A t \in Asking : ~Owns(t)
    BY <1>2 DEF JobInv, OneOwner, StartsAfterRunning
  <2>4. Jobs!TypeOK'
    BY <2>1, <2>3 DEF JobInv, Jobs!TypeOK, Jobs!Statuses
  <2>5. OneOwner'
    BY <2>1, <2>2, <2>3 DEF OneOwner, Owns, NoneIsNoStatus, Jobs!Statuses
  <2>6. StartsAfterRunning' /\ AnswersAreTrue' /\ Jobs!EndIsTrue'
    BY <2>1, <2>2, <2>3 DEF JobInv, StartsAfterRunning, AnswersAreTrue, Jobs!EndIsTrue, Owns
  <2> QED
    BY <1>2, <2>1, <2>4, <2>5, <2>6 DEF JobInv, Jobs!Lifecycle!Next, Jobs!Lifecycle!Create
<1> QED BY <1>1, <1>2

\* The URL is signed, or its owner goes on to say that the job has failed.
LEMMA PresignKeeps ==
  ASSUME NoneIsNoStatus, JobInv, NEW s \in Asking, Jobs!Presign(s)
  PROVE  JobInv' /\ [Jobs!Lifecycle!Next]_job
<1>1. PICK r \in {[pc |-> "run"], [pc |-> "failed"]} : Jobs!Goto(s, r)
  BY DEF Jobs!Presign
<1>2. r \in Jobs!Reqs /\ r.pc \in {"run", "failed"} /\ req[s].pc = "presign"
      /\ UNCHANGED <<job, remote, handed>> /\ req' \in [Asking -> Jobs!Reqs]
  BY <1>1 DEF Jobs!Presign, Jobs!Reqs, Jobs!Goto, JobInv, Jobs!TypeOK
<1>3. \A t \in Asking : req'[t] = IF t = s THEN r ELSE req[t]
  BY <1>1 DEF Jobs!Goto, JobInv, Jobs!TypeOK
<1> QED
  BY <1>2, <1>3
     DEF JobInv, Jobs!TypeOK, OneOwner, Owns, StartsAfterRunning, AnswersAreTrue, Jobs!EndIsTrue

\* Only now does the owner turn to the sidecar.
LEMMA MarkRunningKeeps ==
  ASSUME NoneIsNoStatus, JobInv, NEW s \in Asking, Jobs!MarkRunning(s)
  PROVE  JobInv' /\ [Jobs!Lifecycle!Next]_job
<1> DEFINE r == [pc |-> "call", tries |-> 0]
<1>1. /\ req[s].pc = "run" /\ Jobs!Goto(s, r) /\ UNCHANGED <<remote, handed>>
      /\ job' = IF job = "queued" THEN "running" ELSE job
  BY DEF Jobs!MarkRunning
<1>2. r \in Jobs!Reqs /\ r.pc = "call"
  BY DEF Jobs!Reqs, NoneIsNoStatus
<1> HIDE DEF r
<1>3. req' \in [Asking -> Jobs!Reqs] /\ \A t \in Asking : req'[t] = IF t = s THEN r ELSE req[t]
  BY <1>1, <1>2 DEF Jobs!Goto, JobInv, Jobs!TypeOK
<1>4. remote = None /\ job # None /\ job' \in Jobs!Statuses /\ job' # "queued" /\ job' # None
  BY <1>1 DEF JobInv, Jobs!TypeOK, OneOwner, Owns, StartsAfterRunning, NoneIsNoStatus, Jobs!Statuses
<1>5. Jobs!TypeOK'
  BY <1>1, <1>3, <1>4 DEF JobInv, Jobs!TypeOK
<1>6. OneOwner'
  BY <1>1, <1>2, <1>3, <1>4 DEF JobInv, OneOwner, Owns
<1>7. StartsAfterRunning' /\ AnswersAreTrue'
  BY <1>1, <1>2, <1>3, <1>4 DEF JobInv, StartsAfterRunning, AnswersAreTrue
<1>8. Jobs!EndIsTrue'
  BY <1>1 DEF JobInv, Jobs!EndIsTrue
<1> QED
  BY <1>1, <1>5, <1>6, <1>7, <1>8 DEF JobInv, Jobs!Lifecycle!Next, Jobs!Lifecycle!Run

\* The sidecar starts a job whose row says running, failed at the least.
LEMMA CallKeeps ==
  ASSUME NoneIsNoStatus, JobInv, NEW s \in Asking, Jobs!CallSidecar(s)
  PROVE  JobInv' /\ [Jobs!Lifecycle!Next]_job
<1>1. PICK r \in Jobs!Reqs : Jobs!Goto(s, r) /\ r.pc \in {"idle", "call", "failed"}
  <2>1. CASE Jobs!Goto(s, Jobs!Idle)
    BY <2>1 DEF Jobs!Idle, Jobs!Reqs
  <2>2. CASE /\ req[s].tries + 1 < MaxRetries
             /\ Jobs!Goto(s, [pc |-> "call", tries |-> req[s].tries + 1])
    <3>1. req[s].tries \in 0..MaxRetries
      BY Phases DEF Jobs!CallSidecar, JobInv
    <3>2. [pc |-> "call", tries |-> req[s].tries + 1] \in Jobs!Reqs
      BY <2>2, <3>1 DEF Jobs!Reqs, NoneIsNoStatus
    <3> QED BY <2>2, <3>2
  <2>3. CASE Jobs!Goto(s, [pc |-> "failed"])
    BY <2>3 DEF Jobs!Reqs
  <2> QED BY <2>1, <2>2, <2>3 DEF Jobs!CallSidecar
<1>2. /\ req[s].pc = "call" /\ UNCHANGED <<job, handed>>
      /\ remote' \in {remote, IF remote = None THEN "running" ELSE remote}
  BY DEF Jobs!CallSidecar
<1>3. req' \in [Asking -> Jobs!Reqs] /\ \A t \in Asking : req'[t] = IF t = s THEN r ELSE req[t]
  BY <1>1 DEF Jobs!Goto, JobInv, Jobs!TypeOK
<1>4. job \notin {None, "queued"} /\ \A t \in Asking : req[t].pc \notin {"presign", "run"}
  BY <1>2 DEF JobInv, OneOwner, Owns, StartsAfterRunning
<1>5. Jobs!TypeOK'
  BY <1>2, <1>3 DEF JobInv, Jobs!TypeOK, Jobs!Statuses
<1>6. OneOwner'
  BY <1>1, <1>2, <1>3 DEF JobInv, OneOwner, Owns
<1>7. StartsAfterRunning'
  BY <1>1, <1>2, <1>3, <1>4 DEF JobInv, StartsAfterRunning
<1>8. AnswersAreTrue' /\ Jobs!EndIsTrue'
  <2>1. \A t \in Asking : req[t].pc = "settle" => req[t].answer \in Jobs!Ended
    BY Phases DEF JobInv
  <2>2. None \notin Jobs!Ended
    BY DEF NoneIsNoStatus, Jobs!Statuses, Jobs!Ended
  <2> QED
    BY <1>1, <1>2, <1>3, <2>1, <2>2
       DEF JobInv, AnswersAreTrue, Jobs!EndIsTrue, NoneIsNoStatus, Jobs!Statuses
<1> QED
  BY <1>2, <1>5, <1>6, <1>7, <1>8 DEF JobInv

\* A row that says failed may be wrong, one that says succeeded or cancelled is
\* not overwritten.
LEMMA MarkFailedKeeps ==
  ASSUME NoneIsNoStatus, JobInv, NEW s \in Asking, Jobs!MarkFailed(s)
  PROVE  JobInv' /\ [Jobs!Lifecycle!Next]_job
<1>1. /\ req[s].pc = "failed" /\ UNCHANGED <<remote, handed>> /\ Jobs!Goto(s, Jobs!Idle)
      /\ job' \in {job, Jobs!Settled(job, "failed")}
  BY DEF Jobs!MarkFailed
<1>2. Jobs!Idle \in Jobs!Reqs /\ Jobs!Idle.pc = "idle"
  BY DEF Jobs!Idle, Jobs!Reqs
<1>3. req' \in [Asking -> Jobs!Reqs] /\ \A t \in Asking : req'[t] = IF t = s THEN Jobs!Idle ELSE req[t]
  BY <1>1, <1>2 DEF Jobs!Goto, JobInv, Jobs!TypeOK
<1>4. job \in Jobs!Statuses
  BY <1>1 DEF JobInv, Jobs!TypeOK, OneOwner, Owns
<1>5. job' \in Jobs!Statuses /\ (job' # job => job' = "failed" /\ job \in {"queued", "running"})
  BY <1>1, <1>4 DEF Jobs!Settled, Jobs!Statuses
<1>6. Jobs!TypeOK'
  BY <1>1, <1>3, <1>5 DEF JobInv, Jobs!TypeOK
<1>7. OneOwner' /\ StartsAfterRunning' /\ AnswersAreTrue' /\ Jobs!EndIsTrue'
  BY <1>1, <1>2, <1>3, <1>4, <1>5
     DEF JobInv, OneOwner, Owns, StartsAfterRunning, AnswersAreTrue, Jobs!EndIsTrue, NoneIsNoStatus, Jobs!Statuses
<1> QED
  BY <1>5, <1>6, <1>7 DEF JobInv, Jobs!Lifecycle!Next, Jobs!Lifecycle!Fail

\* What has ended there ends here, as long as nothing truer is written down.
LEMMA SettleKeeps ==
  ASSUME NoneIsNoStatus, JobInv, NEW s \in Asking, Jobs!Settle(s)
  PROVE  JobInv' /\ [Jobs!Lifecycle!Next]_job
<1>1. /\ req[s].pc = "settle" /\ UNCHANGED <<remote, handed>> /\ Jobs!Goto(s, Jobs!Idle)
      /\ job' = Jobs!Settled(job, req[s].answer)
  BY DEF Jobs!Settle
<1>2. Jobs!Idle \in Jobs!Reqs /\ Jobs!Idle.pc = "idle"
  BY DEF Jobs!Idle, Jobs!Reqs
<1>3. req' \in [Asking -> Jobs!Reqs] /\ \A t \in Asking : req'[t] = IF t = s THEN Jobs!Idle ELSE req[t]
  BY <1>1, <1>2 DEF Jobs!Goto, JobInv, Jobs!TypeOK
<1>4. req[s].answer = remote /\ remote \in Jobs!Ended
  BY <1>1, Phases DEF JobInv, AnswersAreTrue
<1>5. job \in Jobs!Statuses \ {"queued"}
  BY <1>4 DEF JobInv, Jobs!TypeOK, StartsAfterRunning, NoneIsNoStatus, Jobs!Statuses, Jobs!Ended
<1>6. /\ job' \in Jobs!Statuses \ {"queued"}
      /\ job' # job => job' = remote /\ job \in {"running", "failed"}
  BY <1>1, <1>4, <1>5 DEF Jobs!Settled, Jobs!Statuses, Jobs!Ended
<1>7. Jobs!TypeOK'
  BY <1>1, <1>3, <1>6 DEF JobInv, Jobs!TypeOK
<1>8. OneOwner' /\ StartsAfterRunning' /\ AnswersAreTrue' /\ Jobs!EndIsTrue'
  BY <1>1, <1>2, <1>3, <1>5, <1>6
     DEF JobInv, OneOwner, Owns, StartsAfterRunning, AnswersAreTrue, Jobs!EndIsTrue, NoneIsNoStatus, Jobs!Statuses
<1>9. [Jobs!Lifecycle!Next]_job
  BY <1>4, <1>6
     DEF Jobs!Ended, Jobs!Lifecycle!Next, Jobs!Lifecycle!End, Jobs!Lifecycle!Fail, Jobs!Lifecycle!Correct
<1> QED
  BY <1>7, <1>8, <1>9 DEF JobInv

\* The sidecar's answer is kept as it was given.
LEMMA AskKeeps ==
  ASSUME NoneIsNoStatus, JobInv, NEW s \in Asking, Jobs!AskSidecar(s) \/ Jobs!AskFails(s)
  PROVE  JobInv' /\ [Jobs!Lifecycle!Next]_job
<1>1. CASE Jobs!Goto(s, Jobs!Idle)
  BY <1>1, QuietStep DEF Jobs!AskSidecar, Jobs!AskFails, Jobs!Idle, Jobs!Reqs
<1>2. CASE Jobs!Answer \in Jobs!Ended /\ Jobs!Goto(s, [pc |-> "settle", answer |-> Jobs!Answer])
  <2> DEFINE r == [pc |-> "settle", answer |-> Jobs!Answer]
  <2>1. Jobs!Answer = remote
    BY <1>2 DEF Jobs!Answer, NoneIsNoStatus, Jobs!Statuses, Jobs!Ended
  <2>2. r \in Jobs!Reqs /\ r.pc = "settle" /\ r.answer = remote /\ UNCHANGED <<job, remote, handed>>
    BY <1>2, <2>1 DEF Jobs!Reqs, Jobs!AskSidecar, Jobs!AskFails
  <2> HIDE DEF r
  <2>3. req' \in [Asking -> Jobs!Reqs] /\ \A t \in Asking : req'[t] = IF t = s THEN r ELSE req[t]
    BY <1>2, <2>2 DEF Jobs!Goto, JobInv, Jobs!TypeOK, r
  <2> QED
    BY <2>2, <2>3 DEF JobInv, Jobs!TypeOK, OneOwner, Owns, StartsAfterRunning, AnswersAreTrue, Jobs!EndIsTrue
<1> QED
  BY <1>1, <1>2 DEF Jobs!AskSidecar, Jobs!AskFails

\* The sidecar ends a job that runs there.
LEMMA SidecarKeeps ==
  ASSUME NoneIsNoStatus, JobInv, Jobs!SidecarEnds
  PROVE  JobInv' /\ [Jobs!Lifecycle!Next]_job
<1>1. remote = "running" /\ remote' \in Jobs!Ended /\ UNCHANGED <<job, req, handed>>
  BY DEF Jobs!SidecarEnds
<1>2. \A s \in Asking : req[s].pc # "settle"
  BY <1>1, Phases DEF JobInv, AnswersAreTrue, Jobs!Ended
<1>3. job \notin {"succeeded", "cancelled", None, "queued"}
        /\ \A s \in Asking : req[s].pc \notin {"presign", "run"}
  BY <1>1 DEF JobInv, Jobs!EndIsTrue, StartsAfterRunning, NoneIsNoStatus, Jobs!Statuses
<1>4. Jobs!TypeOK'
  BY <1>1 DEF JobInv, Jobs!TypeOK, Jobs!Ended, Jobs!Statuses
<1> QED
  BY <1>1, <1>2, <1>3, <1>4
     DEF JobInv, OneOwner, Owns, StartsAfterRunning, AnswersAreTrue, Jobs!EndIsTrue

\* A crash forgets the requests, and the row may stay as it is for ever.
LEMMA CrashKeeps ==
  ASSUME NoneIsNoStatus, JobInv, Jobs!Crash
  PROVE  JobInv' /\ [Jobs!Lifecycle!Next]_job
<1>1. req' = [s \in Asking |-> Jobs!Idle] /\ UNCHANGED <<job, remote, handed>>
  BY DEF Jobs!Crash
<1>2. \A s \in Asking : req'[s] \in Jobs!Reqs /\ req'[s].pc = "idle"
  BY <1>1 DEF Jobs!Idle, Jobs!Reqs
<1> QED
  BY <1>1, <1>2 DEF JobInv, Jobs!TypeOK, OneOwner, Owns, StartsAfterRunning, AnswersAreTrue, Jobs!EndIsTrue

LEMMA JobStep == ASSUME NoneIsNoStatus PROVE JobInv /\ [Jobs!Next]_(Jobs!vars) => JobInv' /\ [Jobs!Lifecycle!Next]_job
<1> SUFFICES ASSUME JobInv, [Jobs!Next]_(Jobs!vars) PROVE JobInv' /\ [Jobs!Lifecycle!Next]_job
  OBVIOUS
<1>1. ASSUME NEW s \in Asking, Jobs!Start(s) \/ Jobs!Poll(s) PROVE JobInv' /\ [Jobs!Lifecycle!Next]_job
  <2>1. PICK r \in Jobs!Reqs : Jobs!Goto(s, r) /\ r.pc \in {"insert", "ask"}
    <3>1. [pc |-> "insert", saw |-> job # None] \in Jobs!Reqs /\ [pc |-> "ask"] \in Jobs!Reqs
      BY DEF Jobs!Reqs
    <3> QED BY <1>1, <3>1 DEF Jobs!Start, Jobs!Poll
  <2> QED BY <1>1, <2>1, QuietStep DEF Jobs!Start, Jobs!Poll
<1>2. ASSUME NEW s \in Asking, Jobs!Serve(s) PROVE JobInv' /\ [Jobs!Lifecycle!Next]_job
  BY <1>2, CreateKeeps, PresignKeeps, MarkRunningKeeps, CallKeeps, MarkFailedKeeps, AskKeeps,
     SettleKeeps DEF Jobs!Serve
<1>3. CASE UNCHANGED Jobs!vars
  BY <1>3 DEF Jobs!vars, JobInv, Jobs!TypeOK, OneOwner, Owns, StartsAfterRunning, AnswersAreTrue, Jobs!EndIsTrue
<1> QED
  BY <1>1, <1>2, <1>3, AskKeeps, SidecarKeeps, CrashKeeps DEF Jobs!Next

-----------------------------------------------------------------------------
(* Migrations                                                                *)

\* The runs, and what of the ledger they go by: the ledger holds the first
\* files, and what is pending in a run are the files from some number on, all
\* before which have been applied.
RunTypes ==
  /\ ran \in [Migrations!All -> Nat] /\ lock \in Runners \cup {None}
  /\ runner \in [Runners -> Migrations!On \cup {Migrations!Off}]
LedgerIsPrefix == \E k \in 0..Files : ledger = 1..k
PendingAfter(p) ==
  \E a \in 1..(Files + 1), n \in 0..Files : p = a..n /\ 1..(a - 1) \subseteq ledger
PendingFollowsLedger ==
  \A r \in Runners : runner[r] # Migrations!Off => PendingAfter(runner[r].pending)

\* Whoever is in a file holds the advisory lock, and what has run is recorded.
InFileUnderLock ==
  \A r \in Runners : runner[r].pc \in {"locked", "checked"} =>
    lock = r /\ runner[r] # Migrations!Off /\ runner[r].pending # {}
RanIsRecorded == \A f \in Migrations!All : ran[f] # 0 => f \in ledger

MigrationInv ==
  /\ RunTypes /\ LedgerIsPrefix /\ PendingFollowsLedger /\ InFileUnderLock /\ RanIsRecorded
  /\ Migrations!NobodyRunsTwice

LEMMA MigrationInit == ASSUME NobodyIsNone PROVE Migrations!Init => MigrationInv
<1> SUFFICES ASSUME Migrations!Init PROVE MigrationInv
  OBVIOUS
<1>1. PICK n \in 0..Files :
        ledger = 1..n /\ ran = [f \in Migrations!All |-> IF f <= n THEN 1 ELSE 0]
  BY DEF Migrations!Init
<1>2. \A r \in Runners : runner[r] = Migrations!Off
  BY DEF Migrations!Init
<1>3. \A f \in Migrations!All : f \in 1..Files
  BY DEF Migrations!All
<1>4. \A f \in Migrations!All : ran[f] \in 0..1 /\ (ran[f] # 0 => f \in ledger)
  BY <1>1, <1>3 DEF NobodyIsNone
<1>5. RunTypes
  <2>1. ran \in [Migrations!All -> Nat]
    BY <1>1
  <2> QED BY <2>1 DEF RunTypes, Migrations!Init
<1> QED
  BY <1>1, <1>2, <1>4, <1>5
     DEF MigrationInv, LedgerIsPrefix, PendingFollowsLedger, InFileUnderLock, RanIsRecorded,
         Migrations!NobodyRunsTwice, Migrations!Off

\* The next file of a run is the first one pending.
LEMMA NextFile ==
  ASSUME NEW r \in Runners, NEW a \in Nat, NEW n \in Nat, runner[r].pending = a..n, a..n # {}
  PROVE  Migrations!File(r) = a /\ a \in a..n
<1>1. a \in a..n /\ \A g \in a..n : a <= g
  OBVIOUS
<1>2. \A f \in a..n : (\A g \in a..n : f <= g) => f = a
  BY <1>1
<1> QED
  BY <1>1, <1>2 DEF Migrations!File

\* A run takes up, passes on or gives up its lock; ledger and files stay.
LEMMA RunStep ==
  ASSUME NobodyIsNone, MigrationInv, NEW r \in Runners, NEW x \in Migrations!On \cup {Migrations!Off},
         runner' = [runner EXCEPT ![r] = x], UNCHANGED <<ledger, ran>>,
         x # Migrations!Off => PendingAfter(x.pending),
         lock' \in Runners \cup {None},
         \A s \in Runners : s # r => (lock = s => lock' = s),
         x.pc \in {"locked", "checked"} => lock' = r /\ x.pending # {},
         x.pc = "checked" => runner[r].pc = "locked" /\ ~Migrations!InLedger(r)
                             /\ x.pending = runner[r].pending
  PROVE  MigrationInv'
<1>1. /\ \A s \in Runners : runner'[s] = IF s = r THEN x ELSE runner[s]
      /\ runner' \in [Runners -> Migrations!On \cup {Migrations!Off}]
  BY DEF MigrationInv, RunTypes
<1>2. RunTypes' /\ LedgerIsPrefix' /\ RanIsRecorded'
  BY <1>1 DEF MigrationInv, RunTypes, LedgerIsPrefix, RanIsRecorded
<1>3. PendingFollowsLedger'
  BY <1>1 DEF MigrationInv, PendingFollowsLedger, PendingAfter
<1>4. InFileUnderLock'
  <2>1. ~(Migrations!Off.pc \in {"locked", "checked"})
    BY DEF Migrations!Off
  <2> QED BY <1>1, <2>1 DEF MigrationInv, InFileUnderLock
<1>5. \A s \in Runners : runner'[s].pc = "checked" => Migrations!File(s)' \notin ledger
  <2>1. \A s \in Runners : runner'[s].pending = runner[s].pending =>
          Migrations!File(s)' = Migrations!File(s)
    BY DEF Migrations!File
  <2> QED BY <1>1, <2>1 DEF MigrationInv, Migrations!NobodyRunsTwice, Migrations!InLedger
<1> QED
  BY <1>2, <1>3, <1>4, <1>5 DEF MigrationInv, Migrations!NobodyRunsTwice

\* What is pending once the next file is passed over.
LEMMA PendingShrinks ==
  ASSUME NobodyIsNone, MigrationInv, NEW r \in Runners, runner[r].pc \in {"locked", "checked"}
  PROVE  \E a \in 1..Files, n \in 0..Files :
           /\ Migrations!File(r) = a /\ 1..(a - 1) \subseteq ledger
           /\ runner[r].pending = a..n /\ a <= n
           /\ runner[r].pending \ {a} = (a + 1)..n
<1>1. runner[r] # Migrations!Off /\ runner[r].pending # {}
  BY DEF MigrationInv, InFileUnderLock
<1>2. PICK a \in 1..(Files + 1), n \in 0..Files :
        runner[r].pending = a..n /\ 1..(a - 1) \subseteq ledger
  BY <1>1 DEF MigrationInv, PendingFollowsLedger, PendingAfter
<1>3. a \in Nat /\ n \in Nat /\ a <= n /\ a \in 1..Files
  BY <1>1, <1>2 DEF NobodyIsNone
<1>4. Migrations!File(r) = a
  BY <1>1, <1>2, <1>3, NextFile
<1>5. (a..n) \ {a} = (a + 1)..n
  BY <1>3
<1> QED
  BY <1>2, <1>3, <1>4, <1>5

LEMMA StartKeepsOrder ==
  ASSUME NobodyIsNone, MigrationInv, NEW r \in Runners, Migrations!Start(r)
  PROVE  MigrationInv'
<1>1. PICK n \in Migrations!All :
        runner' = [runner EXCEPT ![r] = [pc |-> "next", pending |-> 1..n \ ledger]]
  BY DEF Migrations!Start
<1> DEFINE x == [pc |-> "next", pending |-> 1..n \ ledger]
<1>2. PICK k \in 0..Files : ledger = 1..k
  BY DEF MigrationInv, LedgerIsPrefix
<1>3. n \in 0..Files /\ k + 1 \in 1..(Files + 1)
  BY DEF Migrations!All, NobodyIsNone
<1>4. (1..n) \ (1..k) = (k + 1)..n /\ 1..((k + 1) - 1) \subseteq ledger
  BY <1>2, <1>3 DEF NobodyIsNone
<1>5. PendingAfter(x.pending)
  BY <1>2, <1>3, <1>4 DEF PendingAfter
<1>6. x \in Migrations!On
  BY <1>3 DEF Migrations!On, Migrations!All, NobodyIsNone
<1>7. x.pc = "next" /\ UNCHANGED <<ledger, ran, lock>> /\ lock \in Runners \cup {None}
  BY DEF Migrations!Start, MigrationInv, RunTypes
<1> HIDE DEF x
<1> QED
  BY <1>1, <1>5, <1>6, <1>7, RunStep DEF x

\* A file is applied on a schema all earlier ones have changed.
LEMMA ApplyKeepsOrder ==
  ASSUME NobodyIsNone, MigrationInv, NEW r \in Runners, NEW baseline \in BOOLEAN,
         Migrations!Apply(r, baseline)
  PROVE  MigrationInv'
<1>1. PICK a \in 1..Files, n \in 0..Files :
        /\ Migrations!File(r) = a /\ 1..(a - 1) \subseteq ledger
        /\ runner[r].pending = a..n /\ a <= n
        /\ runner[r].pending \ {a} = (a + 1)..n
  BY PendingShrinks DEF Migrations!Apply
<1> DEFINE x == [pc |-> "next", pending |-> (a + 1)..n]
<1>2. /\ runner[r].pc = "checked" /\ a \notin ledger /\ ledger' = ledger \cup {a}
      /\ ran' \in {ran, [ran EXCEPT ![a] = @ + 1]} /\ lock' = None
      /\ runner' = [runner EXCEPT ![r] = x]
  BY <1>1 DEF Migrations!Apply
<1>3. lock = r
  BY <1>2 DEF MigrationInv, InFileUnderLock
<1>4. \A s \in Runners : s # r => runner[s].pc \notin {"locked", "checked"}
  BY <1>3 DEF MigrationInv, InFileUnderLock
<1>5. PICK k \in 0..Files : ledger = 1..k
  BY DEF MigrationInv, LedgerIsPrefix
<1>6. a = k + 1 /\ k + 1 \in 0..Files /\ ledger' = 1..(k + 1)
  BY <1>1, <1>2, <1>5 DEF NobodyIsNone
<1>7. LedgerIsPrefix'
  BY <1>6 DEF LedgerIsPrefix
<1>8. x \in Migrations!On /\ a \in Migrations!All
  BY <1>1 DEF Migrations!On, Migrations!All, NobodyIsNone
<1>9. \A s \in Runners : runner'[s] = IF s = r THEN x ELSE runner[s]
  BY <1>2 DEF MigrationInv, RunTypes
<1>10. RunTypes'
  <2> HIDE DEF x
  <2>1. [ran EXCEPT ![a] = @ + 1] \in [Migrations!All -> Nat]
    BY <1>8 DEF MigrationInv, RunTypes
  <2>2. runner' \in [Runners -> Migrations!On \cup {Migrations!Off}]
    BY <1>2, <1>8 DEF MigrationInv, RunTypes
  <2> QED BY <1>2, <2>1, <2>2 DEF MigrationInv, RunTypes
<1>11. PendingFollowsLedger'
  <2> SUFFICES ASSUME NEW s \in Runners, runner'[s] # Migrations!Off
               PROVE  \E b \in 1..(Files + 1), m \in 0..Files :
                        runner'[s].pending = b..m /\ 1..(b - 1) \subseteq ledger'
    BY DEF PendingFollowsLedger, PendingAfter
  <2>1. CASE s = r
    <3>1. a + 1 \in 1..(Files + 1) /\ 1..((a + 1) - 1) \subseteq ledger'
      BY <1>1, <1>6 DEF NobodyIsNone
    <3> QED BY <1>1, <1>9, <2>1, <3>1
  <2>2. CASE s # r
    <3>1. runner'[s] = runner[s] /\ ledger \subseteq ledger'
      BY <1>2, <1>9, <2>2
    <3>2. PICK b \in 1..(Files + 1), m \in 0..Files :
            runner[s].pending = b..m /\ 1..(b - 1) \subseteq ledger
      BY <3>1 DEF MigrationInv, PendingFollowsLedger, PendingAfter
    <3> QED BY <3>1, <3>2
  <2> QED BY <2>1, <2>2
<1>12. InFileUnderLock' /\ \A s \in Runners : runner'[s].pc # "checked"
  BY <1>4, <1>9 DEF InFileUnderLock
<1>13. \A f \in Migrations!All : ran'[f] <= 1 /\ (ran'[f] # 0 => f \in ledger')
  <2>1. ran[a] = 0
    BY <1>2, <1>8 DEF MigrationInv, RanIsRecorded
  <2>2. \A f \in Migrations!All : ran'[f] = ran[f] \/ (f = a /\ ran'[f] = 1)
    BY <1>2, <1>8, <2>1 DEF MigrationInv, RunTypes
  <2> QED
    BY <1>2, <2>2 DEF MigrationInv, RanIsRecorded, Migrations!NobodyRunsTwice
<1> QED
  BY <1>7, <1>10, <1>11, <1>12, <1>13 DEF MigrationInv, RanIsRecorded, Migrations!NobodyRunsTwice

LEMMA MigrationStep ==
  ASSUME NobodyIsNone PROVE MigrationInv /\ [Migrations!Next]_(Migrations!vars) => MigrationInv'
<1> SUFFICES ASSUME MigrationInv, [Migrations!Next]_(Migrations!vars) PROVE MigrationInv'
  OBVIOUS
<1> USE DEF Migrations!On, Migrations!Off
<1>1. \A r \in Runners :
        /\ runner[r] \in Migrations!On \cup {Migrations!Off}
        /\ runner[r].pc # "off" => runner[r] \in Migrations!On /\ PendingAfter(runner[r].pending)
        /\ lock \in Runners \cup {None}
  BY DEF MigrationInv, RunTypes, PendingFollowsLedger
<1>2. ASSUME NEW r \in Runners, Migrations!Lock(r) PROVE MigrationInv'
  <2> DEFINE x == [runner[r] EXCEPT !.pc = "locked"]
  <2>1. x \in Migrations!On /\ x.pc = "locked" /\ x.pending = runner[r].pending
    BY <1>1, <1>2 DEF Migrations!Lock
  <2>2. /\ runner' = [runner EXCEPT ![r] = x] /\ lock' = r /\ lock = None /\ x.pending # {}
        /\ UNCHANGED <<ledger, ran>> /\ PendingAfter(x.pending)
    BY <1>1, <1>2, <2>1 DEF Migrations!Lock
  <2> HIDE DEF x
  <2> QED BY <1>2, <2>1, <2>2, RunStep DEF NobodyIsNone
<1>3. ASSUME NEW r \in Runners, Migrations!Skip(r) PROVE MigrationInv'
  <2>1. PICK a \in 1..Files, n \in 0..Files :
          /\ Migrations!File(r) = a /\ 1..(a - 1) \subseteq ledger
          /\ runner[r].pending = a..n /\ a <= n
          /\ runner[r].pending \ {a} = (a + 1)..n
    BY <1>3, PendingShrinks DEF Migrations!Skip
  <2> DEFINE x == [pc |-> "next", pending |-> (a + 1)..n]
  <2>2. /\ runner' = [runner EXCEPT ![r] = x] /\ lock' = None /\ lock = r /\ a \in ledger
        /\ UNCHANGED <<ledger, ran>> /\ x.pc = "next" /\ x.pending = (a + 1)..n
    BY <1>3, <2>1 DEF Migrations!Skip, Migrations!InLedger, MigrationInv, InFileUnderLock
  <2>3. x \in Migrations!On
    BY DEF Migrations!All, NobodyIsNone
  <2>4. a + 1 \in 1..(Files + 1) /\ 1..((a + 1) - 1) \subseteq ledger
    BY <2>1, <2>2 DEF NobodyIsNone
  <2>5. PendingAfter(x.pending)
    BY <2>2, <2>4 DEF PendingAfter
  <2> HIDE DEF x
  <2> QED BY <2>2, <2>3, <2>5, RunStep
<1>4. ASSUME NEW r \in Runners, Migrations!Check(r) PROVE MigrationInv'
  <2> DEFINE x == [runner[r] EXCEPT !.pc = "checked"]
  <2>1. x \in Migrations!On /\ x.pc = "checked" /\ x.pending = runner[r].pending
    BY <1>1, <1>4 DEF Migrations!Check
  <2>2. /\ runner' = [runner EXCEPT ![r] = x] /\ UNCHANGED <<ledger, ran, lock>>
        /\ lock = r /\ x.pending # {} /\ PendingAfter(x.pending)
        /\ runner[r].pc = "locked" /\ ~Migrations!InLedger(r)
    BY <1>1, <1>4, <2>1 DEF Migrations!Check, MigrationInv, InFileUnderLock
  <2> HIDE DEF x
  <2> QED BY <1>1, <2>1, <2>2, RunStep
<1>5. ASSUME NEW r \in Runners, Migrations!Fail(r) PROVE MigrationInv'
  <2> DEFINE x == [pc |-> "failed", pending |-> runner[r].pending]
  <2>1. x \in Migrations!On /\ x.pc = "failed" /\ PendingAfter(x.pending)
    BY <1>1, <1>5 DEF Migrations!Fail
  <2>2. /\ runner' = [runner EXCEPT ![r] = x] /\ lock' = None /\ lock = r
        /\ UNCHANGED <<ledger, ran>>
    BY <1>5 DEF Migrations!Fail, Migrations!AfterFailure, MigrationInv, InFileUnderLock
  <2> HIDE DEF x
  <2> QED BY <2>1, <2>2, RunStep
<1>6. ASSUME NEW r \in Runners, Migrations!Crash(r) PROVE MigrationInv'
  <2>1. /\ runner' = [runner EXCEPT ![r] = Migrations!Off] /\ UNCHANGED <<ledger, ran>>
        /\ lock' = IF lock = r THEN None ELSE lock
    BY <1>6 DEF Migrations!Crash
  <2> QED BY <1>1, <2>1, RunStep
<1>7. ASSUME NEW r \in Runners, Migrations!Finish(r) PROVE MigrationInv'
  <2> DEFINE x == [runner[r] EXCEPT !.pc = "done"]
  <2>1. x \in Migrations!On /\ x.pc = "done" /\ x.pending = runner[r].pending
    BY <1>1, <1>7 DEF Migrations!Finish
  <2>2. /\ runner' = [runner EXCEPT ![r] = x] /\ UNCHANGED <<ledger, ran, lock>>
        /\ PendingAfter(x.pending)
    BY <1>1, <1>7, <2>1 DEF Migrations!Finish
  <2> HIDE DEF x
  <2> QED BY <1>1, <2>1, <2>2, RunStep
<1>8. CASE UNCHANGED Migrations!vars
  <2>1. UNCHANGED <<ledger, ran, lock, runner>> /\ \A r \in Runners : UNCHANGED Migrations!File(r)
    BY <1>8 DEF Migrations!vars, Migrations!File
  <2> QED
    BY <2>1 DEF MigrationInv, RunTypes, LedgerIsPrefix, PendingFollowsLedger, PendingAfter,
                InFileUnderLock, RanIsRecorded, Migrations!NobodyRunsTwice
<1> QED
  BY <1>2, <1>3, <1>4, <1>5, <1>6, <1>7, <1>8, StartKeepsOrder, ApplyKeepsOrder DEF Migrations!Next

-----------------------------------------------------------------------------
(* Theorems                                                                  *)

\* Nobody who has seen an event code will see a smaller one appear: the codes of
\* the committed events are 1, 2, 3, ... in the order of their commits.
THEOREM CodesAppearInOrder == FairSpec => []CodesInOrder
<1>1. Init => PoolInv
  BY PartsInit, PoolInit
<1>2. PoolInv /\ [Next]_vars => PoolInv'
  BY PartsStep, PoolStep
<1>3. PoolInv => CodesInOrder
  BY DEF PoolInv, CodesInOrder
<1> QED
  BY <1>1, <1>2, <1>3, PTL DEF FairSpec

\* However starts, polls, late failures and crashes interleave, the job is
\* handed over once, its row takes the steps of the migration's header, and what
\* it says has succeeded or been cancelled has.
THEOREM ImplementsLifecycle == FairSpec => JobsFollowLifecycle
<1> USE ConstantsAreApart
<1>1. Init => JobInv /\ Jobs!Lifecycle!Init
  BY PartsInit, JobInit
<1>2. JobInv /\ [Next]_vars => JobInv' /\ [Jobs!Lifecycle!Next]_job
  BY PartsStep, JobStep
<1>3. JobInv => Jobs!OneHandOver /\ Jobs!EndIsTrue
  BY DEF JobInv, OneOwner, Jobs!OneHandOver
<1> QED
  BY <1>1, <1>2, <1>3, PTL
     DEF FairSpec, JobsFollowLifecycle, Jobs!JobsFollowLifecycle, Jobs!FollowsLifecycle,
         Jobs!Lifecycle!Spec

\* Whichever runs overlap, fail or die: the applied files are the first ones, no
\* run loses its file to the primary key of the ledger, and nothing runs twice.
THEOREM MigrationsOnceInOrder == FairSpec => []OnceInOrder
<1> USE ConstantsAreApart
<1>1. Init => MigrationInv
  BY PartsInit, MigrationInit
<1>2. MigrationInv /\ [Next]_vars => MigrationInv'
  BY PartsStep, MigrationStep
<1>3. MigrationInv => OnceInOrder
  <2> SUFFICES ASSUME MigrationInv PROVE \A f \in ledger : 1..f \subseteq ledger
    BY DEF MigrationInv, OnceInOrder, Migrations!OnceInOrder, Migrations!AppliedInOrder
  <2>1. PICK k \in 0..Files : ledger = 1..k
    BY DEF MigrationInv, LedgerIsPrefix
  <2> QED BY <2>1 DEF NobodyIsNone
<1> QED
  BY <1>1, <1>2, <1>3, PTL DEF FairSpec

-----------------------------------------------------------------------------
(* Lines of requests                                                         *)

\* A sequence without its element i.
LEMMA OneLess ==
  ASSUME NEW S, NEW q \in Seq(S), NEW i \in 1..Len(q)
  PROVE  LET r == SubSeq(q, 1, i - 1) \o SubSeq(q, i + 1, Len(q))
         IN  /\ r \in Seq(S) /\ Len(r) = Len(q) - 1
             /\ \A j \in 1..Len(r) : r[j] = IF j < i THEN q[j] ELSE q[j + 1]
<1> DEFINE a == SubSeq(q, 1, i - 1)
           b == SubSeq(q, i + 1, Len(q))
<1>1. a \in Seq(S) /\ Len(a) = i - 1 /\ \A j \in 1..(i - 1) : a[j] = q[j]
  OBVIOUS
<1>2. b \in Seq(S) /\ Len(b) = Len(q) - i /\ \A j \in 1..(Len(q) - i) : b[j] = q[i + j]
  OBVIOUS
<1> HIDE DEF a, b
<1>3. a \o b \in Seq(S) /\ Len(a \o b) = Len(q) - 1
  <2>1. a \o b \in Seq(S) /\ Len(a \o b) = Len(a) + Len(b)
    BY <1>1, <1>2, ConcatProperties
  <2>2. Len(a) = i - 1 /\ Len(b) = Len(q) - i /\ Len(q) \in Nat /\ i \in Nat
    BY <1>1, <1>2
  <2> QED BY <2>1, <2>2
<1>4. \A j \in 1..Len(a \o b) : (a \o b)[j] = IF j < i THEN q[j] ELSE q[j + 1]
  <2> SUFFICES ASSUME NEW j \in 1..Len(a \o b) PROVE (a \o b)[j] = IF j < i THEN q[j] ELSE q[j + 1]
    OBVIOUS
  <2>1. CASE j < i
    <3>1. j \in 1..Len(a) /\ j \in 1..Len(a \o b) /\ Len(a) = i - 1
      BY <1>1, <1>3, <2>1
    <3>2. (a \o b)[j] = a[j]
      BY <1>1, <1>2, <3>1, ConcatProperties
    <3> QED BY <1>1, <2>1, <3>1, <3>2
  <2>2. CASE j >= i
    <3>1. (a \o b)[j] = b[j - (i - 1)] /\ j - (i - 1) \in 1..(Len(q) - i)
      BY <1>1, <1>2, <1>3, <2>2, ConcatProperties
    <3>2. b[j - (i - 1)] = q[i + (j - (i - 1))] /\ i + (j - (i - 1)) = j + 1
      BY <1>2, <3>1
    <3> QED BY <2>2, <3>1, <3>2
  <2> QED BY <2>1, <2>2
<1> QED
  BY <1>3, <1>4 DEF a, b

\* With an element more, and without the first.
LEMMA OneMore ==
  ASSUME NEW S, NEW q \in Seq(S), NEW x
  PROVE  \A i \in DOMAIN Append(q, x) :
           (i \in DOMAIN q /\ Append(q, x)[i] = q[i]) \/ (i = Len(q) + 1 /\ Append(q, x)[i] = x)
OBVIOUS
LEMMA FirstGone ==
  ASSUME NEW S, NEW q \in Seq(S), q # <<>>
  PROVE  /\ Tail(q) \in Seq(S) /\ Head(q) \in S /\ 1 \in DOMAIN q /\ Head(q) = q[1]
         /\ \A i \in DOMAIN Tail(q) : i \in Nat /\ i > 0 /\ i + 1 \in DOMAIN q /\ Tail(q)[i] = q[i + 1]
OBVIOUS

\* Where a step of a program leads, for the four of them.
Begun(p, k) == \E i \in 1..(k - 1) : Pool!Programs[p][i] = "begin"
LEMMA ProgramsEndInCommit ==
  \A p \in DOMAIN Pool!Programs, k \in 1..6 :
    /\ DOMAIN Pool!Programs[p] \subseteq 1..6 /\ 1 \in DOMAIN Pool!Programs[p] /\ p # "none"
    /\ k \in DOMAIN Pool!Programs[p] =>
         /\ Pool!Programs[p][k] \in {"begin", "query", "run", "entry", "event", "commit"}
         /\ Pool!Programs[p][k] # "commit" => k + 1 \in DOMAIN Pool!Programs[p]
         /\ Pool!Programs[p][k] = "begin" => ~Begun(p, k)
         /\ Begun(p, k + 1) <=> Begun(p, k) \/ Pool!Programs[p][k] = "begin"
<1>1. DOMAIN Pool!Programs = {"audit", "transition", "verify", "comment"}
  BY DEF Pool!Programs
<1>2. /\ Pool!Programs["audit"] = <<"query", "begin", "run", "query", "entry", "commit">>
      /\ Pool!Programs["transition"] = <<"query", "begin", "event", "entry", "commit">>
      /\ Pool!Programs["verify"] = <<"query", "begin", "entry", "event", "commit">>
      /\ Pool!Programs["comment"] = <<"begin", "query", "commit">>
  BY DEF Pool!Programs
<1> TAKE p \in DOMAIN Pool!Programs, k \in 1..6
<1>3. /\ DOMAIN Pool!Programs[p] \subseteq 1..6 /\ 1 \in DOMAIN Pool!Programs[p] /\ p # "none"
      /\ k \in DOMAIN Pool!Programs[p] =>
         /\ Pool!Programs[p][k] \in {"begin", "query", "run", "entry", "event", "commit"}
         /\ Pool!Programs[p][k] # "commit" => k + 1 \in DOMAIN Pool!Programs[p]
  BY <1>1, <1>2
<1>4. ASSUME k \in DOMAIN Pool!Programs[p], Pool!Programs[p][k] = "begin"
      PROVE  \A i \in 1..(k - 1) : Pool!Programs[p][i] # "begin"
  BY <1>1, <1>2, <1>4
<1>5. Begun(p, k + 1) <=> Begun(p, k) \/ Pool!Programs[p][k] = "begin"
  BY DEF Begun
<1> QED
  BY <1>3, <1>4, <1>5 DEF Begun

NeedAt(p, k) ==
  CASE Pool!Programs[p][k] \in {"begin", "query"} -> "pool"
    [] Pool!Programs[p][k] \in Pool!Rows -> Pool!Programs[p][k]
    [] OTHER -> "nothing"

LEMMA NeedsAreOfTheStep == \A s : Pool!Needs(s) = NeedAt(prog[s], at[s])
BY DEF Pool!Needs, Pool!Op, NeedAt

\* Every request is at a step of its program; it waits for what the step needs,
\* in one line, once; it holds the connection of its transaction, and another one
\* while a query is answered.
InLine(s, r) == \E i \in DOMAIN queue[r] : queue[r][i] = s
Base(s) == IF Begun(prog[s], at[s]) THEN 1 ELSE 0
Served(s) ==
  /\ prog[s] \in DOMAIN Pool!Programs /\ at[s] \in DOMAIN Pool!Programs[prog[s]]
  /\ \/ conns[s] = Base(s)
     \/ /\ conns[s] = Base(s) + 1 /\ Pool!Programs[prog[s]][at[s]] = "query"
        /\ ~InLine(s, "pool")
Resting(s) == prog[s] = "none" /\ at[s] = 0 /\ conns[s] = 0
LineTypes ==
  /\ prog \in [Clients -> DOMAIN Pool!Programs \cup {"none"}] /\ at \in [Clients -> Nat]
  /\ conns \in [Clients -> Nat] /\ queue \in [Pool!Resources -> Seq(Clients)]
LinesAreSound ==
  /\ LineTypes
  /\ \A s \in Clients : Resting(s) \/ Served(s)
  /\ \A s \in Clients, r \in Pool!Resources :
       InLine(s, r) => prog[s] # "none" /\ NeedAt(prog[s], at[s]) = r
  /\ \A r \in Pool!Resources : \A i, j \in DOMAIN queue[r] : queue[r][i] = queue[r][j] => i = j

LEMMA LinesInit == Pool!Init => LinesAreSound
BY DEF Pool!Init, LinesAreSound, LineTypes, Resting, InLine

LEMMA LinesAreTyped == ASSUME PoolInv, LinesAreSound PROVE Pool!TypeOK
<1>1. \A s \in Clients : at[s] \in 0..6 /\ conns[s] \in 0..2
  <2> SUFFICES ASSUME NEW s \in Clients PROVE at[s] \in 0..6 /\ conns[s] \in 0..2
    OBVIOUS
  <2>1. CASE Resting(s)
    BY <2>1 DEF Resting
  <2>2. CASE Served(s)
    BY <2>2, ProgramsEndInCommit DEF Served, Base
  <2> QED BY <2>1, <2>2 DEF LinesAreSound
<1> QED
  BY <1>1 DEF LinesAreSound, LineTypes, PoolInv, CodesAreNumbers, Pool!TypeOK

\* No request that rests stands in a line.
LEMMA StartKeepsLines ==
  ASSUME LinesAreSound, NEW s \in Clients, NEW p \in DOMAIN Pool!Programs, Pool!Start(s, p)
  PROVE  LinesAreSound'
<1>1. /\ prog[s] = "none" /\ prog' = [prog EXCEPT ![s] = p] /\ at' = [at EXCEPT ![s] = 1]
      /\ UNCHANGED <<conns, queue>>
  BY DEF Pool!Start, Pool!Active
<1>2. LineTypes'
  BY <1>1 DEF LinesAreSound, LineTypes
<1>3. \A t \in Clients : /\ prog'[t] = IF t = s THEN p ELSE prog[t]
                         /\ at'[t] = IF t = s THEN 1 ELSE at[t]
  BY <1>1 DEF LinesAreSound, LineTypes
<1>5. \A t \in Clients : Resting(t)' \/ Served(t)'
  <2> SUFFICES ASSUME NEW t \in Clients PROVE Resting(t)' \/ Served(t)'
    OBVIOUS
  <2>1. CASE t = s
    <3>1. conns[s] = 0
      <4>1. ~Served(s)
        BY <1>1, ProgramsEndInCommit DEF Served
      <4> QED BY <4>1 DEF LinesAreSound, Resting
    <3>2. ~Begun(p, 1) /\ 1 \in DOMAIN Pool!Programs[p]
      BY ProgramsEndInCommit DEF Begun
    <3> QED BY <1>1, <1>3, <2>1, <3>1, <3>2 DEF Served, Base
  <2>2. CASE t # s
    <3>1. prog'[t] = prog[t] /\ at'[t] = at[t]
      BY <1>3, <2>2
    <3> QED BY <1>1, <3>1 DEF LinesAreSound, Resting, Served, Base, InLine
  <2> QED BY <2>1, <2>2
<1>6. \A t \in Clients, r \in Pool!Resources :
        InLine(t, r)' => prog'[t] # "none" /\ NeedAt(prog'[t], at'[t]) = r
  BY <1>1, <1>3 DEF LinesAreSound, InLine
<1> QED
  BY <1>1, <1>2, <1>5, <1>6 DEF LinesAreSound

\* A step of one request that changes no program: it stays where it is or goes on
\* to the next step, waits no more, and what it holds fits.
LEMMA GoesOn ==
  ASSUME LinesAreSound, NEW s \in Clients, Served(s), UNCHANGED prog, LineTypes',
         \A t \in Clients \ {s} : at'[t] = at[t] /\ conns'[t] = conns[t],
         \A t \in Clients \ {s}, r \in Pool!Resources : InLine(t, r)' => InLine(t, r),
         \A r \in Pool!Resources : \A i, j \in DOMAIN queue'[r] : queue'[r][i] = queue'[r][j] => i = j,
         \A r \in Pool!Resources : InLine(s, r)' => NeedAt(prog[s], at'[s]) = r,
         Served(s)'
  PROVE  LinesAreSound'
<1>1. prog[s] # "none"
  BY ProgramsEndInCommit DEF Served
<1>2. \A t \in Clients : Resting(t)' \/ Served(t)'
  <2> SUFFICES ASSUME NEW t \in Clients, t # s PROVE Resting(t)' \/ Served(t)'
    OBVIOUS
  <2>1. InLine(t, "pool")' => InLine(t, "pool")
    BY DEF Pool!Resources
  <2> QED BY <2>1 DEF LinesAreSound, Resting, Served, Base
<1>3. \A t \in Clients, r \in Pool!Resources :
        InLine(t, r)' => prog'[t] # "none" /\ NeedAt(prog'[t], at'[t]) = r
  BY <1>1 DEF LinesAreSound
<1> QED
  BY <1>2, <1>3 DEF LinesAreSound

LEMMA AskKeepsLines ==
  ASSUME LinesAreSound, NEW s \in Clients, Pool!Ask(s)
  PROVE  LinesAreSound'
<1> DEFINE n == NeedAt(prog[s], at[s])
<1>1. /\ prog[s] # "none" /\ \A r \in Pool!Resources : ~InLine(s, r)
      /\ n # "nothing" /\ queue' = [queue EXCEPT ![n] = Append(@, s)]
      /\ Pool!Programs[prog[s]][at[s]] = "query" => conns[s] = Base(s)
      /\ UNCHANGED <<prog, at, conns>>
  <2>1. \A r \in Pool!Resources : InLine(s, r) => Pool!Waits(s, r)
    BY DEF InLine, Pool!Waits, Pool!Contains, LinesAreSound, LineTypes
  <2>2. Pool!InTx(s) <=> Begun(prog[s], at[s])
    BY DEF Pool!InTx, Begun
  <2> QED
    BY <2>1, <2>2, NeedsAreOfTheStep DEF Pool!Ask, Pool!Active, Pool!Waiting, Pool!Op, Base
<1>2. Served(s)
  BY <1>1 DEF LinesAreSound, Resting
<1>3. n \in Pool!Resources
  BY <1>1, <1>2, ProgramsEndInCommit DEF Served, NeedAt, Pool!Resources, Pool!Rows
<1> HIDE DEF n
<1>4. \A r \in Pool!Resources : queue'[r] = IF r = n THEN Append(queue[r], s) ELSE queue[r]
  BY <1>1 DEF LinesAreSound, LineTypes
<1>5. LineTypes'
  <2>1. Append(queue[n], s) \in Seq(Clients)
    BY <1>3 DEF LinesAreSound, LineTypes
  <2> QED BY <1>1, <2>1 DEF LinesAreSound, LineTypes
<1>6. \A r \in Pool!Resources, k \in Nat : k \in DOMAIN queue'[r] =>
        \/ k \in DOMAIN queue[r] /\ queue'[r][k] = queue[r][k]
        \/ r = n /\ k = Len(queue[r]) + 1 /\ queue'[r][k] = s
  <2> SUFFICES ASSUME NEW r \in Pool!Resources, NEW k \in DOMAIN queue'[r], r = n
               PROVE  \/ k \in DOMAIN queue[r] /\ queue'[r][k] = queue[r][k]
                      \/ k = Len(queue[r]) + 1 /\ queue'[r][k] = s
    BY <1>4
  <2>1. queue'[r] = Append(queue[r], s) /\ queue[r] \in Seq(Clients)
    BY <1>4 DEF LinesAreSound, LineTypes
  <2>2. \A i \in DOMAIN Append(queue[r], s) :
          \/ i \in DOMAIN queue[r] /\ Append(queue[r], s)[i] = queue[r][i]
          \/ i = Len(queue[r]) + 1 /\ Append(queue[r], s)[i] = s
    BY <2>1, OneMore
  <2> QED BY <2>1, <2>2
<1>10. \A r \in Pool!Resources : DOMAIN queue'[r] \subseteq Nat
  BY <1>5 DEF LineTypes
<1>11. \A t \in Clients, r \in Pool!Resources : InLine(t, r)' => InLine(t, r) \/ (t = s /\ r = n)
  BY <1>6, <1>10 DEF InLine
<1>7. \A r \in Pool!Resources : \A i, j \in DOMAIN queue'[r] : queue'[r][i] = queue'[r][j] => i = j
  <2> SUFFICES ASSUME NEW r \in Pool!Resources, NEW i \in DOMAIN queue'[r], NEW j \in DOMAIN queue'[r],
                      queue'[r][i] = queue'[r][j]
               PROVE  i = j
    OBVIOUS
  <2>1. \A k \in DOMAIN queue[r] : queue[r][k] # s
    BY <1>1 DEF InLine
  <2>2. i \in Nat /\ j \in Nat
    BY <1>10
  <2> QED BY <1>6, <2>1, <2>2 DEF LinesAreSound
<1>8. conns[s] = Base(s) \/ n # "pool"
  BY <1>1, <1>2, <1>3 DEF Served
<1>9. Served(s)'
  BY <1>1, <1>2, <1>3, <1>11, <1>8 DEF Served, Base, n, Pool!Resources, NeedAt
<1> QED
  BY <1>1, <1>2, <1>5, <1>11, <1>7, <1>9, GoesOn DEF n

\* The first of a line has left it, and waits no more.
LEMMA FirstIsServed ==
  ASSUME LinesAreSound, NEW r \in Pool!Resources, queue[r] # <<>>, NEW s, s = Head(queue[r]),
         queue' = [queue EXCEPT ![r] = Tail(@)]
  PROVE  /\ queue' \in [Pool!Resources -> Seq(Clients)]
         /\ s \in Clients /\ InLine(s, r) /\ prog[s] # "none" /\ NeedAt(prog[s], at[s]) = r /\ Served(s)
         /\ \A x \in Pool!Resources : ~InLine(s, x)'
         /\ \A t \in Clients, x \in Pool!Resources : InLine(t, x)' => InLine(t, x)
         /\ \A x \in Pool!Resources : \A i, j \in DOMAIN queue'[x] : queue'[x][i] = queue'[x][j] => i = j
<1>1. /\ queue[r] \in Seq(Clients)
      /\ \A x \in Pool!Resources : queue'[x] = IF x = r THEN Tail(queue[r]) ELSE queue[x]
  BY DEF LinesAreSound, LineTypes
<1>2. /\ Tail(queue[r]) \in Seq(Clients) /\ s \in Clients /\ 1 \in DOMAIN queue[r] /\ s = queue[r][1]
      /\ \A i \in DOMAIN Tail(queue[r]) :
           i \in Nat /\ i > 0 /\ i + 1 \in DOMAIN queue[r] /\ Tail(queue[r])[i] = queue[r][i + 1]
  BY <1>1, FirstGone
<1>3. queue' \in [Pool!Resources -> Seq(Clients)]
  BY <1>2 DEF LinesAreSound, LineTypes
<1>4. InLine(s, r) /\ prog[s] # "none" /\ NeedAt(prog[s], at[s]) = r /\ Served(s)
  BY <1>2 DEF LinesAreSound, InLine, Resting
<1>5. \A x \in Pool!Resources : x # r => ~InLine(s, x)
  BY <1>2, <1>4 DEF LinesAreSound
<1>6. \A t \in Clients, x \in Pool!Resources : InLine(t, x)' => InLine(t, x)
  <2> SUFFICES ASSUME NEW t \in Clients, InLine(t, r)' PROVE InLine(t, r)
    BY <1>1 DEF InLine
  <2>1. PICK i \in DOMAIN Tail(queue[r]) : Tail(queue[r])[i] = t
    BY <1>1 DEF InLine
  <2> QED BY <1>2, <2>1 DEF InLine
<1>7. ~InLine(s, r)'
  <2> SUFFICES ASSUME NEW i \in DOMAIN Tail(queue[r]), Tail(queue[r])[i] = s PROVE FALSE
    BY <1>1 DEF InLine
  <2>1. i + 1 \in DOMAIN queue[r] /\ queue[r][i + 1] = queue[r][1] /\ i + 1 # 1
    BY <1>2
  <2> QED BY <1>2, <2>1 DEF LinesAreSound
<1>8. \A x \in Pool!Resources : \A i, j \in DOMAIN queue'[x] : queue'[x][i] = queue'[x][j] => i = j
  <2> SUFFICES ASSUME NEW i \in DOMAIN Tail(queue[r]), NEW j \in DOMAIN Tail(queue[r]),
                      Tail(queue[r])[i] = Tail(queue[r])[j]
               PROVE  i = j
    BY <1>1 DEF LinesAreSound
  <2>1. i + 1 = j + 1
    BY <1>2 DEF LinesAreSound
  <2> QED BY <1>2, <2>1
<1> QED
  BY <1>2, <1>3, <1>4, <1>5, <1>6, <1>7, <1>8

LEMMA ConnectKeepsLines == ASSUME LinesAreSound, Pool!Connect PROVE LinesAreSound'
<1>0. PICK s : s = Head(queue["pool"])
  OBVIOUS
<1>1. /\ queue["pool"] # <<>> /\ "pool" \in Pool!Resources
      /\ queue' = [queue EXCEPT !["pool"] = Tail(@)]
      /\ conns' = [conns EXCEPT ![s] = @ + 1]
      /\ at' = IF Pool!Programs[prog[s]][at[s]] = "begin" THEN [at EXCEPT ![s] = @ + 1] ELSE at
      /\ prog' = prog
  BY <1>0 DEF Pool!Connect, Pool!Resources, Pool!Op
<1>2. /\ queue' \in [Pool!Resources -> Seq(Clients)]
      /\ s \in Clients /\ InLine(s, "pool") /\ NeedAt(prog[s], at[s]) = "pool" /\ Served(s)
      /\ \A x \in Pool!Resources : ~InLine(s, x)'
      /\ \A t \in Clients, x \in Pool!Resources : InLine(t, x)' => InLine(t, x)
      /\ \A x \in Pool!Resources : \A i, j \in DOMAIN queue'[x] : queue'[x][i] = queue'[x][j] => i = j
  BY <1>0, <1>1, FirstIsServed
<1>3. LineTypes'
  BY <1>1, <1>2 DEF LinesAreSound, LineTypes
<1>4. /\ \A t \in Clients \ {s} : at'[t] = at[t] /\ conns'[t] = conns[t]
      /\ conns'[s] = conns[s] + 1
      /\ at'[s] = IF Pool!Programs[prog[s]][at[s]] = "begin" THEN at[s] + 1 ELSE at[s]
  BY <1>1, <1>2 DEF LinesAreSound, LineTypes
<1>5. conns[s] = Base(s) /\ at[s] \in 1..6 /\ Pool!Programs[prog[s]][at[s]] \in {"begin", "query"}
  BY <1>2, ProgramsEndInCommit DEF Served, NeedAt, Pool!Rows
<1>6. Served(s)'
  <2>1. CASE Pool!Programs[prog[s]][at[s]] = "begin"
    <3>1. prog[s] \in DOMAIN Pool!Programs /\ at[s] \in DOMAIN Pool!Programs[prog[s]]
      BY <1>2 DEF Served
    <3>2. at[s] + 1 \in DOMAIN Pool!Programs[prog[s]] /\ ~Begun(prog[s], at[s]) /\ Begun(prog[s], at[s] + 1)
      BY <1>5, <2>1, <3>1, ProgramsEndInCommit
    <3>3. prog'[s] = prog[s] /\ at'[s] = at[s] + 1 /\ conns'[s] = 1
      BY <1>1, <1>4, <1>5, <2>1, <3>2 DEF Base
    <3> QED BY <3>1, <3>2, <3>3 DEF Served, Base
  <2>2. CASE Pool!Programs[prog[s]][at[s]] = "query"
    BY <1>1, <1>2, <1>4, <1>5, <2>2 DEF Served, Base
  <2> QED BY <1>5, <2>1, <2>2
<1> QED
  BY <1>1, <1>2, <1>3, <1>4, <1>6, GoesOn

LEMMA LockKeepsLines ==
  ASSUME LinesAreSound, NEW r \in Pool!Rows, Pool!Lock(r) PROVE LinesAreSound'
<1>0. PICK s : s = Head(queue[r])
  OBVIOUS
<1>1. /\ queue[r] # <<>> /\ r \in Pool!Resources /\ r # "pool"
      /\ queue' = [queue EXCEPT ![r] = Tail(@)]
      /\ at' = [at EXCEPT ![s] = @ + 1] /\ UNCHANGED <<prog, conns>>
  BY <1>0 DEF Pool!Lock, Pool!Resources, Pool!Rows
<1>2. /\ queue' \in [Pool!Resources -> Seq(Clients)]
      /\ s \in Clients /\ NeedAt(prog[s], at[s]) = r /\ Served(s)
      /\ \A x \in Pool!Resources : ~InLine(s, x)'
      /\ \A t \in Clients, x \in Pool!Resources : InLine(t, x)' => InLine(t, x)
      /\ \A x \in Pool!Resources : \A i, j \in DOMAIN queue'[x] : queue'[x][i] = queue'[x][j] => i = j
  BY <1>0, <1>1, FirstIsServed
<1>3. LineTypes'
  BY <1>1, <1>2 DEF LinesAreSound, LineTypes
<1>4. /\ \A t \in Clients \ {s} : at'[t] = at[t] /\ conns'[t] = conns[t]
      /\ conns'[s] = conns[s] /\ at'[s] = at[s] + 1
  BY <1>1, <1>2 DEF LinesAreSound, LineTypes
<1>5. at[s] \in 1..6 /\ Pool!Programs[prog[s]][at[s]] = r
  BY <1>1, <1>2, ProgramsEndInCommit DEF Served, NeedAt, Pool!Rows
<1>6. Served(s)'
  <2>1. prog[s] \in DOMAIN Pool!Programs /\ at[s] \in DOMAIN Pool!Programs[prog[s]] /\ conns[s] = Base(s)
    BY <1>2, <1>5 DEF Served, Pool!Rows
  <2>2. at[s] + 1 \in DOMAIN Pool!Programs[prog[s]] /\ (Begun(prog[s], at[s] + 1) <=> Begun(prog[s], at[s]))
    BY <1>5, <2>1, ProgramsEndInCommit DEF Pool!Rows
  <2>3. prog'[s] = prog[s] /\ at'[s] = at[s] + 1 /\ conns'[s] = Base(s)
    BY <1>1, <1>4, <2>1
  <2> QED BY <2>1, <2>2, <2>3 DEF Served, Base
<1> QED
  BY <1>1, <1>2, <1>3, <1>4, <1>6, GoesOn

LEMMA AnswerKeepsLines ==
  ASSUME LinesAreSound, NEW s \in Clients, Pool!Answer(s) PROVE LinesAreSound'
<1>1. /\ prog[s] # "none" /\ Pool!Programs[prog[s]][at[s]] = "query" /\ conns[s] = Base(s) + 1
      /\ \A r \in Pool!Resources : ~InLine(s, r)
      /\ conns' = [conns EXCEPT ![s] = @ - 1] /\ at' = [at EXCEPT ![s] = @ + 1]
      /\ UNCHANGED <<prog, queue>>
  <2>1. \A r \in Pool!Resources : InLine(s, r) => Pool!Waits(s, r)
    BY DEF InLine, Pool!Waits, Pool!Contains, LinesAreSound, LineTypes
  <2>2. Pool!InTx(s) <=> Begun(prog[s], at[s])
    BY DEF Pool!InTx, Begun
  <2> QED BY <2>1, <2>2 DEF Pool!Answer, Pool!Active, Pool!Waiting, Pool!Op, Base
<1>2. Served(s) /\ at[s] \in 1..6
  BY <1>1, ProgramsEndInCommit DEF LinesAreSound, Resting, Served
<1>3. /\ \A t \in Clients \ {s} : at'[t] = at[t] /\ conns'[t] = conns[t]
      /\ conns'[s] = Base(s) /\ at'[s] = at[s] + 1
  BY <1>1 DEF LinesAreSound, LineTypes, Base
<1>4. LineTypes'
  <2>1. conns[s] - 1 \in Nat /\ at[s] + 1 \in Nat
    BY <1>1, <1>2 DEF Base
  <2> QED BY <1>1, <2>1 DEF LinesAreSound, LineTypes
<1>5. Served(s)'
  BY <1>1, <1>2, <1>3, ProgramsEndInCommit DEF Served, Base
<1>6. /\ \A t \in Clients, r \in Pool!Resources : InLine(t, r)' <=> InLine(t, r)
      /\ \A r \in Pool!Resources : \A i, j \in DOMAIN queue'[r] : queue'[r][i] = queue'[r][j] => i = j
  BY <1>1 DEF LinesAreSound, InLine
<1> QED
  BY <1>1, <1>2, <1>3, <1>4, <1>5, <1>6, GoesOn

\* Who is over has left every line; the others keep their places.
LEMMA EndKeepsLines ==
  ASSUME LinesAreSound, NEW s \in Clients, Pool!End(s) PROVE LinesAreSound'
<1>1. /\ prog' = [prog EXCEPT ![s] = "none"] /\ at' = [at EXCEPT ![s] = 0]
      /\ conns' = [conns EXCEPT ![s] = 0]
      /\ queue' = [r \in Pool!Resources |-> Pool!Without(queue[r], s)]
  BY DEF Pool!End
<1>2. ASSUME NEW r \in Pool!Resources
      PROVE  /\ queue'[r] \in Seq(Clients)
             /\ \A k \in DOMAIN queue'[r] : queue'[r][k] # s
             /\ \A k \in DOMAIN queue'[r] : \E j \in DOMAIN queue[r] : queue'[r][k] = queue[r][j]
             /\ \A i, j \in DOMAIN queue'[r] : queue'[r][i] = queue'[r][j] => i = j
  <2> DEFINE q == queue[r]
  <2>1. q \in Seq(Clients) /\ DOMAIN q = 1..Len(q) /\ Len(q) \in Nat
        /\ \A i, j \in DOMAIN q : q[i] = q[j] => i = j
    BY DEF LinesAreSound, LineTypes
  <2>2. CASE \A i \in DOMAIN q : q[i] # s
    <3>1. queue'[r] = q
      BY <1>1, <2>1, <2>2 DEF Pool!Without, Pool!Contains
    <3> QED BY <2>1, <2>2, <3>1
  <2>3. CASE \E i \in DOMAIN q : q[i] = s
    <3> DEFINE i == CHOOSE i \in DOMAIN q : q[i] = s
    <3>1. i \in 1..Len(q) /\ q[i] = s
      BY <2>1, <2>3
    <3>2. q \in Seq(Clients) /\ queue'[r] = SubSeq(q, 1, i - 1) \o SubSeq(q, i + 1, Len(q))
      BY <1>1, <2>1, <2>3 DEF Pool!Without, Pool!Contains, Pool!RemoveAt
    <3> HIDE DEF i
    <3>8. Len(q) \in Nat /\ DOMAIN q = 1..Len(q)
      BY <2>1
    <3> HIDE DEF q
    <3>3. /\ queue'[r] \in Seq(Clients) /\ Len(queue'[r]) = Len(q) - 1
          /\ \A j \in 1..Len(queue'[r]) : queue'[r][j] = IF j < i THEN q[j] ELSE q[j + 1]
      <4>1. q \in Seq(Clients) /\ i \in 1..Len(q)
        BY <3>1, <3>2
      <4>2. \E x : /\ x = SubSeq(q, 1, i - 1) \o SubSeq(q, i + 1, Len(q))
                   /\ x \in Seq(Clients) /\ Len(x) = Len(q) - 1
                   /\ \A j \in 1..Len(x) : x[j] = IF j < i THEN q[j] ELSE q[j + 1]
        BY <4>1, OneLess
      <4> QED BY <3>2, <4>2
    <3>9. DOMAIN queue'[r] = 1..Len(queue'[r])
      BY <3>3
    <3>4. DOMAIN queue'[r] = 1..(Len(q) - 1)
      BY <3>3, <3>9
    <3>10. \A k \in DOMAIN queue'[r] : queue'[r][k] = IF k < i THEN q[k] ELSE q[k + 1]
      BY <3>3, <3>9
    <3>5. \A k \in DOMAIN queue'[r] :
            \E j \in DOMAIN q : /\ queue'[r][k] = q[j] /\ j # i
                              /\ j = IF k < i THEN k ELSE k + 1
      <4> TAKE k \in DOMAIN queue'[r]
      <4>1. CASE k < i
        <5>1. k \in DOMAIN q /\ queue'[r][k] = q[k] /\ k # i
          BY <3>1, <3>4, <3>8, <3>10, <4>1
        <5> QED BY <4>1, <5>1
      <4>2. CASE ~(k < i)
        <5>1. k + 1 \in DOMAIN q /\ queue'[r][k] = q[k + 1] /\ k + 1 # i
          BY <3>1, <3>4, <3>8, <3>10, <4>2
        <5> QED BY <4>2, <5>1
      <4> QED BY <4>1, <4>2
    <3>6. \A k \in DOMAIN queue'[r] : queue'[r][k] # s
      BY <2>1, <3>1, <3>5
    <3>7. \A k, l \in DOMAIN queue'[r] : queue'[r][k] = queue'[r][l] => k = l
      <4> SUFFICES ASSUME NEW k \in DOMAIN queue'[r], NEW l \in DOMAIN queue'[r],
                          queue'[r][k] = queue'[r][l]
                   PROVE  k = l
        OBVIOUS
      <4>1. (IF k < i THEN k ELSE k + 1) = (IF l < i THEN l ELSE l + 1)
        BY <2>1, <3>5
      <4>2. k \in Nat /\ l \in Nat /\ i \in Nat
        BY <3>1, <3>4
      <4> QED BY <4>1, <4>2
    <3> QED BY <3>3, <3>5, <3>6, <3>7 DEF q
  <2> QED BY <2>2, <2>3
<1>3. LineTypes'
  BY <1>1, <1>2 DEF LinesAreSound, LineTypes
<1>4. \A t \in Clients, r \in Pool!Resources : InLine(t, r)' => t # s /\ InLine(t, r)
  BY <1>2 DEF InLine
<1>5. \A t \in Clients : t # s => prog'[t] = prog[t] /\ at'[t] = at[t] /\ conns'[t] = conns[t]
  BY <1>1 DEF LinesAreSound, LineTypes
<1>6. \A t \in Clients : Resting(t)' \/ Served(t)'
  <2> SUFFICES ASSUME NEW t \in Clients PROVE Resting(t)' \/ Served(t)'
    OBVIOUS
  <2>1. CASE t = s
    BY <1>1, <2>1 DEF LinesAreSound, LineTypes, Resting
  <2>2. CASE t # s
    <3>1. "pool" \in Pool!Resources
      BY DEF Pool!Resources
    <3> QED BY <1>4, <1>5, <2>2, <3>1 DEF LinesAreSound, Resting, Served, Base
  <2> QED BY <2>1, <2>2
<1>7. \A t \in Clients, r \in Pool!Resources :
        InLine(t, r)' => prog'[t] # "none" /\ NeedAt(prog'[t], at'[t]) = r
  BY <1>4, <1>5 DEF LinesAreSound
<1> QED
  BY <1>2, <1>3, <1>6, <1>7 DEF LinesAreSound

LEMMA LinesStep == LinesAreSound /\ [Pool!Next]_(Pool!vars) => LinesAreSound'
<1> SUFFICES ASSUME LinesAreSound, [Pool!Next]_(Pool!vars) PROVE LinesAreSound'
  OBVIOUS
<1>1. CASE UNCHANGED Pool!vars
  BY <1>1 DEF Pool!vars, LinesAreSound, LineTypes, Resting, Served, Base, InLine
<1>2. ASSUME NEW s \in Clients, Pool!Commit(s) \/ Pool!Fail(s) \/ Pool!DeadlockAbort(s)
      PROVE  LinesAreSound'
  BY <1>2, EndKeepsLines DEF Pool!Commit, Pool!Fail, Pool!DeadlockAbort, Pool!Rollback
<1> QED
  BY <1>1, <1>2, ConnectKeepsLines, LockKeepsLines, AskKeepsLines, AnswerKeepsLines, StartKeepsLines
     DEF Pool!Next, Pool!Grant, Pool!Break, Pool!Serve
-----------------------------------------------------------------------------
(* Questions to the agent                                                    *)

\* Who reads for a version reads for one that has been saved.
AgentInv ==
  /\ Agent!TypeOK
  /\ \A p \in Panes : chat[p].pc = "reading" /\ chat[p].ref # None => saved[chat[p].ref] # <<>>

LEMMA OneFunction ==
  /\ Agent!Range(<<"f1">>) = {"f1"} /\ Agent!Scopes = {"f1", None}
  /\ <<"f1">> \in Seq({"f1"}) /\ Agent!Runs = {"f1"} \X (1..MaxRuns)
<1>1. Agent!Range(<<"f1">>) = {"f1"}
  BY DEF Agent!Range
<1> QED BY <1>1 DEF Agent!Scopes, Agent!Runs

\* What a question holds, by what has come of it.
LEMMA StreamPhases ==
  ASSUME Agent!TypeOK, NEW p \in Panes
  PROVE  /\ chat[p].pc \in {"none", "reading", "agent", "relaying"}
         /\ chat[p].pc = "reading" =>
              chat[p] \in [pc : {"reading"}, scope : Agent!Scopes, ref : Refs \cup {None},
                           rows : SUBSET Agent!Runs, left : Seq({"f1"})]
         /\ chat[p].pc = "agent" =>
              chat[p] \in [pc : {"agent"}, scope : Agent!Scopes, rows : SUBSET Agent!Runs,
                           key : Agent!Keys, round : 1..MaxIterations]
         /\ chat[p].pc = "relaying" => chat[p] \in [pc : {"relaying"}, out : Seq(Agent!Answers)]
<1>1. chat[p] \in Agent!Streams
  BY DEF Agent!TypeOK
<1> QED
  BY <1>1, OneFunction DEF Agent!Streams, Agent!NoChat

\* A question, a stream or a pane with other values in its fields.
LEMMA ReadingRecords ==
  ASSUME NEW A, NEW B, NEW R, NEW L, NEW r \in R, NEW l \in L,
         NEW x \in [pc : {"reading"}, scope : A, ref : B, rows : R, left : L]
  PROVE  /\ [[x EXCEPT !.rows = r] EXCEPT !.left = l]
               \in [pc : {"reading"}, scope : A, ref : B, rows : R, left : L]
         /\ [[x EXCEPT !.rows = r] EXCEPT !.left = l].ref = x.ref
OBVIOUS
LEMMA RoundRecords ==
  ASSUME NEW A, NEW R, NEW K, NEW N, NEW n \in N,
         NEW x \in [pc : {"agent"}, scope : A, rows : R, key : K, round : N]
  PROVE  [x EXCEPT !.round = n] \in [pc : {"agent"}, scope : A, rows : R, key : K, round : N]
OBVIOUS
LEMMA RelayRecords ==
  ASSUME NEW O, NEW o \in O, NEW x \in [pc : {"relaying"}, out : O]
  PROVE  [x EXCEPT !.out = o] \in [pc : {"relaying"}, out : O]
OBVIOUS
LEMMA PaneRecords ==
  ASSUME NEW Q, NEW q \in Q, NEW v \in BOOLEAN, NEW x \in [pending : BOOLEAN, sawFinal : BOOLEAN, queue : Q]
  PROVE  /\ [[x EXCEPT !.queue = q] EXCEPT !.sawFinal = v] \in [pending : BOOLEAN, sawFinal : BOOLEAN, queue : Q]
         /\ [[x EXCEPT !.sawFinal = v] EXCEPT !.queue = q] \in [pending : BOOLEAN, sawFinal : BOOLEAN, queue : Q]
         /\ [x EXCEPT !.queue = q] \in [pending : BOOLEAN, sawFinal : BOOLEAN, queue : Q]
         /\ [x EXCEPT !.pending = v] \in [pending : BOOLEAN, sawFinal : BOOLEAN, queue : Q]
OBVIOUS
LEMMA ClosingUpdates ==
  /\ <<"idle">> \in Seq(Agent!Updates) /\ <<"no answer", "idle">> \in Seq(Agent!Updates)
  /\ <<"failed", "idle">> \in Seq(Agent!Updates) /\ <<>> \in Seq(Agent!Updates)
BY DEF Agent!Updates

\* A pane's question moves on; the rest stays.
LEMMA ChatMoves ==
  ASSUME AgentInv, NEW p \in Panes, NEW c \in Agent!Streams, chat' = [chat EXCEPT ![p] = c],
         UNCHANGED <<latest, saved>>, c.pc = "reading" /\ c.ref # None => saved[c.ref] # <<>>,
         datasets' \in Seq([key : Agent!Keys, rows : SUBSET Agent!Runs, scope : Agent!Scopes]),
         pane' \in [Panes -> [pending : BOOLEAN, sawFinal : BOOLEAN, queue : Seq(Agent!Updates)]]
  PROVE  AgentInv'
<1>1. chat' \in [Panes -> Agent!Streams] /\ \A q \in Panes : chat'[q] = IF q = p THEN c ELSE chat[q]
  BY DEF AgentInv, Agent!TypeOK
<1> QED
  BY <1>1 DEF AgentInv, Agent!TypeOK

LEMMA DatasetsAreTyped ==
  ASSUME AgentInv, NEW key \in Agent!Keys, NEW rows \in SUBSET Agent!Runs, NEW scope \in Agent!Scopes,
         Agent!Materialize(key, rows, scope)
  PROVE  datasets' \in Seq([key : Agent!Keys, rows : SUBSET Agent!Runs, scope : Agent!Scopes])
<1> DEFINE D == [key : Agent!Keys, rows : SUBSET Agent!Runs, scope : Agent!Scopes]
           d == [key |-> key, rows |-> rows, scope |-> scope]
<1>1. datasets \in Seq(D) /\ d \in D
  BY DEF AgentInv, Agent!TypeOK
<1>2. CASE \E i \in Agent!At(key) : datasets' = Append(Agent!RemoveAt(datasets, i), datasets[i])
  <2> HIDE DEF D, d
  <2>1. PICK i \in 1..Len(datasets) : datasets' = Append(Agent!RemoveAt(datasets, i), datasets[i])
    <3>1. Agent!At(key) \subseteq 1..Len(datasets)
      BY <1>1 DEF Agent!At
    <3> QED BY <1>2, <3>1
  <2>2. Agent!RemoveAt(datasets, i) \in Seq(D) /\ datasets[i] \in D
    BY <1>1, OneLess DEF Agent!RemoveAt
  <2>3. datasets' \in Seq(D)
    BY <2>1, <2>2
  <2> QED BY <2>3 DEF D
<1>3. CASE datasets' = IF Len(Append(datasets, d)) > MaxDatasets THEN Tail(Append(datasets, d))
                       ELSE Append(datasets, d)
  <2> HIDE DEF D, d
  <2>1. Append(datasets, d) \in Seq(D) /\ Append(datasets, d) # <<>>
    BY <1>1
  <2>2. Tail(Append(datasets, d)) \in Seq(D)
    BY <2>1
  <2>3. datasets' \in Seq(D)
    BY <1>3, <2>1, <2>2
  <2> QED BY <2>3 DEF D
<1> QED
  BY <1>2, <1>3 DEF Agent!Materialize

LEMMA AgentInit == ASSUME AgentBounds PROVE Agent!Init => AgentInv
<1> SUFFICES ASSUME Agent!Init PROVE AgentInv
  OBVIOUS
<1>1. Agent!NoChat \in Agent!Streams /\ Agent!NoChat.pc = "none"
  BY DEF Agent!NoChat, Agent!Streams
<1>2. chat \in [Panes -> Agent!Streams] /\ \A p \in Panes : chat[p].pc = "none"
  BY <1>1 DEF Agent!Init
<1>3. latest \in [Agent!Range(<<"f1">>) -> 0..MaxRuns] /\ saved \in [Refs -> Agent!Runs \cup {<<>>}]
  BY DEF Agent!Init, AgentBounds
<1>4. /\ datasets \in Seq([key : Agent!Keys, rows : SUBSET Agent!Runs, scope : Agent!Scopes])
      /\ pane \in [Panes -> [pending : BOOLEAN, sawFinal : BOOLEAN, queue : Seq(Agent!Updates)]]
  BY DEF Agent!Init, Agent!Idle
<1> QED
  BY <1>2, <1>3, <1>4 DEF AgentInv, Agent!TypeOK

\* What an answer is relayed in.
LEMMA RelaysAreStreams ==
  \A answer \in Agent!Answers : Agent!Relay(answer) \in Agent!Streams /\ Agent!Relay(answer).pc = "relaying"
<1> TAKE answer \in Agent!Answers
<1>1. <<answer>> \in Seq(Agent!Answers)
  OBVIOUS
<1> QED BY <1>1 DEF Agent!Relay, Agent!Streams

LEMMA SavingKeepsAgent ==
  ASSUME AgentBounds, AgentInv, NEW f \in Agent!Range(<<"f1">>),
         Agent!AuditRun(f) \/ \E r \in Refs : Agent!SaveVersion(r, f)
  PROVE  AgentInv'
<1>1. CASE Agent!AuditRun(f)
  <2>1. latest[f] + 1 \in 0..MaxRuns
    BY <1>1 DEF Agent!AuditRun, AgentBounds, AgentInv, Agent!TypeOK
  <2>2. latest' \in [Agent!Range(<<"f1">>) -> 0..MaxRuns]
    BY <1>1, <2>1 DEF Agent!AuditRun, AgentInv, Agent!TypeOK
  <2> QED BY <1>1, <2>2 DEF Agent!AuditRun, AgentInv, Agent!TypeOK
<1>2. ASSUME NEW r \in Refs, Agent!SaveVersion(r, f) PROVE AgentInv'
  <2>1. PICK n \in 1..latest[f] : saved' = [saved EXCEPT ![r] = <<f, n>>]
    BY <1>2 DEF Agent!SaveVersion
  <2>2. <<f, n>> \in Agent!Runs
    BY OneFunction, <2>1 DEF AgentBounds, AgentInv, Agent!TypeOK
  <2>3. saved' \in [Refs -> Agent!Runs \cup {<<>>}] /\ \A x \in Refs : saved[x] # <<>> => saved'[x] # <<>>
    BY <1>2, <2>1, <2>2 DEF Agent!SaveVersion, AgentInv, Agent!TypeOK
  <2>4. \A p \in Panes : chat[p].pc = "reading" => chat[p].ref \in Refs \cup {None}
    BY StreamPhases DEF AgentInv
  <2> QED BY <1>2, <2>3, <2>4 DEF Agent!SaveVersion, AgentInv, Agent!TypeOK
<1> QED BY <1>1, <1>2

LEMMA ReadingKeepsAgent ==
  ASSUME AgentBounds, AgentInv, NEW p \in Panes, Agent!ReadFunction(p)
  PROVE  AgentInv'
<1>1. PICK c, n : c = chat[p] /\ n = Agent!RunFor(c, Head(c.left))
  OBVIOUS
<1>2. PICK rows, left : rows = (c.rows \cup IF n = 0 THEN {} ELSE {<<Head(c.left), n>>}) /\ left = Tail(c.left)
  OBVIOUS
<1>3. /\ c.pc = "reading" /\ c.left # <<>>
      /\ chat' = [chat EXCEPT ![p] = [[chat[p] EXCEPT !.rows = rows] EXCEPT !.left = left]]
      /\ UNCHANGED <<latest, saved, datasets, pane>>
  BY <1>1, <1>2 DEF Agent!ReadFunction, AgentInv, Agent!TypeOK
<1>4. /\ c \in [pc : {"reading"}, scope : Agent!Scopes, ref : Refs \cup {None},
                 rows : SUBSET Agent!Runs, left : Seq({"f1"})]
      /\ c.ref # None => saved[c.ref] # <<>>
  BY <1>1, <1>3, StreamPhases DEF AgentInv
<1>5. Head(c.left) = "f1" /\ left \in Seq({"f1"})
  <2>1. c.left \in Seq({"f1"})
    BY <1>4
  <2> QED BY <1>2, <1>3, <2>1
<1>6. n \in 0..MaxRuns
  <2>1. latest["f1"] \in 0..MaxRuns
    BY OneFunction DEF AgentInv, Agent!TypeOK
  <2>2. c.ref # None => saved[c.ref] \in {"f1"} \X (1..MaxRuns)
    BY <1>4, OneFunction DEF AgentInv, Agent!TypeOK
  <2> QED BY <1>1, <1>5, <2>1, <2>2 DEF Agent!RunFor, AgentBounds
<1>7. rows \in SUBSET Agent!Runs
  <2>1. n # 0 => <<"f1", n>> \in Agent!Runs
    BY <1>6, OneFunction DEF AgentBounds
  <2> QED BY <1>2, <1>4, <1>5, <2>1
<1>8. PICK d : d = [[c EXCEPT !.rows = rows] EXCEPT !.left = left]
  OBVIOUS
<1>9. /\ d \in [pc : {"reading"}, scope : Agent!Scopes, ref : Refs \cup {None},
                 rows : SUBSET Agent!Runs, left : Seq({"f1"})]
      /\ d.ref = c.ref
  BY <1>4, <1>5, <1>7, <1>8, ReadingRecords
<1>10. d \in Agent!Streams
  BY <1>9, OneFunction DEF Agent!Streams
<1>11. chat' = [chat EXCEPT ![p] = d]
  BY <1>1, <1>3, <1>8
<1>12. /\ datasets' \in Seq([key : Agent!Keys, rows : SUBSET Agent!Runs, scope : Agent!Scopes])
       /\ pane' \in [Panes -> [pending : BOOLEAN, sawFinal : BOOLEAN, queue : Seq(Agent!Updates)]]
  BY <1>3 DEF AgentInv, Agent!TypeOK
<1>13. d.ref # None => saved[d.ref] # <<>>
  BY <1>4, <1>9
<1> QED
  BY <1>3, <1>10, <1>11, <1>12, <1>13, ChatMoves

\* A new question.
LEMMA AskKeepsAgent ==
  ASSUME AgentBounds, AgentInv, NEW p \in Panes, NEW scope \in Agent!Scopes, NEW ref \in Refs \cup {None},
         Agent!Ask(p, scope, ref)
  PROVE  AgentInv'
<1> DEFINE left == IF scope = None THEN <<"f1">> ELSE <<scope>>
           d == [pc |-> "reading", scope |-> scope, ref |-> ref, rows |-> {}, left |-> left]
<1>1. left \in Seq({"f1"})
  BY OneFunction
<1>2. d \in Agent!Streams /\ d.ref = ref
  BY <1>1, OneFunction DEF Agent!Streams
<1>3. chat' = [chat EXCEPT ![p] = d] /\ UNCHANGED <<latest, saved, datasets>>
  BY DEF Agent!Ask
<1>4. pane' \in [Panes -> [pending : BOOLEAN, sawFinal : BOOLEAN, queue : Seq(Agent!Updates)]]
  <2>1. Agent!Idle \in [pending : BOOLEAN, sawFinal : BOOLEAN, queue : Seq(Agent!Updates)]
    BY DEF Agent!Idle
  <2>3. [Agent!Idle EXCEPT !.pending = TRUE] \in [pending : BOOLEAN, sawFinal : BOOLEAN, queue : Seq(Agent!Updates)]
    BY <2>1, ClosingUpdates, PaneRecords
  <2> QED BY <2>3 DEF Agent!Ask, AgentInv, Agent!TypeOK
<1>5. ref # None => saved[ref] # <<>>
  BY DEF Agent!Ask
<1>6. datasets' \in Seq([key : Agent!Keys, rows : SUBSET Agent!Runs, scope : Agent!Scopes])
  BY <1>3 DEF AgentInv, Agent!TypeOK
<1> HIDE DEF d
<1> QED
  BY <1>2, <1>3, <1>4, <1>5, <1>6, ChatMoves

\* The rows are shipped: the question goes to the agent, or its answer is relayed.
LEMMA ShippedKeepsAgent ==
  ASSUME AgentBounds, AgentInv, NEW p \in Panes, Agent!StubAnswer(p) \/ Agent!StreamChat(p)
  PROVE  AgentInv'
<1>1. PICK c : c = chat[p]
  OBVIOUS
<1>2. /\ c.pc = "reading" /\ c.scope \in Agent!Scopes /\ c.ref \in Refs \cup {None}
      /\ c.rows \subseteq Agent!Runs
      /\ Agent!Materialize(Agent!DatasetKey(c), c.rows, c.scope) /\ UNCHANGED <<latest, saved, pane>>
  BY <1>1, StreamPhases DEF AgentInv, Agent!StubAnswer, Agent!StreamChat, Agent!Shipped
<1>3. Agent!DatasetKey(c) \in Agent!Keys
  BY <1>2 DEF Agent!DatasetKey, Agent!Keys
<1>4. datasets' \in Seq([key : Agent!Keys, rows : SUBSET Agent!Runs, scope : Agent!Scopes])
  BY <1>2, <1>3, DatasetsAreTyped
<1> DEFINE a == [pc |-> "agent", scope |-> c.scope, rows |-> c.rows, key |-> Agent!DatasetKey(c), round |-> 1]
<1>5. a \in Agent!Streams /\ a.pc = "agent"
  BY <1>2, <1>3 DEF Agent!Streams, AgentBounds
<1>6. chat' = [chat EXCEPT ![p] = Agent!Relay("final")] \/ chat' = [chat EXCEPT ![p] = a]
  BY <1>1 DEF Agent!StubAnswer, Agent!StreamChat, AgentInv, Agent!TypeOK
<1> HIDE DEF a
<1>7. "final" \in Agent!Answers
  BY DEF Agent!Answers
<1>8. PICK x \in Agent!Streams : chat' = [chat EXCEPT ![p] = x] /\ x.pc # "reading"
  BY <1>5, <1>6, <1>7, RelaysAreStreams
<1> QED
  BY <1>2, <1>4, <1>8, ChatMoves DEF AgentInv, Agent!TypeOK

\* The agent's rounds, and what ends them.
LEMMA RoundsKeepAgent ==
  ASSUME AgentBounds, AgentInv, NEW p \in Panes,
         \/ Agent!Unavailable(p) \/ Agent!ModelFails(p) \/ Agent!Unparsed(p) \/ Agent!Query(p)
         \/ \E v \in BOOLEAN : Agent!Final(p, v)
  PROVE  AgentInv'
<1>1. PICK c : c = chat[p]
  OBVIOUS
<1>2. UNCHANGED <<latest, saved, datasets, pane>>
  BY DEF Agent!Unavailable, Agent!ModelFails, Agent!Unparsed, Agent!Query, Agent!Final
<1>3. \/ \E answer \in Agent!Answers : chat' = [chat EXCEPT ![p] = Agent!Relay(answer)]
      \/ c.pc = "agent" /\ c.round # MaxIterations /\ chat' = [chat EXCEPT ![p].round = @ + 1]
  <2>1. CASE Agent!Unavailable(p) \/ Agent!ModelFails(p) \/ Agent!Unparsed(p)
    BY <2>1 DEF Agent!Unavailable, Agent!ModelFails, Agent!Unparsed, Agent!End, Agent!Answers
  <2>2. CASE \E answer \in Agent!Answers : Agent!End(p, answer)
    BY <2>2 DEF Agent!End
  <2>3. CASE c.pc = "agent" /\ Agent!Continue(p)
    BY <1>1, <2>2, <2>3 DEF Agent!Continue, Agent!End, Agent!Answers
  <2> QED BY <1>1, <2>1, <2>2, <2>3 DEF Agent!Query, Agent!Final, Agent!Answers
<1>4. ASSUME c.pc = "agent", c.round # MaxIterations, chat' = [chat EXCEPT ![p].round = @ + 1]
      PROVE  \E x \in Agent!Streams : chat' = [chat EXCEPT ![p] = x] /\ x.pc # "reading"
  <2>1. c \in [pc : {"agent"}, scope : Agent!Scopes, rows : SUBSET Agent!Runs,
              key : Agent!Keys, round : 1..MaxIterations]
    BY <1>1, <1>4, StreamPhases DEF AgentInv
  <2>2. PICK n \in 1..MaxIterations : n = c.round + 1
    BY <1>4, <2>1 DEF AgentBounds
  <2>3. PICK x : x = [c EXCEPT !.round = n]
    OBVIOUS
  <2>4. x \in [pc : {"agent"}, scope : Agent!Scopes, rows : SUBSET Agent!Runs,
              key : Agent!Keys, round : 1..MaxIterations]
    BY <2>1, <2>3, RoundRecords
  <2>5. chat' = [chat EXCEPT ![p] = x]
    BY <1>1, <1>4, <2>2, <2>3 DEF AgentInv, Agent!TypeOK
  <2> QED BY <2>4, <2>5 DEF Agent!Streams
<1>5. PICK x \in Agent!Streams : chat' = [chat EXCEPT ![p] = x] /\ x.pc # "reading"
  BY <1>3, <1>4, RelaysAreStreams
<1> QED
  BY <1>2, <1>5, ChatMoves DEF AgentInv, Agent!TypeOK

\* What the pane receives, and what React makes of it.
LEMMA PaneKeepsAgent ==
  ASSUME AgentBounds, AgentInv, NEW p \in Panes,
         Agent!Receive(p) \/ Agent!EndOfStream(p) \/ Agent!Break(p) \/ Agent!Render(p)
  PROVE  AgentInv'
<1> DEFINE Pane == [pending : BOOLEAN, sawFinal : BOOLEAN, queue : Seq(Agent!Updates)]
<1>1. pane \in [Panes -> Pane] /\ pane[p] \in Pane
  BY DEF AgentInv, Agent!TypeOK
<1>2. UNCHANGED <<latest, saved, datasets>>
  BY DEF Agent!Receive, Agent!EndOfStream, Agent!Break, Agent!Render
<1>3. \E x \in Pane : pane' = [pane EXCEPT ![p] = x]
  <2>0. PICK y \in Pane : y = pane[p]
    BY <1>1
  <2>1. CASE Agent!Receive(p)
    <3>1. PICK update \in {"answer", "error"}, early \in {FALSE, pane[p].queue = <<>>} :
            pane' = [pane EXCEPT ![p].queue = Append(@, update),
                                 ![p].sawFinal = @ \/ (early /\ update = "answer")]
      BY <2>1 DEF Agent!Receive
    <3>2. PICK v \in BOOLEAN : v = (y.sawFinal \/ (early /\ update = "answer"))
      OBVIOUS
    <3>6. y.queue \in Seq(Agent!Updates) /\ update \in Agent!Updates
      BY DEF Agent!Updates
    <3>3. PICK q \in Seq(Agent!Updates) : q = Append(y.queue, update)
      BY <3>6, AppendProperties
    <3>4. pane' = [pane EXCEPT ![p] = [[y EXCEPT !.queue = q] EXCEPT !.sawFinal = v]]
      BY <1>1, <2>0, <3>1, <3>2, <3>3
    <3>5. [[y EXCEPT !.queue = q] EXCEPT !.sawFinal = v] \in Pane
      BY PaneRecords
    <3> QED BY <3>4, <3>5
  <2>2. CASE Agent!EndOfStream(p) \/ Agent!Break(p)
    <3>1. PICK w \in Seq(Agent!Updates) : pane' = [pane EXCEPT ![p].queue = @ \o w]
      BY <2>2, ClosingUpdates DEF Agent!EndOfStream, Agent!Break
    <3>2. PICK q \in Seq(Agent!Updates) : q = y.queue \o w
      BY ConcatProperties
    <3>3. pane' = [pane EXCEPT ![p] = [y EXCEPT !.queue = q]]
      BY <1>1, <2>0, <3>1, <3>2
    <3>4. [y EXCEPT !.queue = q] \in Pane
      BY <3>2, ClosingUpdates, PaneRecords
    <3> QED BY <3>3, <3>4
  <2>3. CASE Agent!Render(p)
    <3>1. Agent!Idle \in Pane
      BY DEF Agent!Idle
    <3>2. PICK v \in BOOLEAN : v = (y.sawFinal \/ Agent!Contains(y.queue, "answer"))
      OBVIOUS
    <3>3. [[y EXCEPT !.sawFinal = v] EXCEPT !.queue = <<>>] \in Pane
      BY ClosingUpdates, PaneRecords
    <3>4. \/ pane' = [pane EXCEPT ![p] = Agent!Idle]
          \/ pane' = [pane EXCEPT ![p] = [[y EXCEPT !.sawFinal = v] EXCEPT !.queue = <<>>]]
      BY <1>1, <2>0, <2>3, <3>2 DEF Agent!Render
    <3> QED BY <3>1, <3>3, <3>4
  <2> QED BY <2>1, <2>2, <2>3
<1>4. pane' \in [Panes -> Pane]
  BY <1>1, <1>3
<1> HIDE DEF Pane
<1>5. \E x \in Agent!Streams : chat' = [chat EXCEPT ![p] = x] /\ (x.pc # "reading" \/ x = chat[p])
  <2>1. CASE Agent!Receive(p)
    <3>1. PICK c \in [pc : {"relaying"}, out : Seq(Agent!Answers)] : c = chat[p] /\ c.out # <<>>
      BY <2>1, StreamPhases DEF Agent!Receive, AgentInv
    <3>5. c.out \in Seq(Agent!Answers)
      OBVIOUS
    <3>2. PICK o \in Seq(Agent!Answers) : o = Tail(c.out)
      BY <3>1, <3>5, FirstGone
    <3>3. [c EXCEPT !.out = o] \in [pc : {"relaying"}, out : Seq(Agent!Answers)]
      BY <3>1, RelayRecords
    <3>4. chat' = [chat EXCEPT ![p] = [c EXCEPT !.out = o]]
      BY <2>1, <3>1, <3>2 DEF Agent!Receive, AgentInv, Agent!TypeOK
    <3> QED BY <3>3, <3>4 DEF Agent!Streams
  <2>2. CASE Agent!EndOfStream(p) \/ Agent!Break(p)
    <3>1. Agent!NoChat \in Agent!Streams /\ Agent!NoChat.pc = "none"
      BY DEF Agent!NoChat, Agent!Streams
    <3> QED BY <2>2, <3>1 DEF Agent!EndOfStream, Agent!Break
  <2>3. CASE Agent!Render(p)
    BY <2>3 DEF Agent!Render, AgentInv, Agent!TypeOK
  <2> QED BY <2>1, <2>2, <2>3
<1>6. PICK x \in Agent!Streams : chat' = [chat EXCEPT ![p] = x] /\ (x.pc # "reading" \/ x = chat[p])
  BY <1>5
<1>7. x.pc = "reading" /\ x.ref # None => saved[x.ref] # <<>>
  BY <1>6 DEF AgentInv
<1> QED
  BY <1>2, <1>4, <1>6, <1>7, ChatMoves DEF AgentInv, Agent!TypeOK, Pane

LEMMA AgentStep == ASSUME AgentBounds PROVE AgentInv /\ [Agent!Next]_(Agent!vars) => AgentInv'
<1> SUFFICES ASSUME AgentInv, [Agent!Next]_(Agent!vars) PROVE AgentInv'
  OBVIOUS
<1>1. CASE UNCHANGED Agent!vars
  BY <1>1 DEF Agent!vars, AgentInv, Agent!TypeOK
<1>2. ASSUME NEW o \in Elsewhere, Agent!OtherChat(o) PROVE AgentInv'
  <2>1. <<"other", o>> \in Agent!Keys /\ None \in Agent!Scopes
    BY DEF Agent!Keys, Agent!Scopes
  <2>2. datasets' \in Seq([key : Agent!Keys, rows : SUBSET Agent!Runs, scope : Agent!Scopes])
    BY <1>2, <2>1, DatasetsAreTyped DEF Agent!OtherChat
  <2> QED BY <1>2, <2>2 DEF Agent!OtherChat, AgentInv, Agent!TypeOK
<1> QED
  BY <1>1, <1>2, SavingKeepsAgent, AskKeepsAgent, ReadingKeepsAgent, ShippedKeepsAgent, RoundsKeepAgent,
     PaneKeepsAgent DEF Agent!Next

-----------------------------------------------------------------------------
(* The types of all parts                                                    *)

LEMMA RunsAreCounted ==
  ASSUME RunsCounted
  PROVE  /\ Migrations!Init => runs \in 0..MaxDeploys
         /\ runs \in 0..MaxDeploys /\ [Migrations!Next]_(Migrations!vars) => runs' \in 0..MaxDeploys
<1>1. Migrations!Init => runs \in 0..MaxDeploys
  BY DEF Migrations!Init, RunsCounted
<1>2. ASSUME runs \in 0..MaxDeploys, [Migrations!Next]_(Migrations!vars) PROVE runs' \in 0..MaxDeploys
  <2>1. ASSUME NEW r \in Runners, Migrations!Start(r) PROVE runs' \in 0..MaxDeploys
    BY <1>2, <2>1 DEF Migrations!Start, RunsCounted
  <2>2. ASSUME NEW r \in Runners,
               \/ Migrations!Lock(r) \/ Migrations!Skip(r) \/ Migrations!Check(r)
               \/ \E baseline \in BOOLEAN : Migrations!Apply(r, baseline)
               \/ Migrations!Fail(r) \/ Migrations!Crash(r) \/ Migrations!Finish(r)
        PROVE  runs' = runs
    BY <2>2 DEF Migrations!Lock, Migrations!Skip, Migrations!Check, Migrations!Apply, Migrations!Fail,
                Migrations!Crash, Migrations!Finish
  <2>3. CASE UNCHANGED Migrations!vars
    BY <1>2, <2>3 DEF Migrations!vars
  <2> QED BY <1>2, <2>1, <2>2, <2>3 DEF Migrations!Next
<1> QED BY <1>1, <1>2

LEMMA MigrationsAreTyped ==
  ASSUME NobodyIsNone, MigrationInv, runs \in 0..MaxDeploys PROVE Migrations!TypeOK
<1>1. ledger \subseteq Migrations!All
  BY DEF NobodyIsNone, MigrationInv, LedgerIsPrefix, Migrations!All
<1> QED BY <1>1 DEF MigrationInv, RunTypes, Migrations!TypeOK

\* Whatever starts, waits, fails and crashes: rows and requests of the jobs, the
\* lines at pool and rows, questions and datasets of the agent, and the ledger
\* keep their types. A request is at a step of its program, stands in a line once,
\* and holds two connections at most.
THEOREM WaitingKeepsTypes == FairSpec => []TypeOK
<1> USE ConstantsAreApart
<1> DEFINE Inv == /\ JobInv /\ PoolInv /\ LinesAreSound /\ AgentInv /\ MigrationInv
                  /\ runs \in 0..MaxDeploys
<1>1. Init => Inv
  BY PartsInit, JobInit, PoolInit, LinesInit, AgentInit, MigrationInit, RunsAreCounted
<1>2. Inv /\ [Next]_vars => Inv'
  BY PartsStep, JobStep, PoolStep, LinesStep, AgentStep, MigrationStep, RunsAreCounted
<1>3. Inv => TypeOK
  BY LinesAreTyped, MigrationsAreTyped DEF JobInv, AgentInv, TypeOK
<1> QED
  BY <1>1, <1>2, <1>3, PTL DEF FairSpec
=============================================================================
