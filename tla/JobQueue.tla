------------------------------ MODULE JobQueue ------------------------------
(***************************************************************************)
(* The durable job queue: jobs/queue.py, the worker loop that drives it    *)
(* (worker.py) and the client operations that write the same rows (app.py, *)
(* mcp_server.py, api/voxengine.py).                                       *)
(*                                                                         *)
(* Postgres runs READ COMMITTED and only the claim takes a row lock, so a  *)
(* handler is two steps: it reads a snapshot of the row, and later commits *)
(* the columns it changed.  SQLAlchemy's UPDATE writes only the columns    *)
(* whose value differs from the one the session loaded; Flush is that      *)
(* rule.  Other transactions may commit between the two steps.             *)
(*                                                                         *)
(* Abstracted: timestamps to the three cases the handlers tell apart       *)
(* (locked_at NULL, within the lease, past it), available_at to any order  *)
(* of claims, error texts, progress and outputs (ChapterPipeline).         *)
(***************************************************************************)
EXTENDS Naturals, FiniteSets

CONSTANTS Workers,         \* worker processes; a restarted one has a new id
          Requests,        \* API or MCP sessions open at the same time
          Jobs,
          NoWorker,        \* the NULL of locked_by
          NoJob,
          Ops,             \* the operations clients use
          MaxAttempts,     \* Job.max_attempts
          AttemptCap,      \* bound: no claim takes attempts beyond it
          Reliable,        \* workers that neither crash nor are stopped
          SlowWorkers,     \* a live worker may outlast its lease
          SerialSweeps,    \* orphan sweeps never overlap
          SerialRequests   \* client requests never overlap each other

ClientOps == {"cancel", "mcp_cancel", "approve", "reject", "rerender", "delete"}

ASSUME QueueAssumption ==
    /\ NoWorker \notin Workers
    /\ NoJob \notin Jobs
    /\ Ops \subseteq ClientOps
    /\ Reliable \subseteq Workers
    /\ MaxAttempts \in Nat \ {0}
    /\ AttemptCap \in Nat
    /\ AttemptCap >= MaxAttempts
    /\ {SlowWorkers, SerialSweeps, SerialRequests} \subseteq BOOLEAN

VARIABLES row,    \* the committed jobs row
          open,   \* its job_attempts rows with finished_at NULL
          pc,     \* where each worker's process is
          task,   \* the job a worker has in hand
          snap,   \* the jobs row as the worker's session last loaded it
          req,    \* the client request each session has in flight
          asked   \* history: a client cancelled since the last (re)enqueue

vars == <<row, open, pc, task, snap, req, asked>>
workerVars == <<pc, task, snap>>
clientVars == <<req, asked>>

Finished == {"succeeded", "needs_review", "failed"}
Terminal == Finished \union {"canceled"}
Statuses == Terminal \union {"absent", "queued", "running", "deleted"}

Row == [status : Statuses, locked_by : Workers \union {NoWorker},
        locked_at : {"none", "fresh", "stale"}, attempts : Nat,
        cancel_requested : BOOLEAN]
AbsentRow == [status |-> "absent", locked_by |-> NoWorker, locked_at |-> "none",
              attempts |-> 0, cancel_requested |-> FALSE]
Attempt == [n : Nat, worker : Workers]
NoRequest == [op |-> "none", job |-> NoJob, snap |-> AbsentRow]

\* A worker is running a job from the claim until its process has nothing
\* more to write for it.
Busy == {"working", "beating", "finishing", "canceling", "failing", "recording"}
OnJob(w, j) == pc[w] \in Busy /\ task[w] = j
Exists(j) == row[j].status \notin {"absent", "deleted"}

-----------------------------------------------------------------------------
\* One UPDATE of the unit of work: old is what the session loaded, new what
\* the handler left in memory, cur what the table holds now.
Changed(cur, old, new) == IF new # old THEN new ELSE cur
Flush(cur, old, new) ==
    [status           |-> Changed(cur.status, old.status, new.status),
     locked_by        |-> Changed(cur.locked_by, old.locked_by, new.locked_by),
     locked_at        |-> Changed(cur.locked_at, old.locked_at, new.locked_at),
     attempts         |-> Changed(cur.attempts, old.attempts, new.attempts),
     cancel_requested |-> Changed(cur.cancel_requested, old.cancel_requested,
                                  new.cancel_requested)]

Unlocked(r) == [r EXCEPT !.locked_by = NoWorker, !.locked_at = "none"]

\* Slips the properties must catch.
RecoveredUnbounded(r) == [Unlocked(r) EXCEPT !.status = "queued"]
RerenderedKeepsCount(r) ==
    [r EXCEPT !.status = "queued", !.locked_by = NoWorker]
IsOrphanAnyAge(r) == r.status = "running"
IsOrphanNull(r) == r.status = "running" /\ r.locked_at = "none"
CloseNone(S) == {S}

\* The handlers of jobs/queue.py on the row they loaded.
Completed(r) == [Unlocked(r) EXCEPT !.status = "succeeded"]
HeldForReview(r) == [Unlocked(r) EXCEPT !.status = "needs_review"]
JobCanceled(r) == [Unlocked(r) EXCEPT !.status = "canceled"]
Failed(r) ==
    [Unlocked(r) EXCEPT !.status =
        IF r.attempts < MaxAttempts THEN "queued" ELSE "failed"]
Recovered(r) ==
    [Unlocked(r) EXCEPT !.status =
        IF r.attempts >= MaxAttempts THEN "failed" ELSE "queued"]
CancelRequested(r) ==
    IF r.status = "queued"
    THEN [Unlocked(r) EXCEPT !.status = "canceled", !.cancel_requested = TRUE]
    ELSE [r EXCEPT !.cancel_requested = TRUE]
McpCanceled(r) == [r EXCEPT !.status = "canceled", !.cancel_requested = TRUE]
Approved(r) == [r EXCEPT !.status = "succeeded"]
Rejected(r) == [r EXCEPT !.status = "failed"]
Rerendered(r) ==
    [r EXCEPT !.status = "queued", !.locked_by = NoWorker, !.attempts = 0]

Owns(r, w) == r.locked_by = w /\ r.status = "running"
IsOrphan(r) == r.status = "running" /\ r.locked_at = "stale"

\* _close_attempt and the sweep close the open attempt with the highest
\* number, whoever's it is.
CloseLast(S) ==
    IF S = {} THEN {S}
    ELSE {S \ {a} : a \in {b \in S : \A c \in S : c.n <= b.n}}

-----------------------------------------------------------------------------
\* Clients insert jobs: POST /synthesize and the MCP tool.
Enqueue(j) ==
    /\ row[j].status = "absent"
    /\ row' = [row EXCEPT ![j].status = "queued"]
    /\ UNCHANGED <<open, workerVars, clientVars>>

\* Slip: the claim does not stamp the lock.
ClaimUnstamped(w, j) ==
    /\ pc[w] = "idle"
    /\ row[j].status = "queued"
    /\ row' = [row EXCEPT ![j].status = "running", ![j].locked_by = w,
                          ![j].attempts = @ + 1]
    /\ open' = [open EXCEPT
           ![j] = @ \union {[n |-> row[j].attempts + 1, worker |-> w]}]
    /\ pc' = [pc EXCEPT ![w] = "working"]
    /\ task' = [task EXCEPT ![w] = j]
    /\ UNCHANGED <<snap, clientVars>>

\* SELECT ... FOR UPDATE SKIP LOCKED, the update and the attempt row commit
\* together under the row lock.
Claim(w, j) ==
    /\ pc[w] = "idle"
    /\ row[j].status = "queued"
    /\ row[j].attempts < AttemptCap
    /\ row' = [row EXCEPT ![j].status = "running", ![j].locked_by = w,
                          ![j].locked_at = "fresh", ![j].attempts = @ + 1]
    /\ open' = [open EXCEPT
           ![j] = @ \union {[n |-> row[j].attempts + 1, worker |-> w]}]
    /\ pc' = [pc EXCEPT ![w] = "working"]
    /\ task' = [task EXCEPT ![w] = j]
    /\ UNCHANGED <<snap, clientVars>>

Goto(w, p) ==
    /\ pc' = [pc EXCEPT ![w] = p]
    /\ UNCHANGED <<task, snap>>

\* The worker's process drops the job and the snapshot it has of it.
Release(w, p) ==
    /\ pc' = [pc EXCEPT ![w] = p]
    /\ task' = [task EXCEPT ![w] = NoJob]
    /\ snap' = [snap EXCEPT ![w] = AbsentRow]

Load(w, p) ==
    /\ pc' = [pc EXCEPT ![w] = p]
    /\ snap' = [snap EXCEPT ![w] = row[task[w]]]
    /\ UNCHANGED task

\* session.refresh at the head of heartbeat and _assert_still_owner: a
\* deleted row raises, a lost lease stops the run without a write.
Refresh(w, next) ==
    /\ pc[w] = "working"
    /\ CASE ~Exists(task[w]) -> Goto(w, "failing")
         [] Exists(task[w]) /\ ~Owns(row[task[w]], w) -> Release(w, "idle")
         [] Exists(task[w]) /\ Owns(row[task[w]], w) -> Load(w, next)
    /\ UNCHANGED <<row, open, clientVars>>

\* The heartbeat between two chapters.
HeartbeatRead(w) ==
    Refresh(w, IF row[task[w]].cancel_requested THEN "canceling" ELSE "beating")

\* The new timestamp always differs from the loaded one, so it is written
\* whatever the row holds by now.
HeartbeatWrite(w) ==
    LET j == task[w] IN
    /\ pc[w] = "beating"
    /\ IF Exists(j)
       THEN /\ row' = [row EXCEPT ![j].locked_at = "fresh"]
            /\ pc' = [pc EXCEPT ![w] = "working"]
            /\ snap' = [snap EXCEPT ![w] = AbsentRow]
            /\ UNCHANGED task
       ELSE UNCHANGED row /\ Goto(w, "failing")
    /\ UNCHANGED <<open, clientVars>>

\* complete_job or hold_for_review, after the QC gate's verdict.
FinishRead(w) == Refresh(w, "finishing")

\* Commits what a handler made of the loaded row and closes the attempt.
WriteBack(w, new) ==
    LET j == task[w] IN
    /\ row' = [row EXCEPT ![j] = Flush(row[j], snap[w], new)]
    /\ \E S \in CloseLast(open[j]) : open' = [open EXCEPT ![j] = S]
    /\ Release(w, "idle")
    /\ UNCHANGED clientVars

FinishWrite(w) ==
    /\ pc[w] = "finishing"
    /\ IF Exists(task[w])
       THEN \/ WriteBack(w, Completed(snap[w]))
            \/ WriteBack(w, HeldForReview(snap[w]))
       ELSE Goto(w, "failing") /\ UNCHANGED <<row, open, clientVars>>

\* The JobCanceled handler of process_one: no second ownership check.
CancelWrite(w) ==
    /\ pc[w] = "canceling"
    /\ IF Exists(task[w])
       THEN WriteBack(w, JobCanceled(snap[w]))
       ELSE Release(w, "idle") /\ UNCHANGED <<row, open, clientVars>>

\* The pipeline raises: rollback, then fail_job in a session of its own.
RunRaises(w) ==
    /\ pc[w] \in {"working", "beating"}
    /\ Goto(w, "failing")
    /\ UNCHANGED <<row, open, clientVars>>

\* fail_job checks locked_by only, not the status.
FailRead(w) ==
    /\ pc[w] = "failing"
    /\ IF Exists(task[w]) /\ row[task[w]].locked_by = w
       THEN Load(w, "recording")
       ELSE Release(w, "idle")
    /\ UNCHANGED <<row, open, clientVars>>

FailWrite(w) ==
    /\ pc[w] = "recording"
    /\ IF Exists(task[w])
       THEN WriteBack(w, Failed(snap[w]))
       ELSE Release(w, "idle") /\ UNCHANGED <<row, open, clientVars>>

\* The transaction of one of the last writes fails (outside run_job's own
\* try): the loop of main logs it and polls on, the row stays as it is.
GiveUp(w) ==
    /\ pc[w] \in {"failing", "finishing", "canceling", "recording"}
    /\ Release(w, "idle")
    /\ UNCHANGED <<row, open, clientVars>>

\* The process dies, or is stopped while idle; its transaction rolls back.
Crash(w) ==
    /\ w \notin Reliable
    /\ pc[w] # "dead"
    /\ Release(w, "dead")
    /\ UNCHANGED <<row, open, clientVars>>

\* 900 s pass without a heartbeat.  A live worker beats between chapters, so
\* its lease only runs out if it is slower than that.
LeaseExpires(j) ==
    /\ row[j].status = "running"
    /\ row[j].locked_at = "fresh"
    /\ SlowWorkers \/ \A w \in Workers : ~OnJob(w, j)
    /\ row' = [row EXCEPT ![j].locked_at = "stale"]
    /\ UNCHANGED <<open, workerVars, clientVars>>

\* recover_orphans, one job of its loop: the SELECT takes no row lock.
SweepRead(w, j) ==
    /\ pc[w] = "idle"
    /\ IsOrphan(row[j])
    /\ SerialSweeps => \A v \in Workers : pc[v] # "sweeping"
    /\ pc' = [pc EXCEPT ![w] = "sweeping"]
    /\ task' = [task EXCEPT ![w] = j]
    /\ snap' = [snap EXCEPT ![w] = row[j]]
    /\ UNCHANGED <<row, open, clientVars>>

\* main does not guard the sweep: an UPDATE that finds the row deleted
\* raises StaleDataError and ends the process.
SweepWrite(w) ==
    /\ pc[w] = "sweeping"
    /\ IF Exists(task[w])
       THEN WriteBack(w, Recovered(snap[w]))
       ELSE Release(w, "dead") /\ UNCHANGED <<row, open, clientVars>>

-----------------------------------------------------------------------------
\* Slip: approval is not limited to jobs held for review.
AcceptsAnyReview(op, r) ==
    \/ op \in {"approve", "reject"} /\ r.status \in Finished
    \/ op = "rerender" /\ r.status \in Finished
    \/ op = "delete"

\* What each client operation accepts: the 409s and ValueErrors of the
\* handlers are requests that change nothing.
Accepts(op, r) ==
    \/ op = "cancel" /\ r.status \in {"queued", "running"}
    \/ op = "mcp_cancel" /\ r.status \in {"queued", "running", "needs_review"}
    \/ op \in {"approve", "reject"} /\ r.status = "needs_review"
    \/ op = "rerender" /\ r.status \in Finished
    \/ op = "delete"

\* A handler loads the row and passes its check.
RequestRead(r, op, j) ==
    /\ req[r] = NoRequest
    /\ SerialRequests => \A s \in Requests : req[s] = NoRequest
    /\ Exists(j)
    /\ Accepts(op, row[j])
    /\ req' = [req EXCEPT ![r] = [op |-> op, job |-> j, snap |-> row[j]]]
    /\ UNCHANGED <<row, open, workerVars, asked>>

Applied(op, s) ==
    CASE op = "cancel" -> CancelRequested(s)
      [] op = "mcp_cancel" -> McpCanceled(s)
      [] op = "approve" -> Approved(s)
      [] op = "reject" -> Rejected(s)
      [] op = "rerender" -> Rerendered(s)

Done(r) == req' = [req EXCEPT ![r] = NoRequest]

\* ... and commits.  If the row went away in between, the request fails.
RequestWrite(r) ==
    LET q == req[r] IN
    /\ q.op \in ClientOps \ {"delete"}
    /\ row' = [row EXCEPT ![q.job] =
           IF Exists(q.job) THEN Flush(@, q.snap, Applied(q.op, q.snap)) ELSE @]
    /\ asked' = [asked EXCEPT ![q.job] =
           (q.op \in {"cancel", "mcp_cancel"}) \/ (@ /\ q.op # "rerender")]
    /\ Done(r)
    /\ UNCHANGED <<open, workerVars>>

\* DELETE removes the row, and its attempts by cascade.
DeleteWrite(r) ==
    LET q == req[r] IN
    /\ q.op = "delete"
    /\ row' = [row EXCEPT ![q.job] = [AbsentRow EXCEPT !.status = "deleted"]]
    /\ open' = [open EXCEPT ![q.job] = {}]
    /\ Done(r)
    /\ UNCHANGED <<workerVars, asked>>

-----------------------------------------------------------------------------
Init ==
    /\ row = [j \in Jobs |-> AbsentRow]
    /\ open = [j \in Jobs |-> {}]
    /\ pc = [w \in Workers |-> "idle"]
    /\ task = [w \in Workers |-> NoJob]
    /\ snap = [w \in Workers |-> AbsentRow]
    /\ req = [r \in Requests |-> NoRequest]
    /\ asked = [j \in Jobs |-> FALSE]

WorkerStep(w) ==
    \/ \E j \in Jobs : Claim(w, j) \/ SweepRead(w, j)
    \/ HeartbeatRead(w) \/ HeartbeatWrite(w)
    \/ FinishRead(w) \/ FinishWrite(w)
    \/ CancelWrite(w)
    \/ RunRaises(w) \/ FailRead(w) \/ FailWrite(w)
    \/ GiveUp(w)
    \/ SweepWrite(w)
    \/ Crash(w)

ClientStep(r) ==
    \/ \E op \in Ops, j \in Jobs : RequestRead(r, op, j)
    \/ RequestWrite(r) \/ DeleteWrite(r)

Next ==
    \/ \E j \in Jobs : Enqueue(j) \/ LeaseExpires(j)
    \/ \E w \in Workers : WorkerStep(w)
    \/ \E r \in Requests : ClientStep(r)

Spec == Init /\ [][Next]_vars

\* Time passes, a live process takes its next step, and a run has finitely
\* many chapters, so it cannot beat for ever without finishing.
Fairness ==
    /\ \A j \in Jobs : WF_vars(LeaseExpires(j))
    /\ \A w \in Workers :
         /\ WF_vars(HeartbeatWrite(w))
         /\ SF_vars(FinishRead(w))
         /\ WF_vars(FinishWrite(w) \/ CancelWrite(w))
         /\ WF_vars(FailRead(w) \/ FailWrite(w))
         /\ WF_vars(SweepWrite(w))
         /\ \A j \in Jobs : SF_vars(Claim(w, j)) /\ SF_vars(SweepRead(w, j))

FairSpec == Spec /\ Fairness

-----------------------------------------------------------------------------
\* The environment under which the lock-free handlers are enough.
Calm == SerialSweeps /\ SerialRequests /\ ~SlowWorkers

TypeOK ==
    /\ row \in [Jobs -> Row]
    /\ open \in [Jobs -> SUBSET Attempt]
    /\ pc \in [Workers -> {"idle", "sweeping", "dead"} \union Busy]
    /\ task \in [Workers -> Jobs \union {NoJob}]
    /\ snap \in [Workers -> Row]
    /\ req \in [Requests -> [op : ClientOps \union {"none"},
                             job : Jobs \union {NoJob}, snap : Row]]
    /\ asked \in [Jobs -> BOOLEAN]

\* A running row always carries the lock time the sweep selects on and the
\* worker it belongs to, so a crash never strands the job (recover_orphans).
NoStranded ==
    \A j \in Jobs : row[j].status = "running" =>
        row[j].locked_at # "none" /\ row[j].locked_by \in Workers

\* Two live workers never run the same job, across claims, retries, sweeps
\* and re-renders (worker.py: each job is claimed by exactly one worker).
OneRunner ==
    \A j \in Jobs, v, w \in Workers : OnJob(v, j) /\ OnJob(w, j) => v = w

\* No interleaving of retries and sweeps runs a job more than max_attempts
\* times between two (re)enqueues (fail_job, recover_orphans).
AttemptsBounded == \A j \in Jobs : row[j].attempts <= MaxAttempts

\* The audit trail agrees with the row: a running job has exactly its own
\* attempt open, a job that is waiting or finished has none.
AttemptLedger ==
    \A j \in Jobs :
        /\ row[j].status = "running" =>
             open[j] = {[n |-> row[j].attempts, worker |-> row[j].locked_by]}
        /\ row[j].status \in Finished \union {"queued", "deleted"} => open[j] = {}

\* Only a client's request changes the status of a finished job: no late
\* write of a worker or of a sweep does.
FinishedStays ==
    [][\A j \in Jobs :
         row[j].status \in Finished /\ row'[j].status # row[j].status =>
           \E r \in Requests : req[r].job = j /\ req'[r] = NoRequest]_vars

\* A worker never overwrites a job another worker holds by now (the comment
\* of _assert_still_owner: "so a zombie worker cannot overwrite a job that
\* has already been recovered and restarted by another worker").
ZombieHarmless ==
    [][\A w \in Workers, j \in Jobs :
         /\ task[w] = j
         /\ pc[w] \in {"finishing", "canceling", "recording"}
         /\ pc'[w] = "idle"
         /\ row[j].locked_by \in Workers \ {w}
         => row'[j] = row[j]]_vars

\* A job is only cancelled when a client asked for it since it was last put
\* in the queue (rerender_job: "Re-run a finished job").
CanceledWhenAsked ==
    \A j \in Jobs : row[j].status = "canceled" => asked[j]

\* A queued or running job is eventually settled, whatever crashes, as long
\* as one worker lives (recover_orphans: "a crash mid-job doesn't strand the
\* job forever").
JobsSettle ==
    \A j \in Jobs : row[j].status \in {"queued", "running"} ~>
                    row[j].status \notin {"queued", "running"}

\* The documented life cycle of JobStatus, as an abstract machine.
Lifecycle == INSTANCE JobLifecycle WITH status <- [j \in Jobs |-> row[j].status]
DocumentedLifecycle == Lifecycle!Spec

-----------------------------------------------------------------------------
\* Why NoStranded, OneRunner, AttemptsBounded and AttemptLedger hold when the
\* environment is Calm: an inductive invariant of four parts.

\* What a committed row may look like, with the attempts it has open.
JobOK(j) ==
    /\ row[j].status = "running" =>
         /\ row[j].locked_at # "none"
         /\ row[j].locked_by \in Workers
         /\ open[j] = {[n |-> row[j].attempts, worker |-> row[j].locked_by]}
    /\ row[j].status = "canceled" =>
         open[j] \subseteq {[n |-> row[j].attempts, worker |-> row[j].locked_by]}
    /\ row[j].status \notin {"running", "canceled"} =>
         row[j].locked_by = NoWorker /\ open[j] = {}
    /\ row[j].status = "absent" => row[j].attempts = 0
    /\ row[j].status = "queued" => row[j].attempts < MaxAttempts
    /\ row[j].attempts <= MaxAttempts

\* A row some process still means to write keeps the holder it was loaded
\* with until then: only the client operations touch it.
Held(w) ==
    row[task[w]].status # "deleted" => row[task[w]].status \in {"running", "canceled"}

WorkerOK(w) ==
    /\ pc[w] \in Busy \union {"sweeping"} =>
         /\ task[w] \in Jobs
         /\ row[task[w]].status # "absent"
         /\ Held(w)
    /\ pc[w] \in Busy /\ row[task[w]].status # "deleted" =>
         /\ row[task[w]].locked_by = w
         /\ row[task[w]].status = "running" => row[task[w]].locked_at = "fresh"
    /\ pc[w] \in {"finishing", "canceling"} =>
         snap[w].status = "running" /\ snap[w].locked_by = w
    /\ pc[w] = "recording" =>
         /\ snap[w].status \in {"running", "canceled"}
         /\ snap[w].locked_by = w
    /\ pc[w] = "sweeping" =>
         /\ snap[w].status = "running"
         /\ snap[w].locked_by \in Workers
         /\ row[task[w]].status # "deleted" =>
              /\ row[task[w]].locked_by = snap[w].locked_by
              /\ \A v \in Workers : ~OnJob(v, task[w])
    /\ pc[w] \in {"recording", "sweeping"} /\ row[task[w]].status # "deleted" =>
         row[task[w]].attempts = snap[w].attempts

\* The only request in flight; one that needs a finished job finds it as it
\* loaded it.
RequestOK(r) ==
    req[r] # NoRequest =>
        LET q == req[r] IN
        /\ q.op \in ClientOps
        /\ q.job \in Jobs
        /\ row[q.job].status # "absent"
        /\ q.op = "cancel" => q.snap.status \in {"queued", "running"}
        /\ q.op = "mcp_cancel" => q.snap.status \in {"queued", "running", "needs_review"}
        /\ q.op = "cancel" /\ q.snap.status = "queued" => q.snap.locked_by = NoWorker
        /\ q.op \in {"approve", "reject"} => q.snap.status = "needs_review"
        /\ q.op = "rerender" => q.snap.status \in Finished
        /\ q.op \in {"approve", "reject", "rerender"} => row[q.job] = q.snap

Exclusive ==
    /\ OneRunner
    /\ \A v, w \in Workers : pc[v] = "sweeping" /\ pc[w] = "sweeping" => v = w
    /\ \A r, s \in Requests : req[r] # NoRequest /\ req[s] # NoRequest => r = s

CalmInv ==
    /\ TypeOK
    /\ \A j \in Jobs : JobOK(j)
    /\ \A w \in Workers : WorkerOK(w)
    /\ \A r \in Requests : RequestOK(r)
    /\ Exclusive

=============================================================================
