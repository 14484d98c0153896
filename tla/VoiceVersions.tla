---------------------------- MODULE VoiceVersions ----------------------------
(***************************************************************************)
(* One voice of Voice City: its numbered versions, the optimizer workers   *)
(* that add one per job, and the requests of clients on the voice.         *)
(*                                                                         *)
(* As in JobQueue a handler loads rows, decides, and later commits the     *)
(* columns it changed.  Two locks are real here: a run flushes the stage   *)
(* of its job before it calls the model server, so it holds that row until *)
(* it commits; and it locks the voice while it takes a version number, so  *)
(* its commit is one step.  A unique key keeps version numbers apart.      *)
(*                                                                         *)
(* Abstracted: parameters, screens and artifacts (their verdict is any);   *)
(* backoff; progress and stages; a voice is created with one version.      *)
(***************************************************************************)
EXTENDS Naturals, Sequences, FiniteSets

CONSTANTS Workers, Requests, Jobs,
          Nobody,          \* NULL in locked_by
          NoJob,           \* a version saved by a client
          MaxAttempts,
          AttemptCap,      \* bound: attempts of a job
          VersionCap,      \* bound: versions of the voice
          SerialSweeps,    \* environment: sweeps do not overlap
          SlowRuns         \* environment: a run may outlast its lease

ASSUME VoiceAssumption ==
    /\ Nobody \notin Workers
    /\ NoJob \notin Jobs
    /\ MaxAttempts \in Nat \ {0}
    /\ AttemptCap \in Nat
    /\ VersionCap \in Nat \ {0}
    /\ SerialSweeps \in BOOLEAN
    /\ SlowRuns \in BOOLEAN

VARIABLES
    voice,      \* the voices row
    versions,   \* the job each version was made by, in order of number
    jobs,       \* the generation_jobs rows
    pc,
    hand,       \* what a worker has in hand: a job, and the rows as loaded
    req         \* what a request has in hand

vars == <<voice, versions, jobs, pc, hand, req>>

Voice == [status : {"ready", "revoked", "deleted"}, current : Nat, deleted : BOOLEAN]
Job == [status : {"absent", "queued", "running", "succeeded", "failed", "canceled"},
        holder : Workers \union {Nobody}, lock : {"none", "fresh", "expired"},
        attempts : Nat, cancel : BOOLEAN, source : Nat]
Terminal == {"succeeded", "failed", "canceled"}

NewVoice == [status |-> "ready", current |-> 1, deleted |-> FALSE]
Absent == [status |-> "absent", holder |-> Nobody, lock |-> "none", attempts |-> 0,
           cancel |-> FALSE, source |-> 0]
NoHand == [job |-> NoJob, row |-> Absent, voice |-> NewVoice]
NoRequest == [op |-> "none", job |-> NoJob, row |-> Absent, voice |-> NewVoice,
              number |-> 0]

-----------------------------------------------------------------------------
\* Slip: every column is written back.
FlushAll(cur, old, new) == new

\* SQLAlchemy writes the columns whose value differs from the one loaded.
Flush(cur, old, new) ==
    [f \in DOMAIN cur |-> IF new[f] # old[f] THEN new[f] ELSE cur[f]]

CommitJob(j, old, new) == jobs' = [jobs EXCEPT ![j] = Flush(@, old, new)]

Goto(w, p) == pc' = [pc EXCEPT ![w] = p]
Leave(w) == Goto(w, "idle") /\ hand' = [hand EXCEPT ![w] = NoHand]
Mine(w) == hand[w].job

\* A run holds its job's row from the flush of the stage to its commit.
Locked(j) == \E w \in Workers : pc[w] = "creating" /\ Mine(w) = j

Released(r, s) == [r EXCEPT !.status = s, !.holder = Nobody, !.lock = "none"]

-----------------------------------------------------------------------------
\* claim_next_job, in a transaction of its own.
Claim(w, j) ==
    /\ pc[w] = "idle"
    /\ jobs[j].status = "queued"
    /\ ~jobs[j].cancel
    /\ jobs[j].attempts < AttemptCap
    /\ jobs' = [jobs EXCEPT ![j].status = "running", ![j].holder = w,
                            ![j].lock = "fresh", ![j].attempts = @ + 1]
    /\ hand' = [hand EXCEPT ![w].job = j]
    /\ Goto(w, "claimed")
    /\ UNCHANGED <<voice, versions, req>>

Owns(w) == jobs[Mine(w)].status = "running" /\ jobs[Mine(w)].holder = w
Usable(v) == ~v.deleted /\ v.status # "revoked"

\* run_optimization_job loads its rows; nothing refreshes them later.
Load(w) ==
    /\ pc[w] = "claimed"
    /\ Owns(w)
    /\ ~jobs[Mine(w)].cancel
    /\ Usable(voice)
    /\ hand' = [hand EXCEPT ![w].row = jobs[Mine(w)], ![w].voice = voice]
    /\ Goto(w, "loaded")
    /\ UNCHANGED <<voice, versions, jobs, req>>

LoadCanceled(w) ==
    /\ pc[w] = "claimed"
    /\ Owns(w)
    /\ jobs[Mine(w)].cancel
    /\ jobs' = [jobs EXCEPT ![Mine(w)] = Released(@, "canceled")]
    /\ Leave(w)
    /\ UNCHANGED <<voice, versions, req>>

LoadRefused(w) ==
    /\ pc[w] = "claimed"
    /\ ~Owns(w) \/ (~jobs[Mine(w)].cancel /\ ~Usable(voice))
    /\ Goto(w, "failing")
    /\ UNCHANGED <<voice, versions, jobs, hand, req>>

\* The flush of the stage, then the call of the model server.
Create(w) ==
    /\ pc[w] = "loaded"
    /\ ~Locked(Mine(w))
    /\ Goto(w, "creating")
    /\ UNCHANGED <<voice, versions, jobs, hand, req>>

\* The server, a screen, the store or the commit fails: rollback.
RunRaises(w) ==
    /\ pc[w] \in {"loaded", "creating"}
    /\ hand' = [hand EXCEPT ![w] = [NoHand EXCEPT !.job = Mine(w)]]
    /\ Goto(w, "failing")
    /\ UNCHANGED <<voice, versions, jobs, req>>

\* Next number, version, current version and job in one commit.
Succeed(w) ==
    LET n == Len(versions) + 1
        v == hand[w].voice
    IN
    /\ pc[w] = "creating"
    /\ n <= VersionCap
    /\ versions' = Append(versions, Mine(w))
    /\ voice' = Flush(voice, v, [v EXCEPT !.current = n, !.status = "ready"])
    /\ CommitJob(Mine(w), hand[w].row, Released(hand[w].row, "succeeded"))
    /\ Leave(w)
    /\ UNCHANGED req

\* fail_job in a new session, which does not ask who holds the job.
FailRead(w) ==
    /\ pc[w] = "failing"
    /\ hand' = [hand EXCEPT ![w].row = jobs[Mine(w)]]
    /\ Goto(w, "recording")
    /\ UNCHANGED <<voice, versions, jobs, req>>

\* Slips: the stage for the status; the last attempt is retried as well.
RetryStage(r) == IF r.attempts < MaxAttempts THEN "retry-wait" ELSE "failed"
RetryAlways(r) == IF r.cancel THEN "canceled" ELSE "queued"
Retry(r) == IF r.cancel THEN "canceled"
            ELSE IF r.attempts < MaxAttempts THEN "queued" ELSE "failed"

FailWrite(w) ==
    /\ pc[w] = "recording"
    /\ ~Locked(Mine(w))
    /\ CommitJob(Mine(w), hand[w].row, Released(hand[w].row, Retry(hand[w].row)))
    /\ Leave(w)
    /\ UNCHANGED <<voice, versions, req>>

\* The process dies, or its transaction fails where nothing handles it.
Crash(w) ==
    /\ pc[w] # "idle"
    /\ Leave(w)
    /\ UNCHANGED <<voice, versions, jobs, req>>

-----------------------------------------------------------------------------
Running == {"claimed", "loaded", "creating", "failing", "recording"}
Quick(j) ==
    /\ \A w \in Workers : pc[w] \in Running => Mine(w) # j
    /\ \A r \in Requests : req[r].job # j

\* LEASE_SECONDS pass: more than any run or request takes, unless SlowRuns.
LeaseExpires(j) ==
    /\ jobs[j].lock = "fresh"
    /\ SlowRuns \/ Quick(j)
    /\ jobs' = [jobs EXCEPT ![j].lock = "expired"]
    /\ UNCHANGED <<voice, versions, pc, hand, req>>

\* Slip: the sweep takes any running job.
IsOrphanAny(r) == r.status = "running"
IsOrphan(r) == r.status = "running" /\ r.lock = "expired"

\* recover_orphans between two jobs of a worker, one row of its loop.
SweepRead(w, j) ==
    /\ pc[w] = "idle"
    /\ SerialSweeps => \A v \in Workers : pc[v] # "sweeping"
    /\ IsOrphan(jobs[j])
    /\ hand' = [hand EXCEPT ![w].job = j, ![w].row = jobs[j]]
    /\ Goto(w, "sweeping")
    /\ UNCHANGED <<voice, versions, jobs, req>>

SweepWrite(w) ==
    /\ pc[w] = "sweeping"
    /\ ~Locked(Mine(w))
    /\ CommitJob(Mine(w), hand[w].row, Released(hand[w].row, Retry(hand[w].row)))
    /\ Leave(w)
    /\ UNCHANGED <<voice, versions, req>>

-----------------------------------------------------------------------------
\* Requests: load and check, then commit.
Ask(r, q) == req[r] = NoRequest /\ req' = [req EXCEPT ![r] = q]
Answer(r) == req' = [req EXCEPT ![r] = NoRequest]

\* save_version refuses a revoked voice, accept_candidate does not.
SaveRead(r, accept) ==
    /\ ~voice.deleted
    /\ accept \/ voice.status # "revoked"
    /\ Ask(r, [NoRequest EXCEPT !.op = "save", !.voice = voice])
    /\ UNCHANGED <<voice, versions, jobs, pc, hand>>

\* _create_version reads the highest number without a lock ...
SaveNumber(r) ==
    /\ req[r].op = "save"
    /\ req[r].number = 0
    /\ req' = [req EXCEPT ![r].number = Len(versions) + 1]
    /\ UNCHANGED <<voice, versions, jobs, pc, hand>>

\* ... and its insert fails if that number was taken meanwhile.
SaveWrite(r) ==
    LET n == req[r].number  v == req[r].voice IN
    /\ req[r].op = "save"
    /\ n # 0
    /\ n <= VersionCap
    /\ IF Len(versions) >= n
       THEN UNCHANGED <<voice, versions>>
       ELSE /\ versions' = Append(versions, NoJob)
            /\ voice' = Flush(voice, v, [v EXCEPT !.current = n])
    /\ Answer(r)
    /\ UNCHANGED <<jobs, pc, hand>>

VoiceOps == {"rollback", "revoke", "delete", "evaluate"}

VoiceRead(r, op, n) ==
    /\ ~voice.deleted
    /\ Ask(r, [NoRequest EXCEPT !.op = op, !.voice = voice,
                                !.number = IF op = "rollback" THEN n ELSE 0])
    /\ UNCHANGED <<voice, versions, jobs, pc, hand>>

Edited(v, op, n) ==
    CASE op = "rollback" -> [v EXCEPT !.current = n]
      [] op = "revoke"   -> [v EXCEPT !.status = "revoked"]
      [] op = "delete"   -> [v EXCEPT !.status = "deleted", !.deleted = TRUE]
      [] op = "evaluate" -> [v EXCEPT !.status = "ready"]

VoiceWrite(r) ==
    LET v == req[r].voice IN
    /\ req[r].op \in VoiceOps
    /\ voice' = Flush(voice, v, Edited(v, req[r].op, req[r].number))
    /\ Answer(r)
    /\ UNCHANGED <<versions, jobs, pc, hand>>

\* Slip: only a queued job stands for a new request.
ExistingQueued(n) == \E j \in Jobs : jobs[j].source = n /\ jobs[j].status = "queued"
Existing(n) ==
    \E j \in Jobs : jobs[j].source = n /\ jobs[j].status \in {"queued", "running"}

OptimizeRead(r, n) ==
    /\ Usable(voice)
    /\ ~Existing(n)
    /\ Ask(r, [NoRequest EXCEPT !.op = "optimize", !.number = n])
    /\ UNCHANGED <<voice, versions, jobs, pc, hand>>

OptimizeWrite(r, j) ==
    /\ req[r].op = "optimize"
    /\ jobs[j] = Absent
    /\ jobs' = [jobs EXCEPT ![j].status = "queued", ![j].source = req[r].number]
    /\ Answer(r)
    /\ UNCHANGED <<voice, versions, pc, hand>>

CancelRead(r, j) ==
    /\ jobs[j].status \in {"queued", "running"}
    /\ Ask(r, [NoRequest EXCEPT !.op = "cancel", !.job = j, !.row = jobs[j]])
    /\ UNCHANGED <<voice, versions, jobs, pc, hand>>

Canceled(row) ==
    LET c == [row EXCEPT !.cancel = TRUE] IN
    IF row.status = "queued" THEN Released(c, "canceled") ELSE c

CancelWrite(r) ==
    /\ req[r].op = "cancel"
    /\ ~Locked(req[r].job)
    /\ CommitJob(req[r].job, req[r].row, Canceled(req[r].row))
    /\ Answer(r)
    /\ UNCHANGED <<voice, versions, pc, hand>>

-----------------------------------------------------------------------------
Init ==
    /\ voice = NewVoice
    /\ versions = <<NoJob>>
    /\ jobs = [j \in Jobs |-> Absent]
    /\ pc = [w \in Workers |-> "idle"]
    /\ hand = [w \in Workers |-> NoHand]
    /\ req = [r \in Requests |-> NoRequest]

WorkerStep(w) ==
    \/ Load(w) \/ LoadCanceled(w) \/ LoadRefused(w) \/ Create(w) \/ RunRaises(w)
    \/ Succeed(w) \/ FailRead(w) \/ FailWrite(w) \/ SweepWrite(w) \/ Crash(w)
    \/ \E j \in Jobs : Claim(w, j) \/ SweepRead(w, j)

ClientStep(r) ==
    \/ SaveRead(r, FALSE) \/ SaveRead(r, TRUE) \/ SaveNumber(r) \/ SaveWrite(r)
    \/ \E n \in 1..Len(versions) :
         OptimizeRead(r, n) \/ \E op \in VoiceOps : VoiceRead(r, op, n)
    \/ VoiceWrite(r)
    \/ \E j \in Jobs : OptimizeWrite(r, j) \/ CancelRead(r, j)
    \/ CancelWrite(r)

Next ==
    \/ \E w \in Workers : WorkerStep(w)
    \/ \E j \in Jobs : LeaseExpires(j)
    \/ \E r \in Requests : ClientStep(r)

Spec == Init /\ [][Next]_vars

-----------------------------------------------------------------------------
TypeOK ==
    /\ voice \in Voice
    /\ versions \in Seq(Jobs \union {NoJob})
    /\ jobs \in [Jobs -> Job]
    /\ pc \in [Workers -> {"idle", "claimed", "loaded", "creating", "failing",
                           "recording", "sweeping"}]
    /\ hand \in [Workers -> [job : Jobs \union {NoJob}, row : Job, voice : Voice]]
    /\ req \in [Requests -> [op : VoiceOps \union {"none", "save", "optimize", "cancel"},
                             job : Jobs \union {NoJob}, row : Job, voice : Voice,
                             number : Nat]]

\* A job makes one version however often it is retried, swept or canceled
\* (voice_optimizer: "Jobs are idempotent [...] and create a new immutable
\* voice version on success").
OneVersionPerJob ==
    \A j \in Jobs : Cardinality({n \in DOMAIN versions : versions[n] = j}) <= 1

\* No more runs than max_attempts, whoever records the failures.
AttemptsBounded == \A j \in Jobs : jobs[j].attempts <= MaxAttempts

\* At most one job of a source version is running or still to run
\* (enqueue_optimization returns the one there is).
Ahead(j) == jobs[j].status = "running" \/ (jobs[j].status = "queued" /\ ~jobs[j].cancel)
OneJobPerSource ==
    \A i, j \in Jobs :
        Ahead(i) /\ Ahead(j) /\ jobs[i].source = jobs[j].source => i = j

\* A job that has ended does not run again: if a failure recorded late puts it
\* back in the queue, then under a cancel, and no claim takes it.
NeverRunAgain ==
    [][\A j \in Jobs : jobs[j].status \in Terminal =>
         jobs'[j].status \in Terminal \/ (jobs'[j].status = "queued" /\ jobs'[j].cancel)]_vars

\* A run that loaded the voice before it was revoked does not make it ready
\* again when it commits; only a passed evaluation does that.
RevocationStands ==
    [][voice.status = "revoked" /\ voice'.status = "ready" =>
         \E r \in Requests : req[r].op = "evaluate" /\ req'[r] = NoRequest]_vars

=============================================================================
