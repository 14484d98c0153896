--------------------------- MODULE WorkerRegistry ---------------------------
(* The worker_heartbeats rows: who writes them (worker.main, process_one,      *)
(* jobs/queue.py heartbeat_worker and deregister_worker) and what readiness    *)
(* and the operations view conclude from them (app.health_ready,               *)
(* app.ops_pipeline).                                                          *)
EXTENDS Naturals, FiniteSets

CONSTANTS Procs,     \* worker processes; each start has a fresh worker id
          RegJobs    \* jobs a worker may hold
VARIABLES proc,      \* process -> [pc, job, stop]
          beat,      \* process -> [row, job, old]: its heartbeat row
          jobsLeft,  \* jobs whose row exists and is not yet claimed
          api        \* the service: dependencies as the readiness check finds them

registryVars == <<proc, beat, jobsLeft, api>>

NoBeat == [row |-> FALSE, job |-> "none", old |-> FALSE]
Beat(job) == [row |-> TRUE, job |-> job, old |-> FALSE]
Deps == [db : BOOLEAN, stamp : {"ok", "none", "mismatch"}, storage : BOOLEAN, provider : BOOLEAN]

RegistryInit ==
    /\ proc = [p \in Procs |-> [pc |-> "off", job |-> "none", stop |-> FALSE]]
    /\ beat = [p \in Procs |-> NoBeat]
    /\ jobsLeft = RegJobs
    /\ api \in Deps

Set(p, pc, job) == proc' = [proc EXCEPT ![p].pc = pc, ![p].job = job]
----------------------------------------------------------------------------
\* main: after the start-up sweep the worker registers its row.
WorkerStart(p) == /\ proc[p].pc = "off" /\ Set(p, "loop", "none")
                  /\ beat' = [beat EXCEPT ![p] = Beat("none")]
                  /\ UNCHANGED <<jobsLeft, api>>
\* process_one: the claim commits first; the heartbeat row names the job in the
\* transaction that starts the run.
WorkerClaim(p) == /\ proc[p].pc = "loop" /\ ~proc[p].stop
                  /\ \E j \in jobsLeft : Set(p, "claimed", j) /\ jobsLeft' = jobsLeft \ {j}
                  /\ UNCHANGED <<beat, api>>
WorkerBeat(p) == /\ proc[p].pc = "claimed" /\ proc' = [proc EXCEPT ![p].pc = "run"]
                 /\ beat' = [beat EXCEPT ![p] = Beat(proc[p].job)]
                 /\ UNCHANGED <<jobsLeft, api>>
\* The job row was deleted in between: the foreign key of current_job_id fails.
BeatFails(p) == /\ proc[p].pc = "claimed" /\ Set(p, "ended", "none")
                /\ UNCHANGED <<beat, jobsLeft, api>>
\* Slip: no finally clause.
RunEndsUncleared(p) == /\ proc[p].pc = "run" /\ Set(p, "loop", "none")
                       /\ UNCHANGED <<beat, jobsLeft, api>>
\* The job ends (done, failed, cancelled or lease lost); the finally clause
\* clears current_job_id in a transaction of its own.
RunEnds(p) == /\ proc[p].pc = "run" /\ Set(p, "ended", "none")
              /\ UNCHANGED <<beat, jobsLeft, api>>
ClearBeat(p) == /\ proc[p].pc = "ended" /\ Set(p, "loop", "none")
                /\ beat' = [beat EXCEPT ![p] = Beat("none")]
                /\ UNCHANGED <<jobsLeft, api>>
\* SIGTERM only sets a flag; the loop ends after the current job and the row is
\* deleted.
Signal(p) == /\ proc[p].pc # "off" /\ ~proc[p].stop
             /\ proc' = [proc EXCEPT ![p].stop = TRUE]
             /\ UNCHANGED <<beat, jobsLeft, api>>
Deregister(p) == /\ proc[p].pc = "loop" /\ proc[p].stop
                 /\ proc' = [proc EXCEPT ![p].pc = "gone", ![p].stop = FALSE]
                 /\ beat' = [beat EXCEPT ![p] = NoBeat]
                 /\ UNCHANGED <<jobsLeft, api>>
\* SIGKILL: the row stays.
WorkerDies(p) == /\ proc[p].pc \notin {"off", "gone", "dead"}
                 /\ Set(p, "dead", "none")
                 /\ UNCHANGED <<beat, jobsLeft, api>>
\* More than 90 seconds pass without a write of the row.
Grow(p) == /\ beat[p].row /\ ~beat[p].old
           /\ beat' = [beat EXCEPT ![p].old = TRUE]
           /\ UNCHANGED <<proc, jobsLeft, api>>
\* Deleting a job row sets current_job_id to NULL (ON DELETE SET NULL).
DeleteHeldJob(j) ==
    /\ \E p \in Procs : beat[p].job = j
    /\ beat' = [p \in Procs |-> IF beat[p].job = j THEN [beat[p] EXCEPT !.job = "none"] ELSE beat[p]]
    /\ UNCHANGED <<proc, jobsLeft, api>>
\* The database, the migration stamp, storage or the providers change.
DependencyChange == /\ \/ \E f \in {"db", "storage", "provider"} : api' = [api EXCEPT ![f] = ~@]
                       \/ \E s \in {"ok", "none", "mismatch"} : api' = [api EXCEPT !.stamp = s]
                    /\ UNCHANGED <<proc, beat, jobsLeft>>

RegistryNext == \/ \E p \in Procs : WorkerStart(p) \/ WorkerClaim(p) \/ WorkerBeat(p) \/ BeatFails(p) \/ RunEnds(p)
                                    \/ ClearBeat(p) \/ Signal(p) \/ Deregister(p) \/ WorkerDies(p)
                                    \/ Grow(p)
                \/ \E j \in RegJobs : DeleteHeldJob(j)
                \/ DependencyChange
RegistrySpec == RegistryInit /\ [][RegistryNext]_registryVars
----------------------------------------------------------------------------
Rows == {p \in Procs : beat[p].row}
\* The latest last_seen decides: "none", "stale" or "ok".
WorkersCheck == IF Rows = {} THEN "none"
                ELSE IF \A p \in Rows : beat[p].old THEN "stale" ELSE "ok"
\* health_ready: database, a wrong migration stamp and storage are hard; stamp
\* missing, workers and providers are soft.
Unready == ~api.db \/ (api.db /\ api.stamp = "mismatch") \/ ~api.storage
Degraded == \/ api.db /\ (api.stamp = "none" \/ WorkersCheck # "ok")
            \/ ~api.provider
Readiness == IF Unready THEN "unready" ELSE IF Degraded THEN "degraded" ELSE "ready"

RegistryTypeOK ==
    /\ \A p \in Procs : proc[p].pc \in {"off", "loop", "claimed", "run", "ended", "gone", "dead"}
    /\ \A p \in Procs : beat[p].row \in BOOLEAN /\ beat[p].job \in RegJobs \cup {"none"}
    /\ Readiness \in {"unready", "degraded", "ready"}

Alive(p) == proc[p].pc \in {"loop", "claimed", "run", "ended"}

\* What an operator reads off the rows: every live worker has one, a worker
\* that stopped cleanly has none, and a row names a job only while its worker
\* runs that job, is about to clear it, or died holding it; when nothing is old
\* the service never blames the workers.
RegistryTruthful ==
    /\ \A p \in Procs : Alive(p) => beat[p].row
    /\ \A p \in Procs : proc[p].pc \in {"off", "gone"} => ~beat[p].row
    /\ \A p \in Procs : beat[p].job # "none" =>
          proc[p].pc \in {"ended", "dead"} \/ (proc[p].pc = "run" /\ proc[p].job = beat[p].job)
    /\ Readiness = "ready" => \E p \in Procs : beat[p].row /\ ~beat[p].old

\* "One row per live worker process. Workers upsert their row every heartbeat":
\* a row reported stale belongs to a worker that is no longer alive.
StaleMeansDead == \A p \in Procs : beat[p].row /\ beat[p].old => ~Alive(p)
=============================================================================
