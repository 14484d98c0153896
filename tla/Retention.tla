----------------------------- MODULE Retention -----------------------------
(* The assets of one job in storage and who removes them: the expiry sweep of  *)
(* every worker (jobs/retention.py), the delete endpoint, and the re-render    *)
(* that writes the same keys again; and what download, stream and manifest     *)
(* requests answer meanwhile (app.py, services/streaming.py).                  *)
EXTENDS Naturals, FiniteSets

CONSTANTS Sweepers,    \* workers whose periodic sweep may run
          DeleteRows,  \* RETENTION_DELETE_ROWS
          RerenderInSweep, \* whether a re-render may be accepted while a sweep
                       \* is between its SELECT and its commit
          MaxRuns      \* bound on the runs of the job
ASSUME RetentionAssumption == {DeleteRows, RerenderInSweep} \subseteq BOOLEAN /\ MaxRuns \in Nat

VARIABLES
    rjob,      \* the row: [status, key, expired, run]; status "gone" once deleted
    chapter,   \* the chapter's row: audio_key is set
    objects,   \* objects in storage: subset of {"book", "chapter", "manifest"}
    bookRun,   \* the run whose export was stored last
    agedRun,   \* the last run whose retention window passed
    renderer,  \* the worker running the job: [pc, key]
    remover,   \* sweeper or "api" -> [pc, key, expired]: its session's view of the row
    lostMid    \* a remover died between deleting the object and its commit

retentionVars == <<rjob, chapter, objects, bookRun, agedRun, renderer, remover, lostMid>>

Removers == Sweepers \cup {"api"}
Terminal == {"succeeded", "failed", "canceled", "needs_review"}
RemoverIdle == [pc |-> "idle", key |-> FALSE, expired |-> FALSE]

RetentionInit ==
    /\ rjob = [status |-> "queued", key |-> FALSE, expired |-> FALSE, run |-> 0]
    /\ chapter = FALSE /\ objects = {} /\ bookRun = 0 /\ agedRun = 0
    /\ renderer = [pc |-> "idle", key |-> FALSE]
    /\ remover = [r \in Removers |-> RemoverIdle]
    /\ lostMid = FALSE

RemoverAt(r, pc) == remover[r].pc = pc
\* An UPDATE or DELETE of the row waits for the transaction that holds its lock.
RowLocked(r) == \E q \in Removers \ {r} : remover[q].pc = "flushed"
Exists == rjob.status # "gone"
----------------------------------------------------------------------------
\* The renderer: claims the job, reloads the row at each heartbeat, uploads the
\* chapter, then book and manifest under their fixed keys, and finishes.  The
\* ORM writes the output key only when the reloaded row did not hold it.
RenderStart ==
    /\ rjob.status = "queued" /\ renderer.pc = "idle" /\ rjob.run < MaxRuns /\ ~RowLocked("none")
    /\ rjob' = [rjob EXCEPT !.status = "running", !.expired = FALSE, !.run = @ + 1]
    /\ renderer' = [pc |-> "running", key |-> rjob.key]
    /\ UNCHANGED <<chapter, objects, bookRun, agedRun, remover, lostMid>>
RenderChapter ==
    /\ renderer.pc = "running" /\ Exists
    /\ objects' = objects \cup {"chapter"} /\ chapter' = TRUE
    /\ renderer' = [pc |-> "chapter", key |-> rjob.key]
    /\ UNCHANGED <<rjob, bookRun, agedRun, remover, lostMid>>
RenderExport ==
    /\ renderer.pc = "chapter"
    /\ objects' = objects \cup {"book", "manifest"} /\ bookRun' = rjob.run
    /\ renderer' = [renderer EXCEPT !.pc = "exported"]
    /\ UNCHANGED <<rjob, chapter, agedRun, remover, lostMid>>
\* Success, or a failed quality gate; StaleDataError when the row is gone.
RenderFinish ==
    /\ renderer.pc = "exported" /\ ~RowLocked("none")
    /\ renderer' = [pc |-> "idle", key |-> FALSE]
    /\ IF Exists
       THEN \E st \in {"succeeded", "needs_review"} :
               rjob' = [rjob EXCEPT !.status = st, !.expired = FALSE,
                                    !.key = IF renderer.key THEN @ ELSE TRUE]
       ELSE UNCHANGED rjob
    /\ UNCHANGED <<chapter, objects, bookRun, agedRun, remover, lostMid>>
RenderFail ==
    /\ renderer.pc # "idle" /\ ~RowLocked("none")
    /\ renderer' = [pc |-> "idle", key |-> FALSE]
    /\ rjob' \in IF Exists THEN {[rjob EXCEPT !.status = st, !.expired = FALSE] : st \in {"failed", "canceled"}}
               ELSE {rjob}
    /\ UNCHANGED <<chapter, objects, bookRun, agedRun, remover, lostMid>>

\* rerender_job and the passing of the retention window of a finished job.
Rerender == /\ rjob.status \in {"succeeded", "needs_review", "failed"}
            /\ ~RowLocked("none")
            /\ RerenderInSweep \/ \A r \in Sweepers : RemoverAt(r, "idle")
            /\ rjob' = [rjob EXCEPT !.status = "queued", !.expired = FALSE]
            /\ UNCHANGED <<chapter, objects, bookRun, agedRun, renderer, remover, lostMid>>
Expire == /\ rjob.status \in Terminal /\ ~rjob.expired
          /\ rjob' = [rjob EXCEPT !.expired = TRUE] /\ agedRun' = rjob.run
          /\ UNCHANGED <<chapter, objects, bookRun, renderer, remover, lostMid>>

\* Slip: every terminal job is due.
SweepAnyTerminal(r) ==
    /\ r # "api" /\ RemoverAt(r, "idle") /\ rjob.status \in Terminal
    /\ remover' = [remover EXCEPT ![r] = [pc |-> "loaded", key |-> rjob.key, expired |-> rjob.expired]]
    /\ UNCHANGED <<rjob, chapter, objects, bookRun, agedRun, renderer, lostMid>>
\* sweep_expired selects the terminal jobs; delete_job loads any job of the
\* caller.  Both then decide on what they loaded.
SweepSelect(r) ==
    /\ r # "api" /\ RemoverAt(r, "idle") /\ rjob.status \in Terminal
    /\ remover' = [remover EXCEPT ![r] = [pc |-> IF rjob.expired THEN "loaded" ELSE "idle",
                                          key |-> rjob.key, expired |-> rjob.expired]]
    /\ UNCHANGED <<rjob, chapter, objects, bookRun, agedRun, renderer, lostMid>>
DeleteLoad ==
    /\ RemoverAt("api", "idle") /\ Exists
    /\ remover' = [remover EXCEPT !["api"] = [pc |-> "loaded", key |-> rjob.key, expired |-> FALSE]]
    /\ UNCHANGED <<rjob, chapter, objects, bookRun, agedRun, renderer, lostMid>>

\* delete_job_assets: the object of every output key the loaded row has (a
\* StorageError is logged and the key cleared all the same) ...
DeleteAssets(r) ==
    /\ RemoverAt(r, "loaded")
    /\ objects' \in IF remover[r].key THEN {objects \ {"book"}, objects} ELSE {objects}
    /\ remover' = [remover EXCEPT ![r].pc = "deleted"]
    /\ UNCHANGED <<rjob, chapter, bookRun, agedRun, renderer, lostMid>>
\* ... then the flush clears the columns and takes the row's lock; a row that
\* is gone raises StaleDataError and the transaction is rolled back.
FlushKeys(r) ==
    /\ RemoverAt(r, "deleted") /\ ~RowLocked(r)
    /\ remover' = [remover EXCEPT ![r] = IF Exists THEN [@ EXCEPT !.pc = "flushed"] ELSE RemoverIdle]
    /\ UNCHANGED <<rjob, chapter, objects, bookRun, agedRun, renderer, lostMid>>
\* Commit: the UPDATE refreshes updated_at.  The delete endpoint, and the sweep
\* with DeleteRows, delete the row and its chapters; chapter audio and manifest
\* stay in storage.
RemoveCommit(r) ==
    /\ RemoverAt(r, "flushed")
    /\ remover' = [remover EXCEPT ![r] = RemoverIdle]
    /\ IF r = "api" \/ DeleteRows
       THEN rjob' = [rjob EXCEPT !.status = "gone", !.key = FALSE, !.expired = FALSE] /\ chapter' = FALSE
       ELSE rjob' = [rjob EXCEPT !.key = IF remover[r].key THEN FALSE ELSE @,
                                 !.expired = IF remover[r].key THEN FALSE ELSE @]
            /\ UNCHANGED chapter
    /\ UNCHANGED <<objects, bookRun, agedRun, renderer, lostMid>>
\* The remover's process dies: the transaction is rolled back, the object is gone.
RemoverDies(r) ==
    /\ remover[r].pc \in {"loaded", "deleted", "flushed"}
    /\ remover' = [remover EXCEPT ![r] = RemoverIdle]
    /\ lostMid' = (lostMid \/ ~RemoverAt(r, "loaded"))
    /\ UNCHANGED <<rjob, chapter, objects, bookRun, agedRun, renderer>>

RetentionNext == \/ RenderStart \/ RenderChapter \/ RenderExport \/ RenderFinish \/ RenderFail
                 \/ Rerender \/ Expire \/ DeleteLoad
                 \/ \E r \in Removers : SweepSelect(r) \/ DeleteAssets(r) \/ FlushKeys(r)
                                        \/ RemoveCommit(r) \/ RemoverDies(r)
RetentionSpec == RetentionInit /\ [][RetentionNext]_retentionVars
----------------------------------------------------------------------------
\* What the endpoints answer in a state.
Download == IF ~Exists THEN 403
            ELSE IF rjob.status \notin {"succeeded", "needs_review"} THEN 409
            ELSE IF rjob.key /\ "book" \in objects THEN 302 ELSE 404
\* Without chapter audio, an unfinished and a finished job are refused alike.
Stream == IF ~Exists THEN 404
          ELSE IF ~chapter THEN 409
          ELSE IF "chapter" \in objects THEN 302 ELSE 500
Manifest == IF rjob.status = "gone" THEN 403 ELSE IF "manifest" \in objects THEN 200 ELSE 404

RetentionTypeOK ==
    /\ rjob.status \in Terminal \cup {"queued", "running", "gone"} /\ rjob.run \in 0..MaxRuns
    /\ objects \subseteq {"book", "chapter", "manifest"} /\ bookRun \in 0..MaxRuns
    /\ \A r \in Removers : remover[r].pc \in {"idle", "loaded", "deleted", "flushed"}

Removing == \E r \in Removers : remover[r].pc \in {"deleted", "flushed"}

\* "Clears the key columns so the row no longer references deleted objects": a
\* finished row with an output key can be downloaded, whatever sweeps and
\* deletes interleave, unless a remover is between the two or died there;
\* chapter audio streams as long as the row has its
\* key, and the manifest of an exported job is there.
KeysResolve ==
    /\ rjob.key /\ ~Removing /\ ~lostMid => Download # 404
    /\ Stream # 500
    /\ bookRun > 0 => Manifest # 404

\* The sweep deletes "assets for terminal jobs past their retention window":
\* the book of a job that finished within the window stays downloadable.
FreshKept == rjob.status = "succeeded" /\ rjob.run = bookRun /\ rjob.run # agedRun
                /\ RemoverAt("api", "idle") /\ ~lostMid => "book" \in objects

\* Removal takes what it should and leaves the rest: keys resolve, and what a
\* job finished within its window made is kept (retention.delete_job_assets,
\* sweep_expired).
AssetsKept == KeysResolve /\ FreshKept
=============================================================================
