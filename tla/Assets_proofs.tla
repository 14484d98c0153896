----------------------------- MODULE Assets_proofs -----------------------------
EXTENDS Retention, FileStore, TLAPS

QuietSweeps == ~RerenderInSweep

\* A job's assets (Retention).  Every loaded row of a remover is either harmless
\* or ends in a row without keys: while a sweep is between its SELECT and its
\* commit the job stays finished and aged, and a delete request only ends with
\* the row gone or the process dead.
RJob == [status : Terminal \union {"queued", "running", "gone"}, key : BOOLEAN,
         expired : BOOLEAN, run : 0..MaxRuns]
Remover == [pc : {"idle", "loaded", "deleted", "flushed"}, key : BOOLEAN, expired : BOOLEAN]
RetentionTyped ==
    /\ rjob \in RJob /\ chapter \in BOOLEAN /\ lostMid \in BOOLEAN
    /\ objects \in SUBSET {"book", "chapter", "manifest"}
    /\ bookRun \in 0..MaxRuns /\ agedRun \in 0..MaxRuns
    /\ renderer \in [pc : {"idle", "running", "chapter", "exported"}, key : BOOLEAN]
    /\ remover \in [Removers -> Remover]

\* r may have deleted the book while the row still has its key.
Unhooking(r) == remover[r].key /\ remover[r].pc \in {"deleted", "flushed"}

RenderOK == /\ renderer.pc # "idle" => rjob.status \in {"running", "gone"}
            /\ bookRun <= rjob.run
            /\ rjob.expired => agedRun = rjob.run
SweepOK == \A r \in Sweepers \ {"api"} : ~RemoverAt(r, "idle") =>
              rjob.status \in Terminal \union {"gone"} /\ agedRun = rjob.run
Hooked == (rjob.key \/ renderer.pc = "exported") /\ Exists /\ ~lostMid
             /\ (\A r \in Removers : ~Unhooking(r)) => "book" \in objects
Fresh == rjob.run = bookRun /\ agedRun # rjob.run /\ Exists /\ ~lostMid
            /\ remover["api"].pc \in {"idle", "loaded"} => "book" \in objects
PermanentOK == /\ chapter => "chapter" \in objects
               /\ bookRun > 0 => "manifest" \in objects
RetentionInv == RetentionTyped /\ RenderOK /\ SweepOK /\ Hooked /\ Fresh /\ PermanentOK
-----------------------------------------------------------------------------
LEMMA JobFields ==
    ASSUME NEW q \in RJob
    PROVE  /\ q.status \in Terminal \union {"queued", "running", "gone"}
           /\ q.key \in BOOLEAN /\ q.expired \in BOOLEAN /\ q.run \in 0..MaxRuns
           /\ q.run \in Nat
  BY RetentionAssumption DEF RJob

\* The row after an update of one column.
LEMMA JobSetStatus ==
    ASSUME NEW q \in RJob, NEW s \in Terminal \union {"queued", "running", "gone"}
    PROVE  LET u == [q EXCEPT !.status = s]
           IN  u \in RJob /\ u.status = s /\ u.key = q.key /\ u.expired = q.expired /\ u.run = q.run
  BY DEF RJob
LEMMA JobSetKey ==
    ASSUME NEW q \in RJob, NEW k \in BOOLEAN
    PROVE  LET u == [q EXCEPT !.key = k]
           IN  u \in RJob /\ u.status = q.status /\ u.key = k /\ u.expired = q.expired /\ u.run = q.run
  BY DEF RJob
LEMMA JobSetExpired ==
    ASSUME NEW q \in RJob, NEW e \in BOOLEAN
    PROVE  LET u == [q EXCEPT !.expired = e]
           IN  u \in RJob /\ u.status = q.status /\ u.key = q.key /\ u.expired = e /\ u.run = q.run
  BY DEF RJob
LEMMA JobSetRun ==
    ASSUME NEW q \in RJob, NEW n \in 0..MaxRuns
    PROVE  LET u == [q EXCEPT !.run = n]
           IN  u \in RJob /\ u.status = q.status /\ u.key = q.key /\ u.expired = q.expired /\ u.run = n
  BY DEF RJob

\* The row that has the columns s, k, e and n: every update of the row is one.
Columns(q, s, k, e, n) == q \in RJob /\ q.status = s /\ q.key = k /\ q.expired = e /\ q.run = n

\* The updates of the row, by the columns they name, in their order.
Expired(q, e) == [q EXCEPT !.expired = e]
Settled(q, s, e) == [q EXCEPT !.status = s, !.expired = e]
Started(q, s, e, n) == [q EXCEPT !.status = s, !.expired = e, !.run = n]
Unkeyed(q, k, e) == [q EXCEPT !.key = k, !.expired = e]
Finished(q, s, k, e) == [q EXCEPT !.status = s, !.expired = e, !.key = k]
Deleted(q, s, k, e) == [q EXCEPT !.status = s, !.key = k, !.expired = e]

LEMMA JobExpired ==
    ASSUME NEW q \in RJob, NEW e \in BOOLEAN
    PROVE  Columns(Expired(q, e), q.status, q.key, e, q.run)
  BY JobSetExpired DEF Columns, Expired
LEMMA JobSettled ==
    ASSUME NEW q \in RJob, NEW s \in Terminal \union {"queued", "running", "gone"}, NEW e \in BOOLEAN
    PROVE  Columns(Settled(q, s, e), s, q.key, e, q.run)
  <1> DEFINE u == [q EXCEPT !.status = s]
  <1>1. Columns(u, s, q.key, q.expired, q.run)
    BY JobSetStatus DEF Columns
  <1>2. Settled(q, s, e) = [u EXCEPT !.expired = e]
    BY DEF Settled
  <1> HIDE DEF u
  <1>3. QED BY <1>1, <1>2, JobSetExpired DEF Columns
LEMMA JobStarted ==
    ASSUME NEW q \in RJob, NEW s \in Terminal \union {"queued", "running", "gone"},
           NEW e \in BOOLEAN, NEW n \in 0..MaxRuns
    PROVE  Columns(Started(q, s, e, n), s, q.key, e, n)
  <1>1. Columns(Settled(q, s, e), s, q.key, e, q.run)
    BY JobSettled
  <1>2. Started(q, s, e, n) = [Settled(q, s, e) EXCEPT !.run = n]
    BY DEF Started, Settled
  <1>3. QED BY <1>1, <1>2, JobSetRun DEF Columns
LEMMA JobUnkeyed ==
    ASSUME NEW q \in RJob, NEW k \in BOOLEAN, NEW e \in BOOLEAN
    PROVE  Columns(Unkeyed(q, k, e), q.status, k, e, q.run)
  <1> DEFINE u == [q EXCEPT !.key = k]
  <1>1. Columns(u, q.status, k, q.expired, q.run)
    BY JobSetKey DEF Columns
  <1>2. Unkeyed(q, k, e) = [u EXCEPT !.expired = e]
    BY DEF Unkeyed
  <1> HIDE DEF u
  <1>3. QED BY <1>1, <1>2, JobSetExpired DEF Columns
LEMMA JobFinished ==
    ASSUME NEW q \in RJob, NEW s \in Terminal \union {"queued", "running", "gone"},
           NEW k \in BOOLEAN, NEW e \in BOOLEAN
    PROVE  Columns(Finished(q, s, k, e), s, k, e, q.run)
  <1>1. Columns(Settled(q, s, e), s, q.key, e, q.run)
    BY JobSettled
  <1>2. Finished(q, s, k, e) = [Settled(q, s, e) EXCEPT !.key = k]
    BY DEF Finished, Settled
  <1>3. QED BY <1>1, <1>2, JobSetKey DEF Columns
LEMMA JobDeleted ==
    ASSUME NEW q \in RJob, NEW s \in Terminal \union {"queued", "running", "gone"},
           NEW k \in BOOLEAN, NEW e \in BOOLEAN
    PROVE  Columns(Deleted(q, s, k, e), s, k, e, q.run)
  <1> DEFINE u == [q EXCEPT !.status = s]
  <1>1. Columns(u, s, q.key, q.expired, q.run)
    BY JobSetStatus DEF Columns
  <1>2. Deleted(q, s, k, e) = Unkeyed(u, k, e)
    BY DEF Deleted, Unkeyed
  <1> HIDE DEF u
  <1>3. QED BY <1>1, <1>2, JobUnkeyed DEF Columns

LEMMA RenderStartRet == ASSUME RetentionInv, RenderStart PROVE RetentionInv'
  <1>1. /\ rjob.status = "queued" /\ renderer.pc = "idle" /\ rjob.run < MaxRuns
        /\ UNCHANGED <<chapter, objects, bookRun, agedRun, remover, lostMid>>
        /\ renderer' = [pc |-> "running", key |-> rjob.key]
        /\ rjob' = [rjob EXCEPT !.status = "running", !.expired = FALSE, !.run = rjob.run + 1]
    BY DEF RenderStart
  <1>2. rjob \in RJob /\ rjob.run \in Nat /\ rjob.run + 1 \in 0..MaxRuns
    <2>1. rjob \in RJob
      BY DEF RetentionInv, RetentionTyped
    <2>2. rjob.run \in 0..MaxRuns /\ rjob.run \in Nat
      BY <2>1, JobFields
    <2>3. QED BY <1>1, <2>1, <2>2, RetentionAssumption
  <1>3. /\ rjob' \in RJob /\ rjob'.status = "running" /\ rjob'.key = rjob.key
        /\ rjob'.expired = FALSE /\ rjob'.run = rjob.run + 1
    <2>1. Columns(rjob', "running", rjob.key, FALSE, rjob.run + 1)
      <3>1. Columns(Started(rjob, "running", FALSE, rjob.run + 1),
                    "running", rjob.key, FALSE, rjob.run + 1)
        BY <1>2, JobStarted
      <3>2. rjob' = Started(rjob, "running", FALSE, rjob.run + 1)
        BY <1>1 DEF Started
      <3>3. QED BY <3>1, <3>2
    <2>2. QED BY <2>1 DEF Columns
  <1>4. RetentionTyped'
    <2>1. rjob.key \in BOOLEAN
      BY <1>2, JobFields
    <2>2. QED BY <1>1, <1>3, <2>1 DEF RetentionInv, RetentionTyped
  <1>5. RenderOK' /\ bookRun < rjob'.run
    BY <1>1, <1>2, <1>3 DEF RetentionInv, RetentionTyped, RenderOK
  <1>6. SweepOK'
    BY <1>1, <1>3 DEF RetentionInv, SweepOK, RemoverAt, Terminal
  <1>7. Hooked'
    BY <1>1, <1>3 DEF RetentionInv, Hooked, Exists, Unhooking
  <1>8. Fresh'
    BY <1>1, <1>5, <1>4 DEF Fresh, RetentionTyped
  <1>9. PermanentOK'
    BY <1>1 DEF RetentionInv, PermanentOK
  <1>10. QED BY <1>4, <1>5, <1>6, <1>7, <1>8, <1>9 DEF RetentionInv

\* What a run stores is only ever added to.
LEMMA RenderWritesRet == ASSUME RetentionInv, RenderChapter \/ RenderExport PROVE RetentionInv'
  <1>1. /\ UNCHANGED <<rjob, agedRun, remover, lostMid>> /\ renderer.pc # "idle"
        /\ renderer'.pc \in {"chapter", "exported"} /\ objects \subseteq objects'
        /\ renderer'.pc = "exported" => "book" \in objects'
        /\ chapter' => chapter \/ "chapter" \in objects'
        /\ bookRun' > 0 => bookRun > 0 \/ "manifest" \in objects'
        /\ bookRun' = bookRun \/ (bookRun' = rjob.run /\ "book" \in objects')
    BY DEF RenderChapter, RenderExport, RetentionInv, RetentionTyped
  <1>2. RetentionTyped'
    <2>1. rjob.run \in 0..MaxRuns /\ rjob.key \in BOOLEAN
      BY JobFields DEF RetentionInv, RetentionTyped
    <2>2. CASE RenderChapter
      <3>1. renderer' \in [pc : {"idle", "running", "chapter", "exported"}, key : BOOLEAN]
        BY <2>1, <2>2 DEF RenderChapter
      <3>2. QED BY <2>2, <3>1 DEF RenderChapter, RetentionInv, RetentionTyped
    <2>3. CASE RenderExport
      <3>1. renderer' \in [pc : {"idle", "running", "chapter", "exported"}, key : BOOLEAN]
        BY <2>3 DEF RenderExport, RetentionInv, RetentionTyped
      <3>2. QED BY <2>1, <2>3, <3>1 DEF RenderExport, RetentionInv, RetentionTyped
    <2>4. QED BY <2>2, <2>3
  <1>3. RenderOK'
    <2>1. rjob.run \in Nat /\ bookRun \in Nat
      BY JobFields DEF RetentionInv, RetentionTyped
    <2>2. QED BY <1>1, <2>1 DEF RetentionInv, RenderOK, RenderChapter, RenderExport, Exists
  <1>4. SweepOK'
    BY <1>1 DEF RetentionInv, SweepOK, RemoverAt
  <1>5. Hooked'
    BY <1>1 DEF RetentionInv, Hooked, Exists, Unhooking
  <1>6. Fresh'
    BY <1>1 DEF RetentionInv, Fresh, Exists
  <1>7. PermanentOK'
    BY <1>1 DEF RetentionInv, PermanentOK
  <1>8. QED BY <1>2, <1>3, <1>4, <1>5, <1>6, <1>7 DEF RetentionInv

\* The run ends and settles the row, if it is still there.
LEMMA RenderEndsRet == ASSUME RetentionInv, RenderFinish \/ RenderFail PROVE RetentionInv'
  <1>1. /\ UNCHANGED <<chapter, objects, bookRun, agedRun, remover, lostMid>>
        /\ renderer.pc # "idle" /\ renderer' = [pc |-> "idle", key |-> FALSE]
        /\ rjob.status \in {"running", "gone"} /\ rjob \in RJob
    BY DEF RenderFinish, RenderFail, RetentionInv, RetentionTyped, RenderOK
  <1>2. /\ rjob' \in RJob /\ rjob'.run = rjob.run /\ (Exists <=> Exists')
        /\ rjob'.key => rjob.key \/ renderer.pc = "exported"
        /\ rjob'.expired => rjob.expired
    <2>1. CASE ~Exists
      BY <1>1, <2>1 DEF RenderFinish, RenderFail, Exists
    <2>2. CASE Exists /\ RenderFinish
      <3> DEFINE k == IF renderer.key THEN rjob.key ELSE TRUE
      <3>1. PICK st \in {"succeeded", "needs_review"} :
               rjob' = [rjob EXCEPT !.status = st, !.expired = FALSE, !.key = k]
        BY <2>2 DEF RenderFinish
      <3>2. k \in BOOLEAN /\ st \in Terminal
        BY <1>1, JobFields DEF Terminal
      <3> HIDE DEF k
      <3>4. /\ rjob' \in RJob /\ rjob'.run = rjob.run /\ rjob'.status = st
            /\ ~rjob'.expired
        <4>1. Columns(rjob', st, k, FALSE, rjob.run)
          <5>1. Columns(Finished(rjob, st, k, FALSE), st, k, FALSE, rjob.run)
            BY <1>1, <3>2, JobFinished
          <5>2. rjob' = Finished(rjob, st, k, FALSE)
            BY <3>1 DEF Finished
          <5>3. QED BY <5>1, <5>2
        <4>2. QED BY <4>1 DEF Columns
      <3>5. QED BY <2>2, <3>4 DEF Exists, RenderFinish
    <2>3. CASE Exists /\ RenderFail
      <3>1. PICK st \in {"failed", "canceled"} :
               rjob' = [rjob EXCEPT !.status = st, !.expired = FALSE]
        BY <2>3 DEF RenderFail
      <3>2. /\ rjob' \in RJob /\ rjob'.run = rjob.run /\ rjob'.status = st
            /\ ~rjob'.expired /\ rjob'.key = rjob.key
        <4>1. st \in Terminal
          BY DEF Terminal
        <4>2. Columns(Settled(rjob, st, FALSE), st, rjob.key, FALSE, rjob.run)
          BY <1>1, <4>1, JobSettled
        <4>3. rjob' = Settled(rjob, st, FALSE)
          BY <3>1 DEF Settled
        <4>4. QED BY <4>1, <4>2, <4>3 DEF Columns
      <3>3. QED BY <2>3, <3>2 DEF Exists
    <2>4. QED BY <2>1, <2>2, <2>3
  <1>3. RetentionTyped'
    BY <1>1, <1>2 DEF RetentionInv, RetentionTyped
  <1>4. RenderOK'
    BY <1>1, <1>2 DEF RetentionInv, RenderOK
  <1>5. SweepOK'
    BY <1>1, <1>2 DEF RetentionInv, SweepOK, RemoverAt, Terminal, Exists
  <1>6. Hooked'
    BY <1>1, <1>2 DEF RetentionInv, Hooked, Unhooking
  <1>7. Fresh'
    BY <1>1, <1>2 DEF RetentionInv, Fresh
  <1>8. PermanentOK'
    BY <1>1 DEF RetentionInv, PermanentOK
  <1>9. QED BY <1>3, <1>4, <1>5, <1>6, <1>7, <1>8 DEF RetentionInv

LEMMA ClientRet == ASSUME QuietSweeps, RetentionInv, Rerender \/ Expire PROVE RetentionInv'
  <1>1. /\ UNCHANGED <<chapter, objects, bookRun, renderer, remover, lostMid>>
        /\ rjob \in RJob /\ rjob.status \in Terminal
        /\ agedRun' = agedRun \/ agedRun' = rjob.run
    BY DEF Rerender, Expire, RetentionInv, RetentionTyped, Terminal
  <1>2. /\ rjob' \in RJob /\ rjob'.run = rjob.run /\ rjob'.key = rjob.key
        /\ rjob'.status # "gone" /\ (rjob'.expired => agedRun' = rjob.run)
        /\ Rerender \/ rjob'.status = rjob.status
    <2>1. CASE Rerender
      <3>1. Columns(Settled(rjob, "queued", FALSE), "queued", rjob.key, FALSE, rjob.run)
        BY <1>1, JobSettled
      <3>2. rjob' = Settled(rjob, "queued", FALSE)
        BY <2>1 DEF Rerender, Settled
      <3>3. QED BY <2>1, <3>1, <3>2 DEF Columns
    <2>2. CASE Expire
      <3>1. Columns(Expired(rjob, TRUE), rjob.status, rjob.key, TRUE, rjob.run)
        BY <1>1, JobExpired
      <3>2. rjob' = Expired(rjob, TRUE) /\ agedRun' = rjob.run
        BY <2>2 DEF Expire, Expired
      <3>3. QED BY <1>1, <3>1, <3>2 DEF Columns, Terminal
    <2>3. QED BY <2>1, <2>2
  <1>3. RetentionTyped'
    <2>1. rjob.run \in 0..MaxRuns
      BY <1>1, JobFields
    <2>2. QED BY <1>1, <1>2, <2>1 DEF RetentionInv, RetentionTyped
  <1>4. RenderOK'
    BY <1>1, <1>2 DEF RetentionInv, RenderOK, Terminal
  <1>5. SweepOK'
    <2>1. CASE Rerender
      BY <1>1, <2>1 DEF Rerender, QuietSweeps, SweepOK, RemoverAt
    <2>2. CASE rjob'.status = rjob.status
      BY <1>1, <1>2, <2>2 DEF RetentionInv, SweepOK, RemoverAt
    <2>3. QED BY <1>2, <2>1, <2>2
  <1>6. Hooked'
    BY <1>1, <1>2 DEF RetentionInv, Hooked, Unhooking, Exists, Terminal
  <1>7. Fresh'
    BY <1>1, <1>2 DEF RetentionInv, Fresh, Exists, Terminal
  <1>8. PermanentOK'
    BY <1>1 DEF RetentionInv, PermanentOK
  <1>9. QED BY <1>3, <1>4, <1>5, <1>6, <1>7, <1>8 DEF RetentionInv

-----------------------------------------------------------------------------
\* The removers.  A session that has decided nothing yet may load the row.
LEMMA LoadRet ==
    ASSUME RetentionInv, DeleteLoad \/ \E r \in Removers : SweepSelect(r)
    PROVE  RetentionInv'
  <1>1. /\ UNCHANGED <<rjob, chapter, objects, bookRun, agedRun, renderer, lostMid>>
        /\ rjob \in RJob
    BY DEF DeleteLoad, SweepSelect, RetentionInv, RetentionTyped
  <1>2. PICK r \in Removers, v \in Remover :
          /\ remover' = [remover EXCEPT ![r] = v] /\ RemoverAt(r, "idle")
          /\ v.pc \in {"idle", "loaded"}
          /\ (r # "api" /\ v.pc = "loaded") => (rjob.status \in Terminal /\ agedRun = rjob.run)
    <2>0. rjob.key \in BOOLEAN /\ rjob.expired \in BOOLEAN
      BY <1>1, JobFields
    <2>1. CASE DeleteLoad
      <3>1. [pc |-> "loaded", key |-> rjob.key, expired |-> FALSE] \in Remover /\ "api" \in Removers
        BY <2>0 DEF Remover, Removers
      <3>2. QED BY <2>1, <3>1 DEF DeleteLoad
    <2>2. ASSUME NEW r \in Removers, SweepSelect(r)
          PROVE  \E v \in Remover :
                   /\ remover' = [remover EXCEPT ![r] = v] /\ RemoverAt(r, "idle")
                   /\ v.pc \in {"idle", "loaded"}
                   /\ v.pc = "loaded" => (rjob.status \in Terminal /\ agedRun = rjob.run)
      <3> DEFINE v == [pc |-> IF rjob.expired THEN "loaded" ELSE "idle",
                       key |-> rjob.key, expired |-> rjob.expired]
      <3>1. v \in Remover
        BY <2>0 DEF Remover
      <3>2. QED BY <2>2, <3>1 DEF SweepSelect, RetentionInv, RenderOK
    <2>3. QED BY <2>1, <2>2
  <1>3. /\ remover'[r] = v /\ \A q \in Removers \ {r} : remover'[q] = remover[q]
        /\ "api" \in Removers /\ Sweepers \subseteq Removers
    BY <1>2 DEF RetentionInv, RetentionTyped, Removers
  <1>4. RetentionTyped'
    BY <1>1, <1>2 DEF RetentionInv, RetentionTyped
  <1>5. RenderOK' /\ PermanentOK'
    BY <1>1 DEF RetentionInv, RenderOK, PermanentOK
  <1>6. SweepOK'
    BY <1>1, <1>2, <1>3 DEF RetentionInv, SweepOK, RemoverAt
  <1>7. \A q \in Removers : Unhooking(q) => Unhooking(q)'
    BY <1>2, <1>3 DEF Unhooking, RemoverAt
  <1>8. Hooked'
    BY <1>1, <1>7 DEF RetentionInv, Hooked, Exists
  <1>9. Fresh'
    BY <1>1, <1>2, <1>3 DEF RetentionInv, Fresh, Exists, RemoverAt
  <1>10. QED BY <1>4, <1>5, <1>6, <1>8, <1>9 DEF RetentionInv

LEMMA DeleteAssetsRet ==
    ASSUME RetentionInv, NEW r \in Removers, DeleteAssets(r)
    PROVE  RetentionInv'
  <1>1. /\ UNCHANGED <<rjob, chapter, bookRun, agedRun, renderer, lostMid>>
        /\ remover[r] \in Remover /\ remover[r].pc = "loaded"
        /\ remover' = [remover EXCEPT ![r] = [remover[r] EXCEPT !.pc = "deleted"]]
        /\ objects' = objects \/ (remover[r].key /\ objects' = objects \ {"book"})
    BY DEF DeleteAssets, RetentionInv, RetentionTyped, RemoverAt
  <1>2. /\ remover'[r] \in Remover /\ remover'[r].pc = "deleted"
        /\ remover'[r].key = remover[r].key
        /\ \A q \in Removers \ {r} : remover'[q] = remover[q]
        /\ "api" \in Removers /\ Sweepers \subseteq Removers
    BY <1>1 DEF RetentionInv, RetentionTyped, Remover, Removers
  <1>3. RetentionTyped'
    BY <1>1, <1>2 DEF RetentionInv, RetentionTyped
  <1>4. RenderOK' /\ PermanentOK'
    BY <1>1 DEF RetentionInv, RenderOK, PermanentOK
  <1>5. SweepOK'
    BY <1>1, <1>2 DEF RetentionInv, SweepOK, RemoverAt
  <1>6. Hooked'
    BY <1>1, <1>2 DEF RetentionInv, Hooked, Exists, Unhooking
  <1>7. Fresh'
    <2>1. CASE r = "api"
      BY <1>2, <2>1 DEF Fresh
    <2>2. CASE r # "api"
      BY <1>1, <1>2, <2>2 DEF RetentionInv, Fresh, Exists, SweepOK, RemoverAt, Removers
    <2>3. QED BY <2>1, <2>2
  <1>8. QED BY <1>3, <1>4, <1>5, <1>6, <1>7 DEF RetentionInv

\* The transaction reaches the row, or finds it gone and is rolled back.
LEMMA FlushKeysRet ==
    ASSUME RetentionInv, NEW r \in Removers, FlushKeys(r)
    PROVE  RetentionInv'
  <1>1. /\ UNCHANGED <<rjob, chapter, objects, bookRun, agedRun, renderer, lostMid>>
        /\ remover[r] \in Remover /\ remover[r].pc = "deleted"
    BY DEF FlushKeys, RetentionInv, RetentionTyped, RemoverAt
  <1>2. PICK v \in Remover :
          /\ remover' = [remover EXCEPT ![r] = v]
          /\ Exists => v.key = remover[r].key /\ v.pc = "flushed"
    <2>1. RemoverIdle \in Remover
      BY DEF RemoverIdle, Remover
    <2>2. /\ [remover[r] EXCEPT !.pc = "flushed"] \in Remover
          /\ [remover[r] EXCEPT !.pc = "flushed"].pc = "flushed"
          /\ [remover[r] EXCEPT !.pc = "flushed"].key = remover[r].key
      BY <1>1 DEF Remover
    <2>3. CASE Exists
      BY <2>2, <2>3 DEF FlushKeys
    <2>4. CASE ~Exists
      BY <2>1, <2>4 DEF FlushKeys
    <2>5. QED BY <2>3, <2>4
  <1>3. /\ remover'[r] = v /\ \A q \in Removers \ {r} : remover'[q] = remover[q]
        /\ "api" \in Removers /\ Sweepers \subseteq Removers
    BY <1>2 DEF RetentionInv, RetentionTyped, Removers
  <1>4. RetentionTyped'
    BY <1>1, <1>2 DEF RetentionInv, RetentionTyped
  <1>5. RenderOK' /\ PermanentOK'
    BY <1>1 DEF RetentionInv, RenderOK, PermanentOK
  <1>6. SweepOK'
    BY <1>1, <1>3 DEF RetentionInv, SweepOK, RemoverAt
  <1>7. Exists => \A q \in Removers : Unhooking(q) => Unhooking(q)'
    BY <1>1, <1>2, <1>3 DEF Unhooking
  <1>8. Hooked'
    BY <1>1, <1>7 DEF RetentionInv, Hooked, Exists
  <1>9. Fresh'
    BY <1>1, <1>2, <1>3 DEF RetentionInv, Fresh, Exists
  <1>10. QED BY <1>4, <1>5, <1>6, <1>8, <1>9 DEF RetentionInv

\* The commit removes the row, or the key of the book the session deleted.
LEMMA RemoveCommitRet ==
    ASSUME RetentionInv, NEW r \in Removers, RemoveCommit(r)
    PROVE  RetentionInv'
  <1>1. /\ UNCHANGED <<objects, bookRun, agedRun, renderer, lostMid>> /\ rjob \in RJob
        /\ remover[r] \in Remover /\ remover[r].pc = "flushed"
        /\ remover' = [remover EXCEPT ![r] = RemoverIdle]
    BY DEF RemoveCommit, RetentionInv, RetentionTyped, RemoverAt
  <1>2. /\ remover'[r].pc = "idle" /\ RemoverIdle \in Remover
        /\ \A q \in Removers \ {r} : remover'[q] = remover[q]
        /\ "api" \in Removers /\ Sweepers \subseteq Removers
    BY <1>1 DEF RetentionInv, RetentionTyped, Removers, RemoverIdle, Remover
  <1>3. CASE r = "api" \/ DeleteRows
    <2>1. rjob' = [rjob EXCEPT !.status = "gone", !.key = FALSE, !.expired = FALSE] /\ chapter' = FALSE
      BY <1>3 DEF RemoveCommit
    <2>2. /\ rjob' \in RJob /\ rjob'.status = "gone" /\ ~rjob'.key /\ ~rjob'.expired
          /\ rjob'.run = rjob.run
      <3>1. Columns(Deleted(rjob, "gone", FALSE, FALSE), "gone", FALSE, FALSE, rjob.run)
        BY <1>1, JobDeleted
      <3>2. rjob' = Deleted(rjob, "gone", FALSE, FALSE)
        BY <2>1 DEF Deleted
      <3>3. QED BY <3>1, <3>2 DEF Columns
    <2>3. RetentionTyped'
      BY <1>1, <1>2, <2>1, <2>2 DEF RetentionInv, RetentionTyped
    <2>4. RenderOK' /\ PermanentOK'
      BY <1>1, <2>1, <2>2 DEF RetentionInv, RenderOK, PermanentOK
    <2>5. SweepOK'
      BY <1>1, <1>2, <2>2 DEF RetentionInv, SweepOK, RemoverAt
    <2>6. Hooked' /\ Fresh'
      BY <2>2 DEF Hooked, Fresh, Exists
    <2>7. QED BY <2>3, <2>4, <2>5, <2>6 DEF RetentionInv
  <1>4. CASE r # "api" /\ ~DeleteRows
    <2> DEFINE k == IF remover[r].key THEN FALSE ELSE rjob.key
               e == IF remover[r].key THEN FALSE ELSE rjob.expired
    <2>1. rjob' = [rjob EXCEPT !.key = k, !.expired = e] /\ chapter' = chapter
      BY <1>4 DEF RemoveCommit
    <2>2. k \in BOOLEAN /\ e \in BOOLEAN
      BY <1>1, JobFields
    <2>3. (remover[r].key => ~k) /\ (~remover[r].key => k = rjob.key) /\ (e => rjob.expired)
      <3>1. rjob.key \in BOOLEAN /\ rjob.expired \in BOOLEAN /\ remover[r].key \in BOOLEAN
        BY <1>1, JobFields DEF Remover
      <3>2. CASE remover[r].key
        BY <3>2
      <3>3. CASE ~remover[r].key
        BY <3>3
      <3>4. QED BY <3>1, <3>2, <3>3
    <2> HIDE DEF k, e
    <2>4. /\ rjob' \in RJob /\ rjob'.status = rjob.status /\ rjob'.key = k
          /\ rjob'.expired = e /\ rjob'.run = rjob.run
      <3>1. Columns(Unkeyed(rjob, k, e), rjob.status, k, e, rjob.run)
        BY <1>1, <2>2, JobUnkeyed
      <3>2. rjob' = Unkeyed(rjob, k, e)
        BY <2>1 DEF Unkeyed
      <3>3. QED BY <3>1, <3>2 DEF Columns
    <2>5. rjob.status \in Terminal \union {"gone"} /\ agedRun = rjob.run
      BY <1>1, <1>4 DEF RetentionInv, SweepOK, RemoverAt, Removers
    <2>6. RetentionTyped'
      BY <1>1, <1>2, <2>1, <2>4 DEF RetentionInv, RetentionTyped
    <2>7. RenderOK' /\ PermanentOK'
      BY <1>1, <2>1, <2>3, <2>4 DEF RetentionInv, RenderOK, PermanentOK
    <2>8. SweepOK'
      BY <1>1, <1>2, <2>4 DEF RetentionInv, SweepOK, RemoverAt
    <2>9. Hooked'
      <3>1. CASE remover[r].key
        BY <1>1, <2>3, <2>4, <2>5, <3>1 DEF RetentionInv, RenderOK, Hooked, Exists, Terminal
      <3>2. CASE ~remover[r].key
        <4>1. \A q \in Removers : Unhooking(q) => Unhooking(q)'
          BY <1>2, <3>2 DEF Unhooking
        <4>2. QED BY <1>1, <2>3, <2>4, <3>2, <4>1 DEF RetentionInv, Hooked, Exists
      <3>3. QED BY <3>1, <3>2
    <2>10. Fresh'
      BY <1>1, <2>4, <2>5 DEF Fresh
    <2>11. QED BY <2>6, <2>7, <2>8, <2>9, <2>10 DEF RetentionInv
  <1>5. QED BY <1>3, <1>4

LEMMA RemoverDiesRet ==
    ASSUME RetentionInv, NEW r \in Removers, RemoverDies(r)
    PROVE  RetentionInv'
  <1>1. /\ UNCHANGED <<rjob, chapter, objects, bookRun, agedRun, renderer>>
        /\ remover[r] \in Remover /\ lostMid' \in BOOLEAN
        /\ remover' = [remover EXCEPT ![r] = RemoverIdle]
        /\ ~lostMid' => ~lostMid /\ remover[r].pc = "loaded"
    BY DEF RemoverDies, RetentionInv, RetentionTyped, RemoverAt
  <1>2. /\ remover'[r].pc = "idle" /\ RemoverIdle \in Remover
        /\ \A q \in Removers \ {r} : remover'[q] = remover[q]
        /\ "api" \in Removers /\ Sweepers \subseteq Removers
    BY <1>1 DEF RetentionInv, RetentionTyped, Removers, RemoverIdle, Remover
  <1>3. RetentionTyped'
    BY <1>1, <1>2 DEF RetentionInv, RetentionTyped
  <1>4. RenderOK' /\ PermanentOK'
    BY <1>1 DEF RetentionInv, RenderOK, PermanentOK
  <1>5. SweepOK'
    BY <1>1, <1>2 DEF RetentionInv, SweepOK, RemoverAt
  <1>6. ~lostMid' => \A q \in Removers : Unhooking(q) => Unhooking(q)'
    BY <1>1, <1>2 DEF Unhooking
  <1>7. Hooked'
    BY <1>1, <1>6 DEF RetentionInv, Hooked, Exists
  <1>8. Fresh'
    BY <1>1, <1>2 DEF RetentionInv, Fresh, Exists
  <1>9. QED BY <1>3, <1>4, <1>5, <1>7, <1>8 DEF RetentionInv

-----------------------------------------------------------------------------
LEMMA InitRet == RetentionInit => RetentionInv
  <1> SUFFICES ASSUME RetentionInit PROVE RetentionInv
    OBVIOUS
  <1>1. /\ rjob = [status |-> "queued", key |-> FALSE, expired |-> FALSE, run |-> 0]
        /\ chapter = FALSE /\ objects = {} /\ bookRun = 0 /\ agedRun = 0
        /\ renderer = [pc |-> "idle", key |-> FALSE] /\ lostMid = FALSE
        /\ remover = [r \in Removers |-> RemoverIdle]
    BY DEF RetentionInit
  <1>2. 0 \in 0..MaxRuns /\ RemoverIdle \in Remover /\ RemoverIdle.pc = "idle"
    BY RetentionAssumption DEF RemoverIdle, Remover
  <1>3. rjob \in RJob
    BY <1>1, <1>2 DEF RJob
  <1>4. RetentionTyped
    BY <1>1, <1>2, <1>3 DEF RetentionTyped
  <1>5. RenderOK /\ PermanentOK
    BY <1>1 DEF RenderOK, PermanentOK
  <1>6. SweepOK
    BY <1>1, <1>2 DEF SweepOK, RemoverAt, Removers
  <1>7. Hooked /\ Fresh
    BY <1>1 DEF Hooked, Fresh
  <1>8. QED BY <1>4, <1>5, <1>6, <1>7 DEF RetentionInv

LEMMA NextRet ==
    ASSUME QuietSweeps, RetentionInv, [RetentionNext]_retentionVars
    PROVE  RetentionInv'
  <1>1. CASE UNCHANGED retentionVars
    BY <1>1 DEF retentionVars, RetentionInv, RetentionTyped, RenderOK, SweepOK, Hooked,
       Fresh, PermanentOK, RemoverAt, Exists, Unhooking
  <1>2. CASE RenderStart \/ RenderChapter \/ RenderExport \/ RenderFinish \/ RenderFail
    BY <1>2, RenderStartRet, RenderWritesRet, RenderEndsRet
  <1>3. CASE Rerender \/ Expire \/ DeleteLoad
    BY <1>3, ClientRet, LoadRet
  <1>4. ASSUME NEW r \in Removers,
               SweepSelect(r) \/ DeleteAssets(r) \/ FlushKeys(r)
                 \/ RemoveCommit(r) \/ RemoverDies(r)
        PROVE  RetentionInv'
    BY <1>4, LoadRet, DeleteAssetsRet, FlushKeysRet, RemoveCommitRet, RemoverDiesRet
  <1>5. QED BY <1>1, <1>2, <1>3, <1>4 DEF RetentionNext

\* While no re-render is accepted inside a sweep, each remover's row is harmless
\* or ends without keys (retention.sweep_expired, delete_job_assets).
THEOREM RetentionInvariant == QuietSweeps => (RetentionSpec => []RetentionInv)
  <1> SUFFICES ASSUME QuietSweeps PROVE RetentionSpec => []RetentionInv
    OBVIOUS
  <1>1. RetentionInv /\ [RetentionNext]_retentionVars => RetentionInv'
    BY NextRet
  <1>2. QED BY <1>1, InitRet, PTL DEF RetentionSpec

\* Whatever sweeps, deletions, re-renders and deaths interleave, a key that is
\* left on a row resolves and the book of a job that is within its window is
\* kept, for any number of sweeping workers (retention.delete_job_assets).
THEOREM AssetsAreKept == QuietSweeps => (RetentionSpec => []AssetsKept)
  <1> SUFFICES ASSUME QuietSweeps PROVE RetentionSpec => []AssetsKept
    OBVIOUS
  <1>1. RetentionInv => AssetsKept
    <2> SUFFICES ASSUME RetentionInv PROVE AssetsKept
      OBVIOUS
    <2>1. rjob.key /\ ~Removing /\ ~lostMid => Download # 404
      <3> SUFFICES ASSUME rjob.key, ~Removing, ~lostMid PROVE Download # 404
        OBVIOUS
      <3>1. Exists => "book" \in objects
        BY DEF RetentionInv, Hooked, Removing, Unhooking
      <3>2. CASE ~Exists
        BY <3>2 DEF Download
      <3>3. CASE Exists
        BY <3>1, <3>3 DEF Download
      <3>4. QED BY <3>2, <3>3
    <2>2. Stream # 500
      <3>1. chapter => "chapter" \in objects
        BY DEF RetentionInv, PermanentOK
      <3>2. QED BY <3>1 DEF Stream
    <2>3. bookRun > 0 => Manifest # 404
      BY DEF RetentionInv, PermanentOK, Manifest
    <2>4. FreshKept
      BY DEF RetentionInv, Fresh, FreshKept, RemoverAt, Exists
    <2>5. QED BY <2>1, <2>2, <2>3, <2>4 DEF AssetsKept, KeysResolve
  <1>2. QED BY <1>1, RetentionInvariant, PTL
-----------------------------------------------------------------------------
\* The file store.  A temporary name points to an inode that is no path's and
\* that only writers of its key have open; with one writer on a key nobody
\* writes to what a path points to, and twins write the same bytes.
WriterRec == [pc : {"idle", "opened", "written", "sending"}, key : FileKeys \union {"none"},
              val : FileValues \union {"none"}, fd : Nat, reply : {"none", "ok", "failed"}]
FileTyped == /\ storeMode \in {"exclusive", "twins", "s3"}
             /\ inodes \in Seq(Seq(FileValues))
             /\ tmpName \in [FileKeys -> Nat] /\ pathName \in [FileKeys -> Nat]
             /\ writers \in [FileWriters -> WriterRec]
NameOK(k) == /\ tmpName[k] \in 0..Len(inodes) /\ pathName[k] \in 0..Len(inodes)
             /\ tmpName[k] # 0 => \A h \in FileKeys : /\ tmpName[k] # pathName[h]
                                                      /\ tmpName[h] = tmpName[k] => h = k
OpenOK(w) == /\ writers[w].key \in FileKeys /\ writers[w].val \in FileValues
             /\ storeMode = "s3" <=> writers[w].pc = "sending"
             /\ storeMode # "s3" => /\ writers[w].fd \in 1..Len(inodes)
                                    /\ \A k \in FileKeys : tmpName[k] = writers[w].fd => k = writers[w].key
AloneOK(w) == /\ tmpName[writers[w].key] = writers[w].fd
              /\ writers[w].pc = "opened" => inodes[writers[w].fd] = <<>>
              /\ writers[w].pc = "written" => inodes[writers[w].fd] = Bytes(writers[w].val)
              /\ \A u \in FileWriters \ {w} : Writing(u) => writers[u].key # writers[w].key
TwinOK(w) == /\ inodes[writers[w].fd] \in {<<>>, Bytes(writers[w].val)}
             /\ \A u \in FileWriters : Writing(u) =>
                  /\ writers[u].fd = writers[w].fd => writers[u].key = writers[w].key
                  /\ writers[u].key = writers[w].key => writers[u].val = writers[w].val
NamesOK == \A k \in FileKeys : NameOK(k)
OpensOK == \A w \in FileWriters : Writing(w) => OpenOK(w)
Alone == storeMode = "exclusive" => \A w \in FileWriters : Writing(w) => AloneOK(w)
PathsWhole == storeMode # "twins" =>
                 \A k \in FileKeys : pathName[k] # 0 => WholeBytes(inodes[pathName[k]])
Twins == storeMode = "twins" /\ ~TwinsCrash =>
            /\ \A n \in 1..Len(inodes) : inodes[n] = <<>> \/ WholeBytes(inodes[n])
            /\ \A w \in FileWriters : Writing(w) => TwinOK(w)
FileInv == FileTyped /\ NamesOK /\ OpensOK /\ Alone /\ PathsWhole /\ Twins
-----------------------------------------------------------------------------
\* One inode is written, all others keep their contents.
Wrote(n, c) == /\ Len(inodes) \in Nat /\ Len(inodes') \in Nat /\ Len(inodes) <= Len(inodes')
               /\ inodes' \in Seq(Seq(FileValues))
               /\ n \in 1..Len(inodes') /\ inodes'[n] = c
               /\ n \in 1..Len(inodes) \/ n = Len(inodes) + 1
               /\ \A i \in 1..Len(inodes) : i # n => inodes'[i] = inodes[i]
               /\ \A i \in 1..Len(inodes') : i \in 1..Len(inodes) \/ i = n
\* One writer goes on to x.
Steps(w, x) == /\ writers' \in [FileWriters -> WriterRec] /\ writers'[w] = x
               /\ \A u \in FileWriters \ {w} : writers'[u] = writers[u]

LEMMA WriterSteps ==
    ASSUME FileTyped, NEW w \in FileWriters, NEW x \in WriterRec,
           writers' = [writers EXCEPT ![w] = x]
    PROVE  Steps(w, x)
  BY DEF FileTyped, Steps

LEMMA InodeAppended ==
    ASSUME FileTyped, NEW c \in Seq(FileValues), inodes' = Append(inodes, c)
    PROVE  Wrote(Len(inodes) + 1, c)
  <1> DEFINE S == Seq(FileValues)
  <1>1. inodes \in Seq(S) /\ c \in S
    BY DEF FileTyped
  <1> HIDE DEF S
  <1>2. /\ inodes' \in Seq(S) /\ Len(inodes') = Len(inodes) + 1 /\ Len(inodes) \in Nat
        /\ inodes'[Len(inodes) + 1] = c
        /\ \A i \in 1..Len(inodes) : inodes'[i] = inodes[i]
    BY <1>1
  <1>3. QED BY <1>2 DEF Wrote, S

LEMMA InodeWritten ==
    ASSUME FileTyped, NEW n \in 1..Len(inodes), NEW c \in Seq(FileValues),
           inodes' = [inodes EXCEPT ![n] = c]
    PROVE  Wrote(n, c)
  <1> DEFINE S == Seq(FileValues)
  <1>1. inodes \in Seq(S) /\ c \in S
    BY DEF FileTyped
  <1> HIDE DEF S
  <1>2. /\ inodes' \in Seq(S) /\ Len(inodes') = Len(inodes) /\ Len(inodes) \in Nat
        /\ inodes'[n] = c
        /\ \A i \in 1..Len(inodes) : i # n => inodes'[i] = inodes[i]
    BY <1>1
  <1>3. QED BY <1>2 DEF Wrote, S

LEMMA BytesFacts ==
    ASSUME NEW v \in FileValues
    PROVE  /\ Bytes(v) \in Seq(FileValues) /\ Len(Bytes(v)) = FileSize[v]
           /\ FileSize[v] \in Nat \ {0} /\ Bytes(v)[1] = v /\ Bytes(v) # <<>> /\ WholeBytes(Bytes(v))
  <1>1. FileSize[v] \in Nat \ {0}
    BY FileAssumption
  <1>2. Bytes(v) \in Seq(FileValues) /\ Len(Bytes(v)) = FileSize[v] /\ Bytes(v)[1] = v
    BY <1>1 DEF Bytes
  <1>3. Bytes(v) # <<>>
    BY <1>1, <1>2
  <1>4. QED BY <1>1, <1>2, <1>3 DEF WholeBytes

LEMMA EmptyContent == <<>> \in Seq(FileValues) /\ Len(<<>>) = 0
  OBVIOUS

LEMMA OverwriteTyped ==
    ASSUME NEW c \in Seq(FileValues), NEW d \in Seq(FileValues)
    PROVE  Overwrite(c, d) \in Seq(FileValues)
  <1> DEFINE m == IF Len(c) > Len(d) THEN Len(c) ELSE Len(d)
  <1>1. m \in Nat
    OBVIOUS
  <1>2. \A i \in 1..m : (IF i <= Len(c) THEN c[i] ELSE d[i]) \in FileValues
    OBVIOUS
  <1>3. Overwrite(c, d) = [i \in 1..m |-> IF i <= Len(c) THEN c[i] ELSE d[i]]
    BY DEF Overwrite
  <1> HIDE DEF m
  <1>4. QED BY <1>1, <1>2, <1>3

\* Over nothing, or over the same bytes, a write leaves exactly its bytes.
LEMMA OverwriteWhole ==
    ASSUME NEW c \in Seq(FileValues)
    PROVE  Overwrite(c, <<>>) = c /\ Overwrite(c, c) = c
  <1>1. c = [i \in 1..Len(c) |-> c[i]] /\ Len(c) \in Nat
    OBVIOUS
  <1>2. Overwrite(c, <<>>) = [i \in 1..Len(c) |-> c[i]]
    <2>1. (IF Len(c) > Len(<<>>) THEN Len(c) ELSE Len(<<>>)) = Len(c)
      BY <1>1, EmptyContent
    <2>2. QED BY <1>1, <2>1 DEF Overwrite
  <1>3. Overwrite(c, c) = [i \in 1..Len(c) |-> c[i]]
    BY <1>1 DEF Overwrite
  <1>4. QED BY <1>1, <1>2, <1>3

LEMMA PrefixTyped ==
    ASSUME NEW c \in Seq(FileValues), NEW n \in 1..Len(c)
    PROVE  SubSeq(c, 1, n) \in Seq(FileValues)
  OBVIOUS

LEMMA FileFacts ==
    ASSUME FileTyped
    PROVE  /\ Len(inodes) \in Nat /\ \A n \in 1..Len(inodes) : inodes[n] \in Seq(FileValues)
           /\ \A w \in FileWriters : writers[w] \in WriterRec
  <1> DEFINE S == Seq(FileValues)
  <1>1. inodes \in Seq(S)
    BY DEF FileTyped
  <1> HIDE DEF S
  <1>2. Len(inodes) \in Nat /\ \A n \in 1..Len(inodes) : inodes[n] \in S
    BY <1>1
  <1>3. QED BY <1>2 DEF FileTyped, S
-----------------------------------------------------------------------------
\* A put begins: the temporary file is truncated or created.
LEMMA PutOpenInv ==
    ASSUME FileInv, NEW w \in FileWriters, NEW k \in FileKeys, NEW v \in FileValues, PutOpen(w, k, v)
    PROVE  FileInv'
  <1> DEFINE fresh == Len(inodes) + 1
             n == IF tmpName[k] = 0 THEN fresh ELSE tmpName[k]
             x == [pc |-> "opened", key |-> k, val |-> v, fd |-> n, reply |-> "none"]
  <1>1. /\ storeMode # "s3" /\ ~Writing(w) /\ UNCHANGED <<storeMode, pathName>>
        /\ inodes' = IF n = fresh THEN Append(inodes, <<>>) ELSE [inodes EXCEPT ![n] = <<>>]
        /\ tmpName' = [tmpName EXCEPT ![k] = n] /\ writers' = [writers EXCEPT ![w] = x]
    BY DEF PutOpen
  <1>2. \A u \in FileWriters : Writing(u) /\ writers[u].key = k =>
           storeMode = "twins" /\ writers[u].val = v
    BY DEF PutOpen
  <1>3. FileTyped /\ NamesOK /\ OpensOK /\ NameOK(k) /\ Len(inodes) \in Nat
    BY FileFacts DEF FileInv, NamesOK
  <1>4. Wrote(n, <<>>)
    <2>1. CASE tmpName[k] = 0
      BY <1>1, <1>3, <2>1, EmptyContent, InodeAppended
    <2>2. CASE tmpName[k] # 0
      <3>1. n \in 1..Len(inodes) /\ n # fresh
        BY <1>3, <2>2 DEF NameOK
      <3>2. QED BY <1>1, <1>3, <3>1, EmptyContent, InodeWritten
    <2>3. QED BY <2>1, <2>2
  <1>5. n \in Nat \ {0}
    BY <1>4 DEF Wrote
  <1>6. n = tmpName[k] \/ n \notin 1..Len(inodes)
    BY <1>3
  <1> HIDE DEF n
  <1>7. x \in WriterRec
    BY <1>5 DEF WriterRec
  <1>8. x.pc = "opened" /\ x.key = k /\ x.val = v /\ x.fd = n
    OBVIOUS
  <1> HIDE DEF x
  <1>9. Steps(w, x)
    BY <1>1, <1>3, <1>7, WriterSteps
  <1>10. /\ tmpName' \in [FileKeys -> Nat] /\ tmpName'[k] = n
         /\ \A h \in FileKeys \ {k} : tmpName'[h] = tmpName[h]
    BY <1>1, <1>3, <1>5 DEF FileTyped
  <1>11. FileTyped'
    BY <1>1, <1>3, <1>4, <1>9, <1>10 DEF FileTyped, Wrote, Steps
  <1>12. \A h \in FileKeys : pathName[h] # n /\ (tmpName[h] = n => h = k)
    <2> TAKE h \in FileKeys
    <2>1. NameOK(h)
      BY <1>3 DEF NamesOK
    <2>2. QED BY <1>3, <1>5, <1>6, <2>1 DEF NameOK
  <1>13. NamesOK'
    <2> SUFFICES ASSUME NEW h \in FileKeys PROVE NameOK(h)'
      BY DEF NamesOK
    <2>1. NameOK(h) /\ Len(inodes) <= Len(inodes') /\ Len(inodes') \in Nat
      BY <1>3, <1>4 DEF NamesOK, Wrote
    <2>2. n \in 0..Len(inodes')
      BY <1>4 DEF Wrote
    <2>3. CASE h = k
      BY <1>1, <1>3, <1>10, <1>12, <2>1, <2>2, <2>3 DEF NameOK
    <2>4. CASE h # k
      BY <1>1, <1>3, <1>10, <1>12, <2>1, <2>4 DEF NameOK
    <2>5. QED BY <2>3, <2>4
  \* Another writer has n open only as a writer of k.
  <1>14. ASSUME NEW u \in FileWriters, u # w, Writing(u)
         PROVE  /\ OpenOK(u) /\ writers[u].fd \in 1..Len(inodes)
                /\ writers[u].fd = n => writers[u].key = k
                /\ writers[u].key = k => (storeMode = "twins" /\ writers[u].val = v)
    <2>1. OpenOK(u)
      BY <1>3, <1>14 DEF OpensOK
    <2>2. QED BY <1>1, <1>2, <1>6, <1>14, <2>1 DEF OpenOK
  <1>15. OpensOK'
    <2> SUFFICES ASSUME NEW u \in FileWriters, Writing(u)' PROVE OpenOK(u)'
      BY DEF OpensOK
    <2>1. CASE u = w
      BY <1>1, <1>4, <1>8, <1>9, <1>10, <1>12, <2>1 DEF OpenOK, Wrote, Steps
    <2>2. CASE u # w
      <3>1. writers'[u] = writers[u] /\ Writing(u)
        BY <1>9, <2>2 DEF Steps, Writing
      <3>2. /\ OpenOK(u) /\ writers[u].fd \in 1..Len(inodes')
            /\ writers[u].fd = n => writers[u].key = k
        BY <1>3, <1>4, <1>14, <2>2, <3>1 DEF Wrote
      <3>3. QED BY <1>1, <1>10, <3>1, <3>2 DEF OpenOK
    <2>3. QED BY <2>1, <2>2
  <1>16. Alone'
    <2> SUFFICES ASSUME storeMode = "exclusive", NEW u \in FileWriters, Writing(u)' PROVE AloneOK(u)'
      BY <1>1 DEF Alone
    <2>0. \A t \in FileWriters \ {w} : /\ writers'[t] = writers[t] /\ (Writing(t)' => Writing(t))
                                       /\ Writing(t) => writers[t].key # k
      BY <1>9, <1>14 DEF Steps, Writing
    <2>1. CASE u = w
      BY <1>4, <1>8, <1>9, <1>10, <2>0, <2>1 DEF AloneOK, Wrote, Steps
    <2>2. CASE u # w
      <3>1. AloneOK(u) /\ OpenOK(u) /\ writers[u].key # k /\ writers[u].fd \in 1..Len(inodes)
        BY <1>14, <2>0, <2>2 DEF FileInv, Alone
      <3>2. writers[u].fd # n
        BY <1>14, <2>0, <2>2, <3>1
      <3>3. inodes'[writers[u].fd] = inodes[writers[u].fd]
        BY <1>4, <3>1, <3>2 DEF Wrote
      <3>4. tmpName'[writers[u].key] = tmpName[writers[u].key]
        BY <1>10, <3>1 DEF OpenOK
      <3>5. QED BY <1>8, <1>9, <2>0, <2>2, <3>1, <3>3, <3>4 DEF AloneOK, Steps
    <2>3. QED BY <2>1, <2>2
  <1>17. PathsWhole'
    <2> SUFFICES ASSUME storeMode # "twins", NEW h \in FileKeys, pathName[h] # 0
                 PROVE  WholeBytes(inodes'[pathName[h]])
      BY <1>1 DEF PathsWhole, WholeBytes, Bytes
    <2>1. WholeBytes(inodes[pathName[h]]) /\ pathName[h] \in 1..Len(inodes) /\ pathName[h] # n
      BY <1>3, <1>12 DEF FileInv, PathsWhole, NamesOK, NameOK
    <2>2. QED BY <1>4, <2>1 DEF Wrote
  <1>18. Twins'
    <2> SUFFICES ASSUME storeMode = "twins", ~TwinsCrash
                 PROVE  /\ \A i \in 1..Len(inodes') : inodes'[i] = <<>> \/ WholeBytes(inodes'[i])
                        /\ \A u \in FileWriters : Writing(u)' => TwinOK(u)'
      BY <1>1 DEF Twins, WholeBytes, Bytes
    <2>1. \A i \in 1..Len(inodes') : inodes'[i] = <<>> \/ WholeBytes(inodes'[i])
      BY <1>4 DEF FileInv, Twins, Wrote
    <2>2. \A t \in FileWriters \ {w} : /\ writers'[t] = writers[t] /\ (Writing(t)' => Writing(t))
                                       /\ Writing(t) => /\ writers[t].fd = n => writers[t].key = k
                                                        /\ writers[t].key = k => writers[t].val = v
      BY <1>9, <1>14 DEF Steps, Writing
    <2> SUFFICES ASSUME NEW u \in FileWriters, Writing(u)' PROVE TwinOK(u)'
      BY <2>1
    <2>3. CASE u = w
      BY <1>4, <1>8, <1>9, <2>2, <2>3 DEF TwinOK, Wrote, Steps
    <2>4. CASE u # w
      <3>1. TwinOK(u) /\ writers[u].fd \in 1..Len(inodes)
        BY <1>14, <2>2, <2>4 DEF FileInv, Twins
      <3>2. inodes'[writers[u].fd] = inodes[writers[u].fd] \/ inodes'[writers[u].fd] = <<>>
        BY <1>4, <3>1 DEF Wrote
      <3>3. inodes'[writers'[u].fd] \in {<<>>, Bytes(writers'[u].val)}
        BY <2>2, <2>4, <3>1, <3>2 DEF TwinOK
      <3>4. ASSUME NEW t \in FileWriters, Writing(t)'
            PROVE  /\ writers'[t].fd = writers'[u].fd => writers'[t].key = writers'[u].key
                   /\ writers'[t].key = writers'[u].key => writers'[t].val = writers'[u].val
        BY <1>8, <1>9, <2>2, <2>4, <3>1, <3>4 DEF TwinOK, Steps
      <3>5. QED BY <3>3, <3>4 DEF TwinOK, Bytes
    <2>5. QED BY <2>3, <2>4
  <1>19. QED BY <1>11, <1>13, <1>15, <1>16, <1>17, <1>18 DEF FileInv
-----------------------------------------------------------------------------
\* A writer writes to the inode it opened and goes on, or is killed.
LEMMA WriteKeeps ==
    ASSUME FileInv, NEW w \in FileWriters, Writing(w), storeMode # "s3",
           NEW x \in WriterRec, NEW c, Wrote(writers[w].fd, c), Steps(w, x),
           UNCHANGED <<storeMode, tmpName, pathName>>,
           storeMode = "twins" /\ ~TwinsCrash => c = Bytes(writers[w].val),
           \/ x.pc = "idle"
           \/ /\ x.pc = "written" /\ (storeMode = "exclusive" => c = Bytes(writers[w].val))
              /\ x.key = writers[w].key /\ x.val = writers[w].val /\ x.fd = writers[w].fd
    PROVE  FileInv'
  <1>1. /\ FileTyped /\ NamesOK /\ OpensOK /\ OpenOK(w) /\ Len(inodes) \in Nat
        /\ storeMode = "exclusive" => AloneOK(w)
        /\ storeMode = "twins" /\ ~TwinsCrash => TwinOK(w)
    BY FileFacts DEF FileInv, OpensOK, Alone, Twins
  <1>2. writers[w].fd \in 1..Len(inodes) /\ Len(inodes') \in Nat /\ Len(inodes) <= Len(inodes')
    BY <1>1 DEF OpenOK, Wrote
  <1>3. FileTyped'
    BY <1>1 DEF FileTyped, Wrote, Steps
  <1>4. NamesOK'
    <2> SUFFICES ASSUME NEW h \in FileKeys PROVE NameOK(h)'
      BY DEF NamesOK
    <2>1. NameOK(h)
      BY <1>1 DEF NamesOK
    <2>2. QED BY <1>1, <1>2, <2>1 DEF NameOK
  <1>5. \A u \in FileWriters \ {w} : writers'[u] = writers[u] /\ (Writing(u)' => Writing(u))
    BY DEF Steps, Writing
  <1>6. OpensOK'
    <2> SUFFICES ASSUME NEW u \in FileWriters, Writing(u)' PROVE OpenOK(u)'
      BY DEF OpensOK
    <2>1. CASE u = w
      <3>1. writers'[u] = x /\ x.pc = "written"
        BY <2>1 DEF Steps, Writing
      <3>2. QED BY <1>1, <1>2, <2>1, <3>1 DEF OpenOK
    <2>2. CASE u # w
      <3>1. OpenOK(u) /\ writers'[u] = writers[u]
        BY <1>1, <1>5, <2>2 DEF OpensOK
      <3>2. QED BY <1>1, <1>2, <3>1 DEF OpenOK
    <2>3. QED BY <2>1, <2>2
  <1>7. Alone'
    <2> SUFFICES ASSUME storeMode = "exclusive", NEW u \in FileWriters, Writing(u)' PROVE AloneOK(u)'
      BY DEF Alone
    <2>0. AloneOK(w) /\ inodes'[writers[w].fd] = c
      BY <1>1 DEF Wrote
    <2>1. CASE u = w
      <3>1. writers'[u] = x /\ x.pc = "written"
        BY <2>1 DEF Steps, Writing
      <3>2. QED BY <1>5, <2>0, <2>1, <3>1 DEF AloneOK, Bytes
    <2>2. CASE u # w
      <3>1. AloneOK(u) /\ OpenOK(u) /\ writers'[u] = writers[u] /\ writers[u].key # writers[w].key
        BY <1>1, <1>5, <2>0, <2>2 DEF FileInv, Alone, OpensOK, AloneOK
      <3>2. writers[u].fd # writers[w].fd /\ writers[u].fd \in 1..Len(inodes)
        BY <1>1, <3>1 DEF AloneOK, OpenOK
      <3>3. inodes'[writers[u].fd] = inodes[writers[u].fd]
        BY <3>2 DEF Wrote
      <3>4. ASSUME NEW t \in FileWriters \ {u}, Writing(t)' PROVE writers'[t].key # writers[u].key
        <4>1. CASE t = w
          <5>1. writers'[w] = x /\ x.pc # "idle"
            BY <3>4, <4>1 DEF Steps, Writing
          <5>2. QED BY <3>1, <4>1, <5>1
        <4>2. CASE t # w
          BY <1>5, <3>1, <3>4, <4>2 DEF AloneOK
        <4>3. QED BY <4>1, <4>2
      <3>5. QED BY <3>1, <3>3, <3>4 DEF AloneOK, Bytes
    <2>3. QED BY <2>1, <2>2
  <1>8. PathsWhole'
    <2> SUFFICES ASSUME storeMode # "twins", NEW h \in FileKeys, pathName[h] # 0
                 PROVE  WholeBytes(inodes'[pathName[h]])
      BY DEF PathsWhole, WholeBytes, Bytes
    <2>1. storeMode = "exclusive" /\ AloneOK(w) /\ NameOK(writers[w].key)
      BY <1>1 DEF FileTyped, NamesOK, OpenOK
    <2>2. /\ WholeBytes(inodes[pathName[h]]) /\ pathName[h] \in 1..Len(inodes)
          /\ pathName[h] # writers[w].fd
      BY <1>1, <1>2, <2>1 DEF FileInv, PathsWhole, NamesOK, NameOK, AloneOK
    <2>3. QED BY <2>2 DEF Wrote
  <1>9. Twins'
    <2> SUFFICES ASSUME storeMode = "twins", ~TwinsCrash
                 PROVE  /\ \A i \in 1..Len(inodes') : inodes'[i] = <<>> \/ WholeBytes(inodes'[i])
                        /\ \A u \in FileWriters : Writing(u)' => TwinOK(u)'
      BY DEF Twins, WholeBytes, Bytes
    <2>1. TwinOK(w) /\ WholeBytes(c) /\ c = Bytes(writers[w].val)
      BY <1>1, BytesFacts DEF OpenOK
    <2>2. \A i \in 1..Len(inodes') : inodes'[i] = <<>> \/ WholeBytes(inodes'[i])
      BY <2>1 DEF FileInv, Twins, Wrote
    <2>3. ASSUME NEW t \in FileWriters, Writing(t)'
          PROVE  /\ Writing(t) /\ writers'[t].fd = writers[t].fd
                 /\ writers'[t].key = writers[t].key /\ writers'[t].val = writers[t].val
      <3>1. CASE t = w
        <4>1. writers'[w] = x /\ x.pc # "idle"
          BY <2>3, <3>1 DEF Steps, Writing
        <4>2. QED BY <3>1, <4>1
      <3>2. CASE t # w
        BY <1>5, <2>3, <3>2
      <3>3. QED BY <3>1, <3>2
    <2> SUFFICES ASSUME NEW u \in FileWriters, Writing(u)' PROVE TwinOK(u)'
      BY <2>2
    <2>4. TwinOK(u) /\ OpenOK(u) /\ Writing(u)
      BY <1>1, <2>3 DEF FileInv, Twins, OpensOK
    <2>5. inodes'[writers[u].fd] \in {<<>>, Bytes(writers[u].val)}
      <3>1. CASE writers[u].fd = writers[w].fd
        <4>1. writers[u].val = writers[w].val
          BY <2>1, <2>4, <3>1 DEF TwinOK
        <4>2. QED BY <2>1, <3>1, <4>1 DEF Wrote
      <3>2. CASE writers[u].fd # writers[w].fd
        <4>1. writers[u].fd \in 1..Len(inodes)
          BY <2>4 DEF OpenOK
        <4>2. QED BY <2>4, <3>2, <4>1 DEF Wrote, TwinOK
      <3>3. QED BY <3>1, <3>2
    <2>6. writers'[u].fd = writers[u].fd /\ writers'[u].key = writers[u].key /\ writers'[u].val = writers[u].val
      BY <2>3
    <2>7. inodes'[writers'[u].fd] \in {<<>>, Bytes(writers'[u].val)}
      BY <2>5, <2>6
    <2>8. ASSUME NEW t \in FileWriters, Writing(t)'
          PROVE  /\ writers'[t].fd = writers'[u].fd => writers'[t].key = writers'[u].key
                 /\ writers'[t].key = writers'[u].key => writers'[t].val = writers'[u].val
      <3>1. /\ Writing(t) /\ writers'[t].fd = writers[t].fd
            /\ writers'[t].key = writers[t].key /\ writers'[t].val = writers[t].val
        BY <2>3, <2>8
      <3>2. QED BY <2>4, <2>6, <3>1 DEF TwinOK
    <2>9. QED BY <2>7, <2>8 DEF TwinOK, Bytes
  <1>10. QED BY <1>3, <1>4, <1>6, <1>7, <1>8, <1>9 DEF FileInv

LEMMA PutWriteInv ==
    ASSUME FileInv, NEW w \in FileWriters, PutWrite(w)
    PROVE  FileInv'
  <1> DEFINE n == writers[w].fd
             b == Bytes(writers[w].val)
             x == [writers[w] EXCEPT !.pc = "written"]
  <1>1. /\ writers[w].pc = "opened" /\ UNCHANGED <<storeMode, tmpName, pathName>>
        /\ inodes' = [inodes EXCEPT ![n] = Overwrite(b, inodes[n])]
        /\ writers' = [writers EXCEPT ![w] = x]
    BY DEF PutWrite
  <1>2. Writing(w) /\ FileTyped /\ OpenOK(w) /\ storeMode # "s3" /\ writers[w] \in WriterRec
    BY <1>1, FileFacts DEF FileInv, OpensOK, Writing, OpenOK
  <1>3. n \in 1..Len(inodes) /\ b \in Seq(FileValues)
    BY <1>2, BytesFacts DEF OpenOK
  <1>4. ASSUME storeMode = "twins" => ~TwinsCrash
        PROVE  Overwrite(b, inodes[n]) = b
    <2>1. inodes[n] \in {<<>>, b}
      <3>1. CASE storeMode = "exclusive"
        BY <1>1, <1>2, <3>1 DEF FileInv, Alone, AloneOK
      <3>2. CASE storeMode = "twins"
        BY <1>2, <1>4, <3>2 DEF FileInv, Twins, TwinOK
      <3>3. QED BY <1>2, <3>1, <3>2 DEF FileTyped
    <2>2. QED BY <1>3, <2>1, OverwriteWhole
  <1>5. Overwrite(b, inodes[n]) \in Seq(FileValues)
    <2>1. inodes[n] \in Seq(FileValues)
      BY <1>2, <1>3, FileFacts
    <2>2. QED BY <1>3, <2>1, OverwriteTyped
  <1>6. /\ x \in WriterRec /\ x.pc = "written"
        /\ x.key = writers[w].key /\ x.val = writers[w].val /\ x.fd = n
    BY <1>2 DEF WriterRec
  <1> HIDE DEF x
  <1>7. Steps(w, x)
    BY <1>1, <1>2, <1>6, WriterSteps
  <1> DEFINE c == Overwrite(b, inodes[n])
  <1>8. storeMode = "exclusive" \/ (storeMode = "twins" /\ ~TwinsCrash) => c = b
    BY <1>4
  <1> HIDE DEF n, b, c
  <1>9. Wrote(n, c)
    BY <1>1, <1>2, <1>3, <1>5, InodeWritten DEF c
  <1>10. QED BY <1>1, <1>2, <1>6, <1>7, <1>8, <1>9, WriteKeeps DEF n, b

LEMMA PutCrashInv ==
    ASSUME FileInv, NEW w \in FileWriters, PutCrash(w)
    PROVE  FileInv'
  <1> DEFINE f == writers[w].fd
             b == Bytes(writers[w].val)
             x == [FileIdle EXCEPT !.reply = "failed"]
  <1>1. /\ Writing(w) /\ storeMode # "s3" /\ ~(storeMode = "twins" /\ ~TwinsCrash)
        /\ UNCHANGED <<storeMode, tmpName, pathName>>
        /\ writers' = [writers EXCEPT ![w] = x]
    BY DEF PutCrash
  <1>2. FileTyped /\ OpenOK(w) /\ Len(inodes) \in Nat
    BY <1>1, FileFacts DEF FileInv, OpensOK
  <1>3. f \in 1..Len(inodes) /\ b \in Seq(FileValues) /\ Len(b) = FileSize[writers[w].val]
    BY <1>1, <1>2, BytesFacts DEF OpenOK
  <1>4. x \in WriterRec /\ x.pc = "idle"
    BY DEF WriterRec, FileIdle
  <1> HIDE DEF x
  <1>5. Steps(w, x)
    BY <1>1, <1>2, <1>4, WriterSteps
  <1>6. inodes[f] \in Seq(FileValues)
    BY <1>2, <1>3, FileFacts
  <1>7. CASE UNCHANGED inodes
    <2>1. Wrote(f, inodes[f])
      BY <1>2, <1>3, <1>7 DEF Wrote, FileTyped
    <2> HIDE DEF f
    <2>2. QED BY <1>1, <1>4, <1>5, <2>1, WriteKeeps DEF f
  <1>8. CASE \E n \in 1..FileSize[writers[w].val] - 1 :
                inodes' = [inodes EXCEPT ![f] = Overwrite(SubSeq(b, 1, n), inodes[f])]
    <2>1. PICK n \in 1..FileSize[writers[w].val] - 1 :
                inodes' = [inodes EXCEPT ![f] = Overwrite(SubSeq(b, 1, n), inodes[f])]
      BY <1>8
    <2> DEFINE c == Overwrite(SubSeq(b, 1, n), inodes[f])
    <2>2. FileSize[writers[w].val] \in Nat
      BY <1>2, FileAssumption DEF OpenOK
    <2>3. n \in 1..Len(b)
      BY <1>3, <2>2
    <2>4. c \in Seq(FileValues)
      <3> HIDE DEF b
      <3>1. SubSeq(b, 1, n) \in Seq(FileValues)
        BY <1>3, <2>3, PrefixTyped
      <3>2. QED BY <1>6, <3>1, OverwriteTyped
    <2> HIDE DEF c, f
    <2>5. Wrote(f, c)
      BY <1>2, <1>3, <2>1, <2>4, InodeWritten DEF c
    <2>6. QED BY <1>1, <1>4, <1>5, <2>5, WriteKeeps DEF f
  <1>9. UNCHANGED inodes \/ \E n \in 1..FileSize[writers[w].val] - 1 :
                inodes' = [inodes EXCEPT ![f] = Overwrite(SubSeq(b, 1, n), inodes[f])]
    BY DEF PutCrash
  <1>10. QED BY <1>7, <1>8, <1>9
-----------------------------------------------------------------------------
\* A path's name is set to n, a writer goes idle or stays; nothing is written.
LEMMA PutReplaceInv ==
    ASSUME FileInv, NEW w \in FileWriters, PutReplace(w)
    PROVE  FileInv'
  <1> DEFINE k == writers[w].key
             n == tmpName[k]
             x == [FileIdle EXCEPT !.reply = IF n # 0 THEN "ok" ELSE "failed"]
  <1>1. /\ writers[w].pc = "written" /\ UNCHANGED <<storeMode, inodes>>
        /\ pathName' = IF n # 0 THEN [pathName EXCEPT ![k] = n] ELSE pathName
        /\ tmpName' = IF n # 0 THEN [tmpName EXCEPT ![k] = 0] ELSE tmpName
        /\ writers' = [writers EXCEPT ![w] = x]
    BY DEF PutReplace, FileIdle
  <1>2. /\ FileTyped /\ NamesOK /\ OpensOK /\ Writing(w) /\ OpenOK(w) /\ k \in FileKeys /\ NameOK(k)
        /\ Len(inodes) \in Nat
    BY <1>1, FileFacts DEF FileInv, OpensOK, NamesOK, Writing, OpenOK
  <1>3. x \in WriterRec /\ x.pc = "idle"
    BY DEF WriterRec, FileIdle
  <1> HIDE DEF x
  <1>4. Steps(w, x)
    BY <1>1, <1>2, <1>3, WriterSteps
  <1>5. \A u \in FileWriters : Writing(u)' => u # w /\ writers'[u] = writers[u] /\ Writing(u)
    BY <1>3, <1>4 DEF Steps, Writing
  <1>6. /\ pathName' \in [FileKeys -> Nat] /\ tmpName' \in [FileKeys -> Nat]
        /\ tmpName'[k] = 0 /\ (n # 0 => pathName'[k] = n) /\ (n = 0 => pathName'[k] = pathName[k])
        /\ \A h \in FileKeys \ {k} : pathName'[h] = pathName[h] /\ tmpName'[h] = tmpName[h]
    BY <1>1, <1>2 DEF FileTyped
  <1>7. FileTyped'
    BY <1>1, <1>2, <1>4, <1>6 DEF FileTyped, Steps
  <1>8. NamesOK'
    <2> SUFFICES ASSUME NEW h \in FileKeys PROVE NameOK(h)'
      BY DEF NamesOK
    <2>1. NameOK(h) /\ NameOK(k)
      BY <1>2 DEF NamesOK
    <2>2. tmpName'[h] \in 0..Len(inodes) /\ pathName'[h] \in 0..Len(inodes)
      BY <1>2, <1>6, <2>1 DEF NameOK
    <2>3. ASSUME tmpName'[h] # 0, NEW g \in FileKeys
          PROVE  tmpName'[h] # pathName'[g] /\ (tmpName'[g] = tmpName'[h] => g = h)
      <3>1. h # k /\ tmpName'[h] = tmpName[h]
        BY <1>6, <2>3
      <3>2. /\ tmpName[h] # pathName[g] /\ (tmpName[g] = tmpName[h] => g = h)
            /\ tmpName[k] # tmpName[h]
        BY <1>2, <2>1, <2>3, <3>1 DEF NameOK
      <3>3. QED BY <1>6, <2>3, <3>1, <3>2
    <2>4. QED BY <1>1, <2>2, <2>3 DEF NameOK
  <1>9. OpensOK'
    <2> SUFFICES ASSUME NEW u \in FileWriters, Writing(u)' PROVE OpenOK(u)'
      BY DEF OpensOK
    <2>1. OpenOK(u) /\ writers'[u] = writers[u]
      BY <1>2, <1>5 DEF OpensOK
    <2>2. \A h \in FileKeys : tmpName'[h] = tmpName[h] \/ tmpName'[h] = 0
      BY <1>6
    <2>3. QED BY <1>1, <2>1, <2>2 DEF OpenOK
  <1>10. Alone'
    <2> SUFFICES ASSUME storeMode = "exclusive", NEW u \in FileWriters, Writing(u)' PROVE AloneOK(u)'
      BY <1>1 DEF Alone
    <2>1. AloneOK(u) /\ AloneOK(w) /\ OpenOK(u) /\ u # w /\ writers'[u] = writers[u] /\ Writing(u)
      BY <1>2, <1>5 DEF FileInv, Alone, OpensOK
    <2>2. writers[u].key # k /\ writers[u].key \in FileKeys
      BY <2>1 DEF AloneOK, OpenOK
    <2>3. tmpName'[writers[u].key] = tmpName[writers[u].key]
      BY <1>6, <2>2
    <2>4. \A t \in FileWriters \ {u} : Writing(t)' => writers'[t].key # writers[u].key
      BY <1>5, <2>1 DEF AloneOK
    <2>5. QED BY <1>1, <2>1, <2>3, <2>4 DEF AloneOK, Bytes
  <1>11. PathsWhole'
    <2> SUFFICES ASSUME storeMode # "twins", NEW h \in FileKeys, pathName'[h] # 0
                 PROVE  WholeBytes(inodes[pathName'[h]])
      BY <1>1 DEF PathsWhole, WholeBytes, Bytes
    <2>1. CASE h = k /\ n # 0
      <3>1. storeMode = "exclusive" /\ AloneOK(w)
        BY <1>1, <1>2 DEF FileInv, FileTyped, Alone, OpenOK
      <3>2. inodes[n] = Bytes(writers[w].val) /\ writers[w].val \in FileValues
        BY <1>1, <1>2, <3>1 DEF AloneOK, OpenOK
      <3>3. QED BY <1>6, <2>1, <3>2, BytesFacts
    <2>2. CASE ~(h = k /\ n # 0)
      BY <1>6, <2>2 DEF FileInv, PathsWhole
    <2>3. QED BY <2>1, <2>2
  <1>12. Twins'
    <2> SUFFICES ASSUME storeMode = "twins", ~TwinsCrash
                 PROVE  /\ \A i \in 1..Len(inodes) : inodes[i] = <<>> \/ WholeBytes(inodes[i])
                        /\ \A u \in FileWriters : Writing(u)' => TwinOK(u)'
      BY <1>1 DEF Twins, WholeBytes, Bytes
    <2>1. \A i \in 1..Len(inodes) : inodes[i] = <<>> \/ WholeBytes(inodes[i])
      BY DEF FileInv, Twins
    <2> SUFFICES ASSUME NEW u \in FileWriters, Writing(u)' PROVE TwinOK(u)'
      BY <2>1
    <2>2. TwinOK(u) /\ writers'[u] = writers[u]
      BY <1>5 DEF FileInv, Twins
    <2>3. \A t \in FileWriters : Writing(t)' => /\ writers'[t].fd = writers[u].fd => writers'[t].key = writers[u].key
                                                /\ writers'[t].key = writers[u].key => writers'[t].val = writers[u].val
      BY <1>5, <2>2 DEF TwinOK
    <2>4. inodes'[writers'[u].fd] \in {<<>>, Bytes(writers'[u].val)}
      BY <1>1, <2>2 DEF TwinOK
    <2>5. QED BY <2>2, <2>3, <2>4 DEF TwinOK, Bytes
  <1>13. QED BY <1>7, <1>8, <1>9, <1>10, <1>11, <1>12 DEF FileInv

\* An object goes to the bucket whole, under a name of its own.
LEMMA S3Inv ==
    ASSUME FileInv, NEW w \in FileWriters,
           \/ S3Put(w) \/ S3Raise(w) \/ \E k \in FileKeys, v \in FileValues : S3Start(w, k, v)
    PROVE  FileInv'
  <1>1. FileTyped /\ NamesOK /\ OpensOK /\ Len(inodes) \in Nat
    BY FileFacts DEF FileInv
  <1>2. storeMode = "s3" /\ storeMode' = storeMode /\ tmpName' = tmpName
    <2>1. Writing(w) => OpenOK(w)
      BY <1>1 DEF OpensOK
    <2>2. QED BY <2>1 DEF S3Put, S3Raise, S3Start, OpenOK, Writing
  <1>3. Alone' /\ Twins'
    BY <1>2 DEF Alone, Twins
  <1>4. CASE S3Put(w)
    <2> DEFINE v == writers[w].val
               n == Len(inodes) + 1
               x == [FileIdle EXCEPT !.reply = "ok"]
    <2>1. /\ writers[w].pc = "sending" /\ inodes' = Append(inodes, Bytes(v))
          /\ pathName' = [pathName EXCEPT ![writers[w].key] = n]
          /\ writers' = [writers EXCEPT ![w] = x]
      BY <1>4 DEF S3Put
    <2>2. v \in FileValues /\ writers[w].key \in FileKeys
      BY <1>1, <2>1 DEF OpensOK, OpenOK, Writing
    <2>3. Wrote(n, Bytes(v)) /\ WholeBytes(Bytes(v))
      BY <1>1, <2>1, <2>2, BytesFacts, InodeAppended
    <2>4. x \in WriterRec /\ x.pc = "idle"
      BY DEF WriterRec, FileIdle
    <2> HIDE DEF x
    <2>5. Steps(w, x)
      BY <1>1, <2>1, <2>4, WriterSteps
    <2>6. /\ pathName' \in [FileKeys -> Nat]
          /\ \A h \in FileKeys : pathName'[h] = pathName[h] \/ pathName'[h] = n
      <3>1. pathName \in [FileKeys -> Nat] /\ n \in Nat
        BY <1>1 DEF FileTyped
      <3> HIDE DEF n
      <3>2. QED BY <2>1, <2>2, <3>1
    <2>7. FileTyped'
      BY <1>1, <1>2, <2>3, <2>5, <2>6 DEF FileTyped, Wrote, Steps
    <2>8. NamesOK'
      <3> SUFFICES ASSUME NEW h \in FileKeys PROVE NameOK(h)'
        BY DEF NamesOK
      <3>1. NameOK(h) /\ \A g \in FileKeys : NameOK(g)
        BY <1>1 DEF NamesOK
      <3>2. Len(inodes) <= Len(inodes') /\ Len(inodes') \in Nat /\ n \in 1..Len(inodes')
        BY <2>3 DEF Wrote
      <3>3. tmpName[h] # n /\ tmpName[h] \in 0..Len(inodes') /\ pathName'[h] \in 0..Len(inodes')
        BY <1>1, <2>6, <3>1, <3>2 DEF NameOK
      <3>4. tmpName[h] # 0 => \A g \in FileKeys : /\ tmpName[h] # pathName'[g]
                                                  /\ tmpName[g] = tmpName[h] => g = h
        BY <2>6, <3>1, <3>3 DEF NameOK
      <3>5. QED BY <1>2, <3>3, <3>4 DEF NameOK
    <2>9. OpensOK'
      BY <1>1, <1>2, <2>4, <2>5 DEF OpensOK, OpenOK, Steps, Writing
    <2>10. PathsWhole'
      <3> SUFFICES ASSUME NEW h \in FileKeys, pathName'[h] # 0
                   PROVE  WholeBytes(inodes'[pathName'[h]])
        BY DEF PathsWhole, WholeBytes, Bytes
      <3>1. CASE pathName'[h] = n
        BY <2>3, <3>1 DEF Wrote
      <3>2. CASE pathName'[h] # n
        <4>1. pathName'[h] = pathName[h] /\ pathName[h] \in 1..Len(inodes)
          BY <1>1, <2>6, <3>2 DEF NamesOK, NameOK
        <4>2. WholeBytes(inodes[pathName[h]])
          BY <1>2, <4>1 DEF FileInv, PathsWhole
        <4>3. QED BY <2>3, <3>2, <4>1, <4>2 DEF Wrote
      <3>3. QED BY <3>1, <3>2
    <2>11. QED BY <1>3, <2>7, <2>8, <2>9, <2>10 DEF FileInv
  <1>5. ASSUME NEW x \in WriterRec, writers' = [writers EXCEPT ![w] = x], UNCHANGED <<inodes, pathName>>,
               x.pc = "idle" \/ (x.pc = "sending" /\ x.key \in FileKeys /\ x.val \in FileValues)
        PROVE  FileInv'
    <2>1. Steps(w, x)
      BY <1>1, <1>5, WriterSteps
    <2>2. FileTyped'
      BY <1>1, <1>2, <1>5, <2>1 DEF FileTyped, Steps
    <2>3. NamesOK' /\ PathsWhole'
      BY <1>1, <1>2, <1>5 DEF FileInv, NamesOK, NameOK, PathsWhole, WholeBytes, Bytes
    <2>4. OpensOK'
      BY <1>1, <1>2, <1>5, <2>1 DEF OpensOK, OpenOK, Steps, Writing
    <2>5. QED BY <1>3, <2>2, <2>3, <2>4 DEF FileInv
  <1>6. CASE S3Raise(w)
    <2> DEFINE x == [FileIdle EXCEPT !.reply = "failed"]
    <2>1. x \in WriterRec /\ x.pc = "idle"
      BY DEF WriterRec, FileIdle
    <2>2. writers' = [writers EXCEPT ![w] = x] /\ UNCHANGED <<inodes, pathName>>
      BY <1>6 DEF S3Raise
    <2> HIDE DEF x
    <2>3. QED BY <1>5, <2>1, <2>2
  <1>7. CASE \E k \in FileKeys, v \in FileValues : S3Start(w, k, v)
    <2>1. PICK k \in FileKeys, v \in FileValues : S3Start(w, k, v)
      BY <1>7
    <2> DEFINE x == [pc |-> "sending", key |-> k, val |-> v, fd |-> 0, reply |-> "none"]
    <2>2. x \in WriterRec /\ x.pc = "sending" /\ x.key \in FileKeys /\ x.val \in FileValues
      BY DEF WriterRec
    <2>3. writers' = [writers EXCEPT ![w] = x] /\ UNCHANGED <<inodes, pathName>>
      BY <2>1 DEF S3Start
    <2> HIDE DEF x
    <2>4. QED BY <1>5, <2>2, <2>3
  <1>8. QED BY <1>4, <1>6, <1>7

LEMMA DeleteKeyInv ==
    ASSUME FileInv, NEW k \in FileKeys, DeleteKey(k)
    PROVE  FileInv'
  <1>1. /\ UNCHANGED <<storeMode, inodes, tmpName, writers>> /\ pathName' = [pathName EXCEPT ![k] = 0]
        /\ FileTyped /\ NamesOK /\ Len(inodes) \in Nat
    BY FileFacts DEF DeleteKey, FileInv
  <1>2. /\ pathName' \in [FileKeys -> Nat]
        /\ \A h \in FileKeys : pathName'[h] = pathName[h] \/ pathName'[h] = 0
    BY <1>1 DEF FileTyped
  <1>3. FileTyped'
    BY <1>1, <1>2 DEF FileTyped
  <1>4. NamesOK'
    BY <1>1, <1>2 DEF NamesOK, NameOK
  <1>5. PathsWhole'
    BY <1>1, <1>2 DEF FileInv, PathsWhole, WholeBytes, Bytes
  <1>6. OpensOK' /\ Alone' /\ Twins'
    <2>1. OpensOK /\ Alone /\ Twins
      BY DEF FileInv
    <2>2. QED BY <1>1, <2>1 DEF OpensOK, OpenOK, Alone, AloneOK, Twins, TwinOK, Writing, WholeBytes, Bytes
  <1>7. QED BY <1>3, <1>4, <1>5, <1>6 DEF FileInv

LEMMA FileQuiet ==
    ASSUME FileInv, UNCHANGED fileVars
    PROVE  FileInv'
  <1>1. FileTyped' /\ NamesOK' /\ OpensOK'
    BY DEF FileInv, FileTyped, NamesOK, NameOK, OpensOK, OpenOK, Writing, fileVars
  <1>2. Alone'
    BY DEF FileInv, Alone, AloneOK, Writing, Bytes, fileVars
  <1>3. PathsWhole'
    BY DEF FileInv, PathsWhole, WholeBytes, Bytes, fileVars
  <1>4. Twins'
    BY DEF FileInv, Twins, TwinOK, Writing, WholeBytes, Bytes, fileVars
  <1>5. QED BY <1>1, <1>2, <1>3, <1>4 DEF FileInv

LEMMA FileInitInv ==
    ASSUME FileInit
    PROVE  FileInv
  <1>1. FileTyped
    BY DEF FileInit, FileTyped, FileIdle, WriterRec
  <1>2. inodes = <<>> /\ Len(inodes) = 0
    BY DEF FileInit
  <1>3. NamesOK /\ PathsWhole
    BY <1>2 DEF FileInit, NamesOK, NameOK, PathsWhole
  <1>4. \A w \in FileWriters : ~Writing(w)
    <2> SUFFICES ASSUME NEW w \in FileWriters PROVE writers[w].pc = "idle"
      BY Zenon DEF Writing
    <2>1. writers[w] = FileIdle
      BY Zenon DEF FileInit
    <2>2. QED BY <2>1 DEF FileIdle
  <1>5. QED BY <1>1, <1>2, <1>3, <1>4 DEF FileInv, OpensOK, Alone, Twins
-----------------------------------------------------------------------------
\* The mapping, one key and one writer at a time.
LEMMA HeldKept ==
    ASSUME storeMode' = storeMode, pathName' = pathName,
           \A h \in FileKeys : Mapped /\ pathName[h] # 0 => inodes'[pathName[h]] = inodes[pathName[h]]
    PROVE  FileHeld' = FileHeld
  <1> DEFINE f(h) == IF Mapped /\ pathName[h] # 0
                     THEN IF WholeBytes(Entry(h)) THEN Entry(h)[1] ELSE "torn"
                     ELSE "absent"
  <1>1. FileHeld = [h \in FileKeys |-> f(h)] /\ FileHeld' = [h \in FileKeys |-> f(h)']
    BY DEF FileHeld
  <1>2. ASSUME NEW h \in FileKeys PROVE f(h)' = f(h)
    <2>1. Mapped' = Mapped /\ pathName'[h] = pathName[h]
      BY DEF Mapped
    <2>2. ASSUME Mapped, pathName[h] # 0 PROVE Entry(h)' = Entry(h)
      BY <2>2 DEF Entry, Content
    <2>3. CASE Mapped /\ pathName[h] # 0
      <3>1. Entry(h)' = Entry(h)
        BY <2>2, <2>3
      <3>2. WholeBytes(Entry(h))' = WholeBytes(Entry(h))
        BY <3>1 DEF WholeBytes, Bytes
      <3>3. QED BY <2>1, <3>1, <3>2
    <2>4. CASE ~(Mapped /\ pathName[h] # 0)
      BY <2>1, <2>4
    <2>5. QED BY <2>3, <2>4
  <1> HIDE DEF f
  <1>3. QED BY <1>1, <1>2

LEMMA HeldSet ==
    ASSUME storeMode # "twins", storeMode' = storeMode, NEW k \in FileKeys, NEW v, NEW n,
           pathName \in [FileKeys -> Nat], pathName' = [pathName EXCEPT ![k] = n],
           \A h \in FileKeys \ {k} : pathName[h] # 0 => inodes'[pathName[h]] = inodes[pathName[h]],
           \/ n = 0 /\ v = "absent"
           \/ n # 0 /\ v \in FileValues /\ inodes'[n] = Bytes(v)
    PROVE  FileHeld' = [FileHeld EXCEPT ![k] = v]
  <1> DEFINE f(h) == IF Mapped /\ pathName[h] # 0
                     THEN IF WholeBytes(Entry(h)) THEN Entry(h)[1] ELSE "torn"
                     ELSE "absent"
  <1>1. FileHeld = [h \in FileKeys |-> f(h)] /\ FileHeld' = [h \in FileKeys |-> f(h)']
    BY DEF FileHeld
  <1>2. Mapped /\ Mapped'
    BY DEF Mapped
  <1>3. ASSUME NEW h \in FileKeys \ {k} PROVE f(h)' = f(h)
    <2>1. pathName'[h] = pathName[h]
      OBVIOUS
    <2>2. CASE pathName[h] # 0
      <3>1. Entry(h)' = Entry(h)
        BY <1>3, <2>1, <2>2 DEF Entry, Content
      <3>2. WholeBytes(Entry(h))' = WholeBytes(Entry(h))
        BY <3>1 DEF WholeBytes, Bytes
      <3>3. QED BY <1>2, <2>1, <3>1, <3>2
    <2>3. CASE pathName[h] = 0
      BY <1>2, <2>1, <2>3
    <2>4. QED BY <2>2, <2>3
  <1>4. f(k)' = v
    <2>1. pathName'[k] = n
      OBVIOUS
    <2>2. CASE n = 0 /\ v = "absent"
      BY <2>1, <2>2
    <2>3. CASE n # 0 /\ v \in FileValues /\ inodes'[n] = Bytes(v)
      <3>1. Entry(k)' = Bytes(v)
        BY <2>1, <2>3 DEF Entry, Content
      <3>2. Bytes(v)[1] = v /\ WholeBytes(Bytes(v))
        BY <2>3, BytesFacts
      <3>3. WholeBytes(Entry(k))'
        BY <3>1, <3>2 DEF WholeBytes, Bytes
      <3>4. Entry(k)'[1] = v
        BY <3>1, <3>2
      <3>5. QED BY <1>2, <2>1, <2>3, <3>3, <3>4
    <2>4. QED BY <2>2, <2>3
  <1> HIDE DEF f
  <1>5. QED BY <1>1, <1>3, <1>4

\* The request a writer's record stands for.
Request(x) == IF x.pc # "idle" THEN <<x.key, x.val>> ELSE <<"none", "none">>

LEMMA WriterMapped ==
    ASSUME storeMode # "twins", storeMode' = storeMode, NEW w \in FileWriters, NEW x, Steps(w, x)
    PROVE  /\ FileAsked' = [FileAsked EXCEPT ![w] = Request(x)]
           /\ FileTold' = [FileTold EXCEPT ![w] = x.reply]
           /\ FileAsked[w] = Request(writers[w]) /\ FileTold[w] = writers[w].reply
           /\ FileAsked = [FileAsked EXCEPT ![w] = FileAsked[w]]
           /\ FileTold = [FileTold EXCEPT ![w] = FileTold[w]]
  <1>1. /\ FileAsked = [u \in FileWriters |-> Request(writers[u])]
        /\ FileTold = [u \in FileWriters |-> writers[u].reply]
    BY DEF FileAsked, FileTold, Mapped, Writing, Request
  <1>2. /\ FileAsked' = [u \in FileWriters |-> Request(writers'[u])]
        /\ FileTold' = [u \in FileWriters |-> writers'[u].reply]
    BY DEF FileAsked, FileTold, Mapped, Writing, Request
  <1>3. writers'[w] = x /\ \A u \in FileWriters \ {w} : writers'[u] = writers[u]
    BY DEF Steps
  <1>4. QED BY <1>1, <1>2, <1>3

LEMMA FileInitMaps ==
    ASSUME FileInit
    PROVE  Store!Init
  <1>1. FileHeld = [k \in FileKeys |-> "absent"]
    BY DEF FileInit, FileHeld
  <1>2. \A w \in FileWriters : writers[w] = FileIdle
    BY Zenon DEF FileInit
  <1>3. FileAsked = [w \in FileWriters |-> <<"none", "none">>]
    BY <1>2 DEF FileAsked, FileIdle, Writing
  <1>4. FileTold = [w \in FileWriters |-> "none"]
    BY <1>2 DEF FileTold, FileIdle
  <1>5. QED BY <1>1, <1>3, <1>4 DEF Store!Init, Store!NoRequest

LEMMA TwinsMap ==
    ASSUME storeMode = "twins", storeMode' = storeMode
    PROVE  UNCHANGED Store!absVars
  BY DEF Store!absVars, FileHeld, FileAsked, FileTold, Mapped
LEMMA PathsKept ==
    ASSUME FileInv, NEW n, NEW c, Wrote(n, c), \A h \in FileKeys : pathName[h] # n
    PROVE  \A h \in FileKeys : pathName[h] # 0 => inodes'[pathName[h]] = inodes[pathName[h]]
  <1> SUFFICES ASSUME NEW h \in FileKeys, pathName[h] # 0
               PROVE  inodes'[pathName[h]] = inodes[pathName[h]]
    OBVIOUS
  <1>1. pathName[h] \in 1..Len(inodes)
    BY FileFacts DEF FileInv, NamesOK, NameOK
  <1>2. QED BY <1>1 DEF Wrote

\* The name of a temporary file that another name's path never is.
LEMMA TemporaryApart ==
    ASSUME FileInv, NEW k \in FileKeys, NEW n,
           (n = tmpName[k] /\ n # 0) \/ n = Len(inodes) + 1
    PROVE  \A h \in FileKeys : pathName[h] # n
  <1>1. \A h \in FileKeys : NameOK(h) /\ NameOK(k)
    BY DEF FileInv, NamesOK
  <1>2. Len(inodes) \in Nat
    BY FileFacts DEF FileInv
  <1>3. QED BY <1>1, <1>2 DEF NameOK

LEMMA PutOpenMaps ==
    ASSUME FileInv, storeMode # "twins", NEW w \in FileWriters, NEW k \in FileKeys,
           NEW v \in FileValues, PutOpen(w, k, v)
    PROVE  Store!Call(w)
  <1> DEFINE fresh == Len(inodes) + 1
             n == IF tmpName[k] = 0 THEN fresh ELSE tmpName[k]
             x == [pc |-> "opened", key |-> k, val |-> v, fd |-> n, reply |-> "none"]
  <1>1. /\ ~Writing(w) /\ UNCHANGED <<storeMode, pathName>>
        /\ inodes' = IF n = fresh THEN Append(inodes, <<>>) ELSE [inodes EXCEPT ![n] = <<>>]
        /\ writers' = [writers EXCEPT ![w] = x]
    BY DEF PutOpen
  <1>2. FileTyped /\ NameOK(k) /\ Len(inodes) \in Nat
    BY FileFacts DEF FileInv, NamesOK
  <1>3. Wrote(n, <<>>)
    <2>1. CASE tmpName[k] = 0
      BY <1>1, <1>2, <2>1, EmptyContent, InodeAppended
    <2>2. CASE tmpName[k] # 0
      <3>1. n \in 1..Len(inodes) /\ n # fresh
        BY <1>2, <2>2 DEF NameOK
      <3>2. QED BY <1>1, <1>2, <3>1, EmptyContent, InodeWritten
    <2>3. QED BY <2>1, <2>2
  <1>4. (n = tmpName[k] /\ n # 0) \/ n = Len(inodes) + 1
    OBVIOUS
  <1>5. n \in Nat
    BY <1>3 DEF Wrote
  <1> HIDE DEF n
  <1>6. \A h \in FileKeys : pathName[h] # 0 => inodes'[pathName[h]] = inodes[pathName[h]]
    <2>1. \A h \in FileKeys : pathName[h] # n
      BY <1>4, TemporaryApart
    <2>2. QED BY <1>3, <2>1, PathsKept
  <1>7. x \in WriterRec /\ Request(x) = <<k, v>> /\ x.reply = "none"
    BY <1>5 DEF WriterRec, Request
  <1> HIDE DEF x
  <1>8. Steps(w, x)
    BY <1>1, <1>2, <1>7, WriterSteps
  <1>9. FileHeld' = FileHeld
    BY <1>1, <1>6, HeldKept
  <1>10. /\ FileAsked' = [FileAsked EXCEPT ![w] = <<k, v>>]
         /\ FileTold' = [FileTold EXCEPT ![w] = "none"]
         /\ FileAsked[w] = Request(writers[w])
    BY <1>1, <1>7, <1>8, WriterMapped
  <1>11. FileAsked[w] = <<"none", "none">>
    BY <1>1, <1>10 DEF Request, Writing
  <1>12. QED BY <1>9, <1>10, <1>11 DEF Store!Call, Store!NoRequest

LEMMA S3StartMaps ==
    ASSUME FileInv, NEW w \in FileWriters, NEW k \in FileKeys, NEW v \in FileValues, S3Start(w, k, v)
    PROVE  Store!Call(w)
  <1> DEFINE x == [pc |-> "sending", key |-> k, val |-> v, fd |-> 0, reply |-> "none"]
  <1>1. /\ storeMode = "s3" /\ ~Writing(w) /\ UNCHANGED <<storeMode, inodes, pathName>>
        /\ writers' = [writers EXCEPT ![w] = x] /\ FileTyped
    BY DEF S3Start, FileInv
  <1>2. x \in WriterRec /\ Request(x) = <<k, v>> /\ x.reply = "none"
    BY DEF WriterRec, Request
  <1> HIDE DEF x
  <1>3. Steps(w, x)
    BY <1>1, <1>2, WriterSteps
  <1>4. FileHeld' = FileHeld
    BY <1>1, HeldKept
  <1>5. /\ FileAsked' = [FileAsked EXCEPT ![w] = <<k, v>>]
        /\ FileTold' = [FileTold EXCEPT ![w] = "none"]
        /\ FileAsked[w] = Request(writers[w])
    BY <1>1, <1>2, <1>3, WriterMapped
  <1>6. FileAsked[w] = <<"none", "none">>
    BY <1>1, <1>5 DEF Request, Writing
  <1>7. QED BY <1>4, <1>5, <1>6 DEF Store!Call, Store!NoRequest

\* A put that ends: the abstract call it had made ends with the same answer.
LEMMA EndMaps ==
    ASSUME FileInv, storeMode # "twins", storeMode' = storeMode, NEW w \in FileWriters, Writing(w),
           NEW r \in {"ok", "failed"}, writers' = [writers EXCEPT ![w] = [FileIdle EXCEPT !.reply = r]]
    PROVE  /\ FileAsked[w] = <<writers[w].key, writers[w].val>> /\ FileAsked[w] # <<"none", "none">>
           /\ FileAsked' = [FileAsked EXCEPT ![w] = <<"none", "none">>]
           /\ FileTold' = [FileTold EXCEPT ![w] = r]
  <1> DEFINE x == [FileIdle EXCEPT !.reply = r]
  <1>1. x \in WriterRec /\ Request(x) = <<"none", "none">> /\ x.reply = r
    BY DEF WriterRec, FileIdle, Request
  <1>2. FileTyped /\ writers[w].key \in FileKeys
    BY DEF FileInv, OpensOK, OpenOK
  <1>3. writers' = [writers EXCEPT ![w] = x]
    OBVIOUS
  <1> HIDE DEF x
  <1>4. Steps(w, x)
    BY <1>1, <1>2, <1>3, WriterSteps
  <1>5. /\ FileAsked' = [FileAsked EXCEPT ![w] = <<"none", "none">>]
        /\ FileTold' = [FileTold EXCEPT ![w] = r]
        /\ FileAsked[w] = Request(writers[w])
    BY <1>1, <1>4, WriterMapped
  <1>6. FileAsked[w] = <<writers[w].key, writers[w].val>>
    BY <1>5 DEF Request, Writing
  <1>7. writers[w].key # "none"
    BY <1>2, FileAssumption
  <1>8. QED BY <1>5, <1>6, <1>7

LEMMA PutWriteMaps ==
    ASSUME FileInv, storeMode # "twins", NEW w \in FileWriters, PutWrite(w)
    PROVE  UNCHANGED Store!absVars
  <1> DEFINE n == writers[w].fd
             b == Bytes(writers[w].val)
             c == Overwrite(b, inodes[n])
             x == [writers[w] EXCEPT !.pc = "written"]
  <1>1. /\ writers[w].pc = "opened" /\ UNCHANGED <<storeMode, tmpName, pathName>>
        /\ inodes' = [inodes EXCEPT ![n] = c]
        /\ writers' = [writers EXCEPT ![w] = x]
    BY DEF PutWrite
  <1>2. /\ Writing(w) /\ FileTyped /\ OpenOK(w) /\ storeMode # "s3" /\ writers[w] \in WriterRec
        /\ Len(inodes) \in Nat
    BY <1>1, FileFacts DEF FileInv, OpensOK, Writing, OpenOK
  <1>3. n \in 1..Len(inodes) /\ b \in Seq(FileValues) /\ n = tmpName[writers[w].key]
    <2>1. storeMode = "exclusive"
      BY <1>2 DEF FileTyped
    <2>2. AloneOK(w)
      BY <1>2, <2>1 DEF FileInv, Alone
    <2>3. QED BY <1>2, <2>2, BytesFacts DEF OpenOK, AloneOK
  <1>4. c \in Seq(FileValues)
    <2>1. inodes[n] \in Seq(FileValues)
      BY <1>2, <1>3, FileFacts
    <2>2. QED BY <1>3, <2>1, OverwriteTyped
  <1>5. x \in WriterRec /\ Request(x) = Request(writers[w]) /\ x.reply = writers[w].reply
    BY <1>1, <1>2 DEF WriterRec, Request
  <1> HIDE DEF x
  <1>6. Steps(w, x)
    BY <1>1, <1>2, <1>5, WriterSteps
  <1> HIDE DEF n, b, c
  <1>7. Wrote(n, c)
    BY <1>1, <1>2, <1>3, <1>4, InodeWritten
  <1>8. n # 0 /\ writers[w].key \in FileKeys
    BY <1>2, <1>3 DEF OpenOK
  <1>9. \A h \in FileKeys : pathName[h] # n
    BY <1>3, <1>8, TemporaryApart
  <1>10. \A h \in FileKeys : pathName[h] # 0 => inodes'[pathName[h]] = inodes[pathName[h]]
    BY <1>7, <1>9, PathsKept
  <1>11. FileHeld' = FileHeld
    BY <1>1, <1>10, HeldKept
  <1>12. FileAsked' = FileAsked /\ FileTold' = FileTold
    BY <1>1, <1>5, <1>6, WriterMapped
  <1>13. QED BY <1>11, <1>12 DEF Store!absVars

LEMMA PutReplaceMaps ==
    ASSUME FileInv, storeMode # "twins", NEW w \in FileWriters, PutReplace(w)
    PROVE  Store!TakeEffect(w)
  <1> DEFINE k == writers[w].key
             n == tmpName[k]
  <1>1. writers[w].pc = "written" /\ UNCHANGED <<storeMode, inodes>>
    BY DEF PutReplace
  <1>2. /\ Writing(w) /\ FileTyped /\ OpenOK(w) /\ storeMode = "exclusive" /\ k \in FileKeys
        /\ writers[w].val \in FileValues
    BY <1>1 DEF FileInv, FileTyped, OpensOK, Writing, OpenOK
  <1>3. n # 0 /\ inodes[n] = Bytes(writers[w].val)
    BY <1>1, <1>2 DEF FileInv, Alone, AloneOK, OpenOK
  <1>4. /\ pathName' = [pathName EXCEPT ![k] = n]
        /\ writers' = [writers EXCEPT ![w] = [FileIdle EXCEPT !.reply = "ok"]]
    BY <1>3 DEF PutReplace
  <1>5. /\ FileAsked[w] = <<k, writers[w].val>> /\ FileAsked[w] # <<"none", "none">>
        /\ FileAsked' = [FileAsked EXCEPT ![w] = <<"none", "none">>]
        /\ FileTold' = [FileTold EXCEPT ![w] = "ok"]
    BY <1>1, <1>2, <1>4, EndMaps
  <1>6. pathName \in [FileKeys -> Nat]
    BY <1>2 DEF FileTyped
  <1>7. FileHeld' = [FileHeld EXCEPT ![k] = writers[w].val]
    <2> HIDE DEF k, n
    <2>1. inodes'[n] = Bytes(writers[w].val)
      BY <1>1, <1>3
    <2>2. QED BY <1>1, <1>2, <1>3, <1>4, <1>6, <2>1, HeldSet
  <1>8. FileAsked[w][1] = k /\ FileAsked[w][2] = writers[w].val
    BY <1>5
  <1> HIDE DEF k
  <1>9. QED BY <1>5, <1>7, <1>8 DEF Store!TakeEffect, Store!NoRequest

LEMMA PutCrashMaps ==
    ASSUME FileInv, storeMode # "twins", NEW w \in FileWriters, PutCrash(w)
    PROVE  Store!Fail(w)
  <1> DEFINE f == writers[w].fd
             b == Bytes(writers[w].val)
  <1>1. /\ Writing(w) /\ storeMode # "s3" /\ UNCHANGED <<storeMode, tmpName, pathName>>
        /\ writers' = [writers EXCEPT ![w] = [FileIdle EXCEPT !.reply = "failed"]]
    BY DEF PutCrash
  <1>2. FileTyped /\ OpenOK(w) /\ Len(inodes) \in Nat /\ storeMode = "exclusive" /\ AloneOK(w)
    BY <1>1, FileFacts DEF FileInv, FileTyped, OpensOK, Alone
  <1>3. /\ f \in 1..Len(inodes) /\ b \in Seq(FileValues) /\ Len(b) = FileSize[writers[w].val]
        /\ f = tmpName[writers[w].key] /\ writers[w].key \in FileKeys
    BY <1>1, <1>2, BytesFacts DEF OpenOK, AloneOK
  <1>4. \A h \in FileKeys : pathName[h] # f
    BY <1>3, TemporaryApart
  <1>5. \A h \in FileKeys : pathName[h] # 0 => inodes'[pathName[h]] = inodes[pathName[h]]
    <2>1. CASE UNCHANGED inodes
      BY <2>1
    <2>2. CASE \E n \in 1..FileSize[writers[w].val] - 1 :
                  inodes' = [inodes EXCEPT ![f] = Overwrite(SubSeq(b, 1, n), inodes[f])]
      <3>1. PICK n \in 1..FileSize[writers[w].val] - 1 :
                  inodes' = [inodes EXCEPT ![f] = Overwrite(SubSeq(b, 1, n), inodes[f])]
        BY <2>2
      <3> DEFINE c == Overwrite(SubSeq(b, 1, n), inodes[f])
      <3>2. n \in 1..Len(b) /\ inodes[f] \in Seq(FileValues)
        BY <1>2, <1>3, FileAssumption, FileFacts DEF OpenOK
      <3>3. c \in Seq(FileValues)
        <4> HIDE DEF b
        <4>1. SubSeq(b, 1, n) \in Seq(FileValues)
          BY <1>3, <3>2, PrefixTyped
        <4>2. QED BY <3>2, <4>1, OverwriteTyped
      <3> HIDE DEF c, f
      <3>4. Wrote(f, c)
        BY <1>2, <1>3, <3>1, <3>3, InodeWritten DEF c
      <3>5. QED BY <1>4, <3>4, PathsKept
    <2>3. UNCHANGED inodes \/ \E n \in 1..FileSize[writers[w].val] - 1 :
                  inodes' = [inodes EXCEPT ![f] = Overwrite(SubSeq(b, 1, n), inodes[f])]
      BY DEF PutCrash
    <2>4. QED BY <2>1, <2>2, <2>3
  <1>6. FileHeld' = FileHeld
    BY <1>1, <1>5, HeldKept
  <1>7. /\ FileAsked[w] # <<"none", "none">>
        /\ FileAsked' = [FileAsked EXCEPT ![w] = <<"none", "none">>]
        /\ FileTold' = [FileTold EXCEPT ![w] = "failed"]
    BY <1>1, EndMaps
  <1>8. QED BY <1>6, <1>7 DEF Store!Fail, Store!NoRequest

LEMMA S3PutMaps ==
    ASSUME FileInv, NEW w \in FileWriters, S3Put(w)
    PROVE  Store!TakeEffect(w)
  <1> DEFINE k == writers[w].key
             v == writers[w].val
             n == Len(inodes) + 1
  <1>1. /\ writers[w].pc = "sending" /\ storeMode' = storeMode /\ inodes' = Append(inodes, Bytes(v))
        /\ pathName' = [pathName EXCEPT ![k] = n]
        /\ writers' = [writers EXCEPT ![w] = [FileIdle EXCEPT !.reply = "ok"]]
    BY DEF S3Put
  <1>2. /\ Writing(w) /\ FileTyped /\ storeMode = "s3" /\ k \in FileKeys /\ v \in FileValues
        /\ Len(inodes) \in Nat
    BY <1>1, FileFacts DEF FileInv, OpensOK, Writing, OpenOK
  <1>3. Wrote(n, Bytes(v))
    BY <1>1, <1>2, BytesFacts, InodeAppended
  <1>4. \A h \in FileKeys : pathName[h] # 0 => inodes'[pathName[h]] = inodes[pathName[h]]
    <2> HIDE DEF k, v
    <2>1. \A h \in FileKeys : pathName[h] # n
      BY <1>2, TemporaryApart
    <2>2. QED BY <1>3, <2>1, PathsKept
  <1>5. /\ FileAsked[w] = <<k, v>> /\ FileAsked[w] # <<"none", "none">>
        /\ FileAsked' = [FileAsked EXCEPT ![w] = <<"none", "none">>]
        /\ FileTold' = [FileTold EXCEPT ![w] = "ok"]
    BY <1>1, <1>2, EndMaps
  <1>6. FileHeld' = [FileHeld EXCEPT ![k] = v]
    <2>1. pathName \in [FileKeys -> Nat] /\ n # 0 /\ inodes'[n] = Bytes(v)
      BY <1>2, <1>3 DEF FileTyped, Wrote
    <2> HIDE DEF k, v, n
    <2>2. QED BY <1>1, <1>2, <1>4, <2>1, HeldSet
  <1>7. FileAsked[w][1] = k /\ FileAsked[w][2] = v
    BY <1>5
  <1> HIDE DEF k, v
  <1>8. QED BY <1>5, <1>6, <1>7 DEF Store!TakeEffect, Store!NoRequest

LEMMA S3RaiseMaps ==
    ASSUME FileInv, NEW w \in FileWriters, S3Raise(w)
    PROVE  Store!Fail(w)
  <1>1. /\ writers[w].pc = "sending" /\ UNCHANGED <<storeMode, inodes, pathName>>
        /\ writers' = [writers EXCEPT ![w] = [FileIdle EXCEPT !.reply = "failed"]]
    BY DEF S3Raise
  <1>2. Writing(w) /\ storeMode = "s3"
    BY <1>1 DEF FileInv, OpensOK, OpenOK, Writing
  <1>3. FileHeld' = FileHeld
    BY <1>1, HeldKept
  <1>4. /\ FileAsked[w] # <<"none", "none">>
        /\ FileAsked' = [FileAsked EXCEPT ![w] = <<"none", "none">>]
        /\ FileTold' = [FileTold EXCEPT ![w] = "failed"]
    BY <1>1, <1>2, EndMaps
  <1>5. QED BY <1>3, <1>4 DEF Store!Fail, Store!NoRequest

LEMMA DeleteKeyMaps ==
    ASSUME FileInv, storeMode # "twins", NEW k \in FileKeys, DeleteKey(k)
    PROVE  Store!Remove(k)
  <1>1. /\ UNCHANGED <<storeMode, inodes, writers>> /\ pathName' = [pathName EXCEPT ![k] = 0]
        /\ pathName \in [FileKeys -> Nat]
    BY DEF DeleteKey, FileInv, FileTyped
  <1>2. FileHeld' = [FileHeld EXCEPT ![k] = "absent"]
    BY <1>1, HeldSet
  <1>3. FileAsked' = FileAsked /\ FileTold' = FileTold
    BY <1>1 DEF FileAsked, FileTold, Mapped, Writing
  <1>4. QED BY <1>2, <1>3 DEF Store!Remove
-----------------------------------------------------------------------------
LEMMA FileNextInv ==
    ASSUME FileInv, [FileNext]_fileVars
    PROVE  FileInv'
  <1>1. CASE FileNext
    <2>1. ASSUME NEW w \in FileWriters, NEW k \in FileKeys, NEW v \in FileValues,
                 PutOpen(w, k, v) \/ S3Start(w, k, v)
          PROVE  FileInv'
      BY <2>1, PutOpenInv, S3Inv
    <2>2. ASSUME NEW w \in FileWriters,
                 PutWrite(w) \/ PutReplace(w) \/ PutCrash(w) \/ S3Put(w) \/ S3Raise(w)
          PROVE  FileInv'
      BY <2>2, PutWriteInv, PutReplaceInv, PutCrashInv, S3Inv
    <2>3. ASSUME NEW k \in FileKeys, DeleteKey(k) PROVE FileInv'
      BY <2>3, DeleteKeyInv
    <2>4. QED BY <1>1, <2>1, <2>2, <2>3 DEF FileNext
  <1>2. CASE UNCHANGED fileVars
    BY <1>2, FileQuiet
  <1>3. QED BY <1>1, <1>2

LEMMA FileNextMaps ==
    ASSUME FileInv, [FileNext]_fileVars
    PROVE  [Store!Next]_Store!absVars
  <1>1. storeMode' = storeMode
    BY DEF FileNext, fileVars, PutOpen, PutWrite, PutReplace, PutCrash, S3Start, S3Put, S3Raise, DeleteKey
  <1>2. CASE storeMode = "twins"
    BY <1>1, <1>2, TwinsMap
  <1>3. CASE storeMode # "twins" /\ FileNext
    <2>1. ASSUME NEW w \in FileWriters, NEW k \in FileKeys, NEW v \in FileValues,
                 PutOpen(w, k, v) \/ S3Start(w, k, v)
          PROVE  Store!Next
      <3>1. Store!Call(w)
        BY <1>3, <2>1, PutOpenMaps, S3StartMaps
      <3>2. QED BY <3>1 DEF Store!Next
    <2>2. ASSUME NEW w \in FileWriters,
                 PutWrite(w) \/ PutReplace(w) \/ PutCrash(w) \/ S3Put(w) \/ S3Raise(w)
          PROVE  [Store!Next]_Store!absVars
      <3>1. UNCHANGED Store!absVars \/ Store!TakeEffect(w) \/ Store!Fail(w)
        BY <1>3, <2>2, PutWriteMaps, PutReplaceMaps, PutCrashMaps, S3PutMaps, S3RaiseMaps
      <3>2. QED BY <3>1 DEF Store!Next
    <2>3. ASSUME NEW k \in FileKeys, DeleteKey(k) PROVE Store!Next
      <3>1. Store!Remove(k)
        BY <1>3, <2>3, DeleteKeyMaps
      <3>2. QED BY <3>1 DEF Store!Next
    <2>4. QED BY <1>3, <2>1, <2>2, <2>3 DEF FileNext
  <1>4. CASE UNCHANGED fileVars
    <2>1. /\ pathName' = pathName /\ inodes' = inodes /\ writers' = writers
      BY <1>4 DEF fileVars
    <2>2. FileHeld' = FileHeld
      BY <1>1, <2>1, HeldKept
    <2>3. FileAsked' = FileAsked /\ FileTold' = FileTold
      BY <1>1, <2>1 DEF FileAsked, FileTold, Mapped, Writing
    <2>4. QED BY <2>2, <2>3 DEF Store!absVars
  <1>5. QED BY <1>2, <1>3, <1>4

LEMMA FileInvServes ==
    ASSUME FileInv, ~TwinsCrash
    PROVE  ServedWhole
  <1> SUFFICES ASSUME NEW k \in FileKeys, CacheHit(k) PROVE WholeBytes(Entry(k))
    BY DEF ServedWhole
  <1>1. pathName[k] # 0 /\ Entry(k) = inodes[pathName[k]] /\ Entry(k) # <<>>
    BY DEF CacheHit, Entry, Content
  <1>2. pathName[k] \in 1..Len(inodes)
    BY <1>1, FileFacts DEF FileInv, NamesOK, NameOK
  <1>3. QED BY <1>1, <1>2 DEF FileInv, PathsWhole, Twins

\* A temporary name's file is no path's; with one writer on a key no writer has
\* the file of a path open, and twins only ever write the same bytes to it
\* (LocalStorage.put_bytes, SynthesisCache.put).
THEOREM FileInvariant == FileSpec => []FileInv
  <1>1. FileInit => FileInv
    BY FileInitInv
  <1>2. FileInv /\ [FileNext]_fileVars => FileInv'
    BY FileNextInv
  <1>3. QED BY <1>1, <1>2, PTL DEF FileSpec

\* Temporary file and rename implement the promise of a storage backend: a put
\* takes effect at once and whole, or not at all (LocalStorage, S3Storage,
\* SynthesisCache.put), wherever its process is killed.
THEOREM PutsAreWhole == FileSpec => PutsAreAtomic
  <1>1. FileInit => Store!Init
    BY FileInitMaps
  <1>2. FileInv /\ [FileNext]_fileVars => [Store!Next]_Store!absVars
    BY FileNextMaps
  <1>3. QED BY <1>1, <1>2, FileInvariant, PTL DEF FileSpec, PutsAreAtomic, Store!Spec

\* And with two workers putting the same chunk the cache serves whole entries
\* only, as long as neither is killed.
THEOREM FilesAreSound == ~TwinsCrash => (FileSpec => FilesSound)
  <1> SUFFICES ASSUME ~TwinsCrash PROVE FileSpec => FilesSound
    OBVIOUS
  <1>1. FileInv => ServedWhole
    BY FileInvServes
  <1>2. QED BY <1>1, FileInvariant, PutsAreWhole, PTL DEF FilesSound
==============================================================================
