------------------------ MODULE VoiceVersions_proofs ------------------------
(***************************************************************************)
(* Proofs about VoiceVersions, for every number of workers, requests and   *)
(* jobs, in an environment where the sweeps of the workers do not overlap  *)
(* and no run outlasts its lease.                                          *)
(***************************************************************************)
EXTENDS VoiceVersions, FiniteSetTheorems, TLAPS

\* What the environment has to give for a job to stay with its worker.
Calm == SerialSweeps /\ ~SlowRuns

Busy(w) == pc[w] # "idle"

\* A run has its job until a client that loaded it in the queue cancels it:
\* then the row says canceled and the flag is set.  No sweep may take it.
Held(j) ==
    /\ jobs[j].lock # "expired"
    /\ jobs[j].status = "running" \/ (jobs[j].status = "canceled" /\ jobs[j].cancel)

WorkerOK(w) ==
    /\ Busy(w) => Mine(w) \in Jobs
    /\ pc[w] \in Running => Held(Mine(w))
    /\ pc[w] \in {"loaded", "creating"} =>
         /\ hand[w].voice.status = "ready"
         /\ ~hand[w].voice.deleted
         /\ hand[w].row.status = "running"
    /\ pc[w] = "recording" =>
         \/ hand[w].row.status = "running"
         \/ /\ hand[w].row.status = "canceled"
            /\ hand[w].row.cancel
            /\ jobs[Mine(w)].status = "canceled"
    /\ pc[w] = "sweeping" =>
         /\ jobs[Mine(w)].status = "running"
         /\ jobs[Mine(w)].lock = "expired"
         /\ hand[w].row.status = "running"
    /\ pc[w] \in {"recording", "sweeping"} =>
         /\ hand[w].row.attempts = jobs[Mine(w)].attempts
         /\ hand[w].row.cancel => jobs[Mine(w)].cancel

\* No two workers have the same job in hand, to run or to sweep.
Exclusive ==
    \A v, w \in Workers : Busy(v) /\ Busy(w) /\ Mine(v) = Mine(w) => v = w

RequestOK(r) ==
    /\ req[r].op = "cancel" =>
         /\ req[r].job \in Jobs
         /\ req[r].row.status \in {"queued", "running"}
         /\ (jobs[req[r].job].status = "running" /\ jobs[req[r].job].lock = "expired")
              => req[r].row.status = "running"
         /\ req[r].row.cancel => jobs[req[r].job].cancel
    /\ req[r].voice.status # "deleted"
    /\ ~req[r].voice.deleted

Made(j) == \E n \in DOMAIN versions : versions[n] = j

\* A job that made its version has ended and is in nobody's hand.
JobOK(j) ==
    /\ jobs[j].attempts <= MaxAttempts
    /\ jobs[j].status = "queued" /\ ~jobs[j].cancel => jobs[j].attempts < MaxAttempts
    /\ Made(j) => /\ jobs[j].status \in {"succeeded", "canceled"}
                  /\ \A w \in Workers : Busy(w) => Mine(w) # j

Unique ==
    \A m, n \in DOMAIN versions :
        versions[m] = versions[n] /\ versions[m] # NoJob => m = n

VoiceInv ==
    /\ TypeOK
    /\ voice.status = "deleted" => voice.deleted
    /\ Exclusive
    /\ Unique
    /\ \A w \in Workers : WorkerOK(w)
    /\ \A j \in Jobs : JobOK(j)
    /\ \A r \in Requests : RequestOK(r)

-----------------------------------------------------------------------------
\* Flush keeps a row a row, and a column the handler left alone as it is.
LEMMA FlushJob ==
    ASSUME NEW cur \in Job, NEW old \in Job, NEW new \in Job
    PROVE  LET f == Flush(cur, old, new) IN
           /\ f \in Job
           /\ f.status = IF new.status # old.status THEN new.status ELSE cur.status
           /\ f.attempts = IF new.attempts # old.attempts THEN new.attempts
                           ELSE cur.attempts
           /\ f.source = IF new.source # old.source THEN new.source ELSE cur.source
           /\ f.cancel = IF new.cancel # old.cancel THEN new.cancel ELSE cur.cancel
           /\ f.lock = IF new.lock # old.lock THEN new.lock ELSE cur.lock
  BY DEF Flush, Job

LEMMA FlushVoice ==
    ASSUME NEW cur \in Voice, NEW old \in Voice, NEW new \in Voice
    PROVE  LET f == Flush(cur, old, new) IN
           /\ f \in Voice
           /\ f.status = IF new.status # old.status THEN new.status ELSE cur.status
           /\ f.current = IF new.current # old.current THEN new.current ELSE cur.current
           /\ f.deleted = IF new.deleted # old.deleted THEN new.deleted ELSE cur.deleted
  BY DEF Flush, Voice

LEMMA ReleasedType ==
    ASSUME NEW r \in Job, NEW s \in {"queued", "succeeded", "failed", "canceled"}
    PROVE  /\ Released(r, s) \in Job
           /\ Released(r, s).status = s
           /\ Released(r, s).attempts = r.attempts
           /\ Released(r, s).source = r.source
           /\ Released(r, s).cancel = r.cancel
           /\ Released(r, s).lock = "none"
  BY DEF Released, Job

LEMMA EmptyRows == /\ NewVoice \in Voice
                   /\ Absent \in Job
                   /\ NoHand \in [job : Jobs \union {NoJob}, row : Job, voice : Voice]
                   /\ NoHand.job = NoJob
                   /\ NoRequest \in
                        [op : VoiceOps \union {"none", "save", "optimize", "cancel"},
                         job : Jobs \union {NoJob}, row : Job, voice : Voice,
                         number : Nat]
  BY DEF NewVoice, Absent, Voice, Job, NoHand, NoRequest

LEMMA InitInv == Init => VoiceInv
  <1> SUFFICES ASSUME Init PROVE VoiceInv
    OBVIOUS
  <1>1. TypeOK
    BY EmptyRows DEF Init, TypeOK
  <1>2. Exclusive /\ \A w \in Workers : WorkerOK(w)
    BY DEF Init, Exclusive, WorkerOK, Busy, Running
  <1>3. Unique
    BY DEF Init, Unique
  <1>4. \A j \in Jobs : JobOK(j)
    BY VoiceAssumption DEF Init, JobOK, Made, Absent
  <1>5. \A r \in Requests : RequestOK(r)
    BY DEF Init, RequestOK, NoRequest, NewVoice
  <1>6. QED BY <1>1, <1>2, <1>3, <1>4, <1>5 DEF VoiceInv, Init, NewVoice

-----------------------------------------------------------------------------
\* A worker moves on, drops or takes up a job; no row changes.
WorkerMoves(w) ==
    /\ TypeOK'
    /\ UNCHANGED <<voice, versions, jobs, req>>
    /\ \A v \in Workers : v # w => pc'[v] = pc[v] /\ hand'[v] = hand[v]

\* The job it has afterwards is the one it had, or one nobody has or made.
Free(w, j) == ~Made(j) /\ \A v \in Workers : v # w /\ Busy(v) => Mine(v) # j

LEMMA MovesKeep ==
    ASSUME VoiceInv, NEW w \in Workers, WorkerMoves(w), WorkerOK(w)',
           Busy(w)' => (Busy(w) /\ Mine(w)' = Mine(w)) \/ Free(w, Mine(w)')
    PROVE  VoiceInv'
  <1> USE DEF WorkerMoves
  <1>1. \A v \in Workers : v # w => /\ Busy(v)' <=> Busy(v)
                                    /\ Mine(v)' = Mine(v)
    BY DEF Busy, Mine
  <1>2. Busy(w)' => Free(w, Mine(w)')
    <2>1. CASE Busy(w) /\ Mine(w)' = Mine(w)
      <3>1. Mine(w) \in Jobs /\ JobOK(Mine(w)) /\ Exclusive
        BY <2>1 DEF VoiceInv, WorkerOK
      <3>2. Free(w, Mine(w))
        BY <2>1, <3>1 DEF Free, Exclusive, JobOK
      <3>3. QED BY <2>1, <3>2
    <2>2. QED BY <2>1
  <1>3. Exclusive'
    BY <1>1, <1>2 DEF VoiceInv, Exclusive, Free
  <1>4. ASSUME NEW v \in Workers PROVE WorkerOK(v)'
    <2>1. CASE v = w
      BY <2>1
    <2>2. CASE v # w
      BY <2>2 DEF VoiceInv, WorkerOK, Busy, Mine, Held
    <2>3. QED BY <2>1, <2>2
  <1>5. ASSUME NEW j \in Jobs PROVE JobOK(j)'
    BY <1>1, <1>2 DEF VoiceInv, JobOK, Made, Free
  <1>6. \A r \in Requests : RequestOK(r)'
    BY DEF VoiceInv, RequestOK
  <1>7. Unique' /\ (voice.status = "deleted" => voice.deleted)'
    BY DEF VoiceInv, Unique
  <1>8. QED BY <1>3, <1>4, <1>5, <1>6, <1>7 DEF VoiceInv

\* What a worker has in hand after it took up a job or rows.
Hand == [job : Jobs \union {NoJob}, row : Job, voice : Voice]
Takes(w, j, r, v) ==
    /\ hand' \in [Workers -> Hand]
    /\ hand'[w].job = j /\ hand'[w].row = r /\ hand'[w].voice = v
    /\ \A u \in Workers : u # w => hand'[u] = hand[u]

LEMMA TwoFields ==
    ASSUME hand \in [Workers -> Hand], NEW w \in Workers, NEW r \in Job, NEW v \in Voice,
           hand' = [hand EXCEPT ![w].row = r, ![w].voice = v]
    PROVE  Takes(w, hand[w].job, r, v)
  BY DEF Takes, Hand

LEMMA TakesUp ==
    ASSUME hand \in [Workers -> Hand], NEW w \in Workers, NEW j \in Jobs, NEW r \in Job,
           hand' = [hand EXCEPT ![w].job = j, ![w].row = r]
    PROVE  Takes(w, j, r, hand[w].voice)
  BY DEF Takes, Hand

LEMMA LoadInv ==
    ASSUME VoiceInv, NEW w \in Workers, Load(w)
    PROVE  VoiceInv'
  <1>0. Mine(w) \in Jobs /\ Busy(w)
    BY DEF VoiceInv, WorkerOK, Load, Busy
  <1>00. Takes(w, Mine(w), jobs[Mine(w)], voice)
    BY <1>0, TwoFields DEF VoiceInv, TypeOK, Load, Hand, Mine
  <1>1. WorkerMoves(w) /\ Busy(w) /\ Mine(w)' = Mine(w)
    BY <1>0, <1>00 DEF VoiceInv, TypeOK, Load, Goto, WorkerMoves, Takes, Hand, Busy, Mine
  <1>2. WorkerOK(w)'
    BY <1>0, <1>00, <1>1 DEF VoiceInv, TypeOK, WorkerOK, Load, Goto, Takes, Busy, Mine,
           Held, Usable, Owns, Running, Voice
  <1>3. QED BY <1>1, <1>2, MovesKeep

LEMMA LoadRefusedInv ==
    ASSUME VoiceInv, NEW w \in Workers, LoadRefused(w)
    PROVE  VoiceInv'
  <1>1. WorkerMoves(w) /\ Busy(w) /\ Mine(w)' = Mine(w)
    BY DEF VoiceInv, TypeOK, WorkerOK, LoadRefused, Goto, WorkerMoves, Busy, Mine
  <1>2. WorkerOK(w)'
    BY DEF VoiceInv, TypeOK, WorkerOK, LoadRefused, Goto, Busy, Mine, Held, Running
  <1>3. QED BY <1>1, <1>2, MovesKeep

LEMMA CreateInv ==
    ASSUME VoiceInv, NEW w \in Workers, Create(w)
    PROVE  VoiceInv'
  <1>1. WorkerMoves(w) /\ Busy(w) /\ Mine(w)' = Mine(w)
    BY DEF VoiceInv, TypeOK, WorkerOK, Create, Goto, WorkerMoves, Busy, Mine
  <1>2. WorkerOK(w)'
    BY DEF VoiceInv, TypeOK, WorkerOK, Create, Goto, Busy, Mine, Held, Running
  <1>3. QED BY <1>1, <1>2, MovesKeep

LEMMA RunRaisesInv ==
    ASSUME VoiceInv, NEW w \in Workers, RunRaises(w)
    PROVE  VoiceInv'
  <1> DEFINE h == [NoHand EXCEPT !.job = Mine(w)]
  <1>0. /\ h \in [job : Jobs \union {NoJob}, row : Job, voice : Voice]
        /\ h.job = Mine(w)
    BY EmptyRows DEF VoiceInv, TypeOK, Mine
  <1>00. hand' = [hand EXCEPT ![w] = h] /\ pc' = [pc EXCEPT ![w] = "failing"]
    BY DEF RunRaises, Goto
  <1> HIDE DEF h
  <1>1. WorkerMoves(w) /\ Busy(w) /\ Mine(w)' = Mine(w)
    BY <1>0, <1>00 DEF VoiceInv, TypeOK, RunRaises, WorkerMoves, Busy, Mine
  <1>2. WorkerOK(w)'
    BY <1>1, <1>00 DEF VoiceInv, TypeOK, WorkerOK, RunRaises, Busy, Held, Running
  <1>3. QED BY <1>1, <1>2, MovesKeep

LEMMA FailReadInv ==
    ASSUME VoiceInv, NEW w \in Workers, FailRead(w)
    PROVE  VoiceInv'
  <1>1. WorkerMoves(w) /\ Busy(w) /\ Mine(w)' = Mine(w)
    BY DEF VoiceInv, TypeOK, WorkerOK, FailRead, Goto, WorkerMoves, Busy, Mine
  <1>2. WorkerOK(w)'
    BY DEF VoiceInv, TypeOK, WorkerOK, FailRead, Goto, Busy, Mine, Held, Running
  <1>3. QED BY <1>1, <1>2, MovesKeep

LEMMA CrashInv ==
    ASSUME VoiceInv, NEW w \in Workers, Crash(w)
    PROVE  VoiceInv'
  <1>1. WorkerMoves(w) /\ ~Busy(w)'
    BY EmptyRows DEF VoiceInv, TypeOK, Crash, Leave, Goto, WorkerMoves, Busy
  <1>2. WorkerOK(w)'
    BY <1>1 DEF WorkerOK, Busy, Running
  <1>3. QED BY <1>1, <1>2, MovesKeep

\* An expired job is in no run's hand, and the sweeps do not overlap.
LEMMA SweepReadInv ==
    ASSUME VoiceInv, Calm, NEW w \in Workers, NEW j \in Jobs, SweepRead(w, j)
    PROVE  VoiceInv'
  <1>0. Takes(w, j, jobs[j], hand[w].voice)
    BY TakesUp DEF VoiceInv, TypeOK, Hand, SweepRead
  <1>1. WorkerMoves(w) /\ Mine(w)' = j
    BY <1>0 DEF VoiceInv, TypeOK, SweepRead, Goto, WorkerMoves, Takes, Hand, Mine
  <1>2. WorkerOK(w)'
    BY <1>0, <1>1 DEF VoiceInv, TypeOK, SweepRead, Goto, WorkerOK, Takes, Busy, Mine, Held, Running,
                IsOrphan
  <1>3. ASSUME NEW v \in Workers, v # w, Busy(v), Mine(v) = j PROVE FALSE
    BY <1>3 DEF VoiceInv, TypeOK, WorkerOK, Busy, Running, Held, SweepRead, IsOrphan, Calm
  <1>4. ~Made(j)
    BY DEF VoiceInv, JobOK, SweepRead, IsOrphan
  <1>5. QED BY <1>1, <1>2, <1>3, <1>4, MovesKeep DEF Free

-----------------------------------------------------------------------------
\* The version a commit adds is the last one, and leaves the others.
LEMMA OneMoreVersion ==
    ASSUME TypeOK, NEW e \in Jobs \union {NoJob}, versions' = Append(versions, e)
    PROVE  /\ versions' \in Seq(Jobs \union {NoJob})
           /\ DOMAIN versions' = DOMAIN versions \union {Len(versions) + 1}
           /\ Len(versions) + 1 \notin DOMAIN versions
           /\ versions'[Len(versions) + 1] = e
           /\ \A n \in DOMAIN versions : versions'[n] = versions[n]
  BY DEF TypeOK

LEMMA MadeMore ==
    ASSUME TypeOK, NEW e \in Jobs \union {NoJob}, versions' = Append(versions, e),
           NEW j \in Jobs
    PROVE  Made(j)' => Made(j) \/ j = e
  BY OneMoreVersion DEF Made

LEMMA UniqueMore ==
    ASSUME TypeOK, Unique, NEW e \in Jobs \union {NoJob}, versions' = Append(versions, e),
           e \in Jobs => ~Made(e)
    PROVE  Unique'
  <1>1. ASSUME NEW n \in DOMAIN versions, versions[n] = e, e # NoJob PROVE FALSE
    BY <1>1 DEF Made
  <1>2. QED BY <1>1, OneMoreVersion DEF Unique

\* A handler commits its job and lets it go: nobody else has it in hand.
LEMMA LeavesInv ==
    ASSUME VoiceInv, NEW w \in Workers, Busy(w), Leave(w), UNCHANGED req,
           voice' \in Voice, (voice.status = "deleted" => voice.deleted)',
           NEW f \in Job, jobs' = [jobs EXCEPT ![Mine(w)] = f],
           f.status \in {"queued", "succeeded", "failed", "canceled"},
           f.attempts = jobs[Mine(w)].attempts, jobs[Mine(w)].cancel => f.cancel,
           f.status = "queued" /\ ~f.cancel => f.attempts < MaxAttempts,
           \/ versions' = versions
           \/ versions' = Append(versions, Mine(w)) /\ f.status = "succeeded"
    PROVE  VoiceInv'
  <1> DEFINE m == Mine(w)
  <1>1. m \in Jobs /\ JobOK(m) /\ ~Made(m)
    BY DEF VoiceInv, WorkerOK, JobOK
  <1>2. TypeOK'
    <2>1. versions' \in Seq(Jobs \union {NoJob})
      BY <1>1, OneMoreVersion DEF VoiceInv, TypeOK
    <2>2. QED BY <2>1, EmptyRows DEF VoiceInv, TypeOK, Leave, Goto
  <1>3. /\ ~Busy(w)'
        /\ \A v \in Workers : v # w => /\ Busy(v)' <=> Busy(v)
                                       /\ Mine(v)' = Mine(v)
                                       /\ pc'[v] = pc[v]
                                       /\ hand'[v] = hand[v]
                                       /\ Busy(v) => Mine(v) # m
    BY DEF VoiceInv, TypeOK, Exclusive, Leave, Goto, Busy, Mine
  <1>4. jobs'[m] = f /\ \A j \in Jobs : j # m => jobs'[j] = jobs[j]
    BY <1>1 DEF VoiceInv, TypeOK
  <1>5. Exclusive'
    BY <1>3 DEF VoiceInv, Exclusive
  <1>6. Unique'
    BY <1>1, UniqueMore DEF VoiceInv, Unique
  <1>7. ASSUME NEW v \in Workers PROVE WorkerOK(v)'
    <2>1. CASE v = w
      BY <2>1, <1>3 DEF WorkerOK, Busy, Running
    <2>2. CASE v # w
      <3>1. CASE Busy(v)
        BY <2>2, <3>1, <1>3, <1>4 DEF VoiceInv, WorkerOK, Held, Running
      <3>2. CASE ~Busy(v)
        BY <2>2, <3>2, <1>3 DEF WorkerOK, Busy, Running
      <3>3. QED BY <3>1, <3>2
    <2>3. QED BY <2>1, <2>2
  <1>8. ASSUME NEW j \in Jobs PROVE JobOK(j)'
    <2>1. CASE j = m
      <3>1. Made(j)' => f.status = "succeeded"
        BY <2>1, <1>1 DEF Made
      <3>2. \A v \in Workers : Busy(v)' => Mine(v)' # j
        BY <2>1, <1>3
      <3>3. QED BY <2>1, <3>1, <3>2, <1>1, <1>4 DEF JobOK
    <2>2. CASE j # m
      <3>1. JobOK(j) /\ (Made(j)' => Made(j))
        BY <2>2, <1>1, MadeMore DEF VoiceInv, Made
      <3>2. (\A v \in Workers : Busy(v) => Mine(v) # j)
              => \A v \in Workers : Busy(v)' => Mine(v)' # j
        BY <1>3
      <3>3. QED BY <2>2, <3>1, <3>2, <1>4 DEF JobOK
    <2>3. QED BY <2>1, <2>2
  <1>9. ASSUME NEW r \in Requests PROVE RequestOK(r)'
    BY <1>4 DEF VoiceInv, RequestOK
  <1>10. QED BY <1>2, <1>5, <1>6, <1>7, <1>8, <1>9 DEF VoiceInv

LEMMA LoadCanceledInv ==
    ASSUME VoiceInv, NEW w \in Workers, LoadCanceled(w)
    PROVE  VoiceInv'
  <1> DEFINE f == Released(jobs[Mine(w)], "canceled")
  <1>1. Busy(w) /\ Mine(w) \in Jobs
    BY DEF VoiceInv, WorkerOK, LoadCanceled, Busy
  <1>2. jobs[Mine(w)] \in Job
    BY <1>1 DEF VoiceInv, TypeOK
  <1>3. f \in Job /\ f.status = "canceled" /\ f.attempts = jobs[Mine(w)].attempts
        /\ f.cancel = jobs[Mine(w)].cancel
    BY <1>2, ReleasedType
  <1>4. jobs' = [jobs EXCEPT ![Mine(w)] = f] /\ Leave(w) /\ UNCHANGED <<voice, versions, req>>
    BY DEF LoadCanceled
  <1>5. voice \in Voice /\ (voice.status = "deleted" => voice.deleted)
    BY DEF VoiceInv, TypeOK
  <1> HIDE DEF f
  <1>6. QED BY <1>1, <1>3, <1>4, <1>5, LeavesInv

LEMMA NewCurrent ==
    ASSUME NEW v \in Voice, NEW n \in Nat
    PROVE  LET e == [v EXCEPT !.current = n, !.status = "ready"] IN
           e \in Voice /\ e.status = "ready" /\ e.deleted = v.deleted
  BY DEF Voice

\* The voice a run loaded was ready, so its commit writes no status.
LEMMA SucceedKeepsStatus ==
    ASSUME VoiceInv, NEW w \in Workers, Succeed(w)
    PROVE  voice' \in Voice /\ voice'.status = voice.status /\ voice'.deleted = voice.deleted
  <1> DEFINE v == hand[w].voice
             n == Len(versions) + 1
             e == [v EXCEPT !.current = n, !.status = "ready"]
  <1>1. v \in Voice /\ voice \in Voice /\ n \in Nat /\ v.status = "ready"
    BY DEF VoiceInv, TypeOK, WorkerOK, Succeed
  <1> HIDE DEF n
  <1>2. e \in Voice /\ e.status = v.status /\ e.deleted = v.deleted
    BY <1>1, NewCurrent
  <1>3. voice' = Flush(voice, v, e)
    BY DEF Succeed, n
  <1> HIDE DEF e
  <1>4. QED BY <1>1, <1>2, <1>3, FlushVoice

\* A run commits over a row that is still running, or was canceled meanwhile.
LEMMA SucceedInv ==
    ASSUME VoiceInv, NEW w \in Workers, Succeed(w)
    PROVE  VoiceInv'
  <1> DEFINE m == Mine(w)
             r == hand[w].row
             new == Released(r, "succeeded")
             f == Flush(jobs[m], r, new)
  <1>1. Busy(w) /\ m \in Jobs /\ r.status = "running"
    BY DEF VoiceInv, WorkerOK, Succeed, Busy
  <1>2. jobs[m] \in Job /\ r \in Job
    BY <1>1 DEF VoiceInv, TypeOK
  <1>3. new \in Job /\ new.status = "succeeded" /\ new.attempts = r.attempts
        /\ new.cancel = r.cancel
    BY <1>2, ReleasedType
  <1> HIDE DEF new
  <1>4. f \in Job /\ f.status = "succeeded" /\ f.attempts = jobs[m].attempts
        /\ f.cancel = jobs[m].cancel
    BY <1>1, <1>2, <1>3, FlushJob
  <1>5. /\ jobs' = [jobs EXCEPT ![m] = f]
        /\ versions' = Append(versions, m)
        /\ Leave(w) /\ UNCHANGED req
    BY DEF Succeed, CommitJob, new
  <1> HIDE DEF f
  <1>6. voice' \in Voice /\ (voice.status = "deleted" => voice.deleted)'
    BY SucceedKeepsStatus DEF VoiceInv
  <1>7. QED BY <1>1, <1>4, <1>5, <1>6, LeavesInv

\* What a handler that records a failure commits: queued only with an attempt
\* left, or under a cancel.
LEMMA RetryCommit ==
    ASSUME VoiceInv, NEW w \in Workers, pc[w] \in {"recording", "sweeping"}
    PROVE  LET r == hand[w].row
               f == Flush(jobs[Mine(w)], r, Released(r, Retry(r)))
           IN  /\ f \in Job
               /\ f.status \in {"queued", "failed", "canceled"}
               /\ f.attempts = jobs[Mine(w)].attempts
               /\ f.source = jobs[Mine(w)].source
               /\ f.cancel = jobs[Mine(w)].cancel
               /\ f.status = "queued" /\ ~f.cancel => f.attempts < MaxAttempts
               /\ r.status = "running" \/ r.status = "canceled"
  <1> DEFINE m == Mine(w)
             r == hand[w].row
             new == Released(r, Retry(r))
             f == Flush(jobs[m], r, new)
  <1>1. /\ m \in Jobs
        /\ \/ r.status = "running"
           \/ r.status = "canceled" /\ r.cancel /\ jobs[m].status = "canceled"
        /\ r.attempts = jobs[m].attempts
        /\ r.cancel => jobs[m].cancel
    BY DEF VoiceInv, WorkerOK, Busy
  <1>2. jobs[m] \in Job /\ r \in Job
    BY <1>1 DEF VoiceInv, TypeOK
  <1>3. /\ Retry(r) \in {"queued", "failed", "canceled"}
        /\ Retry(r) = "queued" => r.attempts < MaxAttempts /\ ~r.cancel
        /\ r.cancel => Retry(r) = "canceled"
    BY DEF Retry
  <1>4. /\ new \in Job /\ new.status = Retry(r) /\ new.attempts = r.attempts
        /\ new.source = r.source /\ new.cancel = r.cancel
    BY <1>2, <1>3, ReleasedType
  <1> HIDE DEF new
  <1>5. /\ f \in Job /\ f.attempts = jobs[m].attempts
        /\ f.source = jobs[m].source /\ f.cancel = jobs[m].cancel
        /\ f.status = IF new.status # r.status THEN new.status ELSE jobs[m].status
    BY <1>2, <1>4, FlushJob
  <1> HIDE DEF f
  <1>6. /\ jobs[m].status = "queued" => FALSE
        /\ jobs[m].status \in {"running", "canceled"}
    BY DEF VoiceInv, WorkerOK, Held, Running
  <1>7. f.status \in {"queued", "failed", "canceled"}
    BY <1>1, <1>3, <1>4, <1>5, <1>6
  <1>8. f.status = "queued" /\ ~f.cancel => f.attempts < MaxAttempts
    BY <1>1, <1>3, <1>4, <1>5, <1>6
  <1>9. QED BY <1>1, <1>5, <1>7, <1>8 DEF f, new

LEMMA RecordInv ==
    ASSUME VoiceInv, NEW w \in Workers, FailWrite(w) \/ SweepWrite(w)
    PROVE  VoiceInv'
  <1> DEFINE f == Flush(jobs[Mine(w)], hand[w].row,
                        Released(hand[w].row, Retry(hand[w].row)))
  <1>1. /\ pc[w] \in {"recording", "sweeping"}
        /\ jobs' = [jobs EXCEPT ![Mine(w)] = f]
        /\ Leave(w) /\ UNCHANGED <<voice, versions, req>>
    BY DEF FailWrite, SweepWrite, CommitJob
  <1>2. /\ f \in Job /\ f.status \in {"queued", "failed", "canceled"}
        /\ f.attempts = jobs[Mine(w)].attempts /\ f.cancel = jobs[Mine(w)].cancel
        /\ f.status = "queued" /\ ~f.cancel => f.attempts < MaxAttempts
    BY <1>1, RetryCommit
  <1> HIDE DEF f
  <1>3. voice \in Voice /\ (voice.status = "deleted" => voice.deleted) /\ Busy(w)
    BY <1>1 DEF VoiceInv, TypeOK, Busy
  <1>4. QED BY <1>1, <1>2, <1>3, LeavesInv

-----------------------------------------------------------------------------
\* A claim takes a queued job, which is in nobody's hand.
LEMMA ClaimedRow ==
    ASSUME jobs \in [Jobs -> Job], NEW w \in Workers, NEW j \in Jobs,
           jobs' = [jobs EXCEPT ![j].status = "running", ![j].holder = w,
                                ![j].lock = "fresh", ![j].attempts = @ + 1]
    PROVE  /\ jobs' \in [Jobs -> Job]
           /\ jobs'[j].status = "running" /\ jobs'[j].lock = "fresh"
           /\ jobs'[j].attempts = jobs[j].attempts + 1
           /\ jobs'[j].source = jobs[j].source /\ jobs'[j].cancel = jobs[j].cancel
           /\ \A i \in Jobs : i # j => jobs'[i] = jobs[i]
  <1> DEFINE a == [jobs EXCEPT ![j].status = "running", ![j].holder = w]
  <1>1. /\ a \in [Jobs -> Job]
        /\ a[j].status = "running" /\ a[j].attempts = jobs[j].attempts
        /\ a[j].source = jobs[j].source /\ a[j].cancel = jobs[j].cancel
        /\ \A i \in Jobs : i # j => a[i] = jobs[i]
    BY DEF Job
  <1>2. jobs' = [a EXCEPT ![j].lock = "fresh", ![j].attempts = @ + 1]
    OBVIOUS
  <1> HIDE DEF a
  <1>3. QED BY <1>1, <1>2 DEF Job

LEMMA ClaimInv ==
    ASSUME VoiceInv, NEW w \in Workers, NEW j \in Jobs, Claim(w, j)
    PROVE  VoiceInv'
  <1>1. /\ jobs' \in [Jobs -> Job]
        /\ jobs'[j].status = "running" /\ jobs'[j].lock = "fresh"
        /\ jobs'[j].attempts = jobs[j].attempts + 1
        /\ jobs'[j].cancel = jobs[j].cancel
        /\ \A i \in Jobs : i # j => jobs'[i] = jobs[i]
    BY ClaimedRow DEF VoiceInv, TypeOK, Claim
  <1>2. /\ hand' \in [Workers -> Hand]
        /\ Mine(w)' = j
        /\ \A v \in Workers : v # w => hand'[v] = hand[v]
    BY DEF VoiceInv, TypeOK, Claim, Hand, Mine
  <1>3. /\ pc[w] = "idle" /\ jobs[j].status = "queued" /\ ~jobs[j].cancel
        /\ pc' = [pc EXCEPT ![w] = "claimed"]
        /\ UNCHANGED <<voice, versions, req>>
    BY DEF Claim, Goto
  <1>4. TypeOK'
    BY <1>1, <1>2, <1>3 DEF VoiceInv, TypeOK, Hand
  <1>5. ASSUME NEW v \in Workers, Busy(v) PROVE Mine(v) # j
    BY <1>3, <1>5 DEF VoiceInv, TypeOK, WorkerOK, Busy, Running, Held
  <1>6. /\ pc'[w] = "claimed"
        /\ \A v \in Workers : v # w => pc'[v] = pc[v]
        /\ \A v \in Workers : v # w => (Busy(v)' <=> Busy(v)) /\ Mine(v)' = Mine(v)
    BY <1>2, <1>3 DEF VoiceInv, TypeOK, Busy, Mine
  <1>7. Exclusive'
    <2>1. ASSUME NEW v \in Workers, v # w, Busy(v)' PROVE Mine(v)' # Mine(w)'
      BY <2>1, <1>2, <1>5, <1>6
    <2>2. ASSUME NEW u \in Workers, NEW v \in Workers, u # w, v # w,
                 Busy(u)', Busy(v)', Mine(u)' = Mine(v)'
          PROVE  u = v
      BY <2>2, <1>6 DEF VoiceInv, Exclusive
    <2>3. QED BY <2>1, <2>2 DEF Exclusive
  <1>8. ASSUME NEW v \in Workers PROVE WorkerOK(v)'
    <2>1. CASE v = w
      <3>1. pc'[v] = "claimed" /\ Mine(v)' = j
        BY <2>1, <1>2, <1>6
      <3>2. QED BY <3>1, <1>1 DEF WorkerOK, Busy, Running, Held
    <2>2. CASE v # w /\ Busy(v)
      <3>1. WorkerOK(v) /\ Mine(v) \in Jobs /\ Mine(v) # j
        BY <2>2, <1>5 DEF VoiceInv, WorkerOK
      <3>2. /\ Mine(v)' = Mine(v) /\ pc'[v] = pc[v] /\ hand'[v] = hand[v]
            /\ jobs'[Mine(v)] = jobs[Mine(v)] /\ (Busy(v)' <=> Busy(v))
        BY <2>2, <3>1, <1>1, <1>2, <1>6
      <3>3. QED BY <3>1, <3>2 DEF WorkerOK, Held
    <2>3. CASE v # w /\ ~Busy(v)
      BY <2>3, <1>6 DEF WorkerOK, Busy, Running
    <2>4. QED BY <2>1, <2>2, <2>3
  <1>9. ASSUME NEW i \in Jobs PROVE JobOK(i)'
    <2>1. CASE i = j
      <3>1. ~Made(j) /\ jobs[j].attempts < MaxAttempts /\ jobs[j].attempts \in Nat
        BY <1>3 DEF VoiceInv, TypeOK, JobOK, Job
      <3>2. ~Made(j)'
        BY <3>1, <1>3 DEF Made
      <3>3. QED BY <2>1, <3>1, <3>2, <1>1, VoiceAssumption DEF JobOK
    <2>2. CASE i # j
      <3>1. Made(i)' => Made(i)
        BY <1>3 DEF Made
      <3>2. (\A v \in Workers : Busy(v) => Mine(v) # i)
              => \A v \in Workers : Busy(v)' => Mine(v)' # i
        BY <2>2, <1>2, <1>6
      <3>3. QED BY <2>2, <3>1, <3>2, <1>1 DEF VoiceInv, JobOK
    <2>3. QED BY <2>1, <2>2
  <1>10. \A r \in Requests : RequestOK(r)'
    BY <1>1, <1>3 DEF VoiceInv, RequestOK
  <1>11. Unique' /\ (voice.status = "deleted" => voice.deleted)'
    BY <1>3 DEF VoiceInv, Unique
  <1>12. QED BY <1>4, <1>7, <1>8, <1>9, <1>10, <1>11 DEF VoiceInv

\* A lease runs out when the job is in nobody's hand but a sweep's.
LEMMA LeaseExpiresInv ==
    ASSUME VoiceInv, Calm, NEW j \in Jobs, LeaseExpires(j)
    PROVE  VoiceInv'
  <1>1. /\ jobs' \in [Jobs -> Job]
        /\ \A i \in Jobs : i # j => jobs'[i] = jobs[i]
        /\ jobs[j].lock = "fresh" /\ jobs'[j].lock = "expired"
        /\ jobs'[j].status = jobs[j].status /\ jobs'[j].attempts = jobs[j].attempts
        /\ jobs'[j].cancel = jobs[j].cancel
        /\ Quick(j)
        /\ UNCHANGED <<voice, versions, pc, hand, req>>
    <2>1. Quick(j) /\ jobs' = [jobs EXCEPT ![j].lock = "expired"] /\ jobs[j].lock = "fresh"
          /\ UNCHANGED <<voice, versions, pc, hand, req>>
      BY DEF LeaseExpires, Calm
    <2>2. jobs \in [Jobs -> Job]
      BY DEF VoiceInv, TypeOK
    <2>3. QED BY <2>1, <2>2 DEF Job
  <1>2. TypeOK'
    BY <1>1 DEF VoiceInv, TypeOK
  <1>3. Exclusive' /\ Unique' /\ (voice.status = "deleted" => voice.deleted)'
    BY <1>1 DEF VoiceInv, Exclusive, Unique, Busy, Mine
  <1>4. ASSUME NEW w \in Workers PROVE WorkerOK(w)'
    <2>1. pc[w] \in Running => Mine(w) # j
      BY <1>1 DEF Quick
    <2>2. pc[w] = "sweeping" => Mine(w) # j
      BY <1>1 DEF VoiceInv, WorkerOK
    <2>3. WorkerOK(w)
      BY DEF VoiceInv
    <2>4. QED BY <2>1, <2>2, <2>3, <1>1 DEF WorkerOK, Busy, Mine, Held, Running
  <1>5. ASSUME NEW i \in Jobs PROVE JobOK(i)'
    <2>1. JobOK(i) /\ jobs'[i].status = jobs[i].status
          /\ jobs'[i].attempts = jobs[i].attempts /\ jobs'[i].cancel = jobs[i].cancel
      BY <1>1 DEF VoiceInv
    <2>2. QED BY <2>1, <1>1 DEF JobOK, Made, Busy, Mine
  <1>6. ASSUME NEW r \in Requests PROVE RequestOK(r)'
    BY <1>1 DEF VoiceInv, RequestOK, Quick
  <1>7. QED BY <1>2, <1>3, <1>4, <1>5, <1>6 DEF VoiceInv

-----------------------------------------------------------------------------
\* What a request has in hand, and what it is handed when it begins.
Request == [op : VoiceOps \union {"none", "save", "optimize", "cancel"},
            job : Jobs \union {NoJob}, row : Job, voice : Voice, number : Nat]

LEMMA SaveRequest ==
    ASSUME NEW v \in Voice
    PROVE  LET q == [NoRequest EXCEPT !.op = "save", !.voice = v] IN
           q \in Request /\ q.op = "save" /\ q.voice = v
  BY EmptyRows DEF Request, NoRequest

LEMMA OptimizeRequest ==
    ASSUME NEW n \in Nat
    PROVE  LET q == [NoRequest EXCEPT !.op = "optimize", !.number = n] IN
           q \in Request /\ q.op = "optimize" /\ q.voice = NewVoice /\ q.number = n
  BY EmptyRows DEF Request, NoRequest

LEMMA CancelRequestRow ==
    ASSUME NEW j \in Jobs, NEW r \in Job
    PROVE  LET q == [NoRequest EXCEPT !.op = "cancel", !.job = j, !.row = r] IN
           q \in Request /\ q.op = "cancel" /\ q.job = j /\ q.row = r /\ q.voice = NewVoice
  BY EmptyRows DEF Request, NoRequest

\* A request begins, takes its number or ends; no job changes, and the only
\* version it may add is a client's.
LEMMA RequestMoves ==
    ASSUME VoiceInv, NEW r \in Requests, UNCHANGED <<jobs, pc, hand>>,
           req' \in [Requests -> Request], RequestOK(r)',
           \A s \in Requests : s # r => req'[s] = req[s],
           voice' \in Voice, (voice.status = "deleted" => voice.deleted)',
           versions' = versions \/ versions' = Append(versions, NoJob)
    PROVE  VoiceInv'
  <1>1. TypeOK'
    <2>1. versions' \in Seq(Jobs \union {NoJob})
      BY OneMoreVersion DEF VoiceInv, TypeOK
    <2>2. QED BY <2>1 DEF VoiceInv, TypeOK, Request
  <1>2. Exclusive' /\ \A w \in Workers : WorkerOK(w)'
    BY DEF VoiceInv, Exclusive, WorkerOK, Busy, Mine, Held
  <1>3. Unique'
    BY UniqueMore, VoiceAssumption DEF VoiceInv, Unique
  <1>4. ASSUME NEW j \in Jobs PROVE JobOK(j)'
    <2>1. Made(j)' => Made(j)
      BY MadeMore, VoiceAssumption DEF VoiceInv, Made
    <2>2. QED BY <2>1 DEF VoiceInv, JobOK, Busy, Mine
  <1>5. ASSUME NEW s \in Requests PROVE RequestOK(s)'
    BY DEF VoiceInv, RequestOK
  <1>6. QED BY <1>1, <1>2, <1>3, <1>4, <1>5 DEF VoiceInv

\* A request that begins: what it has in hand is what it loaded.
LEMMA AskInv ==
    ASSUME VoiceInv, NEW r \in Requests, NEW q \in Request, Ask(r, q),
           UNCHANGED <<voice, versions, jobs, pc, hand>>,
           q.voice.status # "deleted", ~q.voice.deleted,
           q.op = "cancel" => /\ q.job \in Jobs
                              /\ q.row = jobs[q.job]
                              /\ q.row.status \in {"queued", "running"}
    PROVE  VoiceInv'
  <1>1. /\ req' \in [Requests -> Request] /\ req'[r] = q
        /\ \A s \in Requests : s # r => req'[s] = req[s]
    BY DEF VoiceInv, TypeOK, Ask, Request
  <1>2. RequestOK(r)'
    BY <1>1 DEF RequestOK
  <1>3. voice' \in Voice /\ (voice.status = "deleted" => voice.deleted)'
    BY DEF VoiceInv, TypeOK
  <1>4. QED BY <1>1, <1>2, <1>3, RequestMoves

\* A request that ends has nothing in hand.
LEMMA AnswerFacts ==
    ASSUME VoiceInv, NEW r \in Requests, Answer(r)
    PROVE  /\ req' \in [Requests -> Request] /\ RequestOK(r)'
           /\ req'[r] = NoRequest
           /\ \A s \in Requests : s # r => req'[s] = req[s]
  <1>1. /\ req' \in [Requests -> Request] /\ req'[r] = NoRequest
        /\ \A s \in Requests : s # r => req'[s] = req[s]
    BY EmptyRows DEF VoiceInv, TypeOK, Answer, Request
  <1>2. QED BY <1>1 DEF RequestOK, NoRequest, NewVoice

LEMMA SaveReadInv ==
    ASSUME VoiceInv, NEW r \in Requests, NEW accept, SaveRead(r, accept)
    PROVE  VoiceInv'
  <1> DEFINE q == [NoRequest EXCEPT !.op = "save", !.voice = voice]
  <1>1. voice \in Voice /\ ~voice.deleted /\ voice.status # "deleted"
    BY DEF VoiceInv, TypeOK, SaveRead
  <1>2. q \in Request /\ q.op = "save" /\ q.voice = voice
    BY <1>1, SaveRequest
  <1>3. Ask(r, q) /\ UNCHANGED <<voice, versions, jobs, pc, hand>>
    BY DEF SaveRead
  <1> HIDE DEF q
  <1>4. QED BY <1>1, <1>2, <1>3, AskInv

LEMMA VoiceReadInv ==
    ASSUME VoiceInv, NEW r \in Requests, NEW op \in VoiceOps, NEW n \in Nat,
           VoiceRead(r, op, n)
    PROVE  VoiceInv'
  <1>1. voice \in Voice /\ ~voice.deleted /\ voice.status # "deleted"
    BY DEF VoiceInv, TypeOK, VoiceRead
  <1>2. PICK k \in Nat :
            Ask(r, [NoRequest EXCEPT !.op = op, !.voice = voice, !.number = k])
    BY DEF VoiceRead
  <1> DEFINE q == [NoRequest EXCEPT !.op = op, !.voice = voice, !.number = k]
  <1>3. q \in Request /\ q.op = op /\ q.voice = voice
    BY <1>1, EmptyRows DEF Request, NoRequest
  <1>4. Ask(r, q) /\ UNCHANGED <<voice, versions, jobs, pc, hand>>
    BY <1>2 DEF VoiceRead
  <1> HIDE DEF q
  <1>5. op # "cancel"
    BY DEF VoiceOps
  <1>6. QED BY <1>1, <1>3, <1>4, <1>5, AskInv

LEMMA OptimizeReadInv ==
    ASSUME VoiceInv, NEW r \in Requests, NEW n \in Nat, OptimizeRead(r, n)
    PROVE  VoiceInv'
  <1> DEFINE q == [NoRequest EXCEPT !.op = "optimize", !.number = n]
  <1>1. q \in Request /\ q.op = "optimize" /\ q.voice = NewVoice
    BY OptimizeRequest
  <1>2. Ask(r, q) /\ UNCHANGED <<voice, versions, jobs, pc, hand>>
    BY DEF OptimizeRead
  <1> HIDE DEF q
  <1>3. NewVoice.status # "deleted" /\ ~NewVoice.deleted
    BY DEF NewVoice
  <1>4. QED BY <1>1, <1>2, <1>3, AskInv

LEMMA CancelReadInv ==
    ASSUME VoiceInv, NEW r \in Requests, NEW j \in Jobs, CancelRead(r, j)
    PROVE  VoiceInv'
  <1> DEFINE q == [NoRequest EXCEPT !.op = "cancel", !.job = j, !.row = jobs[j]]
  <1>1. jobs[j] \in Job /\ jobs[j].status \in {"queued", "running"}
    BY DEF VoiceInv, TypeOK, CancelRead
  <1>2. q \in Request /\ q.op = "cancel" /\ q.job = j /\ q.row = jobs[j] /\ q.voice = NewVoice
    BY <1>1, CancelRequestRow
  <1>3. Ask(r, q) /\ UNCHANGED <<voice, versions, jobs, pc, hand>>
    BY DEF CancelRead
  <1> HIDE DEF q
  <1>4. NewVoice.status # "deleted" /\ ~NewVoice.deleted
    BY DEF NewVoice
  <1>5. QED BY <1>1, <1>2, <1>3, <1>4, AskInv

LEMMA SaveNumberInv ==
    ASSUME VoiceInv, NEW r \in Requests, SaveNumber(r)
    PROVE  VoiceInv'
  <1> DEFINE n == Len(versions) + 1
  <1>0. n \in Nat /\ req \in [Requests -> Request] /\ req[r].op = "save"
        /\ req' = [req EXCEPT ![r].number = n]
    BY DEF VoiceInv, TypeOK, SaveNumber, Request
  <1> HIDE DEF n
  <1>1. /\ req' \in [Requests -> Request]
        /\ req'[r].op = "save" /\ req'[r].voice = req[r].voice
        /\ \A s \in Requests : s # r => req'[s] = req[s]
    BY <1>0 DEF Request
  <1>2. UNCHANGED <<voice, versions, jobs, pc, hand>>
    BY DEF SaveNumber
  <1>3. RequestOK(r)'
    BY <1>1 DEF VoiceInv, RequestOK
  <1>4. voice' \in Voice /\ (voice.status = "deleted" => voice.deleted)'
    BY <1>2 DEF VoiceInv, TypeOK
  <1>5. QED BY <1>1, <1>2, <1>3, <1>4, RequestMoves

LEMMA SaveKeepsStatus ==
    ASSUME VoiceInv, NEW r \in Requests, SaveWrite(r)
    PROVE  voice' \in Voice /\ voice'.status = voice.status /\ voice'.deleted = voice.deleted
  <1> DEFINE v == req[r].voice
             e == [v EXCEPT !.current = req[r].number]
  <1>1. voice \in Voice /\ v \in Voice /\ req[r].number \in Nat
    BY DEF VoiceInv, TypeOK
  <1>2. e \in Voice /\ e.status = v.status /\ e.deleted = v.deleted
    BY <1>1 DEF Voice
  <1>3. UNCHANGED voice \/ voice' = Flush(voice, v, e)
    BY DEF SaveWrite
  <1> HIDE DEF e
  <1>4. QED BY <1>1, <1>2, <1>3, FlushVoice

LEMMA SaveWriteInv ==
    ASSUME VoiceInv, NEW r \in Requests, SaveWrite(r)
    PROVE  VoiceInv'
  <1>1. /\ Answer(r) /\ UNCHANGED <<jobs, pc, hand>>
        /\ versions' = versions \/ versions' = Append(versions, NoJob)
    BY DEF SaveWrite
  <1>2. voice' \in Voice /\ (voice.status = "deleted" => voice.deleted)'
    BY SaveKeepsStatus DEF VoiceInv
  <1>3. QED BY <1>1, <1>2, AnswerFacts, RequestMoves

\* What an operation on the voice commits; only a delete says deleted.
LEMMA EditCommit ==
    ASSUME VoiceInv, NEW r \in Requests, req[r].op \in VoiceOps
    PROVE  LET v == req[r].voice
               f == Flush(voice, v, Edited(v, req[r].op, req[r].number))
           IN  /\ f \in Voice
               /\ f.status = "deleted" => f.deleted
               /\ voice.status = "revoked" /\ f.status = "ready" => req[r].op = "evaluate"
  <1> DEFINE v == req[r].voice
             op == req[r].op
             n == req[r].number
             e == Edited(v, op, n)
             f == Flush(voice, v, e)
  <1>1. /\ voice \in Voice /\ v \in Voice /\ n \in Nat
        /\ v.status # "deleted" /\ ~v.deleted
        /\ voice.status = "deleted" => voice.deleted
    BY DEF VoiceInv, TypeOK, RequestOK
  <1>2. /\ e \in Voice
        /\ op = "rollback" => e.status = v.status /\ e.deleted = v.deleted
        /\ op = "revoke" => e.status = "revoked" /\ e.deleted = v.deleted
        /\ op = "evaluate" => e.status = "ready" /\ e.deleted = v.deleted
        /\ op = "delete" => e.status = "deleted" /\ e.deleted
    BY <1>1 DEF Voice, Edited, VoiceOps
  <1> HIDE DEF e
  <1>3. /\ f \in Voice
        /\ f.status = IF e.status # v.status THEN e.status ELSE voice.status
        /\ f.deleted = IF e.deleted # v.deleted THEN e.deleted ELSE voice.deleted
    BY <1>1, <1>2, FlushVoice
  <1> HIDE DEF f
  <1>4. f.status = "deleted" => f.deleted
    BY <1>1, <1>2, <1>3 DEF VoiceOps
  <1>5. voice.status = "revoked" /\ f.status = "ready" => op = "evaluate"
    BY <1>1, <1>2, <1>3 DEF VoiceOps
  <1>6. QED BY <1>3, <1>4, <1>5 DEF f, e

LEMMA VoiceWriteInv ==
    ASSUME VoiceInv, NEW r \in Requests, VoiceWrite(r)
    PROVE  VoiceInv'
  <1>1. voice' \in Voice /\ (voice.status = "deleted" => voice.deleted)'
    BY EditCommit DEF VoiceWrite
  <1>2. Answer(r) /\ UNCHANGED <<versions, jobs, pc, hand>>
    BY DEF VoiceWrite
  <1>3. QED BY <1>1, <1>2, AnswerFacts, RequestMoves

-----------------------------------------------------------------------------
\* A request commits its job and ends.  A worker that has the job in hand
\* still finds its lease as it was.
LEMMA RequestCommits ==
    ASSUME VoiceInv, NEW r \in Requests, NEW j \in Jobs, NEW f \in Job,
           Answer(r), UNCHANGED <<voice, versions, pc, hand>>,
           jobs' = [jobs EXCEPT ![j] = f],
           f.attempts = jobs[j].attempts, jobs[j].cancel => f.cancel,
           f.status = "queued" /\ ~f.cancel => f.attempts < MaxAttempts,
           f.status = "running" => jobs[j].status = "running" /\ f.lock = jobs[j].lock,
           \/ f.status = jobs[j].status /\ f.lock = jobs[j].lock
           \/ f.status = "canceled" /\ f.cancel /\ f.lock \in {jobs[j].lock, "none"}
              /\ ~(jobs[j].status = "running" /\ jobs[j].lock = "expired")
           \/ f.status = "queued" /\ jobs[j].status = "absent"
    PROVE  VoiceInv'
  <1>1. jobs' \in [Jobs -> Job] /\ jobs'[j] = f
        /\ \A i \in Jobs : i # j => jobs'[i] = jobs[i]
    BY DEF VoiceInv, TypeOK
  <1>2. TypeOK'
    BY <1>1, AnswerFacts DEF VoiceInv, TypeOK, Request
  <1>3. Exclusive' /\ Unique' /\ (voice.status = "deleted" => voice.deleted)'
    BY DEF VoiceInv, Exclusive, Unique, Busy, Mine
  <1>4. ASSUME NEW w \in Workers PROVE WorkerOK(w)'
    <2>1. WorkerOK(w)
      BY DEF VoiceInv
    <2>2. CASE Busy(w) /\ Mine(w) = j
      <3>1. jobs[j].status \in {"running", "canceled"}
        BY <2>1, <2>2 DEF VoiceInv, TypeOK, WorkerOK, Busy, Running, Held
      <3>2. QED BY <2>1, <2>2, <3>1, <1>1 DEF WorkerOK, Busy, Mine, Held, Running
    <2>3. CASE Busy(w) /\ Mine(w) # j
      BY <2>1, <2>3, <1>1 DEF WorkerOK, Busy, Mine, Held, Running
    <2>4. CASE ~Busy(w)
      BY <2>4 DEF WorkerOK, Busy, Running
    <2>5. QED BY <2>2, <2>3, <2>4
  <1>5. ASSUME NEW i \in Jobs PROVE JobOK(i)'
    <2>1. JobOK(i)
      BY DEF VoiceInv
    <2>2. CASE i = j
      BY <2>1, <2>2, <1>1 DEF JobOK, Made, Busy, Mine
    <2>3. CASE i # j
      BY <2>1, <2>3, <1>1 DEF JobOK, Made, Busy, Mine
    <2>4. QED BY <2>2, <2>3
  <1>6. ASSUME NEW s \in Requests PROVE RequestOK(s)'
    <2>1. CASE s = r
      BY <2>1, AnswerFacts
    <2>2. CASE s # r
      BY <2>2, AnswerFacts, <1>1 DEF VoiceInv, RequestOK
    <2>3. QED BY <2>1, <2>2
  <1>7. QED BY <1>2, <1>3, <1>4, <1>5, <1>6 DEF VoiceInv

LEMMA QueuedRow ==
    ASSUME NEW n \in Nat
    PROVE  LET f == [Absent EXCEPT !.status = "queued", !.source = n] IN
           /\ f \in Job /\ f.status = "queued" /\ f.source = n
           /\ f.attempts = 0 /\ ~f.cancel
  BY EmptyRows DEF Job, Absent

LEMMA OptimizeWriteInv ==
    ASSUME VoiceInv, NEW r \in Requests, NEW j \in Jobs, OptimizeWrite(r, j)
    PROVE  VoiceInv'
  <1> DEFINE f == [Absent EXCEPT !.status = "queued", !.source = req[r].number]
  <1>1. f \in Job /\ f.status = "queued" /\ f.attempts = 0 /\ ~f.cancel
    BY QueuedRow DEF VoiceInv, TypeOK
  <1>2. /\ jobs[j] = Absent /\ jobs' = [jobs EXCEPT ![j] = f] /\ Answer(r)
        /\ UNCHANGED <<voice, versions, pc, hand>>
    BY DEF OptimizeWrite
  <1>3. Absent.status = "absent" /\ Absent.attempts = 0 /\ ~Absent.cancel /\ 0 < MaxAttempts
    BY VoiceAssumption DEF Absent
  <1> HIDE DEF f
  <1>4. QED BY <1>1, <1>2, <1>3, RequestCommits

\* The row of a queued job is canceled; of a running one only the flag is set.
LEMMA CanceledRow ==
    ASSUME NEW row \in Job, row.status \in {"queued", "running"}
    PROVE  LET c == Canceled(row) IN
           /\ c \in Job /\ c.cancel
           /\ c.attempts = row.attempts /\ c.source = row.source
           /\ row.status = "queued" => c.status = "canceled" /\ c.lock = "none"
           /\ row.status = "running" => c.status = "running" /\ c.lock = row.lock
  <1> DEFINE c == [row EXCEPT !.cancel = TRUE]
  <1>1. /\ c \in Job /\ c.cancel /\ c.attempts = row.attempts /\ c.source = row.source
        /\ c.status = row.status /\ c.lock = row.lock
    BY DEF Job
  <1>2. Canceled(row) = IF row.status = "queued" THEN Released(c, "canceled") ELSE c
    BY DEF Canceled
  <1> HIDE DEF c
  <1>3. CASE row.status = "queued"
    BY <1>1, <1>2, <1>3, ReleasedType
  <1>4. CASE row.status = "running"
    BY <1>1, <1>2, <1>4
  <1>5. QED BY <1>3, <1>4

\* What a cancel commits over a row that moved on since it was loaded.
LEMMA CancelCommit ==
    ASSUME VoiceInv, NEW r \in Requests, req[r].op = "cancel"
    PROVE  LET j == req[r].job
               f == Flush(jobs[j], req[r].row, Canceled(req[r].row))
           IN  /\ j \in Jobs /\ f \in Job
               /\ f.attempts = jobs[j].attempts /\ f.source = jobs[j].source
               /\ jobs[j].cancel => f.cancel
               /\ \/ f.status = jobs[j].status /\ f.lock = jobs[j].lock
                  \/ f.status = "canceled" /\ f.cancel /\ f.lock \in {jobs[j].lock, "none"}
                     /\ ~(jobs[j].status = "running" /\ jobs[j].lock = "expired")
  <1> DEFINE j == req[r].job
             row == req[r].row
             c == Canceled(row)
             f == Flush(jobs[j], row, c)
  <1>1. /\ j \in Jobs /\ row \in Job /\ jobs[j] \in Job
        /\ row.status \in {"queued", "running"}
        /\ jobs[j].status = "running" /\ jobs[j].lock = "expired" => row.status = "running"
        /\ row.cancel => jobs[j].cancel
    BY DEF VoiceInv, TypeOK, RequestOK
  <1>2. /\ c \in Job /\ c.cancel
        /\ c.attempts = row.attempts /\ c.source = row.source
        /\ row.status = "queued" => c.status = "canceled" /\ c.lock = "none"
        /\ row.status = "running" => c.status = "running" /\ c.lock = row.lock
    BY <1>1, CanceledRow
  <1> HIDE DEF c
  <1>3. /\ f \in Job /\ f.attempts = jobs[j].attempts /\ f.source = jobs[j].source
        /\ f.status = IF c.status # row.status THEN c.status ELSE jobs[j].status
        /\ f.cancel = IF c.cancel # row.cancel THEN c.cancel ELSE jobs[j].cancel
        /\ f.lock = IF c.lock # row.lock THEN c.lock ELSE jobs[j].lock
    <2>1. c \in Job /\ row \in Job /\ jobs[j] \in Job
      BY <1>1, <1>2
    <2>2. /\ f \in Job /\ f.source = jobs[j].source /\ f.attempts = jobs[j].attempts
      BY <2>1, <1>2, FlushJob
    <2>3. QED BY <2>1, <2>2, FlushJob
  <1> HIDE DEF f
  <1>4. f.cancel
    <2>1. row.cancel \in BOOLEAN /\ c.cancel \in BOOLEAN /\ jobs[j].cancel \in BOOLEAN
      BY <1>1, <1>2 DEF Job
    <2>2. QED BY <1>1, <1>2, <1>3, <2>1
  <1>5. CASE row.status = "queued"
    BY <1>1, <1>2, <1>3, <1>4, <1>5 DEF f, c
  <1>6. CASE row.status = "running"
    BY <1>1, <1>2, <1>3, <1>4, <1>6 DEF f, c
  <1>7. QED BY <1>1, <1>5, <1>6

LEMMA CancelWriteInv ==
    ASSUME VoiceInv, NEW r \in Requests, CancelWrite(r)
    PROVE  VoiceInv'
  <1> DEFINE j == req[r].job
             f == Flush(jobs[j], req[r].row, Canceled(req[r].row))
  <1>1. /\ j \in Jobs /\ f \in Job
        /\ f.attempts = jobs[j].attempts /\ f.source = jobs[j].source
        /\ jobs[j].cancel => f.cancel
        /\ \/ f.status = jobs[j].status /\ f.lock = jobs[j].lock
           \/ f.status = "canceled" /\ f.cancel /\ f.lock \in {jobs[j].lock, "none"}
              /\ ~(jobs[j].status = "running" /\ jobs[j].lock = "expired")
    <2>1. req[r].op = "cancel"
      BY DEF CancelWrite
    <2>2. QED BY <2>1, CancelCommit, Zenon
  <1>2. /\ jobs' = [jobs EXCEPT ![j] = f] /\ Answer(r)
        /\ UNCHANGED <<voice, versions, pc, hand>>
    BY DEF CancelWrite, CommitJob
  <1> HIDE DEF f
  <1>3. f.status = "queued" /\ ~f.cancel => f.attempts < MaxAttempts
    BY <1>1 DEF VoiceInv, JobOK
  <1>4. QED BY <1>1, <1>2, <1>3, RequestCommits

-----------------------------------------------------------------------------
LEMMA WorkerStepInv ==
    ASSUME VoiceInv, Calm, NEW w \in Workers, WorkerStep(w)
    PROVE  VoiceInv'
  BY LoadInv, LoadCanceledInv, LoadRefusedInv, CreateInv, RunRaisesInv, SucceedInv,
     FailReadInv, RecordInv, CrashInv, ClaimInv, SweepReadInv DEF WorkerStep

LEMMA ClientStepInv ==
    ASSUME VoiceInv, NEW r \in Requests, ClientStep(r)
    PROVE  VoiceInv'
  <1>1. \A n \in 1..Len(versions) : n \in Nat
    BY DEF VoiceInv, TypeOK
  <1>2. QED
    BY <1>1, SaveReadInv, SaveNumberInv, SaveWriteInv, OptimizeReadInv, VoiceReadInv,
       VoiceWriteInv, OptimizeWriteInv, CancelReadInv, CancelWriteInv DEF ClientStep

LEMMA NextInv == Calm /\ VoiceInv /\ [Next]_vars => VoiceInv'
  <1> SUFFICES ASSUME Calm, VoiceInv, [Next]_vars PROVE VoiceInv'
    OBVIOUS
  <1>1. CASE UNCHANGED vars
    BY <1>1 DEF vars, VoiceInv, TypeOK, Exclusive, Unique, WorkerOK, JobOK, RequestOK,
       Busy, Mine, Made, Held
  <1>2. CASE Next
    BY <1>2, WorkerStepInv, LeaseExpiresInv, ClientStepInv DEF Next
  <1>3. QED BY <1>1, <1>2

-----------------------------------------------------------------------------
\* VoiceInv holds in every reachable state of a calm environment.
THEOREM VoiceInvariant == Calm => (Spec => []VoiceInv)
  <1> SUFFICES ASSUME Calm PROVE Spec => []VoiceInv
    OBVIOUS
  <1>1. Init => VoiceInv
    BY InitInv
  <1>2. VoiceInv /\ [Next]_vars => VoiceInv'
    BY NextInv
  <1>3. QED BY <1>1, <1>2, PTL DEF Spec

\* Rows, hands and requests keep their types.
THEOREM VoiceTypes == Calm => (Spec => []TypeOK)
  <1>1. VoiceInv => TypeOK
    BY DEF VoiceInv
  <1>2. QED BY <1>1, VoiceInvariant, PTL

\* A job of the optimizer makes one version however often it is retried.
THEOREM OneVersionEach == Calm => (Spec => []OneVersionPerJob)
  <1>1. VoiceInv => OneVersionPerJob
    <2> SUFFICES ASSUME VoiceInv, NEW j \in Jobs
                 PROVE  Cardinality({n \in DOMAIN versions : versions[n] = j}) <= 1
      BY DEF OneVersionPerJob
    <2> DEFINE S == {n \in DOMAIN versions : versions[n] = j}
    <2>1. CASE S = {}
      BY <2>1, FS_EmptySet
    <2>2. CASE S # {}
      <3>1. PICK n : n \in S
        BY <2>2
      <3>2. S = {n}
        BY <3>1, VoiceAssumption DEF VoiceInv, Unique
      <3>3. Cardinality({n}) = 1
        BY FS_Singleton
      <3>4. QED BY <3>2, <3>3
    <2>3. QED BY <2>1, <2>2
  <1>2. QED BY <1>1, VoiceInvariant, PTL

\* A job of the optimizer is attempted max_attempts times at most.
THEOREM RunsBounded == Calm => (Spec => []AttemptsBounded)
  <1>1. VoiceInv => AttemptsBounded
    BY DEF VoiceInv, JobOK, AttemptsBounded
  <1>2. QED BY <1>1, VoiceInvariant, PTL

-----------------------------------------------------------------------------
\* What a step may do to a job it did not add: an ended job stays ended or goes
\* back under a cancel, and no job comes ahead that was not.
JobStep(j) ==
    /\ jobs[j].status \in Terminal =>
         \/ jobs'[j].status \in Terminal
         \/ jobs'[j].status = "queued" /\ jobs'[j].cancel
    /\ Ahead(j)' => Ahead(j) /\ jobs'[j].source = jobs[j].source

LEMMA SameRow ==
    ASSUME NEW j, jobs'[j] = jobs[j]
    PROVE  JobStep(j)
  BY DEF JobStep, Ahead

LEMMA OneRow ==
    ASSUME VoiceInv, NEW i \in Jobs, NEW f, jobs' = [jobs EXCEPT ![i] = f],
           jobs'[i] = f => JobStep(i)
    PROVE  \A j \in Jobs : JobStep(j)
  <1>1. jobs'[i] = f /\ \A j \in Jobs : j # i => jobs'[j] = jobs[j]
    BY DEF VoiceInv, TypeOK
  <1>2. QED BY <1>1, SameRow

LEMMA ClaimStep ==
    ASSUME VoiceInv, NEW w \in Workers, NEW j \in Jobs, Claim(w, j)
    PROVE  \A i \in Jobs : JobStep(i)
  <1>1. /\ jobs'[j].source = jobs[j].source
        /\ \A i \in Jobs : i # j => jobs'[i] = jobs[i]
        /\ jobs[j].status = "queued" /\ ~jobs[j].cancel
    BY ClaimedRow DEF VoiceInv, TypeOK, Claim
  <1>2. JobStep(j)
    BY <1>1 DEF JobStep, Ahead, Terminal
  <1>3. QED BY <1>1, <1>2, SameRow

LEMMA LoadCanceledStep ==
    ASSUME VoiceInv, NEW w \in Workers, LoadCanceled(w)
    PROVE  \A i \in Jobs : JobStep(i)
  <1>1. PICK m \in Jobs : m = Mine(w)
    BY DEF VoiceInv, WorkerOK, LoadCanceled, Busy
  <1> DEFINE f == Released(jobs[m], "canceled")
  <1>2. f.status = "canceled"
    BY <1>1, ReleasedType DEF VoiceInv, TypeOK
  <1>3. jobs' = [jobs EXCEPT ![m] = f]
    BY <1>1 DEF LoadCanceled
  <1> HIDE DEF f
  <1>4. jobs'[m] = f => JobStep(m)
    BY <1>2 DEF JobStep, Ahead, Terminal
  <1>5. QED BY <1>1, <1>3, <1>4, OneRow

LEMMA SucceedStep ==
    ASSUME VoiceInv, NEW w \in Workers, Succeed(w)
    PROVE  \A i \in Jobs : JobStep(i)
  <1>0. PICK m \in Jobs : m = Mine(w)
    BY DEF VoiceInv, WorkerOK, Succeed, Busy
  <1> DEFINE r == hand[w].row
             new == Released(r, "succeeded")
             f == Flush(jobs[m], r, new)
  <1>1. r.status = "running"
    BY DEF VoiceInv, WorkerOK, Succeed
  <1>2. jobs[m] \in Job /\ r \in Job
    BY <1>1 DEF VoiceInv, TypeOK
  <1>3. new \in Job /\ new.status = "succeeded"
    BY <1>2, ReleasedType
  <1> HIDE DEF new
  <1>4. f.status = "succeeded"
    BY <1>1, <1>2, <1>3, FlushJob
  <1>5. jobs' = [jobs EXCEPT ![m] = f]
    BY <1>0 DEF Succeed, CommitJob, new
  <1> HIDE DEF f
  <1>6. jobs'[m] = f => JobStep(m)
    BY <1>4 DEF JobStep, Ahead, Terminal
  <1>7. QED BY <1>1, <1>5, <1>6, OneRow

\* A failure recorded late requeues only a job that is running or canceled by
\* its flag.
LEMMA RecordStep ==
    ASSUME VoiceInv, NEW w \in Workers, FailWrite(w) \/ SweepWrite(w)
    PROVE  \A i \in Jobs : JobStep(i)
  <1>0. PICK m \in Jobs : m = Mine(w)
    BY DEF VoiceInv, WorkerOK, FailWrite, SweepWrite, Busy
  <1> DEFINE f == Flush(jobs[m], hand[w].row, Released(hand[w].row, Retry(hand[w].row)))
  <1>1. pc[w] \in {"recording", "sweeping"} /\ jobs' = [jobs EXCEPT ![m] = f]
    BY <1>0 DEF FailWrite, SweepWrite, CommitJob
  <1>2. /\ f.status \in {"queued", "failed", "canceled"}
        /\ f.source = jobs[m].source /\ f.cancel = jobs[m].cancel
    BY <1>0, <1>1, RetryCommit
  <1> HIDE DEF f
  <1>3. jobs[m].status = "running" \/ (jobs[m].status = "canceled" /\ jobs[m].cancel)
    BY <1>0, <1>1 DEF VoiceInv, WorkerOK, Busy, Running, Held
  <1>4. jobs'[m] = f => JobStep(m)
    BY <1>2, <1>3 DEF JobStep, Ahead, Terminal
  <1>5. QED BY <1>1, <1>3, <1>4, OneRow

LEMMA CancelWriteStep ==
    ASSUME VoiceInv, NEW r \in Requests, CancelWrite(r)
    PROVE  \A i \in Jobs : JobStep(i)
  <1>0. req[r].op = "cancel"
    BY DEF CancelWrite
  <1>00. PICK j \in Jobs : j = req[r].job
    BY <1>0 DEF VoiceInv, RequestOK
  <1> DEFINE f == Flush(jobs[j], req[r].row, Canceled(req[r].row))
  <1>1. jobs' = [jobs EXCEPT ![j] = f]
    BY <1>00 DEF CancelWrite, CommitJob
  <1>2. /\ f.source = jobs[j].source
        /\ jobs[j].cancel => f.cancel
        /\ f.status = jobs[j].status \/ (f.status = "canceled" /\ f.cancel)
    BY <1>0, <1>00, CancelCommit
  <1> HIDE DEF f
  <1>3. jobs'[j] = f => JobStep(j)
    BY <1>2 DEF JobStep, Ahead, Terminal
  <1>4. QED BY <1>1, <1>2, <1>3, OneRow

\* The only step that puts a job ahead is the commit of a new one.
Enqueues == \E r \in Requests, j \in Jobs : OptimizeWrite(r, j)

LEMMA NextJobs ==
    ASSUME VoiceInv, Calm, [Next]_vars, ~Enqueues
    PROVE  \A j \in Jobs : JobStep(j)
  <1>1. CASE UNCHANGED jobs
    BY <1>1, SameRow
  <1>2. ASSUME NEW w \in Workers, WorkerStep(w) PROVE \A j \in Jobs : JobStep(j)
    <2>1. CASE \E j \in Jobs : Claim(w, j)
      BY <2>1, ClaimStep
    <2>2. CASE LoadCanceled(w)
      BY <2>2, LoadCanceledStep
    <2>3. CASE Succeed(w)
      BY <2>3, SucceedStep
    <2>4. CASE FailWrite(w) \/ SweepWrite(w)
      BY <2>4, RecordStep
    <2>5. CASE UNCHANGED jobs
      BY <2>5, <1>1
    <2>6. QED
      BY <1>2, <2>1, <2>2, <2>3, <2>4, <2>5
      DEF WorkerStep, Load, LoadRefused, Create, RunRaises, FailRead, Crash, SweepRead
  <1>3. ASSUME NEW i \in Jobs, LeaseExpires(i) PROVE \A j \in Jobs : JobStep(j)
    <2>1. /\ \A j \in Jobs : j # i => jobs'[j] = jobs[j]
          /\ jobs'[i].status = jobs[i].status /\ jobs'[i].cancel = jobs[i].cancel
          /\ jobs'[i].source = jobs[i].source
      BY <1>3 DEF VoiceInv, TypeOK, LeaseExpires, Job
    <2>2. JobStep(i)
      BY <2>1 DEF JobStep, Ahead
    <2>3. QED BY <2>1, <2>2, SameRow
  <1>4. ASSUME NEW r \in Requests, ClientStep(r) PROVE \A j \in Jobs : JobStep(j)
    <2>1. CASE CancelWrite(r)
      BY <2>1, CancelWriteStep
    <2>2. CASE UNCHANGED jobs
      BY <2>2, <1>1
    <2>3. QED
      BY <1>4, <2>1, <2>2 DEF ClientStep, Enqueues, SaveRead, SaveNumber, SaveWrite,
         OptimizeRead, VoiceRead, VoiceWrite, CancelRead
  <1>5. QED BY <1>1, <1>2, <1>3, <1>4 DEF Next, vars

\* A job that has ended does not run again.
THEOREM EndedJobsStayEnded == Calm => (Spec => NeverRunAgain)
  <1> DEFINE Stay == \A j \in Jobs : jobs[j].status \in Terminal =>
                jobs'[j].status \in Terminal
                \/ (jobs'[j].status = "queued" /\ jobs'[j].cancel)
  <1> SUFFICES ASSUME Calm PROVE Spec => NeverRunAgain
    OBVIOUS
  <1>1. VoiceInv /\ [Next]_vars => Stay
    <2> SUFFICES ASSUME VoiceInv, [Next]_vars PROVE Stay
      OBVIOUS
    <2>1. CASE ~Enqueues
      BY <2>1, NextJobs DEF JobStep
    <2>2. CASE Enqueues
      <3>1. PICK r \in Requests, i \in Jobs : OptimizeWrite(r, i)
        BY <2>2 DEF Enqueues
      <3>2. jobs[i].status \notin Terminal /\ \A j \in Jobs : j # i => jobs'[j] = jobs[j]
        BY <3>1 DEF OptimizeWrite, Absent, Terminal, VoiceInv, TypeOK
      <3>3. QED BY <3>2
    <2>3. QED BY <2>1, <2>2
  <1>2. Spec => [][Stay]_vars
    BY <1>1, VoiceInvariant, PTL DEF Spec
  <1>3. QED BY <1>2 DEF NeverRunAgain

\* A run's commit leaves a revocation as it is: it loaded the voice ready and
\* writes back only the columns it changed.
THEOREM RevocationsStand == Calm => (Spec => RevocationStands)
  <1> DEFINE Stands == voice.status = "revoked" /\ voice'.status = "ready" =>
                         \E r \in Requests : req[r].op = "evaluate" /\ req'[r] = NoRequest
  <1> SUFFICES ASSUME Calm PROVE Spec => RevocationStands
    OBVIOUS
  <1>1. VoiceInv /\ [Next]_vars => Stands
    <2> SUFFICES ASSUME VoiceInv, [Next]_vars PROVE Stands
      OBVIOUS
    <2>1. ASSUME NEW w \in Workers, Succeed(w) PROVE voice'.status = voice.status
      BY <2>1, SucceedKeepsStatus
    <2>2. ASSUME NEW r \in Requests, SaveWrite(r) PROVE voice'.status = voice.status
      BY <2>2, SaveKeepsStatus
    <2>3. ASSUME NEW r \in Requests, VoiceWrite(r) PROVE Stands
      BY <2>3, EditCommit, AnswerFacts DEF VoiceWrite
    <2>4. CASE UNCHANGED voice
      BY <2>4
    <2>5. QED
      BY <2>1, <2>2, <2>3, <2>4 DEF Next, WorkerStep, ClientStep, vars, Load, LoadCanceled,
         LoadRefused, Create, RunRaises, FailRead, FailWrite, SweepWrite, Crash, Claim,
         SweepRead, LeaseExpires, SaveRead, SaveNumber, OptimizeRead, OptimizeWrite,
         VoiceRead, CancelRead, CancelWrite
  <1>2. Spec => [][Stands]_vars
    BY <1>1, VoiceInvariant, PTL DEF Spec
  <1>3. QED BY <1>2 DEF RevocationStands

-----------------------------------------------------------------------------
\* One request at a time, as the run has it: enqueue_optimization looks for a
\* job of the version and adds one in two steps that nothing serialises.
OneClient == \A r, s \in Requests : r = s

SourceInv ==
    /\ OneJobPerSource
    /\ \A r \in Requests : req[r].op = "optimize" =>
         \A j \in Jobs : Ahead(j) => jobs[j].source # req[r].number

\* Only the check of enqueue_optimization begins a request of this kind.
LEMMA OptimizeBegins ==
    ASSUME VoiceInv, [Next]_vars, NEW r \in Requests, req'[r].op = "optimize"
    PROVE  \/ req'[r] = req[r]
           \/ /\ UNCHANGED jobs
              /\ ~Existing(req'[r].number)
  <1>1. CASE UNCHANGED req
    BY <1>1
  <1>2. ASSUME NEW s \in Requests, s # r, ClientStep(s) PROVE req'[r] = req[r]
    BY <1>2 DEF VoiceInv, TypeOK, ClientStep, SaveRead, SaveNumber, SaveWrite, OptimizeRead,
       OptimizeWrite, VoiceRead, VoiceWrite, CancelRead, CancelWrite, Ask, Answer
  <1>3. ASSUME NEW q, Ask(r, q), q.op # "optimize" PROVE FALSE
    BY <1>3 DEF VoiceInv, TypeOK, Ask
  <1>4. ASSUME Answer(r) PROVE FALSE
    BY <1>4, AnswerFacts DEF NoRequest
  <1>5. ASSUME NEW n \in 1..Len(versions), OptimizeRead(r, n)
        PROVE  UNCHANGED jobs /\ ~Existing(req'[r].number)
    <2> DEFINE q == [NoRequest EXCEPT !.op = "optimize", !.number = n]
    <2>1. q.number = n
      BY DEF NoRequest
    <2>2. req'[r] = q
      BY <1>5 DEF VoiceInv, TypeOK, OptimizeRead, Ask
    <2> HIDE DEF q
    <2>3. QED BY <1>5, <2>1, <2>2 DEF OptimizeRead
  <1>6. ASSUME NEW op \in VoiceOps, NEW n, VoiceRead(r, op, n) PROVE FALSE
    <2>1. PICK k : Ask(r, [NoRequest EXCEPT !.op = op, !.voice = voice, !.number = k])
      BY <1>6 DEF VoiceRead
    <2>2. [NoRequest EXCEPT !.op = op, !.voice = voice, !.number = k].op # "optimize"
      BY DEF NoRequest, VoiceOps
    <2>3. QED BY <2>1, <2>2, <1>3
  <1>7. ASSUME NEW b, SaveRead(r, b) PROVE FALSE
    <2>1. [NoRequest EXCEPT !.op = "save", !.voice = voice].op # "optimize"
      BY DEF NoRequest
    <2>2. QED BY <1>7, <2>1, <1>3 DEF SaveRead
  <1>8. ASSUME NEW j \in Jobs, CancelRead(r, j) PROVE FALSE
    <2>1. [NoRequest EXCEPT !.op = "cancel", !.job = j, !.row = jobs[j]].op # "optimize"
      BY DEF NoRequest
    <2>2. QED BY <1>8, <2>1, <1>3 DEF CancelRead
  <1>9. ASSUME SaveNumber(r) PROVE FALSE
    <2> DEFINE n == Len(versions) + 1
    <2>1. /\ req \in [Requests -> Request] /\ req[r].op = "save"
          /\ req' = [req EXCEPT ![r].number = n]
      BY <1>9 DEF VoiceInv, TypeOK, SaveNumber, Request
    <2> HIDE DEF n
    <2>2. req'[r].op = "save"
      BY <2>1 DEF Request
    <2>3. QED BY <2>2
  <1>10. CASE ClientStep(r)
    BY <1>10, <1>4, <1>5, <1>6, <1>7, <1>8, <1>9
    DEF ClientStep, SaveWrite, OptimizeWrite, VoiceWrite, CancelWrite
  <1>11. ASSUME NEW w \in Workers, WorkerStep(w) PROVE UNCHANGED req
    BY <1>11 DEF WorkerStep, Load, LoadCanceled, LoadRefused, Create, RunRaises, Succeed,
       FailRead, FailWrite, SweepWrite, Crash, Claim, SweepRead
  <1>12. QED BY <1>1, <1>2, <1>10, <1>11 DEF Next, vars, LeaseExpires

LEMMA NextSource ==
    ASSUME Calm, OneClient, VoiceInv, SourceInv, [Next]_vars
    PROVE  SourceInv'
  <1>1. CASE Enqueues
    <2>1. PICK r \in Requests, i \in Jobs : OptimizeWrite(r, i)
      BY <1>1 DEF Enqueues
    <2>2. /\ req[r].op = "optimize" /\ Answer(r)
          /\ jobs' = [jobs EXCEPT ![i] = [Absent EXCEPT !.status = "queued",
                                                        !.source = req[r].number]]
      BY <2>1 DEF OptimizeWrite
    <2>3. /\ jobs'[i].source = req[r].number
          /\ \A j \in Jobs : j # i => jobs'[j] = jobs[j]
      BY <2>2, QueuedRow DEF VoiceInv, TypeOK
    <2>4. ASSUME NEW j \in Jobs, j # i, Ahead(j)'
          PROVE  Ahead(j) /\ jobs'[j].source = jobs[j].source
                 /\ jobs[j].source # req[r].number
      BY <2>2, <2>3, <2>4 DEF SourceInv, Ahead
    <2>5. OneJobPerSource'
      BY <2>3, <2>4 DEF SourceInv, OneJobPerSource
    <2>6. \A s \in Requests : req'[s].op # "optimize"
      BY <2>2, AnswerFacts DEF OneClient, NoRequest
    <2>7. QED BY <2>5, <2>6 DEF SourceInv
  <1>2. CASE ~Enqueues
    <2>1. \A j \in Jobs : JobStep(j)
      BY <1>2, NextJobs
    <2>2. OneJobPerSource'
      BY <2>1 DEF SourceInv, OneJobPerSource, JobStep
    <2>3. ASSUME NEW r \in Requests, req'[r].op = "optimize", NEW j \in Jobs, Ahead(j)'
          PROVE  jobs'[j].source # req'[r].number
      <3>1. Ahead(j) /\ jobs'[j].source = jobs[j].source
        BY <2>1, <2>3 DEF JobStep
      <3>2. CASE req'[r] = req[r]
        BY <2>3, <3>1, <3>2 DEF SourceInv
      <3>3. CASE UNCHANGED jobs /\ ~Existing(req'[r].number)
        BY <3>1, <3>3 DEF Existing, Ahead
      <3>4. QED BY <2>3, <3>2, <3>3, OptimizeBegins
    <2>4. QED BY <2>2, <2>3 DEF SourceInv
  <1>3. QED BY <1>1, <1>2

\* Where requests do not overlap, no two jobs of one source version are ahead.
THEOREM OneJobEachSource == Calm /\ OneClient => (Spec => []OneJobPerSource)
  <1> SUFFICES ASSUME Calm, OneClient PROVE Spec => []OneJobPerSource
    OBVIOUS
  <1>1. Init => SourceInv
    BY DEF Init, SourceInv, OneJobPerSource, Ahead, Absent, NoRequest
  <1>2. VoiceInv /\ SourceInv /\ [Next]_vars => SourceInv'
    BY NextSource
  <1>3. SourceInv => OneJobPerSource
    BY DEF SourceInv
  <1>4. Spec => []VoiceInv
    BY VoiceInvariant
  <1>5. QED BY <1>1, <1>2, <1>3, <1>4, PTL DEF Spec

=============================================================================
