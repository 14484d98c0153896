--------------------------- MODULE JobQueue_proofs ---------------------------
(***************************************************************************)
(* Proofs about JobQueue, for every number of workers, sessions and jobs.  *)
(* A step either leaves the rows alone (Release, Goto, Load), writes back  *)
(* a row under a worker that holds it (WriteBack), or is one of the few    *)
(* actions with a write of its own.                                        *)
(***************************************************************************)
EXTENDS JobQueue, TLAPS

USE DEF Finished, Terminal, ClientOps, Busy, Exists, OnJob

-----------------------------------------------------------------------------
\* Flush keeps a row a row, and a column the handler left alone as it is.
LEMMA FlushType ==
    ASSUME NEW cur \in Row, NEW old \in Row, NEW new \in Row
    PROVE  /\ Flush(cur, old, new) \in Row
           /\ new.status # old.status => Flush(cur, old, new).status = new.status
           /\ new.status = old.status => Flush(cur, old, new).status = cur.status
           /\ new.locked_by # old.locked_by =>
                Flush(cur, old, new).locked_by = new.locked_by
           /\ new.locked_by = old.locked_by =>
                Flush(cur, old, new).locked_by = cur.locked_by
           /\ new.locked_at = old.locked_at =>
                Flush(cur, old, new).locked_at = cur.locked_at
           /\ new.attempts # old.attempts =>
                Flush(cur, old, new).attempts = new.attempts
           /\ new.attempts = old.attempts =>
                Flush(cur, old, new).attempts = cur.attempts
  BY DEF Flush, Changed, Row

\* Closing the last open attempt of at most one leaves none.
LEMMA CloseOnly ==
    ASSUME NEW a, NEW S, S \subseteq {a}, NEW T \in CloseLast(S)
    PROVE  T = {}
  <1>1. CASE S = {}
    BY <1>1 DEF CloseLast
  <1>2. CASE S = {a}
    BY <1>2 DEF CloseLast
  <1>3. QED BY <1>1, <1>2

\* _close_attempt only ever removes attempts from the open ones.
LEMMA CloseSubset ==
    ASSUME NEW S, NEW T \in CloseLast(S)
    PROVE  T \subseteq S
  BY DEF CloseLast

LEMMA AbsentRowType == AbsentRow \in Row
  BY DEF AbsentRow, Row, Statuses

-----------------------------------------------------------------------------
\* What the initial state satisfies.
LEMMA InitCalm == Init => CalmInv
  <1> SUFFICES ASSUME Init PROVE CalmInv
    OBVIOUS
  <1>1. TypeOK
    BY AbsentRowType, QueueAssumption DEF Init, TypeOK, NoRequest
  <1>2. \A j \in Jobs : JobOK(j)
    BY QueueAssumption DEF Init, JobOK, AbsentRow
  <1>3. \A w \in Workers : WorkerOK(w)
    BY DEF Init, WorkerOK
  <1>4. \A r \in Requests : RequestOK(r)
    BY DEF Init, RequestOK
  <1>5. Exclusive
    BY DEF Init, Exclusive, OneRunner
  <1>6. QED BY <1>1, <1>2, <1>3, <1>4, <1>5 DEF CalmInv

\* The worker drops its job without a write.
LEMMA ReleaseCalm ==
    ASSUME CalmInv, NEW w \in Workers, NEW p \in {"idle", "dead"},
           Release(w, p), UNCHANGED <<row, open, clientVars>>
    PROVE  CalmInv'
  <1> USE DEF Release, clientVars
  <1>1. TypeOK'
    BY AbsentRowType DEF CalmInv, TypeOK
  <1>2. \A j \in Jobs : JobOK(j)'
    BY DEF CalmInv, JobOK
  <1>3. ASSUME NEW v \in Workers PROVE WorkerOK(v)'
    <2>1. CASE v = w
      BY <2>1 DEF CalmInv, TypeOK, WorkerOK
    <2>2. CASE v # w
      BY <2>2 DEF CalmInv, TypeOK, WorkerOK, Held
    <2>3. QED BY <2>1, <2>2
  <1>4. \A r \in Requests : RequestOK(r)'
    BY DEF CalmInv, RequestOK
  <1>5. Exclusive'
    BY DEF CalmInv, TypeOK, Exclusive, OneRunner
  <1>6. QED BY <1>1, <1>2, <1>3, <1>4, <1>5 DEF CalmInv

\* The worker moves on within a run without a write or a load.
LEMMA GotoCalm ==
    ASSUME CalmInv, NEW w \in Workers, NEW p \in {"working", "failing"},
           pc[w] \in Busy, Goto(w, p), UNCHANGED <<row, open, clientVars>>
    PROVE  CalmInv'
  <1> USE DEF Goto, clientVars
  <1>1. TypeOK'
    BY DEF CalmInv, TypeOK
  <1>2. \A j \in Jobs : JobOK(j)'
    BY DEF CalmInv, JobOK
  <1>3. ASSUME NEW v \in Workers PROVE WorkerOK(v)'
    <2>1. CASE v = w
      BY <2>1 DEF CalmInv, TypeOK, WorkerOK, Held
    <2>2. CASE v # w
      BY <2>2 DEF CalmInv, TypeOK, WorkerOK, Held
    <2>3. QED BY <2>1, <2>2
  <1>4. \A r \in Requests : RequestOK(r)'
    BY DEF CalmInv, RequestOK
  <1>5. Exclusive'
    BY DEF CalmInv, TypeOK, Exclusive, OneRunner
  <1>6. QED BY <1>1, <1>2, <1>3, <1>4, <1>5 DEF CalmInv

\* The worker loads the row of the job it runs.
LEMMA LoadCalm ==
    ASSUME CalmInv, NEW w \in Workers,
           NEW p \in {"beating", "finishing", "canceling", "recording"},
           pc[w] \in Busy, Exists(task[w]),
           p # "recording" => Owns(row[task[w]], w),
           Load(w, p), UNCHANGED <<row, open, clientVars>>
    PROVE  CalmInv'
  <1> USE DEF Load, clientVars
  <1>1. TypeOK'
    BY DEF CalmInv, TypeOK, WorkerOK
  <1>2. \A j \in Jobs : JobOK(j)'
    BY DEF CalmInv, JobOK
  <1>3. ASSUME NEW v \in Workers PROVE WorkerOK(v)'
    <2>1. CASE v = w
      BY <2>1 DEF CalmInv, TypeOK, WorkerOK, Held, Owns
    <2>2. CASE v # w
      BY <2>2 DEF CalmInv, TypeOK, WorkerOK, Held
    <2>3. QED BY <2>1, <2>2
  <1>4. \A r \in Requests : RequestOK(r)'
    BY DEF CalmInv, RequestOK
  <1>5. Exclusive'
    BY DEF CalmInv, TypeOK, Exclusive, OneRunner
  <1>6. QED BY <1>1, <1>2, <1>3, <1>4, <1>5 DEF CalmInv

\* The worker commits what it made of the row it holds: it is finished,
\* cancelled or back in the queue, without a holder or an open attempt.
LEMMA WriteBackCalm ==
    ASSUME Calm, CalmInv, NEW w \in Workers, NEW new \in Row,
           pc[w] \in {"finishing", "canceling", "recording", "sweeping"},
           Exists(task[w]),
           new.status \in Terminal \union {"queued"},
           new.status # snap[w].status,
           new.locked_by = NoWorker,
           new.attempts = snap[w].attempts,
           new.status = "queued" =>
             pc[w] \in {"recording", "sweeping"} /\ snap[w].attempts < MaxAttempts,
           WriteBack(w, new)
    PROVE  CalmInv'
  <1> DEFINE j == task[w]
             f == Flush(row[j], snap[w], new)
  <1>1. /\ j \in Jobs /\ row[j] \in Row /\ snap[w] \in Row
        /\ row[j].status \in {"running", "canceled"}
        /\ snap[w].locked_by \in Workers
        /\ pc[w] \in {"recording", "sweeping"} => row[j].attempts = snap[w].attempts
    BY DEF CalmInv, TypeOK, WorkerOK, Held
  <1>2. /\ f \in Row /\ f.status = new.status
        /\ f.locked_by = NoWorker /\ f.attempts = row[j].attempts
    BY <1>1, FlushType, QueueAssumption
  <1>3. row' = [row EXCEPT ![j] = f]
    BY DEF WriteBack
  <1>4. open' = [open EXCEPT ![j] = {}]
    <2>1. PICK S \in CloseLast(open[j]) : open' = [open EXCEPT ![j] = S]
      BY DEF WriteBack
    <2>2. open[j] \subseteq {[n |-> row[j].attempts, worker |-> row[j].locked_by]}
      BY <1>1 DEF CalmInv, JobOK
    <2>3. S = {}
      BY <2>2, CloseOnly
    <2>4. QED BY <2>1, <2>3
  <1>5. /\ pc' = [pc EXCEPT ![w] = "idle"]
        /\ task' = [task EXCEPT ![w] = NoJob]
        /\ snap' = [snap EXCEPT ![w] = AbsentRow]
        /\ req' = req /\ asked' = asked
    BY DEF WriteBack, Release, clientVars
  <1> HIDE DEF j, f
  <1>6. TypeOK'
    BY <1>1, <1>2, <1>3, <1>4, <1>5, AbsentRowType DEF CalmInv, TypeOK
  <1>7. ASSUME NEW k \in Jobs PROVE JobOK(k)'
    <2>1. CASE k = j
      BY <2>1, <1>1, <1>2, <1>3, <1>4 DEF CalmInv, TypeOK, JobOK
    <2>2. CASE k # j
      BY <2>2, <1>3, <1>4 DEF CalmInv, TypeOK, JobOK
    <2>3. QED BY <2>1, <2>2
  <1>8. ASSUME NEW v \in Workers, v # w, pc[v] \in Busy \union {"sweeping"}
        PROVE  task[v] # j
    <2>1. CASE pc[w] = "sweeping"
      <3>1. \A u \in Workers : ~OnJob(u, j)
        BY <2>1, <1>1 DEF CalmInv, WorkerOK, j
      <3>2. pc[v] # "sweeping"
        BY <2>1, <1>8 DEF CalmInv, Exclusive
      <3>3. QED BY <3>1, <3>2, <1>8
    <2>2. CASE pc[w] # "sweeping"
      <3>1. OnJob(w, j)
        BY <2>2 DEF j
      <3>2. CASE pc[v] = "sweeping"
        BY <3>1, <3>2, <1>1 DEF CalmInv, WorkerOK
      <3>3. CASE pc[v] \in Busy
        BY <3>1, <3>3, <1>1, <1>8 DEF CalmInv, Exclusive, OneRunner
      <3>4. QED BY <3>2, <3>3, <1>8
    <2>3. QED BY <2>1, <2>2
  <1>9. ASSUME NEW v \in Workers PROVE WorkerOK(v)'
    <2>1. CASE v = w
      BY <2>1, <1>5 DEF CalmInv, TypeOK, WorkerOK
    <2>2. CASE v # w
      BY <2>2, <1>3, <1>5, <1>8 DEF CalmInv, TypeOK, WorkerOK, Held
    <2>3. QED BY <2>1, <2>2
  <1>10. ASSUME NEW r \in Requests PROVE RequestOK(r)'
    BY <1>1, <1>2, <1>3, <1>5 DEF CalmInv, TypeOK, RequestOK
  <1>11. Exclusive'
    BY <1>5 DEF CalmInv, TypeOK, Exclusive, OneRunner
  <1>12. QED BY <1>6, <1>7, <1>9, <1>10, <1>11 DEF CalmInv

-----------------------------------------------------------------------------
\* The actions with a write of their own.
LEMMA EnqueueCalm ==
    ASSUME CalmInv, NEW j \in Jobs, Enqueue(j)
    PROVE  CalmInv'
  <1> USE DEF Enqueue, workerVars, clientVars
  <1>1. TypeOK'
    <2>1. row[j] \in Row
      BY DEF CalmInv, TypeOK
    <2>2. [row[j] EXCEPT !.status = "queued"] \in Row
      BY <2>1 DEF Row, Statuses
    <2>3. row' = [row EXCEPT ![j] = [row[j] EXCEPT !.status = "queued"]]
      BY DEF CalmInv, TypeOK
    <2>4. QED BY <2>2, <2>3 DEF CalmInv, TypeOK
  <1>2. ASSUME NEW k \in Jobs PROVE JobOK(k)'
    BY QueueAssumption DEF CalmInv, TypeOK, JobOK
  <1>3. \A w \in Workers : WorkerOK(w)'
    BY DEF CalmInv, TypeOK, WorkerOK, Held
  <1>4. \A r \in Requests : RequestOK(r)'
    BY DEF CalmInv, TypeOK, RequestOK
  <1>5. Exclusive'
    BY DEF CalmInv, TypeOK, Exclusive, OneRunner
  <1>6. QED BY <1>1, <1>2, <1>3, <1>4, <1>5 DEF CalmInv

\* An idle worker takes a queued row: nobody else is on that job.
LEMMA ClaimCalm ==
    ASSUME CalmInv, NEW w \in Workers, NEW j \in Jobs, Claim(w, j)
    PROVE  CalmInv'
  <1> DEFINE f == [row[j] EXCEPT !.status = "running", !.locked_by = w,
                                 !.locked_at = "fresh", !.attempts = row[j].attempts + 1]
             a == [n |-> row[j].attempts + 1, worker |-> w]
  <1>1. /\ row[j].status = "queued" /\ row[j] \in Row /\ open[j] = {}
        /\ row[j].attempts < MaxAttempts
    BY DEF Claim, CalmInv, TypeOK, JobOK
  <1>a. row[j].attempts \in Nat
    BY <1>1 DEF Row
  <1>2. /\ f \in Row /\ f.status = "running" /\ f.locked_by = w
        /\ f.locked_at = "fresh" /\ f.attempts = row[j].attempts + 1
    <2>1. "running" \in Statuses
      BY DEF Statuses
    <2>2. row[j].attempts + 1 \in Nat
      BY <1>a
    <2>3. f \in Row
      BY <1>1, <2>1, <2>2 DEF Row
    <2>4. QED BY <1>1, <2>3 DEF Row
  <1>3. row' = [row EXCEPT ![j] = f]
    <2>1. row \in [Jobs -> Row]
      BY DEF CalmInv, TypeOK
    <2>2. QED BY <2>1, <1>1 DEF Claim
  <1>4. open' = [open EXCEPT ![j] = {a}] /\ a \in Attempt
    BY <1>1, <1>a DEF Claim, CalmInv, TypeOK, Attempt
  <1>5. /\ pc[w] = "idle"
        /\ pc' = [pc EXCEPT ![w] = "working"]
        /\ task' = [task EXCEPT ![w] = j]
        /\ snap' = snap /\ req' = req /\ asked' = asked
    BY DEF Claim, clientVars
  <1>6. \A v \in Workers : pc[v] \in Busy \union {"sweeping"} => task[v] # j
    BY <1>1 DEF CalmInv, WorkerOK, Held
  <1> HIDE DEF f
  <1>7. TypeOK'
    BY <1>2, <1>3, <1>4, <1>5 DEF CalmInv, TypeOK
  <1>8. ASSUME NEW k \in Jobs PROVE JobOK(k)'
    <2>1. CASE k = j
      BY <2>1, <1>1, <1>a, <1>2, <1>3, <1>4, QueueAssumption DEF CalmInv, TypeOK, JobOK
    <2>2. CASE k # j
      BY <2>2, <1>3, <1>4 DEF CalmInv, TypeOK, JobOK
    <2>3. QED BY <2>1, <2>2
  <1>9. ASSUME NEW v \in Workers PROVE WorkerOK(v)'
    <2>1. CASE v = w
      BY <2>1, <1>2, <1>3, <1>5 DEF CalmInv, TypeOK, WorkerOK, Held
    <2>2. CASE v # w
      BY <2>2, <1>3, <1>5, <1>6 DEF CalmInv, TypeOK, WorkerOK, Held
    <2>3. QED BY <2>1, <2>2
  <1>10. ASSUME NEW r \in Requests PROVE RequestOK(r)'
    BY <1>1, <1>2, <1>3, <1>5 DEF CalmInv, TypeOK, RequestOK
  <1>11. Exclusive'
    BY <1>5, <1>6 DEF CalmInv, TypeOK, Exclusive, OneRunner
  <1>12. QED BY <1>7, <1>8, <1>9, <1>10, <1>11 DEF CalmInv

\* A write to one column of a live row that no invariant but the lock time
\* depends on: a heartbeat, and the passing of the lease.
LEMMA LockTimeCalm ==
    ASSUME CalmInv, NEW j \in Jobs, NEW t \in {"fresh", "stale"},
           row[j].status \in {"running", "canceled"},
           t = "stale" => \A w \in Workers : ~OnJob(w, j),
           row' = [row EXCEPT ![j].locked_at = t],
           UNCHANGED <<open, task, req, asked>>,
           \A w \in Workers :
             /\ pc'[w] # pc[w] => pc[w] \in Busy /\ pc'[w] = "working"
             /\ snap'[w] \in {snap[w], AbsentRow}
             /\ snap'[w] # snap[w] => pc'[w] # pc[w],
           pc' \in [Workers -> {"idle", "sweeping", "dead"} \union Busy],
           snap' \in [Workers -> Row]
    PROVE  CalmInv'
  <1> DEFINE f == [row[j] EXCEPT !.locked_at = t]
  <1>a. row[j] \in Row
    BY DEF CalmInv, TypeOK
  <1>1. /\ f \in Row /\ f.status = row[j].status /\ f.locked_by = row[j].locked_by
        /\ f.attempts = row[j].attempts /\ f.locked_at = t
    BY <1>a DEF Row
  <1>2. row' = [row EXCEPT ![j] = f]
    BY DEF CalmInv, TypeOK
  <1> HIDE DEF f
  <1>3. TypeOK'
    BY <1>1, <1>2 DEF CalmInv, TypeOK
  <1>4. ASSUME NEW k \in Jobs PROVE JobOK(k)'
    BY <1>1, <1>2 DEF CalmInv, TypeOK, JobOK
  <1>5. ASSUME NEW w \in Workers PROVE WorkerOK(w)'
    <2>1. CASE pc'[w] # pc[w]
      BY <2>1, <1>1, <1>2 DEF CalmInv, TypeOK, WorkerOK, Held
    <2>2. CASE pc'[w] = pc[w]
      <3>1. \A v \in Workers, k \in Jobs : OnJob(v, k)' => OnJob(v, k)
        OBVIOUS
      <3>2. snap'[w] = snap[w]
        BY <2>2
      <3>3. QED BY <2>2, <3>1, <3>2, <1>1, <1>2 DEF CalmInv, TypeOK, WorkerOK, Held
    <2>3. QED BY <2>1, <2>2
  <1>6. ASSUME NEW r \in Requests PROVE RequestOK(r)'
    BY <1>1, <1>2 DEF CalmInv, TypeOK, RequestOK
  <1>7. Exclusive'
    BY DEF CalmInv, TypeOK, Exclusive, OneRunner
  <1>8. QED BY <1>3, <1>4, <1>5, <1>6, <1>7 DEF CalmInv

\* A sweep loads a row whose worker is gone; it is the only sweep running.
LEMMA SweepReadCalm ==
    ASSUME Calm, CalmInv, NEW w \in Workers, NEW j \in Jobs, SweepRead(w, j)
    PROVE  CalmInv'
  <1> USE DEF SweepRead, IsOrphan, clientVars
  <1>1. \A v \in Workers : pc[v] # "sweeping"
    BY DEF Calm
  <1>2. \A v \in Workers : ~OnJob(v, j)
    BY DEF CalmInv, WorkerOK
  <1>3. TypeOK'
    BY DEF CalmInv, TypeOK
  <1>4. \A k \in Jobs : JobOK(k)'
    BY DEF CalmInv, JobOK
  <1>5. ASSUME NEW v \in Workers PROVE WorkerOK(v)'
    <2>1. CASE v = w
      BY <2>1, <1>2 DEF CalmInv, TypeOK, WorkerOK, Held, JobOK
    <2>2. CASE v # w
      BY <2>2 DEF CalmInv, TypeOK, WorkerOK, Held
    <2>3. QED BY <2>1, <2>2
  <1>6. \A r \in Requests : RequestOK(r)'
    BY DEF CalmInv, RequestOK
  <1>7. Exclusive'
    BY <1>1 DEF CalmInv, TypeOK, Exclusive, OneRunner
  <1>8. QED BY <1>3, <1>4, <1>5, <1>6, <1>7 DEF CalmInv

\* A request loads the row it is about.
LEMMA RequestReadCalm ==
    ASSUME Calm, CalmInv, NEW r \in Requests, NEW op \in Ops, NEW j \in Jobs,
           RequestRead(r, op, j)
    PROVE  CalmInv'
  <1> USE DEF RequestRead, workerVars
  <1>1. \A s \in Requests : req[s] = NoRequest
    BY DEF Calm
  <1>2. op \in ClientOps
    BY QueueAssumption
  <1>3. TypeOK'
    BY <1>2 DEF CalmInv, TypeOK
  <1>4. \A k \in Jobs : JobOK(k)'
    BY DEF CalmInv, JobOK
  <1>5. \A v \in Workers : WorkerOK(v)'
    BY DEF CalmInv, WorkerOK, Held
  <1>6. ASSUME NEW s \in Requests PROVE RequestOK(s)'
    <2>1. CASE s = r
      BY <2>1, <1>2 DEF CalmInv, TypeOK, RequestOK, Accepts, JobOK
    <2>2. CASE s # r
      BY <2>2, <1>1 DEF CalmInv, TypeOK, RequestOK
    <2>3. QED BY <2>1, <2>2
  <1>7. Exclusive'
    BY <1>1 DEF CalmInv, TypeOK, Exclusive, OneRunner
  <1>8. QED BY <1>3, <1>4, <1>5, <1>6, <1>7 DEF CalmInv

\* Closing a request ends the only one there is.
LEMMA DoneRequest ==
    ASSUME CalmInv, NEW r \in Requests, req[r] # NoRequest, Done(r)
    PROVE  /\ \A s \in Requests : req'[s] = NoRequest
           /\ req' \in [Requests -> [op : ClientOps \union {"none"},
                                     job : Jobs \union {NoJob}, snap : Row]]
  <1>1. \A s \in Requests : s # r => req[s] = NoRequest
    BY DEF CalmInv, Exclusive
  <1>2. NoRequest \in [op : ClientOps \union {"none"},
                       job : Jobs \union {NoJob}, snap : Row]
    BY AbsentRowType DEF NoRequest
  <1>3. req \in [Requests -> [op : ClientOps \union {"none"},
                              job : Jobs \union {NoJob}, snap : Row]]
    BY DEF CalmInv, TypeOK
  <1>4. QED BY <1>1, <1>2, <1>3 DEF Done

\* A request that finds its row deleted ends and changes no row.
LEMMA RequestFailsCalm ==
    ASSUME CalmInv, NEW r \in Requests, req[r] # NoRequest, Done(r),
           UNCHANGED <<row, open, pc, task, snap>>, asked' \in [Jobs -> BOOLEAN]
    PROVE  CalmInv'
  <1>1. TypeOK'
    BY DoneRequest DEF CalmInv, TypeOK
  <1>2. \A k \in Jobs : JobOK(k)'
    BY DEF CalmInv, JobOK
  <1>3. \A v \in Workers : WorkerOK(v)'
    BY DEF CalmInv, WorkerOK, Held
  <1>4. \A s \in Requests : RequestOK(s)'
    BY DoneRequest DEF RequestOK, NoRequest
  <1>5. Exclusive'
    BY DoneRequest DEF CalmInv, TypeOK, Exclusive, OneRunner
  <1>6. QED BY <1>1, <1>2, <1>3, <1>4, <1>5 DEF CalmInv

\* DELETE: whoever still has the job in hand finds no row to write.
LEMMA DeleteWriteCalm ==
    ASSUME CalmInv, NEW r \in Requests, DeleteWrite(r)
    PROVE  CalmInv'
  <1> DEFINE j == req[r].job
             f == [AbsentRow EXCEPT !.status = "deleted"]
  <1>1. req[r] # NoRequest /\ j \in Jobs /\ Done(r)
    BY DEF DeleteWrite, CalmInv, RequestOK, NoRequest
  <1>2. f \in Row /\ f.status = "deleted" /\ f.locked_by = NoWorker /\ f.attempts = 0
    BY DEF AbsentRow, Row, Statuses
  <1>3. row' = [row EXCEPT ![j] = f] /\ open' = [open EXCEPT ![j] = {}]
        /\ UNCHANGED <<pc, task, snap, asked>>
    BY DEF DeleteWrite, workerVars
  <1> HIDE DEF j, f
  <1>4. TypeOK'
    BY <1>1, <1>2, <1>3, DoneRequest DEF CalmInv, TypeOK
  <1>5. ASSUME NEW k \in Jobs PROVE JobOK(k)'
    BY <1>2, <1>3, QueueAssumption DEF CalmInv, TypeOK, JobOK
  <1>6. \A v \in Workers : WorkerOK(v)'
    BY <1>2, <1>3 DEF CalmInv, TypeOK, WorkerOK, Held
  <1>7. \A s \in Requests : RequestOK(s)'
    BY <1>1, DoneRequest DEF RequestOK, NoRequest
  <1>8. Exclusive'
    BY <1>1, <1>3, DoneRequest DEF CalmInv, TypeOK, Exclusive, OneRunner
  <1>9. QED BY <1>4, <1>5, <1>6, <1>7, <1>8 DEF CalmInv

\* Every operation makes a row of a row.
LEMMA AppliedType ==
    ASSUME NEW s \in Row, NEW op \in ClientOps \ {"delete"}
    PROVE  Applied(op, s) \in Row
  <1>1. {"queued", "canceled", "succeeded", "failed"} \subseteq Statuses
    BY DEF Statuses
  <1>2. Unlocked(s) \in Row
    BY DEF Unlocked, Row
  <1>3. CancelRequested(s) \in Row
    BY <1>1, <1>2 DEF CancelRequested, Unlocked, Row
  <1>4. McpCanceled(s) \in Row
    BY <1>1 DEF McpCanceled, Row
  <1>5. Approved(s) \in Row /\ Rejected(s) \in Row
    BY <1>1 DEF Approved, Rejected, Row
  <1>6. Rerendered(s) \in Row
    BY <1>1 DEF Rerendered, Row
  <1>7. QED BY <1>3, <1>4, <1>5, <1>6 DEF Applied

\* Approve, reject and rerender act on a finished row nobody else touches.
LEMMA FinishedRequest ==
    ASSUME CalmInv, NEW r \in Requests, req[r] # NoRequest,
           req[r].op \in {"approve", "reject", "rerender"}
    PROVE  LET j == req[r].job
               f == Flush(row[j], req[r].snap, Applied(req[r].op, req[r].snap))
           IN  /\ row[j].status \in Finished
               /\ f.status \in Finished \union {"queued"}
               /\ f.locked_by = NoWorker
               /\ f.attempts <= MaxAttempts
               /\ f.status = "queued" => f.attempts < MaxAttempts
  <1> DEFINE j == req[r].job
             s == req[r].snap
             n == Applied(req[r].op, s)
             f == Flush(row[j], s, n)
  <1>1. /\ j \in Jobs /\ s \in Row /\ row[j] = s /\ s.status \in Finished
    BY DEF CalmInv, TypeOK, RequestOK
  <1>2. s.locked_by = NoWorker /\ s.attempts <= MaxAttempts
    BY <1>1 DEF CalmInv, JobOK
  <1>3. n \in Row
    BY <1>1, AppliedType
  <1> HIDE DEF j, s
  <1>4. CASE req[r].op = "rerender"
    <2>1. n.status = "queued" /\ n.locked_by = NoWorker /\ n.attempts = 0
      BY <1>1, <1>4 DEF Applied, Rerendered, Row
    <2>2. QED BY <2>1, <1>1, <1>2, QueueAssumption DEF Flush, Changed, j, s
  <1>5. CASE req[r].op \in {"approve", "reject"}
    <2>1. /\ n.status \in Finished
          /\ n.locked_by = s.locked_by /\ n.attempts = s.attempts
      BY <1>1, <1>5 DEF Applied, Approved, Rejected, Row
    <2>2. QED BY <2>1, <1>1, <1>2 DEF Flush, Changed, j, s
  <1>6. QED BY <1>4, <1>5

\* A cancellation sets the flag, or the status, and leaves the rest of a row
\* that stays live as it is.
LEMMA CancelRequest ==
    ASSUME CalmInv, NEW r \in Requests, req[r] # NoRequest,
           req[r].op \in {"cancel", "mcp_cancel"}
    PROVE  LET j == req[r].job
               f == Flush(row[j], req[r].snap, Applied(req[r].op, req[r].snap))
           IN  /\ f.status \in {"canceled", row[j].status}
               /\ f.locked_by = row[j].locked_by
               /\ f.attempts = row[j].attempts
               /\ f.status # "canceled" => f.locked_at = row[j].locked_at
  <1> DEFINE j == req[r].job
             s == req[r].snap
             n == Applied(req[r].op, s)
  <1>1. /\ j \in Jobs /\ s \in Row /\ row[j] \in Row
        /\ req[r].op = "cancel" => s.status \in {"queued", "running"}
        /\ req[r].op = "mcp_cancel" => s.status # "canceled"
        /\ req[r].op = "cancel" /\ s.status = "queued" => s.locked_by = NoWorker
    BY DEF CalmInv, TypeOK, RequestOK
  <1> HIDE DEF j, s
  <1>2. CASE req[r].op = "mcp_cancel"
    <2>1. /\ n.status = "canceled" /\ n.locked_by = s.locked_by
          /\ n.locked_at = s.locked_at /\ n.attempts = s.attempts
      BY <1>1, <1>2 DEF Applied, McpCanceled, Row
    <2>2. QED BY <2>1, <1>1, <1>2 DEF Flush, Changed, j, s
  <1>3. CASE req[r].op = "cancel" /\ s.status = "queued"
    <2>1. /\ n.status = "canceled" /\ n.locked_by = s.locked_by
          /\ n.attempts = s.attempts
      BY <1>1, <1>3 DEF Applied, CancelRequested, Unlocked, Row
    <2>2. QED BY <2>1, <1>1, <1>3 DEF Flush, Changed, j, s
  <1>4. CASE req[r].op = "cancel" /\ s.status = "running"
    <2>1. /\ n.status = s.status /\ n.locked_by = s.locked_by
          /\ n.locked_at = s.locked_at /\ n.attempts = s.attempts
      BY <1>1, <1>4 DEF Applied, CancelRequested, Row
    <2>2. QED BY <2>1, <1>1, <1>4 DEF Flush, Changed, j, s
  <1>5. QED BY <1>1, <1>2, <1>3, <1>4

LEMMA RequestWriteCalm ==
    ASSUME CalmInv, NEW r \in Requests, RequestWrite(r)
    PROVE  CalmInv'
  <1> DEFINE j == req[r].job
             op == req[r].op
             f == Flush(row[j], req[r].snap, Applied(op, req[r].snap))
  <1>1. /\ req[r] # NoRequest /\ j \in Jobs /\ Done(r)
        /\ op \in ClientOps \ {"delete"}
        /\ row[j].status # "absent"
        /\ row[j] \in Row
    BY DEF RequestWrite, CalmInv, RequestOK, NoRequest, TypeOK
  <1>0. asked' \in [Jobs -> BOOLEAN]
    BY DEF RequestWrite, CalmInv, TypeOK
  <1>a. CASE row[j].status = "deleted"
    <2>1. row' = row
      BY <1>a, <1>1 DEF RequestWrite, Exists, CalmInv, TypeOK
    <2>2. UNCHANGED <<row, open, pc, task, snap>>
      BY <2>1 DEF RequestWrite, workerVars
    <2>3. QED BY <2>2, <1>0, <1>1, RequestFailsCalm
  <1>b. SUFFICES ASSUME row[j].status # "deleted" PROVE CalmInv'
    BY <1>a
  <1>2. f \in Row
    <2>1. req[r].snap \in Row
      BY DEF CalmInv, TypeOK
    <2>2. QED BY <1>1, <2>1, AppliedType, FlushType
  <1>3. row' = [row EXCEPT ![j] = f] /\ UNCHANGED <<open, pc, task, snap>>
    BY <1>1, <1>b DEF RequestWrite, workerVars, Exists
  <1>5. TypeOK'
    BY <1>0, <1>1, <1>2, <1>3, DoneRequest DEF CalmInv, TypeOK
  <1>6. \A s \in Requests : RequestOK(s)'
    BY <1>1, DoneRequest DEF RequestOK
  <1>7. Exclusive'
    BY <1>1, <1>3, DoneRequest DEF CalmInv, TypeOK, Exclusive, OneRunner
  <1>8. CASE op \in {"approve", "reject", "rerender"}
    <2>1. /\ row[j].status \in Finished /\ f.status \in Finished \union {"queued"}
          /\ f.locked_by = NoWorker /\ f.attempts <= MaxAttempts
          /\ f.status = "queued" => f.attempts < MaxAttempts
      BY <1>1, <1>b, <1>8, FinishedRequest
    <2> HIDE DEF j, op, f
    <2>2. ASSUME NEW k \in Jobs PROVE JobOK(k)'
      BY <2>1, <1>1, <1>2, <1>3, <1>b DEF CalmInv, TypeOK, JobOK
    <2>3. ASSUME NEW v \in Workers PROVE WorkerOK(v)'
      BY <2>1, <1>1, <1>2, <1>3, <1>b DEF CalmInv, TypeOK, WorkerOK, Held
    <2>4. QED BY <2>2, <2>3, <1>5, <1>6, <1>7 DEF CalmInv
  <1>9. CASE op \in {"cancel", "mcp_cancel"}
    <2>1. /\ f.status \in {"canceled", row[j].status}
          /\ f.locked_by = row[j].locked_by /\ f.attempts = row[j].attempts
          /\ f.status # "canceled" => f.locked_at = row[j].locked_at
      BY <1>1, <1>b, <1>9, CancelRequest
    <2> HIDE DEF j, op, f
    <2>2. ASSUME NEW k \in Jobs PROVE JobOK(k)'
      BY <2>1, <1>1, <1>2, <1>3, <1>b DEF CalmInv, TypeOK, JobOK
    <2>3. ASSUME NEW v \in Workers PROVE WorkerOK(v)'
      BY <2>1, <1>1, <1>2, <1>3, <1>b DEF CalmInv, TypeOK, WorkerOK, Held
    <2>4. QED BY <2>2, <2>3, <1>5, <1>6, <1>7 DEF CalmInv
  <1>10. QED BY <1>1, <1>8, <1>9

\* What the handlers of queue.py make of the row a worker holds.
LEMMA Handled ==
    ASSUME NEW s \in Row
    PROVE  /\ \A n \in {Completed(s), HeldForReview(s), JobCanceled(s), Failed(s), Recovered(s)} :
                /\ n \in Row /\ n.locked_by = NoWorker /\ n.attempts = s.attempts
                /\ n.status \in Terminal \union {"queued"}
           /\ Completed(s).status = "succeeded"
           /\ HeldForReview(s).status = "needs_review"
           /\ JobCanceled(s).status = "canceled"
           /\ \A n \in {Failed(s), Recovered(s)} :
                \/ n.status = "failed"
                \/ n.status = "queued" /\ s.attempts < MaxAttempts
  <1>1. /\ Unlocked(s) \in Row /\ Unlocked(s).locked_by = NoWorker
        /\ Unlocked(s).attempts = s.attempts
    BY DEF Unlocked, Row
  <1>2. {"succeeded", "needs_review", "failed", "canceled", "queued"} \subseteq Statuses
    BY DEF Statuses
  <1>3. s.attempts \in Nat /\ MaxAttempts \in Nat
    BY QueueAssumption DEF Row
  <1>4. \A t \in {"succeeded", "needs_review", "failed", "canceled", "queued"} :
          LET n == [Unlocked(s) EXCEPT !.status = t]
          IN  /\ n \in Row /\ n.locked_by = NoWorker
              /\ n.attempts = s.attempts /\ n.status = t
    BY <1>1, <1>2 DEF Row
  <1>5. QED BY <1>3, <1>4 DEF Completed, HeldForReview, JobCanceled, Failed, Recovered

\* The heartbeats and the reads at the head of a terminal write.
LEMMA RefreshCalm ==
    ASSUME CalmInv, NEW w \in Workers,
           NEW p \in {"beating", "canceling", "finishing"}, Refresh(w, p)
    PROVE  CalmInv'
  <1>1. pc[w] = "working" /\ UNCHANGED <<row, open, clientVars>>
    BY DEF Refresh
  <1>2. CASE Goto(w, "failing")
    BY <1>1, <1>2, GotoCalm
  <1>3. CASE Release(w, "idle")
    BY <1>1, <1>3, ReleaseCalm
  <1>4. CASE Exists(task[w]) /\ Owns(row[task[w]], w) /\ Load(w, p)
    BY <1>1, <1>4, LoadCalm
  <1>5. QED BY <1>2, <1>3, <1>4 DEF Refresh

LEMMA HeartbeatWriteCalm ==
    ASSUME CalmInv, NEW w \in Workers, HeartbeatWrite(w)
    PROVE  CalmInv'
  <1>1. pc[w] = "beating" /\ UNCHANGED <<open, clientVars>>
    BY DEF HeartbeatWrite
  <1>2. CASE Exists(task[w])
    <2>1. /\ task[w] \in Jobs /\ row[task[w]].status \in {"running", "canceled"}
          /\ pc \in [Workers -> {"idle", "sweeping", "dead"} \union Busy]
          /\ snap \in [Workers -> Row]
      BY <1>1, <1>2 DEF CalmInv, TypeOK, WorkerOK, Held
    <2>2. /\ row' = [row EXCEPT ![task[w]].locked_at = "fresh"]
          /\ pc' = [pc EXCEPT ![w] = "working"]
          /\ snap' = [snap EXCEPT ![w] = AbsentRow]
          /\ task' = task
      BY <1>2 DEF HeartbeatWrite
    <2>3. UNCHANGED <<open, task, req, asked>>
      BY <1>1, <2>2 DEF clientVars
    <2>4. \A v \in Workers :
            /\ pc'[v] # pc[v] => pc[v] \in Busy /\ pc'[v] = "working"
            /\ snap'[v] \in {snap[v], AbsentRow}
            /\ snap'[v] # snap[v] => pc'[v] # pc[v]
      BY <1>1, <2>1, <2>2
    <2>5. /\ pc' \in [Workers -> {"idle", "sweeping", "dead"} \union Busy]
          /\ snap' \in [Workers -> Row]
      BY <2>1, <2>2, AbsentRowType
    <2>6. QED BY <2>1, <2>2, <2>3, <2>4, <2>5, LockTimeCalm
  <1>3. CASE ~Exists(task[w])
    <2>1. row' = row /\ Goto(w, "failing")
      BY <1>3 DEF HeartbeatWrite
    <2>2. QED BY <2>1, <1>1, GotoCalm
  <1>4. QED BY <1>2, <1>3

LEMMA LeaseExpiresCalm ==
    ASSUME Calm, CalmInv, NEW j \in Jobs, LeaseExpires(j)
    PROVE  CalmInv'
  <1>1. \A w \in Workers : ~OnJob(w, j)
    BY DEF LeaseExpires, Calm
  <1>2. row' = [row EXCEPT ![j].locked_at = "stale"] /\ row[j].status = "running"
        /\ UNCHANGED <<open, pc, task, snap, req, asked>>
    BY DEF LeaseExpires, workerVars, clientVars
  <1>3. /\ pc \in [Workers -> {"idle", "sweeping", "dead"} \union Busy]
        /\ snap \in [Workers -> Row]
    BY DEF CalmInv, TypeOK
  <1>4. QED BY <1>1, <1>2, <1>3, LockTimeCalm

\* A terminal write of the worker, each branch of it.
LEMMA FinishWriteCalm ==
    ASSUME Calm, CalmInv, NEW w \in Workers, FinishWrite(w)
    PROVE  CalmInv'
  <1>1. /\ pc[w] = "finishing" /\ snap[w] \in Row /\ snap[w].status = "running"
    BY DEF FinishWrite, CalmInv, TypeOK, WorkerOK
  <1>2. CASE Exists(task[w])
    <2>1. CASE WriteBack(w, Completed(snap[w]))
      BY <1>1, <1>2, <2>1, Handled, WriteBackCalm
    <2>2. CASE WriteBack(w, HeldForReview(snap[w]))
      BY <1>1, <1>2, <2>2, Handled, WriteBackCalm
    <2>3. QED BY <1>2, <2>1, <2>2 DEF FinishWrite
  <1>3. CASE ~Exists(task[w])
    BY <1>1, <1>3, GotoCalm DEF FinishWrite
  <1>4. QED BY <1>2, <1>3

LEMMA CancelWriteCalm ==
    ASSUME Calm, CalmInv, NEW w \in Workers, CancelWrite(w)
    PROVE  CalmInv'
  <1>1. /\ pc[w] = "canceling" /\ snap[w] \in Row /\ snap[w].status = "running"
    BY DEF CancelWrite, CalmInv, TypeOK, WorkerOK
  <1>2. CASE Exists(task[w])
    BY <1>1, <1>2, Handled, WriteBackCalm DEF CancelWrite
  <1>3. CASE ~Exists(task[w])
    BY <1>1, <1>3, ReleaseCalm DEF CancelWrite
  <1>4. QED BY <1>2, <1>3

LEMMA FailWriteCalm ==
    ASSUME Calm, CalmInv, NEW w \in Workers, FailWrite(w)
    PROVE  CalmInv'
  <1>1. /\ pc[w] = "recording" /\ snap[w] \in Row
        /\ snap[w].status \in {"running", "canceled"}
    BY DEF FailWrite, CalmInv, TypeOK, WorkerOK
  <1>2. CASE Exists(task[w])
    BY <1>1, <1>2, Handled, WriteBackCalm DEF FailWrite
  <1>3. CASE ~Exists(task[w])
    BY <1>1, <1>3, ReleaseCalm DEF FailWrite
  <1>4. QED BY <1>2, <1>3

LEMMA SweepWriteCalm ==
    ASSUME Calm, CalmInv, NEW w \in Workers, SweepWrite(w)
    PROVE  CalmInv'
  <1>1. /\ pc[w] = "sweeping" /\ snap[w] \in Row /\ snap[w].status = "running"
    BY DEF SweepWrite, CalmInv, TypeOK, WorkerOK
  <1>2. CASE Exists(task[w])
    BY <1>1, <1>2, Handled, WriteBackCalm DEF SweepWrite
  <1>3. CASE ~Exists(task[w])
    BY <1>1, <1>3, ReleaseCalm DEF SweepWrite
  <1>4. QED BY <1>2, <1>3

\* Every step of a worker, one case for each disjunct.
LEMMA WorkerCalm ==
    ASSUME Calm, CalmInv, NEW w \in Workers, WorkerStep(w)
    PROVE  CalmInv'
  <1>1. ASSUME NEW j \in Jobs, Claim(w, j) PROVE CalmInv'
    BY <1>1, ClaimCalm
  <1>2. ASSUME NEW j \in Jobs, SweepRead(w, j) PROVE CalmInv'
    BY <1>2, SweepReadCalm
  <1>3. CASE HeartbeatRead(w)
    BY <1>3, RefreshCalm DEF HeartbeatRead
  <1>4. CASE HeartbeatWrite(w)
    BY <1>4, HeartbeatWriteCalm
  <1>5. CASE FinishRead(w)
    BY <1>5, RefreshCalm DEF FinishRead
  <1>6. CASE FinishWrite(w)
    BY <1>6, FinishWriteCalm
  <1>7. CASE CancelWrite(w)
    BY <1>7, CancelWriteCalm
  <1>8. CASE RunRaises(w)
    BY <1>8, GotoCalm DEF RunRaises
  <1>9. CASE FailRead(w)
    <2>1. CASE Exists(task[w]) /\ row[task[w]].locked_by = w
      BY <1>9, <2>1, LoadCalm DEF FailRead
    <2>2. CASE ~(Exists(task[w]) /\ row[task[w]].locked_by = w)
      BY <1>9, <2>2, ReleaseCalm DEF FailRead
    <2>3. QED BY <2>1, <2>2
  <1>10. CASE FailWrite(w)
    BY <1>10, FailWriteCalm
  <1>11. CASE GiveUp(w)
    BY <1>11, ReleaseCalm DEF GiveUp
  <1>12. CASE SweepWrite(w)
    BY <1>12, SweepWriteCalm
  <1>13. CASE Crash(w)
    BY <1>13, ReleaseCalm DEF Crash
  <1>14. QED
    BY <1>1, <1>2, <1>3, <1>4, <1>5, <1>6, <1>7, <1>8, <1>9, <1>10, <1>11,
       <1>12, <1>13 DEF WorkerStep

LEMMA NextCalm ==
    ASSUME Calm, CalmInv, [Next]_vars
    PROVE  CalmInv'
  <1>1. ASSUME NEW j \in Jobs, Enqueue(j) \/ LeaseExpires(j) PROVE CalmInv'
    BY <1>1, EnqueueCalm, LeaseExpiresCalm
  <1>2. ASSUME NEW w \in Workers, WorkerStep(w) PROVE CalmInv'
    BY <1>2, WorkerCalm
  <1>3. ASSUME NEW r \in Requests, ClientStep(r) PROVE CalmInv'
    BY <1>3, RequestReadCalm, RequestWriteCalm, DeleteWriteCalm DEF ClientStep
  <1>4. CASE UNCHANGED vars
    BY <1>4 DEF vars, CalmInv, TypeOK, JobOK, WorkerOK, Held, RequestOK,
                Exclusive, OneRunner
  <1>5. QED BY <1>1, <1>2, <1>3, <1>4 DEF Next

-----------------------------------------------------------------------------
\* CalmInv is an invariant when sweeps and requests do not overlap and no
\* worker outlasts its lease.
THEOREM CalmInvariant == Calm => (Spec => []CalmInv)
  <1> SUFFICES ASSUME Calm PROVE Spec => []CalmInv
    OBVIOUS
  <1>1. Init => CalmInv
    BY InitCalm
  <1>2. CalmInv /\ [Next]_vars => CalmInv'
    BY NextCalm
  <1>3. QED BY <1>1, <1>2, PTL DEF Spec

\* Type correctness of every reachable state of a calm queue.
THEOREM TypeCorrect == Calm => (Spec => []TypeOK)
  <1>1. CalmInv => TypeOK
    BY DEF CalmInv
  <1>2. QED BY <1>1, CalmInvariant, PTL

\* A crash never strands a running job: the sweep can always select its row.
THEOREM NeverStranded == Calm => (Spec => []NoStranded)
  <1>1. CalmInv => NoStranded
    BY DEF CalmInv, JobOK, NoStranded
  <1>2. QED BY <1>1, CalmInvariant, PTL

\* No two live workers ever run the same job.
THEOREM AtMostOneRunner == Calm => (Spec => []OneRunner)
  <1>1. CalmInv => OneRunner
    BY DEF CalmInv, Exclusive
  <1>2. QED BY <1>1, CalmInvariant, PTL

\* No job is run more than max_attempts times between two (re)enqueues.
THEOREM AttemptsNeverExceeded == Calm => (Spec => []AttemptsBounded)
  <1>1. CalmInv => AttemptsBounded
    BY DEF CalmInv, JobOK, AttemptsBounded
  <1>2. QED BY <1>1, CalmInvariant, PTL

\* The attempts on record agree with the rows.
THEOREM LedgerConsistent == Calm => (Spec => []AttemptLedger)
  <1>1. CalmInv => AttemptLedger
    BY DEF CalmInv, JobOK, AttemptLedger
  <1>2. QED BY <1>1, CalmInvariant, PTL

\* A worker's or a sweep's step leaves the status of every finished job as
\* it is: the rows it may still write are running or cancelled.
LEMMA WorkerKeepsFinished ==
    ASSUME CalmInv, NEW w \in Workers, WorkerStep(w),
           NEW j \in Jobs, row[j].status \in Finished
    PROVE  row'[j].status = row[j].status
  <1>1. /\ row \in [Jobs -> Row]
        /\ pc[w] \in Busy \union {"sweeping"} => task[w] # j
    BY DEF CalmInv, TypeOK, WorkerOK, Held
  <1>2. ASSUME NEW k \in Jobs, Claim(w, k) PROVE row'[j] = row[j]
    <2>1. k # j
      BY <1>2 DEF Claim
    <2>2. QED BY <1>1, <1>2, <2>1 DEF Claim
  <1>3. ASSUME NEW new, WriteBack(w, new), pc[w] \in Busy \union {"sweeping"}
        PROVE  row'[j] = row[j]
    BY <1>1, <1>3 DEF WriteBack
  <1>4. CASE HeartbeatWrite(w)
    BY <1>1, <1>4 DEF HeartbeatWrite
  <1>5. CASE FinishWrite(w)
    BY <1>3, <1>5 DEF FinishWrite
  <1>6. CASE CancelWrite(w)
    BY <1>3, <1>6 DEF CancelWrite
  <1>7. CASE FailWrite(w)
    BY <1>3, <1>7 DEF FailWrite
  <1>8. CASE SweepWrite(w)
    BY <1>3, <1>8 DEF SweepWrite
  <1>9. QED
    BY <1>2, <1>4, <1>5, <1>6, <1>7, <1>8
       DEF WorkerStep, SweepRead, HeartbeatRead, FinishRead, Refresh, RunRaises,
           FailRead, GiveUp, Crash

LEMMA OnlyRequestsMoveFinished ==
    ASSUME CalmInv, [Next]_vars, NEW j \in Jobs,
           row[j].status \in Finished, row'[j].status # row[j].status
    PROVE  \E r \in Requests : req[r].job = j /\ req'[r] = NoRequest
  <1>0. /\ row \in [Jobs -> Row]
        /\ req \in [Requests -> [op : ClientOps \union {"none"},
                               job : Jobs \union {NoJob}, snap : Row]]
    BY DEF CalmInv, TypeOK
  <1>1. ASSUME NEW k \in Jobs, Enqueue(k) \/ LeaseExpires(k) PROVE FALSE
    <2>1. row'[j].status = row[j].status
      BY <1>0, <1>1 DEF Enqueue, LeaseExpires
    <2>2. QED BY <2>1
  <1>2. ASSUME NEW w \in Workers, WorkerStep(w) PROVE FALSE
    BY <1>2, WorkerKeepsFinished
  <1>3. ASSUME NEW r \in Requests, ClientStep(r)
        PROVE  req[r].job = j /\ req'[r] = NoRequest
    <2>1. RequestWrite(r) \/ DeleteWrite(r)
      BY <1>3 DEF ClientStep, RequestRead
    <2>2. req'[r] = NoRequest
      BY <2>1, <1>0 DEF RequestWrite, DeleteWrite, Done
    <2>3. req[r].job = j
      BY <2>1, <1>0 DEF RequestWrite, DeleteWrite
    <2>4. QED BY <2>2, <2>3
  <1>4. CASE UNCHANGED vars
    BY <1>4 DEF vars
  <1>5. QED BY <1>1, <1>2, <1>3, <1>4 DEF Next

\* Only a client changes what became of a finished job.
THEOREM FinishedJobsStay == Calm => (Spec => FinishedStays)
  <1>1. CalmInv /\ [Next]_vars =>
          [\A j \in Jobs :
             row[j].status \in Finished /\ row'[j].status # row[j].status =>
               \E r \in Requests : req[r].job = j /\ req'[r] = NoRequest]_vars
    BY OnlyRequestsMoveFinished
  <1>2. QED BY <1>1, CalmInvariant, PTL DEF Spec, FinishedStays

-----------------------------------------------------------------------------
\* JobQueue implements JobLifecycle where no client cancels: a cancel that
\* loaded the job in the queue may commit over one that has ended meanwhile.
Uncanceled == Ops \subseteq {"approve", "reject", "rerender", "delete"}

NoCancel ==
    /\ \A j \in Jobs : row[j].status # "canceled" /\ ~row[j].cancel_requested
    /\ \A w \in Workers : pc[w] # "canceling"
    /\ \A r \in Requests : req[r].op \notin {"cancel", "mcp_cancel"}

Status == [j \in Jobs |-> row[j].status]

\* The moves of one job that the documented life cycle has.
Documented(a, b) ==
    \/ a = b
    \/ a = "absent" /\ b = "queued"
    \/ a = "queued" /\ b = "running"
    \/ a = "running" /\ b \in {"queued", "succeeded", "needs_review", "failed"}
    \/ a = "needs_review" /\ b \in {"succeeded", "failed"}
    \/ a \in Finished /\ b = "queued"
    \/ a # "absent" /\ b = "deleted"

LEMMA DocumentedMove ==
    ASSUME CalmInv, NEW j \in Jobs, NEW f, row' = [row EXCEPT ![j] = f],
           Documented(row[j].status, f.status)
    PROVE  [Lifecycle!Next]_Status
  <1>1. Status[j] = row[j].status /\ Status' = [Status EXCEPT ![j] = f.status]
    BY DEF CalmInv, TypeOK, Status
  <1>2. CASE row[j].status = f.status
    BY <1>1, <1>2 DEF Status
  <1>3. CASE row[j].status # f.status
    <2>1. \/ Lifecycle!Enqueue(j) \/ Lifecycle!Claim(j) \/ Lifecycle!Settle(j)
          \/ Lifecycle!Retry(j) \/ Lifecycle!Review(j) \/ Lifecycle!Rerender(j)
          \/ Lifecycle!Delete(j)
      BY <1>1, <1>3 DEF Documented, Status, Lifecycle!Move, Lifecycle!Enqueue,
         Lifecycle!Claim, Lifecycle!Settle, Lifecycle!Retry, Lifecycle!Review,
         Lifecycle!Rerender, Lifecycle!Delete
    <2>2. QED BY <2>1 DEF Lifecycle!Next
  <1>4. QED BY <1>2, <1>3

\* What a step does to the rows here: at most one row moves, as documented,
\* and no cancellation appears on it.
RowMove ==
    \/ UNCHANGED row
    \/ \E j \in Jobs, f \in Row :
         /\ row' = [row EXCEPT ![j] = f]
         /\ Documented(row[j].status, f.status)
         /\ f.status # "canceled"
         /\ ~f.cancel_requested

LEMMA RowMoveKeeps ==
    ASSUME CalmInv, NoCancel, RowMove
    PROVE  /\ [Lifecycle!Next]_Status
           /\ \A j \in Jobs : (row[j].status # "canceled" /\ ~row[j].cancel_requested)'
  <1>1. CASE UNCHANGED row
    BY <1>1 DEF NoCancel, Status
  <1>2. CASE ~UNCHANGED row
    <2>1. PICK j \in Jobs, f \in Row :
            /\ row' = [row EXCEPT ![j] = f]
            /\ Documented(row[j].status, f.status)
            /\ f.status # "canceled" /\ ~f.cancel_requested
      BY <1>2 DEF RowMove
    <2>2. [Lifecycle!Next]_Status
      BY <2>1, DocumentedMove
    <2>3. \A k \in Jobs : (row[k].status # "canceled" /\ ~row[k].cancel_requested)'
      BY <2>1 DEF NoCancel, CalmInv, TypeOK
    <2>4. QED BY <2>2, <2>3
  <1>3. QED BY <1>1, <1>2

LEMMA FlushCancel ==
    ASSUME NEW cur \in Row, NEW old \in Row, NEW new \in Row,
           new.cancel_requested = old.cancel_requested
    PROVE  Flush(cur, old, new).cancel_requested = cur.cancel_requested
  BY DEF Flush, Changed

\* A worker commits what it made of a running job.
LEMMA WriteBackMoves ==
    ASSUME CalmInv, NoCancel, NEW w \in Workers, NEW new \in Row,
           pc[w] \in {"finishing", "recording", "sweeping"}, Exists(task[w]),
           new.status \in Finished \union {"queued"}, new.status # snap[w].status,
           new.cancel_requested = snap[w].cancel_requested,
           WriteBack(w, new)
    PROVE  RowMove
  <1>1. PICK j \in Jobs : j = task[w]
    BY DEF CalmInv, WorkerOK
  <1> DEFINE f == Flush(row[j], snap[w], new)
  <1>2. row[j] \in Row /\ snap[w] \in Row
    BY DEF CalmInv, TypeOK
  <1>3. row[j].status = "running" /\ ~row[j].cancel_requested
    BY <1>1 DEF CalmInv, WorkerOK, Held, NoCancel
  <1>4. f \in Row /\ f.status = new.status
    BY <1>2, FlushType
  <1>5. ~f.cancel_requested
    BY <1>2, <1>3, FlushCancel
  <1>6. row' = [row EXCEPT ![j] = f]
    BY <1>1 DEF WriteBack
  <1> HIDE DEF f
  <1>7. QED BY <1>3, <1>4, <1>5, <1>6 DEF RowMove, Documented

LEMMA HandledCancel ==
    ASSUME NEW s \in Row,
           NEW n \in {Completed(s), HeldForReview(s), Failed(s), Recovered(s)}
    PROVE  n.cancel_requested = s.cancel_requested
  <1> DEFINE u == Unlocked(s)
  <1>1. u \in Row /\ u.cancel_requested = s.cancel_requested
    BY DEF Unlocked, Row
  <1>2. n \in {[u EXCEPT !.status = "succeeded"], [u EXCEPT !.status = "needs_review"],
               [u EXCEPT !.status = "failed"], [u EXCEPT !.status = "queued"]}
    BY DEF Completed, HeldForReview, Failed, Recovered
  <1> HIDE DEF u
  <1>3. QED BY <1>1, <1>2 DEF Row

LEMMA WorkerMoves ==
    ASSUME CalmInv, NoCancel, NEW w \in Workers, WorkerStep(w)
    PROVE  RowMove
  <1>1. row \in [Jobs -> Row] /\ snap[w] \in Row
    BY DEF CalmInv, TypeOK
  <1>2. ASSUME NEW j \in Jobs, Claim(w, j) PROVE RowMove
    <2> DEFINE g == [row EXCEPT ![j].status = "running", ![j].locked_by = w]
               l == [g EXCEPT ![j].locked_at = "fresh"]
               h == [l EXCEPT ![j].attempts = @ + 1]
    <2>1. row' = h /\ row[j].status = "queued"
      BY <1>2 DEF Claim
    <2>2. /\ g \in [Jobs -> Row] /\ g[j].status = "running"
          /\ g[j].cancel_requested = row[j].cancel_requested
          /\ g = [row EXCEPT ![j] = g[j]]
      BY <1>1 DEF Row, Statuses
    <2> HIDE DEF g
    <2>3. /\ l \in [Jobs -> Row] /\ l[j].status = g[j].status
          /\ l[j].cancel_requested = g[j].cancel_requested
          /\ l = [g EXCEPT ![j] = l[j]]
      BY <2>2 DEF Row
    <2> HIDE DEF l
    <2>4. /\ h \in [Jobs -> Row] /\ h[j].status = l[j].status
          /\ h[j].cancel_requested = l[j].cancel_requested
          /\ h = [l EXCEPT ![j] = h[j]]
      BY <2>3 DEF Row
    <2> HIDE DEF h
    <2>5. h = [row EXCEPT ![j] = h[j]] /\ h[j] \in Row
      BY <1>1, <2>2, <2>3, <2>4
    <2>6. QED BY <2>1, <2>2, <2>3, <2>4, <2>5 DEF RowMove, Documented, NoCancel
  <1>3. ASSUME HeartbeatWrite(w), Exists(task[w]) PROVE RowMove
    <2>1. PICK j \in Jobs : j = task[w]
      BY <1>3 DEF HeartbeatWrite, CalmInv, WorkerOK
    <2> DEFINE f == [row[j] EXCEPT !.locked_at = "fresh"]
    <2>2. row' = [row EXCEPT ![j] = f]
      BY <1>1, <1>3, <2>1 DEF HeartbeatWrite
    <2>3. f \in Row /\ f.status = row[j].status /\ f.cancel_requested = row[j].cancel_requested
      BY <1>1 DEF Row
    <2> HIDE DEF f
    <2>4. QED BY <2>2, <2>3 DEF RowMove, Documented, NoCancel
  <1>4. ASSUME FinishWrite(w), Exists(task[w]) PROVE RowMove
    <2>1. pc[w] = "finishing" /\ snap[w].status = "running"
      BY <1>4 DEF FinishWrite, CalmInv, WorkerOK
    <2>2. PICK n \in {Completed(snap[w]), HeldForReview(snap[w])} : WriteBack(w, n)
      BY <1>4 DEF FinishWrite
    <2>3. n \in Row /\ n.status \in {"succeeded", "needs_review"}
      BY <1>1, Handled
    <2>4. n.cancel_requested = snap[w].cancel_requested
      BY <1>1, HandledCancel
    <2>5. QED BY <1>4, <2>1, <2>2, <2>3, <2>4, WriteBackMoves
  <1>5. ASSUME FailWrite(w), Exists(task[w]) PROVE RowMove
    <2> DEFINE n == Failed(snap[w])
    <2>1. pc[w] = "recording" /\ snap[w].status \in {"running", "canceled"} /\ WriteBack(w, n)
      BY <1>5 DEF FailWrite, CalmInv, WorkerOK
    <2>2. n \in Row /\ n.status \in {"failed", "queued"}
      BY <1>1, Handled
    <2>3. n.cancel_requested = snap[w].cancel_requested
      BY <1>1, HandledCancel
    <2> HIDE DEF n
    <2>4. QED BY <1>5, <2>1, <2>2, <2>3, WriteBackMoves
  <1>6. ASSUME SweepWrite(w), Exists(task[w]) PROVE RowMove
    <2> DEFINE n == Recovered(snap[w])
    <2>1. pc[w] = "sweeping" /\ snap[w].status = "running" /\ WriteBack(w, n)
      BY <1>6 DEF SweepWrite, CalmInv, WorkerOK
    <2>2. n \in Row /\ n.status \in {"failed", "queued"}
      BY <1>1, Handled
    <2>3. n.cancel_requested = snap[w].cancel_requested
      BY <1>1, HandledCancel
    <2> HIDE DEF n
    <2>4. QED BY <1>6, <2>1, <2>2, <2>3, WriteBackMoves
  <1>7. ~CancelWrite(w)
    BY DEF CancelWrite, NoCancel
  <1>8. CASE UNCHANGED row
    BY <1>8 DEF RowMove
  <1>9. QED
    BY <1>2, <1>3, <1>4, <1>5, <1>6, <1>7, <1>8
    DEF WorkerStep, HeartbeatWrite, FinishWrite, FailWrite, SweepWrite, SweepRead,
        HeartbeatRead, FinishRead, Refresh, RunRaises, FailRead, GiveUp, Crash

LEMMA RequestMoves ==
    ASSUME CalmInv, NoCancel, NEW r \in Requests, RequestWrite(r)
    PROVE  RowMove
  <1> DEFINE q == req[r]
  <1>1. /\ q.op \in {"approve", "reject", "rerender"} /\ q.job \in Jobs
        /\ row[q.job] = q.snap /\ row[q.job] \in Row
        /\ q.op \in {"approve", "reject"} => q.snap.status = "needs_review"
        /\ q.op = "rerender" => q.snap.status \in Finished
    <2>1. q.op \in ClientOps \ {"delete"} /\ q.op \notin {"cancel", "mcp_cancel"}
      BY DEF RequestWrite, NoCancel
    <2>2. q # NoRequest
      BY <2>1 DEF NoRequest
    <2>3. QED BY <2>1, <2>2 DEF CalmInv, TypeOK, RequestOK
  <1>2. PICK j \in Jobs : j = q.job
    BY <1>1
  <1> DEFINE new == Applied(q.op, row[j])
             f == Flush(row[j], row[j], new)
  <1>3. /\ new \in Row /\ new.cancel_requested = row[j].cancel_requested
        /\ Documented(row[j].status, new.status) /\ new.status # "canceled"
    BY <1>1, <1>2 DEF Applied, Approved, Rejected, Rerendered, Row, Statuses, Documented
  <1> HIDE DEF new
  <1>4. f \in Row /\ f.status = new.status /\ f.cancel_requested = row[j].cancel_requested
    <2>1. row[j] \in Row
      BY <1>1, <1>2
    <2>2. f \in Row /\ f.status = new.status
      BY <1>3, <2>1, FlushType
    <2>3. QED BY <1>3, <2>1, <2>2, FlushCancel
  <1>5. row' = [row EXCEPT ![j] = f] \/ UNCHANGED row
    <2>1. CASE Exists(j)
      BY <2>1, <1>1, <1>2 DEF RequestWrite, new
    <2>2. CASE ~Exists(j)
      BY <2>2, <1>1, <1>2 DEF RequestWrite, CalmInv, TypeOK
    <2>3. QED BY <2>1, <2>2
  <1> HIDE DEF f
  <1>6. QED BY <1>3, <1>4, <1>5 DEF RowMove, NoCancel

LEMMA DeleteMoves ==
    ASSUME CalmInv, NEW r \in Requests, DeleteWrite(r)
    PROVE  RowMove
  <1>1. PICK j \in Jobs : j = req[r].job
    BY DEF DeleteWrite, CalmInv, RequestOK, NoRequest
  <1>2. row[j].status # "absent"
    BY <1>1 DEF DeleteWrite, CalmInv, RequestOK, NoRequest
  <1> DEFINE f == [AbsentRow EXCEPT !.status = "deleted"]
  <1>3. row' = [row EXCEPT ![j] = f]
    BY <1>1 DEF DeleteWrite
  <1>4. f \in Row /\ f.status = "deleted" /\ ~f.cancel_requested
    BY AbsentRowType DEF AbsentRow, Row, Statuses
  <1> HIDE DEF f
  <1>5. QED BY <1>2, <1>3, <1>4 DEF RowMove, Documented

LEMMA NextMoves ==
    ASSUME CalmInv, NoCancel, [Next]_vars
    PROVE  RowMove
  <1>1. ASSUME NEW j \in Jobs, Enqueue(j) PROVE RowMove
    <2> DEFINE f == [row[j] EXCEPT !.status = "queued"]
    <2>1. row' = [row EXCEPT ![j] = f] /\ row[j].status = "absent"
      BY <1>1 DEF Enqueue, CalmInv, TypeOK
    <2>2. f \in Row /\ f.status = "queued" /\ f.cancel_requested = row[j].cancel_requested
      BY DEF CalmInv, TypeOK, Row, Statuses
    <2> HIDE DEF f
    <2>3. QED BY <2>1, <2>2 DEF RowMove, Documented, NoCancel
  <1>2. ASSUME NEW j \in Jobs, LeaseExpires(j) PROVE RowMove
    <2> DEFINE f == [row[j] EXCEPT !.locked_at = "stale"]
    <2>0. row \in [Jobs -> Row] /\ row[j] \in Row
      BY DEF CalmInv, TypeOK
    <2>1. row' = [row EXCEPT ![j] = f]
      BY <1>2, <2>0 DEF LeaseExpires
    <2>2. f \in Row /\ f.status = row[j].status /\ f.cancel_requested = row[j].cancel_requested
      BY <2>0 DEF Row
    <2> HIDE DEF f
    <2>3. QED BY <2>1, <2>2 DEF RowMove, Documented, NoCancel
  <1>3. CASE UNCHANGED row
    BY <1>3 DEF RowMove
  <1>4. QED
    BY <1>1, <1>2, <1>3, WorkerMoves, RequestMoves, DeleteMoves
    DEF Next, ClientStep, RequestRead, vars

LEMMA NextNoCancel ==
    ASSUME Uncanceled, CalmInv, NoCancel, [Next]_vars
    PROVE  NoCancel'
  <1>1. \A j \in Jobs : (row[j].status # "canceled" /\ ~row[j].cancel_requested)'
    BY NextMoves, RowMoveKeeps
  <1>2. ASSUME NEW w \in Workers PROVE pc'[w] # "canceling"
    <2>1. CASE UNCHANGED pc
      BY <2>1 DEF NoCancel
    <2>2. ASSUME NEW v \in Workers, HeartbeatRead(v) PROVE pc'[w] # "canceling"
      <3>1. task[v] \in Jobs /\ ~row[task[v]].cancel_requested
        BY <2>2 DEF HeartbeatRead, Refresh, CalmInv, WorkerOK, NoCancel
      <3>2. Refresh(v, "beating")
        BY <2>2, <3>1 DEF HeartbeatRead
      <3>3. QED BY <3>2 DEF Refresh, Goto, Release, Load, NoCancel, CalmInv, TypeOK
    <2>3. ASSUME NEW v \in Workers, WorkerStep(v), ~HeartbeatRead(v) PROVE pc'[w] # "canceling"
      <3> DEFINE Goes == \E p \in {"idle", "dead", "working", "sweeping", "failing",
                           "recording", "finishing"} : pc' = [pc EXCEPT ![v] = p]
      <3>1. ASSUME NEW j \in Jobs, Claim(v, j) \/ SweepRead(v, j) PROVE Goes
        BY <3>1 DEF Claim, SweepRead
      <3>2. ASSUME FinishRead(v) PROVE Goes
        BY <3>2 DEF FinishRead, Refresh, Goto, Release, Load
      <3>3. ASSUME HeartbeatWrite(v) \/ RunRaises(v) \/ FailRead(v) \/ GiveUp(v) \/ Crash(v)
            PROVE  Goes
        BY <3>3 DEF HeartbeatWrite, RunRaises, FailRead, GiveUp, Crash, Goto, Release, Load
      <3>4. ASSUME FinishWrite(v) \/ CancelWrite(v) \/ FailWrite(v) \/ SweepWrite(v)
            PROVE  Goes
        BY <3>4 DEF FinishWrite, CancelWrite, FailWrite, SweepWrite, WriteBack, Goto, Release
      <3>5. Goes
        BY <2>3, <3>1, <3>2, <3>3, <3>4 DEF WorkerStep
      <3>6. QED BY <3>5 DEF NoCancel, CalmInv, TypeOK
    <2>4. QED
      BY <2>1, <2>2, <2>3 DEF Next, ClientStep, Enqueue, LeaseExpires, RequestRead,
         RequestWrite, DeleteWrite, workerVars, vars
  <1>3. ASSUME NEW s \in Requests PROVE req'[s].op \notin {"cancel", "mcp_cancel"}
    <2>1. CASE UNCHANGED req
      BY <2>1 DEF NoCancel
    <2>2. ASSUME NEW r \in Requests, NEW op \in Ops, NEW j \in Jobs, RequestRead(r, op, j)
          PROVE  req'[s].op \notin {"cancel", "mcp_cancel"}
      BY <2>2 DEF RequestRead, Uncanceled, NoCancel, CalmInv, TypeOK
    <2>3. ASSUME NEW r \in Requests, Done(r) PROVE req'[s].op \notin {"cancel", "mcp_cancel"}
      BY <2>3 DEF Done, NoRequest, NoCancel, CalmInv, TypeOK
    <2>4. ASSUME NEW w \in Workers, WorkerStep(w) PROVE UNCHANGED req
      <3>1. ASSUME NEW j \in Jobs, Claim(w, j) \/ SweepRead(w, j) PROVE UNCHANGED req
        BY <3>1 DEF Claim, SweepRead, clientVars
      <3>2. CASE HeartbeatRead(w) \/ FinishRead(w)
        BY <3>2 DEF HeartbeatRead, FinishRead, Refresh, clientVars
      <3>3. CASE HeartbeatWrite(w) \/ RunRaises(w) \/ FailRead(w) \/ GiveUp(w) \/ Crash(w)
        BY <3>3 DEF HeartbeatWrite, RunRaises, FailRead, GiveUp, Crash, clientVars
      <3>4. CASE FinishWrite(w) \/ CancelWrite(w) \/ FailWrite(w) \/ SweepWrite(w)
        BY <3>4 DEF FinishWrite, CancelWrite, FailWrite, SweepWrite, WriteBack, clientVars
      <3>5. QED BY <2>4, <3>1, <3>2, <3>3, <3>4 DEF WorkerStep
    <2>5. QED
      BY <2>1, <2>2, <2>3, <2>4 DEF Next, ClientStep, RequestWrite, DeleteWrite,
         Enqueue, LeaseExpires, clientVars, vars
  <1>4. QED BY <1>1, <1>2, <1>3 DEF NoCancel

\* Where no client cancels, the rows move as the docstring of JobStatus says.
THEOREM LifecycleImplemented == Calm /\ Uncanceled => (Spec => DocumentedLifecycle)
  <1> SUFFICES ASSUME Calm, Uncanceled PROVE Spec => DocumentedLifecycle
    OBVIOUS
  <1>1. Init => NoCancel /\ Lifecycle!Init
    BY DEF Init, NoCancel, AbsentRow, NoRequest, Lifecycle!Init
  <1>2. CalmInv /\ NoCancel /\ [Next]_vars => NoCancel' /\ [Lifecycle!Next]_Status
    BY NextNoCancel, NextMoves, RowMoveKeeps
  <1>3. Spec => []CalmInv
    BY CalmInvariant
  <1>4. QED
    BY <1>1, <1>2, <1>3, PTL DEF Spec, DocumentedLifecycle, Lifecycle!Spec, Status

=============================================================================
