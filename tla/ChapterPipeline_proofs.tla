----------------------- MODULE ChapterPipeline_proofs -----------------------
(***************************************************************************)
(* Durability, revisions, billing and soundness of the book, for any       *)
(* number of chapters, workers and disks.  The argument: only the holder   *)
(* of the job is inside a run, so what it has in memory agrees with the    *)
(* rows, and each write to a row, an object or a disk keeps the others     *)
(* consistent wherever the process then dies.                              *)
(***************************************************************************)
EXTENDS ChapterPipeline, SequenceTheorems, TLAPS

Steps == {"next", "lookup", "synthesize", "vet", "assemble", "check", "upload",
          "verify", "manifest", "finish"}

-----------------------------------------------------------------------------
LEMMA BookType ==
    ASSUME NEW S \in SUBSET Chapters, NEW f \in [S -> Audio]
    PROVE  f \in Book
  BY DEF Book

LEMMA IdleRunType == IdleRun \in Run /\ NewRow \in Row
  <1>1. NewRow \in Row
    BY DEF NewRow, Row, Stored
  <1>2. IdleRun \in Run
    BY <1>1, PipelineAssumption DEF IdleRun, Run, Stored
  <1>3. QED BY <1>1, <1>2

LEMMA InitInv == Init => PipelineInv
  <1> SUFFICES ASSUME Init PROVE PipelineInv
    OBVIOUS
  <1>1. TypeOK
    <2>1. << >> \in [{} -> Audio]
      OBVIOUS
    <2>2. << >> \in Book
      BY <2>1, BookType
    <2>3. revs \in [Chapters -> Seq(Revision)]
      BY DEF Init
    <2>4. QED BY <2>2, <2>3, IdleRunType DEF Init, TypeOK, Stored
  <1>2. HolderOK
    BY PipelineAssumption DEF Init, HolderOK
  <1>3. \A w \in Workers : RunOK(w)
    BY DEF Init, RunOK
  <1>4. \A c \in Chapters : ChapterOK(c)
    BY DEF Init, ChapterOK, NewRow
  <1>5. DoneDurable /\ OneActive
    BY DEF Init, DoneDurable, OneActive, NewRow
  <1>6. BookSound /\ BilledOnce
    BY DEF Init, BookSound, BilledOnce
  <1>7. QED BY <1>1, <1>2, <1>3, <1>4, <1>5, <1>6 DEF PipelineInv

-----------------------------------------------------------------------------
\* A worker's memory keeps its type when a field gets a value of its own.
LEMMA RunUpdate ==
    ASSUME NEW q \in Run
    PROVE  /\ \A i \in 1..(N + 1) : [q EXCEPT !.at = i] \in Run
           /\ \A t \in Texts \union {None} : [q EXCEPT !.clean = t] \in Run
           /\ \A s \in [Chapters -> Row] : [q EXCEPT !.seen = s] \in Run
           /\ \A a \in Stored : [q EXCEPT !.audio = a] \in Run
           /\ [q EXCEPT !.tries = 0] \in Run
           /\ \A b \in SUBSET Texts : [q EXCEPT !.bill = b] \in Run
           /\ \A f \in SUBSET Chapters : [q EXCEPT !.files = f] \in Run
  <1>1. \A i \in 1..(N + 1) : [q EXCEPT !.at = i] \in Run
    BY DEF Run
  <1>2. \A t \in Texts \union {None} : [q EXCEPT !.clean = t] \in Run
    BY DEF Run
  <1>3. \A s \in [Chapters -> Row] : [q EXCEPT !.seen = s] \in Run
    BY DEF Run
  <1>4. \A a \in Stored : [q EXCEPT !.audio = a] \in Run
    BY DEF Run
  <1>5. [q EXCEPT !.tries = 0] \in Run
    BY DEF Run
  <1>6. \A b \in SUBSET Texts : [q EXCEPT !.bill = b] \in Run
    BY DEF Run
  <1>7. \A f \in SUBSET Chapters : [q EXCEPT !.files = f] \in Run
    BY DEF Run
  <1>8. QED BY <1>1, <1>2, <1>3, <1>4, <1>5, <1>6, <1>7

LEMMA RunBilled ==
    ASSUME NEW q \in Run, NEW b \in SUBSET Texts
    PROVE  [q EXCEPT !.bill = b, !.tries = 0] \in Run
  <1>1. [q EXCEPT !.bill = b] \in Run
    BY RunUpdate
  <1>2. [[q EXCEPT !.bill = b] EXCEPT !.tries = 0] \in Run
    BY <1>1, RunUpdate
  <1>3. [q EXCEPT !.bill = b, !.tries = 0] = [[q EXCEPT !.bill = b] EXCEPT !.tries = 0]
    BY DEF Run
  <1>4. QED BY <1>2, <1>3

LEMMA RunBegun ==
    ASSUME NEW q \in Run, NEW t \in Texts, NEW s \in [Chapters -> Row]
    PROVE  [q EXCEPT !.clean = t, !.seen = s, !.tries = 0, !.bill = {}] \in Run
  <1>1. [q EXCEPT !.clean = t] \in Run
    BY RunUpdate
  <1>2. [[q EXCEPT !.clean = t] EXCEPT !.seen = s] \in Run
    BY <1>1, RunUpdate
  <1>3. [[[q EXCEPT !.clean = t] EXCEPT !.seen = s] EXCEPT !.tries = 0] \in Run
    BY <1>2, RunUpdate
  <1>4. [[[[q EXCEPT !.clean = t] EXCEPT !.seen = s] EXCEPT !.tries = 0] EXCEPT !.bill = {}] \in Run
    BY <1>3, RunUpdate
  <1>5. [q EXCEPT !.clean = t, !.seen = s, !.tries = 0, !.bill = {}] =
        [[[[q EXCEPT !.clean = t] EXCEPT !.seen = s] EXCEPT !.tries = 0] EXCEPT !.bill = {}]
    BY DEF Run
  <1>6. QED BY <1>4, <1>5

\* The worker's memory between chapters.
Between(i, s, f) == [IdleRun EXCEPT !.at = i, !.seen = s, !.files = f]

LEMMA RunDone ==
    ASSUME NEW i \in 1..(N + 1), NEW s \in [Chapters -> Row], NEW f \in SUBSET Chapters
    PROVE  /\ Between(i, s, f) \in Run
           /\ Between(i, s, f).at = i
           /\ Between(i, s, f).seen = s
           /\ Between(i, s, f).files = f
           /\ Between(i, s, f).bill = {}
  <1>1. [IdleRun EXCEPT !.at = i] \in Run
    BY IdleRunType, RunUpdate
  <1>2. [[IdleRun EXCEPT !.at = i] EXCEPT !.seen = s] \in Run
    BY <1>1, RunUpdate
  <1>3. [[[IdleRun EXCEPT !.at = i] EXCEPT !.seen = s] EXCEPT !.files = f] \in Run
    BY <1>2, RunUpdate
  <1>4. Between(i, s, f) =
        [[[IdleRun EXCEPT !.at = i] EXCEPT !.seen = s] EXCEPT !.files = f]
    BY DEF IdleRun, Between
  <1>5. QED BY <1>3, <1>4 DEF IdleRun, Between

-----------------------------------------------------------------------------
\* The process inside a run is the only one, and holds the job.
LEMMA Facts ==
    ASSUME PipelineInv, NEW w \in Workers, pc[w] # "idle"
    PROVE  /\ run[w] \in Run
           /\ run[w].seen = row
           /\ job.holder = w /\ job.status = "running"
           /\ \A v \in Workers \ {w} : pc[v] = "idle"
           /\ Disk(w) \in Disks
  <1>1. run[w] \in Run /\ run[w].seen = row
    BY DEF PipelineInv, TypeOK, RunOK
  <1>2. job.holder = w /\ job.status = "running"
    BY DEF PipelineInv, HolderOK
  <1>3. \A v \in Workers \ {w} : pc[v] = "idle"
    BY <1>2 DEF PipelineInv, HolderOK
  <1>4. QED BY <1>1, <1>2, <1>3, PipelineAssumption DEF Disk

\* A step inside the run leaves the others idle.
LEMMA OthersIdle ==
    ASSUME PipelineInv, NEW w \in Workers, pc[w] # "idle", UNCHANGED job,
           NEW p, Goto(w, p)
    PROVE  HolderOK' /\ \A v \in Workers \ {w} : RunOK(v)'
  <1>1. \A v \in Workers \ {w} : pc'[v] = "idle"
    BY Facts DEF Goto, PipelineInv, TypeOK
  <1>2. QED BY <1>1, Facts DEF PipelineInv, HolderOK, RunOK

\* A step that only changes what the worker and its disk remember.
LEMMA MemoryStep ==
    ASSUME PipelineInv, NEW w \in Workers, pc[w] # "idle",
           NEW p \in Steps, Goto(w, p), NEW r \in Run,
           run' = [run EXCEPT ![w] = r],
           UNCHANGED <<text, job, row, revs, usage, object, book, manifest,
                       edited, fellBack>>,
           cache' \in [Disks -> [Texts -> Stored]],
           local' \in [Disks -> [Chapters -> Stored]],
           RunOK(w)'
    PROVE  PipelineInv'
  <1>1. TypeOK'
    <2>1. pc' \in [Workers -> Steps \union {"idle"}]
      BY DEF PipelineInv, TypeOK, Goto, Steps
    <2>2. run' \in [Workers -> Run]
      BY DEF PipelineInv, TypeOK
    <2>3. QED BY <2>1, <2>2 DEF PipelineInv, TypeOK, Steps
  <1>2. HolderOK' /\ \A v \in Workers : RunOK(v)'
    BY OthersIdle
  <1>3. \A c \in Chapters : ChapterOK(c)'
    BY DEF PipelineInv, ChapterOK
  <1>4. DoneDurable' /\ OneActive'
    BY DEF PipelineInv, DoneDurable, OneActive
  <1>5. BookSound' /\ BilledOnce'
    BY DEF PipelineInv, BookSound, BilledOnce
  <1>6. QED BY <1>1, <1>2, <1>3, <1>4, <1>5 DEF PipelineInv

-----------------------------------------------------------------------------
\* Nobody wrote the row since it was loaded, so a commit stores it as it is.
LEMMA FlushSame ==
    ASSUME NEW old \in Row, NEW new \in Row
    PROVE  Flush(old, old, new) = new
  <1>1. DOMAIN old = DOMAIN new
    BY DEF Row
  <1>2. new = [f \in DOMAIN new |-> new[f]]
    BY DEF Row
  <1>3. \A f \in DOMAIN old : Changed(old[f], old[f], new[f]) = new[f]
    BY DEF Changed
  <1>4. QED BY <1>1, <1>2, <1>3 DEF Flush

LEMMA CommitStep ==
    ASSUME PipelineInv, NEW w \in Workers, pc[w] # "idle", At(w) \in Chapters,
           NEW new \in Row, CommitRow(w, new)
    PROVE  /\ row' = [row EXCEPT ![At(w)] = new]
           /\ row' \in [Chapters -> Row]
           /\ usage' \in [Texts -> Nat]
           /\ \A t \in Texts : usage'[t] <= 1
  <1>1. row \in [Chapters -> Row] /\ usage \in [Texts -> Nat]
    BY DEF PipelineInv, TypeOK
  <1>2. row' = [row EXCEPT ![At(w)] = new]
    BY <1>1, FlushSame, Facts DEF CommitRow
  <1>3. \A t \in Texts : usage[t] <= 1 /\ (t \in run[w].bill => usage[t] = 0)
    BY DEF PipelineInv, BilledOnce, RunOK
  <1>4. usage' = [t \in Texts |-> IF t \in run[w].bill THEN usage[t] + 1 ELSE usage[t]]
    BY DEF CommitRow
  <1>5. usage' \in [Texts -> Nat] /\ \A t \in Texts : usage'[t] <= 1
    BY <1>1, <1>3, <1>4
  <1>6. QED BY <1>1, <1>2, <1>5

JobType == [status : {"queued", "running", "finished", "failed", "canceled"},
            holder : Workers \union {NoWorker}, published : BOOLEAN]
JobFits(j) == j \in JobType /\ (j.holder \in Workers <=> j.status = "running")

LEMMA FailedJob ==
    ASSUME PipelineInv, NEW w \in Workers, pc[w] # "idle", Failed(w)
    PROVE  JobFits(job)'
  <1>1. job \in JobType /\ job.holder = w
    BY Facts DEF PipelineInv, TypeOK, JobType
  <1>2. PICK s \in {"queued", "failed"} :
          job' = [job EXCEPT !.status = s, !.holder = NoWorker]
    BY <1>1 DEF Failed
  <1>3. job' \in JobType /\ job'.holder = NoWorker /\ job'.status # "running"
    BY <1>1, <1>2 DEF JobType
  <1>4. QED BY <1>3, PipelineAssumption DEF JobFits

\* A step that ends the run: whatever it commits, no chapter becomes done.
LEMMA LeaveStep ==
    ASSUME PipelineInv, NEW w \in Workers, pc[w] # "idle", Drop(w, "idle"),
           JobFits(job)',
           UNCHANGED <<text, revs, object, book, manifest, edited, fellBack>>,
           row' \in [Chapters -> Row],
           \A c \in Chapters : /\ row'[c].active = row[c].active
                               /\ row'[c] = row[c] \/ row'[c].status = "pending",
           usage' \in [Texts -> Nat], \A t \in Texts : usage'[t] <= 1,
           cache' \in [Disks -> [Texts -> Stored]],
           local' \in [Disks -> [Chapters -> Stored]]
    PROVE  PipelineInv'
  <1>1. TypeOK'
    <2>1. pc' \in [Workers -> Steps \union {"idle"}] /\ run' \in [Workers -> Run]
      BY IdleRunType DEF PipelineInv, TypeOK, Drop, Goto, Steps
    <2>2. QED BY <2>1 DEF PipelineInv, TypeOK, Steps, JobFits, JobType
  <1>2. \A v \in Workers : pc'[v] = "idle"
    BY Facts DEF Drop, Goto, PipelineInv, TypeOK
  <1>3. HolderOK' /\ \A v \in Workers : RunOK(v)'
    BY <1>2 DEF HolderOK, RunOK, JobFits
  <1>4. \A c \in Chapters : ChapterOK(c)'
    BY DEF PipelineInv, ChapterOK
  <1>5. DoneDurable'
    BY DEF PipelineInv, DoneDurable
  <1>6. OneActive'
    BY DEF PipelineInv, OneActive
  <1>7. BookSound' /\ BilledOnce'
    BY DEF PipelineInv, BookSound, BilledOnce
  <1>8. QED BY <1>1, <1>3, <1>4, <1>5, <1>6, <1>7 DEF PipelineInv

LEMMA RejectStep ==
    ASSUME PipelineInv, NEW w \in Workers, pc[w] # "idle", At(w) \in Chapters,
           NEW new \in Row, new.active = row[At(w)].active, Reject(w, new),
           UNCHANGED <<text, revs, object, book, manifest, edited, fellBack>>,
           cache' \in [Disks -> [Texts -> Stored]],
           local' \in [Disks -> [Chapters -> Stored]]
    PROVE  PipelineInv'
  <1> DEFINE n == [new EXCEPT !.status = "pending"]
  <1>1. n \in Row /\ n.status = "pending" /\ n.active = row[At(w)].active
    BY DEF Row
  <1>2. /\ row' = [row EXCEPT ![At(w)] = n]
        /\ row' \in [Chapters -> Row]
        /\ usage' \in [Texts -> Nat]
        /\ \A t \in Texts : usage'[t] <= 1
    BY <1>1, CommitStep DEF Reject
  <1> HIDE DEF n
  <1>3. \A c \in Chapters : /\ row'[c].active = row[c].active
                            /\ row'[c] = row[c] \/ row'[c].status = "pending"
    BY <1>1, <1>2 DEF PipelineInv, TypeOK
  <1>4. JobFits(job)' /\ Drop(w, "idle")
    BY FailedJob DEF Reject
  <1>5. QED BY <1>2, <1>3, <1>4, LeaveStep

-----------------------------------------------------------------------------
\* The end of a run without a commit of the chapter in hand.
LEMMA JobInRun ==
    ASSUME PipelineInv, NEW w \in Workers, pc[w] # "idle"
    PROVE  JobFits(job)
  BY Facts DEF PipelineInv, TypeOK, HolderOK, JobFits, JobType

LEMMA Unwritten ==
    ASSUME PipelineInv, UNCHANGED <<row, usage, diskVars>>
    PROVE  /\ row' \in [Chapters -> Row]
           /\ \A c \in Chapters : row'[c] = row[c]
           /\ usage' \in [Texts -> Nat] /\ \A t \in Texts : usage'[t] <= 1
           /\ cache' \in [Disks -> [Texts -> Stored]]
           /\ local' \in [Disks -> [Chapters -> Stored]]
  BY DEF PipelineInv, TypeOK, BilledOnce, diskVars

LEMMA EndInv ==
    ASSUME PipelineInv, NEW w \in Workers,
           Stop(w) \/ Raise(w) \/ Crash(w) \/ Finish(w)
    PROVE  PipelineInv'
  <1>1. pc[w] # "idle" /\ Drop(w, "idle") /\
        UNCHANGED <<text, revs, object, book, manifest, edited, fellBack>> /\
        UNCHANGED <<row, usage, diskVars>>
    BY DEF Stop, Raise, Crash, Finish, dbVars, storageVars, historyVars
  <1>2. JobFits(job)'
    <2>1. CASE Raise(w)
      BY <2>1, FailedJob DEF Raise
    <2>2. CASE Stop(w) \/ Finish(w)
      <3>1. job' = job \/ \E s \in {"canceled", "finished"} :
              job' = [job EXCEPT !.status = s, !.holder = NoWorker]
        BY <2>2 DEF Stop, Finish
      <3>2. JobFits(job)
        BY <1>1, JobInRun
      <3>3. QED BY <3>1, <3>2, PipelineAssumption DEF JobFits, JobType
    <2>3. CASE Crash(w)
      BY <1>1, <2>3, JobInRun DEF Crash, dbVars, JobFits
    <2>4. QED BY <2>1, <2>2, <2>3, <1>1 DEF Stop, Raise, Crash, Finish
  <1>3. QED BY <1>1, <1>2, Unwritten, LeaveStep

-----------------------------------------------------------------------------
\* Steps of one chapter.
LEMMA RunFields ==
    ASSUME PipelineInv, NEW w \in Workers, pc[w] # "idle"
    PROVE  /\ run[w].at \in 1..(N + 1)
           /\ run[w].clean \in Texts \union {None}
           /\ run[w].seen \in [Chapters -> Row]
           /\ run[w].audio \in Stored
           /\ run[w].tries \in 0..2
           /\ run[w].bill \in SUBSET Texts
           /\ run[w].files \in SUBSET Chapters
           /\ N \in Nat /\ At(w) = run[w].at
           /\ pc[w] \in Rendering => At(w) \in Chapters /\ run[w].clean \in Texts
           /\ Disk(w) \in Disks
           /\ cache \in [Disks -> [Texts -> Stored]]
           /\ local \in [Disks -> [Chapters -> Stored]]
  <1>1. run[w] \in Run
    BY Facts
  <1>2. pc[w] \in Rendering => At(w) \in Chapters /\ run[w].clean \in Texts
    BY DEF PipelineInv, RunOK
  <1>3. Disk(w) \in Disks
    BY Facts
  <1>4. QED BY <1>1, <1>2, <1>3, PipelineAssumption DEF Run, At, PipelineInv, TypeOK

LEMMA LookUpInv ==
    ASSUME PipelineInv, NEW w \in Workers, LookUp(w)
    PROVE  PipelineInv'
  <1>1. pc[w] = "lookup"
    BY DEF LookUp
  <1>2. UNCHANGED <<text, job, row, revs, usage, object, book, manifest, local, run,
                    edited, fellBack>>
    BY DEF LookUp, dbVars, storageVars, historyVars
  <1>3. PICK p \in {"assemble", "synthesize"} : Goto(w, p)
    BY DEF LookUp
  <1>4. cache' \in [Disks -> [Texts -> Stored]]
    BY <1>1, RunFields DEF LookUp, Rendering, Stored
  <1>5. RunOK(w)'
    <2>1. pc'[w] = p
      BY <1>3 DEF Goto, PipelineInv, TypeOK
    <2>2. RunOK(w) /\ run[w].tries = 0
      BY <1>1 DEF PipelineInv, RunOK
    <2>3. QED BY <1>1, <1>2, <2>1, <2>2 DEF RunOK, Rendering, At, Disk, Valid
  <1>6. run' = [run EXCEPT ![w] = run[w]] /\ run[w] \in Run
    BY <1>1, <1>2, Facts DEF PipelineInv, TypeOK
  <1>7. QED BY <1>1, <1>2, <1>3, <1>4, <1>5, <1>6, RunFields, MemoryStep DEF Steps

LEMMA SynthesizeInv ==
    ASSUME PipelineInv, NEW w \in Workers, Synthesize(w)
    PROVE  PipelineInv'
  <1> DEFINE r == [run[w] EXCEPT !.tries = @ + 1]
  <1>1. pc[w] = "synthesize" /\ Goto(w, "vet")
    BY DEF Synthesize
  <1>2. UNCHANGED <<text, job, row, revs, usage, object, book, manifest, local,
                    edited, fellBack>>
    BY DEF Synthesize, dbVars, storageVars, historyVars
  <1>3. run[w].tries < 2
    BY <1>1 DEF PipelineInv, RunOK
  <1>4. r \in Run
    <2>1. run[w] \in Run /\ run[w].tries + 1 \in 0..2
      BY <1>1, <1>3, Facts, RunFields
    <2>2. QED BY <2>1 DEF Run
  <1>5. run' = [run EXCEPT ![w] = r]
    BY DEF Synthesize
  <1>6. cache' \in [Disks -> [Texts -> Stored]]
    <2>1. PICK a \in [text : {run[w].clean}, take : Takes, ok : BOOLEAN] :
            cache' = [cache EXCEPT ![Disk(w)][run[w].clean] = a]
      BY DEF Synthesize
    <2>2. run[w].clean \in Texts
      BY <1>1, RunFields DEF Rendering
    <2>3. a \in Stored
      BY <2>2 DEF Stored, Audio
    <2>4. QED BY <1>1, <2>1, <2>2, <2>3, RunFields
  <1>7. RunOK(w)'
    <2>1. pc'[w] = "vet"
      BY <1>1 DEF Goto, PipelineInv, TypeOK
    <2>2. /\ run'[w] = r /\ r.seen = run[w].seen /\ r.files = run[w].files
          /\ r.at = run[w].at /\ r.clean = run[w].clean /\ r.bill = run[w].bill
      BY <1>1, <1>5, Facts DEF Run, PipelineInv, TypeOK
    <2>3. RunOK(w)
      BY DEF PipelineInv
    <2> HIDE DEF r
    <2>4. QED BY <1>1, <1>2, <2>1, <2>2, <2>3 DEF RunOK, Rendering, At, Disk, Valid
  <1> HIDE DEF r
  <1>8. QED BY <1>1, <1>2, <1>4, <1>5, <1>6, <1>7, RunFields, MemoryStep DEF Steps

LEMMA VetInv ==
    ASSUME PipelineInv, NEW w \in Workers, Vet(w)
    PROVE  PipelineInv'
  <1> DEFINE r == [run[w] EXCEPT !.bill = Bill(w), !.tries = 0]
  <1>1. pc[w] = "vet" /\ run[w].clean \in Texts /\ run[w].bill = {}
    BY RunFields DEF Vet, Rendering, PipelineInv, RunOK
  <1>2. UNCHANGED <<text, row, revs, usage, object, book, manifest, cache, local,
                    edited, fellBack>>
    BY DEF Vet, storageVars, diskVars, historyVars
  <1>3. CASE usage[run[w].clean] > 1
    <2>1. Failed(w) /\ Drop(w, "idle")
      BY <1>3 DEF Vet
    <2>2. JobFits(job)'
      BY <1>1, <2>1, FailedJob
    <2>3. QED BY <1>1, <1>2, <2>1, <2>2, Unwritten, LeaveStep DEF diskVars
  <1>4. CASE ~(usage[run[w].clean] > 1)
    <2>1. Goto(w, "assemble") /\ run' = [run EXCEPT ![w] = r] /\ UNCHANGED job
      BY <1>4 DEF Vet
    <2>2. /\ Bill(w) \subseteq {run[w].clean}
          /\ \A t \in Bill(w) : usage[t] = 0
      BY <1>1 DEF Bill
    <2>3. r \in Run
      <3>1. run[w] \in Run /\ Bill(w) \in SUBSET Texts
        BY <1>1, <2>2, Facts, RunFields
      <3>2. QED BY <3>1, RunBilled
    <2>4. RunOK(w)'
      <3>1. pc'[w] = "assemble"
        BY <2>1 DEF Goto, PipelineInv, TypeOK
      <3>2. /\ run'[w] = r /\ r.seen = run[w].seen /\ r.files = run[w].files
            /\ r.at = run[w].at /\ r.clean = run[w].clean /\ r.bill = Bill(w)
        BY <1>1, <2>1, Facts DEF Run, PipelineInv, TypeOK
      <3>3. RunOK(w)
        BY DEF PipelineInv
      <3> HIDE DEF r
      <3>4. QED BY <1>1, <1>2, <2>2, <3>1, <3>2, <3>3
                DEF RunOK, Rendering, At, Disk, Valid
    <2> HIDE DEF r
    <2>5. QED BY <1>1, <1>2, <2>1, <2>3, <2>4, RunFields, MemoryStep DEF Steps
  <1>5. QED BY <1>3, <1>4

LEMMA RejectChunkInv ==
    ASSUME PipelineInv, NEW w \in Workers, RejectChunk(w)
    PROVE  PipelineInv'
  <1>1. pc[w] = "vet" /\ run[w].clean \in Texts /\ At(w) \in Chapters
    BY RunFields DEF RejectChunk, Rendering
  <1>2. UNCHANGED <<text, revs, object, book, manifest, local, edited, fellBack>>
    BY DEF RejectChunk, dbVars, storageVars, historyVars
  <1>3. cache' \in [Disks -> [Texts -> Stored]]
    BY <1>1, RunFields DEF RejectChunk, Stored
  <1>4. CASE run[w].tries < 2
    <2>1. Goto(w, "synthesize") /\ UNCHANGED <<job, row, usage, run>>
      BY <1>4 DEF RejectChunk, dbVars
    <2>2. RunOK(w)'
      <3>1. pc'[w] = "synthesize"
        BY <2>1 DEF Goto, PipelineInv, TypeOK
      <3>2. QED BY <1>1, <1>2, <1>4, <2>1, <3>1
                DEF PipelineInv, RunOK, Rendering, At, Disk, Valid
    <2>3. run' = [run EXCEPT ![w] = run[w]] /\ run[w] \in Run
      BY <1>1, <2>1, Facts DEF PipelineInv, TypeOK
    <2>4. QED BY <1>1, <1>2, <1>3, <2>1, <2>2, <2>3, RunFields, MemoryStep DEF Steps
  <1>5. CASE ~(run[w].tries < 2)
    <2>1. Reject(w, run[w].seen[At(w)])
      BY <1>5 DEF RejectChunk
    <2>2. run[w].seen[At(w)] \in Row /\ run[w].seen = row
      BY <1>1, RunFields, Facts
    <2>3. QED BY <1>1, <1>2, <1>3, <2>1, <2>2, RunFields, RejectStep
  <1>6. QED BY <1>4, <1>5

LEMMA AssembleInv ==
    ASSUME PipelineInv, NEW w \in Workers, Assemble(w)
    PROVE  PipelineInv'
  <1>1. pc[w] = "assemble" /\ Goto(w, "check") /\ run[w].clean \in Texts
        /\ At(w) \in Chapters
    BY RunFields DEF Assemble, Rendering
  <1>2. UNCHANGED <<text, job, row, revs, usage, object, book, manifest, cache, run,
                    edited, fellBack>>
    BY DEF Assemble, dbVars, storageVars, historyVars
  <1>3. PICK a \in Stored : local' = [local EXCEPT ![Disk(w)][At(w)] = a]
    <2> DEFINE a == cache[Disk(w)][run[w].clean]
    <2>1. a \in Audio
      BY <1>1, RunFields DEF Assemble, Stored
    <2>2. PICK ok \in {a.ok, FALSE} :
            local' = [local EXCEPT ![Disk(w)][At(w)] = [a EXCEPT !.ok = ok]]
      BY DEF Assemble
    <2> HIDE DEF a
    <2>3. [a EXCEPT !.ok = ok] \in Audio
      BY <2>1 DEF Audio
    <2>4. QED BY <2>2, <2>3 DEF Stored
  <1>4. local' \in [Disks -> [Chapters -> Stored]]
    BY <1>1, <1>3, RunFields
  <1>5. RunOK(w)'
    <2>1. pc'[w] = "check"
      BY <1>1 DEF Goto, PipelineInv, TypeOK
    <2>2. \A c \in run[w].files : c < At(w) /\ Valid(local[Disk(w)][c])
      BY <1>1 DEF PipelineInv, RunOK
    <2>3. \A c \in run[w].files : local'[Disk(w)][c] = local[Disk(w)][c]
      BY <1>1, <1>3, <2>2, RunFields DEF Chapters
    <2>4. QED BY <1>1, <1>2, <2>1, <2>2, <2>3
              DEF PipelineInv, RunOK, Rendering, At, Disk, Valid
  <1>6. run' = [run EXCEPT ![w] = run[w]] /\ run[w] \in Run
    BY <1>1, <1>2, Facts DEF PipelineInv, TypeOK
  <1>7. QED BY <1>1, <1>2, <1>4, <1>5, <1>6, RunFields, MemoryStep DEF Steps

LEMMA CheckInv ==
    ASSUME PipelineInv, NEW w \in Workers, Check(w)
    PROVE  PipelineInv'
  <1> DEFINE a == local[Disk(w)][At(w)]
             r == [run[w] EXCEPT !.audio = a]
  <1>1. pc[w] = "check" /\ At(w) \in Chapters /\ a \in Stored
    BY RunFields DEF Check, Rendering
  <1>2. UNCHANGED <<text, revs, object, book, manifest, cache, local, edited, fellBack>>
    BY DEF Check, dbVars, storageVars, diskVars, historyVars
  <1>3. CASE Valid(a)
    <2>1. Goto(w, "upload") /\ run' = [run EXCEPT ![w] = r] /\ UNCHANGED <<job, row, usage>>
      BY <1>3 DEF Check, Acceptable, dbVars
    <2>2. r \in Run
      BY <1>1, Facts, RunFields DEF Run
    <2>3. RunOK(w)'
      <3>1. pc'[w] = "upload"
        BY <2>1 DEF Goto, PipelineInv, TypeOK
      <3>2. /\ run'[w] = r /\ r.seen = run[w].seen /\ r.files = run[w].files
            /\ r.at = run[w].at /\ r.clean = run[w].clean /\ r.bill = run[w].bill
            /\ r.audio = a
        BY <1>1, <2>1, Facts DEF Run, PipelineInv, TypeOK
      <3>3. RunOK(w) /\ local'[Disk(w)][run[w].at] = r.audio
        BY <1>2, <3>2 DEF PipelineInv, At
      <3> HIDE DEF r, a
      <3>4. QED BY <1>1, <1>2, <1>3, <2>1, <3>1, <3>2, <3>3
                DEF RunOK, Rendering, At, Disk, Valid
    <2> HIDE DEF r
    <2>4. QED BY <1>1, <1>2, <2>1, <2>2, <2>3, RunFields, MemoryStep DEF Steps
  <1>4. CASE ~Valid(a)
    <2>1. Reject(w, run[w].seen[At(w)])
      BY <1>4 DEF Check, Acceptable
    <2>2. run[w].seen[At(w)] \in Row /\ run[w].seen = row
      BY <1>1, RunFields, Facts
    <2>3. QED BY <1>1, <1>2, <2>1, <2>2, RunFields, RejectStep
  <1>5. QED BY <1>3, <1>4

\* A chapter whose finished audio is reused joins the book.
LEMMA NextChapterInv ==
    ASSUME PipelineInv, NEW w \in Workers, pc[w] = "next", At(w) \in Chapters,
           NextChapter(w, run[w].files \union {At(w)}),
           UNCHANGED <<text, job, row, revs, usage, object, book, manifest, cache,
                       edited, fellBack>>,
           local' \in [Disks -> [Chapters -> Stored]],
           Valid(local'[Disk(w)][At(w)]),
           \A c \in Chapters \ {At(w)} : local'[Disk(w)][c] = local[Disk(w)][c]
    PROVE  PipelineInv'
  <1> DEFINE f == run[w].files \union {At(w)}
             r == [run[w] EXCEPT !.at = @ + 1, !.files = f]
  <1>1. Goto(w, "next") /\ run' = [run EXCEPT ![w] = r]
    BY DEF NextChapter
  <1>2. r \in Run
    <2>1. run[w] \in Run /\ run[w].at + 1 \in 1..(N + 1) /\ f \in SUBSET Chapters
      BY Facts, RunFields DEF Chapters
    <2>2. QED BY <2>1 DEF Run
  <1>3. RunOK(w)'
    <2>1. pc'[w] = "next"
      BY <1>1 DEF Goto, PipelineInv, TypeOK
    <2>2. /\ run'[w] = r /\ r.seen = run[w].seen /\ r.files = f
          /\ r.at = run[w].at + 1 /\ r.bill = run[w].bill
      BY <1>1, Facts DEF Run, PipelineInv, TypeOK
    <2>3. RunOK(w)
      BY DEF PipelineInv
    <2>4. \A c \in f : c < run[w].at + 1 /\ Valid(local'[Disk(w)][c])
      BY <2>3, RunFields DEF RunOK, Chapters
    <2> HIDE DEF r, f
    <2>5. QED BY <2>1, <2>2, <2>3, <2>4 DEF RunOK, Rendering, At, Disk, Valid
  <1> HIDE DEF r
  <1>4. cache' \in [Disks -> [Texts -> Stored]]
    BY RunFields
  <1>5. QED BY <1>1, <1>2, <1>3, <1>4, MemoryStep DEF Steps

LEMMA ResumeInv ==
    ASSUME PipelineInv, NEW w \in Workers, ResumeStored(w) \/ ResumeLocal(w)
    PROVE  PipelineInv'
  <1>1. /\ pc[w] = "next" /\ At(w) \in Chapters
        /\ NextChapter(w, run[w].files \union {At(w)})
    <2>1. AtChapter(w) /\ NextChapter(w, run[w].files \union {At(w)})
      BY DEF ResumeStored, ResumeLocal
    <2>2. QED BY <2>1, RunFields DEF AtChapter, Chapters
  <1>2. UNCHANGED <<text, job, row, revs, usage, object, book, manifest, cache,
                    edited, fellBack>>
    BY DEF ResumeStored, ResumeLocal, dbVars, storageVars, diskVars, historyVars
  <1>3. CASE ResumeLocal(w)
    BY <1>1, <1>2, <1>3, RunFields, NextChapterInv DEF ResumeLocal, diskVars
  <1>4. CASE ResumeStored(w)
    <2>1. object \in [Chapters -> Stored] /\ Valid(object[At(w)])
      BY <1>1, <1>4 DEF ResumeStored, Intact, Valid, PipelineInv, TypeOK, ChapterOK
    <2>2. local' = [local EXCEPT ![Disk(w)][At(w)] = object[At(w)]]
      BY <1>4 DEF ResumeStored
    <2>3. /\ local' \in [Disks -> [Chapters -> Stored]]
          /\ Valid(local'[Disk(w)][At(w)])
          /\ \A c \in Chapters \ {At(w)} : local'[Disk(w)][c] = local[Disk(w)][c]
      BY <1>1, <2>1, <2>2, RunFields
    <2>4. QED BY <1>1, <1>2, <2>3, NextChapterInv
  <1>5. QED BY <1>3, <1>4

\* A step inside the run that commits the row of its chapter.
LEMMA RowStep ==
    ASSUME PipelineInv, NEW w \in Workers, pc[w] # "idle", At(w) \in Chapters,
           NEW new \in Row, row' = [row EXCEPT ![At(w)] = new],
           new.active = row[At(w)].active, new.status # "done",
           NEW p \in Steps, Goto(w, p), NEW r \in Run,
           run' = [run EXCEPT ![w] = r], RunOK(w)',
           UNCHANGED <<text, job, revs, usage, object, book, manifest, cache, local,
                       edited, fellBack>>
    PROVE  PipelineInv'
  <1>1. row' \in [Chapters -> Row]
    BY DEF PipelineInv, TypeOK
  <1>2. TypeOK'
    <2>1. pc' \in [Workers -> Steps \union {"idle"}]
      BY DEF PipelineInv, TypeOK, Goto, Steps
    <2>2. run' \in [Workers -> Run]
      BY DEF PipelineInv, TypeOK
    <2>3. QED BY <1>1, <2>1, <2>2 DEF PipelineInv, TypeOK, Steps
  <1>3. HolderOK' /\ \A v \in Workers : RunOK(v)'
    BY OthersIdle
  <1>4. \A c \in Chapters : /\ row'[c].active = row[c].active
                            /\ row'[c] = row[c] \/ row'[c].status # "done"
    BY DEF PipelineInv, TypeOK
  <1>5. \A c \in Chapters : ChapterOK(c)'
    BY <1>4 DEF PipelineInv, ChapterOK
  <1>6. DoneDurable'
    BY <1>4 DEF PipelineInv, DoneDurable
  <1>7. OneActive'
    BY <1>4 DEF PipelineInv, OneActive
  <1>8. BookSound' /\ BilledOnce'
    BY DEF PipelineInv, BookSound, BilledOnce
  <1>9. QED BY <1>2, <1>3, <1>5, <1>6, <1>7, <1>8 DEF PipelineInv

LEMMA SkipChapterInv ==
    ASSUME PipelineInv, NEW w \in Workers, SkipChapter(w)
    PROVE  PipelineInv'
  <1> DEFINE c == At(w)
             r == [run[w] EXCEPT !.at = @ + 1, !.seen = row']
  <1>1. /\ pc[w] = "next" /\ c \in Chapters /\ Goto(w, "next")
        /\ run' = [run EXCEPT ![w] = r]
    <2>1. AtChapter(w) /\ Goto(w, "next")
      BY DEF SkipChapter
    <2>2. pc[w] = "next" /\ c \in Chapters
      BY <2>1, RunFields DEF AtChapter, Chapters
    <2>3. run' = [run EXCEPT ![w] = r]
      BY DEF SkipChapter
    <2>4. QED BY <2>1, <2>2, <2>3
  <1>2. UNCHANGED <<text, job, revs, usage, object, book, manifest, cache, local,
                    edited, fellBack>>
    BY DEF SkipChapter, storageVars, diskVars, historyVars
  <1>3. row' \in [Chapters -> Row]
    <2>1. row \in [Chapters -> Row] /\ row[c] \in Row
      BY <1>1 DEF PipelineInv, TypeOK
    <2>2. [row[c] EXCEPT !.status = "skipped"] \in Row
      BY <2>1 DEF Row
    <2>3. QED BY <1>1, <2>1, <2>2 DEF SkipChapter
  <1>4. r \in Run
    <2>1. run[w] \in Run /\ run[w].at + 1 \in 1..(N + 1)
      BY <1>1, Facts, RunFields DEF Chapters
    <2>2. QED BY <1>3, <2>1 DEF Run
  <1>5. RunOK(w)'
    <2>1. pc'[w] = "next"
      BY <1>1 DEF Goto, PipelineInv, TypeOK
    <2>2. /\ run'[w] = r /\ r.seen = row' /\ r.files = run[w].files
          /\ r.at = run[w].at + 1 /\ r.bill = run[w].bill
      BY <1>1, Facts DEF Run, PipelineInv, TypeOK
    <2>3. RunOK(w) /\ run[w].at \in Nat /\ \A d \in run[w].files : d \in Nat
      BY <1>1, RunFields DEF PipelineInv, Chapters
    <2> HIDE DEF r, c
    <2>4. QED BY <1>1, <1>2, <2>1, <2>2, <2>3 DEF RunOK, Rendering, At, Disk, Valid
  <1>6. CASE row' = row
    <2> HIDE DEF r
    <2>1. cache' \in [Disks -> [Texts -> Stored]] /\ local' \in [Disks -> [Chapters -> Stored]]
      BY <1>1, <1>2, RunFields
    <2>2. QED BY <1>1, <1>2, <1>4, <1>5, <1>6, <2>1, MemoryStep DEF Steps
  <1>7. CASE row' # row
    <2> DEFINE new == [row[c] EXCEPT !.status = "skipped"]
    <2>1. row' = [row EXCEPT ![c] = new] /\ row[c] \in Row
      BY <1>1, <1>7 DEF SkipChapter, PipelineInv, TypeOK
    <2>2. new \in Row /\ new.active = row[c].active /\ new.status # "done"
      BY <2>1 DEF Row
    <2> HIDE DEF new, r
    <2>3. QED BY <1>1, <1>2, <1>4, <1>5, <2>1, <2>2, RowStep DEF Steps
  <1>8. QED BY <1>6, <1>7

LEMMA BeginInv ==
    ASSUME PipelineInv, NEW w \in Workers, Begin(w)
    PROVE  PipelineInv'
  <1> DEFINE c == At(w)
             new == Marked(run[w].seen[c])
             r == [run[w] EXCEPT !.clean = text[c], !.seen = [@ EXCEPT ![c] = new],
                                 !.tries = 0, !.bill = {}]
  <1>1. /\ pc[w] = "next" /\ c \in Chapters \ Silent /\ Goto(w, "lookup")
        /\ CommitRow(w, new)
    BY RunFields DEF Begin, AtChapter, Chapters
  <1>2. UNCHANGED <<text, job, revs, object, book, manifest, cache, local,
                    edited, fellBack>>
    BY DEF Begin, storageVars, diskVars, historyVars
  <1>3. run[w].seen = row /\ row \in [Chapters -> Row] /\ row[c] \in Row
    BY <1>1, Facts DEF PipelineInv, TypeOK
  <1>4. new \in Row /\ new.active = row[c].active /\ new.status = "processing"
    BY <1>3 DEF Row, Marked
  <1>5. row' = [row EXCEPT ![c] = new] /\ row' \in [Chapters -> Row]
    BY <1>1, <1>4, CommitStep
  <1>6. usage' = usage
    <2>1. run[w].bill = {} /\ usage \in [Texts -> Nat]
      BY <1>1 DEF PipelineInv, TypeOK, RunOK
    <2>2. QED BY <1>1, <2>1 DEF CommitRow
  <1>7. text[c] \in Texts
    BY <1>1 DEF PipelineInv, TypeOK
  <1>8. run' = [run EXCEPT ![w] = r]
    BY DEF Begin
  <1>9. r \in Run
    <2>1. run[w] \in Run /\ [run[w].seen EXCEPT ![c] = new] \in [Chapters -> Row]
      BY <1>1, <1>3, <1>4, Facts
    <2>2. QED BY <1>7, <2>1, RunBegun
  <1>10. RunOK(w)'
    <2>1. pc'[w] = "lookup"
      BY <1>1 DEF Goto, PipelineInv, TypeOK
    <2>2. /\ run'[w] = r /\ r.seen = row' /\ r.files = run[w].files
          /\ r.at = c /\ r.bill = {} /\ r.tries = 0 /\ r.clean = text[c]
      BY <1>1, <1>3, <1>5, <1>8, Facts DEF Run, PipelineInv, TypeOK, At
    <2>3. RunOK(w) /\ row'[c].status # "done"
      BY <1>1, <1>3, <1>4, <1>5 DEF PipelineInv
    <2>4. c = run[w].at
      BY DEF At
    <2> HIDE DEF r, c, new
    <2>5. QED BY <1>1, <1>2, <1>7, <2>1, <2>2, <2>3, <2>4
              DEF RunOK, Rendering, At, Disk, Valid
  <1> HIDE DEF new, r
  <1>11. QED BY <1>1, <1>2, <1>4, <1>5, <1>6, <1>8, <1>9, <1>10, RowStep DEF Steps

LEMMA UploadFailsInv ==
    ASSUME PipelineInv, NEW w \in Workers, UploadFails(w)
    PROVE  PipelineInv'
  <1> DEFINE n == Detached(run[w].seen[At(w)])
  <1>1. pc[w] # "idle" /\ At(w) \in Chapters /\ Reject(w, n)
    BY RunFields DEF UploadFails, Rendering
  <1>2. UNCHANGED <<text, revs, object, book, manifest, cache, local, edited, fellBack>>
    BY DEF UploadFails, storageVars, diskVars, historyVars
  <1>3. n \in Row /\ n.active = row[At(w)].active
    <2>1. run[w].seen[At(w)] = row[At(w)] /\ row[At(w)] \in Row
      BY <1>1, Facts DEF PipelineInv, TypeOK
    <2>2. QED BY <2>1 DEF Detached, Row, Stored
  <1>4. cache' \in [Disks -> [Texts -> Stored]] /\ local' \in [Disks -> [Chapters -> Stored]]
    BY <1>1, <1>2, RunFields
  <1> HIDE DEF n
  <1>5. QED BY <1>1, <1>2, <1>3, <1>4, RejectStep

-----------------------------------------------------------------------------
\* The object is replaced while the row does not say done.
LEMMA UploadInv ==
    ASSUME PipelineInv, NEW w \in Workers, Upload(w)
    PROVE  PipelineInv'
  <1>1. /\ pc[w] = "upload" /\ At(w) \in Chapters /\ Goto(w, "verify")
        /\ Valid(run[w].audio) /\ row[At(w)].status # "done"
        /\ object' = [object EXCEPT ![At(w)] = run[w].audio]
    BY RunFields DEF Upload, Rendering, PipelineInv, RunOK
  <1>2. UNCHANGED <<text, job, row, revs, usage, book, manifest, cache, local, run,
                    edited, fellBack>>
    BY DEF Upload, dbVars, diskVars, historyVars
  <1>3. TypeOK'
    <2>1. pc' \in [Workers -> Steps \union {"idle"}]
      BY <1>1 DEF PipelineInv, TypeOK, Goto, Steps
    <2>2. object' \in [Chapters -> Stored]
      BY <1>1, RunFields DEF PipelineInv, TypeOK
    <2>3. QED BY <1>2, <2>1, <2>2 DEF PipelineInv, TypeOK, Steps
  <1>4. RunOK(w)'
    <2>1. pc'[w] = "verify"
      BY <1>1 DEF Goto, PipelineInv, TypeOK
    <2>2. QED BY <1>1, <1>2, <2>1 DEF PipelineInv, RunOK, Rendering, At, Disk, Valid
  <1>5. HolderOK' /\ \A v \in Workers : RunOK(v)'
    BY <1>1, <1>2, <1>4, OthersIdle
  <1>6. \A c \in Chapters : ChapterOK(c)'
    BY <1>1, <1>2 DEF PipelineInv, TypeOK, ChapterOK, Valid
  <1>7. DoneDurable'
    BY <1>1, <1>2 DEF PipelineInv, TypeOK, DoneDurable
  <1>8. OneActive' /\ BookSound' /\ BilledOnce'
    BY <1>2 DEF PipelineInv, OneActive, BookSound, BilledOnce
  <1>9. QED BY <1>3, <1>5, <1>6, <1>7, <1>8 DEF PipelineInv

\* Superseding keeps a list of revisions one, and changes one status.
LEMMA SupersedeOne ==
    ASSUME NEW s \in Seq(Revision), NEW n \in 0..Len(s)
    PROVE  /\ Supersede(s, n) \in Seq(Revision)
           /\ Len(Supersede(s, n)) = Len(s)
           /\ \A i \in 1..Len(s) :
                /\ Supersede(s, n)[i].audio = s[i].audio
                /\ Supersede(s, n)[i].text = s[i].text
                /\ Supersede(s, n)[i].status = "active" <=>
                     s[i].status = "active" /\ i # n
  <1>1. Len(s) \in Nat /\ \A i \in 1..Len(s) : s[i] \in Revision
    BY LenProperties
  <1>2. CASE n = 0
    BY <1>1, <1>2 DEF Supersede
  <1>3. CASE n # 0
    <2> DEFINE e == [s[n] EXCEPT !.status = "superseded"]
    <2>1. n \in 1..Len(s) /\ s[n] \in Revision
      BY <1>1, <1>3
    <2>2. e \in Revision /\ e.audio = s[n].audio /\ e.text = s[n].text
          /\ e.status = "superseded"
      BY <2>1 DEF Revision
    <2>3. Supersede(s, n) = [s EXCEPT ![n] = e]
      BY <1>3 DEF Supersede
    <2> HIDE DEF e
    <2>4. /\ [s EXCEPT ![n] = e] \in Seq(Revision)
          /\ Len([s EXCEPT ![n] = e]) = Len(s)
          /\ \A j \in 1..Len(s) : [s EXCEPT ![n] = e][j] = IF j = n THEN e ELSE s[j]
      BY <2>1, <2>2, ExceptSeq
    <2>5. QED BY <1>1, <2>1, <2>2, <2>3, <2>4
  <1>4. QED BY <1>2, <1>3

\* Of the revisions s, exactly the m-th is active (none when m = 0).
Sole(s, m) == /\ s \in Seq(Revision)
              /\ m \in 0..Len(s)
              /\ \A i \in 1..Len(s) : s[i].status = "active" <=> i = m

Active(e) == e \in Revision /\ e.status = "active"

\* q is s with the active revision e added.
Grown(q, s, e) == Sole(q, Len(s) + 1) /\ Len(q) = Len(s) + 1 /\ q[Len(s) + 1] = e

\* The revision list after a commit: the new one, and only it, is active.
LEMMA Appended ==
    ASSUME NEW s, NEW m, Sole(s, m), NEW e, Active(e)
    PROVE  Grown(Append(Supersede(s, m), e), s, e)
  <1> DEFINE q == Append(Supersede(s, m), e)
  <1> DEFINE t == Supersede(s, m)
  <1>1. /\ t \in Seq(Revision) /\ Len(t) = Len(s)
        /\ \A i \in 1..Len(s) : t[i].status # "active"
    BY SupersedeOne DEF Sole
  <1>2. q = Append(t, e) /\ e \in Revision /\ e.status = "active"
    BY DEF Active
  <1> HIDE DEF t, q
  <1>3. /\ q \in Seq(Revision) /\ Len(q) = Len(t) + 1
        /\ \A i \in 1..Len(t) : q[i] = t[i]
        /\ q[Len(t) + 1] = e
    BY <1>1, <1>2, AppendProperties
  <1>4. Len(s) \in Nat
    BY LenProperties DEF Sole
  <1>5. \A i \in 1..Len(q) : q[i].status = "active" <=> i = Len(s) + 1
    BY <1>1, <1>2, <1>3, <1>4
  <1>6. Grown(q, s, e)
    BY <1>1, <1>3, <1>4, <1>5 DEF Sole, Grown
  <1>7. QED BY <1>6 DEF q

\* Revision, row and usage commit together, and agree with the object.
LEMMA CommitChapterInv ==
    ASSUME PipelineInv, NEW w \in Workers, CommitChapter(w)
    PROVE  PipelineInv'
  <1> DEFINE c == At(w)
             a == run[w].audio
             n == Len(revs[c]) + 1
             rev == [text |-> run[w].clean, audio |-> a, status |-> "active"]
             q == Append(Supersede(revs[c], row[c].active), rev)
             new == [status |-> "done", key |-> TRUE, sha |-> a,
                     sid |-> run[w].clean, active |-> n]
             f == run[w].files \union {c}
             r == [IdleRun EXCEPT !.at = c + 1, !.seen = [run[w].seen EXCEPT ![c] = new],
                                  !.files = f]
  <1>1. /\ pc[w] = "verify" /\ c \in Chapters /\ run[w].clean \in Texts
        /\ a \in Audio /\ Valid(a) /\ object[c] = a
    BY RunFields DEF CommitChapter, Rendering, PipelineInv, RunOK, Stored, Valid
  <1>2. UNCHANGED <<text, job, object, book, manifest, cache, local, edited, fellBack>>
    BY DEF CommitChapter, storageVars, diskVars, historyVars
  <1>3. /\ run[w].seen = row /\ row \in [Chapters -> Row]
        /\ revs \in [Chapters -> Seq(Revision)] /\ revs[c] \in Seq(Revision)
    BY <1>1, Facts DEF PipelineInv, TypeOK
  <1>4. /\ row[c].active \in 0..Len(revs[c])
        /\ \A i \in 1..Len(revs[c]) : revs[c][i].status = "active" <=> i = row[c].active
    <2>1. DOMAIN revs[c] = 1..Len(revs[c])
      BY <1>3, LenProperties
    <2>2. QED BY <1>1, <2>1 DEF PipelineInv, ChapterOK, OneActive
  <1>5. /\ revs' = [revs EXCEPT ![c] = q] /\ CommitRow(w, new)
        /\ run' = [run EXCEPT ![w] = r] /\ Goto(w, "next")
    <2>1. revs' = [revs EXCEPT ![c] = q]
      BY <1>1, <1>3 DEF CommitChapter
    <2>2. CommitRow(w, new)
      BY DEF CommitChapter
    <2>3. run' = [run EXCEPT ![w] = r]
      BY DEF CommitChapter
    <2>4. Goto(w, "next")
      BY DEF CommitChapter
    <2>5. QED BY <2>1, <2>2, <2>3, <2>4
  <1>6. rev \in Revision /\ rev.status = "active" /\ n \in Nat /\ new \in Row
    <2>1. Len(revs[c]) \in Nat
      BY <1>3, LenProperties
    <2>2. QED BY <1>1, <2>1 DEF Revision, Row, Stored
  <1>7. /\ q \in Seq(Revision) /\ Len(q) = n /\ q[n] = rev
        /\ \A i \in 1..Len(q) : q[i].status = "active" <=> i = n
    <2>1. Sole(revs[c], row[c].active)
      BY <1>3, <1>4 DEF Sole
    <2>2. Active(rev)
      BY <1>6 DEF Active
    <2>3. Grown(q, revs[c], rev)
      <3> HIDE DEF rev, c
      <3>1. QED BY <2>1, <2>2, Appended
    <2>4. QED BY <2>3 DEF Grown, Sole
  <1>8. /\ row' = [row EXCEPT ![c] = new] /\ row' \in [Chapters -> Row]
        /\ usage' \in [Texts -> Nat] /\ \A t \in Texts : usage'[t] <= 1
    BY <1>1, <1>5, <1>6, CommitStep
  <1>9. r \in Run /\ r.at = c + 1 /\ r.seen = row' /\ r.files = f /\ r.bill = {}
    <2>1. /\ c + 1 \in 1..(N + 1) /\ f \in SUBSET Chapters
          /\ [run[w].seen EXCEPT ![c] = new] = row'
      BY <1>1, <1>3, <1>8, RunFields DEF Chapters
    <2>2. r = [IdleRun EXCEPT !.at = c + 1, !.seen = row', !.files = f]
      BY <2>1
    <2>3. PICK i, s, g : i = c + 1 /\ s = row' /\ g = f
      OBVIOUS
    <2>4. i \in 1..(N + 1) /\ s \in [Chapters -> Row] /\ g \in SUBSET Chapters
      BY <1>8, <2>1, <2>3
    <2>5. /\ Between(i, s, g) \in Run /\ Between(i, s, g).at = i
          /\ Between(i, s, g).seen = s /\ Between(i, s, g).files = g
          /\ Between(i, s, g).bill = {}
      BY <2>4, RunDone
    <2>6. r = Between(i, s, g)
      BY <2>2, <2>3 DEF Between
    <2>7. QED BY <2>3, <2>5, <2>6
  <1>10. /\ new.status = "done" /\ new.key /\ new.sha = a
         /\ new.sid = run[w].clean /\ new.active = n
         /\ rev.audio = a /\ rev.text = run[w].clean
    OBVIOUS
  <1>11. run'[w] = r /\ run[w].at = c
    BY <1>5 DEF PipelineInv, TypeOK, At
  <1> HIDE DEF r, q, rev, new, n
  <1>12. TypeOK'
    <2>1. pc' \in [Workers -> Steps \union {"idle"}] /\ run' \in [Workers -> Run]
      BY <1>5, <1>9 DEF PipelineInv, TypeOK, Goto, Steps
    <2>2. revs' \in [Chapters -> Seq(Revision)]
      BY <1>3, <1>5, <1>7
    <2>3. QED BY <1>2, <1>8, <2>1, <2>2 DEF PipelineInv, TypeOK, Steps
  <1>13. RunOK(w)'
    <2>1. pc'[w] = "next"
      BY <1>5 DEF Goto, PipelineInv, TypeOK
    <2>2. \A d \in f : d < c + 1 /\ Valid(local[Disk(w)][d])
      <3>1. Valid(local[Disk(w)][c])
        BY <1>1 DEF PipelineInv, RunOK
      <3>2. \A d \in run[w].files : d < run[w].at /\ Valid(local[Disk(w)][d])
        BY <1>1 DEF PipelineInv, RunOK, At
      <3>3. run[w].at \in Nat /\ \A d \in run[w].files : d \in Nat
        BY <1>1, RunFields DEF Chapters
      <3>4. QED BY <3>1, <3>2, <3>3 DEF At
    <2>3. QED BY <1>2, <1>9, <1>11, <2>1, <2>2 DEF RunOK, Rendering, At, Disk, Valid
  <1>14. HolderOK' /\ \A v \in Workers : RunOK(v)'
    BY <1>1, <1>2, <1>5, <1>13, OthersIdle
  <1>15. \A d \in Chapters : ChapterOK(d)'
    <2> SUFFICES ASSUME NEW d \in Chapters PROVE ChapterOK(d)'
      OBVIOUS
    <2>1. CASE d = c
      BY <1>1, <1>2, <1>3, <1>5, <1>6, <1>7, <1>8, <1>10, <2>1
         DEF ChapterOK, PipelineInv
    <2>2. CASE d # c
      BY <1>1, <1>2, <1>3, <1>5, <1>8, <2>2 DEF ChapterOK, PipelineInv
    <2>3. QED BY <2>1, <2>2
  <1>16. DoneDurable'
    <2> SUFFICES ASSUME NEW d \in Chapters, row'[d].status = "done"
                 PROVE  /\ row'[d].key
                        /\ object'[d] = row'[d].sha
                        /\ row'[d].active \in DOMAIN revs'[d]
                        /\ revs'[d][row'[d].active].audio = row'[d].sha
                        /\ revs'[d][row'[d].active].text = row'[d].sid
      BY DEF DoneDurable
    <2>1. CASE d = c
      <3>1. row'[d] = new /\ revs'[d] = q /\ object'[d] = a
        BY <1>1, <1>2, <1>3, <1>5, <1>8, <2>1
      <3>2. n \in DOMAIN q
        BY <1>6, <1>7, LenProperties DEF n
      <3>3. QED BY <3>1, <3>2, <1>7, <1>10
    <2>2. CASE d # c
      BY <1>1, <1>2, <1>3, <1>5, <1>8, <2>2 DEF DoneDurable, PipelineInv
    <2>3. QED BY <2>1, <2>2
  <1>17. OneActive'
    <2> SUFFICES ASSUME NEW d \in Chapters, NEW i \in DOMAIN revs'[d]
                 PROVE  revs'[d][i].status = "active" <=> i = row'[d].active
      BY DEF OneActive
    <2>1. CASE d = c
      <3>1. row'[d] = new /\ revs'[d] = q
        BY <1>1, <1>3, <1>5, <1>8, <2>1
      <3>2. DOMAIN q = 1..Len(q)
        BY <1>7, LenProperties
      <3>3. QED BY <3>1, <3>2, <1>7, <1>10
    <2>2. CASE d # c
      BY <1>1, <1>3, <1>5, <1>8, <2>2 DEF OneActive, PipelineInv
    <2>3. QED BY <2>1, <2>2
  <1>18. BookSound' /\ BilledOnce'
    BY <1>2, <1>8 DEF PipelineInv, BookSound, BilledOnce
  <1>19. QED BY <1>12, <1>14, <1>15, <1>16, <1>17, <1>18 DEF PipelineInv

-----------------------------------------------------------------------------
\* The export.
\* A chapter marked done has audio to list in the manifest.
LEMMA DoneSha ==
    ASSUME PipelineInv, NEW c \in Chapters, row[c].status = "done"
    PROVE  row[c].sha \in Audio
  <1>1. /\ revs[c] \in Seq(Revision)
        /\ row[c].active \in DOMAIN revs[c]
        /\ revs[c][row[c].active].audio = row[c].sha
    BY DEF PipelineInv, TypeOK, DoneDurable
  <1>2. revs[c][row[c].active] \in Revision
    BY <1>1, ElementOfSeq, LenProperties
  <1>3. QED BY <1>1, <1>2 DEF Revision

\* A step of the export changes no row, revision, event, object or file.
LEMMA ExportingStep ==
    ASSUME PipelineInv, NEW w \in Workers, pc[w] # "idle", NEW p \in {"manifest", "finish"},
           Goto(w, p), run' = run, run[w].bill = {},
           UNCHANGED <<text, row, revs, usage, object, cache, local, edited>>,
           job' \in JobType, job'.status = job.status, job'.holder = job.holder,
           fellBack' \in BOOLEAN, manifest' \in Book, book' \in Book,
           \A c \in DOMAIN book' : book'[c].ok
    PROVE  PipelineInv'
  <1>1. TypeOK'
    <2>1. pc' \in [Workers -> Steps \union {"idle"}]
      BY DEF PipelineInv, TypeOK, Goto, Steps
    <2>2. QED BY <2>1 DEF PipelineInv, TypeOK, Steps, JobType
  <1>2. pc'[w] = p /\ \A v \in Workers \ {w} : pc'[v] = "idle"
    BY Facts DEF Goto, PipelineInv, TypeOK
  <1>3. HolderOK'
    BY <1>2, Facts DEF PipelineInv, HolderOK
  <1>4. RunOK(w)'
    BY <1>2 DEF PipelineInv, RunOK, Rendering, At, Disk, Valid
  <1>5. \A v \in Workers : RunOK(v)'
    BY <1>2, <1>4 DEF RunOK
  <1>6. \A c \in Chapters : ChapterOK(c)'
    BY DEF PipelineInv, ChapterOK
  <1>7. DoneDurable' /\ OneActive'
    BY DEF PipelineInv, DoneDurable, OneActive
  <1>8. BookSound' /\ BilledOnce'
    BY DEF PipelineInv, BookSound, BilledOnce
  <1>9. QED BY <1>1, <1>3, <1>5, <1>6, <1>7, <1>8 DEF PipelineInv

LEMMA ExportInv ==
    ASSUME PipelineInv, NEW w \in Workers, Export(w)
    PROVE  PipelineInv'
  <1>1. /\ pc[w] = "next" /\ Goto(w, "manifest") /\ run' = run
        /\ UNCHANGED <<text, job, row, revs, usage, object, manifest, cache, local, edited>>
        /\ fellBack' = FALSE
        /\ book' = [c \in run[w].files |-> local[Disk(w)][c]]
    BY DEF Export, AtExport, dbVars, diskVars
  <1>2. run[w].bill = {} /\ run[w].files \in SUBSET Chapters /\ Disk(w) \in Disks
    BY <1>1, Facts DEF PipelineInv, RunOK, Run
  <1>3. \A c \in run[w].files : local[Disk(w)][c] \in Audio /\ local[Disk(w)][c].ok
    <2>1. \A c \in run[w].files : Valid(local[Disk(w)][c])
      BY <1>1 DEF PipelineInv, RunOK
    <2>2. local[Disk(w)] \in [Chapters -> Stored]
      BY <1>2 DEF PipelineInv, TypeOK
    <2>3. QED BY <1>2, <2>1, <2>2 DEF Valid, Stored
  <1>4. book' \in [run[w].files -> Audio]
    BY <1>1, <1>3
  <1>5. book' \in Book
    BY <1>2, <1>4, BookType
  <1>6. \A c \in DOMAIN book' : book'[c].ok
    BY <1>1, <1>3
  <1>7. job' \in JobType /\ manifest' \in Book
    BY <1>1 DEF PipelineInv, TypeOK, JobType
  <1>8. QED BY <1>1, <1>2, <1>5, <1>6, <1>7, ExportingStep

LEMMA ExportFailsInv ==
    ASSUME PipelineInv, NEW w \in Workers, ExportFails(w)
    PROVE  PipelineInv'
  <1>1. /\ pc[w] = "next" /\ Goto(w, "manifest") /\ run' = run
        /\ UNCHANGED <<text, job, row, revs, usage, object, book, manifest, cache,
                       local, edited>>
        /\ fellBack' = TRUE
    BY DEF ExportFails, AtExport, dbVars, storageVars, diskVars
  <1>2. run[w].bill = {}
    BY <1>1 DEF PipelineInv, RunOK
  <1>3. /\ job' \in JobType /\ manifest' \in Book /\ book' \in Book
        /\ \A c \in DOMAIN book' : book'[c].ok
    BY <1>1 DEF PipelineInv, TypeOK, JobType, BookSound
  <1>4. QED BY <1>1, <1>2, <1>3, ExportingStep

LEMMA WriteManifestInv ==
    ASSUME PipelineInv, NEW w \in Workers, WriteManifest(w)
    PROVE  PipelineInv'
  <1>1. /\ pc[w] = "manifest" /\ Goto(w, "finish") /\ run' = run
        /\ UNCHANGED <<text, row, revs, usage, object, book, cache, local, edited,
                       fellBack>>
        /\ job' = [job EXCEPT !.published = TRUE]
        /\ manifest' = [c \in DoneRows(run[w].seen) |-> run[w].seen[c].sha]
    BY DEF WriteManifest, diskVars, historyVars
  <1>2. run[w].bill = {} /\ run[w].seen = row
    BY <1>1 DEF PipelineInv, RunOK
  <1>3. /\ job' \in JobType /\ job'.status = job.status /\ job'.holder = job.holder
    BY <1>1 DEF PipelineInv, TypeOK, JobType
  <1>4. manifest' \in [DoneRows(row) -> Audio]
    BY <1>1, <1>2, DoneSha DEF DoneRows
  <1>5. manifest' \in Book
    BY <1>4, BookType DEF DoneRows
  <1>6. /\ fellBack' \in BOOLEAN /\ book' \in Book
        /\ \A c \in DOMAIN book' : book'[c].ok
    BY <1>1 DEF PipelineInv, TypeOK, BookSound
  <1>7. QED BY <1>1, <1>2, <1>3, <1>5, <1>6, ExportingStep

-----------------------------------------------------------------------------
\* The steps at which nobody is inside a run, or of clients.
LEMMA ClaimInv ==
    ASSUME PipelineInv, NEW w \in Workers, Claim(w)
    PROVE  PipelineInv'
  <1> DEFINE r == [IdleRun EXCEPT !.seen = row]
  <1>1. /\ job.status = "queued" /\ Goto(w, "next")
        /\ job' = [job EXCEPT !.status = "running", !.holder = w]
        /\ run' = [run EXCEPT ![w] = r] /\ edited' = {}
        /\ UNCHANGED <<text, row, revs, usage, object, book, manifest, cache, local,
                       fellBack>>
    BY DEF Claim, storageVars, diskVars
  <1>2. r \in Run /\ r.seen = row /\ r.files = {} /\ r.bill = {}
    BY IdleRunType, RunUpdate DEF PipelineInv, TypeOK, IdleRun
  <1>3. \A v \in Workers : pc[v] = "idle"
    BY <1>1 DEF PipelineInv, HolderOK
  <1> HIDE DEF r
  <1>4. /\ pc'[w] = "next" /\ \A v \in Workers \ {w} : pc'[v] = "idle"
        /\ run'[w] = r
    BY <1>1, <1>3 DEF Goto, PipelineInv, TypeOK
  <1>5. TypeOK'
    <2>1. pc' \in [Workers -> Steps \union {"idle"}] /\ run' \in [Workers -> Run]
      BY <1>1, <1>2 DEF PipelineInv, TypeOK, Goto, Steps
    <2>2. job' \in JobType
      BY <1>1 DEF PipelineInv, TypeOK, JobType
    <2>3. QED BY <1>1, <2>1, <2>2 DEF PipelineInv, TypeOK, Steps, JobType
  <1>6. HolderOK'
    <2>1. job'.holder = w /\ job'.status = "running"
      BY <1>1 DEF PipelineInv, TypeOK
    <2>2. QED BY <1>4, <2>1 DEF HolderOK
  <1>7. \A v \in Workers : RunOK(v)'
    BY <1>1, <1>2, <1>4 DEF RunOK, Rendering
  <1>8. \A c \in Chapters : ChapterOK(c)'
    BY <1>1 DEF PipelineInv, ChapterOK
  <1>9. DoneDurable' /\ OneActive'
    BY <1>1 DEF PipelineInv, DoneDurable, OneActive
  <1>10. BookSound' /\ BilledOnce'
    BY <1>1 DEF PipelineInv, BookSound, BilledOnce
  <1>11. QED BY <1>5, <1>6, <1>7, <1>8, <1>9, <1>10 DEF PipelineInv

\* While every process is idle the job may change hands and rows be reset.
LEMMA IdleStep ==
    ASSUME PipelineInv, UNCHANGED <<pc, run>>, \A v \in Workers : pc[v] = "idle",
           JobFits(job)', row' \in [Chapters -> Row],
           \A c \in Chapters : /\ row'[c].active = row[c].active
                               /\ row'[c] = row[c] \/ row'[c].status = "pending",
           UNCHANGED <<text, revs, usage, object, book, manifest, cache, local, edited,
                       fellBack>>
    PROVE  PipelineInv'
  <1>1. TypeOK'
    BY DEF PipelineInv, TypeOK, JobFits, JobType
  <1>2. HolderOK' /\ \A v \in Workers : RunOK(v)'
    BY DEF HolderOK, RunOK, JobFits
  <1>3. \A c \in Chapters : ChapterOK(c)'
    BY DEF PipelineInv, ChapterOK
  <1>4. DoneDurable' /\ OneActive'
    BY DEF PipelineInv, DoneDurable, OneActive
  <1>5. BookSound' /\ BilledOnce'
    BY DEF PipelineInv, BookSound, BilledOnce
  <1>6. QED BY <1>1, <1>2, <1>3, <1>4, <1>5 DEF PipelineInv

LEMMA RecoverInv ==
    ASSUME PipelineInv, Recover
    PROVE  PipelineInv'
  <1>1. /\ job.status = "running" /\ pc[job.holder] = "idle"
        /\ UNCHANGED <<text, row, revs, usage, object, book, manifest, cache, local,
                       edited, fellBack, pc, run>>
    BY DEF Recover, storageVars, diskVars, runVars, historyVars
  <1>2. \A v \in Workers : pc[v] = "idle"
    BY <1>1 DEF PipelineInv, HolderOK
  <1>3. PICK s \in {"queued", "failed"} :
          job' = [job EXCEPT !.status = s, !.holder = NoWorker]
    BY DEF Recover
  <1>4. JobFits(job)'
    BY <1>3, PipelineAssumption DEF PipelineInv, TypeOK, JobFits, JobType
  <1>5. row' \in [Chapters -> Row] /\ \A c \in Chapters : row'[c] = row[c]
    BY <1>1 DEF PipelineInv, TypeOK
  <1>6. QED BY <1>1, <1>2, <1>4, <1>5, IdleStep

LEMMA RerenderInv ==
    ASSUME PipelineInv, Rerender \/ \E c \in Chapters : RerenderChapter(c)
    PROVE  PipelineInv'
  <1>1. /\ job.status \in {"finished", "failed"}
        /\ job' = [job EXCEPT !.status = "queued"]
        /\ UNCHANGED <<text, revs, usage, object, book, manifest, cache, local,
                       edited, fellBack, pc, run>>
        /\ row' = row \/ \E c \in Chapters : row' = [row EXCEPT ![c].status = "pending"]
    BY DEF Rerender, RerenderChapter, storageVars, diskVars, runVars, historyVars
  <1>2. \A v \in Workers : pc[v] = "idle"
    BY <1>1 DEF PipelineInv, HolderOK
  <1>3. JobFits(job)'
    BY <1>1 DEF PipelineInv, TypeOK, HolderOK, JobFits, JobType
  <1>4. /\ row' \in [Chapters -> Row]
        /\ \A c \in Chapters : /\ row'[c].active = row[c].active
                               /\ row'[c] = row[c] \/ row'[c].status = "pending"
    <2>1. row \in [Chapters -> Row]
      BY DEF PipelineInv, TypeOK
    <2>2. CASE row' = row
      BY <2>1, <2>2
    <2>3. ASSUME NEW c \in Chapters, row' = [row EXCEPT ![c].status = "pending"]
          PROVE  <1>4!1 /\ <1>4!2
      <3> DEFINE n == [row[c] EXCEPT !.status = "pending"]
      <3>1. n \in Row /\ n.status = "pending" /\ n.active = row[c].active
        BY <2>1 DEF Row
      <3>2. row' = [row EXCEPT ![c] = n]
        BY <2>3
      <3> HIDE DEF n
      <3>3. QED BY <2>1, <3>1, <3>2
    <2>4. QED BY <1>1, <2>2, <2>3
  <1>5. QED BY <1>1, <1>2, <1>3, <1>4, IdleStep

\* An edit of the lexicon only changes what later steps will read.
LEMMA EditLexiconInv ==
    ASSUME PipelineInv, NEW c \in Chapters, NEW t \in Texts, EditLexicon(c, t)
    PROVE  PipelineInv'
  <1>1. /\ text' = [text EXCEPT ![c] = t] /\ edited' = edited \union {c}
        /\ UNCHANGED <<job, row, revs, usage, object, book, manifest, cache, local,
                       pc, run, fellBack>>
    BY DEF EditLexicon, dbVars, storageVars, diskVars, runVars
  <1>2. TypeOK'
    BY <1>1 DEF PipelineInv, TypeOK
  <1>3. HolderOK' /\ \A v \in Workers : RunOK(v)'
    BY <1>1 DEF PipelineInv, HolderOK, RunOK, Rendering, At, Disk, Valid
  <1>4. \A d \in Chapters : ChapterOK(d)'
    BY <1>1 DEF PipelineInv, ChapterOK
  <1>5. DoneDurable' /\ OneActive'
    BY <1>1 DEF PipelineInv, DoneDurable, OneActive
  <1>6. BookSound' /\ BilledOnce'
    BY <1>1 DEF PipelineInv, BookSound, BilledOnce
  <1>7. QED BY <1>2, <1>3, <1>4, <1>5, <1>6 DEF PipelineInv

-----------------------------------------------------------------------------
LEMMA StutterInv == PipelineInv /\ UNCHANGED vars => PipelineInv'
  <1> SUFFICES ASSUME PipelineInv, UNCHANGED vars PROVE PipelineInv'
    OBVIOUS
  <1> USE DEF vars, dbVars, storageVars, diskVars, runVars, historyVars
  <1>1. TypeOK'
    BY DEF PipelineInv, TypeOK
  <1>2. HolderOK' /\ \A v \in Workers : RunOK(v)'
    BY DEF PipelineInv, HolderOK, RunOK, Rendering, At, Disk, Valid
  <1>3. \A d \in Chapters : ChapterOK(d)'
    BY DEF PipelineInv, ChapterOK
  <1>4. DoneDurable' /\ OneActive'
    BY DEF PipelineInv, DoneDurable, OneActive
  <1>5. BookSound' /\ BilledOnce'
    BY DEF PipelineInv, BookSound, BilledOnce
  <1>6. QED BY <1>1, <1>2, <1>3, <1>4, <1>5 DEF PipelineInv

LEMMA ChapterStepInv ==
    ASSUME PipelineInv, NEW w \in Workers, ChapterStep(w)
    PROVE  PipelineInv'
  <1>1. CASE SkipChapter(w)    BY <1>1, SkipChapterInv
  <1>2. CASE ResumeStored(w) \/ ResumeLocal(w)  BY <1>2, ResumeInv
  <1>3. CASE Begin(w)          BY <1>3, BeginInv
  <1>4. CASE LookUp(w)         BY <1>4, LookUpInv
  <1>5. CASE Synthesize(w)     BY <1>5, SynthesizeInv
  <1>6. CASE Vet(w)            BY <1>6, VetInv
  <1>7. CASE RejectChunk(w)    BY <1>7, RejectChunkInv
  <1>8. CASE Assemble(w)       BY <1>8, AssembleInv
  <1>9. CASE Check(w)          BY <1>9, CheckInv
  <1>10. CASE Upload(w)        BY <1>10, UploadInv
  <1>11. CASE UploadFails(w)   BY <1>11, UploadFailsInv
  <1>12. CASE CommitChapter(w) BY <1>12, CommitChapterInv
  <1>13. QED BY <1>1, <1>2, <1>3, <1>4, <1>5, <1>6, <1>7, <1>8, <1>9, <1>10, <1>11,
                <1>12 DEF ChapterStep

LEMMA NextInv == PipelineInv /\ [Next]_vars => PipelineInv'
  <1> SUFFICES ASSUME PipelineInv, [Next]_vars PROVE PipelineInv'
    OBVIOUS
  <1>1. ASSUME NEW w \in Workers,
               Claim(w) \/ Stop(w) \/ ChapterStep(w) \/ ExportStep(w) \/ Raise(w)
               \/ Crash(w)
        PROVE  PipelineInv'
    <2>1. CASE Claim(w)       BY <2>1, ClaimInv
    <2>2. CASE ChapterStep(w) BY <2>2, ChapterStepInv
    <2>3. CASE Export(w)      BY <2>3, ExportInv
    <2>4. CASE ExportFails(w) BY <2>4, ExportFailsInv
    <2>5. CASE WriteManifest(w) BY <2>5, WriteManifestInv
    <2>6. CASE Stop(w) \/ Raise(w) \/ Crash(w) \/ Finish(w)
      BY <2>6, EndInv
    <2>7. QED BY <1>1, <2>1, <2>2, <2>3, <2>4, <2>5, <2>6 DEF ExportStep
  <1>2. CASE Recover
    BY <1>2, RecoverInv
  <1>3. CASE ClientStep
    <2>1. CASE Rerender \/ \E c \in Chapters : RerenderChapter(c)
      BY <2>1, RerenderInv
    <2>2. CASE \E c \in Chapters : \E t \in Texts : EditLexicon(c, t)
      BY <2>2, EditLexiconInv
    <2>3. QED BY <1>3, <2>1, <2>2 DEF ClientStep
  <1>4. CASE UNCHANGED vars
    BY <1>4, StutterInv
  <1>5. QED BY <1>1, <1>2, <1>3, <1>4 DEF Next

\* In every reachable state the database, the storage, the disks and the
\* worker's memory agree as PipelineInv says.
THEOREM PipelineInvariant == Spec => []PipelineInv
  BY InitInv, NextInv, PTL DEF Spec

\* Every variable keeps its type.
THEOREM TypesKept == Spec => []TypeOK
  <1>1. PipelineInv => TypeOK
    BY DEF PipelineInv
  <1>2. QED BY <1>1, PipelineInvariant, PTL

\* A chapter marked done is stored, and is what its row and revision hashed.
THEOREM DoneIsDurable == Spec => []DoneDurable
  <1>1. PipelineInv => DoneDurable
    BY DEF PipelineInv
  <1>2. QED BY <1>1, PipelineInvariant, PTL

\* Exactly the revision the row points to is active.
THEOREM RevisionActive == Spec => []OneActive
  <1>1. PipelineInv => OneActive
    BY DEF PipelineInv
  <1>2. QED BY <1>1, PipelineInvariant, PTL

\* Only validated audio reaches the stored book.
THEOREM BookValidated == Spec => []BookSound
  <1>1. PipelineInv => BookSound
    BY DEF PipelineInv
  <1>2. QED BY <1>1, PipelineInvariant, PTL

\* No chunk is billed twice, however often the job is retried.
THEOREM NeverBilledTwice == Spec => []BilledOnce
  <1>1. PipelineInv => BilledOnce
    BY DEF PipelineInv
  <1>2. QED BY <1>1, PipelineInvariant, PTL

-----------------------------------------------------------------------------
(* The export of a finished job describes its finished chapters, and speaks    *)
(* their current texts, for any number of chapters, texts and workers that     *)
(* share a disk.  The argument: the files a run has collected are the finished *)
(* chapters it has passed, a valid file on the disk is what the row of a       *)
(* finished chapter hashed, and that row names the text its audio speaks.      *)

OneDisk == \A v, w \in Workers : DiskOf[v] = DiskOf[w]
Hashes == [c \in DoneRows(row) |-> row[c].sha]

SilentOK == \A c \in Silent : row[c].status # "done"
LocalOK == \A w \in Workers, c \in Chapters :
              row[c].status = "done" /\ Valid(local[Disk(w)][c]) => local[Disk(w)][c] = row[c].sha
Collected(w) == run[w].files = {c \in Chapters : c < At(w) /\ row[c].status = "done"}
Exporting(w) == /\ pc[w] \in {"manifest", "finish"} => fellBack \/ book = Hashes
                /\ pc[w] = "finish" => manifest = Hashes
Sync(w) == pc[w] # "idle" => /\ Collected(w) /\ Exporting(w)
                             /\ pc[w] \in Rendering => At(w) \notin Silent
FaithfulInv == SilentOK /\ LocalOK /\ (\A w \in Workers : Sync(w)) /\ ExportFaithful

-----------------------------------------------------------------------------
\* The only run goes on.
LEMMA InRun ==
    ASSUME PipelineInv', NEW w \in Workers, pc'[w] # "idle", Sync(w)', SilentOK', LocalOK'
    PROVE  FaithfulInv'
  <1>1. job'.holder = w /\ job'.status = "running" /\ \A v \in Workers \ {w} : pc'[v] = "idle"
    BY DEF PipelineInv, HolderOK
  <1>2. \A v \in Workers \ {w} : Sync(v)'
    BY <1>1 DEF Sync
  <1>3. ExportFaithful'
    BY <1>1 DEF ExportFaithful
  <1>4. QED BY <1>2, <1>3 DEF FaithfulInv

\* Nobody is inside a run.
LEMMA NoRun ==
    ASSUME \A v \in Workers : pc'[v] = "idle", SilentOK', LocalOK', ExportFaithful'
    PROVE  FaithfulInv'
  BY DEF FaithfulInv, Sync

\* No chapter becomes done, and no file of a done chapter is touched.
LEMMA Fewer ==
    ASSUME FaithfulInv,
           \A c \in Chapters : row'[c] = row[c] \/ row'[c].status # "done",
           \A v \in Workers, c \in Chapters :
              local'[Disk(v)][c] = local[Disk(v)][c] \/ row'[c].status # "done"
    PROVE  SilentOK' /\ LocalOK'
  <1>1. SilentOK'
    BY PipelineAssumption DEF FaithfulInv, SilentOK
  <1>2. LocalOK'
    BY DEF FaithfulInv, LocalOK, Disk
  <1>3. QED BY <1>1, <1>2

\* A step that leaves rows, files, place and collection of the run alone.
LEMMA SamePlace ==
    ASSUME PipelineInv, PipelineInv', FaithfulInv, NEW w \in Workers, pc[w] # "idle",
           NEW p \in Steps \ {"manifest", "finish"}, Goto(w, p),
           p \in Rendering => pc[w] \in Rendering,
           UNCHANGED row, run'[w].at = run[w].at, run'[w].files = run[w].files,
           \A v \in Workers, c \in Chapters :
              local'[Disk(v)][c] = local[Disk(v)][c] \/ row[c].status # "done"
    PROVE  FaithfulInv'
  <1>1. pc'[w] = p /\ p # "idle"
    BY DEF Goto, PipelineInv, TypeOK, Steps
  <1>2. Collected(w)
    BY DEF FaithfulInv, Sync
  <1>3. Collected(w)'
    BY <1>2 DEF Collected, At
  <1>4. Exporting(w)'
    BY <1>1 DEF Exporting
  <1>5. pc'[w] \in Rendering => At(w)' \notin Silent
    BY <1>1 DEF At, FaithfulInv, Sync
  <1>6. SilentOK' /\ LocalOK'
    BY Fewer
  <1>7. QED BY <1>1, <1>3, <1>4, <1>5, <1>6, InRun DEF Sync

LEMMA RunKept ==
    ASSUME NEW q \in Run
    PROVE  /\ \A n : [q EXCEPT !.tries = n].at = q.at /\ [q EXCEPT !.tries = n].files = q.files
           /\ \A a : [q EXCEPT !.audio = a].at = q.at /\ [q EXCEPT !.audio = a].files = q.files
           /\ \A b : /\ [q EXCEPT !.bill = b, !.tries = 0].at = q.at
                     /\ [q EXCEPT !.bill = b, !.tries = 0].files = q.files
  BY DEF Run

\* Steps of one chapter that only move on.
LEMMA ChapterMoves ==
    ASSUME PipelineInv, PipelineInv', FaithfulInv, NEW w \in Workers,
           LookUp(w) \/ Synthesize(w) \/ Upload(w)
    PROVE  FaithfulInv'
  <1>1. pc[w] \in Rendering /\ pc[w] # "idle" /\ UNCHANGED <<row, local>>
    BY DEF LookUp, Synthesize, Upload, Rendering, dbVars, diskVars
  <1>2. PICK p \in Rendering : Goto(w, p)
    BY DEF LookUp, Synthesize, Upload, Rendering
  <1>3. run[w] \in Run /\ run \in [Workers -> Run]
    BY DEF PipelineInv, TypeOK
  <1>4. run'[w].at = run[w].at /\ run'[w].files = run[w].files
    <2>1. CASE LookUp(w) \/ Upload(w)
      BY <2>1 DEF LookUp, Upload
    <2>2. CASE Synthesize(w)
      BY <1>3, <2>2, RunKept DEF Synthesize
    <2>3. QED BY <2>1, <2>2
  <1>5. p \in Steps \ {"manifest", "finish"}
    BY <1>2 DEF Rendering, Steps
  <1>6. QED BY <1>1, <1>2, <1>4, <1>5, SamePlace

\* The process leaves the run; whatever it writes, no chapter becomes done.
LEMMA Leaves ==
    ASSUME PipelineInv, FaithfulInv, NEW w \in Workers, pc[w] # "idle", Drop(w, "idle"),
           job'.status # "finished", UNCHANGED local,
           \A c \in Chapters : row'[c] = row[c] \/ row'[c].status # "done"
    PROVE  FaithfulInv'
  <1>1. \A v \in Workers : pc'[v] = "idle"
    BY Facts DEF Drop, Goto, PipelineInv, TypeOK
  <1>2. SilentOK' /\ LocalOK'
    BY Fewer
  <1>3. QED BY <1>1, <1>2, NoRun DEF ExportFaithful

LEMMA FailedIsNotFinished ==
    ASSUME PipelineInv, NEW w \in Workers, pc[w] # "idle", Failed(w)
    PROVE  job'.status # "finished"
  BY Facts DEF Failed, PipelineInv, TypeOK

LEMMA Rejected ==
    ASSUME PipelineInv, FaithfulInv, NEW w \in Workers, pc[w] # "idle", At(w) \in Chapters,
           NEW new \in Row, Reject(w, new), UNCHANGED local
    PROVE  FaithfulInv'
  <1> DEFINE n == [new EXCEPT !.status = "pending"]
  <1>1. n \in Row /\ n.status = "pending"
    BY DEF Row
  <1>2. row' = [row EXCEPT ![At(w)] = n]
    BY <1>1, CommitStep DEF Reject
  <1> HIDE DEF n
  <1>3. \A c \in Chapters : row'[c] = row[c] \/ row'[c].status # "done"
    BY <1>1, <1>2 DEF PipelineInv, TypeOK
  <1>4. Drop(w, "idle") /\ job'.status # "finished"
    BY FailedIsNotFinished DEF Reject
  <1>5. QED BY <1>3, <1>4, Leaves

LEMMA InHand ==
    ASSUME PipelineInv, NEW w \in Workers, pc[w] \in Rendering
    PROVE  /\ pc[w] # "idle" /\ At(w) \in Chapters /\ row[At(w)].status # "done"
           /\ run[w].seen = row /\ row \in [Chapters -> Row] /\ run[w].seen[At(w)] \in Row
           /\ run[w] \in Run /\ run \in [Workers -> Run] /\ Disk(w) \in Disks
           /\ local \in [Disks -> [Chapters -> Stored]]
  <1>1. pc[w] # "idle"
    BY DEF Rendering
  <1>2. QED BY <1>1, RunFields, Facts DEF PipelineInv, TypeOK, RunOK

LEMMA VetExport ==
    ASSUME PipelineInv, PipelineInv', FaithfulInv, NEW w \in Workers, Vet(w)
    PROVE  FaithfulInv'
  <1>1. pc[w] \in Rendering /\ pc[w] # "idle" /\ UNCHANGED <<row, local>>
    BY DEF Vet, Rendering, diskVars
  <1>2. CASE Failed(w) /\ Drop(w, "idle")
    BY <1>1, <1>2, FailedIsNotFinished, Leaves
  <1>3. CASE run' = [run EXCEPT ![w].bill = Bill(w), ![w].tries = 0] /\ Goto(w, "assemble")
    <2>1. run' = [run EXCEPT ![w] = [run[w] EXCEPT !.bill = Bill(w), !.tries = 0]]
      BY <1>1, <1>3, InHand DEF Run
    <2>2. run'[w].at = run[w].at /\ run'[w].files = run[w].files
      BY <1>1, <2>1, InHand, RunKept
    <2>3. "assemble" \in Steps \ {"manifest", "finish"}
      BY DEF Steps
    <2>4. QED BY <1>1, <1>3, <2>2, <2>3, SamePlace
  <1>4. QED BY <1>2, <1>3 DEF Vet

LEMMA RejectChunkExport ==
    ASSUME PipelineInv, PipelineInv', FaithfulInv, NEW w \in Workers, RejectChunk(w)
    PROVE  FaithfulInv'
  <1>1. pc[w] \in Rendering /\ pc[w] # "idle" /\ UNCHANGED local
    BY DEF RejectChunk, Rendering
  <1>2. CASE Goto(w, "synthesize") /\ UNCHANGED <<dbVars, run>>
    <2>1. "synthesize" \in Steps \ {"manifest", "finish"}
      BY DEF Steps
    <2>2. QED BY <1>1, <1>2, <2>1, SamePlace DEF dbVars
  <1>3. CASE Reject(w, run[w].seen[At(w)])
    BY <1>1, <1>3, InHand, Rejected
  <1>4. QED BY <1>2, <1>3 DEF RejectChunk

LEMMA CheckExport ==
    ASSUME PipelineInv, PipelineInv', FaithfulInv, NEW w \in Workers, Check(w)
    PROVE  FaithfulInv'
  <1>1. pc[w] \in Rendering /\ pc[w] # "idle" /\ UNCHANGED local
    BY DEF Check, Rendering, diskVars
  <1>2. CASE /\ run' = [run EXCEPT ![w].audio = local[Disk(w)][At(w)]]
             /\ Goto(w, "upload") /\ UNCHANGED dbVars
    <2>1. run'[w].at = run[w].at /\ run'[w].files = run[w].files
      BY <1>1, <1>2, InHand, RunKept
    <2>2. "upload" \in Steps \ {"manifest", "finish"}
      BY DEF Steps
    <2>3. QED BY <1>1, <1>2, <2>1, <2>2, SamePlace DEF dbVars
  <1>3. CASE Reject(w, run[w].seen[At(w)])
    BY <1>1, <1>3, InHand, Rejected
  <1>4. QED BY <1>2, <1>3 DEF Check

LEMMA UploadFailsExport ==
    ASSUME PipelineInv, FaithfulInv, NEW w \in Workers, UploadFails(w)
    PROVE  FaithfulInv'
  <1>1. pc[w] \in Rendering /\ pc[w] # "idle" /\ UNCHANGED local
    BY DEF UploadFails, Rendering, diskVars
  <1> DEFINE new == Detached(run[w].seen[At(w)])
  <1>2. new \in Row
    BY <1>1, InHand DEF Detached, Row, Stored
  <1>3. Reject(w, new)
    BY DEF UploadFails
  <1> HIDE DEF new
  <1>4. QED BY <1>1, <1>2, <1>3, InHand, Rejected

\* Assembling writes the disk where the chapter in hand, not done, keeps its file.
LEMMA AssembleExport ==
    ASSUME PipelineInv, PipelineInv', FaithfulInv, NEW w \in Workers, Assemble(w)
    PROVE  FaithfulInv'
  <1>1. pc[w] \in Rendering /\ pc[w] # "idle" /\ UNCHANGED <<row, run>> /\ Goto(w, "check")
    BY DEF Assemble, Rendering, dbVars
  <1>2. PICK a : local' = [local EXCEPT ![Disk(w)][At(w)] = a]
    BY DEF Assemble
  <1>3. \A v \in Workers : Disk(v) \in Disks
    BY PipelineAssumption DEF Disk
  <1>4. \A v \in Workers, c \in Chapters :
           local'[Disk(v)][c] = local[Disk(v)][c] \/ row[c].status # "done"
    BY <1>1, <1>2, <1>3, InHand
  <1>5. "check" \in Steps \ {"manifest", "finish"}
    BY DEF Steps
  <1>6. QED BY <1>1, <1>4, <1>5, SamePlace

-----------------------------------------------------------------------------
\* From one chapter to the next: it is collected exactly when it is done.
LEMMA Passed ==
    ASSUME PipelineInv, PipelineInv', FaithfulInv, NEW w \in Workers, pc[w] # "idle",
           NEW c \in Chapters, c = At(w), Goto(w, "next"),
           run'[w].at = c + 1,
           run'[w].files = run[w].files \cup {d \in {c} : row'[d].status = "done"},
           \A d \in Chapters \ {c} : row'[d] = row[d],
           SilentOK', LocalOK'
    PROVE  FaithfulInv'
  <1>1. pc'[w] = "next"
    BY DEF Goto, PipelineInv, TypeOK
  <1>2. run[w].files = {d \in Chapters : d < c /\ row[d].status = "done"}
    BY DEF FaithfulInv, Sync, Collected
  <1>3. \A d \in Chapters : d < c + 1 <=> d < c \/ d = c
    BY PipelineAssumption DEF Chapters
  <1>4. ~(c < c)
    BY PipelineAssumption DEF Chapters
  <1>5. {d \in Chapters : d < c + 1 /\ row'[d].status = "done"} = run'[w].files
    BY <1>2, <1>3, <1>4
  <1>6. Collected(w)'
    BY <1>5 DEF Collected, At
  <1>7. Sync(w)'
    BY <1>1, <1>6 DEF Sync, Exporting, Rendering
  <1>8. QED BY <1>1, <1>7, InRun

LEMMA Advanced ==
    ASSUME NEW q \in Run, NEW f, NEW s
    PROVE  /\ [q EXCEPT !.at = @ + 1, !.files = f].at = q.at + 1
           /\ [q EXCEPT !.at = @ + 1, !.files = f].files = f
           /\ [q EXCEPT !.at = @ + 1, !.seen = s].at = q.at + 1
           /\ [q EXCEPT !.at = @ + 1, !.seen = s].files = q.files
  BY DEF Run

LEMMA SkipChapterExport ==
    ASSUME PipelineInv, PipelineInv', FaithfulInv, NEW w \in Workers, SkipChapter(w)
    PROVE  FaithfulInv'
  <1> DEFINE c == At(w)
  <1>1. pc[w] = "next" /\ pc[w] # "idle" /\ c \in Chapters /\ c \in Silent
    BY PipelineAssumption DEF SkipChapter, AtChapter
  <1>2. /\ run[w].seen = row /\ run[w] \in Run /\ run \in [Workers -> Run]
        /\ row \in [Chapters -> Row] /\ run[w].at = c
    BY <1>1, Facts DEF PipelineInv, TypeOK, At
  <1>3. row[c].status # "done"
    BY <1>1 DEF FaithfulInv, SilentOK
  <1>4. row' = [row EXCEPT ![c].status = "skipped"]
    BY <1>2, <1>3 DEF SkipChapter
  <1>5. row'[c].status = "skipped" /\ \A d \in Chapters \ {c} : row'[d] = row[d]
    BY <1>1, <1>2, <1>4 DEF Row
  <1>6. Goto(w, "next") /\ UNCHANGED local
    BY DEF SkipChapter, diskVars
  <1>7. run'[w].at = c + 1 /\ run'[w].files = run[w].files
    <2>1. run' = [run EXCEPT ![w] = [run[w] EXCEPT !.at = @ + 1, !.seen = row']]
      BY <1>2 DEF SkipChapter, Run
    <2>2. QED BY <1>2, <2>1, Advanced
  <1>8. SilentOK' /\ LocalOK'
    BY <1>5, <1>6, Fewer
  <1>9. {d \in {c} : row'[d].status = "done"} = {}
    BY <1>5
  <1> HIDE DEF c
  <1>10. QED BY <1>1, <1>5, <1>6, <1>7, <1>8, <1>9, Passed DEF c

LEMMA ResumeExport ==
    ASSUME PipelineInv, PipelineInv', FaithfulInv, NEW w \in Workers, OneDisk,
           ResumeStored(w) \/ ResumeLocal(w)
    PROVE  FaithfulInv'
  <1> DEFINE c == At(w)
             f == run[w].files \cup {c}
  <1>1. /\ pc[w] = "next" /\ pc[w] # "idle" /\ c \in Chapters /\ UNCHANGED row
        /\ NextChapter(w, f) /\ Resumable(w)
    BY RunFields DEF ResumeStored, ResumeLocal, AtChapter, Chapters, dbVars
  <1>2. /\ run[w].seen = row /\ run[w] \in Run /\ run \in [Workers -> Run]
        /\ run[w].at = c /\ local \in [Disks -> [Chapters -> Stored]]
    BY <1>1, Facts DEF PipelineInv, TypeOK, At
  <1>3. row[c].status = "done" /\ row'[c].status = "done"
    BY <1>1, <1>2 DEF Resumable
  <1>4. Goto(w, "next") /\ run'[w].at = c + 1 /\ run'[w].files = f
    <2>1. run' = [run EXCEPT ![w] = [run[w] EXCEPT !.at = @ + 1, !.files = f]]
      BY <1>1, <1>2 DEF NextChapter, Run
    <2>2. QED BY <1>1, <1>2, <2>1, Advanced DEF NextChapter
  <1>5. SilentOK'
    BY <1>1 DEF FaithfulInv, SilentOK
  <1>6. LocalOK'
    <2>1. CASE ResumeLocal(w)
      BY <1>1, <2>1 DEF ResumeLocal, diskVars, FaithfulInv, LocalOK
    <2>2. CASE ResumeStored(w)
      <3>1. local' = [local EXCEPT ![Disk(w)][c] = object[c]] /\ object[c] = row[c].sha
        BY <1>2, <2>2 DEF ResumeStored, Intact
      <3>2. \A v \in Workers : Disk(v) = Disk(w) /\ Disk(v) \in Disks
        BY PipelineAssumption DEF OneDisk, Disk
      <3>3. \A v \in Workers : local'[Disk(v)][c] = row[c].sha
        BY <1>1, <1>2, <3>1, <3>2
      <3>4. \A v \in Workers, d \in Chapters \ {c} : local'[Disk(v)][d] = local[Disk(v)][d]
        BY <1>1, <1>2, <3>1, <3>2
      <3>5. QED BY <1>1, <3>3, <3>4 DEF FaithfulInv, LocalOK, Disk
    <2>3. QED BY <2>1, <2>2
  <1>7. {d \in {c} : row'[d].status = "done"} = {c}
    BY <1>3
  <1>8. \A d \in Chapters \ {c} : row'[d] = row[d]
    BY <1>1
  <1> HIDE DEF c
  <1>9. QED BY <1>1, <1>4, <1>5, <1>6, <1>7, <1>8, Passed DEF c

LEMMA BeginExport ==
    ASSUME PipelineInv, PipelineInv', FaithfulInv, NEW w \in Workers, Begin(w)
    PROVE  FaithfulInv'
  <1> DEFINE c == At(w)
             new == Marked(run[w].seen[c])
  <1>1. /\ pc[w] = "next" /\ pc[w] # "idle" /\ c \in Chapters /\ c \notin Silent
        /\ UNCHANGED local /\ Goto(w, "lookup")
    BY RunFields DEF Begin, AtChapter, Chapters, diskVars
  <1>2. /\ run[w].seen = row /\ run[w] \in Run /\ run \in [Workers -> Run]
        /\ row \in [Chapters -> Row]
    BY <1>1, Facts DEF PipelineInv, TypeOK
  <1>3. new \in Row /\ new.status = "processing" /\ CommitRow(w, new)
    BY <1>1, <1>2 DEF Marked, Row, Begin
  <1>4. row' = [row EXCEPT ![c] = new]
    BY <1>1, <1>3, CommitStep
  <1>5. run'[w].at = run[w].at /\ run'[w].files = run[w].files
    BY <1>2 DEF Begin, Run
  <1> HIDE DEF new
  <1>6. row'[c].status # "done" /\ \A d \in Chapters \ {c} : row'[d] = row[d]
    BY <1>1, <1>2, <1>3, <1>4
  <1>7. SilentOK' /\ LocalOK'
    BY <1>1, <1>6, Fewer
  <1>8. pc'[w] = "lookup"
    BY <1>1 DEF Goto, PipelineInv, TypeOK
  <1>9. Collected(w)'
    <2>1. Collected(w)
      BY <1>1 DEF FaithfulInv, Sync
    <2>2. ~(c < c)
      BY <1>1, PipelineAssumption DEF Chapters
    <2>3. \A d \in Chapters : d < c => row'[d] = row[d]
      BY <1>6, <2>2
    <2>4. QED BY <1>5, <2>1, <2>3 DEF Collected, At
  <1>10. At(w)' \notin Silent
    BY <1>1, <1>5 DEF At
  <1>11. Sync(w)'
    BY <1>8, <1>9, <1>10 DEF Sync, Exporting
  <1>12. QED BY <1>7, <1>8, <1>11, InRun

\* The chapter is done with the checksum of the file on the shared disk.
LEMMA CommitChapterExport ==
    ASSUME PipelineInv, PipelineInv', FaithfulInv, NEW w \in Workers, OneDisk, CommitChapter(w)
    PROVE  FaithfulInv'
  <1> DEFINE c == At(w)
             a == run[w].audio
             new == [status |-> "done", key |-> TRUE, sha |-> a,
                     sid |-> run[w].clean, active |-> Len(revs[c]) + 1]
             f == run[w].files \cup {c}
             s == [run[w].seen EXCEPT ![c] = new]
  <1>1. /\ pc[w] = "verify" /\ pc[w] \in Rendering /\ pc[w] # "idle" /\ c \in Chapters
        /\ UNCHANGED local /\ Goto(w, "next") /\ CommitRow(w, new)
    BY RunFields DEF CommitChapter, Rendering, diskVars
  <1>2. /\ run[w].seen = row /\ run[w] \in Run /\ run \in [Workers -> Run]
        /\ row \in [Chapters -> Row] /\ a \in Stored /\ a = local[Disk(w)][c]
        /\ run[w].clean \in Texts /\ run[w].files \in SUBSET Chapters
    BY <1>1, Facts, RunFields DEF PipelineInv, TypeOK, RunOK
  <1>3. new \in Row
    <2>1. Len(revs[c]) \in Nat
      BY <1>1, LenProperties DEF PipelineInv, TypeOK
    <2>2. QED BY <1>2, <2>1 DEF Row
  <1>4. row' = [row EXCEPT ![c] = new]
    BY <1>1, <1>3, CommitStep
  <1>5. run' = [run EXCEPT ![w] = Between(c + 1, s, f)]
    BY DEF CommitChapter, Between
  <1>6. new.status = "done" /\ new.sha = local[Disk(w)][c]
    BY <1>2
  <1>7. s \in [Chapters -> Row]
    BY <1>2, <1>3
  <1> HIDE DEF new, s
  <1>8. c + 1 \in 1..(N + 1) /\ f \in SUBSET Chapters
    BY <1>1, <1>2, PipelineAssumption DEF Chapters
  <1>9. run'[w].at = c + 1 /\ run'[w].files = f
    BY <1>2, <1>5, <1>7, <1>8, RunDone
  <1>10. /\ row'[c].status = "done" /\ row'[c].sha = local[Disk(w)][c]
         /\ \A d \in Chapters \ {c} : row'[d] = row[d]
    BY <1>1, <1>2, <1>4, <1>6
  <1>11. SilentOK'
    BY <1>1, <1>10, PipelineAssumption DEF FaithfulInv, SilentOK, Sync
  <1>12. LocalOK'
    <2>1. \A v \in Workers : Disk(v) = Disk(w)
      BY DEF OneDisk, Disk
    <2>2. QED BY <1>1, <1>10, <2>1 DEF FaithfulInv, LocalOK, Disk
  <1>13. {d \in {c} : row'[d].status = "done"} = {c}
    BY <1>10
  <1> HIDE DEF c
  <1>14. QED BY <1>1, <1>9, <1>10, <1>11, <1>12, <1>13, Passed DEF c

-----------------------------------------------------------------------------
\* The export.  Past the last chapter the files collected are the done rows.
LEMMA Complete ==
    ASSUME PipelineInv, FaithfulInv, NEW w \in Workers, AtExport(w)
    PROVE  /\ pc[w] # "idle" /\ run[w].files = DoneRows(row)
           /\ \A c \in DoneRows(row) : local[Disk(w)][c] = row[c].sha
  <1>1. pc[w] # "idle" /\ At(w) \in 1..(N + 1) /\ At(w) > N /\ N \in Nat
    BY RunFields DEF AtExport
  <1>2. \A c \in Chapters : c < At(w)
    BY <1>1 DEF Chapters
  <1>3. run[w].files = DoneRows(row)
    BY <1>1, <1>2 DEF FaithfulInv, Sync, Collected, DoneRows
  <1>4. \A c \in run[w].files : Valid(local[Disk(w)][c])
    BY <1>1 DEF PipelineInv, RunOK
  <1>5. QED BY <1>1, <1>3, <1>4 DEF FaithfulInv, LocalOK, DoneRows

\* A step of the export: rows, files and what was collected stay.
LEMMA ExportStays ==
    ASSUME PipelineInv, PipelineInv', FaithfulInv, NEW w \in Workers, pc[w] # "idle",
           NEW p \in {"manifest", "finish"}, Goto(w, p), UNCHANGED <<row, run, local>>,
           fellBack' \/ book' = Hashes, p = "finish" => manifest' = Hashes
    PROVE  FaithfulInv'
  <1>1. pc'[w] = p
    BY DEF Goto, PipelineInv, TypeOK
  <1>2. Hashes' = Hashes
    BY DEF Hashes, DoneRows
  <1>3. Collected(w)'
    BY DEF FaithfulInv, Sync, Collected, At
  <1>4. Sync(w)'
    BY <1>1, <1>2, <1>3 DEF Sync, Exporting, Rendering
  <1>5. SilentOK' /\ LocalOK'
    BY Fewer
  <1>6. QED BY <1>1, <1>4, <1>5, InRun

LEMMA ExportExport ==
    ASSUME PipelineInv, PipelineInv', FaithfulInv, NEW w \in Workers, Export(w)
    PROVE  FaithfulInv'
  <1>1. /\ pc[w] # "idle" /\ run[w].files = DoneRows(row)
        /\ \A c \in DoneRows(row) : local[Disk(w)][c] = row[c].sha
    BY Complete DEF Export
  <1>2. book' = [c \in run[w].files |-> local[Disk(w)][c]]
    BY DEF Export
  <1>3. book' = Hashes
    BY <1>1, <1>2 DEF Hashes
  <1>4. UNCHANGED <<row, run, local>> /\ Goto(w, "manifest")
    BY DEF Export, dbVars, diskVars
  <1>5. QED BY <1>1, <1>3, <1>4, ExportStays

LEMMA ExportFailsExport ==
    ASSUME PipelineInv, PipelineInv', FaithfulInv, NEW w \in Workers, ExportFails(w)
    PROVE  FaithfulInv'
  <1>1. pc[w] # "idle" /\ UNCHANGED <<row, run, local>> /\ Goto(w, "manifest") /\ fellBack'
    BY DEF ExportFails, AtExport, dbVars, diskVars
  <1>2. QED BY <1>1, ExportStays

LEMMA WriteManifestExport ==
    ASSUME PipelineInv, PipelineInv', FaithfulInv, NEW w \in Workers, WriteManifest(w)
    PROVE  FaithfulInv'
  <1>1. /\ pc[w] = "manifest" /\ UNCHANGED <<row, run, local, book, fellBack>>
        /\ Goto(w, "finish")
    BY DEF WriteManifest, diskVars, historyVars
  <1>2. fellBack \/ book = Hashes
    BY <1>1 DEF FaithfulInv, Sync, Exporting
  <1>3. manifest' = Hashes
    BY <1>1, Facts DEF WriteManifest, Hashes
  <1>4. QED BY <1>1, <1>2, <1>3, ExportStays

LEMMA FinishExport ==
    ASSUME PipelineInv, FaithfulInv, NEW w \in Workers, Finish(w)
    PROVE  FaithfulInv'
  <1>1. /\ pc[w] = "finish" /\ pc[w] # "idle" /\ Drop(w, "idle")
        /\ UNCHANGED <<row, local, book, manifest, fellBack>>
    BY DEF Finish, storageVars, diskVars, historyVars
  <1>2. manifest = Hashes /\ (fellBack \/ book = Hashes)
    BY <1>1 DEF FaithfulInv, Sync, Exporting
  <1>3. ExportFaithful'
    BY <1>1, <1>2 DEF ExportFaithful, Hashes, DoneRows
  <1>4. \A v \in Workers : pc'[v] = "idle"
    BY <1>1, Facts DEF Drop, Goto, PipelineInv, TypeOK
  <1>5. SilentOK' /\ LocalOK'
    BY <1>1, Fewer
  <1>6. QED BY <1>3, <1>4, <1>5, NoRun

-----------------------------------------------------------------------------
\* The beginning and the early ends of a run.
LEMMA ClaimExport ==
    ASSUME PipelineInv, PipelineInv', FaithfulInv, NEW w \in Workers, Claim(w)
    PROVE  FaithfulInv'
  <1>1. pc'[w] = "next" /\ UNCHANGED <<row, local>>
    BY DEF Claim, Goto, PipelineInv, TypeOK, diskVars
  <1>2. run'[w].at = 1 /\ run'[w].files = {}
    BY DEF Claim, IdleRun, PipelineInv, TypeOK
  <1>3. \A c \in Chapters : ~(c < 1)
    BY PipelineAssumption DEF Chapters
  <1>4. Collected(w)'
    BY <1>2, <1>3 DEF Collected, At
  <1>5. Sync(w)'
    BY <1>1, <1>4 DEF Sync, Exporting, Rendering
  <1>6. SilentOK' /\ LocalOK'
    BY <1>1, Fewer
  <1>7. QED BY <1>1, <1>5, <1>6, InRun

LEMMA EarlyEndExport ==
    ASSUME PipelineInv, FaithfulInv, NEW w \in Workers, Stop(w) \/ Raise(w) \/ Crash(w)
    PROVE  FaithfulInv'
  <1>1. pc[w] # "idle" /\ Drop(w, "idle") /\ UNCHANGED <<row, local>>
    BY DEF Stop, Raise, Crash, dbVars, diskVars
  <1>2. job'.status # "finished"
    <2>1. CASE Raise(w)
      BY <1>1, <2>1, FailedIsNotFinished DEF Raise
    <2>2. CASE Stop(w)
      BY <1>1, <2>2, Facts DEF Stop, PipelineInv, TypeOK
    <2>3. CASE Crash(w)
      BY <1>1, <2>3, Facts DEF Crash, dbVars
    <2>4. QED BY <2>1, <2>2, <2>3
  <1>3. QED BY <1>1, <1>2, Leaves

\* The sweep and the client, while nobody is inside a run.
LEMMA IdleExport ==
    ASSUME PipelineInv, FaithfulInv,
           Recover \/ Rerender \/ \E c \in Chapters : RerenderChapter(c)
    PROVE  FaithfulInv'
  <1>1. UNCHANGED <<local, pc>> /\ job'.status # "finished"
    BY DEF Recover, Rerender, RerenderChapter, diskVars, runVars, PipelineInv, TypeOK
  <1>2. \A v \in Workers : pc[v] = "idle"
    BY DEF Recover, Rerender, RerenderChapter, PipelineInv, HolderOK
  <1>3. \A c \in Chapters : row'[c] = row[c] \/ row'[c].status # "done"
    <2>1. CASE Recover \/ Rerender
      BY <2>1 DEF Recover, Rerender
    <2>2. CASE \E c \in Chapters : RerenderChapter(c)
      <3>1. PICK c \in Chapters : row' = [row EXCEPT ![c].status = "pending"]
        BY <2>2 DEF RerenderChapter
      <3>2. row \in [Chapters -> Row]
        BY DEF PipelineInv, TypeOK
      <3>3. row'[c].status = "pending" /\ \A d \in Chapters \ {c} : row'[d] = row[d]
        BY <3>1, <3>2 DEF Row
      <3>4. QED BY <3>3
    <2>3. QED BY <2>1, <2>2
  <1>4. SilentOK' /\ LocalOK'
    BY <1>1, <1>3, Fewer
  <1>5. QED BY <1>1, <1>2, <1>4, NoRun DEF ExportFaithful

\* A step that leaves alone everything the invariant reads.
LEMMA UntouchedExport ==
    ASSUME FaithfulInv, UNCHANGED <<job, row, book, manifest, local, pc, run, fellBack>>
    PROVE  FaithfulInv'
  <1>1. SilentOK' /\ LocalOK'
    BY DEF FaithfulInv, SilentOK, LocalOK, Disk
  <1>2. \A w \in Workers : Sync(w)'
    BY DEF FaithfulInv, Sync, Collected, Exporting, Hashes, DoneRows, At
  <1>3. ExportFaithful'
    BY DEF FaithfulInv, ExportFaithful, DoneRows
  <1>4. QED BY <1>1, <1>2, <1>3 DEF FaithfulInv

-----------------------------------------------------------------------------
LEMMA InitExport == Init => FaithfulInv
  <1> SUFFICES ASSUME Init PROVE FaithfulInv
    OBVIOUS
  <1>1. \A c \in Chapters : row[c].status = "pending"
    BY DEF Init, NewRow
  <1>2. SilentOK /\ LocalOK
    BY <1>1, PipelineAssumption DEF SilentOK, LocalOK
  <1>3. \A w \in Workers : Sync(w)
    BY DEF Init, Sync
  <1>4. ExportFaithful
    BY DEF Init, ExportFaithful
  <1>5. QED BY <1>2, <1>3, <1>4 DEF FaithfulInv

LEMMA NextExport ==
    ASSUME OneDisk, PipelineInv, PipelineInv', FaithfulInv, [Next]_vars
    PROVE  FaithfulInv'
  <1>1. CASE UNCHANGED vars
    BY <1>1, UntouchedExport DEF vars, dbVars, storageVars, diskVars, runVars, historyVars
  <1>2. ASSUME NEW w \in Workers, Claim(w) \/ Stop(w) \/ Raise(w) \/ Crash(w) PROVE FaithfulInv'
    BY <1>2, ClaimExport, EarlyEndExport
  <1>3. ASSUME NEW w \in Workers, ChapterStep(w) PROVE FaithfulInv'
    BY <1>3, SkipChapterExport, ResumeExport, BeginExport, ChapterMoves, VetExport,
       RejectChunkExport, AssembleExport, CheckExport, UploadFailsExport, CommitChapterExport
       DEF ChapterStep
  <1>4. ASSUME NEW w \in Workers, ExportStep(w) PROVE FaithfulInv'
    BY <1>4, ExportExport, ExportFailsExport, WriteManifestExport, FinishExport DEF ExportStep
  <1>5. CASE Recover \/ Rerender \/ \E c \in Chapters : RerenderChapter(c)
    BY <1>5, IdleExport
  <1>6. ASSUME NEW c \in Chapters, NEW t \in Texts, EditLexicon(c, t) PROVE FaithfulInv'
    BY <1>6, UntouchedExport DEF EditLexicon, dbVars, storageVars, diskVars, runVars
  <1>7. QED BY <1>1, <1>2, <1>3, <1>4, <1>5, <1>6 DEF Next, ClientStep

\* What workers on one disk have collected, and what is on the disk, agrees
\* with the rows.
THEOREM ExportInvariant == OneDisk => (Spec => []FaithfulInv)
  <1>1. OneDisk /\ PipelineInv /\ PipelineInv' /\ FaithfulInv /\ [Next]_vars => FaithfulInv'
    BY NextExport
  <1>2. SUFFICES ASSUME OneDisk PROVE Spec => []FaithfulInv
    OBVIOUS
  <1>3. PipelineInv /\ PipelineInv' /\ FaithfulInv /\ [Next]_vars => FaithfulInv'
    BY <1>1, <1>2
  <1>4. QED BY <1>3, InitExport, PipelineInvariant, PTL DEF Spec

\* When workers on one disk finish a job, its manifest, and its book unless an
\* earlier one stands in, hold exactly the finished chapters as their rows
\* describe them (run_job: concat, write_manifest, complete_job).
THEOREM ExportIsFaithful == OneDisk => (Spec => []ExportFaithful)
  <1>1. FaithfulInv => ExportFaithful
    BY DEF FaithfulInv
  <1>2. QED BY <1>1, ExportInvariant, PTL

-----------------------------------------------------------------------------
\* The book of a finished job speaks the texts of its chapters.  What is in the
\* cache under a text speaks it; the row of a finished chapter names the text
\* its audio speaks; and that is the chapter's text for every chapter the run
\* has collected, unless it was edited since the claim.
Cached == \A d \in Disks, t \in Texts : cache[d][t] # None => cache[d][t].text = t
Voiced == \A c \in Chapters :
             row[c].status = "done" => row[c].sid \in Texts /\ row[c].sha.text = row[c].sid
UpToDate(S) == \A c \in S \ edited : row[c].sid = text[c]
InMouth(w) == LET a == local[Disk(w)][At(w)] IN
              /\ pc[w] \in Rendering => At(w) \in edited \/ run[w].clean = text[At(w)]
              /\ pc[w] = "check" /\ a # None => a.text = run[w].clean
              /\ pc[w] \in {"upload", "verify"} => run[w].audio.text = run[w].clean
Spoken(w) == pc[w] # "idle" =>
              /\ UpToDate(run[w].files)
              /\ InMouth(w)
              /\ pc[w] \in {"manifest", "finish"} => UpToDate(DoneRows(row))
CurrentInv == Cached /\ Voiced /\ (\A w \in Workers : Spoken(w)) /\ BookCurrent

LEMMA InRunCurrent ==
    ASSUME PipelineInv', NEW w \in Workers, pc'[w] # "idle", Spoken(w)', Voiced', Cached'
    PROVE  CurrentInv'
  <1>1. job'.status = "running" /\ \A v \in Workers \ {w} : pc'[v] = "idle"
    BY DEF PipelineInv, HolderOK
  <1>2. \A v \in Workers : Spoken(v)'
    BY <1>1 DEF Spoken
  <1>3. BookCurrent'
    BY <1>1 DEF BookCurrent
  <1>4. QED BY <1>2, <1>3 DEF CurrentInv

LEMMA NoRunCurrent ==
    ASSUME \A v \in Workers : pc'[v] = "idle", Voiced', Cached', BookCurrent'
    PROVE  CurrentInv'
  BY DEF CurrentInv, Spoken

LEMMA VoicedKept ==
    ASSUME CurrentInv, \A c \in Chapters : row'[c] = row[c] \/ row'[c].status # "done"
    PROVE  Voiced'
  BY DEF CurrentInv, Voiced

LEMMA CachedKept ==
    ASSUME CurrentInv,
           \A d \in Disks, t \in Texts :
              cache'[d][t] = cache[d][t] \/ cache'[d][t] = None \/ cache'[d][t].text = t
    PROVE  Cached'
  BY DEF CurrentInv, Cached

\* A step inside a chapter.
LEMMA SameChapter ==
    ASSUME PipelineInv, PipelineInv', CurrentInv, NEW w \in Workers, pc[w] \in Rendering,
           NEW p \in Rendering, Goto(w, p), UNCHANGED <<text, edited, row>>,
           run'[w].files = run[w].files, run'[w].at = run[w].at, run'[w].clean = run[w].clean,
           p = "check" => LET a == local'[Disk(w)][At(w)] IN
                          a # None => a.text = run[w].clean,
           p \in {"upload", "verify"} => run'[w].audio.text = run[w].clean,
           Cached'
    PROVE  CurrentInv'
  <1>1. pc'[w] = p /\ p # "idle" /\ p \notin {"manifest", "finish"} /\ pc[w] # "idle"
    BY DEF Goto, PipelineInv, TypeOK, Rendering
  <1>2. UpToDate(run[w].files) /\ InMouth(w)
    BY <1>1 DEF CurrentInv, Spoken
  <1>3. UpToDate(run[w].files)'
    BY <1>2 DEF UpToDate
  <1>4. InMouth(w)'
    BY <1>1, <1>2 DEF InMouth, At, Disk
  <1>5. Spoken(w)'
    BY <1>1, <1>3, <1>4 DEF Spoken
  <1>6. QED BY <1>1, <1>5, InRunCurrent, VoicedKept

\* The process leaves the run and the job is not finished by that.
LEMMA LeavesCurrent ==
    ASSUME PipelineInv, CurrentInv, NEW w \in Workers, pc[w] # "idle", Drop(w, "idle"),
           job'.status # "finished", Cached',
           \A c \in Chapters : row'[c] = row[c] \/ row'[c].status # "done"
    PROVE  CurrentInv'
  <1>1. \A v \in Workers : pc'[v] = "idle"
    BY Facts DEF Drop, Goto, PipelineInv, TypeOK
  <1>2. QED BY <1>1, VoicedKept, NoRunCurrent DEF BookCurrent

LEMMA RejectedCurrent ==
    ASSUME PipelineInv, CurrentInv, NEW w \in Workers, pc[w] # "idle", At(w) \in Chapters,
           NEW new \in Row, Reject(w, new), Cached'
    PROVE  CurrentInv'
  <1> DEFINE n == [new EXCEPT !.status = "pending"]
  <1>1. n \in Row /\ n.status = "pending"
    BY DEF Row
  <1>2. row' = [row EXCEPT ![At(w)] = n]
    BY <1>1, CommitStep DEF Reject
  <1> HIDE DEF n
  <1>3. \A c \in Chapters : row'[c] = row[c] \/ row'[c].status # "done"
    BY <1>1, <1>2 DEF PipelineInv, TypeOK
  <1>4. Drop(w, "idle") /\ job'.status # "finished"
    BY FailedIsNotFinished DEF Reject
  <1>5. QED BY <1>3, <1>4, LeavesCurrent

LEMMA RunSpeech ==
    ASSUME NEW q \in Run
    PROVE  /\ \A n : [q EXCEPT !.tries = n].clean = q.clean
           /\ \A a : [q EXCEPT !.audio = a].clean = q.clean
           /\ \A a : [q EXCEPT !.audio = a].audio = a
           /\ \A b : [q EXCEPT !.bill = b, !.tries = 0].clean = q.clean
  BY DEF Run

\* What a worker renders is in its own disk's cache under the text it speaks.
LEMMA InCache ==
    ASSUME PipelineInv, CurrentInv, NEW w \in Workers, pc[w] \in Rendering
    PROVE  /\ run[w].clean \in Texts /\ Disk(w) \in Disks
           /\ cache \in [Disks -> [Texts -> Stored]]
           /\ cache[Disk(w)][run[w].clean] # None =>
                cache[Disk(w)][run[w].clean].text = run[w].clean
  <1>1. run[w].clean \in Texts
    BY DEF PipelineInv, RunOK, Rendering
  <1>2. QED BY <1>1, InHand DEF PipelineInv, TypeOK, CurrentInv, Cached

LEMMA LookUpCurrent ==
    ASSUME PipelineInv, PipelineInv', CurrentInv, NEW w \in Workers, LookUp(w)
    PROVE  CurrentInv'
  <1>1. pc[w] \in Rendering /\ UNCHANGED <<text, edited, row, run>>
    BY DEF LookUp, Rendering, dbVars, historyVars
  <1>2. PICK p \in {"assemble", "synthesize"} : Goto(w, p)
    BY DEF LookUp
  <1>3. \A d \in Disks, t \in Texts : cache'[d][t] = cache[d][t] \/ cache'[d][t] = None
    BY <1>1, InCache DEF LookUp
  <1>4. Cached'
    BY <1>3, CachedKept
  <1>5. QED BY <1>1, <1>2, <1>4, SameChapter DEF Rendering

LEMMA SynthesizeCurrent ==
    ASSUME PipelineInv, PipelineInv', CurrentInv, NEW w \in Workers, Synthesize(w)
    PROVE  CurrentInv'
  <1>1. /\ pc[w] \in Rendering /\ UNCHANGED <<text, edited, row>> /\ Goto(w, "vet")
        /\ "vet" \in Rendering
    BY DEF Synthesize, Rendering, dbVars, historyVars
  <1>2. PICK a \in [text : {run[w].clean}, take : Takes, ok : BOOLEAN] :
           cache' = [cache EXCEPT ![Disk(w)][run[w].clean] = a]
    BY DEF Synthesize
  <1>3. \A d \in Disks, t \in Texts : cache'[d][t] = cache[d][t] \/ cache'[d][t].text = t
    BY <1>1, <1>2, InCache
  <1>4. Cached'
    BY <1>3, CachedKept
  <1>5. run' = [run EXCEPT ![w] = [run[w] EXCEPT !.tries = run[w].tries + 1]]
    BY <1>1, InHand DEF Synthesize, Run
  <1>6. /\ run'[w].files = run[w].files /\ run'[w].at = run[w].at
        /\ run'[w].clean = run[w].clean
    BY <1>1, <1>5, InHand, RunKept, RunSpeech
  <1>7. QED BY <1>1, <1>4, <1>6, SameChapter

LEMMA VetCurrent ==
    ASSUME PipelineInv, PipelineInv', CurrentInv, NEW w \in Workers, Vet(w)
    PROVE  CurrentInv'
  <1>1. /\ pc[w] \in Rendering /\ pc[w] # "idle" /\ UNCHANGED <<text, edited, row, cache>>
        /\ "assemble" \in Rendering
    BY DEF Vet, Rendering, diskVars, historyVars
  <1>2. Cached'
    BY <1>1, CachedKept
  <1>3. CASE Failed(w) /\ Drop(w, "idle")
    BY <1>1, <1>2, <1>3, FailedIsNotFinished, LeavesCurrent
  <1>4. CASE run' = [run EXCEPT ![w].bill = Bill(w), ![w].tries = 0] /\ Goto(w, "assemble")
    <2>1. run' = [run EXCEPT ![w] = [run[w] EXCEPT !.bill = Bill(w), !.tries = 0]]
      BY <1>1, <1>4, InHand DEF Run
    <2>2. /\ run'[w].files = run[w].files /\ run'[w].at = run[w].at
          /\ run'[w].clean = run[w].clean
      BY <1>1, <2>1, InHand, RunKept, RunSpeech
    <2>3. QED BY <1>1, <1>2, <1>4, <2>2, SameChapter
  <1>5. QED BY <1>3, <1>4 DEF Vet

LEMMA RejectChunkCurrent ==
    ASSUME PipelineInv, PipelineInv', CurrentInv, NEW w \in Workers, RejectChunk(w)
    PROVE  CurrentInv'
  <1>1. /\ pc[w] \in Rendering /\ pc[w] # "idle" /\ UNCHANGED <<text, edited>>
        /\ "synthesize" \in Rendering
    BY DEF RejectChunk, Rendering, historyVars
  <1>2. \A d \in Disks, t \in Texts : cache'[d][t] = cache[d][t] \/ cache'[d][t] = None
    BY <1>1, InCache DEF RejectChunk
  <1>3. Cached'
    BY <1>2, CachedKept
  <1>4. CASE Goto(w, "synthesize") /\ UNCHANGED <<dbVars, run>>
    BY <1>1, <1>3, <1>4, SameChapter DEF dbVars
  <1>5. CASE Reject(w, run[w].seen[At(w)])
    BY <1>1, <1>3, <1>5, InHand, RejectedCurrent
  <1>6. QED BY <1>4, <1>5 DEF RejectChunk

LEMMA AssembleCurrent ==
    ASSUME PipelineInv, PipelineInv', CurrentInv, NEW w \in Workers, Assemble(w)
    PROVE  CurrentInv'
  <1> DEFINE a == cache[Disk(w)][run[w].clean]
             c == At(w)
  <1>1. /\ pc[w] \in Rendering /\ UNCHANGED <<text, edited, row, run, cache>>
        /\ Goto(w, "check") /\ "check" \in Rendering /\ a # None
    BY DEF Assemble, Rendering, dbVars, historyVars
  <1>2. a \in Audio /\ a.text = run[w].clean /\ c \in Chapters
    BY <1>1, InCache, InHand DEF Stored
  <1>3. PICK ok : local' = [local EXCEPT ![Disk(w)][c] = [a EXCEPT !.ok = ok]]
    BY DEF Assemble
  <1>4. local'[Disk(w)][c] = [a EXCEPT !.ok = ok]
    BY <1>1, <1>2, <1>3, InHand
  <1>5. [a EXCEPT !.ok = ok].text = run[w].clean
    BY <1>2 DEF Audio
  <1>6. Cached'
    BY <1>1, CachedKept
  <1> HIDE DEF a, c
  <1>7. local'[Disk(w)][c].text = run[w].clean
    BY <1>4, <1>5
  <1>8. QED BY <1>1, <1>6, <1>7, SameChapter DEF c

LEMMA CheckCurrent ==
    ASSUME PipelineInv, PipelineInv', CurrentInv, NEW w \in Workers, Check(w)
    PROVE  CurrentInv'
  <1> DEFINE a == local[Disk(w)][At(w)]
  <1>1. /\ pc[w] \in Rendering /\ pc[w] # "idle" /\ UNCHANGED <<text, edited, cache>>
        /\ pc[w] = "check" /\ "upload" \in Rendering
    BY DEF Check, Rendering, diskVars, historyVars
  <1>2. Cached'
    BY <1>1, CachedKept
  <1>3. CASE Acceptable(a) /\ run' = [run EXCEPT ![w].audio = a] /\ Goto(w, "upload")
             /\ UNCHANGED dbVars
    <2>1. a.text = run[w].clean
      BY <1>1, <1>3 DEF CurrentInv, Spoken, InMouth, Acceptable, Valid
    <2> HIDE DEF a
    <2>2. run' = [run EXCEPT ![w] = [run[w] EXCEPT !.audio = a]]
      BY <1>1, <1>3, InHand DEF Run
    <2>3. /\ run'[w].files = run[w].files /\ run'[w].at = run[w].at
          /\ run'[w].clean = run[w].clean /\ run'[w].audio = a
      BY <1>1, <2>2, InHand, RunKept, RunSpeech
    <2>4. QED BY <1>1, <1>2, <1>3, <2>1, <2>3, SameChapter DEF dbVars
  <1>4. CASE Reject(w, run[w].seen[At(w)])
    BY <1>1, <1>2, <1>4, InHand, RejectedCurrent
  <1>5. QED BY <1>3, <1>4 DEF Check

LEMMA UploadCurrent ==
    ASSUME PipelineInv, PipelineInv', CurrentInv, NEW w \in Workers, Upload(w) \/ UploadFails(w)
    PROVE  CurrentInv'
  <1>1. /\ pc[w] \in Rendering /\ pc[w] # "idle" /\ pc[w] \in {"upload", "verify"}
        /\ UNCHANGED <<text, edited, cache>> /\ "verify" \in Rendering
    BY DEF Upload, UploadFails, Rendering, diskVars, historyVars
  <1>2. Cached'
    BY <1>1, CachedKept
  <1>3. CASE Upload(w)
    <2>1. UNCHANGED <<row, run>> /\ Goto(w, "verify")
      BY <1>3 DEF Upload, dbVars
    <2>2. run[w].audio.text = run[w].clean
      BY <1>1 DEF CurrentInv, Spoken, InMouth
    <2>3. QED BY <1>1, <1>2, <2>1, <2>2, SameChapter
  <1>4. CASE UploadFails(w)
    <2> DEFINE new == Detached(run[w].seen[At(w)])
    <2>1. new \in Row
      BY <1>1, InHand DEF Detached, Row, Stored
    <2>2. Reject(w, new)
      BY <1>4 DEF UploadFails
    <2> HIDE DEF new
    <2>3. QED BY <1>1, <1>2, <2>1, <2>2, InHand, RejectedCurrent
  <1>5. QED BY <1>3, <1>4

-----------------------------------------------------------------------------
\* From one chapter to the next.
LEMMA PassedCurrent ==
    ASSUME PipelineInv, PipelineInv', CurrentInv, NEW w \in Workers, pc[w] # "idle",
           NEW c \in Chapters, Goto(w, "next"), UNCHANGED <<text, edited>>,
           run'[w].files \subseteq run[w].files \cup {c},
           c \in run'[w].files => c \in edited \/ row'[c].sid = text[c],
           \A d \in Chapters \ {c} : row'[d] = row[d],
           Voiced', Cached'
    PROVE  CurrentInv'
  <1>1. pc'[w] = "next" /\ run[w].files \subseteq Chapters
    BY Facts DEF Goto, PipelineInv, TypeOK, Run
  <1>2. UpToDate(run[w].files)
    BY DEF CurrentInv, Spoken
  <1>3. UpToDate(run[w].files)'
    BY <1>1, <1>2 DEF UpToDate
  <1>4. InMouth(w)'
    BY <1>1 DEF InMouth, Rendering
  <1>5. Spoken(w)'
    BY <1>1, <1>3, <1>4 DEF Spoken
  <1>6. QED BY <1>1, <1>5, InRunCurrent

LEMMA SkipChapterCurrent ==
    ASSUME PipelineInv, PipelineInv', FaithfulInv, CurrentInv, NEW w \in Workers, SkipChapter(w)
    PROVE  CurrentInv'
  <1> DEFINE c == At(w)
  <1>1. /\ pc[w] = "next" /\ pc[w] # "idle" /\ c \in Chapters /\ c \in Silent
        /\ Goto(w, "next") /\ UNCHANGED <<text, edited, cache>>
    BY PipelineAssumption DEF SkipChapter, AtChapter, diskVars, historyVars
  <1>2. /\ run[w].seen = row /\ run[w] \in Run /\ run \in [Workers -> Run]
        /\ row \in [Chapters -> Row]
    BY <1>1, Facts DEF PipelineInv, TypeOK
  <1>3. row[c].status # "done"
    BY <1>1 DEF FaithfulInv, SilentOK
  <1>4. row' = [row EXCEPT ![c].status = "skipped"]
    BY <1>2, <1>3 DEF SkipChapter
  <1>5. row'[c].status = "skipped" /\ \A d \in Chapters \ {c} : row'[d] = row[d]
    BY <1>1, <1>2, <1>4 DEF Row
  <1>6. run'[w].files = run[w].files
    <2>1. run' = [run EXCEPT ![w] = [run[w] EXCEPT !.at = @ + 1, !.seen = row']]
      BY <1>2 DEF SkipChapter, Run
    <2>2. QED BY <1>2, <2>1, Advanced
  <1>7. c \notin run[w].files
    BY <1>1, <1>3 DEF FaithfulInv, Sync, Collected
  <1>8. Voiced' /\ Cached'
    BY <1>1, <1>5, VoicedKept, CachedKept
  <1> HIDE DEF c
  <1>9. QED BY <1>1, <1>5, <1>6, <1>7, <1>8, PassedCurrent

LEMMA ResumeCurrent ==
    ASSUME PipelineInv, PipelineInv', CurrentInv, NEW w \in Workers,
           ResumeStored(w) \/ ResumeLocal(w)
    PROVE  CurrentInv'
  <1> DEFINE c == At(w)
             f == run[w].files \cup {c}
  <1>1. /\ pc[w] = "next" /\ pc[w] # "idle" /\ c \in Chapters
        /\ UNCHANGED <<row, text, edited, cache>> /\ NextChapter(w, f) /\ Resumable(w)
    <2>1. /\ pc[w] = "next" /\ At(w) <= N /\ NextChapter(w, f) /\ Resumable(w)
          /\ UNCHANGED <<row, text, edited, cache>>
      BY DEF ResumeStored, ResumeLocal, AtChapter, dbVars, diskVars, historyVars
    <2>2. c \in Chapters
      BY <2>1, RunFields DEF Chapters
    <2>3. QED BY <2>1, <2>2
  <1>2. run[w].seen = row /\ run[w] \in Run /\ run \in [Workers -> Run]
    BY <1>1, Facts DEF PipelineInv, TypeOK
  <1>3. row[c].sid = text[c]
    BY <1>1, <1>2, PipelineAssumption DEF Resumable, CurrentInv, Voiced
  <1>4. Goto(w, "next") /\ run'[w].files = f
    <2>1. run' = [run EXCEPT ![w] = [run[w] EXCEPT !.at = @ + 1, !.files = f]]
      BY <1>1, <1>2 DEF NextChapter, Run
    <2>2. QED BY <1>1, <1>2, <2>1, Advanced DEF NextChapter
  <1>5. Voiced' /\ Cached'
    BY <1>1, VoicedKept, CachedKept
  <1> HIDE DEF c
  <1>6. QED BY <1>1, <1>3, <1>4, <1>5, PassedCurrent

LEMMA BeginCurrent ==
    ASSUME PipelineInv, PipelineInv', FaithfulInv, CurrentInv, NEW w \in Workers, Begin(w)
    PROVE  CurrentInv'
  <1> DEFINE c == At(w)
             new == Marked(run[w].seen[c])
  <1>1. /\ pc[w] = "next" /\ pc[w] # "idle" /\ c \in Chapters /\ Goto(w, "lookup")
        /\ UNCHANGED <<text, edited, cache>>
    BY RunFields DEF Begin, AtChapter, Chapters, diskVars, historyVars
  <1>2. /\ run[w].seen = row /\ run[w] \in Run /\ run \in [Workers -> Run]
        /\ row \in [Chapters -> Row]
    BY <1>1, Facts DEF PipelineInv, TypeOK
  <1>3. new \in Row /\ new.status = "processing" /\ CommitRow(w, new)
    BY <1>1, <1>2 DEF Marked, Row, Begin
  <1>4. row' = [row EXCEPT ![c] = new]
    BY <1>1, <1>3, CommitStep
  <1>5. run'[w].at = c /\ run'[w].files = run[w].files
    BY <1>2 DEF Begin, Run, At
  <1>6. run'[w].clean = text[c]
    BY <1>2 DEF Begin, Run
  <1> HIDE DEF new
  <1>7. row'[c].status # "done" /\ \A d \in Chapters \ {c} : row'[d] = row[d]
    BY <1>1, <1>2, <1>3, <1>4
  <1>8. c \notin run[w].files /\ run[w].files \subseteq Chapters
    <2>1. ~(c < c)
      BY <1>1, PipelineAssumption DEF Chapters
    <2>2. QED BY <1>1, <2>1 DEF FaithfulInv, Sync, Collected
  <1>9. pc'[w] = "lookup"
    BY <1>1 DEF Goto, PipelineInv, TypeOK
  <1>10. UpToDate(run[w].files)
    BY <1>1 DEF CurrentInv, Spoken
  <1>11. UpToDate(run[w].files)'
    BY <1>1, <1>5, <1>7, <1>8, <1>10 DEF UpToDate
  <1>12. InMouth(w)'
    BY <1>1, <1>5, <1>6, <1>9 DEF InMouth, At
  <1>13. Spoken(w)'
    BY <1>9, <1>11, <1>12 DEF Spoken
  <1>14. Voiced' /\ Cached'
    BY <1>1, <1>7, VoicedKept, CachedKept
  <1>15. QED BY <1>9, <1>13, <1>14, InRunCurrent

LEMMA CommitChapterCurrent ==
    ASSUME PipelineInv, PipelineInv', CurrentInv, NEW w \in Workers, CommitChapter(w)
    PROVE  CurrentInv'
  <1> DEFINE c == At(w)
             a == run[w].audio
             t == run[w].clean
             new == [status |-> "done", key |-> TRUE, sha |-> a,
                     sid |-> t, active |-> Len(revs[c]) + 1]
             f == run[w].files \cup {c}
             s == [run[w].seen EXCEPT ![c] = new]
  <1>1. /\ pc[w] = "verify" /\ pc[w] \in Rendering /\ pc[w] # "idle" /\ c \in Chapters
        /\ UNCHANGED <<text, edited, cache>> /\ Goto(w, "next") /\ CommitRow(w, new)
    BY RunFields DEF CommitChapter, Rendering, diskVars, historyVars
  <1>2. /\ run[w].seen = row /\ run[w] \in Run /\ run \in [Workers -> Run]
        /\ row \in [Chapters -> Row] /\ a \in Stored /\ t \in Texts
        /\ run[w].files \in SUBSET Chapters
    BY <1>1, Facts, RunFields DEF PipelineInv, TypeOK, RunOK
  <1>3. new \in Row
    <2>1. Len(revs[c]) \in Nat
      BY <1>1, LenProperties DEF PipelineInv, TypeOK
    <2>2. QED BY <1>2, <2>1 DEF Row
  <1>4. row' = [row EXCEPT ![c] = new]
    BY <1>1, <1>3, CommitStep
  <1>5. run' = [run EXCEPT ![w] = Between(c + 1, s, f)]
    BY DEF CommitChapter, Between
  <1>6. new.sha = a /\ new.sid = t
    OBVIOUS
  <1>7. s \in [Chapters -> Row]
    BY <1>2, <1>3
  <1>8. a.text = t /\ (c \in edited \/ t = text[c])
    BY <1>1 DEF CurrentInv, Spoken, InMouth
  <1> HIDE DEF new, s
  <1>9. c + 1 \in 1..(N + 1) /\ f \in SUBSET Chapters
    BY <1>1, <1>2, PipelineAssumption DEF Chapters
  <1>10. run'[w].files = f
    BY <1>2, <1>5, <1>7, <1>9, RunDone
  <1>11. row'[c] = new /\ \A d \in Chapters \ {c} : row'[d] = row[d]
    BY <1>1, <1>2, <1>4
  <1>12. Voiced'
    BY <1>2, <1>6, <1>8, <1>11 DEF CurrentInv, Voiced
  <1>13. Cached'
    BY <1>1, CachedKept
  <1> HIDE DEF c
  <1>14. QED BY <1>1, <1>6, <1>8, <1>10, <1>11, <1>12, <1>13, PassedCurrent

-----------------------------------------------------------------------------
\* The export, the beginning and the end of a run.
LEMMA ExportCurrent ==
    ASSUME PipelineInv, PipelineInv', FaithfulInv, CurrentInv, NEW w \in Workers,
           Export(w) \/ ExportFails(w) \/ WriteManifest(w)
    PROVE  CurrentInv'
  <1>1. PICK p \in {"manifest", "finish"} : Goto(w, p)
    BY DEF Export, ExportFails, WriteManifest
  <1>2. pc[w] # "idle" /\ UNCHANGED <<row, run, text, edited, cache>>
    BY DEF Export, ExportFails, WriteManifest, AtExport, dbVars, diskVars, historyVars
  <1>3. UpToDate(DoneRows(row)) /\ UpToDate(run[w].files)
    <2>1. CASE Export(w) \/ ExportFails(w)
      BY <1>2, <2>1, Complete DEF Export, ExportFails, CurrentInv, Spoken
    <2>2. CASE WriteManifest(w)
      BY <1>2, <2>2 DEF WriteManifest, CurrentInv, Spoken
    <2>3. QED BY <2>1, <2>2
  <1>4. UpToDate(DoneRows(row))' /\ UpToDate(run[w].files)'
    BY <1>2, <1>3 DEF UpToDate, DoneRows
  <1>5. pc'[w] = p /\ p # "idle"
    BY <1>1 DEF Goto, PipelineInv, TypeOK
  <1>6. InMouth(w)'
    BY <1>5 DEF InMouth, Rendering
  <1>7. Spoken(w)'
    BY <1>4, <1>6 DEF Spoken
  <1>8. Voiced' /\ Cached'
    BY <1>2, VoicedKept, CachedKept
  <1>9. QED BY <1>5, <1>7, <1>8, InRunCurrent

LEMMA FinishCurrent ==
    ASSUME PipelineInv, FaithfulInv, CurrentInv, NEW w \in Workers, Finish(w)
    PROVE  CurrentInv'
  <1>1. /\ pc[w] = "finish" /\ pc[w] # "idle" /\ Drop(w, "idle")
        /\ UNCHANGED <<row, text, edited, cache, book, fellBack>>
    BY DEF Finish, storageVars, diskVars, historyVars
  <1>2. UpToDate(DoneRows(row)) /\ (fellBack \/ book = Hashes)
    BY <1>1 DEF CurrentInv, Spoken, FaithfulInv, Sync, Exporting
  <1>3. \A c \in DoneRows(row) \ edited : row[c].sha.text = text[c]
    BY <1>2 DEF UpToDate, CurrentInv, Voiced, DoneRows
  <1>4. BookCurrent'
    BY <1>1, <1>2, <1>3 DEF BookCurrent, Hashes
  <1>5. \A v \in Workers : pc'[v] = "idle"
    BY <1>1, Facts DEF Drop, Goto, PipelineInv, TypeOK
  <1>6. Voiced' /\ Cached'
    BY <1>1, VoicedKept, CachedKept
  <1>7. QED BY <1>4, <1>5, <1>6, NoRunCurrent

LEMMA ClaimCurrent ==
    ASSUME PipelineInv, PipelineInv', CurrentInv, NEW w \in Workers, Claim(w)
    PROVE  CurrentInv'
  <1>1. pc'[w] = "next" /\ UNCHANGED <<row, cache>>
    BY DEF Claim, Goto, PipelineInv, TypeOK, diskVars
  <1>2. run'[w].files = {}
    BY DEF Claim, IdleRun, PipelineInv, TypeOK
  <1>3. UpToDate(run[w].files)' /\ InMouth(w)'
    BY <1>1, <1>2 DEF UpToDate, InMouth, Rendering
  <1>4. Spoken(w)'
    BY <1>1, <1>3 DEF Spoken
  <1>5. Voiced' /\ Cached'
    BY <1>1, VoicedKept, CachedKept
  <1>6. QED BY <1>1, <1>4, <1>5, InRunCurrent

LEMMA EarlyEndCurrent ==
    ASSUME PipelineInv, CurrentInv, NEW w \in Workers, Stop(w) \/ Raise(w) \/ Crash(w)
    PROVE  CurrentInv'
  <1>1. pc[w] # "idle" /\ Drop(w, "idle") /\ UNCHANGED <<row, cache>>
    BY DEF Stop, Raise, Crash, dbVars, diskVars
  <1>2. job'.status # "finished"
    <2>1. CASE Raise(w)
      BY <1>1, <2>1, FailedIsNotFinished DEF Raise
    <2>2. CASE Stop(w)
      BY <1>1, <2>2, Facts DEF Stop, PipelineInv, TypeOK
    <2>3. CASE Crash(w)
      BY <1>1, <2>3, Facts DEF Crash, dbVars
    <2>4. QED BY <2>1, <2>2, <2>3
  <1>3. Cached'
    BY <1>1, CachedKept
  <1>4. QED BY <1>1, <1>2, <1>3, LeavesCurrent

LEMMA IdleCurrent ==
    ASSUME PipelineInv, CurrentInv,
           Recover \/ Rerender \/ \E c \in Chapters : RerenderChapter(c)
    PROVE  CurrentInv'
  <1>1. UNCHANGED <<cache, pc>> /\ job'.status # "finished"
    BY DEF Recover, Rerender, RerenderChapter, diskVars, runVars, PipelineInv, TypeOK
  <1>2. \A v \in Workers : pc[v] = "idle"
    BY DEF Recover, Rerender, RerenderChapter, PipelineInv, HolderOK
  <1>3. \A c \in Chapters : row'[c] = row[c] \/ row'[c].status # "done"
    <2>1. CASE Recover \/ Rerender
      BY <2>1 DEF Recover, Rerender
    <2>2. CASE \E c \in Chapters : RerenderChapter(c)
      <3>1. PICK c \in Chapters : row' = [row EXCEPT ![c].status = "pending"]
        BY <2>2 DEF RerenderChapter
      <3>2. row \in [Chapters -> Row]
        BY DEF PipelineInv, TypeOK
      <3>3. row'[c].status = "pending" /\ \A d \in Chapters \ {c} : row'[d] = row[d]
        BY <3>1, <3>2 DEF Row
      <3>4. QED BY <3>3
    <2>3. QED BY <2>1, <2>2
  <1>4. Voiced' /\ Cached'
    BY <1>1, <1>3, VoicedKept, CachedKept
  <1>5. QED BY <1>1, <1>2, <1>4, NoRunCurrent DEF BookCurrent

\* An edit excuses the chapter it is about; no other chapter's text moves.
LEMMA EditLexiconCurrent ==
    ASSUME PipelineInv, PipelineInv', FaithfulInv, CurrentInv, NEW c \in Chapters, NEW t \in Texts,
           EditLexicon(c, t)
    PROVE  CurrentInv'
  <1>1. /\ text' = [text EXCEPT ![c] = t] /\ edited' = edited \union {c}
        /\ UNCHANGED <<job, row, book, cache, local, pc, run, fellBack>>
    BY DEF EditLexicon, dbVars, storageVars, diskVars, runVars
  <1>2. \A d \in Chapters \ Silent : d \notin edited' => d \notin edited /\ text'[d] = text[d]
    BY <1>1 DEF PipelineInv, TypeOK
  <1>3. DoneRows(row) \subseteq Chapters \ Silent
    BY DEF DoneRows, FaithfulInv, SilentOK
  <1>4. ASSUME NEW w \in Workers PROVE Spoken(w)'
    <2>1. CASE pc[w] = "idle"
      BY <1>1, <2>1 DEF Spoken
    <2>2. CASE pc[w] # "idle"
      <3>1. run[w].files \in SUBSET DoneRows(row)
        BY <2>2 DEF FaithfulInv, Sync, Collected, DoneRows
      <3>2. UpToDate(run[w].files)'
        <4>1. UpToDate(run[w].files)
          BY <2>2 DEF CurrentInv, Spoken
        <4>2. QED BY <1>1, <1>2, <1>3, <3>1, <4>1 DEF UpToDate
      <3>3. pc[w] \in Rendering => At(w) \in Chapters \ Silent
        BY <2>2, InHand DEF FaithfulInv, Sync
      <3>4. InMouth(w)'
        BY <1>1, <1>2, <2>2, <3>3 DEF CurrentInv, Spoken, InMouth, At, Disk
      <3>5. pc[w] \in {"manifest", "finish"} => UpToDate(DoneRows(row))'
        <4>1. pc[w] \in {"manifest", "finish"} => UpToDate(DoneRows(row))
          BY <2>2 DEF CurrentInv, Spoken
        <4>2. QED BY <1>1, <1>2, <1>3, <4>1 DEF UpToDate, DoneRows
      <3>6. QED BY <1>1, <3>2, <3>4, <3>5 DEF Spoken
    <2>3. QED BY <2>1, <2>2
  <1>5. BookCurrent'
    <2>1. job.status = "finished" /\ ~fellBack => DOMAIN book = DoneRows(row)
      BY DEF FaithfulInv, ExportFaithful
    <2>2. QED BY <1>1, <1>2, <1>3, <2>1 DEF CurrentInv, BookCurrent
  <1>6. Voiced' /\ Cached'
    BY <1>1, VoicedKept, CachedKept
  <1>7. QED BY <1>4, <1>5, <1>6 DEF CurrentInv

LEMMA UntouchedCurrent ==
    ASSUME CurrentInv, UNCHANGED vars
    PROVE  CurrentInv'
  <1>1. UNCHANGED <<text, job, row, book, cache, local, pc, run, edited, fellBack>>
    BY DEF vars, dbVars, storageVars, diskVars, runVars, historyVars
  <1>2. Cached' /\ Voiced'
    BY <1>1 DEF CurrentInv, Cached, Voiced
  <1>3. \A w \in Workers : Spoken(w)'
    BY <1>1 DEF CurrentInv, Spoken, UpToDate, InMouth, DoneRows, At, Disk
  <1>4. BookCurrent'
    BY <1>1 DEF CurrentInv, BookCurrent
  <1>5. QED BY <1>2, <1>3, <1>4 DEF CurrentInv

LEMMA InitCurrent == Init => CurrentInv
  BY DEF Init, CurrentInv, Cached, Voiced, NewRow, Spoken, BookCurrent

LEMMA NextCurrent ==
    ASSUME PipelineInv, PipelineInv', FaithfulInv, CurrentInv, [Next]_vars
    PROVE  CurrentInv'
  <1>1. CASE UNCHANGED vars
    BY <1>1, UntouchedCurrent
  <1>2. ASSUME NEW w \in Workers, Claim(w) \/ Stop(w) \/ Raise(w) \/ Crash(w) PROVE CurrentInv'
    BY <1>2, ClaimCurrent, EarlyEndCurrent
  <1>3. ASSUME NEW w \in Workers, ChapterStep(w) PROVE CurrentInv'
    BY <1>3, SkipChapterCurrent, ResumeCurrent, BeginCurrent, LookUpCurrent,
       SynthesizeCurrent, VetCurrent, RejectChunkCurrent, AssembleCurrent, CheckCurrent,
       UploadCurrent, CommitChapterCurrent DEF ChapterStep
  <1>4. ASSUME NEW w \in Workers, ExportStep(w) PROVE CurrentInv'
    BY <1>4, ExportCurrent, FinishCurrent DEF ExportStep
  <1>5. CASE Recover \/ Rerender \/ \E c \in Chapters : RerenderChapter(c)
    BY <1>5, IdleCurrent
  <1>6. ASSUME NEW c \in Chapters, NEW t \in Texts, EditLexicon(c, t) PROVE CurrentInv'
    BY <1>6, EditLexiconCurrent
  <1>7. QED BY <1>1, <1>2, <1>3, <1>4, <1>5, <1>6 DEF Next, ClientStep

\* When workers on one disk finish a job, every chapter of its book that nobody
\* edited since the claim speaks the chapter's text as it is now, whatever was
\* resumed, cached or left on the disk (run_job: content-aware resume).
THEOREM BookIsCurrent == OneDisk => (Spec => []BookCurrent)
  <1> SUFFICES ASSUME OneDisk PROVE Spec => []BookCurrent
    OBVIOUS
  <1>1. PipelineInv /\ PipelineInv' /\ FaithfulInv /\ CurrentInv /\ [Next]_vars => CurrentInv'
    BY NextCurrent
  <1>2. Spec => []PipelineInv
    BY PipelineInvariant
  <1>3. Spec => []FaithfulInv
    BY ExportInvariant
  <1>4. CurrentInv => BookCurrent
    BY DEF CurrentInv
  <1>5. QED BY <1>1, <1>2, <1>3, <1>4, InitCurrent, PTL DEF Spec

=============================================================================
