--------------------------- MODULE ChapterPipeline ---------------------------
(***************************************************************************)
(* One job's run through jobs/pipeline.py: per chapter resume, cache,      *)
(* synthesis, validation, upload, revision and billing, then the export.   *)
(* State lives in four places that fail apart: the database rows, object   *)
(* storage, the workers' disks and the worker's memory.                    *)
(*                                                                         *)
(* Abstracted: a chapter is one chunk, named by the text spoken; audio is  *)
(* the text, which take of the provider it is, and whether it passes       *)
(* validate_media; a SHA-256 is the audio it hashes; one output format;    *)
(* attempts and backoff (JobQueue) to any number of retries.               *)
(***************************************************************************)
EXTENDS Naturals, FiniteSets, Sequences

CONSTANTS N,               \* chapters of the project, in reading order
          Silent,          \* those with nothing to speak
          Lexical,         \* those with words a lexicon entry can replace
          Texts,           \* synthesis texts the lexicon can give a chapter
          Takes,           \* audio the provider may return for one text
          Workers,
          NoWorker,
          None,            \* NULL, or no such object
          Disks,
          DiskOf,          \* the disk a worker's folders are on
          RevisionCap      \* bound: revisions of each chapter

Chapters == 1..N

ASSUME PipelineAssumption ==
    /\ N \in Nat \ {0}
    /\ Silent \subseteq Chapters
    /\ Lexical \subseteq Chapters \ Silent
    /\ NoWorker \notin Workers
    /\ None \notin Texts
    /\ DiskOf \in [Workers -> Disks]
    /\ RevisionCap \in [Chapters -> Nat]

VARIABLES
    text,       \* source text of each chapter after the project lexicon
    job,        \* status and holder of the jobs row, whether it has an output key
    row,        \* chapter_results
    revs,       \* chapter_revisions of each chapter
    usage,      \* usage_events of this job by synthesis_id
    object,     \* object storage: chapters/NNN.mp3
    book,       \* object storage: audiobook.mp3, as audio per chapter
    manifest,   \* object storage: manifest.json
    cache,      \* the synthesis cache of each disk
    local,      \* the chapter files in the job's folder on each disk
    pc,
    run,        \* the worker's memory during a run
    edited,     \* history: chapters whose text changed since the last claim
    fellBack    \* history: the last export went on with an earlier book

dbVars == <<job, row, revs, usage>>
storageVars == <<object, book, manifest>>
diskVars == <<cache, local>>
runVars == <<pc, run>>
historyVars == <<edited, fellBack>>
vars == <<text, dbVars, storageVars, diskVars, runVars, historyVars>>

Audio == [text : Texts, take : Takes, ok : BOOLEAN]
Stored == Audio \union {None}
Book == UNION {[S -> Audio] : S \in SUBSET Chapters}

Row == [status : {"pending", "processing", "done", "skipped"},
        key : BOOLEAN,                     \* audio_key is set
        sha : Stored,
        sid : Texts \union {None},
        active : Nat]                      \* revision number, 0 for NULL
NewRow == [status |-> "pending", key |-> FALSE, sha |-> None, sid |-> None,
           active |-> 0]
Revision == [text : Texts, audio : Audio, status : {"active", "superseded"}]

Run == [at : 1..(N + 1), clean : Texts \union {None}, seen : [Chapters -> Row],
        audio : Stored, tries : 0..2, bill : SUBSET Texts, files : SUBSET Chapters]
IdleRun == [at |-> 1, clean |-> None, seen |-> [c \in Chapters |-> NewRow],
            audio |-> None, tries |-> 0, bill |-> {}, files |-> {}]

At(w) == run[w].at
Disk(w) == DiskOf[w]

-----------------------------------------------------------------------------
\* A commit writes the columns the worker changed and its pending events.
Changed(cur, old, new) == IF new # old THEN new ELSE cur
Flush(cur, old, new) == [f \in DOMAIN cur |-> Changed(cur[f], old[f], new[f])]

\* Slip: the chapter's chunk is recorded whenever the row commits, found in the
\* cache or not, and nobody looks for the event of an earlier attempt.
CommitRowBillsHits(w, new) ==
    LET c == At(w) IN
    /\ row' = [row EXCEPT ![c] = Flush(row[c], run[w].seen[c], new)]
    /\ usage' = [t \in Texts |-> IF t = run[w].clean THEN usage[t] + 1 ELSE usage[t]]

CommitRow(w, new) ==
    LET c == At(w) IN
    /\ row' = [row EXCEPT ![c] = Flush(row[c], run[w].seen[c], new)]
    /\ usage' = [t \in Texts |-> IF t \in run[w].bill THEN usage[t] + 1 ELSE usage[t]]

Goto(w, p) == pc' = [pc EXCEPT ![w] = p]

\* The process forgets the run.
Drop(w, p) ==
    /\ Goto(w, p)
    /\ run' = [run EXCEPT ![w] = IdleRun]

\* process_one after an exception: fail_job retries or gives up, if the
\* worker still holds the job.
Failed(w) ==
    IF job.holder = w
    THEN \E s \in {"queued", "failed"} :
             job' = [job EXCEPT !.status = s, !.holder = NoWorker]
    ELSE UNCHANGED job

\* The chapter goes back to pending, that commits, and the run fails.
Reject(w, new) ==
    /\ CommitRow(w, [new EXCEPT !.status = "pending"])
    /\ Failed(w)
    /\ Drop(w, "idle")

\* Slip: a resumed chapter is not added to the book.
NextChapterForgets(w, files) ==
    /\ Goto(w, "next")
    /\ run' = [run EXCEPT ![w].at = @ + 1]

NextChapter(w, files) ==
    /\ Goto(w, "next")
    /\ run' = [run EXCEPT ![w].at = @ + 1, ![w].files = files]

-----------------------------------------------------------------------------
\* The claim, the chapter rows (inserted once as pending) and their load.
Claim(w) ==
    /\ pc[w] = "idle"
    /\ job.status = "queued"
    /\ job' = [job EXCEPT !.status = "running", !.holder = w]
    /\ run' = [run EXCEPT ![w] = [IdleRun EXCEPT !.seen = row]]
    /\ Goto(w, "next")
    /\ edited' = {}
    /\ UNCHANGED <<text, row, revs, usage, storageVars, diskVars, fellBack>>

Holds(w) == job.holder = w /\ job.status = "running"

\* should_continue: the lease was lost, or a client cancelled the job.
Stop(w) ==
    /\ pc[w] = "next"
    /\ At(w) <= N
    /\ IF Holds(w)
       THEN job' = [job EXCEPT !.status = "canceled", !.holder = NoWorker]
       ELSE UNCHANGED job
    /\ Drop(w, "idle")
    /\ UNCHANGED <<text, row, revs, usage, storageVars, diskVars, historyVars>>

AtChapter(w) == pc[w] = "next" /\ At(w) <= N /\ Holds(w)

SkipChapter(w) ==
    LET c == At(w)  r == run[w].seen[c] IN
    /\ AtChapter(w)
    /\ c \in Silent
    /\ row' = IF r.status = "done" THEN row ELSE [row EXCEPT ![c].status = "skipped"]
    /\ Goto(w, "next")
    /\ run' = [run EXCEPT ![w].at = @ + 1, ![w].seen = row']
    /\ UNCHANGED <<text, job, revs, usage, storageVars, diskVars, historyVars>>

\* Slip: a finished chapter is resumed whatever its text is now.
ResumableAnyText(w) == run[w].seen[At(w)].status = "done"

\* Content-aware resume: done, and rendered from the current text.
Resumable(w) ==
    LET r == run[w].seen[At(w)] IN
    r.status = "done" /\ r.sid \in {None, text[At(w)]}

\* The stored copy has the checksum of the row.
Intact(w) == LET c == At(w) IN
             /\ run[w].seen[c].key
             /\ run[w].seen[c].sha # None
             /\ object[c] = run[w].seen[c].sha

ResumeStored(w) ==
    LET c == At(w) IN
    /\ AtChapter(w)
    /\ c \notin Silent
    /\ Resumable(w)
    /\ Intact(w)
    /\ local' = [local EXCEPT ![Disk(w)][c] = object[c]]
    /\ NextChapter(w, run[w].files \union {c})
    /\ UNCHANGED <<text, dbVars, storageVars, cache, historyVars>>

Valid(a) == a # None /\ a.ok

\* Storage cannot be read, or its copy does not match: the leftover on this
\* disk, if it is valid audio.
ResumeLocal(w) ==
    LET c == At(w) IN
    /\ AtChapter(w)
    /\ c \notin Silent
    /\ Resumable(w)
    /\ Valid(local[Disk(w)][c])
    /\ NextChapter(w, run[w].files \union {c})
    /\ UNCHANGED <<text, dbVars, storageVars, diskVars, historyVars>>

\* Slip: the chapter stays done while it is rendered anew.
MarkedNot(r) == r
Marked(r) == [r EXCEPT !.status = "processing"]

\* Neither: the chapter is marked processing, and keeps its audio so far.
Begin(w) ==
    LET c == At(w)
        new == Marked(run[w].seen[c])
    IN
    /\ AtChapter(w)
    /\ c \notin Silent
    /\ ~Resumable(w) \/ ~Valid(local[Disk(w)][c])
    /\ CommitRow(w, new)
    /\ run' = [run EXCEPT ![w].clean = text[c], ![w].seen[c] = new,
                          ![w].tries = 0, ![w].bill = {}]
    /\ Goto(w, "lookup")
    /\ UNCHANGED <<text, job, revs, storageVars, diskVars, historyVars>>

\* A hit is validated as well: the cache may hold what a crash left there.
Usable(a) == Valid(a)

LookUp(w) ==
    LET t == run[w].clean IN
    /\ pc[w] = "lookup"
    /\ IF Usable(cache[Disk(w)][t])
       THEN UNCHANGED cache /\ Goto(w, "assemble")
       ELSE cache' = [cache EXCEPT ![Disk(w)][t] = None] /\ Goto(w, "synthesize")
    /\ UNCHANGED <<text, dbVars, storageVars, local, run, historyVars>>

\* The provider answers and the answer is put in the cache.
Synthesize(w) ==
    /\ pc[w] = "synthesize"
    /\ \E a \in [text : {run[w].clean}, take : Takes, ok : BOOLEAN] :
           cache' = [cache EXCEPT ![Disk(w)][run[w].clean] = a]
    /\ run' = [run EXCEPT ![w].tries = @ + 1]
    /\ Goto(w, "vet")
    /\ UNCHANGED <<text, dbVars, storageVars, local, historyVars>>

\* Slip: record_usage does not look for the event of an earlier attempt.
BillAgain(w) == run[w].bill \union {run[w].clean}

\* record_usage: one event per synthesis_id of the job.
Bill(w) ==
    IF usage[run[w].clean] = 0 THEN run[w].bill \union {run[w].clean} ELSE run[w].bill

\* Validated audio is billed; the lookup raises if it finds two events.
Vet(w) ==
    LET t == run[w].clean IN
    /\ pc[w] = "vet"
    /\ Valid(cache[Disk(w)][t])
    /\ IF usage[t] > 1
       THEN Failed(w) /\ Drop(w, "idle")
       ELSE /\ run' = [run EXCEPT ![w].bill = Bill(w), ![w].tries = 0]
            /\ Goto(w, "assemble")
            /\ UNCHANGED job
    /\ UNCHANGED <<text, row, revs, usage, storageVars, diskVars, historyVars>>

\* Rejected audio is evicted and tried once more, then the attempt fails.
RejectChunk(w) ==
    LET t == run[w].clean IN
    /\ pc[w] = "vet"
    /\ ~Valid(cache[Disk(w)][t])
    /\ cache' = [cache EXCEPT ![Disk(w)][t] = None]
    /\ IF run[w].tries < 2
       THEN Goto(w, "synthesize") /\ UNCHANGED <<dbVars, run>>
       ELSE Reject(w, run[w].seen[At(w)]) /\ UNCHANGED revs
    /\ UNCHANGED <<text, storageVars, local, historyVars>>

\* merge_audio_files and normalize_audio write the chapter file, possibly
\* badly.
Assemble(w) ==
    LET a == cache[Disk(w)][run[w].clean] IN
    /\ pc[w] = "assemble"
    /\ a # None
    /\ \E ok \in {a.ok, FALSE} :
           local' = [local EXCEPT ![Disk(w)][At(w)] = [a EXCEPT !.ok = ok]]
    /\ Goto(w, "check")
    /\ UNCHANGED <<text, dbVars, storageVars, cache, run, historyVars>>

\* Slip: the assembled chapter is not validated.
AcceptableAny(a) == a # None
Acceptable(a) == Valid(a)

Check(w) ==
    LET c == At(w) IN
    /\ pc[w] = "check"
    /\ IF Acceptable(local[Disk(w)][c])
       THEN /\ run' = [run EXCEPT ![w].audio = local[Disk(w)][c]]
            /\ Goto(w, "upload")
            /\ UNCHANGED dbVars
       ELSE Reject(w, run[w].seen[c]) /\ UNCHANGED revs
    /\ UNCHANGED <<text, storageVars, diskVars, historyVars>>

\* Every revision of a chapter is stored under the same key.
Upload(w) ==
    /\ pc[w] = "upload"
    /\ object' = [object EXCEPT ![At(w)] = run[w].audio]
    /\ Goto(w, "verify")
    /\ UNCHANGED <<text, dbVars, book, manifest, diskVars, run, historyVars>>

Detached(r) == [r EXCEPT !.key = FALSE, !.sha = None]

\* The put or the read-back raises, or it returns other bytes.
UploadFails(w) ==
    /\ pc[w] \in {"upload", "verify"}
    /\ Reject(w, Detached(run[w].seen[At(w)]))
    /\ UNCHANGED <<text, revs, storageVars, diskVars, historyVars>>

\* Slips: the revision replaced stays active, or gets an unknown status.
SupersedeNone(s, n) == s
SupersedeRetired(s, n) ==
    IF n = 0 THEN s ELSE [s EXCEPT ![n].status = "retired"]
Supersede(s, n) == IF n = 0 THEN s ELSE [s EXCEPT ![n].status = "superseded"]

\* Read-back matches: revision, row and usage commit together.
CommitChapter(w) ==
    LET c == At(w)
        old == run[w].seen
        rev == [text |-> run[w].clean, audio |-> run[w].audio, status |-> "active"]
        new == [status |-> "done", key |-> TRUE, sha |-> run[w].audio,
                sid |-> run[w].clean, active |-> Len(revs[c]) + 1]
    IN
    /\ pc[w] = "verify"
    /\ object[c] = run[w].audio
    /\ Len(revs[c]) < RevisionCap[c]
    /\ revs' = [revs EXCEPT ![c] = Append(Supersede(@, old[c].active), rev)]
    /\ CommitRow(w, new)
    /\ run' = [run EXCEPT ![w] = [IdleRun EXCEPT
           !.at = c + 1, !.seen = [old EXCEPT ![c] = new],
           !.files = run[w].files \union {c}]]
    /\ Goto(w, "next")
    /\ UNCHANGED <<text, job, storageVars, diskVars, historyVars>>

-----------------------------------------------------------------------------
AtExport(w) == pc[w] = "next" /\ At(w) > N /\ run[w].files # {}

\* concat_audio_files over the chapter files, then put_file.
Export(w) ==
    /\ AtExport(w)
    /\ \A c \in run[w].files : local[Disk(w)][c] # None
    /\ book' = [c \in run[w].files |-> local[Disk(w)][c]]
    /\ fellBack' = FALSE
    /\ Goto(w, "manifest")
    /\ UNCHANGED <<text, dbVars, object, manifest, diskVars, run, edited>>

\* It fails: a job with an output key of an earlier run goes on with that.
ExportFails(w) ==
    /\ AtExport(w)
    /\ job.published
    /\ fellBack' = TRUE
    /\ Goto(w, "manifest")
    /\ UNCHANGED <<text, dbVars, storageVars, diskVars, run, edited>>

DoneRows(r) == {c \in Chapters : r[c].status = "done"}

WriteManifest(w) ==
    LET seen == run[w].seen IN
    /\ pc[w] = "manifest"
    /\ manifest' = [c \in DoneRows(seen) |-> seen[c].sha]
    /\ job' = [job EXCEPT !.published = TRUE]
    /\ Goto(w, "finish")
    /\ UNCHANGED <<text, row, revs, usage, object, book, diskVars, run, historyVars>>

\* complete_job or hold_for_review, if the worker still owns the job.
Finish(w) ==
    /\ pc[w] = "finish"
    /\ job' = IF Holds(w)
              THEN [job EXCEPT !.status = "finished", !.holder = NoWorker] ELSE job
    /\ Drop(w, "idle")
    /\ UNCHANGED <<text, row, revs, usage, storageVars, diskVars, historyVars>>

\* Anything may raise; what the session has not committed is rolled back.
Raise(w) ==
    /\ pc[w] # "idle"
    /\ Failed(w)
    /\ Drop(w, "idle")
    /\ UNCHANGED <<text, row, revs, usage, storageVars, diskVars, historyVars>>

\* The process dies and another takes its place, on the same disk.
Crash(w) ==
    /\ pc[w] # "idle"
    /\ Drop(w, "idle")
    /\ UNCHANGED <<text, dbVars, storageVars, diskVars, historyVars>>

-----------------------------------------------------------------------------
\* recover_orphans finds the lease of a worker that died expired.
Recover ==
    /\ job.status = "running"
    /\ pc[job.holder] = "idle"
    /\ \E s \in {"queued", "failed"} :
           job' = [job EXCEPT !.status = s, !.holder = NoWorker]
    /\ UNCHANGED <<text, row, revs, usage, storageVars, diskVars, runVars, historyVars>>

Rerender ==
    /\ job.status \in {"finished", "failed"}
    /\ job' = [job EXCEPT !.status = "queued"]
    /\ UNCHANGED <<text, row, revs, usage, storageVars, diskVars, runVars, historyVars>>

\* rerender_chapter forces a new revision of one chapter.
RerenderChapter(c) ==
    /\ job.status \in {"finished", "failed"}
    /\ job' = [job EXCEPT !.status = "queued"]
    /\ row' = [row EXCEPT ![c].status = "pending"]
    /\ UNCHANGED <<text, revs, usage, storageVars, diskVars, runVars, historyVars>>

\* A lexicon entry is added, changed or deleted: at any time, also mid-run.
EditLexicon(c, t) ==
    /\ c \in Lexical
    /\ text[c] # t
    /\ text' = [text EXCEPT ![c] = t]
    /\ edited' = edited \union {c}
    /\ UNCHANGED <<dbVars, storageVars, diskVars, runVars, fellBack>>

-----------------------------------------------------------------------------
Init ==
    /\ text \in [Chapters \ Silent -> Texts]
    /\ job = [status |-> "queued", holder |-> NoWorker, published |-> FALSE]
    /\ row = [c \in Chapters |-> NewRow]
    /\ revs = [c \in Chapters |-> <<>>]
    /\ usage = [t \in Texts |-> 0]
    /\ object = [c \in Chapters |-> None]
    /\ book = << >>
    /\ manifest = << >>
    /\ cache = [d \in Disks |-> [t \in Texts |-> None]]
    /\ local = [d \in Disks |-> [c \in Chapters |-> None]]
    /\ pc = [w \in Workers |-> "idle"]
    /\ run = [w \in Workers |-> IdleRun]
    /\ edited = {}
    /\ fellBack = FALSE

ChapterStep(w) ==
    \/ SkipChapter(w) \/ ResumeStored(w) \/ ResumeLocal(w) \/ Begin(w)
    \/ LookUp(w) \/ Synthesize(w) \/ Vet(w) \/ RejectChunk(w)
    \/ Assemble(w) \/ Check(w)
    \/ Upload(w) \/ UploadFails(w) \/ CommitChapter(w)

ExportStep(w) == Export(w) \/ ExportFails(w) \/ WriteManifest(w) \/ Finish(w)

ClientStep ==
    \/ Rerender
    \/ \E c \in Chapters : RerenderChapter(c) \/ \E t \in Texts : EditLexicon(c, t)

Next ==
    \/ \E w \in Workers :
         Claim(w) \/ Stop(w) \/ ChapterStep(w) \/ ExportStep(w)
         \/ Raise(w) \/ Crash(w)
    \/ Recover
    \/ ClientStep

Spec == Init /\ [][Next]_vars

-----------------------------------------------------------------------------
TypeOK ==
    /\ text \in [Chapters \ Silent -> Texts]
    /\ edited \subseteq Chapters
    /\ fellBack \in BOOLEAN
    /\ job \in [status : {"queued", "running", "finished", "failed", "canceled"},
                holder : Workers \union {NoWorker}, published : BOOLEAN]
    /\ row \in [Chapters -> Row]
    /\ revs \in [Chapters -> Seq(Revision)]
    /\ usage \in [Texts -> Nat]
    /\ object \in [Chapters -> Stored]
    /\ book \in Book
    /\ manifest \in Book
    /\ cache \in [Disks -> [Texts -> Stored]]
    /\ local \in [Disks -> [Chapters -> Stored]]
    /\ pc \in [Workers -> {"idle", "next", "lookup", "synthesize", "vet",
               "assemble", "check", "upload", "verify", "manifest", "finish"}]
    /\ run \in [Workers -> Run]

\* A chapter marked done is durable: its object is exactly what the row and
\* its active revision hashed (the comment of _upload_chapter_audio: "a
\* chapter is durable only if storage returns exactly what we hashed").
DoneDurable ==
    \A c \in Chapters : row[c].status = "done" =>
        /\ row[c].key
        /\ object[c] = row[c].sha
        /\ row[c].active \in DOMAIN revs[c]
        /\ revs[c][row[c].active].audio = row[c].sha
        /\ revs[c][row[c].active].text = row[c].sid

\* Of the revisions of a chapter exactly the one the row points to is active,
\* through crashes, failed uploads and re-renders (ChapterRevision).
OneActive ==
    \A c \in Chapters : \A n \in DOMAIN revs[c] :
        revs[c][n].status = "active" <=> n = row[c].active

\* When a run finishes the job, manifest and stored book hold exactly the
\* finished chapters, as their rows describe them; the book unless concat
\* failed and an earlier one stands in (ManifestDescribesBook is about that).
ExportFaithful ==
    LET chapters == [c \in DoneRows(row) |-> row[c].sha] IN
    job.status = "finished" =>
        /\ manifest = chapters
        /\ fellBack \/ book = chapters

\* The manifest a finished job serves is of the book it serves ("ordered
\* export manifest [...] with input and output checksums").
ManifestDescribesBook == job.status = "finished" => manifest = book

\* A finished book speaks the current text of every chapter that was not
\* edited since the run was claimed and exported (rerender_job: only chapters whose
\* current synthesis text differs are synthesized anew).
BookCurrent ==
    job.status = "finished" /\ ~fellBack =>
        \A c \in DOMAIN book \ edited : book[c].text = text[c]

\* Only validated audio reaches the stored book, whatever a crash left in the
\* cache or the merge made of it (run_job: validate on hit, before upload).
BookSound == \A c \in DOMAIN book : book[c].ok

\* No chunk of a job is billed twice, whatever is retried (UsageEvent: "so a
\* retried chunk is never billed twice").
BilledOnce == \A t \in Texts : usage[t] <= 1

\* When the job is finished every chunk in its chapters has its event: the
\* cache started empty, so this job paid for each (UsageEvent: "one row per
\* synthesized (billable) chunk").
PaidIsBilled ==
    job.status = "finished" => \A c \in DoneRows(row) : usage[row[c].sid] >= 1

\* A chapter that has a revision has audio to play, also while a re-render
\* replaces it (ChapterRevision: "prior audio remains playable throughout a
\* rerender").
PriorAudioPlayable ==
    \A c \in Chapters : row[c].active # 0 => row[c].key /\ object[c] # None

-----------------------------------------------------------------------------
\* Why DoneDurable, OneActive, BookSound and BilledOnce hold: what a worker
\* has in memory agrees with the four places it writes to.

\* Only the holder of the running job is inside a run.
HolderOK ==
    /\ job.holder \in Workers <=> job.status = "running"
    /\ \A w \in Workers : pc[w] # "idle" => job.holder = w

Rendering == {"lookup", "synthesize", "vet", "assemble", "check", "upload", "verify"}

\* The rows in memory are the rows committed; the files collected are valid
\* and of earlier chapters; the chapter rendered is not done; a pending
\* event has no predecessor; only validated audio is uploaded.
RunOK(w) ==
    pc[w] # "idle" =>
        /\ run[w].seen = row
        /\ \A c \in run[w].files : c < At(w) /\ Valid(local[Disk(w)][c])
        /\ pc[w] \in Rendering =>
             /\ At(w) \in Chapters
             /\ row[At(w)].status # "done"
             /\ run[w].clean \in Texts
        /\ pc[w] = "lookup" => run[w].tries = 0
        /\ pc[w] = "synthesize" => run[w].tries < 2
        /\ pc[w] \notin {"assemble", "check", "upload", "verify"} => run[w].bill = {}
        /\ \A t \in run[w].bill : usage[t] = 0
        /\ pc[w] \in {"upload", "verify"} =>
             Valid(run[w].audio) /\ local[Disk(w)][At(w)] = run[w].audio

\* The row, its revisions and its object.
ChapterOK(c) ==
    /\ row[c].active \in 0..Len(revs[c])
    /\ object[c] # None => object[c].ok

PipelineInv ==
    /\ TypeOK
    /\ HolderOK
    /\ \A w \in Workers : RunOK(w)
    /\ \A c \in Chapters : ChapterOK(c)
    /\ DoneDurable
    /\ OneActive
    /\ BookSound
    /\ BilledOnce

=============================================================================
