----------------------------- MODULE BatchQueue -----------------------------
(* The batch processor's priority queue (services/batch_processor.py): a       *)
(* priority is stored as an offset of available_at, so that the claim that     *)
(* orders by available_at needs no new column.                                 *)
EXTENDS Integers, FiniteSets

CONSTANTS Books,      \* projects a batch names
          Spread,     \* priorities used, a subset of 1..10
          BatchClaimers, \* workers that claim with claim_next
          LastTick    \* bound on the clock, in seconds
ASSUME BatchAssumption == Spread \subseteq 1..10 /\ LastTick \in Nat

VARIABLES tick,     \* seconds
          books     \* book -> its job row, or NoBook

batchVars == <<tick, books>>

BookRow == [status |-> "queued", priority |-> 5, at |-> 0, available |-> 0, by |-> "none",
            cancel |-> FALSE, attempts |-> 0]
NoBook == [BookRow EXCEPT !.status = "none"]
BatchInit == tick = 0 /\ books = [b \in Books |-> NoBook]

With(st) == {b \in Books : books[b].status = st}
----------------------------------------------------------------------------
\* Slips: the sign is lost; minutes for seconds.
OffsetUp(priority) == priority - 5
OffsetWide(priority) == (0 - 60) * (priority - 5)
Offset(priority) == 0 - (priority - 5)

\* enqueue_batch: one row per project, all with one priority, in one transaction.
EnqueueBatch(bs, priority) ==
    /\ bs # {} /\ bs \subseteq With("none")
    /\ books' = [b \in Books |-> IF b \in bs
                    THEN [BookRow EXCEPT !.priority = priority, !.at = tick,
                                         !.available = tick + Offset(priority)]
                    ELSE books[b]]
    /\ UNCHANGED tick

\* claim_next: the queued row with the least available_at that is due; a row
\* another claim has locked is skipped, so two claims take two rows.
Due == {b \in With("queued") : books[b].available <= tick}
FirstDue == {b \in Due : \A c \in Due : books[b].available <= books[c].available}
ClaimNext(w) ==
    /\ \E b \in FirstDue :
          books' = [books EXCEPT ![b].status = "running", ![b].by = w, ![b].attempts = @ + 1]
    /\ UNCHANGED tick

\* The worker ends its run (jobs/queue.py); needs_review counts as succeeded.
BatchRunEnds(b) ==
    /\ b \in With("running")
    /\ \E st \in {"succeeded", "failed"} \cup (IF books[b].cancel THEN {"canceled"} ELSE {}) :
          books' = [books EXCEPT ![b].status = st, ![b].by = "none"]
    /\ UNCHANGED tick

\* cancel_batch: a queued row ends at once, a running one is flagged, and a
\* finished or unknown one is only reported.
Canceled(row) == IF row.status = "queued" THEN [row EXCEPT !.status = "canceled", !.cancel = TRUE, !.by = "none"]
                 ELSE IF row.status = "running" THEN [row EXCEPT !.cancel = TRUE]
                 ELSE row
CancelBatch(bs) == /\ books' = [b \in Books |-> IF b \in bs THEN Canceled(books[b]) ELSE books[b]]
                   /\ UNCHANGED tick

Tick == tick < LastTick /\ tick' = tick + 1 /\ UNCHANGED books

BatchNext == \/ \E bs \in SUBSET Books, priority \in Spread : EnqueueBatch(bs, priority)
             \/ \E w \in BatchClaimers : ClaimNext(w)
             \/ \E b \in Books : BatchRunEnds(b)
             \/ \E bs \in SUBSET Books \ {{}} : CancelBatch(bs)
             \/ Tick
BatchSpec == BatchInit /\ [][BatchNext]_batchVars
----------------------------------------------------------------------------
\* get_batch_status, get_queue_stats and estimate_completion read the rows.
QueueDepth == Cardinality(With("queued"))
ActiveWorkers == Cardinality({books[b].by : b \in With("running")})
\* In halves of the average duration: half of every running job but one, and
\* all of every queued job.
WorkLeft == LET running == Cardinality(With("running"))
            IN (IF running > 1 THEN running - 1 ELSE 0) + 2 * QueueDepth

BatchTypeOK == /\ tick \in 0..LastTick
               /\ \A b \in Books : books[b].available \in -5..(LastTick + 4)
               /\ ActiveWorkers <= Cardinality(With("running")) /\ WorkLeft >= QueueDepth

\* An offset ages: at equal age the higher priority is first, and no priority
\* lets a job overtake one that was due and more than 9 seconds older, so a low
\* priority waits but is not starved by a stream of high ones.
Claimed(b) == books[b].status = "queued" /\ books'[b].status = "running"
NoStarvation ==
    [][\A b \in Books : Claimed(b) => \A c \in Due :
          /\ books[c].at >= books[b].at - 9
          /\ books[c].at = books[b].at => books[c].priority <= books[b].priority]_batchVars

\* "Claim the highest-priority available job" (claim_next).
HighestFirst == \A b \in FirstDue, c \in Due : books[b].priority >= books[c].priority
=============================================================================
