----------------------------- MODULE Admission -----------------------------
(* Submitting a job (app.synthesize): the rate limiter (ratelimit/limiter.py), *)
(* the monthly quota (billing/usage.py) and the insertion of project and job,  *)
(* against the usage the worker records later.                                 *)
EXTENDS Naturals, FiniteSets

CONSTANTS Requests,     \* submissions of one organisation
          RateLimit,    \* SYNTHESIZE_RATE_LIMIT
          Quota,        \* effective monthly quota, 0 = unlimited
          MaxChars,     \* longest text a request sends
          MaxWindows    \* bound on the clock
ASSUME AdmissionAssumption ==
    /\ IsFiniteSet(Requests)
    /\ RateLimit \in Nat \ {0} /\ Quota \in Nat /\ MaxChars \in Nat \ {0} /\ MaxWindows \in Nat

VARIABLES limiter,   \* backend: "postgres", "upstash", "sqlite" or "none"
          window,    \* index of the current rate window
          bucket,    \* window -> counter
          sub,       \* request -> [pc, chars, paid, window, seen, reply]
          recorded,  \* characters in the ledger for this month
          contended  \* some submission read the ledger while other paid work was open

admitVars == <<limiter, window, bucket, sub, recorded, contended>>

Windows == 0..MaxWindows
SubIdle == [pc |-> "new", chars |-> 0, paid |-> FALSE, window |-> 0, seen |-> 0, reply |-> "none"]

AdmissionInit == /\ limiter \in {"postgres", "upstash", "sqlite", "none"}
                 /\ window = 0
                 /\ bucket = [w \in Windows |-> 0]
                 /\ sub = [r \in Requests |-> SubIdle]
                 /\ recorded = 0
                 /\ contended = FALSE

At(r, pc) == sub[r].pc = pc
Reply(r, code) == sub' = [sub EXCEPT ![r].pc = "done", ![r].reply = code]
----------------------------------------------------------------------------
\* Text, voice and provider are checked first and refused with 400.
Submit(r, chars, paid) ==
    /\ At(r, "new")
    /\ sub' = [sub EXCEPT ![r] =
          [pc |-> IF chars = 0 THEN "done" ELSE "limit", chars |-> chars, paid |-> paid,
           window |-> window, seen |-> 0, reply |-> IF chars = 0 THEN "400" ELSE "none"]]
    /\ UNCHANGED <<limiter, window, bucket, recorded, contended>>

\* Slip: the request that finds the limit reached still passes.
VerdictLoose(r, count) == IF count <= RateLimit + 1 THEN "quota" ELSE "refuse"
\* The verdict on a counter value: allowed while count <= limit.
Verdict(r, count) == IF count <= RateLimit THEN "quota" ELSE "refuse"

\* One statement increments and returns the counter of the window the clock
\* showed (INSERT .. ON CONFLICT DO UPDATE; INCR).
CountAtomically(r) ==
    /\ At(r, "limit") /\ limiter \in {"postgres", "upstash"}
    /\ bucket' = [bucket EXCEPT ![sub[r].window] = @ + 1]
    /\ sub' = [sub EXCEPT ![r].pc = Verdict(r, bucket[sub[r].window] + 1)]
    /\ UNCHANGED <<limiter, window, recorded, contended>>

\* SQLite: the counter is selected, then written.
CountRead(r) ==
    /\ At(r, "limit") /\ limiter = "sqlite"
    /\ sub' = [sub EXCEPT ![r].pc = "count", ![r].seen = bucket[sub[r].window]]
    /\ UNCHANGED <<limiter, window, bucket, recorded, contended>>
CountWrite(r) ==
    /\ At(r, "count")
    /\ bucket' = [bucket EXCEPT ![sub[r].window] = sub[r].seen + 1]
    /\ sub' = [sub EXCEPT ![r].pc = Verdict(r, sub[r].seen + 1)]
    /\ UNCHANGED <<limiter, window, recorded, contended>>

\* The Redis call times out before or after the increment: a 500.
CountFails(r) ==
    /\ At(r, "limit") /\ limiter = "upstash" /\ Reply(r, "500")
    /\ bucket' \in {bucket, [bucket EXCEPT ![sub[r].window] = @ + 1]}
    /\ UNCHANGED <<limiter, window, recorded, contended>>

CountNone(r) == /\ At(r, "limit") /\ limiter = "none"
                /\ sub' = [sub EXCEPT ![r].pc = "quota"]
                /\ UNCHANGED <<limiter, window, bucket, recorded, contended>>

\* 429; the counter was committed before and stays.
TooMany(r) == /\ At(r, "refuse") /\ Reply(r, "429")
              /\ UNCHANGED <<limiter, window, bucket, recorded, contended>>

Open(r) == sub[r].paid /\ (sub[r].pc \in {"create", "queued"})
Exceeds(r) == sub[r].paid /\ Quota > 0 /\ recorded + sub[r].chars > Quota

\* check_quota sums the ledger; free providers and quota 0 always pass.
CheckQuota(r) ==
    /\ At(r, "quota")
    /\ IF Exceeds(r) THEN Reply(r, "402") ELSE sub' = [sub EXCEPT ![r].pc = "create"]
    /\ contended' = (contended \/ \E q \in Requests \ {r} : Open(q))
    /\ UNCHANGED <<limiter, window, bucket, recorded>>

\* Project, job and voice snapshot commit together; a refused snapshot rolls
\* all of it back.
CreateJob(r) == /\ At(r, "create") /\ sub' = [sub EXCEPT ![r].pc = "queued", ![r].reply = "200"]
                /\ UNCHANGED <<limiter, window, bucket, recorded, contended>>
RefuseSnapshot(r) == /\ At(r, "create") /\ Reply(r, "400")
                     /\ UNCHANGED <<limiter, window, bucket, recorded, contended>>

\* The worker's run: record_usage for the chunks that were synthesised, none
\* for a free provider.  What the cache had is not charged.
RecordUsage(r) ==
    /\ At(r, "queued")
    /\ \E charged \in 0..(IF sub[r].paid THEN sub[r].chars ELSE 0) : recorded' = recorded + charged
    /\ sub' = [sub EXCEPT ![r].pc = "done"]
    /\ UNCHANGED <<limiter, window, bucket, contended>>

NextWindow == /\ window < MaxWindows /\ window' = window + 1
              /\ UNCHANGED <<limiter, bucket, sub, recorded, contended>>

AdmissionNext ==
    \/ NextWindow
    \/ \E r \in Requests :
         \/ \E chars \in 0..MaxChars, paid \in BOOLEAN : Submit(r, chars, paid)
         \/ CountAtomically(r) \/ CountRead(r) \/ CountWrite(r) \/ CountFails(r) \/ CountNone(r)
         \/ TooMany(r) \/ CheckQuota(r) \/ CreateJob(r) \/ RefuseSnapshot(r) \/ RecordUsage(r)
AdmissionSpec == AdmissionInit /\ [][AdmissionNext]_admitVars
----------------------------------------------------------------------------
AdmissionTypeOK ==
    /\ bucket \in [Windows -> Nat] /\ recorded \in Nat /\ window \in Windows
    /\ \A r \in Requests : sub[r].pc \in {"new", "limit", "count", "refuse", "quota", "create", "queued", "done"}

\* Requests the limiter let through in window w: they were counted and not
\* answered 429 or still to be.
Passed(w) == {r \in Requests : sub[r].window = w
                 /\ (sub[r].pc \in {"quota", "create", "queued"}
                     \/ (sub[r].pc = "done" /\ sub[r].reply \in {"200", "402"}))}

\* However submissions interleave, a window lets through no more than the limit
\* (PostgresLimiter and UpstashLimiter; the SQLite fallback reads and writes
\* apart and is "fine for single-process dev").
WindowRespected == limiter \in {"postgres", "upstash"} =>
                      \A w \in Windows : Cardinality(Passed(w)) <= RateLimit

\* "reject up-front if this run would exceed the org's monthly quota": the
\* ledger stays within the quota as long as no submission was checked while
\* paid work of another was accepted and not yet recorded.
QuotaWhenSerial == Quota > 0 /\ ~contended => recorded <= Quota

\* What admission bounds: requests per window, and paid characters per month
\* (limiter.check, usage.check_quota).
AdmissionBounded == WindowRespected /\ QuotaWhenSerial
=============================================================================
