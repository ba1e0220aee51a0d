--------------------------- MODULE WebhookLedger ---------------------------
(***************************************************************************)
(* The webhook ledger of the billing module: what becomes of a provider    *)
(* event between its delivery and its reduction onto the billing tables.   *)
(* A request stores the event as a row (webhook-ingestion.service.ts) and  *)
(* hands it to a BullMQ job, or reduces it inline when no Redis is         *)
(* configured.  Workers run the jobs and two periodic sweeps over the      *)
(* rows: reconciliation replays what is stuck, retention prunes what is    *)
(* settled.  An operator may requeue a quarantined row.                    *)
(*                                                                         *)
(* A row update is one SQL statement keyed by the row's id; everything     *)
(* between two statements interleaves with the other processes.  The       *)
(* reduction itself is one transaction: it commits or it throws.           *)
(***************************************************************************)
EXTENDS Naturals, FiniteSets

CONSTANTS
    Events,         \* provider events, each with its own provider_event_id
    Requests,       \* webhook requests a server may be serving at once
    Workers,        \* BullMQ workers, one per server instance
    MaxAttempts,    \* WEBHOOK_MAX_REPLAY_ATTEMPTS
    JobAttempts,    \* attempts of a reduce job
    MaxDeliveries,  \* bound: deliveries by the provider, repeats included
    MaxFailures,    \* bound: failed statements, reductions and enqueues
    MaxCrashes,     \* bound: process crashes
    MaxReplays      \* bound: requeues by an operator

ASSUME LedgerAssumption ==
    /\ IsFiniteSet(Events) /\ Events # {}
    /\ IsFiniteSet(Requests) /\ IsFiniteSet(Workers)
    /\ MaxAttempts \in Nat \ {0} /\ JobAttempts \in Nat \ {0}
    /\ MaxDeliveries \in Nat /\ MaxFailures \in Nat
    /\ MaxCrashes \in Nat /\ MaxReplays \in Nat

VARIABLES
    queued,     \* whether Redis is configured
    row,        \* the ledger: the row of each event, NoRow when there is none
    jobs,       \* reduce jobs waiting on the queue
    request,    \* the webhook requests in progress
    worker,     \* what each worker is doing
    operator,   \* the row id an operator's requeue has read as dead_letter, or 0
    reduced,    \* events whose reduction has committed at least once
    acked,      \* events a delivery of which was answered with 200
    used        \* how much of each bound is spent

vars == <<queued, row, jobs, request, worker, operator, reduced, acked, used>>

Ids == 1..MaxDeliveries

(* Age of a row by received_at, which only the insert sets: past the stuck *)
(* threshold, past the payload window, past the row window.                *)
Fresh == 0
Stuck == 1
PayloadExpired == 2
RowExpired == 3

NoRow == [id |-> 0, status |-> "none", attempts |-> 0, payload |-> FALSE, age |-> Fresh]

RowType ==
    [id : Ids, status : {"received", "processed", "dead_letter"},
     attempts : 0..MaxAttempts, payload : BOOLEAN, age : Fresh..RowExpired]

JobType == [ev : Events, id : Ids, n : 0..MaxDeliveries, left : 1..JobAttempts]

(* A row as a sweep read it. *)
SeenType == [ev : Events, id : Ids, attempts : 0..MaxAttempts, payload : BOOLEAN]

RequestType == [pc : {"idle", "check", "reset", "dispatch", "reduce", "mark"},
                ev : Events, id : 0..MaxDeliveries, n : 0..MaxDeliveries]

WorkerType ==
    [pc : {"idle", "prune"}]
    \cup [pc : {"job", "jobMark"}, job : JobType]
    \cup [pc : {"sweep"}, todo : SUBSET SeenType]
    \cup [pc : {"replay", "replayMark", "record"}, todo : SUBSET SeenType, seen : SeenType]

LedgerTypeOK ==
    /\ queued \in BOOLEAN
    /\ row \in [Events -> RowType \cup {NoRow}]
    /\ jobs \subseteq JobType
    /\ request \in [Requests -> RequestType]
    /\ worker \in [Workers -> WorkerType]
    /\ operator \in 0..MaxDeliveries
    /\ reduced \subseteq Events
    /\ acked \subseteq Events
    /\ used \in [deliveries : 0..MaxDeliveries, failures : 0..MaxFailures,
                 crashes : 0..MaxCrashes, replays : 0..MaxReplays]

Idle == [pc |-> "idle"]
NoRequest(e) == [pc |-> "idle", ev |-> e, id |-> 0, n |-> 0]

Init ==
    /\ queued \in BOOLEAN
    /\ row = [e \in Events |-> NoRow]
    /\ jobs = {}
    /\ request = [r \in Requests |-> NoRequest(CHOOSE e \in Events : TRUE)]
    /\ worker = [w \in Workers |-> Idle]
    /\ operator = 0
    /\ reduced = {}
    /\ acked = {}
    /\ used = [deliveries |-> 0, failures |-> 0, crashes |-> 0, replays |-> 0]

Spend(what, max) == used[what] < max /\ used' = [used EXCEPT ![what] = @ + 1]
Fails == Spend("failures", MaxFailures)

----------------------------------------------------------------------------
(* Statements on the ledger. *)

(* The row an UPDATE ... WHERE id matches, changed by it: none when the     *)
(* row was deleted, or deleted and stored again under a new id.             *)
Updated(id, Change(_)) ==
    row' = [e \in Events |-> IF row[e].id = id THEN Change(row[e]) ELSE row[e]]

Requeued(r) == [r EXCEPT !.status = "received", !.attempts = 0]
Processed(r) == [r EXCEPT !.status = "processed", !.attempts = 0]

(* Whether a repeated delivery finds nothing left to do. *)
\* Mutant: only a row that is gone counts as finished.
GoneOnly(r) == r = NoRow
Finished(r) == r = NoRow \/ r.status = "processed"

(* What the sweep selects. *)
\* Mutant: a row that failed a replay is not offered again.
NeverFailed(r) == r.status = "received" /\ r.age >= Stuck /\ r.attempts = 0
IsStuck(r) == r.status = "received" /\ r.age >= Stuck

(* A failed replay, counted from the attempts the sweep read at its start. *)
Quarantined(seen) == seen.attempts + 1 >= MaxAttempts

Failed(r, seen) ==
    IF Quarantined(seen)
    THEN [r EXCEPT !.attempts = seen.attempts + 1, !.status = "dead_letter"]
    ELSE [r EXCEPT !.attempts = seen.attempts + 1]

\* Mutant: payloads go by age alone.
RedactedByAge(r) == IF r.age >= PayloadExpired THEN [r EXCEPT !.payload = FALSE] ELSE r
Redacted(r) ==
    IF r.status = "processed" /\ r.age >= PayloadExpired
    THEN [r EXCEPT !.payload = FALSE] ELSE r

\* Mutant: any row past its window is deleted.
AnyPruned(r) == IF r.age >= RowExpired THEN NoRow ELSE r
Pruned(r) == IF r.status = "processed" /\ r.age >= RowExpired THEN NoRow ELSE r

----------------------------------------------------------------------------
(* A delivery: WebhookIngestionService.ingest. *)

Answer(r) == request' = [request EXCEPT ![r] = NoRequest(request[r].ev)]

(* The verified event is stored under its unique key, or the key is taken. *)
Ingest(r, e) ==
    /\ request[r].pc = "idle"
    /\ Spend("deliveries", MaxDeliveries)
    /\ LET n == used.deliveries + 1
       IN  IF row[e] = NoRow
           THEN /\ row' = [row EXCEPT ![e] =
                      [id |-> n, status |-> "received", attempts |-> 0,
                       payload |-> TRUE, age |-> Fresh]]
                /\ request' = [request EXCEPT ![r] =
                      [pc |-> "dispatch", ev |-> e, id |-> n, n |-> n]]
           ELSE /\ request' = [request EXCEPT ![r] =
                      [pc |-> "check", ev |-> e, id |-> 0, n |-> n]]
                /\ UNCHANGED row
    /\ UNCHANGED <<queued, jobs, worker, operator, reduced, acked>>

CheckExisting(r) ==
    LET e == request[r].ev
    IN  /\ request[r].pc = "check"
        /\ \/ /\ Finished(row[e])
              /\ Answer(r)
              /\ acked' = acked \cup {e}
           \/ /\ ~Finished(row[e])
              /\ request' = [request EXCEPT ![r].pc = "reset", ![r].id = row[e].id]
              /\ UNCHANGED acked
        /\ UNCHANGED <<queued, row, jobs, worker, operator, reduced, used>>

ResetExisting(r) ==
    /\ request[r].pc = "reset"
    /\ Updated(request[r].id, Requeued)
    /\ request' = [request EXCEPT ![r].pc = "dispatch"]
    /\ UNCHANGED <<queued, jobs, worker, operator, reduced, acked, used>>

(* With Redis the event is acknowledged once its job is on the queue;      *)
(* without, the request goes on to reduce it.                              *)
Dispatch(r) ==
    /\ request[r].pc = "dispatch"
    /\ \/ /\ queued
          /\ jobs' = jobs \cup {[ev |-> request[r].ev, id |-> request[r].id,
                                 n |-> request[r].n, left |-> JobAttempts]}
          /\ acked' = acked \cup {request[r].ev}
          /\ Answer(r)
       \/ /\ ~queued
          /\ request' = [request EXCEPT ![r].pc = "reduce"]
          /\ UNCHANGED <<jobs, acked>>
    /\ UNCHANGED <<queued, row, worker, operator, reduced, used>>

ReduceInline(r) ==
    /\ request[r].pc = "reduce"
    /\ reduced' = reduced \cup {request[r].ev}
    /\ request' = [request EXCEPT ![r].pc = "mark"]
    /\ UNCHANGED <<queued, row, jobs, worker, operator, acked, used>>

MarkInline(r) ==
    /\ request[r].pc = "mark"
    /\ Updated(request[r].id, Processed)
    /\ acked' = acked \cup {request[r].ev}
    /\ Answer(r)
    /\ UNCHANGED <<queued, jobs, worker, operator, reduced, used>>

(* A statement, the enqueue or the reduction throws: the provider is not   *)
(* answered with 200 and may deliver the event again.                      *)
RequestFails(r) ==
    /\ request[r].pc # "idle"
    /\ Fails
    /\ Answer(r)
    /\ UNCHANGED <<queued, row, jobs, worker, operator, reduced, acked>>

----------------------------------------------------------------------------
(* The reduce job: processEvent, run by a worker off the queue. *)

TakeJob(w, j) ==
    /\ worker[w].pc = "idle"
    /\ j \in jobs
    /\ jobs' = jobs \ {j}
    /\ worker' = [worker EXCEPT ![w] = [pc |-> "job", job |-> j]]
    /\ UNCHANGED <<queued, row, request, operator, reduced, acked, used>>

ReduceJob(w) ==
    /\ worker[w].pc = "job"
    /\ reduced' = reduced \cup {worker[w].job.ev}
    /\ worker' = [worker EXCEPT ![w].pc = "jobMark"]
    /\ UNCHANGED <<queued, row, jobs, request, operator, acked, used>>

MarkJob(w) ==
    /\ worker[w].pc = "jobMark"
    /\ Updated(worker[w].job.id, Processed)
    /\ worker' = [worker EXCEPT ![w] = Idle]
    /\ UNCHANGED <<queued, jobs, request, operator, reduced, acked, used>>

(* The reduction or the mark throws: BullMQ retries the job until its      *)
(* attempts are spent, then drops it.                                      *)
JobFails(w) ==
    /\ worker[w].pc \in {"job", "jobMark"}
    /\ Fails
    /\ LET j == worker[w].job
       IN  jobs' = IF j.left > 1 THEN jobs \cup {[j EXCEPT !.left = @ - 1]} ELSE jobs
    /\ worker' = [worker EXCEPT ![w] = Idle]
    /\ UNCHANGED <<queued, row, request, operator, reduced, acked>>

----------------------------------------------------------------------------
(* The reconciliation sweep. *)

Seen(e) == [ev |-> e, id |-> row[e].id, attempts |-> row[e].attempts,
            payload |-> row[e].payload]

StuckRows == {Seen(e) : e \in {x \in Events : IsStuck(row[x])}}

SweepStart(w) ==
    /\ queued
    /\ worker[w].pc = "idle"
    /\ StuckRows # {}
    /\ worker' = [worker EXCEPT ![w] = [pc |-> "sweep", todo |-> StuckRows]]
    /\ UNCHANGED <<queued, row, jobs, request, operator, reduced, acked, used>>

(* The next row in whatever order the query returned them; one without its *)
(* payload is passed over.                                                 *)
SweepNext(w) ==
    /\ worker[w].pc = "sweep"
    /\ \/ /\ worker[w].todo = {}
          /\ worker' = [worker EXCEPT ![w] = Idle]
       \/ \E seen \in worker[w].todo :
             LET rest == worker[w].todo \ {seen}
             IN  worker' = [worker EXCEPT ![w] =
                    IF seen.payload
                    THEN [pc |-> "replay", todo |-> rest, seen |-> seen]
                    ELSE [pc |-> "sweep", todo |-> rest]]
    /\ UNCHANGED <<queued, row, jobs, request, operator, reduced, acked, used>>

ReplayReduce(w) ==
    /\ worker[w].pc = "replay"
    /\ reduced' = reduced \cup {worker[w].seen.ev}
    /\ worker' = [worker EXCEPT ![w].pc = "replayMark"]
    /\ UNCHANGED <<queued, row, jobs, request, operator, acked, used>>

Continue(w) ==
    worker' = [worker EXCEPT ![w] = [pc |-> "sweep", todo |-> worker[w].todo]]

ReplayMark(w) ==
    /\ worker[w].pc = "replayMark"
    /\ Updated(worker[w].seen.id, Processed)
    /\ Continue(w)
    /\ UNCHANGED <<queued, jobs, request, operator, reduced, acked, used>>

ReplayFails(w) ==
    /\ worker[w].pc \in {"replay", "replayMark"}
    /\ Fails
    /\ worker' = [worker EXCEPT ![w].pc = "record"]
    /\ UNCHANGED <<queued, row, jobs, request, operator, reduced, acked>>

RecordFailure(w) ==
    LET seen == worker[w].seen
        FailedRow(r) == Failed(r, seen)
    IN  /\ worker[w].pc = "record"
        /\ Updated(seen.id, FailedRow)
        /\ Continue(w)
        /\ UNCHANGED <<queued, jobs, request, operator, reduced, acked, used>>

(* The failure cannot be recorded either: the sweep ends where it is. *)
RecordFails(w) ==
    /\ worker[w].pc = "record"
    /\ Fails
    /\ worker' = [worker EXCEPT ![w] = Idle]
    /\ UNCHANGED <<queued, row, jobs, request, operator, reduced, acked>>

----------------------------------------------------------------------------
(* The retention sweep: payloads first, then rows. *)

RetentionRedact(w) ==
    /\ queued
    /\ worker[w].pc = "idle"
    /\ \E e \in Events : Redacted(row[e]) # row[e] \/ Pruned(row[e]) # row[e]
    /\ row' = [e \in Events |-> Redacted(row[e])]
    /\ worker' = [worker EXCEPT ![w] = [pc |-> "prune"]]
    /\ UNCHANGED <<queued, jobs, request, operator, reduced, acked, used>>

RetentionPrune(w) ==
    /\ worker[w].pc = "prune"
    /\ row' = [e \in Events |-> Pruned(row[e])]
    /\ worker' = [worker EXCEPT ![w] = Idle]
    /\ UNCHANGED <<queued, jobs, request, operator, reduced, acked, used>>

----------------------------------------------------------------------------
(* The operator's requeue: replayWebhookEvent reads, then updates. *)

ReplayRead(e) ==
    /\ operator = 0
    /\ row[e].status = "dead_letter"
    /\ Spend("replays", MaxReplays)
    /\ operator' = row[e].id
    /\ UNCHANGED <<queued, row, jobs, request, worker, reduced, acked>>

ReplayReset ==
    /\ operator # 0
    /\ Updated(operator, Requeued)
    /\ operator' = 0
    /\ UNCHANGED <<queued, jobs, request, worker, reduced, acked, used>>

----------------------------------------------------------------------------
(* The environment: time, and crashes. *)

Age(e) ==
    /\ row[e] # NoRow /\ row[e].age < RowExpired
    /\ row' = [row EXCEPT ![e].age = @ + 1]
    /\ UNCHANGED <<queued, jobs, request, worker, operator, reduced, acked, used>>

(* A worker dies: BullMQ finds its job stalled and queues it again, or     *)
(* gives it up when it has stalled before; a sweep is simply gone.         *)
WorkerCrash(w) ==
    /\ worker[w].pc # "idle"
    /\ Spend("crashes", MaxCrashes)
    /\ worker' = [worker EXCEPT ![w] = Idle]
    /\ jobs' \in IF worker[w].pc \in {"job", "jobMark"}
                 THEN {jobs, jobs \cup {worker[w].job}} ELSE {jobs}
    /\ UNCHANGED <<queued, row, request, operator, reduced, acked>>

RequestCrash(r) ==
    /\ request[r].pc # "idle"
    /\ Spend("crashes", MaxCrashes)
    /\ Answer(r)
    /\ UNCHANGED <<queued, row, jobs, worker, operator, reduced, acked>>

RequestStep(r) ==
    \/ CheckExisting(r) \/ ResetExisting(r) \/ Dispatch(r)
    \/ ReduceInline(r) \/ MarkInline(r)

WorkerStep(w) ==
    \/ ReduceJob(w) \/ MarkJob(w)
    \/ SweepNext(w) \/ ReplayReduce(w) \/ ReplayMark(w) \/ RecordFailure(w)
    \/ RetentionPrune(w)

Next ==
    \/ \E r \in Requests, e \in Events : Ingest(r, e)
    \/ \E r \in Requests : RequestStep(r) \/ RequestFails(r) \/ RequestCrash(r)
    \/ \E w \in Workers, j \in jobs : TakeJob(w, j)
    \/ \E w \in Workers :
          \/ WorkerStep(w) \/ SweepStart(w) \/ RetentionRedact(w)
          \/ JobFails(w) \/ ReplayFails(w) \/ RecordFails(w) \/ WorkerCrash(w)
    \/ \E e \in Events : ReplayRead(e) \/ Age(e)
    \/ ReplayReset

Spec == Init /\ [][Next]_vars

(* Time passes; a worker finishes what it runs; the sweep is a repeatable  *)
(* job on a first-in first-out queue, so a worker comes round to it.       *)
Fairness ==
    /\ \A e \in Events : WF_vars(Age(e))
    /\ \A w \in Workers : WF_vars(WorkerStep(w))
    /\ SF_vars(\E w \in Workers : SweepStart(w))

FairSpec == Spec /\ Fairness

----------------------------------------------------------------------------
(* Properties. *)

(* An event the provider was answered 200 for is never lost, whatever      *)
(* crashes, fails, is redelivered, requeued or pruned in between: it has   *)
(* been reduced, or its row is still there, unfinished, with the payload   *)
(* a replay needs (entities/webhook-event.entity.ts: received and          *)
(* dead_letter rows are never pruned).                                     *)
AckedIsKept ==
    \A e \in acked \ reduced :
        row[e].status \in {"received", "dead_letter"} /\ row[e].payload

(* The ledger is a delivery that keeps what it was given: stored once,     *)
(* never dropped before it is reduced, acknowledged only when stored.      *)
Unfinished(r) == r.status \in {"received", "dead_letter"} /\ r.payload

Stage ==
    [e \in Events |-> IF e \in reduced THEN "done"
                      ELSE IF Unfinished(row[e]) THEN "kept" ELSE "new"]

Delivery == INSTANCE EventDelivery WITH stage <- Stage

(* The refinement: whatever crashes, fails, is redelivered, requeued or    *)
(* pruned, every step of the ledger is a step of EventDelivery or none     *)
(* (webhook-ingestion.service.ts and the two sweeps).                      *)
ImplementsDelivery == Delivery!DeliverySpec

(* The failure counter and the status agree although both are written from *)
(* a stale read: a row still offered to the sweep is below the limit, so   *)
(* replays of a failing delivery are bounded and never skip the quarantine *)
(* (webhook-reconciliation.service.ts).                                    *)
SweptIsBelowLimit ==
    \A e \in Events : row[e].status = "received" => row[e].attempts < MaxAttempts

(* A finished delivery becomes a no-op: while its row is processed, no     *)
(* request that reads it goes on to reduce the event again, so only work   *)
(* already under way may touch it.                                         *)
WorkOn(e) ==
    \/ \E r \in Requests : request[r].pc \in {"reset", "dispatch", "reduce", "mark"} /\ request[r].ev = e
    \/ \E j \in jobs : j.ev = e
    \/ \E w \in Workers :
          \/ worker[w].pc \in {"job", "jobMark"} /\ worker[w].job.ev = e
          \/ worker[w].pc = "sweep" /\ \E s \in worker[w].todo : s.ev = e
          \/ /\ worker[w].pc \in {"replay", "replayMark", "record"}
             /\ \E s \in worker[w].todo \cup {worker[w].seen} : s.ev = e
    \/ row[e].id # 0 /\ operator = row[e].id

NoNewWorkOnProcessed ==
    [][\A e \in Events :
          (row[e].status = "processed" /\ row'[e].status = "processed" /\ ~WorkOn(e))
             => ~WorkOn(e)']_vars

(* With the queue, an acknowledged event is in the end reduced or put      *)
(* aside as dead_letter for an operator, even when its job exhausted its   *)
(* retries or died with its worker: the sweep recovers it.                 *)
AckedIsSettled ==
    \A e \in Events :
        (queued /\ e \in acked) ~> (e \in reduced \/ row[e].status = "dead_letter")
============================================================================
