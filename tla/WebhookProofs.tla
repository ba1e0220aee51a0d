--------------------------- MODULE WebhookProofs ---------------------------
(* What holds of the webhook ledger for any events, requests and workers,  *)
(* any limits, and any number of deliveries, failures and crashes; and,    *)
(* from "The billing of the mock server" on, of the server the client is   *)
(* tested against, for any users, plans, products and requests.            *)
EXTENDS WebhookLedger, MockBilling, SequenceTheorems, FiniteSetTheorems,
        WellFoundedInduction, TLAPS

----------------------------------------------------------------------------
(* The inductive invariant. *)

Holding == {"reset", "dispatch", "reduce", "mark"}

(* The jobs that are queued or running. *)
RunningJobs ==
    {worker[w].job : w \in {x \in Workers : worker[x].pc \in {"job", "jobMark"}}}
HeldJobs == jobs \cup RunningJobs

(* The stale rows that a sweep still has in hand. *)
SeenBy(w) ==
    IF worker[w].pc = "sweep" THEN worker[w].todo
    ELSE IF worker[w].pc \in {"replay", "replayMark", "record"}
         THEN worker[w].todo \cup {worker[w].seen}
         ELSE {}

(* A sweep only holds rows that were below the limit when it read them. *)
SeenBelow == \A w \in Workers : \A s \in SeenBy(w) : s.attempts < MaxAttempts

(* Ids are given out in the order of the deliveries, and once each. *)
IdsUnique ==
    /\ \A e \in Events : row[e].id <= used.deliveries
    /\ \A e, f \in Events : row[e].id # 0 /\ row[e].id = row[f].id => e = f

(* Whoever remembers an id remembers it with its event: an update by that  *)
(* id touches the row of this event or none.                               *)
Owns(e, id) ==
    /\ id \in 1..used.deliveries
    /\ \A f \in Events : row[f].id = id => f = e

HoldersOwn ==
    /\ \A r \in Requests : request[r].pc \in Holding => Owns(request[r].ev, request[r].id)
    /\ \A j \in HeldJobs : Owns(j.ev, j.id)
    /\ \A w \in Workers : \A s \in SeenBy(w) : Owns(s.ev, s.id)

(* The mark as processed comes after the reduction. *)
MarksFollowReduction ==
    /\ \A r \in Requests : request[r].pc = "mark" => request[r].ev \in reduced
    /\ \A w \in Workers :
          /\ worker[w].pc = "jobMark" => worker[w].job.ev \in reduced
          /\ worker[w].pc = "replayMark" => worker[w].seen.ev \in reduced

(* An event that is not reduced was never stored, or its row still has     *)
(* what the reduction needs.                                               *)
Untouched(e) ==
    /\ row[e] = NoRow
    /\ e \notin acked
    /\ \A r \in Requests : request[r].ev = e => request[r].pc = "idle"

Replayable(e) == row[e].status \in {"received", "dead_letter"} /\ row[e].payload

UnreducedKept == \A e \in Events \ reduced : Untouched(e) \/ Replayable(e)

IInv ==
    /\ LedgerTypeOK
    /\ SweptIsBelowLimit
    /\ SeenBelow
    /\ IdsUnique
    /\ HoldersOwn
    /\ MarksFollowReduction
    /\ UnreducedKept

(* The invariant holds at the start. *)
LEMMA InitEstablishes == Init => IInv
<1> SUFFICES ASSUME Init PROVE IInv
  OBVIOUS
<1> DEFINE first == CHOOSE e \in Events : TRUE
<1>0. first \in Events
  BY LedgerAssumption DEF LedgerAssumption
<1> HIDE DEF first
<1>1. request = [r \in Requests |-> NoRequest(first)]
  BY DEF Init, first
<1>2. \A r \in Requests : request[r].pc = "idle"
  BY <1>1 DEF NoRequest
<1>3. \A w \in Workers : worker[w] = Idle
  BY DEF Init
<1>4. LedgerTypeOK
  <2>1. request \in [Requests -> RequestType]
    BY <1>0, <1>1, LedgerAssumption DEF LedgerAssumption, NoRequest, RequestType
  <2>2. worker \in [Workers -> WorkerType]
    <3>1. Idle \in WorkerType
      BY DEF Idle, WorkerType
    <3> QED BY <3>1 DEF Init
  <2>3. used \in [deliveries : 0..MaxDeliveries, failures : 0..MaxFailures,
                  crashes : 0..MaxCrashes, replays : 0..MaxReplays]
    BY LedgerAssumption DEF LedgerAssumption, Init
  <2> QED
    BY <2>1, <2>2, <2>3, LedgerAssumption DEF LedgerAssumption, LedgerTypeOK, Init
<1>5. SweptIsBelowLimit /\ IdsUnique
  BY DEF Init, SweptIsBelowLimit, IdsUnique, NoRow
<1>6. \A w \in Workers : SeenBy(w) = {}
  BY <1>3 DEF SeenBy, Idle
<1>7. HeldJobs = {}
  <2>1. RunningJobs = {}
    BY <1>3 DEF RunningJobs, Idle
  <2> QED BY <2>1 DEF HeldJobs, Init
<1>8. SeenBelow /\ HoldersOwn
  BY <1>2, <1>6, <1>7 DEF SeenBelow, HoldersOwn, Holding
<1>9. MarksFollowReduction
  BY <1>2, <1>3 DEF MarksFollowReduction, Idle
<1>10. UnreducedKept
  BY <1>2 DEF UnreducedKept, Untouched, Init
<1> QED BY <1>4, <1>5, <1>8, <1>9, <1>10 DEF IInv

----------------------------------------------------------------------------
(* What one step may do to a row, to what a sweep holds, and to a job. *)

\* Every statement on a stored row leaves a stored row.
LEMMA RowWrites ==
    ASSUME NEW r \in RowType, NEW seen, seen.attempts \in Nat,
           seen.attempts < MaxAttempts
    PROVE  /\ Requeued(r) \in RowType /\ Requeued(r).id = r.id
           /\ Processed(r) \in RowType /\ Processed(r).id = r.id
           /\ Failed(r, seen) \in RowType /\ Failed(r, seen).id = r.id
<1>1. 0 \in 0..MaxAttempts /\ seen.attempts + 1 \in 0..MaxAttempts
  BY LedgerAssumption DEF LedgerAssumption
<1> QED
  BY <1>1 DEF RowType, Requeued, Processed, Failed

\* The retention statements leave the row, redacted or not, or no row.
LEMMA RetentionWrites ==
    ASSUME NEW r \in RowType \cup {NoRow}
    PROVE  /\ Redacted(r) \in RowType \cup {NoRow} /\ Redacted(r).id = r.id
           /\ Pruned(r) \in {r, NoRow}
<1>1. NoRow.status # "processed"
  BY DEF NoRow
<1>2. CASE r = NoRow
  BY <1>1, <1>2 DEF Redacted, Pruned
<1>3. CASE r \in RowType
  BY <1>3 DEF Redacted, Pruned, RowType
<1> QED BY <1>2, <1>3

\* A stored row has an id, no row has none.
LEMMA RowIds ==
    ASSUME LedgerTypeOK, NEW e \in Events
    PROVE  /\ row[e] \in RowType \cup {NoRow}
           /\ row[e].id \in Nat
           /\ row[e] # NoRow <=> row[e].id # 0
           /\ row[e].id # 0 => row[e] \in RowType
<1>1. row[e] \in RowType \cup {NoRow}
  BY DEF LedgerTypeOK
<1>2. NoRow.id = 0
  BY DEF NoRow
<1>3. row[e] \in RowType => row[e].id \in Nat /\ row[e].id # 0
  BY LedgerAssumption DEF LedgerAssumption, RowType, Ids
<1> QED BY <1>1, <1>2, <1>3

(* What a step writes to the row of an event: nothing, the first delivery, *)
(* one of the updates by id, or the passing of time.                       *)
Stored(e) ==
    /\ row[e] = NoRow
    /\ row'[e] = [id |-> used.deliveries + 1, status |-> "received", attempts |-> 0,
                  payload |-> TRUE, age |-> Fresh]
    /\ used'.deliveries = used.deliveries + 1
    /\ \A f \in Events : f # e => row'[f] = row[f]

FailedUpdate(e) ==
    \E w \in Workers : \E seen \in SeenBy(w) : row'[e] = Failed(row[e], seen)

Aged(e) ==
    /\ row[e].age < RowExpired
    /\ row'[e] = [row[e] EXCEPT !.age = @ + 1]

RowStep(e) ==
    \/ row'[e] = row[e]
    \/ Stored(e)
    \/ /\ row[e] \in RowType
       /\ \/ row'[e] = Requeued(row[e])
          \/ e \in reduced /\ row'[e] = Processed(row[e])
          \/ FailedUpdate(e)
          \/ Aged(e)
    \/ row'[e] \in {Redacted(row[e]), Pruned(row[e])}

\* A holder's update reaches the row of its own event, or no row.
LEMMA OwnUpdate ==
    ASSUME LedgerTypeOK, NEW e \in Events, NEW f \in Events, NEW id,
           Owns(f, id), row[e].id = id
    PROVE  e = f /\ row[e] \in RowType
<1>1. e = f /\ id # 0
  BY DEF Owns
<1> QED BY <1>1, RowIds

\* What the processes in hand of a row look like.
LEMMA WorkerLocals ==
    ASSUME LedgerTypeOK, NEW w \in Workers
    PROVE  /\ worker[w] \in WorkerType
           /\ worker[w].pc \in {"job", "jobMark"} =>
                 worker[w].job \in JobType /\ worker[w].job \in HeldJobs
           /\ SeenBy(w) \subseteq SeenType
           /\ worker[w].pc \in {"replay", "replayMark", "record"} =>
                 worker[w].seen \in SeenBy(w)
<1>1. worker[w] \in WorkerType
  BY DEF LedgerTypeOK
<1>2. worker[w].pc \in {"job", "jobMark"} => worker[w].job \in JobType
  BY <1>1 DEF WorkerType
<1>3. worker[w].pc \in {"job", "jobMark"} => worker[w].job \in HeldJobs
  BY DEF HeldJobs, RunningJobs
<1>4. worker[w].pc = "sweep" => worker[w].todo \subseteq SeenType
  BY <1>1 DEF WorkerType
<1>5. worker[w].pc \in {"replay", "replayMark", "record"} =>
         worker[w].todo \subseteq SeenType /\ worker[w].seen \in SeenType
  BY <1>1 DEF WorkerType
<1> QED BY <1>1, <1>2, <1>3, <1>4, <1>5 DEF SeenBy

\* No step writes anything else to a row.
LEMMA RowSteps ==
    ASSUME IInv, [Next]_vars
    PROVE  /\ row' = [e \in Events |-> row'[e]]
           /\ \A e \in Events : RowStep(e)
<1> DEFINE Goal == row' = [e \in Events |-> row'[e]] /\ \A e \in Events : RowStep(e)
<1>0. LedgerTypeOK /\ HoldersOwn /\ MarksFollowReduction /\ row = [e \in Events |-> row[e]]
  BY DEF IInv, LedgerTypeOK
<1>1. CASE UNCHANGED row
  BY <1>0, <1>1 DEF RowStep
<1>2. ASSUME NEW r \in Requests, NEW e \in Events, Ingest(r, e) PROVE Goal
  <2>1. CASE row[e] # NoRow
    BY <1>1, <1>2, <2>1 DEF Ingest
  <2>2. CASE row[e] = NoRow
    <3>1. row' = [row EXCEPT ![e] =
                    [id |-> used.deliveries + 1, status |-> "received", attempts |-> 0,
                     payload |-> TRUE, age |-> Fresh]]
      BY <1>2, <2>2 DEF Ingest
    <3>2. used'.deliveries = used.deliveries + 1
      BY <1>0, <1>2 DEF Ingest, Spend, LedgerTypeOK
    <3> QED BY <1>0, <2>2, <3>1, <3>2 DEF RowStep, Stored
  <2> QED BY <2>1, <2>2
<1>3. ASSUME NEW r \in Requests, ResetExisting(r) PROVE Goal
  <2>1. row' = [f \in Events |-> IF row[f].id = request[r].id THEN Requeued(row[f]) ELSE row[f]]
    BY <1>3 DEF ResetExisting, Updated
  <2>2. Owns(request[r].ev, request[r].id) /\ request[r].ev \in Events
    BY <1>0, <1>3 DEF ResetExisting, HoldersOwn, Holding, LedgerTypeOK, RequestType
  <2> QED BY <1>0, <2>1, <2>2, OwnUpdate DEF RowStep
<1>4. ASSUME NEW r \in Requests, MarkInline(r) PROVE Goal
  <2>1. row' = [f \in Events |-> IF row[f].id = request[r].id THEN Processed(row[f]) ELSE row[f]]
    BY <1>4 DEF MarkInline, Updated
  <2>2. /\ Owns(request[r].ev, request[r].id) /\ request[r].ev \in Events
        /\ request[r].ev \in reduced
    BY <1>0, <1>4
    DEF MarkInline, HoldersOwn, Holding, LedgerTypeOK, RequestType, MarksFollowReduction
  <2> QED BY <1>0, <2>1, <2>2, OwnUpdate DEF RowStep
<1>5. ASSUME NEW w \in Workers, MarkJob(w) PROVE Goal
  <2> DEFINE j == worker[w].job
  <2>1. row' = [f \in Events |-> IF row[f].id = j.id THEN Processed(row[f]) ELSE row[f]]
    BY <1>5 DEF MarkJob, Updated
  <2>2. Owns(j.ev, j.id) /\ j.ev \in Events /\ j.ev \in reduced
    BY <1>0, <1>5, WorkerLocals DEF MarkJob, HoldersOwn, MarksFollowReduction, JobType
  <2> QED BY <1>0, <2>1, <2>2, OwnUpdate DEF RowStep
<1>6. ASSUME NEW w \in Workers, ReplayMark(w) PROVE Goal
  <2> DEFINE seen == worker[w].seen
  <2>1. row' = [f \in Events |-> IF row[f].id = seen.id THEN Processed(row[f]) ELSE row[f]]
    BY <1>6 DEF ReplayMark, Updated
  <2>2. Owns(seen.ev, seen.id) /\ seen.ev \in Events /\ seen.ev \in reduced
    BY <1>0, <1>6, WorkerLocals DEF ReplayMark, HoldersOwn, MarksFollowReduction, SeenType
  <2> QED BY <1>0, <2>1, <2>2, OwnUpdate DEF RowStep
<1>7. ASSUME NEW w \in Workers, RecordFailure(w) PROVE Goal
  <2> DEFINE seen == worker[w].seen
  <2>1. row' = [f \in Events |-> IF row[f].id = seen.id THEN Failed(row[f], seen) ELSE row[f]]
    BY <1>7 DEF RecordFailure, Updated
  <2>2. seen \in SeenBy(w) /\ Owns(seen.ev, seen.id) /\ seen.ev \in Events
    BY <1>0, <1>7, WorkerLocals DEF RecordFailure, HoldersOwn, SeenType
  <2> QED BY <1>0, <2>1, <2>2, OwnUpdate DEF RowStep, FailedUpdate
<1>8. ASSUME NEW w \in Workers, RetentionRedact(w) \/ RetentionPrune(w) PROVE Goal
  BY <1>8 DEF RetentionRedact, RetentionPrune, RowStep
<1>9. CASE ReplayReset
  <2>1. operator # 0
        /\ row' = [f \in Events |-> IF row[f].id = operator THEN Requeued(row[f]) ELSE row[f]]
    BY <1>9 DEF ReplayReset, Updated
  <2> QED BY <1>0, <2>1, RowIds DEF RowStep
<1>10. ASSUME NEW e \in Events, Age(e) PROVE Goal
  <2>1. row[e] # NoRow /\ row[e].age < RowExpired
        /\ row' = [row EXCEPT ![e] = [row[e] EXCEPT !.age = @ + 1]]
    BY <1>0, <1>10 DEF Age
  <2>2. row[e] \in RowType
    BY <1>0, <2>1, RowIds
  <2> QED BY <1>0, <2>1, <2>2 DEF RowStep, Aged
<1> HIDE DEF Goal
<1>11. ASSUME NEW r \in Requests, RequestStep(r) \/ RequestFails(r) \/ RequestCrash(r)
       PROVE  ResetExisting(r) \/ MarkInline(r) \/ UNCHANGED row
  BY <1>11 DEF RequestStep, RequestFails, RequestCrash, CheckExisting, Dispatch, ReduceInline
<1>12. ASSUME NEW w \in Workers, WorkerStep(w)
       PROVE  \/ MarkJob(w) \/ ReplayMark(w) \/ RecordFailure(w) \/ RetentionPrune(w)
              \/ UNCHANGED row
  BY <1>12 DEF WorkerStep, ReduceJob, SweepNext, ReplayReduce
<1>13. ASSUME NEW w \in Workers,
              SweepStart(w) \/ JobFails(w) \/ ReplayFails(w) \/ RecordFails(w) \/ WorkerCrash(w)
       PROVE  UNCHANGED row
  BY <1>13 DEF SweepStart, JobFails, ReplayFails, RecordFails, WorkerCrash
<1>14. ASSUME NEW w \in Workers, NEW j \in jobs, TakeJob(w, j) PROVE UNCHANGED row
  BY <1>14 DEF TakeJob
<1>15. ASSUME NEW e \in Events, ReplayRead(e) PROVE UNCHANGED row
  BY <1>15 DEF ReplayRead
<1>16. Goal
  BY <1>1, <1>2, <1>3, <1>4, <1>5, <1>6, <1>7, <1>8, <1>9, <1>10, <1>11, <1>12, <1>13,
     <1>14, <1>15 DEF Next, vars, Goal
<1> QED BY <1>16 DEF Goal

----------------------------------------------------------------------------
(* What a step does to the requests. *)

(* A request ends, stays, finds its event stored or stores it, takes the   *)
(* id of the row it found, or goes on with the id it has.                  *)
RequestTo(r) ==
    \/ request'[r].pc = "idle"
    \/ request'[r] = request[r]
    \/ request'[r].pc = "check" /\ row[request'[r].ev] # NoRow /\ UNCHANGED row
    \/ /\ request'[r].pc = "dispatch" /\ Stored(request'[r].ev)
       /\ request'[r].id = used.deliveries + 1
    \/ /\ request[r].pc = "check" /\ request'[r].pc = "reset"
       /\ request'[r].ev = request[r].ev /\ ~Finished(row[request[r].ev])
       /\ request'[r].id = row[request[r].ev].id /\ UNCHANGED row
    \/ /\ request[r].pc \in Holding /\ request'[r].pc \in Holding
       /\ request'[r].ev = request[r].ev /\ request'[r].id = request[r].id
       /\ request'[r].pc = "mark" => request[r].ev \in reduced'

\* The answer to a request leaves it free.
LEMMA AnswerType ==
    ASSUME LedgerTypeOK, NEW r \in Requests, Answer(r)
    PROVE  /\ request' \in [Requests -> RequestType]
           /\ \A q \in Requests : RequestTo(q)
<1>1. request[r].ev \in Events
  BY DEF LedgerTypeOK, RequestType
<1>2. NoRequest(request[r].ev) \in RequestType /\ NoRequest(request[r].ev).pc = "idle"
  BY <1>1, LedgerAssumption DEF LedgerAssumption, NoRequest, RequestType
<1> QED BY <1>2 DEF Answer, LedgerTypeOK, RequestTo

\* Every step moves the requests on in one of these ways.
LEMMA RequestSteps ==
    ASSUME IInv, [Next]_vars
    PROVE  /\ request' \in [Requests -> RequestType]
           /\ \A r \in Requests : RequestTo(r)
<1> DEFINE Goal == /\ request' \in [Requests -> RequestType]
                   /\ \A r \in Requests : RequestTo(r)
<1>0. LedgerTypeOK /\ request \in [Requests -> RequestType]
  BY DEF IInv, LedgerTypeOK
<1>1. CASE UNCHANGED request
  BY <1>0, <1>1 DEF RequestTo
<1>2. ASSUME NEW r \in Requests, NEW e \in Events, Ingest(r, e) PROVE Goal
  <2> DEFINE n == used.deliveries + 1
  <2>1. n \in 0..MaxDeliveries /\ 0 \in 0..MaxDeliveries /\ used'.deliveries = n
    BY <1>0, <1>2, LedgerAssumption DEF LedgerAssumption, Ingest, Spend, LedgerTypeOK
  <2>2. CASE row[e] # NoRow
    <3> DEFINE q == [pc |-> "check", ev |-> e, id |-> 0, n |-> n]
    <3>1. request' = [request EXCEPT ![r] = q] /\ UNCHANGED row
      BY <1>2, <2>2 DEF Ingest
    <3>2. q \in RequestType
      BY <2>1 DEF RequestType
    <3> QED BY <1>0, <2>2, <3>1, <3>2 DEF RequestTo
  <2>3. CASE row[e] = NoRow
    <3> DEFINE q == [pc |-> "dispatch", ev |-> e, id |-> n, n |-> n]
    <3>1. /\ request' = [request EXCEPT ![r] = q]
          /\ row' = [row EXCEPT ![e] = [id |-> n, status |-> "received", attempts |-> 0,
                                        payload |-> TRUE, age |-> Fresh]]
      BY <1>2, <2>3 DEF Ingest
    <3>2. q \in RequestType
      BY <2>1 DEF RequestType
    <3>3. Stored(e)
      BY <1>0, <2>1, <2>3, <3>1 DEF Stored, LedgerTypeOK
    <3> QED BY <1>0, <3>1, <3>2, <3>3 DEF RequestTo
  <2> QED BY <2>2, <2>3
<1>3. ASSUME NEW r \in Requests, CheckExisting(r) PROVE Goal
  <2> DEFINE e == request[r].ev
  <2>1. CASE Answer(r)
    BY <1>0, <2>1, AnswerType
  <2>2. CASE /\ ~Finished(row[e])
             /\ request' = [request EXCEPT ![r].pc = "reset", ![r].id = row[e].id]
    <3>1. row[e].id \in 0..MaxDeliveries
      <4>1. e \in Events
        BY <1>0 DEF RequestType
      <4>2. row[e] \in RowType \cup {NoRow}
        BY <1>0, <4>1 DEF LedgerTypeOK
      <4> QED BY <4>2, LedgerAssumption DEF LedgerAssumption, RowType, NoRow, Ids
    <3>2. request[r].pc = "check" /\ UNCHANGED row
      BY <1>3 DEF CheckExisting
    <3> QED BY <1>0, <2>2, <3>1, <3>2 DEF RequestTo, RequestType
  <2> QED BY <1>3, <2>1, <2>2 DEF CheckExisting
<1>4. ASSUME NEW r \in Requests,
             ResetExisting(r) \/ Dispatch(r) \/ ReduceInline(r)
      PROVE  Goal
  <2>1. CASE Answer(r)
    BY <1>0, <2>1, AnswerType
  <2>2. ASSUME NEW pc \in Holding, request[r].pc \in Holding,
               request' = [request EXCEPT ![r].pc = pc],
               pc = "mark" => request[r].ev \in reduced'
        PROVE  Goal
    <3>1. request' \in [Requests -> RequestType]
      BY <1>0, <2>2 DEF Holding, RequestType
    <3>2. \A q \in Requests : RequestTo(q)
      BY <1>0, <2>2 DEF RequestTo, RequestType
    <3> QED BY <3>1, <3>2
  <2> HIDE DEF Goal
  <2>3. CASE ResetExisting(r)
    BY <2>2, <2>3 DEF ResetExisting, Holding
  <2>4. CASE Dispatch(r)
    BY <2>1, <2>2, <2>4 DEF Dispatch, Holding
  <2>5. CASE ReduceInline(r)
    BY <2>2, <2>5 DEF ReduceInline, Holding
  <2> QED BY <1>4, <2>3, <2>4, <2>5
<1>5. ASSUME NEW r \in Requests, MarkInline(r) \/ RequestFails(r) \/ RequestCrash(r)
      PROVE  Goal
  BY <1>0, <1>5, AnswerType DEF MarkInline, RequestFails, RequestCrash
<1> HIDE DEF Goal
<1>6. ASSUME NEW w \in Workers,
             \/ WorkerStep(w) \/ SweepStart(w) \/ RetentionRedact(w) \/ JobFails(w)
             \/ ReplayFails(w) \/ RecordFails(w) \/ WorkerCrash(w)
      PROVE  UNCHANGED request
  BY <1>6 DEF WorkerStep, ReduceJob, MarkJob, SweepNext, ReplayReduce, ReplayMark,
     RecordFailure, RetentionPrune, SweepStart, RetentionRedact, JobFails, ReplayFails,
     RecordFails, WorkerCrash
<1>7. ASSUME NEW w \in Workers, NEW j \in jobs, TakeJob(w, j) PROVE UNCHANGED request
  BY <1>7 DEF TakeJob
<1>8. ASSUME NEW e \in Events, ReplayRead(e) \/ Age(e) PROVE UNCHANGED request
  BY <1>8 DEF ReplayRead, Age
<1>9. ASSUME ReplayReset PROVE UNCHANGED request
  BY <1>9 DEF ReplayReset
<1>10. Goal
  BY <1>1, <1>2, <1>3, <1>4, <1>5, <1>6, <1>7, <1>8, <1>9
  DEF Next, RequestStep, vars, Goal
<1> QED BY <1>10 DEF Goal

----------------------------------------------------------------------------
(* What a step does to the jobs and to the workers. *)

(* A job held after a step carries the event and id of one held before, or *)
(* of a request that dispatches.                                           *)
JobFrom(j) ==
    \/ \E k \in HeldJobs : j.ev = k.ev /\ j.id = k.id
    \/ \E r \in Requests : /\ request[r].pc = "dispatch"
                          /\ j.ev = request[r].ev /\ j.id = request[r].id

(* A worker after a step: of its type, with rows in hand that it had or    *)
(* that are stuck, and with nothing to mark that is not reduced.           *)
WorkerTo(w) ==
    /\ worker'[w] \in WorkerType
    /\ worker'[w].pc \in {"job", "jobMark"} => worker'[w].job \in HeldJobs
    /\ SeenBy(w)' \subseteq SeenBy(w) \cup StuckRows
    /\ worker'[w].pc = "jobMark" => worker'[w].job.ev \in reduced'
    /\ worker'[w].pc = "replayMark" => worker'[w].seen.ev \in reduced'

\* Reductions are never undone.
LEMMA ReducedGrows ==
    ASSUME IInv, [Next]_vars
    PROVE  reduced \subseteq reduced' /\ reduced' \subseteq Events
<1>0. LedgerTypeOK /\ reduced \subseteq Events
  BY DEF IInv, LedgerTypeOK
<1>1. ASSUME NEW r \in Requests, ReduceInline(r) PROVE reduced' \subseteq Events
  BY <1>0, <1>1 DEF ReduceInline, LedgerTypeOK, RequestType
<1>2. ASSUME NEW w \in Workers, ReduceJob(w) PROVE reduced' \subseteq Events
  BY <1>0, <1>2, WorkerLocals DEF ReduceJob, JobType
<1>3. ASSUME NEW w \in Workers, ReplayReduce(w) PROVE reduced' \subseteq Events
  BY <1>0, <1>3, WorkerLocals DEF ReplayReduce, SeenType
<1>4. ASSUME NEW r \in Requests, RequestStep(r) \/ RequestFails(r) \/ RequestCrash(r)
      PROVE  reduced \subseteq reduced' /\ reduced' \subseteq Events
  BY <1>0, <1>1, <1>4 DEF RequestStep, RequestFails, RequestCrash, CheckExisting,
     ResetExisting, Dispatch, ReduceInline, MarkInline
<1>5. ASSUME NEW w \in Workers, WorkerStep(w)
      PROVE  reduced \subseteq reduced' /\ reduced' \subseteq Events
  BY <1>0, <1>2, <1>3, <1>5 DEF WorkerStep, ReduceJob, MarkJob, SweepNext, ReplayReduce,
     ReplayMark, RecordFailure, RetentionPrune
<1>6. ASSUME NEW w \in Workers,
             \/ SweepStart(w) \/ RetentionRedact(w) \/ JobFails(w)
             \/ ReplayFails(w) \/ RecordFails(w) \/ WorkerCrash(w)
      PROVE  UNCHANGED reduced
  BY <1>6 DEF SweepStart, RetentionRedact, JobFails, ReplayFails, RecordFails, WorkerCrash
<1>7. ASSUME NEW w \in Workers, NEW j \in jobs, TakeJob(w, j) PROVE UNCHANGED reduced
  BY <1>7 DEF TakeJob
<1>8. ASSUME NEW e \in Events,
             ReplayRead(e) \/ Age(e) \/ ReplayReset \/ \E r \in Requests : Ingest(r, e)
      PROVE  UNCHANGED reduced
  BY <1>8 DEF ReplayRead, Age, ReplayReset, Ingest
<1>9. ReplayReset => UNCHANGED reduced
  BY DEF ReplayReset
<1> QED BY <1>0, <1>4, <1>5, <1>6, <1>7, <1>8, <1>9 DEF Next, vars

\* What the sweep selects are rows as they are.
LEMMA StuckRowsType ==
    ASSUME LedgerTypeOK, NEW s \in StuckRows
    PROVE  /\ s \in SeenType /\ row[s.ev] \in RowType /\ s.id = row[s.ev].id
           /\ row[s.ev].status = "received" /\ s.attempts = row[s.ev].attempts
<1>1. PICK e \in Events : IsStuck(row[e]) /\ s = Seen(e)
  BY DEF StuckRows
<1>2. row[e] \in RowType
  BY <1>1 DEF IsStuck, LedgerTypeOK, NoRow
<1> QED BY <1>1, <1>2 DEF Seen, SeenType, RowType, IsStuck

\* A step that gives one worker a state, and leaves the others.
LEMMA OneWorker ==
    ASSUME IInv, NEW w \in Workers, NEW state \in WorkerType,
           worker' = [worker EXCEPT ![w] = state], reduced \subseteq reduced',
           state.pc \in {"job", "jobMark"} => state.job \in HeldJobs,
           state.pc = "jobMark" => state.job.ev \in reduced',
           state.pc = "replayMark" => state.seen.ev \in reduced',
           state.pc = "sweep" => state.todo \subseteq SeenBy(w) \cup StuckRows,
           state.pc \in {"replay", "replayMark", "record"} =>
              state.todo \cup {state.seen} \subseteq SeenBy(w) \cup StuckRows
    PROVE  worker' \in [Workers -> WorkerType] /\ \A v \in Workers : WorkerTo(v)
<1>0. LedgerTypeOK /\ MarksFollowReduction /\ worker \in [Workers -> WorkerType]
  BY DEF IInv, LedgerTypeOK
<1>1. worker'[w] = state
  BY <1>0
<1>2. WorkerTo(w)
  BY <1>1 DEF WorkerTo, SeenBy
<1>3. ASSUME NEW v \in Workers, v # w PROVE WorkerTo(v)
  <2>1. worker'[v] = worker[v]
    BY <1>0, <1>3
  <2>2. SeenBy(v)' = SeenBy(v)
    BY <2>1 DEF SeenBy
  <2> QED BY <1>0, <2>1, <2>2, WorkerLocals DEF WorkerTo, MarksFollowReduction
<1> QED BY <1>0, <1>2, <1>3

\* Every step leaves each worker with what it may hold.
LEMMA WorkerSteps ==
    ASSUME IInv, [Next]_vars
    PROVE  worker' \in [Workers -> WorkerType] /\ \A w \in Workers : WorkerTo(w)
<1> DEFINE Goal == worker' \in [Workers -> WorkerType] /\ \A w \in Workers : WorkerTo(w)
<1>0. /\ LedgerTypeOK /\ MarksFollowReduction /\ worker \in [Workers -> WorkerType]
      /\ reduced \subseteq reduced'
  BY ReducedGrows DEF IInv, LedgerTypeOK
<1>1. ASSUME UNCHANGED worker PROVE Goal
  <2>1. \A w \in Workers : SeenBy(w)' = SeenBy(w)
    BY <1>1 DEF SeenBy
  <2> QED BY <1>0, <1>1, <2>1, WorkerLocals DEF WorkerTo, MarksFollowReduction
<1>2. ASSUME NEW w \in Workers, worker' = [worker EXCEPT ![w] = Idle] PROVE Goal
  <2>1. Idle \in WorkerType /\ Idle.pc = "idle"
    BY DEF Idle, WorkerType
  <2> QED BY <1>0, <1>2, <2>1, OneWorker
<1>3. ASSUME NEW w \in Workers, worker[w].pc \in {"replay", "replayMark", "record"},
             Continue(w)
      PROVE  Goal
  <2> DEFINE state == [pc |-> "sweep", todo |-> worker[w].todo]
  <2>1. worker[w].todo \subseteq SeenBy(w) /\ SeenBy(w) \subseteq SeenType
    BY <1>0, <1>3, WorkerLocals DEF SeenBy
  <2>2. state \in WorkerType
    BY <2>1 DEF WorkerType
  <2>3. worker' = [worker EXCEPT ![w] = state]
    BY <1>3 DEF Continue
  <2> QED BY <1>0, <2>1, <2>2, <2>3, OneWorker
<1>4. ASSUME NEW w \in Workers, NEW pc \in {"replayMark", "record"},
             worker[w].pc \in {"replay", "replayMark"},
             worker' = [worker EXCEPT ![w].pc = pc],
             pc = "replayMark" => worker[w].seen.ev \in reduced'
      PROVE  Goal
  <2> DEFINE state == [pc |-> pc, todo |-> worker[w].todo, seen |-> worker[w].seen]
  <2>1. worker[w].todo \cup {worker[w].seen} = SeenBy(w) /\ SeenBy(w) \subseteq SeenType
    BY <1>0, <1>4, WorkerLocals DEF SeenBy
  <2>2. [worker[w] EXCEPT !.pc = pc] = state
    BY <1>0, <1>4 DEF WorkerType
  <2>3. state \in WorkerType
    BY <2>1 DEF WorkerType
  <2>4. worker' = [worker EXCEPT ![w] = state]
    BY <1>4, <2>2
  <2> QED BY <1>0, <1>4, <2>1, <2>3, <2>4, OneWorker
<1>5. ASSUME NEW w \in Workers, NEW j \in jobs, TakeJob(w, j) PROVE Goal
  <2> DEFINE state == [pc |-> "job", job |-> j]
  <2>1. j \in JobType /\ j \in HeldJobs
    BY <1>0 DEF LedgerTypeOK, HeldJobs
  <2>2. state \in WorkerType
    BY <2>1 DEF WorkerType
  <2>3. worker' = [worker EXCEPT ![w] = state]
    BY <1>5 DEF TakeJob
  <2> QED BY <1>0, <2>1, <2>2, <2>3, OneWorker
<1>6. ASSUME NEW w \in Workers, ReduceJob(w) PROVE Goal
  <2> DEFINE state == [pc |-> "jobMark", job |-> worker[w].job]
  <2>1. worker[w].job \in JobType /\ worker[w].job \in HeldJobs
    BY <1>0, <1>6, WorkerLocals DEF ReduceJob
  <2>2. [worker[w] EXCEPT !.pc = "jobMark"] = state
    BY <1>0, <1>6 DEF ReduceJob, WorkerType
  <2>3. state \in WorkerType /\ worker[w].job.ev \in reduced'
    BY <1>6, <2>1 DEF WorkerType, ReduceJob
  <2>4. worker' = [worker EXCEPT ![w] = state]
    BY <1>6, <2>2 DEF ReduceJob
  <2> QED BY <1>0, <2>1, <2>3, <2>4, OneWorker
<1>7. ASSUME NEW w \in Workers, SweepStart(w) PROVE Goal
  <2> DEFINE state == [pc |-> "sweep", todo |-> StuckRows]
  <2>1. state \in WorkerType
    BY <1>0, StuckRowsType DEF WorkerType
  <2>2. worker' = [worker EXCEPT ![w] = state]
    BY <1>7 DEF SweepStart
  <2> QED BY <1>0, <2>1, <2>2, OneWorker
<1>8. ASSUME NEW w \in Workers, SweepNext(w) PROVE Goal
  <2>1. SeenBy(w) = worker[w].todo /\ SeenBy(w) \subseteq SeenType
    BY <1>0, <1>8, WorkerLocals DEF SweepNext, SeenBy
  <2>2. ASSUME NEW seen \in worker[w].todo,
               worker' = [worker EXCEPT ![w] =
                   [pc |-> "replay", todo |-> worker[w].todo \ {seen}, seen |-> seen]]
        PROVE  Goal
    <3> DEFINE state == [pc |-> "replay", todo |-> worker[w].todo \ {seen}, seen |-> seen]
    <3>1. state \in WorkerType
      BY <2>1 DEF WorkerType
    <3> QED BY <1>0, <2>1, <2>2, <3>1, OneWorker
  <2>3. ASSUME NEW seen \in worker[w].todo,
               worker' = [worker EXCEPT ![w] =
                   [pc |-> "sweep", todo |-> worker[w].todo \ {seen}]]
        PROVE  Goal
    <3> DEFINE state == [pc |-> "sweep", todo |-> worker[w].todo \ {seen}]
    <3>1. state \in WorkerType
      BY <2>1 DEF WorkerType
    <3> QED BY <1>0, <2>1, <2>3, <3>1, OneWorker
  <2> HIDE DEF Goal
  <2> QED BY <1>2, <1>8, <2>2, <2>3 DEF SweepNext
<1>9. ASSUME NEW w \in Workers, RetentionRedact(w) PROVE Goal
  <2>1. [pc |-> "prune"] \in WorkerType
    BY DEF WorkerType
  <2>2. worker' = [worker EXCEPT ![w] = [pc |-> "prune"]]
    BY <1>9 DEF RetentionRedact
  <2> QED BY <1>0, <2>1, <2>2, OneWorker
<1> HIDE DEF Goal
<1>10. ASSUME NEW w \in Workers, ReplayReduce(w) PROVE Goal
  BY <1>4, <1>10 DEF ReplayReduce
<1>11. ASSUME NEW w \in Workers, ReplayFails(w) PROVE Goal
  BY <1>4, <1>11 DEF ReplayFails
<1>12. ASSUME NEW w \in Workers, ReplayMark(w) \/ RecordFailure(w) PROVE Goal
  BY <1>3, <1>12 DEF ReplayMark, RecordFailure
<1>13. ASSUME NEW w \in Workers,
              \/ MarkJob(w) \/ JobFails(w) \/ RecordFails(w) \/ RetentionPrune(w)
              \/ WorkerCrash(w)
       PROVE  Goal
  BY <1>2, <1>13 DEF MarkJob, JobFails, RecordFails, RetentionPrune, WorkerCrash
<1>14. ASSUME NEW r \in Requests, RequestStep(r) \/ RequestFails(r) \/ RequestCrash(r)
       PROVE  UNCHANGED worker
  BY <1>14 DEF RequestStep, RequestFails, RequestCrash, CheckExisting, ResetExisting,
     Dispatch, ReduceInline, MarkInline
<1>15. ASSUME NEW e \in Events, ReplayRead(e) \/ Age(e) PROVE UNCHANGED worker
  BY <1>15 DEF ReplayRead, Age
<1>16. ASSUME NEW r \in Requests, NEW e \in Events, Ingest(r, e) PROVE UNCHANGED worker
  BY <1>16 DEF Ingest
<1>17. ReplayReset => UNCHANGED worker
  BY DEF ReplayReset
<1>18. ASSUME NEW w \in Workers,
              \/ WorkerStep(w) \/ SweepStart(w) \/ RetentionRedact(w)
              \/ JobFails(w) \/ ReplayFails(w) \/ RecordFails(w) \/ WorkerCrash(w)
       PROVE  Goal
  BY <1>6, <1>7, <1>8, <1>9, <1>10, <1>11, <1>12, <1>13, <1>18 DEF WorkerStep
<1>19. ASSUME Next PROVE Goal
  BY <1>1, <1>5, <1>14, <1>15, <1>16, <1>17, <1>18, <1>19 DEF Next
<1>20. Goal
  BY <1>1, <1>19 DEF vars
<1> QED BY <1>20 DEF Goal

\* Jobs come from dispatching requests, and keep their event and id.
LEMMA JobSteps ==
    ASSUME IInv, [Next]_vars
    PROVE  jobs' \subseteq JobType /\ \A j \in HeldJobs' : JobFrom(j)
<1> DEFINE Goal == jobs' \subseteq JobType /\ \A j \in jobs' : JobFrom(j)
<1>0. LedgerTypeOK /\ HoldersOwn /\ jobs \subseteq JobType
  BY DEF IInv, LedgerTypeOK
<1>1. ASSUME jobs' \subseteq jobs PROVE Goal
  BY <1>0, <1>1 DEF JobFrom, HeldJobs
<1>2. ASSUME NEW k \in HeldJobs, NEW n \in JobType, n.ev = k.ev, n.id = k.id,
             jobs' \subseteq jobs \cup {n}
      PROVE  Goal
  BY <1>0, <1>2 DEF JobFrom, HeldJobs
<1>3. ASSUME NEW r \in Requests, Dispatch(r) PROVE Goal
  <2> DEFINE n == [ev |-> request[r].ev, id |-> request[r].id, n |-> request[r].n,
                   left |-> JobAttempts]
  <2>1. ASSUME UNCHANGED jobs PROVE Goal
    BY <1>1, <2>1
  <2>2. ASSUME jobs' = jobs \cup {n} PROVE Goal
    <3>1. request[r].pc = "dispatch" /\ request[r] \in RequestType
      BY <1>0, <1>3 DEF Dispatch, LedgerTypeOK
    <3>2. request[r].id \in Ids
      <4>1. used.deliveries \in 0..MaxDeliveries
        BY <1>0 DEF LedgerTypeOK
      <4> QED
        BY <1>0, <3>1, <4>1, LedgerAssumption
        DEF LedgerAssumption, HoldersOwn, Holding, Owns, Ids
    <3>3. n \in JobType
      BY <3>1, <3>2, LedgerAssumption DEF LedgerAssumption, RequestType, JobType
    <3> QED BY <1>0, <2>2, <3>1, <3>3 DEF JobFrom, HeldJobs
  <2> QED BY <1>3, <2>1, <2>2 DEF Dispatch
<1>4. ASSUME NEW w \in Workers, JobFails(w) PROVE Goal
  <2> DEFINE j == worker[w].job
             n == [j EXCEPT !.left = @ - 1]
  <2>1. j \in JobType /\ j \in HeldJobs
    BY <1>0, <1>4, WorkerLocals DEF JobFails
  <2>2. CASE j.left > 1
    <3>1. n \in JobType /\ n.ev = j.ev /\ n.id = j.id
      BY <2>1, <2>2, LedgerAssumption DEF LedgerAssumption, JobType
    <3>2. jobs' = jobs \cup {n}
      BY <1>4, <2>2 DEF JobFails
    <3> HIDE DEF n, Goal
    <3> QED BY <1>2, <2>1, <3>1, <3>2
  <2>3. CASE ~(j.left > 1)
    BY <1>1, <1>4, <2>3 DEF JobFails
  <2> QED BY <2>2, <2>3
<1>5. ASSUME NEW w \in Workers, WorkerCrash(w) PROVE Goal
  <2>1. \/ jobs' = jobs
        \/ worker[w].pc \in {"job", "jobMark"} /\ jobs' = jobs \cup {worker[w].job}
    BY <1>5 DEF WorkerCrash
  <2> HIDE DEF Goal
  <2> QED BY <1>0, <1>1, <1>2, <2>1, WorkerLocals
<1> HIDE DEF Goal
<1>6. ASSUME NEW w \in Workers, NEW j \in jobs, TakeJob(w, j) PROVE Goal
  BY <1>1, <1>6 DEF TakeJob
<1>7. ASSUME NEW w \in Workers,
             \/ WorkerStep(w) \/ SweepStart(w) \/ RetentionRedact(w)
             \/ ReplayFails(w) \/ RecordFails(w)
      PROVE  UNCHANGED jobs
  BY <1>7 DEF WorkerStep, ReduceJob, MarkJob, SweepNext, ReplayReduce, ReplayMark,
     RecordFailure, RetentionPrune, SweepStart, RetentionRedact, ReplayFails, RecordFails
<1>8. ASSUME NEW r \in Requests,
             \/ CheckExisting(r) \/ ResetExisting(r) \/ ReduceInline(r) \/ MarkInline(r)
             \/ RequestFails(r) \/ RequestCrash(r)
      PROVE  UNCHANGED jobs
  BY <1>8 DEF CheckExisting, ResetExisting, ReduceInline, MarkInline, RequestFails,
     RequestCrash
<1>9. ASSUME NEW e \in Events, ReplayRead(e) \/ Age(e) PROVE UNCHANGED jobs
  BY <1>9 DEF ReplayRead, Age
<1>10. ASSUME NEW r \in Requests, NEW e \in Events, Ingest(r, e) PROVE UNCHANGED jobs
  BY <1>10 DEF Ingest
<1>11. ReplayReset => UNCHANGED jobs
  BY DEF ReplayReset
<1>12. ASSUME NEW w \in Workers,
              \/ WorkerStep(w) \/ SweepStart(w) \/ RetentionRedact(w)
              \/ JobFails(w) \/ ReplayFails(w) \/ RecordFails(w) \/ WorkerCrash(w)
       PROVE  Goal
  BY <1>1, <1>4, <1>5, <1>7, <1>12
<1>13. ASSUME NEW r \in Requests, RequestStep(r) \/ RequestFails(r) \/ RequestCrash(r)
       PROVE  Goal
  BY <1>1, <1>3, <1>8, <1>13 DEF RequestStep
<1>14. ASSUME Next PROVE Goal
  BY <1>1, <1>6, <1>9, <1>10, <1>11, <1>12, <1>13, <1>14 DEF Next
<1>15. Goal
  BY <1>1, <1>14 DEF vars
<1>16. RunningJobs' \subseteq HeldJobs
  BY WorkerSteps DEF RunningJobs, WorkerTo
<1>17. \A j \in HeldJobs : JobFrom(j)
  BY DEF JobFrom
<1> QED BY <1>15, <1>16, <1>17 DEF HeldJobs, Goal

----------------------------------------------------------------------------
(* Each part of the invariant is preserved. *)

\* Deliveries are counted up, the other bounds and the operator stay in range.
LEMMA CountersStep ==
    ASSUME IInv, [Next]_vars
    PROVE  /\ used' \in [deliveries : 0..MaxDeliveries, failures : 0..MaxFailures,
                         crashes : 0..MaxCrashes, replays : 0..MaxReplays]
           /\ used.deliveries \in Nat /\ used'.deliveries \in Nat
           /\ used.deliveries <= used'.deliveries
<1> DEFINE Counters == [deliveries : 0..MaxDeliveries, failures : 0..MaxFailures,
                        crashes : 0..MaxCrashes, replays : 0..MaxReplays]
           Goal == /\ used' \in Counters
                   /\ used.deliveries \in Nat /\ used'.deliveries \in Nat
                   /\ used.deliveries <= used'.deliveries
<1>0. used \in Counters
  BY DEF IInv, LedgerTypeOK
<1>1. ASSUME UNCHANGED used PROVE Goal
  BY <1>0, <1>1, LedgerAssumption DEF LedgerAssumption
<1>2. ASSUME \/ Spend("deliveries", MaxDeliveries) \/ Spend("failures", MaxFailures)
             \/ Spend("crashes", MaxCrashes) \/ Spend("replays", MaxReplays)
      PROVE  Goal
  BY <1>0, <1>2, LedgerAssumption DEF LedgerAssumption, Spend
<1> HIDE DEF Goal
<1>3. ASSUME NEW r \in Requests, NEW e \in Events, Ingest(r, e) PROVE Goal
  BY <1>2, <1>3 DEF Ingest
<1>4. ASSUME NEW r \in Requests, RequestStep(r) \/ RequestFails(r) \/ RequestCrash(r)
      PROVE  Goal
  BY <1>1, <1>2, <1>4 DEF RequestStep, RequestFails, RequestCrash, Fails, CheckExisting,
     ResetExisting, Dispatch, ReduceInline, MarkInline
<1>5. ASSUME NEW w \in Workers, NEW j \in jobs, TakeJob(w, j) PROVE Goal
  BY <1>1, <1>5 DEF TakeJob
<1>6. ASSUME NEW w \in Workers, WorkerStep(w) PROVE Goal
  BY <1>1, <1>6 DEF WorkerStep, ReduceJob, MarkJob, SweepNext, ReplayReduce, ReplayMark,
     RecordFailure, RetentionPrune
<1>7. ASSUME NEW w \in Workers,
             \/ SweepStart(w) \/ RetentionRedact(w)
             \/ JobFails(w) \/ ReplayFails(w) \/ RecordFails(w) \/ WorkerCrash(w)
      PROVE  Goal
  BY <1>1, <1>2, <1>7 DEF SweepStart, RetentionRedact, JobFails, ReplayFails, RecordFails,
     WorkerCrash, Fails
<1>8. ASSUME NEW e \in Events, ReplayRead(e) \/ Age(e) PROVE Goal
  BY <1>1, <1>2, <1>8 DEF ReplayRead, Age
<1>9. ASSUME ReplayReset PROVE Goal
  BY <1>1, <1>9 DEF ReplayReset
<1>10. ASSUME Next PROVE Goal
  BY <1>3, <1>4, <1>5, <1>6, <1>7, <1>8, <1>9, <1>10 DEF Next
<1> QED BY <1>1, <1>10 DEF vars, Goal

\* Rows stay rows, and only below the limit are they offered to the sweep.
LEMMA RowsStep ==
    ASSUME IInv, [Next]_vars
    PROVE  row' \in [Events -> RowType \cup {NoRow}] /\ SweptIsBelowLimit'
<1>0. LedgerTypeOK /\ SweptIsBelowLimit /\ SeenBelow
  BY DEF IInv
<1>1. ASSUME NEW e \in Events
      PROVE  /\ row'[e] \in RowType \cup {NoRow}
             /\ row'[e].status = "received" => row'[e].attempts < MaxAttempts
  <2> DEFINE Goal == /\ row'[e] \in RowType \cup {NoRow}
                     /\ row'[e].status = "received" => row'[e].attempts < MaxAttempts
  <2>0. /\ row[e] \in RowType \cup {NoRow}
        /\ row[e].status = "received" => row[e].attempts < MaxAttempts
    BY <1>0, RowIds DEF SweptIsBelowLimit
  <2>1. CASE row'[e] = row[e]
    BY <2>0, <2>1
  <2>2. CASE Stored(e)
    <3>1. used.deliveries + 1 \in Ids /\ 0 \in 0..MaxAttempts /\ 0 < MaxAttempts
      <4>1. used'.deliveries \in 0..MaxDeliveries /\ used.deliveries \in Nat
        BY CountersStep
      <4>2. used'.deliveries = used.deliveries + 1
        BY <2>2 DEF Stored
      <4> QED BY <4>1, <4>2, LedgerAssumption DEF LedgerAssumption, Ids
    <3> QED BY <2>2, <3>1 DEF Stored, RowType, Fresh, RowExpired
  <2>3. CASE row[e] \in RowType /\ row'[e] \in {Requeued(row[e]), Processed(row[e])}
    <3>1. 0 \in 0..MaxAttempts /\ 0 < MaxAttempts
      BY LedgerAssumption DEF LedgerAssumption
    <3> QED BY <2>3, <3>1 DEF Requeued, Processed, RowType
  <2>4. CASE row[e] \in RowType /\ FailedUpdate(e)
    <3>1. PICK w \in Workers : \E seen \in SeenBy(w) : row'[e] = Failed(row[e], seen)
      BY <2>4 DEF FailedUpdate
    <3>2. PICK seen \in SeenBy(w) : row'[e] = Failed(row[e], seen)
      BY <3>1
    <3>3. seen.attempts \in Nat /\ seen.attempts < MaxAttempts
      BY <1>0, WorkerLocals, LedgerAssumption DEF LedgerAssumption, SeenBelow, SeenType
    <3>4. row'[e] \in RowType
      BY <2>4, <3>2, <3>3, RowWrites
    <3>5. row'[e].status = "received" => row'[e].attempts = seen.attempts + 1 /\ ~Quarantined(seen)
      BY <2>4, <3>2 DEF Failed, RowType
    <3> QED BY <3>3, <3>4, <3>5, LedgerAssumption DEF LedgerAssumption, Quarantined
  <2>5. CASE row[e] \in RowType /\ Aged(e)
    BY <2>0, <2>5 DEF Aged, RowType, Fresh, RowExpired
  <2>6. CASE row'[e] = Redacted(row[e])
    <3>1. Redacted(row[e]) \in RowType \cup {NoRow}
      BY <2>0, RetentionWrites
    <3>2. CASE row'[e] = row[e]
      BY <2>0, <3>2
    <3>3. CASE row[e].status = "processed" /\ row'[e] = [row[e] EXCEPT !.payload = FALSE]
      <4>1. row[e] \in RowType
        BY <2>0, <3>3 DEF NoRow
      <4>2. row'[e].status = "processed"
        BY <3>3, <4>1 DEF RowType
      <4> QED BY <2>6, <3>1, <4>2
    <3> QED BY <2>6, <3>2, <3>3 DEF Redacted
  <2>7. CASE row'[e] = Pruned(row[e])
    <3>1. row'[e] \in {row[e], NoRow}
      BY <2>7 DEF Pruned
    <3> QED BY <2>0, <3>1 DEF NoRow
  <2>8. RowStep(e)
    BY RowSteps
  <2> QED BY <2>1, <2>2, <2>3, <2>4, <2>5, <2>6, <2>7, <2>8 DEF RowStep
<1> QED BY <1>1, RowSteps DEF SweptIsBelowLimit

\* Every step keeps the state well typed.
LEMMA TypeStep ==
    ASSUME IInv, [Next]_vars
    PROVE  LedgerTypeOK'
<1>0. LedgerTypeOK
  BY DEF IInv
<1>1. queued' = queued
  BY DEF vars, Next, Ingest, RequestStep, RequestFails, RequestCrash, CheckExisting,
     ResetExisting, Dispatch, ReduceInline, MarkInline, TakeJob, WorkerStep, ReduceJob,
     MarkJob, SweepNext, ReplayReduce, ReplayMark, RecordFailure, RetentionPrune,
     SweepStart, RetentionRedact, JobFails, ReplayFails, RecordFails, WorkerCrash,
     ReplayRead, Age, ReplayReset
<1>2. operator' \in 0..MaxDeliveries
  <2>1. \A e \in Events : row[e].id \in 0..MaxDeliveries
    BY <1>0, LedgerAssumption DEF LedgerAssumption, LedgerTypeOK, RowType, NoRow, Ids
  <2>2. \/ UNCHANGED operator \/ operator' = 0
        \/ \E e \in Events : operator' = row[e].id
    BY DEF vars, Next, Ingest, RequestStep, RequestFails, RequestCrash, CheckExisting,
       ResetExisting, Dispatch, ReduceInline, MarkInline, TakeJob, WorkerStep, ReduceJob,
       MarkJob, SweepNext, ReplayReduce, ReplayMark, RecordFailure, RetentionPrune,
       SweepStart, RetentionRedact, JobFails, ReplayFails, RecordFails, WorkerCrash,
       ReplayRead, Age, ReplayReset
  <2> QED BY <1>0, <2>1, <2>2, LedgerAssumption DEF LedgerAssumption, LedgerTypeOK
<1>3. acked' \subseteq Events
  <2>1. \A r \in Requests : request[r].ev \in Events
    BY <1>0 DEF LedgerTypeOK, RequestType
  <2>2. UNCHANGED acked \/ \E r \in Requests : acked' = acked \cup {request[r].ev}
    BY DEF vars, Next, Ingest, RequestStep, RequestFails, RequestCrash, CheckExisting,
       ResetExisting, Dispatch, ReduceInline, MarkInline, TakeJob, WorkerStep, ReduceJob,
       MarkJob, SweepNext, ReplayReduce, ReplayMark, RecordFailure, RetentionPrune,
       SweepStart, RetentionRedact, JobFails, ReplayFails, RecordFails, WorkerCrash,
       ReplayRead, Age, ReplayReset
  <2> QED BY <1>0, <2>1, <2>2 DEF LedgerTypeOK
<1> QED
  BY <1>0, <1>1, <1>2, <1>3, RowsStep, JobSteps, RequestSteps, WorkerSteps, ReducedGrows,
     CountersStep DEF LedgerTypeOK

\* An id stays with its row until the row is gone; a new row has a new id.
LEMMA IdStep ==
    ASSUME IInv, [Next]_vars, NEW e \in Events
    PROVE  \/ row'[e].id \in {row[e].id, 0}
           \/ Stored(e) /\ row'[e].id = used.deliveries + 1
<1>0. LedgerTypeOK
  BY DEF IInv
<1>1. CASE Stored(e)
  BY <1>1 DEF Stored
<1>2. CASE row[e] \in RowType /\ (row'[e] \in {Requeued(row[e]), Processed(row[e])} \/ Aged(e))
  BY <1>2 DEF Requeued, Processed, Aged, RowType
<1>3. CASE row[e] \in RowType /\ FailedUpdate(e)
  BY <1>3 DEF FailedUpdate, Failed, RowType
<1>4. CASE row'[e] \in {Redacted(row[e]), Pruned(row[e])}
  <2>1. Redacted(row[e]).id = row[e].id /\ Pruned(row[e]) \in {row[e], NoRow}
    BY <1>0, RowIds, RetentionWrites
  <2> QED BY <1>4, <2>1 DEF NoRow
<1>5. RowStep(e)
  BY RowSteps
<1> QED BY <1>1, <1>2, <1>3, <1>4, <1>5 DEF RowStep

\* Ids stay unique.
LEMMA IdsStep ==
    ASSUME IInv, [Next]_vars
    PROVE  IdsUnique'
<1>0. LedgerTypeOK /\ IdsUnique
  BY DEF IInv
<1>1. \A e \in Events : row[e].id \in Nat /\ row[e].id <= used.deliveries
  BY <1>0, RowIds DEF IdsUnique
<1>2. ASSUME NEW e \in Events PROVE row'[e].id <= used'.deliveries
  BY <1>1, <1>2, CountersStep, IdStep DEF Stored
<1>3. ASSUME NEW e \in Events, NEW f \in Events, row'[e].id # 0, row'[e].id = row'[f].id
      PROVE  e = f
  <2>1. CASE Stored(e) \/ Stored(f)
    <3>1. ASSUME NEW g \in Events, NEW h \in Events, Stored(g), g # h
          PROVE  row'[g].id # row'[h].id
      <4>1. row'[g].id = used.deliveries + 1 /\ row'[h] = row[h]
        BY <3>1 DEF Stored
      <4> QED BY <1>1, <4>1, CountersStep
    <3> QED BY <1>3, <2>1, <3>1
  <2>2. CASE ~Stored(e) /\ ~Stored(f)
    BY <1>0, <1>3, <2>2, IdStep DEF IdsUnique
  <2> QED BY <2>1, <2>2
<1> QED BY <1>2, <1>3 DEF IdsUnique

\* Who owns an id goes on owning it.
LEMMA OwnsKept ==
    ASSUME IInv, [Next]_vars, NEW e \in Events, NEW id, Owns(e, id)
    PROVE  Owns(e, id)'
<1>1. id \in 1..used.deliveries /\ id \in 1..used'.deliveries /\ id # used.deliveries + 1
  BY CountersStep DEF Owns
<1>2. ASSUME NEW f \in Events, row'[f].id = id PROVE f = e
  BY <1>1, <1>2, IdStep DEF Owns
<1> QED BY <1>1, <1>2 DEF Owns

\* Who reads an id off its row owns it, and so does who has just stored it.
LEMMA OwnsRow ==
    ASSUME LedgerTypeOK, IdsUnique, NEW e \in Events, row[e] # NoRow
    PROVE  Owns(e, row[e].id)
<1>1. row[e].id \in Nat /\ row[e].id # 0 /\ row[e].id <= used.deliveries
  BY RowIds DEF IdsUnique
<1>2. used.deliveries \in Nat
  BY LedgerAssumption DEF LedgerAssumption, LedgerTypeOK
<1>3. \A f \in Events : row[f].id = row[e].id => f = e
  BY <1>1 DEF IdsUnique
<1> QED BY <1>1, <1>2, <1>3 DEF Owns

\* The first delivery owns the id it has stored.
LEMMA OwnsStored ==
    ASSUME IInv, [Next]_vars, NEW e \in Events, NEW id, Stored(e), id = used.deliveries + 1
    PROVE  Owns(e, id)'
<1>0. LedgerTypeOK /\ IdsUnique
  BY DEF IInv
<1>1. used'.deliveries = id /\ id \in 1..used'.deliveries
  BY CountersStep DEF Stored
<1>2. ASSUME NEW f \in Events, row'[f].id = id, f # e PROVE FALSE
  <2>1. row'[f] = row[f]
    BY <1>2 DEF Stored
  <2>2. row[f].id <= used.deliveries
    BY <1>0 DEF IdsUnique
  <2> QED BY <1>2, <2>1, <2>2, CountersStep
<1> QED BY <1>1, <1>2 DEF Owns

\* Holders go on owning what they hold.
LEMMA HoldersStep ==
    ASSUME IInv, [Next]_vars
    PROVE  HoldersOwn'
<1>0. LedgerTypeOK /\ IdsUnique /\ HoldersOwn /\ LedgerTypeOK'
  BY TypeStep DEF IInv
<1>1. ASSUME NEW r \in Requests, request'[r].pc \in Holding
      PROVE  Owns(request[r].ev, request[r].id)'
  <2>1. PICK e \in Events : e = request'[r].ev
    BY <1>0 DEF LedgerTypeOK, RequestType
  <2>2. PICK id : id = request'[r].id
    OBVIOUS
  <2>3. RequestTo(r)
    BY RequestSteps
  <2>4. CASE request'[r] = request[r]
    <3>1. Owns(e, id)
      BY <1>0, <1>1, <2>1, <2>2, <2>4 DEF HoldersOwn
    <3>2. Owns(e, id)'
      BY <3>1, OwnsKept
    <3> QED BY <2>1, <2>2, <3>2 DEF Owns
  <2>5. CASE Stored(request'[r].ev) /\ request'[r].id = used.deliveries + 1
    <3>1. Owns(e, id)'
      BY <2>1, <2>2, <2>5, OwnsStored
    <3> QED BY <2>1, <2>2, <3>1 DEF Owns
  <2>6. CASE /\ request'[r].ev = request[r].ev /\ ~Finished(row[request[r].ev])
             /\ request'[r].id = row[request[r].ev].id
    <3>1. row[e] # NoRow
      BY <2>1, <2>6 DEF Finished
    <3>2. Owns(e, id)
      BY <1>0, <2>1, <2>2, <2>6, <3>1, OwnsRow
    <3>3. Owns(e, id)'
      BY <3>2, OwnsKept
    <3> QED BY <2>1, <2>2, <3>3 DEF Owns
  <2>7. CASE /\ request[r].pc \in Holding
             /\ request'[r].ev = request[r].ev /\ request'[r].id = request[r].id
    <3>1. Owns(e, id)
      BY <1>0, <2>1, <2>2, <2>7 DEF HoldersOwn
    <3>2. Owns(e, id)'
      BY <3>1, OwnsKept
    <3> QED BY <2>1, <2>2, <3>2 DEF Owns
  <2> QED BY <1>1, <2>3, <2>4, <2>5, <2>6, <2>7 DEF RequestTo, Holding
<1>2. ASSUME NEW e \in Events, NEW r \in Requests, request[r].pc = "dispatch",
             e = request[r].ev
      PROVE  Owns(e, request[r].id)
  BY <1>0, <1>2 DEF HoldersOwn, Holding
<1>3. ASSUME NEW j \in HeldJobs' PROVE Owns(j.ev, j.id)'
  <2>1. JobFrom(j)
    BY JobSteps
  <2>2. PICK e, id : j.ev = e /\ j.id = id /\ Owns(e, id) /\ e \in Events
    <3>1. CASE \E k \in HeldJobs : j.ev = k.ev /\ j.id = k.id
      <4>1. PICK k \in HeldJobs : j.ev = k.ev /\ j.id = k.id
        BY <3>1
      <4>2. k \in JobType
        BY <1>0, WorkerLocals DEF HeldJobs, RunningJobs, LedgerTypeOK
      <4> QED BY <1>0, <4>1, <4>2 DEF HoldersOwn, JobType
    <3>2. CASE \E r \in Requests : /\ request[r].pc = "dispatch"
                                  /\ j.ev = request[r].ev /\ j.id = request[r].id
      BY <1>0, <1>2, <3>2 DEF LedgerTypeOK, RequestType
    <3> QED BY <2>1, <3>1, <3>2 DEF JobFrom
  <2>3. Owns(e, id)'
    BY <2>2, OwnsKept
  <2> QED BY <2>2, <2>3 DEF Owns
<1>4. ASSUME NEW w \in Workers, NEW s \in SeenBy(w)' PROVE Owns(s.ev, s.id)'
  <2>1. s \in SeenBy(w) \/ s \in StuckRows
    BY WorkerSteps DEF WorkerTo
  <2>2. PICK e, id : s.ev = e /\ s.id = id /\ Owns(e, id) /\ e \in Events
    <3>1. CASE s \in SeenBy(w)
      BY <1>0, <3>1, WorkerLocals DEF HoldersOwn, SeenType
    <3>2. CASE s \in StuckRows
      <4>1. s.ev \in Events /\ row[s.ev] \in RowType /\ s.id = row[s.ev].id
        BY <1>0, <3>2, StuckRowsType DEF SeenType
      <4>2. row[s.ev] # NoRow
        BY <4>1, LedgerAssumption DEF LedgerAssumption, RowType, NoRow, Ids
      <4> QED BY <1>0, <4>1, <4>2, OwnsRow
    <3> QED BY <2>1, <3>1, <3>2
  <2>3. Owns(e, id)'
    BY <2>2, OwnsKept
  <2> QED BY <2>2, <2>3 DEF Owns
<1> QED BY <1>1, <1>3, <1>4 DEF HoldersOwn

\* A sweep only takes up rows below the limit.
LEMMA SeenBelowStep ==
    ASSUME IInv, [Next]_vars
    PROVE  SeenBelow'
<1>0. LedgerTypeOK /\ SweptIsBelowLimit /\ SeenBelow
  BY DEF IInv
<1>1. ASSUME NEW w \in Workers, NEW s \in SeenBy(w)' PROVE s.attempts < MaxAttempts
  <2>1. s \in SeenBy(w) \/ s \in StuckRows
    BY WorkerSteps DEF WorkerTo
  <2>2. CASE s \in SeenBy(w)
    BY <1>0, <2>2 DEF SeenBelow
  <2>3. CASE s \in StuckRows
    BY <1>0, <2>3, StuckRowsType DEF SweptIsBelowLimit, SeenType
  <2> QED BY <2>1, <2>2, <2>3
<1> QED BY <1>1 DEF SeenBelow

\* Nothing is marked that is not reduced.
LEMMA MarksStep ==
    ASSUME IInv, [Next]_vars
    PROVE  MarksFollowReduction'
<1>0. MarksFollowReduction
  BY DEF IInv
<1>1. ASSUME NEW r \in Requests, request'[r].pc = "mark" PROVE request'[r].ev \in reduced'
  BY <1>0, <1>1, RequestSteps, ReducedGrows DEF RequestTo, MarksFollowReduction
<1> QED BY <1>1, WorkerSteps DEF WorkerTo, MarksFollowReduction

\* Only a request in progress acknowledges its event.
LEMMA AckedStep ==
    ASSUME IInv, [Next]_vars, NEW e \in acked' \ acked
    PROVE  \E r \in Requests : request[r].ev = e /\ request[r].pc # "idle"
<1> DEFINE Goal == \E r \in Requests : request[r].ev = e /\ request[r].pc # "idle"
<1>1. ASSUME NEW r \in Requests, CheckExisting(r) \/ Dispatch(r) \/ MarkInline(r)
      PROVE  Goal
  BY <1>1 DEF CheckExisting, Dispatch, MarkInline
<1> HIDE DEF Goal
<1>2. ASSUME NEW r \in Requests,
             \/ ResetExisting(r) \/ ReduceInline(r) \/ RequestFails(r) \/ RequestCrash(r)
      PROVE  UNCHANGED acked
  BY <1>2 DEF ResetExisting, ReduceInline, RequestFails, RequestCrash
<1>3. ASSUME NEW w \in Workers,
             \/ WorkerStep(w) \/ SweepStart(w) \/ RetentionRedact(w) \/ JobFails(w)
             \/ ReplayFails(w) \/ RecordFails(w) \/ WorkerCrash(w)
      PROVE  UNCHANGED acked
  BY <1>3 DEF WorkerStep, ReduceJob, MarkJob, SweepNext, ReplayReduce, ReplayMark,
     RecordFailure, RetentionPrune, SweepStart, RetentionRedact, JobFails, ReplayFails,
     RecordFails, WorkerCrash
<1>4. ASSUME NEW w \in Workers, NEW j \in jobs, TakeJob(w, j) PROVE UNCHANGED acked
  BY <1>4 DEF TakeJob
<1>5. ASSUME NEW f \in Events, ReplayRead(f) \/ Age(f) PROVE UNCHANGED acked
  BY <1>5 DEF ReplayRead, Age
<1>6. ASSUME NEW r \in Requests, NEW f \in Events, Ingest(r, f) PROVE UNCHANGED acked
  BY <1>6 DEF Ingest
<1>7. ReplayReset => UNCHANGED acked
  BY DEF ReplayReset
<1>8. ~UNCHANGED acked
  OBVIOUS
<1>9. Goal
  BY <1>1, <1>2, <1>3, <1>4, <1>5, <1>6, <1>7, <1>8 DEF Next, RequestStep, vars
<1> QED BY <1>9 DEF Goal

\* A row that a reduction needs keeps its payload and stays unfinished until the
\* event is reduced.
LEMMA ReplayableKept ==
    ASSUME IInv, [Next]_vars, NEW e \in Events, e \notin reduced', Replayable(e)
    PROVE  Replayable(e)' /\ ~Stored(e)
<1>0. LedgerTypeOK
  BY DEF IInv
<1>1. e \notin reduced /\ RowStep(e)
  BY ReducedGrows, RowSteps
<1>2. row[e] \in RowType
  BY <1>0, RowIds DEF Replayable, NoRow
<1>3. row[e].status # "processed"
  BY DEF Replayable
<1>4. ~Stored(e)
  BY DEF Replayable, Stored, NoRow
<1> SUFFICES Replayable(e)'
  BY <1>4
<1>5. CASE row'[e] = row[e]
  BY <1>5 DEF Replayable
<1>6. CASE row'[e] = Requeued(row[e]) \/ Aged(e)
  BY <1>2, <1>6 DEF Requeued, Aged, Replayable, RowType
<1>7. CASE FailedUpdate(e)
  BY <1>2, <1>7 DEF FailedUpdate, Failed, Replayable, RowType
<1>8. CASE row'[e] \in {Redacted(row[e]), Pruned(row[e])}
  BY <1>3, <1>5, <1>8 DEF Redacted, Pruned
<1> QED BY <1>1, <1>4, <1>5, <1>6, <1>7, <1>8 DEF RowStep

\* What a reduction still needs is kept until the event is reduced.
LEMMA KeptStep ==
    ASSUME IInv, [Next]_vars
    PROVE  UnreducedKept'
<1>0. LedgerTypeOK /\ UnreducedKept
  BY DEF IInv
<1> SUFFICES ASSUME NEW e \in Events, e \notin reduced' PROVE Untouched(e)' \/ Replayable(e)'
  BY DEF UnreducedKept
<1>1. e \notin reduced /\ RowStep(e)
  BY ReducedGrows, RowSteps
<1>2. CASE Replayable(e)
  BY <1>2, ReplayableKept
<1>3. CASE Untouched(e)
  <2>1. CASE Stored(e)
    BY <2>1 DEF Stored, Replayable
  <2>2. CASE ~Stored(e)
    <3>1. row[e] = NoRow /\ row[e] \notin RowType
      BY <1>3, LedgerAssumption DEF LedgerAssumption, Untouched, NoRow, RowType
    <3>2. row'[e] = NoRow
      <4>1. Redacted(NoRow) = NoRow /\ Pruned(NoRow) = NoRow
        BY DEF Redacted, Pruned, NoRow
      <4> QED BY <1>1, <2>2, <3>1, <4>1 DEF RowStep
    <3>3. e \notin acked'
      BY <1>3, AckedStep DEF Untouched
    <3>4. ASSUME NEW r \in Requests, request'[r].ev = e PROVE request'[r].pc = "idle"
      <4>1. RequestTo(r)
        BY RequestSteps
      <4>2. request[r].ev = e => request[r].pc = "idle"
        BY <1>3 DEF Untouched
      <4> QED BY <2>2, <3>1, <3>4, <4>1, <4>2 DEF RequestTo, Holding
    <3> QED BY <3>2, <3>3, <3>4 DEF Untouched
  <2> QED BY <2>1, <2>2
<1> QED BY <1>0, <1>1, <1>2, <1>3 DEF UnreducedKept

\* The invariant is inductive.
LEMMA InvariantStep == IInv /\ [Next]_vars => IInv'
<1> SUFFICES ASSUME IInv, [Next]_vars PROVE IInv'
  OBVIOUS
<1> QED
  BY TypeStep, RowsStep, SeenBelowStep, IdsStep, HoldersStep, MarksStep, KeptStep DEF IInv

----------------------------------------------------------------------------
(* The theorems. *)

\* The ledger is well typed in every reachable state; a failure written from
\* a stale read never counts past the limit (webhook-reconciliation.service.ts).
THEOREM LedgerTypeCorrect == Spec => []LedgerTypeOK
<1>1. IInv => LedgerTypeOK
  BY DEF IInv
<1> QED BY <1>1, InitEstablishes, InvariantStep, PTL DEF Spec

\* An event answered with 200 is reduced or its row is kept with its payload,
\* whatever fails, crashes, is redelivered, requeued or pruned.
THEOREM AcknowledgedIsKept == Spec => []AckedIsKept
<1>1. IInv => AckedIsKept
  BY DEF IInv, LedgerTypeOK, UnreducedKept, Untouched, Replayable, AckedIsKept
<1> QED BY <1>1, InitEstablishes, InvariantStep, PTL DEF Spec

\* A row the sweep may offer again is below the limit of failed replays.
THEOREM ReplaysAreBounded == Spec => []SweptIsBelowLimit
<1>1. IInv => SweptIsBelowLimit
  BY DEF IInv
<1> QED BY <1>1, InitEstablishes, InvariantStep, PTL DEF Spec

\* The work on an event, in terms of what the lemmas speak of.
LEMMA WorkIsHeld ==
    ASSUME NEW e \in Events
    PROVE  WorkOn(e) <=>
             \/ \E r \in Requests : request[r].pc \in Holding /\ request[r].ev = e
             \/ \E j \in HeldJobs : j.ev = e
             \/ \E w \in Workers : \E s \in SeenBy(w) : s.ev = e
             \/ row[e].id # 0 /\ operator = row[e].id
BY DEF WorkOn, HeldJobs, RunningJobs, SeenBy, Holding

\* No step takes up work on an event that is processed: redeliveries answer at
\* once, sweeps and operators select other rows (webhook-ingestion.service.ts).
THEOREM ProcessedIsLeftAlone == Spec => NoNewWorkOnProcessed
<1>1. ASSUME IInv, [Next]_vars, NEW e \in Events,
             row[e].status = "processed", row'[e].status = "processed", ~WorkOn(e)
      PROVE  ~WorkOn(e)'
  <2>0. LedgerTypeOK /\ IdsUnique /\ row[e] # NoRow /\ ~Stored(e)
    BY <1>1 DEF IInv, NoRow, Stored
  <2>1. ASSUME NEW r \in Requests, request'[r].pc \in Holding, request'[r].ev = e PROVE FALSE
    <3>1. RequestTo(r)
      BY <1>1, RequestSteps
    <3>2. request[r].pc \in Holding => request[r].ev # e
      BY <1>1, WorkIsHeld
    <3> QED BY <1>1, <2>0, <2>1, <3>1, <3>2 DEF RequestTo, Holding, Finished
  <2>2. ASSUME NEW j \in HeldJobs', j.ev = e PROVE FALSE
    <3>1. JobFrom(j)
      BY <1>1, JobSteps
    <3> QED BY <1>1, <2>2, <3>1, WorkIsHeld DEF JobFrom, Holding
  <2>3. ASSUME NEW w \in Workers, NEW s \in SeenBy(w)', s.ev = e PROVE FALSE
    <3>1. s \in SeenBy(w) \/ s \in StuckRows
      BY <1>1, WorkerSteps DEF WorkerTo
    <3>2. s \notin SeenBy(w)
      BY <1>1, <2>3, WorkIsHeld
    <3> QED BY <1>1, <2>0, <2>3, <3>1, <3>2, StuckRowsType
  <2>4. ASSUME row'[e].id # 0, operator' = row'[e].id PROVE FALSE
    <3>1. row'[e].id = row[e].id
      BY <1>1, <2>0, <2>4, IdStep
    <3>2. operator # row[e].id
      BY <1>1, <2>4, <3>1, WorkIsHeld
    <3>3. \/ UNCHANGED operator \/ operator' = 0
          \/ \E f \in Events : row[f].status = "dead_letter" /\ operator' = row[f].id
      BY <1>1 DEF vars, Next, Ingest, RequestStep, RequestFails, RequestCrash, CheckExisting,
         ResetExisting, Dispatch, ReduceInline, MarkInline, TakeJob, WorkerStep, ReduceJob,
         MarkJob, SweepNext, ReplayReduce, ReplayMark, RecordFailure, RetentionPrune,
         SweepStart, RetentionRedact, JobFails, ReplayFails, RecordFails, WorkerCrash,
         ReplayRead, Age, ReplayReset
    <3> QED BY <1>1, <2>0, <2>4, <3>1, <3>2, <3>3 DEF IdsUnique
  <2> QED
    BY <2>1, <2>2, <2>3, <2>4 DEF WorkOn, HeldJobs, RunningJobs, SeenBy, Holding
<1>2. IInv /\ [Next]_vars =>
        [\A e \in Events :
          (row[e].status = "processed" /\ row'[e].status = "processed" /\ ~WorkOn(e))
             => ~WorkOn(e)']_vars
  BY <1>1
<1> QED BY <1>2, InitEstablishes, InvariantStep, PTL DEF Spec, NoNewWorkOnProcessed

----------------------------------------------------------------------------
(* The refinement of EventDelivery: a row is inserted, reduced and          *)
(* acknowledged in that order, although the request, the jobs and the sweeps *)
(* work from ids and rows they read earlier.                                *)

\* Nobody works on an event that was never stored.
WorkIsStored ==
    \A e \in Events \ reduced : Untouched(e) =>
        /\ \A j \in HeldJobs : j.ev # e
        /\ \A w \in Workers : \A s \in SeenBy(w) : s.ev # e

DeliveryInv == IInv /\ WorkIsStored

LEMMA DeliveryInvInit == Init => DeliveryInv
<1> SUFFICES ASSUME Init PROVE DeliveryInv
  OBVIOUS
<1>1. \A w \in Workers : SeenBy(w) = {} /\ worker[w].pc = "idle"
  BY DEF Init, SeenBy, Idle
<1>2. HeldJobs = {}
  BY <1>1 DEF HeldJobs, RunningJobs, Init
<1> QED BY <1>1, <1>2, InitEstablishes DEF DeliveryInv, WorkIsStored

LEMMA DeliveryInvStep == DeliveryInv /\ [Next]_vars => DeliveryInv'
<1> SUFFICES ASSUME DeliveryInv, [Next]_vars PROVE DeliveryInv'
  OBVIOUS
<1>0. IInv /\ IInv' /\ WorkIsStored /\ UnreducedKept
  BY InvariantStep DEF DeliveryInv, IInv
<1> SUFFICES ASSUME NEW e \in Events, e \notin reduced', Untouched(e)'
             PROVE  /\ \A j \in HeldJobs' : j.ev # e
                    /\ \A w \in Workers : \A s \in SeenBy(w)' : s.ev # e
  BY <1>0 DEF DeliveryInv, WorkIsStored
<1>1. e \notin reduced
  BY <1>0, ReducedGrows
<1>2. Untouched(e)
  <2>1. ~Replayable(e)'
    BY DEF Untouched, Replayable, NoRow
  <2>2. ~Replayable(e)
    BY <1>0, <2>1, ReplayableKept
  <2> QED BY <1>0, <1>1, <2>2 DEF UnreducedKept
<1>3. ASSUME NEW j \in HeldJobs', j.ev = e PROVE FALSE
  <2>1. JobFrom(j)
    BY <1>0, JobSteps
  <2> QED BY <1>0, <1>1, <1>2, <1>3, <2>1 DEF JobFrom, WorkIsStored, Untouched
<1>4. ASSUME NEW w \in Workers, NEW s \in SeenBy(w)', s.ev = e PROVE FALSE
  <2>1. s \in SeenBy(w) \/ s \in StuckRows
    BY <1>0, WorkerSteps DEF WorkerTo
  <2>2. s \notin SeenBy(w)
    BY <1>0, <1>1, <1>2, <1>4 DEF WorkIsStored
  <2>3. LedgerTypeOK
    BY <1>0 DEF IInv
  <2>4. row[e].status = "received"
    BY <1>4, <2>1, <2>2, <2>3, StuckRowsType
  <2> QED BY <1>2, <2>4 DEF Untouched, NoRow
<1> QED BY <1>3, <1>4

(* What a step is to the delivery of events: the storing of one, the        *)
(* reduction of one by whoever works on it, the answer to a request, or     *)
(* nothing.                                                                 *)
InProgress(e) == \E r \in Requests : request[r].ev = e /\ request[r].pc # "idle"

WorkedOn(e) ==
    \/ InProgress(e)
    \/ \E j \in HeldJobs : j.ev = e
    \/ \E w \in Workers : \E s \in SeenBy(w) : s.ev = e

IngestOf(e) ==
    /\ UNCHANGED <<reduced, acked>>
    /\ \A f \in Events : f # e => row'[f] = row[f]

ReductionOf(e) ==
    /\ WorkedOn(e)
    /\ reduced' = reduced \cup {e}
    /\ UNCHANGED <<row, acked>>

NoReduction ==
    /\ UNCHANGED reduced
    /\ used'.deliveries = used.deliveries
    /\ \/ UNCHANGED acked
       \/ \E e \in Events : InProgress(e) /\ acked' = acked \cup {e}

LEMMA SpendKeepsDeliveries ==
    ASSUME LedgerTypeOK, NEW what \in {"failures", "crashes", "replays"}, NEW max,
           Spend(what, max)
    PROVE  used'.deliveries = used.deliveries
BY DEF LedgerTypeOK, Spend

LEMMA DeliverySteps ==
    ASSUME IInv, [Next]_vars
    PROVE  \/ \E e \in Events : IngestOf(e)
           \/ \E e \in Events : ReductionOf(e)
           \/ NoReduction
<1> DEFINE Goal == \/ \E e \in Events : IngestOf(e)
                   \/ \E e \in Events : ReductionOf(e)
                   \/ NoReduction
<1>0. LedgerTypeOK /\ row = [e \in Events |-> row[e]]
      /\ \A r \in Requests : request[r].ev \in Events
  BY DEF IInv, LedgerTypeOK, RequestType
<1>1. ASSUME NEW r \in Requests, NEW e \in Events, Ingest(r, e) PROVE Goal
  <2>1. IngestOf(e)
    BY <1>0, <1>1 DEF Ingest, IngestOf
  <2> QED BY <2>1
<1>2. ASSUME NEW r \in Requests, ReduceInline(r) PROVE Goal
  <2>1. WorkedOn(request[r].ev) /\ request[r].ev \in Events
    BY <1>0, <1>2 DEF ReduceInline, WorkedOn, InProgress
  <2>2. reduced' = reduced \cup {request[r].ev} /\ UNCHANGED <<row, acked>>
    BY <1>2 DEF ReduceInline
  <2> QED BY <2>1, <2>2 DEF ReductionOf
<1>3. ASSUME NEW w \in Workers, ReduceJob(w) PROVE Goal
  <2>1. worker[w].job \in JobType /\ worker[w].job \in HeldJobs
    BY <1>0, <1>3, WorkerLocals DEF ReduceJob
  <2>2. WorkedOn(worker[w].job.ev) /\ worker[w].job.ev \in Events
    BY <2>1 DEF WorkedOn, JobType
  <2>3. reduced' = reduced \cup {worker[w].job.ev} /\ UNCHANGED <<row, acked>>
    BY <1>3 DEF ReduceJob
  <2> QED BY <2>2, <2>3 DEF ReductionOf
<1>4. ASSUME NEW w \in Workers, ReplayReduce(w) PROVE Goal
  <2>1. worker[w].seen \in SeenBy(w) /\ worker[w].seen \in SeenType
    BY <1>0, <1>4, WorkerLocals DEF ReplayReduce
  <2>2. WorkedOn(worker[w].seen.ev) /\ worker[w].seen.ev \in Events
    BY <2>1 DEF WorkedOn, SeenType
  <2>3. reduced' = reduced \cup {worker[w].seen.ev} /\ UNCHANGED <<row, acked>>
    BY <1>4 DEF ReplayReduce
  <2> QED BY <2>2, <2>3 DEF ReductionOf
<1>5. ASSUME UNCHANGED <<reduced, used, acked>> PROVE Goal
  BY <1>5 DEF NoReduction
<1>6. ASSUME NEW what \in {"failures", "crashes", "replays"}, NEW max, Spend(what, max),
             UNCHANGED <<reduced, acked>>
      PROVE  Goal
  BY <1>0, <1>6, SpendKeepsDeliveries DEF NoReduction
<1>7. ASSUME NEW r \in Requests, CheckExisting(r) \/ Dispatch(r) \/ MarkInline(r) PROVE Goal
  <2>1. InProgress(request[r].ev)
    BY <1>7 DEF CheckExisting, Dispatch, MarkInline, InProgress
  <2>2. acked' \in {acked, acked \cup {request[r].ev}} /\ UNCHANGED <<reduced, used>>
    BY <1>7 DEF CheckExisting, Dispatch, MarkInline
  <2> QED BY <1>0, <2>1, <2>2 DEF NoReduction
<1> HIDE DEF Goal
<1>8. ASSUME NEW r \in Requests, ResetExisting(r) PROVE Goal
  BY <1>5, <1>8 DEF ResetExisting
<1>9. ASSUME NEW r \in Requests, RequestFails(r) \/ RequestCrash(r) PROVE Goal
  BY <1>6, <1>9 DEF RequestFails, RequestCrash, Fails
<1>10. ASSUME NEW w \in Workers,
              \/ MarkJob(w) \/ SweepNext(w) \/ ReplayMark(w) \/ RecordFailure(w)
              \/ RetentionPrune(w) \/ SweepStart(w) \/ RetentionRedact(w)
       PROVE  Goal
  BY <1>5, <1>10 DEF MarkJob, SweepNext, ReplayMark, RecordFailure, RetentionPrune,
     SweepStart, RetentionRedact
<1>11. ASSUME NEW w \in Workers,
              JobFails(w) \/ ReplayFails(w) \/ RecordFails(w) \/ WorkerCrash(w)
       PROVE  Goal
  BY <1>6, <1>11 DEF JobFails, ReplayFails, RecordFails, WorkerCrash, Fails
<1>12. ASSUME NEW w \in Workers, NEW j \in jobs, TakeJob(w, j) PROVE Goal
  BY <1>5, <1>12 DEF TakeJob
<1>13. ASSUME NEW e \in Events, ReplayRead(e) \/ Age(e) PROVE Goal
  BY <1>5, <1>6, <1>13 DEF ReplayRead, Age
<1>14. ReplayReset => Goal
  BY <1>5 DEF ReplayReset
<1>15. UNCHANGED vars => Goal
  BY <1>5 DEF vars
<1>16. Goal
  BY <1>1, <1>2, <1>3, <1>4, <1>7, <1>8, <1>9, <1>10, <1>11, <1>12, <1>13, <1>14, <1>15
     DEF Next, RequestStep, WorkerStep
<1> QED BY <1>16 DEF Goal

\* An event somebody works on has been stored.
LEMMA WorkedOnIsStored ==
    ASSUME DeliveryInv, NEW e \in Events, WorkedOn(e)
    PROVE  Stage[e] # "new"
<1>1. CASE e \in reduced
  BY <1>1 DEF Stage
<1>2. CASE e \notin reduced
  <2>1. ~Untouched(e)
    BY <1>2 DEF DeliveryInv, WorkIsStored, WorkedOn, InProgress, Untouched
  <2>2. Replayable(e)
    BY <1>2, <2>1 DEF DeliveryInv, IInv, UnreducedKept
  <2> QED BY <1>2, <2>2 DEF Stage, Unfinished, Replayable
<1> QED BY <1>1, <1>2

\* A step moves the stage of an event by storing it or reducing it.
LEMMA StageStep ==
    ASSUME DeliveryInv, [Next]_vars, NEW e \in Events
    PROVE  \/ Stage'[e] = Stage[e]
           \/ Stored(e) /\ Stage[e] = "new" /\ Stage'[e] = "kept"
           \/ e \in reduced' \ reduced /\ Stage'[e] = "done"
<1>0. IInv /\ UnreducedKept /\ LedgerTypeOK
  BY DEF DeliveryInv, IInv
<1>1. reduced \subseteq reduced'
  BY <1>0, ReducedGrows
<1>2. CASE e \in reduced'
  BY <1>1, <1>2 DEF Stage
<1>3. CASE e \notin reduced'
  <2>1. e \notin reduced
    BY <1>1, <1>3
  <2>2. CASE Replayable(e)
    <3>1. Replayable(e)'
      BY <1>0, <1>3, <2>2, ReplayableKept
    <3> QED BY <1>3, <2>1, <2>2, <3>1 DEF Stage, Unfinished, Replayable
  <2>3. CASE Untouched(e)
    <3>1. row[e] = NoRow /\ row[e] \notin RowType /\ Stage[e] = "new"
      BY <2>1, <2>3, LedgerAssumption
      DEF LedgerAssumption, Untouched, NoRow, RowType, Stage, Unfinished
    <3>2. CASE Stored(e)
      BY <1>3, <3>1, <3>2 DEF Stored, Stage, Unfinished
    <3>3. CASE ~Stored(e)
      <4>1. row'[e] = NoRow
        <5>1. Redacted(NoRow) = NoRow /\ Pruned(NoRow) = NoRow
          BY DEF Redacted, Pruned, NoRow
        <5>2. RowStep(e)
          BY <1>0, RowSteps
        <5> QED BY <3>1, <3>3, <5>1, <5>2 DEF RowStep
      <4> QED BY <1>3, <3>1, <4>1 DEF Stage, Unfinished, NoRow
    <3> QED BY <3>2, <3>3
  <2> QED BY <1>0, <2>1, <2>2, <2>3 DEF UnreducedKept
<1> QED BY <1>2, <1>3

\* The stages are a function on the events, before and after.
LEMMA StageFunction == Stage = [e \in Events |-> Stage[e]] /\ Stage' = [e \in Events |-> Stage'[e]]
BY DEF Stage

\* Every step of the ledger is a step of the delivery, or none.
LEMMA RefinesStep ==
    ASSUME DeliveryInv, [Next]_vars
    PROVE  [Delivery!DeliveryNext]_<<Stage, acked>>
<1>0. IInv /\ LedgerTypeOK
  BY DEF DeliveryInv, IInv
<1>1. ASSUME NEW e \in Events, IngestOf(e) PROVE [Delivery!DeliveryNext]_<<Stage, acked>>
  <2>1. \A f \in Events : f # e => Stage'[f] = Stage[f]
    <3>1. \A f \in Events : f # e => ~Stored(f) /\ f \notin reduced' \ reduced
      BY <1>1 DEF IngestOf, Stored, NoRow
    <3> QED BY <3>1, StageStep
  <2>2. CASE Stage'[e] = Stage[e]
    <3>1. Stage' = Stage
      BY <2>1, <2>2, StageFunction
    <3> QED BY <1>1, <3>1 DEF IngestOf
  <2>3. CASE Stage[e] = "new" /\ Stage'[e] = "kept"
    <3>1. Stage' = [Stage EXCEPT ![e] = "kept"]
      BY <2>1, <2>3, StageFunction
    <3>2. Delivery!Keep(e)
      BY <1>1, <2>3, <3>1 DEF IngestOf, Delivery!Keep
    <3> QED BY <3>2 DEF Delivery!DeliveryNext
  <2>4. e \notin reduced' \ reduced
    BY <1>1 DEF IngestOf
  <2> QED BY <2>2, <2>3, <2>4, StageStep
<1>2. ASSUME NEW e \in Events, ReductionOf(e) PROVE [Delivery!DeliveryNext]_<<Stage, acked>>
  <2>1. \A f \in Events : f # e => Stage'[f] = Stage[f]
    BY <1>2 DEF ReductionOf, Stage
  <2>2. Stage'[e] = "done"
    BY <1>2 DEF ReductionOf, Stage
  <2>3. Stage' = [Stage EXCEPT ![e] = "done"]
    BY <2>1, <2>2, StageFunction
  <2>4. Stage[e] # "new"
    BY <1>2, WorkedOnIsStored DEF ReductionOf
  <2>5. Delivery!Reduce(e)
    BY <1>2, <2>3, <2>4 DEF ReductionOf, Delivery!Reduce
  <2> QED BY <2>5 DEF Delivery!DeliveryNext
<1>3. ASSUME NoReduction PROVE [Delivery!DeliveryNext]_<<Stage, acked>>
  <2>1. \A f \in Events : ~Stored(f)
    BY <1>0, <1>3, CountersStep DEF NoReduction, Stored
  <2>2. \A f \in Events : Stage'[f] = Stage[f]
    BY <1>3, <2>1, StageStep DEF NoReduction
  <2>3. Stage' = Stage
    BY <2>2, StageFunction
  <2>4. CASE UNCHANGED acked
    BY <2>3, <2>4
  <2>5. ASSUME NEW e \in Events, InProgress(e), acked' = acked \cup {e}
        PROVE  [Delivery!DeliveryNext]_<<Stage, acked>>
    <3>1. Stage[e] # "new"
      BY <2>5, WorkedOnIsStored DEF WorkedOn
    <3>2. Delivery!Acknowledge(e)
      BY <2>3, <2>5, <3>1 DEF Delivery!Acknowledge
    <3> QED BY <3>2 DEF Delivery!DeliveryNext
  <2> QED BY <1>3, <2>4, <2>5 DEF NoReduction
<1> QED BY <1>0, <1>1, <1>2, <1>3, DeliverySteps

\* The ledger implements the delivery the reducing modules are built on: an event
\* is stored before anything happens to it, is never dropped before it is reduced,
\* and is acknowledged only when stored (webhook-ingestion.service.ts and the sweeps).
THEOREM LedgerImplementsDelivery == Spec => ImplementsDelivery
<1>1. Init => Delivery!DeliveryInit
  <2> SUFFICES ASSUME Init PROVE Delivery!DeliveryInit
    OBVIOUS
  <2>1. Stage = [e \in Events |-> "new"]
    BY DEF Init, Stage, Unfinished, NoRow
  <2> QED BY <2>1 DEF Init, Delivery!DeliveryInit
<1>2. DeliveryInv /\ [Next]_vars => [Delivery!DeliveryNext]_Delivery!deliveryVars
  BY RefinesStep DEF Delivery!deliveryVars
<1> QED
  BY <1>1, <1>2, DeliveryInvInit, DeliveryInvStep, PTL
  DEF Spec, ImplementsDelivery, Delivery!DeliverySpec

----------------------------------------------------------------------------
(* The billing of the mock server: what its rows look like and the         *)
(* inductive invariant.                                                    *)

Modes == {"fixed", "usage"}
SubRow ==
    [user : Payers, plan : Plans, provider : PaymentProviders, mode : Modes,
     status : OPEN \cup {"canceled"}, start : Nat, end : Nat, cancelAtEnd : BOOLEAN,
     attempts : Nat, method : Nat]
InvoiceRow ==
    [user : Payers, sub : Nat, amount : Nat, status : {"paid", "refunded"}, mode : Modes,
     product : Products \cup {Nil}, refunded : Nat]
MethodRow == [user : Payers, default : BOOLEAN]
GrantRow == [invoice : Nat, revoked : BOOLEAN, entitlement : {"reports"}, expires : Nat]
PurchaseRow == [user : Payers, product : Products, amount : Nat]
UsageRow == [sub : Nat, meter : Meters, at : Nat]

BillingTyped ==
    /\ customer \in [Payers -> CustomerRow \cup {Nil}] /\ credits \in [Payers -> Int]
    /\ subs \in Seq(SubRow) /\ invoices \in Seq(InvoiceRow) /\ methods \in Seq(MethodRow)
    /\ purchased \subseteq GrantRow /\ sessions \in Seq(PurchaseRow)
    /\ usage \in Seq(UsageRow) /\ rated \in Seq(Nat) /\ Len(rated) = Len(usage)
    /\ now \in Nat

(* Who has a row, a purchase under way or a grant is a customer.           *)
RowsHaveCustomers ==
    /\ \A i \in DOMAIN subs : customer[subs[i].user] # Nil
    /\ \A s \in DOMAIN sessions : customer[sessions[s].user] # Nil
    /\ \A g \in purchased :
          g.invoice \in DOMAIN invoices /\ customer[invoices[g.invoice].user] # Nil
    /\ \A k \in DOMAIN invoices : invoices[k].sub \in 0..Len(subs)

Closed(i) == subs[i].status = "canceled"
OneIsOpen ==
    \A i, j \in DOMAIN subs :
        subs[i].user = subs[j].user => i = j \/ Closed(i) \/ Closed(j)

(* The ladder of an open row has a rung left.                              *)
LadderOf(x) ==
    x.attempts <= IF x.status = "canceled" THEN DunningMaxAttempts
                  ELSE DunningMaxAttempts - 1
LaddersGoOn == \A i \in DOMAIN subs : LadderOf(subs[i])

(* A record that was rated lies before the period of its row.              *)
RatedAreBefore ==
    /\ \A i \in DOMAIN subs : subs[i].start <= now
    /\ \A r \in DOMAIN usage :
          /\ usage[r].sub \in DOMAIN subs
          /\ rated[r] <= 1
          /\ rated[r] = 1 => usage[r].at < subs[usage[r].sub].start

RefundsWithin == \A k \in DOMAIN invoices : invoices[k].refunded <= invoices[k].amount

BillingInv ==
    /\ BillingTyped /\ RowsHaveCustomers /\ OneIsOpen /\ LaddersGoOn
    /\ RatedAreBefore /\ RefundsWithin

----------------------------------------------------------------------------
(* The catalog, greatest and least elements, and the newest row. *)

LEMMA PlanIs ==
    ASSUME NEW p \in Plans \cup {"free"}
    PROVE  /\ PlanCatalog[p].mode \in Modes
           /\ PlanCatalog[p].price \in Nat /\ PlanCatalog[p].unit \in Nat
<1>1. p \in {"free", "pro", "business", "usage"}
  BY MockBillingAssumption DEF MockBillingAssumption
<1> QED BY <1>1 DEF PlanCatalog, Modes

LEMMA ProductIs ==
    ASSUME NEW p \in Products
    PROVE  /\ ProductCatalog[p].amounts \subseteq Nat
           /\ ProductCatalog[p].type = "sku" => ProductCatalog[p].entitlement = "reports"
           /\ ProductCatalog[p].days \in Nat /\ ProductCatalog[p].credits \in Nat
<1>1. p \in {"pack", "donation", "credits"}
  BY MockBillingAssumption DEF MockBillingAssumption
<1> QED BY <1>1 DEF ProductCatalog

LEMMA LeastOf ==
    ASSUME NEW S, S \subseteq Nat, S # {}
    PROVE  \E n \in S : \A s \in S : n <= s
<1> DEFINE less == OpToRel(<, Nat)
<1>1. IsWellFoundedOn(less, Nat)
  BY NatLessThanWellFounded
<1>2. \A a, b \in Nat : a < b => <<a, b>> \in less
  BY DEF OpToRel
<1> HIDE DEF less
<1>3. PICK n \in S : \A s \in S : ~(<<s, n>> \in less)
  BY <1>1, WFMin
<1>4. \A s \in S : ~(s < n)
  BY <1>2, <1>3
<1>5. \A s \in S : n <= s
  BY <1>4
<1> QED BY <1>3, <1>5

LEMMA MinIs ==
    ASSUME NEW S, S \subseteq Nat, S # {}
    PROVE  Min(S) \in S
<1>1. \E n \in S : \A s \in S : n =< s
  BY LeastOf
<1> QED BY <1>1 DEF Min

LEMMA MaxIs ==
    ASSUME NEW n \in Nat, NEW S, S \subseteq 0..n, S # {}
    PROVE  Max(S) \in S /\ \A s \in S : s <= Max(S)
<1> DEFINE R == {n - s : s \in S}
<1>1. R \subseteq Nat
  OBVIOUS
<1>2. R # {}
  OBVIOUS
<1>3. PICK r \in R : \A x \in R : r <= x
  <2> HIDE DEF R
  <2> QED BY <1>1, <1>2, LeastOf
<1>4. PICK m \in S : r = n - m
  BY <1>3
<1>5. \A s \in S : m >= s
  <2> SUFFICES ASSUME NEW s \in S PROVE m >= s
    OBVIOUS
  <2>1. n - s \in R /\ s \in 0..n /\ m \in 0..n
    OBVIOUS
  <2>2. n - m <= n - s
    BY <1>3, <1>4, <2>1
  <2> QED BY <2>1, <2>2
<1>6. \E x \in S : \A y \in S : x >= y
  BY <1>4, <1>5
<1>7. Max(S) \in S /\ \A y \in S : Max(S) >= y
  BY <1>6 DEF Max
<1> QED BY <1>7

LEMMA TwoOf ==
    ASSUME NEW a \in Int, NEW b \in Int
    PROVE  /\ Max({a, b}) \in {a, b} /\ Max({a, b}) >= a /\ Max({a, b}) >= b
           /\ Min({a, b}) \in {a, b} /\ Min({a, b}) <= a /\ Min({a, b}) <= b
<1>1. \E x \in {a, b} : \A y \in {a, b} : x >= y
  OBVIOUS
<1>2. \E x \in {a, b} : \A y \in {a, b} : x =< y
  OBVIOUS
<1>3. Max({a, b}) \in {a, b} /\ \A y \in {a, b} : Max({a, b}) >= y
  BY <1>1 DEF Max
<1>4. Min({a, b}) \in {a, b} /\ \A y \in {a, b} : Min({a, b}) =< y
  BY <1>2 DEF Min
<1> QED BY <1>3, <1>4

NewestOf(rows, u, statuses) ==
    Max({0} \cup {i \in DOMAIN rows : rows[i].user = u /\ rows[i].status \in statuses})

LEMMA NewestIs ==
    ASSUME NEW rows \in Seq(SubRow), NEW u, NEW statuses
    PROVE  LET n == NewestOf(rows, u, statuses)
           IN  \/ n = 0 /\ \A i \in DOMAIN rows : ~(rows[i].user = u /\ rows[i].status \in statuses)
               \/ n \in DOMAIN rows /\ rows[n].user = u /\ rows[n].status \in statuses
<1> DEFINE S == {i \in DOMAIN rows : rows[i].user = u /\ rows[i].status \in statuses}
<1>1. DOMAIN rows = 1..Len(rows) /\ Len(rows) \in Nat
  OBVIOUS
<1>2. {0} \cup S \subseteq 0..Len(rows) /\ {0} \cup S # {}
  BY <1>1
<1>3. \A i \in S : i \in DOMAIN rows /\ rows[i].user = u /\ rows[i].status \in statuses
  OBVIOUS
<1>4. \A i \in DOMAIN rows : rows[i].user = u /\ rows[i].status \in statuses => i \in S
  OBVIOUS
<1>5. NewestOf(rows, u, statuses) = Max({0} \cup S)
  BY DEF NewestOf
<1> HIDE DEF S
<1>6. /\ Max({0} \cup S) \in {0} \cup S
      /\ \A s \in {0} \cup S : s <= Max({0} \cup S)
  BY <1>1, <1>2, MaxIs
<1>7. CASE Max({0} \cup S) = 0
  <2>1. \A s \in S : s <= 0
    BY <1>6, <1>7
  <2>2. S = {}
    BY <1>1, <1>3, <2>1
  <2> QED BY <1>4, <1>5, <1>7, <2>2
<1>8. CASE Max({0} \cup S) # 0
  BY <1>3, <1>5, <1>6, <1>8
<1> QED BY <1>7, <1>8

----------------------------------------------------------------------------
(* What a step does to the subscriptions. *)

(* A row keeps its user, starts a period only now and is not reopened.     *)
Becomes(x, y) ==
    /\ y.user = x.user /\ y.start \in {x.start, now} /\ LadderOf(y)
    /\ y.status # "canceled" => x.status # "canceled"

(* A row that gives its user a plan gave it before, or he is told.         *)
ToldOf(x, y) ==
    y.status \in ENTITLED =>
        \/ y.user \in pushed'
        \/ x.status \in ENTITLED /\ y.plan = x.plan

(* A new row is the only open one of its user.                             *)
SubsMove ==
    /\ subs' \in Seq(SubRow) /\ DOMAIN subs \subseteq DOMAIN subs'
    /\ \A i \in DOMAIN subs : Becomes(subs[i], subs'[i]) /\ ToldOf(subs[i], subs'[i])
    /\ \A i \in DOMAIN subs' \ DOMAIN subs :
          /\ subs'[i].start = now /\ LadderOf(subs'[i]) /\ customer'[subs'[i].user] # Nil
          /\ subs'[i].status \in ENTITLED => subs'[i].user \in pushed'
          /\ \A j \in DOMAIN subs' :
                j = i \/ subs'[j].user # subs'[i].user \/ subs'[j].status = "canceled"

LEMMA RowsAre ==
    ASSUME BillingInv, NEW i \in DOMAIN subs
    PROVE  /\ subs[i] \in SubRow /\ LadderOf(subs[i]) /\ i \in Nat /\ i # 0
           /\ subs[i].start <= now /\ now \in Nat
<1>1. subs \in Seq(SubRow) /\ now \in Nat
  BY DEF BillingInv, BillingTyped
<1>2. DOMAIN subs = 1..Len(subs) /\ Len(subs) \in Nat /\ subs[i] \in SubRow
  BY <1>1, ElementOfSeq
<1> QED BY <1>1, <1>2 DEF BillingInv, LaddersGoOn, Closed, LadderOf, RatedAreBefore

LEMMA SameSubs ==
    ASSUME BillingInv, subs' = subs
    PROVE  SubsMove
<1>1. subs \in Seq(SubRow)
  BY DEF BillingInv, BillingTyped
<1> QED BY <1>1, RowsAre DEF SubsMove, Becomes, ToldOf

LEMMA OneRow ==
    ASSUME BillingInv, NEW i \in DOMAIN subs, NEW x \in SubRow,
           Becomes(subs[i], x), ToldOf(subs[i], x), subs' = [subs EXCEPT ![i] = x]
    PROVE  SubsMove
<1>1. subs \in Seq(SubRow)
  BY DEF BillingInv, BillingTyped
<1>2. /\ subs' \in Seq(SubRow) /\ DOMAIN subs' = DOMAIN subs
      /\ subs'[i] = x /\ \A j \in DOMAIN subs : j # i => subs'[j] = subs[j]
  BY <1>1
<1>3. ASSUME NEW j \in DOMAIN subs
      PROVE  Becomes(subs[j], subs'[j]) /\ ToldOf(subs[j], subs'[j])
  <2>1. CASE j = i
    BY <1>2, <2>1 DEF Becomes, ToldOf
  <2>2. CASE j # i
    BY <1>2, <2>2, RowsAre DEF Becomes, ToldOf
  <2> QED BY <2>1, <2>2
<1> QED BY <1>2, <1>3 DEF SubsMove

LEMMA NewRow ==
    ASSUME BillingInv, NEW x \in SubRow, x.start = now, LadderOf(x), customer'[x.user] # Nil,
           x.status \in ENTITLED => x.user \in pushed',
           \A j \in DOMAIN subs : subs[j].user # x.user \/ subs[j].status = "canceled",
           subs' = Append(subs, x)
    PROVE  SubsMove
<1>1. subs \in Seq(SubRow)
  BY DEF BillingInv, BillingTyped
<1>2. /\ subs' \in Seq(SubRow) /\ DOMAIN subs' = DOMAIN subs \cup {Len(subs) + 1}
      /\ Len(subs) + 1 \notin DOMAIN subs
      /\ subs'[Len(subs) + 1] = x /\ \A j \in DOMAIN subs : subs'[j] = subs[j]
  BY <1>1
<1>3. ASSUME NEW j \in DOMAIN subs
      PROVE  Becomes(subs[j], subs'[j]) /\ ToldOf(subs[j], subs'[j])
  BY <1>2, RowsAre DEF Becomes, ToldOf
<1> QED BY <1>2, <1>3 DEF SubsMove

LEMMA CustomerIs ==
    ASSUME BillingInv, NEW u \in Payers
    PROVE  /\ CustomerOf(u) \in CustomerRow /\ CustomerOf(u) # Nil
           /\ effectiveProvider(CustomerOf(u), u) \in PaymentProviders
           /\ customer[u] = Nil => CustomerOf(u).default = 0
           /\ customer[u] # Nil => CustomerOf(u) = customer[u] /\ customer[u] \in CustomerRow
<1>1. customer[u] \in CustomerRow \cup {Nil} /\ Nil \notin CustomerRow
  BY MockBillingAssumption DEF MockBillingAssumption, BillingInv, BillingTyped
<1>2. geoDefault(u) \in PaymentProviders
  BY DEF geoDefault, PaymentProviders
<1>3. CASE customer[u] # Nil
  BY <1>1, <1>2, <1>3 DEF CustomerOf, effectiveProvider, CustomerRow
<1>4. CASE customer[u] = Nil
  <2> DEFINE c == [provider |-> geoDefault(u), override |-> Nil, default |-> 0]
  <2>1. c \in CustomerRow /\ c.override = Nil /\ c.default = 0
    BY <1>2 DEF CustomerRow
  <2>2. CustomerOf(u) = c
    BY <1>4 DEF CustomerOf
  <2> HIDE DEF c
  <2> QED BY <1>1, <1>2, <1>4, <2>1, <2>2 DEF effectiveProvider
<1> QED BY <1>3, <1>4

LEMMA RowIs ==
    ASSUME BillingInv, NEW u \in Payers, NEW p \in Plans, NEW provider \in PaymentProviders,
           NEW status \in OPEN
    PROVE  LET y == Row(u, p, provider, status)
           IN  /\ y \in SubRow /\ y.user = u /\ y.start = now /\ y.status = status
               /\ y.plan = p /\ y.method = 0 /\ y.attempts = 0 /\ LadderOf(y)
<1>1. now + Period \in Nat /\ now \in Nat /\ PlanCatalog[p].mode \in Modes
  BY MockBillingAssumption, PlanIs DEF MockBillingAssumption, BillingInv, BillingTyped
<1>2. status \in OPEN \cup {"canceled"}
  OBVIOUS
<1>3. Row(u, p, provider, status) \in SubRow
  BY <1>1, <1>2 DEF Row, SubRow
<1> QED BY <1>3 DEF Row, LadderOf, DunningMaxAttempts

(* Nothing of u's is open.                                                 *)
NoneOpen(u) == \A i \in DOMAIN subs : subs[i].user # u \/ subs[i].status = "canceled"

LEMMA CurrentIs ==
    ASSUME BillingInv, NEW u
    PROVE  /\ \A statuses : Newest(u, statuses) = NewestOf(subs, u, statuses)
           /\ Newest(u, OPEN) = 0 => NoneOpen(u)
           /\ Newest(u, OPEN) # 0 => /\ Newest(u, OPEN) \in DOMAIN subs
                                     /\ subs[Newest(u, OPEN)].user = u
                                     /\ subs[Newest(u, OPEN)].status \in OPEN
           /\ findCurrentSubscription(u) # 0 => findCurrentSubscription(u) = Newest(u, OPEN)
<1>1. \A statuses : Newest(u, statuses) = NewestOf(subs, u, statuses)
  BY DEF Newest, NewestOf
<1>2. subs \in Seq(SubRow)
  BY DEF BillingInv, BillingTyped
<1>3. \A i \in DOMAIN subs : subs[i].status \in OPEN \cup {"canceled"} /\ i # 0
  BY RowsAre DEF SubRow
<1>4. findCurrentSubscription(u) # 0 => findCurrentSubscription(u) = Newest(u, OPEN)
  BY DEF findCurrentSubscription
<1> QED BY <1>1, <1>2, <1>3, <1>4, NewestIs DEF NoneOpen

LEMMA CheckoutSubs ==
    ASSUME BillingInv, NEW u \in Payers, NEW p \in Plans, Checkout(u, p)
    PROVE  SubsMove
<1> DEFINE pending == {i \in DOMAIN subs : subs[i].user = u /\ subs[i].status = "incomplete"}
           provider == effectiveProvider(CustomerOf(u), u)
           i == Min(pending)
           x == [Row(u, p, provider, "incomplete") EXCEPT !.attempts = subs[i].attempts]
           y == Row(u, p, provider, "incomplete")
<1>1. /\ customer' = [customer EXCEPT ![u] = CustomerOf(u)]
      /\ \/ subs' = subs
         \/ pending # {} /\ subs' = [subs EXCEPT ![i] = x]
         \/ pending = {} /\ Newest(u, ENTITLED) = 0 /\ subs' = Append(subs, y)
         \/ subs' = [j \in DOMAIN subs |->
                        IF pending # {} /\ j = i THEN [subs[j] EXCEPT !.status = "canceled"]
                        ELSE subs[j]]
  BY DEF Checkout
<1>2. provider \in PaymentProviders /\ CustomerOf(u) # Nil
      /\ customer \in [Payers -> CustomerRow \cup {Nil}] /\ subs \in Seq(SubRow)
  BY CustomerIs DEF BillingInv, BillingTyped
<1>3. pending \subseteq Nat
  BY RowsAre
<1>4. ASSUME pending # {}
      PROVE  i \in DOMAIN subs /\ subs[i].user = u /\ subs[i].status = "incomplete"
  <2>1. i \in pending
    <3> HIDE DEF pending
    <3> QED BY <1>3, <1>4, MinIs
  <2> QED BY <2>1
<1> HIDE DEF provider, pending, i
<1>5. "incomplete" \in OPEN /\ "incomplete" \notin ENTITLED /\ "incomplete" # "canceled"
      /\ "canceled" \notin ENTITLED
  BY DEF OPEN, ENTITLED
<1>6. CASE subs' = subs
  BY <1>6, SameSubs
<1>7. CASE pending # {} /\ subs' = [subs EXCEPT ![i] = x]
  <2>1. subs[i].attempts \in Nat /\ subs[i].attempts < DunningMaxAttempts
    BY <1>4, <1>5, <1>7, RowsAre DEF SubRow, LadderOf, DunningMaxAttempts
  <2>2. x \in SubRow /\ x.user = u /\ x.start = now /\ x.status = "incomplete" /\ LadderOf(x)
    <3>1. /\ y \in SubRow /\ y.user = u /\ y.start = now /\ y.status = "incomplete"
          /\ x = [y EXCEPT !.attempts = subs[i].attempts]
      BY <1>2, <1>5, RowIs
    <3> HIDE DEF y
    <3> QED BY <1>5, <2>1, <3>1 DEF SubRow, LadderOf, DunningMaxAttempts
  <2> HIDE DEF x
  <2>3. Becomes(subs[i], x) /\ ToldOf(subs[i], x)
    BY <1>4, <1>5, <1>7, <2>2 DEF Becomes, ToldOf
  <2> QED BY <1>4, <1>7, <2>2, <2>3, OneRow
<1>8. CASE pending = {} /\ Newest(u, ENTITLED) = 0 /\ subs' = Append(subs, y)
  <2>1. y \in SubRow /\ y.user = u /\ y.start = now /\ y.status = "incomplete" /\ LadderOf(y)
    BY <1>2, <1>5, RowIs
  <2> HIDE DEF y
  <2>2. \A j \in DOMAIN subs : ~(subs[j].user = u /\ subs[j].status \in ENTITLED)
    <3>1. NewestOf(subs, u, ENTITLED) = 0
      BY <1>8, CurrentIs
    <3>2. \A j \in DOMAIN subs : j # 0
      BY RowsAre
    <3> QED BY <1>2, <3>1, <3>2, NewestIs
  <2>3. \A j \in DOMAIN subs : ~(subs[j].user = u /\ subs[j].status = "incomplete")
    BY <1>8 DEF pending
  <2>4. \A j \in DOMAIN subs : subs[j].status \in ENTITLED \cup {"incomplete", "canceled"}
    BY RowsAre DEF SubRow, OPEN
  <2>5. customer'[u] # Nil
    BY <1>1, <1>2
  <2> QED BY <1>5, <1>8, <2>1, <2>2, <2>3, <2>4, <2>5, NewRow
<1>9. CASE subs' = [j \in DOMAIN subs |->
                        IF pending # {} /\ j = i THEN [subs[j] EXCEPT !.status = "canceled"]
                        ELSE subs[j]]
  <2>1. CASE pending = {}
    <3>1. subs' = subs
      BY <1>2, <1>9, <2>1
    <3> QED BY <3>1, SameSubs
  <2>2. CASE pending # {}
    <3> DEFINE z == [subs[i] EXCEPT !.status = "canceled"]
    <3>1. subs' = [subs EXCEPT ![i] = z]
      BY <1>2, <1>4, <1>9, <2>2
    <3>2. subs[i] \in SubRow /\ LadderOf(subs[i])
      BY <1>4, <2>2, RowsAre
    <3>3. /\ z \in SubRow /\ z.user = subs[i].user /\ z.start = subs[i].start
          /\ z.status = "canceled" /\ z.attempts = subs[i].attempts
      BY <3>2 DEF SubRow
    <3> HIDE DEF z
    <3>4. Becomes(subs[i], z) /\ ToldOf(subs[i], z)
      <4>1. z.attempts \in Nat
        BY <3>3 DEF SubRow
      <4> QED BY <1>5, <3>2, <3>3, <4>1 DEF Becomes, ToldOf, LadderOf, DunningMaxAttempts
    <3> QED BY <1>4, <2>2, <3>1, <3>3, <3>4, OneRow
  <2> QED BY <2>1, <2>2
<1> QED BY <1>1, <1>6, <1>7, <1>8, <1>9

----------------------------------------------------------------------------
(* What a step does to the other tables. *)

(* A customer stays one.                                                   *)
CustomersStay ==
    /\ customer' \in [Payers -> CustomerRow \cup {Nil}]
    /\ \A u \in Payers : customer[u] # Nil => customer'[u] # Nil
    /\ credits' \in [Payers -> Int] /\ methods' \in Seq(MethodRow)
    /\ now' \in Nat /\ now <= now'

(* An invoice keeps whom and what it was for, and a refund its amount.     *)
InvoicesMove ==
    /\ invoices' \in Seq(InvoiceRow) /\ DOMAIN invoices \subseteq DOMAIN invoices'
    /\ \A k \in DOMAIN invoices :
          /\ invoices'[k].user = invoices[k].user /\ invoices'[k].sub = invoices[k].sub
          /\ invoices'[k].refunded <= invoices'[k].amount
    /\ \A k \in DOMAIN invoices' \ DOMAIN invoices :
          invoices'[k].sub \in 0..Len(subs') /\ invoices'[k].refunded <= invoices'[k].amount

SessionsMove ==
    /\ sessions' \in Seq(PurchaseRow)
    /\ \A s \in DOMAIN sessions' : customer'[sessions'[s].user] # Nil

(* A grant is an earlier one, perhaps revoked, or its user is told of it.  *)
GrantsMove ==
    /\ purchased' \subseteq GrantRow
    /\ \A g \in purchased' :
          \/ \E h \in purchased :
                /\ g.invoice = h.invoice /\ g.entitlement = h.entitlement
                /\ g.expires = h.expires /\ (h.revoked => g.revoked)
          \/ /\ g.invoice \in DOMAIN invoices'
             /\ customer'[invoices'[g.invoice].user] # Nil
             /\ invoices'[g.invoice].user \in pushed'

(* A record is rated when its row's period closes over it.                 *)
UsageMoves ==
    /\ usage' \in Seq(UsageRow) /\ rated' \in Seq(Nat) /\ Len(rated') = Len(usage')
    /\ DOMAIN usage \subseteq DOMAIN usage'
    /\ \A r \in DOMAIN usage :
          /\ usage'[r] = usage[r]
          /\ \/ rated'[r] = rated[r]
             \/ /\ rated'[r] = rated[r] + 1 /\ r \in Rated(usage[r].sub)
                /\ subs'[usage[r].sub].start = now
    /\ \A r \in DOMAIN usage' \ DOMAIN usage :
          rated'[r] = 0 /\ usage'[r].sub \in DOMAIN subs

Moves == /\ SubsMove /\ CustomersStay /\ InvoicesMove
         /\ SessionsMove /\ GrantsMove /\ UsageMoves

LEMMA MovesKeepInv ==
    ASSUME BillingInv, Moves
    PROVE  BillingInv'
<1> USE DEF Moves
<1>1. BillingTyped'
  BY DEF BillingTyped, SubsMove, CustomersStay, InvoicesMove, SessionsMove, GrantsMove, UsageMoves
<1>0. /\ subs \in Seq(SubRow) /\ invoices \in Seq(InvoiceRow) /\ usage \in Seq(UsageRow)
      /\ subs' \in Seq(SubRow) /\ rated \in Seq(Nat) /\ now \in Nat /\ Len(rated) = Len(usage)
      /\ invoices' \in Seq(InvoiceRow)
  BY <1>1 DEF BillingInv, BillingTyped
<1>2. RowsHaveCustomers'
  <2>1. ASSUME NEW i \in DOMAIN subs'
        PROVE  customer'[subs'[i].user] # Nil
    <3>1. CASE i \in DOMAIN subs
      <4>1. subs'[i].user = subs[i].user /\ subs[i].user \in Payers /\ customer[subs[i].user] # Nil
        BY <3>1, RowsAre DEF BillingInv, RowsHaveCustomers, SubsMove, Becomes, SubRow
      <4> QED BY <4>1 DEF CustomersStay
    <3>2. CASE i \notin DOMAIN subs
      BY <3>2 DEF SubsMove
    <3> QED BY <3>1, <3>2
  <2>2. \A s \in DOMAIN sessions' : customer'[sessions'[s].user] # Nil
    BY DEF SessionsMove
  <2>3. ASSUME NEW g \in purchased'
        PROVE  g.invoice \in DOMAIN invoices' /\ customer'[invoices'[g.invoice].user] # Nil
    <3>1. ASSUME NEW h \in purchased, g.invoice = h.invoice
          PROVE  g.invoice \in DOMAIN invoices' /\ customer'[invoices'[g.invoice].user] # Nil
      <4>1. h.invoice \in DOMAIN invoices /\ customer[invoices[h.invoice].user] # Nil
        BY DEF BillingInv, RowsHaveCustomers
      <4>2. invoices[h.invoice] \in InvoiceRow
        BY <1>0, <4>1, ElementOfSeq
      <4> QED BY <3>1, <4>1, <4>2 DEF InvoicesMove, CustomersStay, InvoiceRow
    <3> QED BY <3>1 DEF GrantsMove
  <2>4. ASSUME NEW k \in DOMAIN invoices'
        PROVE  invoices'[k].sub \in 0..Len(subs')
    <3>1. Len(subs) <= Len(subs') /\ Len(subs) \in Nat /\ Len(subs') \in Nat
      <4>1. DOMAIN subs = 1..Len(subs) /\ DOMAIN subs' = 1..Len(subs')
            /\ Len(subs) \in Nat /\ Len(subs') \in Nat
        BY <1>0
      <4>2. DOMAIN subs \subseteq DOMAIN subs'
        BY DEF SubsMove
      <4> QED BY <4>1, <4>2
    <3>2. CASE k \in DOMAIN invoices
      BY <3>1, <3>2 DEF InvoicesMove, BillingInv, RowsHaveCustomers
    <3>3. CASE k \notin DOMAIN invoices
      BY <3>3 DEF InvoicesMove
    <3> QED BY <3>2, <3>3
  <2> QED BY <2>1, <2>2, <2>3, <2>4 DEF RowsHaveCustomers
<1>3. OneIsOpen'
  <2> SUFFICES ASSUME NEW i \in DOMAIN subs', NEW j \in DOMAIN subs', i # j,
                      subs'[i].user = subs'[j].user
               PROVE  subs'[i].status = "canceled" \/ subs'[j].status = "canceled"
    BY DEF OneIsOpen, Closed
  <2>1. CASE i \in DOMAIN subs /\ j \in DOMAIN subs
    BY <2>1 DEF SubsMove, Becomes, BillingInv, OneIsOpen, Closed
  <2>2. CASE i \notin DOMAIN subs
    BY <2>2 DEF SubsMove
  <2>3. CASE j \notin DOMAIN subs
    BY <2>3 DEF SubsMove
  <2> QED BY <2>1, <2>2, <2>3
<1>4. LaddersGoOn'
  <2>1. \A i \in DOMAIN subs' : LadderOf(subs'[i])
    BY DEF SubsMove, Becomes
  <2> QED BY <2>1 DEF LaddersGoOn, LadderOf, Closed
<1>5. RatedAreBefore'
  <2>1. \A i \in DOMAIN subs' : subs'[i].start <= now'
    <3> SUFFICES ASSUME NEW i \in DOMAIN subs'
                 PROVE  subs'[i].start <= now'
      OBVIOUS
    <3>1. now \in Nat /\ now' \in Nat /\ now <= now'
      BY <1>0 DEF CustomersStay
    <3>2. CASE i \in DOMAIN subs
      <4>1. subs[i].start <= now /\ subs[i].start \in Nat /\ subs'[i].start \in {subs[i].start, now}
        BY <3>2, RowsAre DEF SubRow, SubsMove, Becomes
      <4> QED BY <3>1, <4>1
    <3>3. CASE i \notin DOMAIN subs
      BY <3>1, <3>3 DEF SubsMove
    <3> QED BY <3>2, <3>3
  <2>2. ASSUME NEW r \in DOMAIN usage'
        PROVE  /\ usage'[r].sub \in DOMAIN subs'
               /\ rated'[r] <= 1
               /\ rated'[r] = 1 => usage'[r].at < subs'[usage'[r].sub].start
    <3>1. CASE r \in DOMAIN usage
      <4> DEFINE s == usage[r].sub
      <4>1. /\ s \in DOMAIN subs /\ rated[r] <= 1
            /\ rated[r] = 1 => usage[r].at < subs[s].start
        BY <3>1 DEF BillingInv, RatedAreBefore
      <4>2. usage[r].at \in Nat /\ rated[r] \in Nat
        <5>1. usage[r] \in UsageRow
          BY <1>0, <3>1, ElementOfSeq
        <5>2. r \in DOMAIN rated
          BY <1>0, <3>1
        <5>3. rated[r] \in Nat
          BY <1>0, <5>2, ElementOfSeq
        <5> QED BY <5>1, <5>3 DEF UsageRow
      <4>3. subs[s].start <= now /\ subs[s].start \in Nat /\ now \in Nat
        BY <4>1, RowsAre DEF SubRow
      <4>4. s \in DOMAIN subs' /\ subs'[s].start \in {subs[s].start, now}
        BY <4>1 DEF SubsMove, Becomes
      <4>5. usage'[r] = usage[r]
        BY <3>1 DEF UsageMoves
      <4>6. CASE rated'[r] = rated[r]
        BY <4>1, <4>2, <4>3, <4>4, <4>5, <4>6
      <4>7. CASE rated'[r] = rated[r] + 1 /\ r \in Rated(s) /\ subs'[s].start = now
        <5>1. usage[r].at >= subs[s].start /\ usage[r].at < now
          BY <4>7 DEF Rated
        <5>2. rated[r] # 1
          BY <4>1, <4>2, <4>3, <5>1
        <5>3. rated[r] = 0
          BY <4>1, <4>2, <5>2
        <5> QED BY <4>4, <4>5, <4>7, <5>1, <5>3
      <4> QED BY <3>1, <4>6, <4>7 DEF UsageMoves
    <3>2. CASE r \notin DOMAIN usage
      BY <3>2 DEF UsageMoves, SubsMove
    <3> QED BY <3>1, <3>2
  <2> QED BY <2>1, <2>2 DEF RatedAreBefore
<1>6. RefundsWithin'
  BY DEF RefundsWithin, InvoicesMove
<1> QED BY <1>1, <1>2, <1>3, <1>4, <1>5, <1>6 DEF BillingInv

LEMMA MovesPush ==
    ASSUME BillingInv, Moves, NEW u \in Payers, u \notin pushed'
    PROVE  resolveEntitlements(u)' \subseteq resolveEntitlements(u)
<1> USE DEF Moves
<1>1. subs \in Seq(SubRow) /\ subs' \in Seq(SubRow) /\ invoices \in Seq(InvoiceRow)
  BY DEF SubsMove, BillingInv, BillingTyped
<1>2. PlanCatalog["free"].capabilities = {}
  BY DEF PlanCatalog
<1>3. PlanInForce(u)' \in {"free", PlanInForce(u)}
  <2> DEFINE n == NewestOf(subs', u, ENTITLED)
             m == NewestOf(subs, u, ENTITLED)
  <2>1. PlanInForce(u)' = IF customer'[u] # Nil /\ n # 0 THEN subs'[n].plan ELSE "free"
    BY DEF PlanInForce, Newest, NewestOf
  <2>2. PlanInForce(u) = IF customer[u] # Nil /\ m # 0 THEN subs[m].plan ELSE "free"
    BY DEF PlanInForce, Newest, NewestOf
  <2>3. n # 0 => n \in DOMAIN subs' /\ subs'[n].user = u /\ subs'[n].status \in ENTITLED
    BY <1>1, NewestIs
  <2>4. \/ m = 0 /\ \A i \in DOMAIN subs : ~(subs[i].user = u /\ subs[i].status \in ENTITLED)
        \/ m \in DOMAIN subs /\ subs[m].user = u /\ subs[m].status \in ENTITLED
    BY <1>1, NewestIs
  <2> HIDE DEF n, m
  <2>5. CASE n # 0
    <3>1. n \in DOMAIN subs
      BY <2>3, <2>5 DEF SubsMove
    <3>2. subs[n].user = u /\ subs[n].status \in ENTITLED /\ subs'[n].plan = subs[n].plan
      BY <2>3, <2>5, <3>1 DEF SubsMove, Becomes, ToldOf
    <3>3. m # 0 /\ m \in DOMAIN subs /\ subs[m].user = u /\ subs[m].status \in ENTITLED
      <4>1. ~(\A i \in DOMAIN subs : ~(subs[i].user = u /\ subs[i].status \in ENTITLED))
        BY <3>1, <3>2
      <4> QED BY <2>4, <4>1, RowsAre
    <3>4. m = n
      BY <3>1, <3>2, <3>3 DEF BillingInv, OneIsOpen, Closed, ENTITLED
    <3>5. customer[u] # Nil
      BY <3>1, <3>2 DEF BillingInv, RowsHaveCustomers
    <3> QED BY <2>1, <2>2, <3>2, <3>3, <3>4, <3>5
  <2>6. CASE n = 0
    BY <2>1, <2>6
  <2> QED BY <2>5, <2>6
<1>4. ASSUME NEW g \in LiveGrants(u)'
      PROVE  customer[u] # Nil /\ g.entitlement \in {h.entitlement : h \in LiveGrants(u)}
  <2>1. /\ g \in purchased' /\ invoices'[g.invoice].user = u /\ ~g.revoked /\ g.expires > now'
    BY <1>4 DEF LiveGrants
  <2>2. PICK h \in purchased : /\ g.invoice = h.invoice /\ g.entitlement = h.entitlement
                               /\ g.expires = h.expires /\ (h.revoked => g.revoked)
    BY <2>1 DEF GrantsMove
  <2>3. h.invoice \in DOMAIN invoices /\ customer[invoices[h.invoice].user] # Nil
    BY DEF BillingInv, RowsHaveCustomers
  <2>4. invoices[h.invoice].user = u
    BY <2>1, <2>2, <2>3 DEF InvoicesMove
  <2>5. h.expires > now
    <3>1. h.expires \in Nat /\ now \in Nat /\ now' \in Nat /\ now <= now'
      BY DEF BillingInv, BillingTyped, GrantRow, CustomersStay
    <3> QED BY <2>1, <2>2, <3>1
  <2>6. h \in LiveGrants(u)
    BY <2>1, <2>2, <2>4, <2>5 DEF LiveGrants
  <2> QED BY <2>2, <2>3, <2>4, <2>6
<1>5. resolveEntitlements(u)' =
        PlanCatalog[PlanInForce(u)'].capabilities
            \cup (IF customer'[u] = Nil THEN {} ELSE {g.entitlement : g \in LiveGrants(u)'})
  BY DEF resolveEntitlements
<1>6. resolveEntitlements(u) =
        PlanCatalog[PlanInForce(u)].capabilities
            \cup (IF customer[u] = Nil THEN {} ELSE {g.entitlement : g \in LiveGrants(u)})
  BY DEF resolveEntitlements
<1>7. PlanCatalog[PlanInForce(u)'].capabilities \subseteq PlanCatalog[PlanInForce(u)].capabilities
  BY <1>2, <1>3
<1>8. ASSUME NEW e \in {g.entitlement : g \in LiveGrants(u)'}
      PROVE  e \in IF customer[u] = Nil THEN {} ELSE {g.entitlement : g \in LiveGrants(u)}
  <2>1. PICK g \in LiveGrants(u)' : e = g.entitlement
    BY <1>8
  <2> QED BY <1>4, <2>1
<1> HIDE DEF Moves
<1> QED BY <1>5, <1>6, <1>7, <1>8

----------------------------------------------------------------------------
(* Every action moves the tables so. *)

LEMMA Kept ==
    ASSUME BillingInv
    PROVE  /\ UNCHANGED <<customer, credits, methods, now>> => CustomersStay
           /\ UNCHANGED invoices => InvoicesMove
           /\ UNCHANGED sessions /\ CustomersStay => SessionsMove
           /\ UNCHANGED purchased => GrantsMove
           /\ UNCHANGED <<usage, rated>> => UsageMoves
<1>1. /\ customer \in [Payers -> CustomerRow \cup {Nil}] /\ credits \in [Payers -> Int]
      /\ methods \in Seq(MethodRow) /\ now \in Nat /\ sessions \in Seq(PurchaseRow)
  BY DEF BillingInv, BillingTyped
<1>2. UNCHANGED <<customer, credits, methods, now>> => CustomersStay
  BY <1>1 DEF CustomersStay
<1>3. UNCHANGED invoices => InvoicesMove
  BY DEF InvoicesMove, BillingInv, BillingTyped, RefundsWithin
<1>4. ASSUME UNCHANGED sessions, CustomersStay
      PROVE  SessionsMove
  <2>1. ASSUME NEW s \in DOMAIN sessions
        PROVE  customer'[sessions[s].user] # Nil
    <3>1. sessions[s] \in PurchaseRow
      BY <1>1, ElementOfSeq
    <3> QED BY <1>4, <3>1 DEF BillingInv, RowsHaveCustomers, CustomersStay, PurchaseRow
  <2> QED BY <1>1, <1>4, <2>1 DEF SessionsMove
<1>5. UNCHANGED purchased => GrantsMove
  BY DEF GrantsMove, BillingInv, BillingTyped
<1>6. UNCHANGED <<usage, rated>> => UsageMoves
  BY DEF UsageMoves, BillingInv, BillingTyped
<1> QED BY <1>2, <1>3, <1>4, <1>5, <1>6

(* A handler that only makes its user a customer, or sets the override.    *)
LEMMA NewCustomer ==
    ASSUME BillingInv, NEW u \in Payers, NEW c \in CustomerRow,
           customer' = [customer EXCEPT ![u] = c], credits' = credits, now' = now,
           methods' \in Seq(MethodRow)
    PROVE  CustomersStay /\ customer'[u] # Nil
<1>1. customer \in [Payers -> CustomerRow \cup {Nil}] /\ credits \in [Payers -> Int] /\ now \in Nat
  BY DEF BillingInv, BillingTyped
<1>2. c # Nil
  BY MockBillingAssumption DEF MockBillingAssumption
<1> QED BY <1>1, <1>2 DEF CustomersStay

LEMMA CheckoutMoves ==
    ASSUME BillingInv, NEW u \in Payers, NEW p \in Plans, Checkout(u, p)
    PROVE  Moves
<1>1. /\ customer' = [customer EXCEPT ![u] = CustomerOf(u)]
      /\ UNCHANGED <<invoices, methods, purchased, credits, sessions, usage, now, rated>>
  BY DEF Checkout
<1>2. methods \in Seq(MethodRow)
  BY DEF BillingInv, BillingTyped
<1>3. CustomersStay
  BY <1>1, <1>2, CustomerIs, NewCustomer
<1> QED BY <1>1, <1>3, CheckoutSubs, Kept DEF Moves

LEMMA SetRegionMoves ==
    ASSUME BillingInv, NEW u \in Payers, NEW o \in PaymentProviders \cup {Nil}, SetRegion(u, o)
    PROVE  Moves
<1>1. /\ \/ customer' = [customer EXCEPT ![u] = CustomerOf(u)]
         \/ customer' = [customer EXCEPT ![u] = [CustomerOf(u) EXCEPT !.override = o]]
      /\ UNCHANGED <<subs, invoices, methods, purchased, credits, sessions, usage, now, rated>>
  BY DEF SetRegion
<1>2. methods \in Seq(MethodRow)
  BY DEF BillingInv, BillingTyped
<1>3. CustomerOf(u) \in CustomerRow
  BY CustomerIs
<1>4. [CustomerOf(u) EXCEPT !.override = o] \in CustomerRow
  BY <1>3 DEF CustomerRow
<1>5. CustomersStay
  BY <1>1, <1>2, <1>3, <1>4, NewCustomer
<1> QED BY <1>1, <1>5, SameSubs, Kept DEF Moves

LEMMA ReplaceMethodMoves ==
    ASSUME BillingInv, NEW u \in Payers, ReplaceMethod(u)
    PROVE  Moves
<1> DEFINE i == findCurrentSubscription(u)
           m == Len(methods) + 1
           x == [subs[i] EXCEPT !.method = m]
           old == [k \in DOMAIN methods |->
                      [methods[k] EXCEPT !.default = @ /\ methods[k].user # u]]
           new == [user |-> u, default |-> TRUE]
<1>1. /\ i # 0 /\ methods' = Append(old, new)
      /\ customer' = [customer EXCEPT ![u].default = m]
      /\ subs' = [subs EXCEPT ![i].method = m]
      /\ UNCHANGED <<invoices, purchased, credits, sessions, usage, now, rated>>
  BY DEF ReplaceMethod
<1>2. methods \in Seq(MethodRow) /\ m \in Nat /\ subs \in Seq(SubRow)
      /\ customer \in [Payers -> CustomerRow \cup {Nil}]
  BY DEF BillingInv, BillingTyped
<1>3. i = Newest(u, OPEN) /\ i \in DOMAIN subs /\ customer[u] # Nil
  BY <1>1, CurrentIs DEF findCurrentSubscription
<1>4. SubsMove
  <2>1. subs[i] \in SubRow /\ LadderOf(subs[i])
    BY <1>3, RowsAre
  <2>2. /\ x \in SubRow /\ x.user = subs[i].user /\ x.start = subs[i].start /\ LadderOf(x)
        /\ x.status = subs[i].status /\ x.plan = subs[i].plan
    BY <1>2, <2>1 DEF SubRow, LadderOf
  <2>3. subs' = [subs EXCEPT ![i] = x]
    BY <1>1
  <2> HIDE DEF x, i
  <2> QED BY <1>3, <2>2, <2>3, OneRow DEF Becomes, ToldOf
<1>5. methods' \in Seq(MethodRow)
  <2>1. \A k \in DOMAIN methods : methods[k] \in MethodRow
    BY <1>2, ElementOfSeq
  <2>2. \A k \in DOMAIN methods : old[k] \in MethodRow
    BY <2>1 DEF MethodRow
  <2>3. old \in Seq(MethodRow)
    <3>1. DOMAIN methods = 1..Len(methods) /\ Len(methods) \in Nat
      BY <1>2
    <3>2. old \in [1..Len(methods) -> MethodRow]
      BY <2>2, <3>1
    <3> HIDE DEF old
    <3> QED BY <3>1, <3>2, SeqDef
  <2>4. new \in MethodRow
    BY DEF MethodRow
  <2> HIDE DEF old, new
  <2> QED BY <1>1, <2>3, <2>4
<1>6. CustomersStay
  <2> DEFINE c == [customer[u] EXCEPT !.default = m]
  <2>1. c \in CustomerRow /\ customer' = [customer EXCEPT ![u] = c]
    BY <1>1, <1>2, <1>3 DEF CustomerRow
  <2> HIDE DEF c
  <2> QED BY <1>1, <1>5, <2>1, NewCustomer
<1> QED BY <1>1, <1>4, <1>6, Kept DEF Moves

LEMMA InvoiceIs ==
    ASSUME NEW u \in Payers, NEW i \in Nat, NEW amount \in Nat, NEW status \in {"paid", "refunded"},
           NEW mode \in Modes, NEW product \in Products \cup {Nil}
    PROVE  LET x == Invoice(u, i, amount, status, mode, product)
           IN  /\ x \in InvoiceRow /\ x.user = u /\ x.sub = i /\ x.refunded = 0
               /\ x.refunded <= x.amount
BY DEF Invoice, InvoiceRow

(* Invoices that were touched, followed by new ones.                       *)
LEMMA InvoicesAppended ==
    ASSUME BillingInv, NEW old \in Seq(InvoiceRow), NEW new \in Seq(InvoiceRow),
           Len(old) = Len(invoices), invoices' = old \o new,
           \A k \in DOMAIN invoices : /\ old[k].user = invoices[k].user
                                      /\ old[k].sub = invoices[k].sub
                                      /\ old[k].refunded <= old[k].amount,
           \A k \in DOMAIN new : new[k].sub \in 0..Len(subs') /\ new[k].refunded <= new[k].amount
    PROVE  InvoicesMove
<1>1. invoices \in Seq(InvoiceRow)
  BY DEF BillingInv, BillingTyped
<1>2. /\ invoices' \in Seq(InvoiceRow) /\ DOMAIN invoices \subseteq DOMAIN invoices'
      /\ \A k \in DOMAIN invoices : invoices'[k] = old[k]
  BY <1>1
<1>3. ASSUME NEW k \in DOMAIN invoices' \ DOMAIN invoices
      PROVE  k - Len(invoices) \in DOMAIN new /\ invoices'[k] = new[k - Len(invoices)]
  <2>1. k \in 1..(Len(old) + Len(new)) /\ k \notin 1..Len(old)
    BY <1>1, <1>3
  <2>2. Len(old) \in Nat /\ Len(new) \in Nat
    OBVIOUS
  <2>3. k \in Len(old) + 1 .. Len(old) + Len(new)
    BY <2>1, <2>2
  <2> QED BY <1>1, <2>2, <2>3
<1> QED BY <1>2, <1>3 DEF InvoicesMove

LEMMA InvoicesKept ==
    ASSUME BillingInv
    PROVE  /\ invoices \in Seq(InvoiceRow) /\ subs \in Seq(SubRow)
           /\ \A k \in DOMAIN invoices : /\ invoices[k] \in InvoiceRow
                                         /\ invoices[k].refunded <= invoices[k].amount
                                         /\ invoices[k].refunded \in Nat
                                         /\ invoices[k].amount \in Nat
<1>1. invoices \in Seq(InvoiceRow) /\ subs \in Seq(SubRow)
  BY DEF BillingInv, BillingTyped
<1>2. \A k \in DOMAIN invoices : invoices[k] \in InvoiceRow
  BY <1>1, ElementOfSeq
<1> QED BY <1>1, <1>2 DEF BillingInv, RefundsWithin, InvoiceRow

LEMMA OneInvoice ==
    ASSUME BillingInv, NEW u \in Payers, NEW i \in 0..Len(subs'), NEW amount \in Nat,
           NEW mode \in Modes, NEW product \in Products \cup {Nil}, Len(subs') \in Nat,
           invoices' = Append(invoices, Invoice(u, i, amount, "paid", mode, product))
    PROVE  InvoicesMove
<1> DEFINE x == Invoice(u, i, amount, "paid", mode, product)
<1>1. x \in InvoiceRow /\ x.sub = i /\ x.refunded <= x.amount
  BY InvoiceIs
<1> HIDE DEF x
<1>2. <<x>> \in Seq(InvoiceRow) /\ invoices' = invoices \o <<x>>
  <2>1. invoices' = Append(invoices, x) /\ invoices \in Seq(InvoiceRow)
    BY InvoicesKept DEF x
  <2> QED BY <1>1, <2>1
<1>3. \A k \in DOMAIN <<x>> : <<x>>[k] = x
  OBVIOUS
<1> QED BY <1>1, <1>2, <1>3, InvoicesKept, InvoicesAppended

LEMMA ChangePlanMoves ==
    ASSUME BillingInv, NEW u \in Payers, NEW p \in Plans, ChangePlan(u, p)
    PROVE  Moves
<1> DEFINE i == findCurrentSubscription(u)
           quote == prorationQuote(i, p)
           source == RefundSource(i)
           refund == RefundLeg(source, quote.refund)
           paid == Invoice(u, i, quote.charge, "paid", PlanCatalog[p].mode, Nil)
           back == Invoice(u, i, refund, "refunded", "fixed", Nil)
           first == IF quote.charge > 0 THEN <<paid>> ELSE <<>>
           second == IF refund > 0 THEN <<back>> ELSE <<>>
           old == [k \in DOMAIN invoices |->
                      IF k = source /\ refund > 0 THEN [invoices[k] EXCEPT !.refunded = @ + refund]
                      ELSE invoices[k]]
           x == [subs[i] EXCEPT !.plan = p, !.mode = PlanCatalog[p].mode]
<1>1. /\ i # 0
      /\ invoices' = invoices \/ invoices' = old \o (first \o second)
      /\ subs' = [subs EXCEPT ![i].plan = p, ![i].mode = PlanCatalog[p].mode]
      /\ pushed' = {u}
      /\ UNCHANGED <<customer, methods, purchased, credits, sessions, usage, now, rated>>
  BY DEF ChangePlan, Changeable, notifyEntitlementsChanged
<1>2. i \in DOMAIN subs /\ subs[i] \in SubRow /\ subs[i].user = u /\ LadderOf(subs[i])
      /\ i \in Nat
  BY <1>1, CurrentIs, RowsAre
<1>3. PlanCatalog[p].mode \in Modes
  BY PlanIs
<1>4. SubsMove
  <2>1. /\ x \in SubRow /\ x.user = u /\ x.start = subs[i].start /\ LadderOf(x)
        /\ x.status = subs[i].status
    BY <1>2, <1>3 DEF SubRow, LadderOf
  <2>2. subs' = [subs EXCEPT ![i] = x]
    BY <1>1
  <2> HIDE DEF x, i
  <2> QED BY <1>1, <1>2, <2>1, <2>2, OneRow DEF Becomes, ToldOf
<1>5. CustomersStay
  BY <1>1, Kept
<1>6. InvoicesMove
  <2>1. CASE invoices' = invoices
    BY <2>1, Kept
  <2>2. CASE invoices' = old \o (first \o second)
    <3>1. quote.refund \in Int /\ quote.charge \in Int
      <4> DEFINE total == Max({1, subs[i].end - subs[i].start})
                 remainder == Min({total, Max({0, subs[i].end - now})})
      <4>1. subs[i].end \in Int /\ subs[i].start \in Int /\ now \in Int
            /\ subs[i].plan \in Plans
        BY <1>2 DEF SubRow, BillingInv, BillingTyped
      <4>2. total \in Int /\ total >= 1
        <5> DEFINE a == subs[i].end - subs[i].start
        <5>1. a \in Int
          BY <4>1
        <5> HIDE DEF a
        <5>2. Max({1, a}) \in {1, a} /\ Max({1, a}) >= 1
          BY <5>1, TwoOf
        <5> QED BY <5>1, <5>2 DEF a
      <4>3. remainder \in Int
        <5>1. Max({0, subs[i].end - now}) \in Int
          <6> DEFINE a == subs[i].end - now
          <6>1. a \in Int
            BY <4>1
          <6> HIDE DEF a
          <6>2. 0 \in Int
            OBVIOUS
          <6>3. Max({0, a}) \in {0, a}
            BY <6>1, <6>2, TwoOf, Zenon
          <6> QED BY <6>1, <6>3 DEF a
        <5> HIDE DEF total
        <5> QED BY <4>2, <5>1, TwoOf
      <4>4. PlanCatalog[subs[i].plan].price \in Nat /\ PlanCatalog[p].price \in Nat
        BY <4>1, PlanIs
      <4>5. /\ quote.refund = (PlanCatalog[subs[i].plan].price * remainder) \div total
            /\ quote.charge = (PlanCatalog[p].price * remainder) \div total
        BY DEF prorationQuote
      <4> HIDE DEF total, remainder, quote, i
      <4>6. /\ PlanCatalog[subs[i].plan].price * remainder \in Int
            /\ PlanCatalog[p].price * remainder \in Int
        BY <4>3, <4>4
      <4> QED BY <4>2, <4>5, <4>6
    <3>2. source \in {0} \cup DOMAIN invoices
      <4> DEFINE S == {k \in DOMAIN invoices : /\ invoices[k].sub = i
                                               /\ invoices[k].status = "paid"
                                               /\ invoices[k].mode = "fixed"
                                               /\ invoices[k].amount > 0}
      <4>1. DOMAIN invoices = 1..Len(invoices) /\ Len(invoices) \in Nat
        BY InvoicesKept
      <4>2. {0} \cup S \subseteq 0..Len(invoices) /\ S \subseteq DOMAIN invoices
        BY <4>1
      <4>3. source = Max({0} \cup S)
        BY DEF RefundSource
      <4> HIDE DEF S, source
      <4> QED BY <4>1, <4>2, <4>3, MaxIs
    <3>3. /\ refund > 0 /\ source # 0
                => refund <= invoices[source].amount - invoices[source].refunded
          /\ refund \in Int /\ (refund > 0 => source # 0)
      <4>1. CASE source = 0
        BY <4>1 DEF RefundLeg
      <4>2. CASE source # 0
        <5>1. invoices[source].amount - invoices[source].refunded \in Int
          BY <3>2, <4>2, InvoicesKept
        <5>2. refund = Min({quote.refund, invoices[source].amount - invoices[source].refunded})
          BY <4>2 DEF RefundLeg
        <5> HIDE DEF refund, source, quote
        <5> QED BY <3>1, <4>2, <5>1, <5>2, TwoOf
      <4> QED BY <4>1, <4>2
    <3> HIDE DEF quote, source, refund, i
    <3>4. Len(subs') = Len(subs) /\ Len(subs) \in Nat /\ i \in 0..Len(subs') /\ i \in Nat
      BY <1>1, <1>2, InvoicesKept
    <3>5. /\ first \in Seq(InvoiceRow)
          /\ \A k \in DOMAIN first :
                first[k].sub \in 0..Len(subs') /\ first[k].refunded <= first[k].amount
      <4>1. CASE quote.charge > 0
        <5>1. quote.charge \in Nat
          BY <3>1, <4>1
        <5>2. paid \in InvoiceRow /\ paid.sub = i /\ paid.refunded <= paid.amount
          BY <1>3, <3>4, <5>1, InvoiceIs
        <5> HIDE DEF paid
        <5> QED BY <3>4, <4>1, <5>2
      <4>2. CASE ~(quote.charge > 0)
        BY <4>2
      <4> QED BY <4>1, <4>2
    <3>6. /\ second \in Seq(InvoiceRow)
          /\ \A k \in DOMAIN second :
                second[k].sub \in 0..Len(subs') /\ second[k].refunded <= second[k].amount
      <4>1. CASE refund > 0
        <5>1. refund \in Nat /\ "fixed" \in Modes
          BY <3>3, <4>1 DEF Modes
        <5>2. back \in InvoiceRow /\ back.sub = i /\ back.refunded <= back.amount
          BY <3>4, <5>1, InvoiceIs
        <5> HIDE DEF back
        <5> QED BY <3>4, <4>1, <5>2
      <4>2. CASE ~(refund > 0)
        BY <4>2
      <4> QED BY <4>1, <4>2
    <3>7. /\ old \in Seq(InvoiceRow) /\ Len(old) = Len(invoices)
          /\ \A k \in DOMAIN invoices : /\ old[k].user = invoices[k].user
                                        /\ old[k].sub = invoices[k].sub
                                        /\ old[k].refunded <= old[k].amount
      <4>1. ASSUME NEW k \in DOMAIN invoices
            PROVE  /\ old[k] \in InvoiceRow /\ old[k].user = invoices[k].user
                   /\ old[k].sub = invoices[k].sub /\ old[k].refunded <= old[k].amount
        <5>1. /\ invoices[k] \in InvoiceRow /\ invoices[k].refunded <= invoices[k].amount
              /\ invoices[k].refunded \in Nat /\ invoices[k].amount \in Nat
          BY InvoicesKept
        <5>2. CASE k = source /\ refund > 0
          <6>1. old[k] = [invoices[k] EXCEPT !.refunded = @ + refund]
            BY <5>2
          <6>2. /\ invoices[k].refunded + refund \in Nat
                /\ invoices[k].refunded + refund <= invoices[k].amount
            BY <3>2, <3>3, <5>1, <5>2
          <6> HIDE DEF old
          <6> QED BY <5>1, <6>1, <6>2 DEF InvoiceRow
        <5>3. CASE ~(k = source /\ refund > 0)
          BY <5>1, <5>3
        <5> QED BY <5>2, <5>3
      <4>2. DOMAIN invoices = 1..Len(invoices) /\ Len(invoices) \in Nat
        BY InvoicesKept
      <4>3. old \in [1..Len(invoices) -> InvoiceRow]
        BY <4>1, <4>2
      <4> HIDE DEF old
      <4>4. old \in Seq(InvoiceRow) /\ Len(old) = Len(invoices)
        BY <4>2, <4>3, SeqDef, LenProperties
      <4> QED BY <4>1, <4>4
    <3> DEFINE new == first \o second
    <3> HIDE DEF first, second, old
    <3>8. new \in Seq(InvoiceRow)
      BY <3>5, <3>6
    <3>9. ASSUME NEW k \in DOMAIN new
          PROVE  new[k].sub \in 0..Len(subs') /\ new[k].refunded <= new[k].amount
      <4>1. k \in 1..(Len(first) + Len(second)) /\ Len(first) \in Nat /\ Len(second) \in Nat
        BY <3>5, <3>6
      <4>2. CASE k <= Len(first)
        <5>1. k \in DOMAIN first /\ new[k] = first[k]
          BY <3>5, <3>6, <4>1, <4>2
        <5> QED BY <3>5, <5>1
      <4>3. CASE k > Len(first)
        <5>1. k - Len(first) \in DOMAIN second /\ new[k] = second[k - Len(first)]
          BY <3>5, <3>6, <4>1, <4>3
        <5> QED BY <3>6, <5>1
      <4> QED BY <4>1, <4>2, <4>3
    <3>10. invoices' = old \o new
      BY <2>2 DEF first, second, old, source, refund, quote, i
    <3> HIDE DEF new
    <3> QED BY <3>7, <3>8, <3>9, <3>10, InvoicesAppended
  <2> QED BY <1>1, <2>1, <2>2
<1> QED BY <1>1, <1>4, <1>5, <1>6, Kept DEF Moves

(* A row is cancelled, at once or at the end of its period.                *)
LEMMA RowCancelled ==
    ASSUME BillingInv, NEW i \in DOMAIN subs, NEW mode,
           subs' = [subs EXCEPT ![i] =
                       IF mode = "immediate"
                       THEN [@ EXCEPT !.status = "canceled", !.cancelAtEnd = FALSE]
                       ELSE [@ EXCEPT !.cancelAtEnd = TRUE]]
    PROVE  SubsMove
<1> DEFINE x == IF mode = "immediate"
                THEN [subs[i] EXCEPT !.status = "canceled", !.cancelAtEnd = FALSE]
                ELSE [subs[i] EXCEPT !.cancelAtEnd = TRUE]
<1>1. subs[i] \in SubRow /\ LadderOf(subs[i]) /\ "canceled" \notin ENTITLED
  BY RowsAre DEF ENTITLED
<1>2. subs' = [subs EXCEPT ![i] = x]
  OBVIOUS
<1>3. /\ x \in SubRow /\ x.user = subs[i].user /\ x.start = subs[i].start
      /\ x.plan = subs[i].plan /\ x.attempts = subs[i].attempts
      /\ x.status \in {subs[i].status, "canceled"} /\ subs[i].attempts \in Nat
  BY <1>1 DEF SubRow
<1> HIDE DEF x
<1>4. Becomes(subs[i], x) /\ ToldOf(subs[i], x)
  BY <1>1, <1>3 DEF Becomes, ToldOf, LadderOf, DunningMaxAttempts
<1> QED BY <1>2, <1>3, <1>4, OneRow

LEMMA CancelMoves ==
    ASSUME BillingInv, NEW u \in Payers, NEW mode, Cancel(u, mode)
    PROVE  Moves
<1> DEFINE i == findCurrentSubscription(u)
<1>1. /\ i # 0
      /\ UNCHANGED <<customer, invoices, methods, purchased, credits, sessions, usage, now, rated>>
  BY DEF Cancel
<1>2. i \in DOMAIN subs
  BY <1>1, CurrentIs
<1>3. SubsMove
  <2>1. subs' = [subs EXCEPT ![i] =
                       IF mode = "immediate"
                       THEN [@ EXCEPT !.status = "canceled", !.cancelAtEnd = FALSE]
                       ELSE [@ EXCEPT !.cancelAtEnd = TRUE]]
    BY DEF Cancel
  <2> HIDE DEF i
  <2> QED BY <1>2, <2>1, RowCancelled
<1> QED BY <1>1, <1>3, Kept DEF Moves

LEMMA AdminCancelMoves ==
    ASSUME BillingInv, NEW i \in DOMAIN subs, NEW mode, AdminCancel(i, mode)
    PROVE  Moves
<1>1. UNCHANGED <<customer, invoices, methods, purchased, credits, sessions, usage, now, rated>>
  BY DEF AdminCancel
<1>2. SubsMove
  BY RowCancelled DEF AdminCancel
<1> QED BY <1>1, <1>2, Kept DEF Moves

LEMMA GrantsRevoked ==
    ASSUME BillingInv, NEW k, purchased' \in {purchased, GrantsAfterRefund(k)}
    PROVE  GrantsMove
<1>1. purchased \subseteq GrantRow
  BY DEF BillingInv, BillingTyped
<1>2. ASSUME NEW g \in GrantsAfterRefund(k)
      PROVE  /\ g \in GrantRow
             /\ \E h \in purchased :
                   /\ g.invoice = h.invoice /\ g.entitlement = h.entitlement
                   /\ g.expires = h.expires /\ (h.revoked => g.revoked)
  <2>1. PICK h \in purchased :
            g = IF h.invoice = k THEN [h EXCEPT !.revoked = TRUE] ELSE h
    BY <1>2 DEF GrantsAfterRefund
  <2>2. h \in GrantRow
    BY <1>1
  <2> QED BY <2>1, <2>2 DEF GrantRow
<1>3. CASE purchased' = GrantsAfterRefund(k)
  BY <1>2, <1>3 DEF GrantsMove
<1> QED BY <1>3, Kept

LEMMA RefundMoves ==
    ASSUME BillingInv, NEW k \in DOMAIN invoices, NEW amount \in Nat, Refund(k, amount)
    PROVE  Moves
<1> DEFINE total == invoices[k].refunded + amount
           full == total >= invoices[k].amount
           x == [invoices[k] EXCEPT !.refunded = total,
                                    !.status = IF full THEN "refunded" ELSE @]
           old == [invoices EXCEPT ![k] = x]
<1>1. /\ amount <= invoices[k].amount - invoices[k].refunded
      /\ invoices' = old
      /\ purchased' \in {purchased, GrantsAfterRefund(k)}
      /\ credits' \in {credits, CreditsAfterRefund(k)}
      /\ UNCHANGED <<customer, subs, methods, sessions, usage, now, rated>>
  BY DEF Refund
<1>2. /\ invoices[k] \in InvoiceRow /\ invoices \in Seq(InvoiceRow)
      /\ invoices[k].refunded \in Nat /\ invoices[k].amount \in Nat
  BY InvoicesKept
<1>3. x \in InvoiceRow /\ x.user = invoices[k].user /\ x.sub = invoices[k].sub
      /\ x.refunded <= x.amount
  <2>1. total \in Nat /\ total <= invoices[k].amount
    BY <1>1, <1>2
  <2> HIDE DEF total, full
  <2> QED BY <1>2, <2>1 DEF InvoiceRow
<1>4. InvoicesMove
  <2> HIDE DEF x
  <2>1. /\ old \in Seq(InvoiceRow) /\ DOMAIN old = DOMAIN invoices /\ old[k] = x
        /\ \A j \in DOMAIN invoices : j # k => old[j] = invoices[j]
    BY <1>2, <1>3
  <2> HIDE DEF old
  <2> QED BY <1>1, <1>3, <2>1, InvoicesKept DEF InvoicesMove
<1>5. credits' \in [Payers -> Int]
  <2>1. credits \in [Payers -> Int]
    BY DEF BillingInv, BillingTyped
  <2>2. CreditsAfterRefund(k) \in [Payers -> Int]
    <3> DEFINE product == invoices[k].product
               back == IF product = Nil THEN 0 ELSE ProductCatalog[product].credits
    <3>1. back \in Int
      BY <1>2, ProductIs DEF InvoiceRow
    <3>2. invoices[k].user \in Payers
      BY <1>2 DEF InvoiceRow
    <3>3. CreditsAfterRefund(k) = IF back = 0 THEN credits
                                  ELSE [credits EXCEPT ![invoices[k].user] = @ - back]
      BY DEF CreditsAfterRefund
    <3> HIDE DEF back
    <3> QED BY <2>1, <3>1, <3>2, <3>3
  <2> QED BY <1>1, <2>1, <2>2
<1>6. CustomersStay
  BY <1>1, <1>5 DEF CustomersStay, BillingInv, BillingTyped
<1> QED BY <1>1, <1>4, <1>6, GrantsRevoked, SameSubs, Kept DEF Moves

LEMMA UsageAppended ==
    ASSUME BillingInv, NEW i \in DOMAIN subs, NEW meter \in Meters, NEW at \in Nat,
           usage' = Append(usage, [sub |-> i, meter |-> meter, at |-> at]),
           rated' = Append(rated, 0)
    PROVE  UsageMoves
<1> DEFINE x == [sub |-> i, meter |-> meter, at |-> at]
<1>1. usage \in Seq(UsageRow) /\ rated \in Seq(Nat) /\ Len(rated) = Len(usage)
  BY DEF BillingInv, BillingTyped
<1>2. x \in UsageRow /\ x.sub = i
  BY RowsAre DEF UsageRow
<1>3. usage' = Append(usage, x)
  OBVIOUS
<1> HIDE DEF x
<1>4. /\ usage' \in Seq(UsageRow) /\ rated' \in Seq(Nat) /\ Len(rated') = Len(usage')
      /\ DOMAIN usage \subseteq DOMAIN usage'
      /\ \A r \in DOMAIN usage : usage'[r] = usage[r] /\ rated'[r] = rated[r]
  BY <1>1, <1>2, <1>3
<1>5. ASSUME NEW r \in DOMAIN usage' \ DOMAIN usage
      PROVE  usage'[r] = x /\ rated'[r] = 0
  <2>1. r = Len(usage) + 1
    BY <1>1, <1>2, <1>3
  <2> QED BY <1>1, <1>2, <1>3, <2>1
<1> QED BY <1>2, <1>4, <1>5 DEF UsageMoves

LEMMA RecordUsageMoves ==
    ASSUME BillingInv, NEW u \in Payers, NEW meter \in Meters, NEW at \in {now, 0},
           RecordUsage(u, meter, at)
    PROVE  Moves
<1> DEFINE i == Newest(u, ENTITLED)
<1>1. /\ i # 0 /\ usage' = Append(usage, [sub |-> i, meter |-> meter, at |-> at])
      /\ rated' = Append(rated, 0)
      /\ UNCHANGED <<customer, subs, invoices, methods, purchased, credits, sessions, now>>
  BY DEF RecordUsage
<1>2. i \in DOMAIN subs
  <2>1. i = NewestOf(subs, u, ENTITLED)
    BY CurrentIs
  <2>2. subs \in Seq(SubRow)
    BY InvoicesKept
  <2> QED BY <1>1, <2>1, <2>2, NewestIs
<1>3. at \in Nat
  BY DEF BillingInv, BillingTyped
<1> HIDE DEF i
<1>4. UsageMoves
  BY <1>1, <1>2, <1>3, UsageAppended
<1> QED BY <1>1, <1>4, SameSubs, Kept DEF Moves

LEMMA SeedUsageMoves ==
    ASSUME BillingInv, NEW i \in DOMAIN subs, NEW meter \in Meters, SeedUsage(i, meter, now)
    PROVE  Moves
<1>1. /\ usage' = Append(usage, [sub |-> i, meter |-> meter, at |-> now])
      /\ rated' = Append(rated, 0)
      /\ UNCHANGED <<customer, subs, invoices, methods, purchased, credits, sessions, now>>
  BY DEF SeedUsage
<1>2. now \in Nat
  BY DEF BillingInv, BillingTyped
<1>3. UsageMoves
  BY <1>1, <1>2, UsageAppended
<1> QED BY <1>1, <1>3, SameSubs, Kept DEF Moves

LEMMA PurchaseMoves ==
    ASSUME BillingInv, NEW u \in Payers, NEW p \in Products, NEW a \in 1..2, Purchase(u, p, a)
    PROVE  Moves
<1> DEFINE x == [user |-> u, product |-> p, amount |-> a]
<1>1. /\ customer' = [customer EXCEPT ![u] = CustomerOf(u)] /\ sessions' = Append(sessions, x)
      /\ Len(sessions) = 0
      /\ UNCHANGED <<subs, invoices, methods, purchased, credits, usage, now, rated>>
  BY DEF Purchase
<1>2. sessions \in Seq(PurchaseRow) /\ methods \in Seq(MethodRow)
  BY DEF BillingInv, BillingTyped
<1>3. CustomersStay /\ customer'[u] # Nil
  BY <1>1, <1>2, CustomerIs, NewCustomer
<1>4. x \in PurchaseRow /\ x.user = u
  BY DEF PurchaseRow
<1> HIDE DEF x
<1>5. sessions' \in Seq(PurchaseRow) /\ \A s \in DOMAIN sessions' : sessions'[s] = x
  BY <1>1, <1>2, <1>4
<1>6. SessionsMove
  BY <1>3, <1>4, <1>5 DEF SessionsMove
<1> QED BY <1>1, <1>3, <1>6, SameSubs, Kept DEF Moves

LEMMA SessionTaken ==
    ASSUME NEW S, NEW all \in Seq(S), NEW s \in DOMAIN all
    PROVE  /\ RemoveAt(all, s) \in Seq(S)
           /\ \A k \in DOMAIN RemoveAt(all, s) : \E j \in DOMAIN all : RemoveAt(all, s)[k] = all[j]
<1> DEFINE a == SubSeq(all, 1, s - 1)
           b == SubSeq(all, s + 1, Len(all))
<1>1. s \in 1..Len(all) /\ Len(all) \in Nat /\ s \in Int /\ s - 1 \in Int /\ s + 1 \in Int
  OBVIOUS
<1>2. \A k \in 1..Len(all) : k \in DOMAIN all /\ all[k] \in S
  OBVIOUS
<1>3. /\ a \in Seq(S) /\ Len(a) = s - 1 /\ \A k \in 1..(s - 1) : a[k] = all[k]
  <2>1. \A k \in 1..(s - 1) : all[k] \in S
    BY <1>1, <1>2
  <2>2. /\ a \in Seq(S) /\ Len(a) = IF 1 <= s - 1 THEN s - 1 - 1 + 1 ELSE 0
        /\ \A k \in 1..(s - 1 - 1 + 1) : a[k] = all[1 + k - 1]
    BY <1>1, <2>1, SubSeqProperties
  <2> HIDE DEF a
  <2> QED BY <1>1, <2>2
<1>4. /\ b \in Seq(S) /\ Len(b) = Len(all) - s
      /\ \A k \in 1..(Len(all) - s) : b[k] = all[s + k]
  <2>1. \A k \in s + 1 .. Len(all) : all[k] \in S
    BY <1>1, <1>2
  <2>2. /\ b \in Seq(S) /\ Len(b) = IF s + 1 <= Len(all) THEN Len(all) - (s + 1) + 1 ELSE 0
        /\ \A k \in 1..(Len(all) - (s + 1) + 1) : b[k] = all[s + 1 + k - 1]
    BY <1>1, <2>1, SubSeqProperties
  <2> HIDE DEF b
  <2> QED BY <1>1, <2>2
<1>5. RemoveAt(all, s) = a \o b
  BY DEF RemoveAt
<1> HIDE DEF a, b
<1>6. /\ a \o b \in Seq(S) /\ DOMAIN (a \o b) = 1..(Len(all) - 1)
      /\ \A k \in 1..(Len(all) - 1) : (a \o b)[k] = IF k <= s - 1 THEN a[k] ELSE b[k - (s - 1)]
  <2>1. /\ a \o b \in Seq(S) /\ Len(a \o b) = Len(a) + Len(b)
        /\ \A k \in 1..(Len(a) + Len(b)) : (a \o b)[k] = IF k <= Len(a) THEN a[k] ELSE b[k - Len(a)]
    BY <1>3, <1>4, ConcatProperties
  <2>2. Len(a) + Len(b) = Len(all) - 1
    BY <1>1, <1>3, <1>4
  <2>3. DOMAIN (a \o b) = 1..Len(a \o b)
    BY <2>1
  <2> QED BY <1>3, <2>1, <2>2, <2>3
<1>7. ASSUME NEW k \in 1..(Len(all) - 1)
      PROVE  \E j \in DOMAIN all : (a \o b)[k] = all[j]
  <2>1. CASE k <= s - 1
    <3>1. k \in 1..(s - 1) /\ k \in 1..Len(all)
      BY <1>1, <2>1
    <3>2. (a \o b)[k] = all[k]
      BY <1>3, <1>6, <2>1, <3>1
    <3> QED BY <1>2, <3>1, <3>2
  <2>2. CASE ~(k <= s - 1)
    <3>1. k - (s - 1) \in 1..(Len(all) - s) /\ s + (k - (s - 1)) = k + 1 /\ k + 1 \in 1..Len(all)
      BY <1>1, <2>2
    <3>2. (a \o b)[k] = all[k + 1]
      BY <1>4, <1>6, <2>2, <3>1
    <3> QED BY <1>2, <3>1, <3>2
  <2> QED BY <2>1, <2>2
<1> QED BY <1>5, <1>6, <1>7

LEMMA CompletePurchaseMoves ==
    ASSUME BillingInv, NEW s \in DOMAIN sessions, CompletePurchase(s)
    PROVE  Moves
<1> DEFINE u == sessions[s].user
           p == sessions[s].product
           product == ProductCatalog[p]
           k == Len(invoices) + 1
           new == [invoice |-> k, revoked |-> FALSE, entitlement |-> product.entitlement,
                   expires |-> now + product.days]
<1>1. /\ invoices' = Append(invoices, Invoice(u, 0, sessions[s].amount, "paid", "fixed", p))
      /\ purchased' = IF product.type # "sku" THEN purchased ELSE purchased \cup {new}
      /\ credits' = IF product.type # "credits" THEN credits
                    ELSE [credits EXCEPT ![u] = @ + product.credits]
      /\ sessions' = RemoveAt(sessions, s)
      /\ pushed' = {u}
      /\ UNCHANGED <<customer, subs, methods, usage, now, rated>>
  BY DEF CompletePurchase, notifyEntitlementsChanged
<1>2. /\ sessions \in Seq(PurchaseRow) /\ sessions[s] \in PurchaseRow /\ now \in Nat
      /\ credits \in [Payers -> Int] /\ customer[u] # Nil /\ purchased \subseteq GrantRow
      /\ customer \in [Payers -> CustomerRow \cup {Nil}]
  BY ElementOfSeq DEF BillingInv, BillingTyped, RowsHaveCustomers
<1>3. u \in Payers /\ p \in Products /\ sessions[s].amount \in Nat
  BY <1>2 DEF PurchaseRow
<1>4. /\ product.type = "sku" => product.entitlement = "reports"
      /\ product.days \in Nat /\ product.credits \in Nat
  BY <1>3, ProductIs
<1>5. Len(subs') \in Nat /\ 0 \in 0..Len(subs')
  BY <1>1, InvoicesKept
<1> DEFINE x == Invoice(u, 0, sessions[s].amount, "paid", "fixed", p)
<1>6. InvoicesMove
  <2>1. "fixed" \in Modes
    BY DEF Modes
  <2> HIDE DEF u, p
  <2> QED BY <1>1, <1>3, <1>5, <2>1, OneInvoice
<1>7. k \in DOMAIN invoices' /\ invoices'[k].user = u /\ k \in Nat
  <2>1. x.user = u
    BY DEF Invoice
  <2>2. invoices' = Append(invoices, x)
    BY <1>1
  <2> HIDE DEF x
  <2> QED BY <2>1, <2>2, InvoicesKept
<1>8. CustomersStay
  <2>1. credits' \in [Payers -> Int]
    <3> HIDE DEF u, product
    <3> QED BY <1>1, <1>2, <1>3, <1>4
  <2> QED BY <1>1, <2>1 DEF CustomersStay, BillingInv, BillingTyped
<1>9. GrantsMove
  <2>1. CASE product.type # "sku"
    BY <1>1, <2>1, Kept
  <2>2. CASE product.type = "sku"
    <3>1. new \in GrantRow /\ new.invoice = k
      <4>1. now + product.days \in Nat /\ product.entitlement \in {"reports"}
        BY <1>2, <1>4, <2>2
      <4> HIDE DEF product, k
      <4> QED BY <1>7, <4>1 DEF GrantRow
    <3>2. purchased' = purchased \cup {new} /\ pushed' = {u} /\ customer'[u] # Nil
      BY <1>1, <1>2, <2>2
    <3> HIDE DEF new, u, k
    <3> QED BY <1>2, <1>7, <3>1, <3>2 DEF GrantsMove
  <2> QED BY <2>1, <2>2
<1>10. SessionsMove
  <2>1. /\ sessions' \in Seq(PurchaseRow)
        /\ \A j \in DOMAIN sessions' : \E h \in DOMAIN sessions : sessions'[j] = sessions[h]
    BY <1>1, <1>2, SessionTaken
  <2>2. \A h \in DOMAIN sessions : customer'[sessions[h].user] # Nil
    BY <1>1 DEF BillingInv, RowsHaveCustomers
  <2> QED BY <2>1, <2>2 DEF SessionsMove
<1> QED BY <1>1, <1>6, <1>8, <1>9, <1>10, SameSubs, Kept DEF Moves

LEMMA ActivateMoves ==
    ASSUME BillingInv, NEW u \in Payers, NEW p \in Plans, NEW status \in CHANGEABLE,
           Activate(u, p, status)
    PROVE  Moves
<1> DEFINE c == CustomerOf(u)
           m == IF c.default # 0 THEN c.default ELSE Len(methods) + 1
           open == Newest(u, OPEN)
           i == IF open # 0 THEN open ELSE Len(subs) + 1
           before == IF open # 0 THEN subs[open] ELSE Row(u, p, c.provider, status)
           after == [before EXCEPT !.plan = p, !.mode = PlanCatalog[p].mode,
                                   !.status = status, !.method = m, !.end = now + Period]
<1>1. /\ customer' = [customer EXCEPT ![u] = [c EXCEPT !.default = m]]
      /\ methods' = IF c.default # 0 THEN methods
                    ELSE Append(methods, [user |-> u, default |-> TRUE])
      /\ subs' = IF open # 0 THEN [subs EXCEPT ![i] = after] ELSE Append(subs, after)
      /\ invoices' = Append(invoices, Invoice(u, i, PlanCatalog[p].price, "paid",
                                              PlanCatalog[p].mode, Nil))
      /\ pushed' = {u}
      /\ UNCHANGED <<purchased, credits, sessions, usage, now, rated>>
  BY DEF Activate, notifyEntitlementsChanged
<1>2. /\ c \in CustomerRow /\ methods \in Seq(MethodRow) /\ now \in Nat /\ now + Period \in Nat
      /\ subs \in Seq(SubRow) /\ Len(subs) \in Nat
  BY CustomerIs, MockBillingAssumption DEF BillingInv, BillingTyped, MockBillingAssumption
<1>3. m \in Nat /\ PlanCatalog[p].mode \in Modes /\ PlanCatalog[p].price \in Nat
  BY <1>2, PlanIs DEF CustomerRow
<1>4. status \in ENTITLED /\ status \in OPEN /\ status # "canceled"
  BY DEF CHANGEABLE, ENTITLED, OPEN
<1>5. \/ open = 0 /\ NoneOpen(u)
      \/ open \in DOMAIN subs /\ open # 0 /\ subs[open].user = u /\ subs[open].status \in OPEN
  BY CurrentIs
<1>6. before \in SubRow /\ before.user = u /\ LadderOf(before) /\ before.status # "canceled"
  <2>1. CASE open = 0
    <3>1. c.provider \in PaymentProviders
      BY <1>2 DEF CustomerRow
    <3> HIDE DEF c
    <3> QED BY <1>4, <2>1, <3>1, RowIs
  <2>2. CASE open # 0
    BY <1>5, <2>2, RowsAre DEF OPEN, ENTITLED
  <2> QED BY <2>1, <2>2
<1>7. /\ after \in SubRow /\ after.user = u /\ after.start = before.start /\ LadderOf(after)
      /\ after.status = status
  <2>1. status \in OPEN \cup {"canceled"}
    BY <1>4
  <2>2. before.attempts \in Nat
    BY <1>6 DEF SubRow
  <2> HIDE DEF before, m
  <2> QED BY <1>2, <1>3, <1>4, <1>6, <2>1, <2>2 DEF SubRow, LadderOf
<1>8. CustomersStay /\ customer'[u] # Nil
  <2>1. [c EXCEPT !.default = m] \in CustomerRow
    <3> HIDE DEF m, c
    <3> QED BY <1>2, <1>3 DEF CustomerRow
  <2>2. methods' \in Seq(MethodRow)
    <3>1. [user |-> u, default |-> TRUE] \in MethodRow
      BY DEF MethodRow
    <3> HIDE DEF c
    <3> QED BY <1>1, <1>2, <3>1
  <2> QED BY <1>1, <2>1, <2>2, NewCustomer
<1>9. SubsMove
  <2>1. CASE open # 0
    <3>1. subs' = [subs EXCEPT ![open] = after] /\ before = subs[open]
      BY <1>1, <2>1
    <3> HIDE DEF after, before, open
    <3>2. Becomes(subs[open], after) /\ ToldOf(subs[open], after)
      BY <1>1, <1>6, <1>7, <3>1 DEF Becomes, ToldOf
    <3> QED BY <1>5, <1>7, <2>1, <3>1, <3>2, OneRow
  <2>2. CASE open = 0
    <3>1. subs' = Append(subs, after) /\ before = Row(u, p, c.provider, status)
      BY <1>1, <2>2
    <3>2. before.start = now
      BY <3>1 DEF Row
    <3> HIDE DEF after, before, open
    <3> QED BY <1>1, <1>5, <1>7, <1>8, <2>2, <3>1, <3>2, NewRow DEF NoneOpen
  <2> QED BY <2>1, <2>2
<1>10. InvoicesMove
  <2>1. subs' \in Seq(SubRow) /\ i \in 1..Len(subs')
    <3>1. subs' \in Seq(SubRow)
      BY <1>9 DEF SubsMove
    <3>2. CASE open # 0
      <4> HIDE DEF after
      <4> QED BY <1>1, <1>2, <1>5, <3>1, <3>2
    <3>3. CASE open = 0
      <4> HIDE DEF after
      <4> QED BY <1>1, <1>2, <1>7, <3>1, <3>3
    <3> QED BY <3>1, <3>2, <3>3
  <2>2. i \in 0..Len(subs') /\ Len(subs') \in Nat
    BY <2>1
  <2> HIDE DEF i
  <2> QED BY <1>1, <1>3, <2>2, OneInvoice
<1> QED BY <1>1, <1>8, <1>9, <1>10, Kept DEF Moves

LEMMA RenewalFailsMoves ==
    ASSUME BillingInv, NEW i \in DOMAIN subs, RenewalFails(i)
    PROVE  Moves
<1> DEFINE attempts == subs[i].attempts + 1
           over == attempts >= DunningMaxAttempts
           x == [subs[i] EXCEPT !.attempts = attempts,
                                !.status = IF over THEN "canceled" ELSE "past_due",
                                !.cancelAtEnd = @ /\ ~over]
<1>1. /\ subs[i].status \in ENTITLED
      /\ subs' = [subs EXCEPT ![i] = x]
      /\ pushed' = {subs[i].user}
      /\ UNCHANGED <<customer, invoices, methods, purchased, credits, sessions, usage, now, rated>>
  BY DEF RenewalFails, notifyEntitlementsChanged
<1>2. subs[i] \in SubRow /\ LadderOf(subs[i])
  BY RowsAre
<1>3. subs[i].attempts \in Nat /\ subs[i].attempts <= DunningMaxAttempts - 1
      /\ subs[i].status # "canceled"
  BY <1>1, <1>2 DEF SubRow, LadderOf, ENTITLED
<1>4. /\ attempts \in Nat /\ attempts <= DunningMaxAttempts
      /\ ~over => attempts <= DunningMaxAttempts - 1
  BY <1>3 DEF DunningMaxAttempts
<1> HIDE DEF attempts, over
<1>5. /\ x \in SubRow /\ x.user = subs[i].user /\ x.start = subs[i].start
      /\ x.attempts = attempts /\ x.status = IF over THEN "canceled" ELSE "past_due"
  BY <1>2, <1>4 DEF SubRow, OPEN, ENTITLED
<1> HIDE DEF x
<1>6. Becomes(subs[i], x) /\ ToldOf(subs[i], x)
  BY <1>1, <1>3, <1>4, <1>5 DEF Becomes, ToldOf, LadderOf
<1> QED BY <1>1, <1>5, <1>6, OneRow, Kept DEF Moves

LEMMA RenewalEndsMoves ==
    ASSUME BillingInv, NEW i \in DOMAIN subs, RenewalEnds(i)
    PROVE  Moves
<1> DEFINE x == [subs[i] EXCEPT !.status = "canceled"]
<1>1. /\ subs' = [subs EXCEPT ![i] = x]
      /\ pushed' = {subs[i].user}
      /\ UNCHANGED <<customer, invoices, methods, purchased, credits, sessions, usage, now, rated>>
  BY DEF RenewalEnds, notifyEntitlementsChanged
<1>2. subs[i] \in SubRow /\ LadderOf(subs[i])
  BY RowsAre
<1>3. /\ x \in SubRow /\ x.user = subs[i].user /\ x.start = subs[i].start
      /\ x.attempts = subs[i].attempts /\ x.status = "canceled" /\ subs[i].attempts \in Nat
  BY <1>2 DEF SubRow
<1> HIDE DEF x
<1>4. Becomes(subs[i], x) /\ ToldOf(subs[i], x)
  BY <1>1, <1>2, <1>3 DEF Becomes, ToldOf, LadderOf, DunningMaxAttempts, ENTITLED
<1> QED BY <1>1, <1>3, <1>4, OneRow, Kept DEF Moves

LEMMA RenewalPaysMoves ==
    ASSUME BillingInv, NEW i \in DOMAIN subs, RenewalPays(i)
    PROVE  Moves
<1> DEFINE u == subs[i].user
           p == PlanCatalog[subs[i].plan]
           metered == subs[i].mode = "usage"
           closed == IF metered THEN Rated(i) ELSE {}
           held == Max({0, credits[u]})
           spent == IF metered THEN Min({held, Units(closed)}) ELSE 0
           amount == IF metered THEN (Units(closed) - spent) * p.unit ELSE p.price
           x == [subs[i] EXCEPT !.status = "active", !.attempts = 0,
                                !.start = now, !.end = now + Period]
<1>1. /\ subs[i].status \in ENTITLED
      /\ credits' = IF spent > 0 THEN [credits EXCEPT ![u] = @ - spent] ELSE credits
      /\ invoices' = Append(invoices, Invoice(u, i, amount, "paid", subs[i].mode, Nil))
      /\ subs' = [subs EXCEPT ![i] = x]
      /\ rated' = [r \in DOMAIN rated |-> rated[r] + IF r \in closed THEN 1 ELSE 0]
      /\ pushed' = {u}
      /\ UNCHANGED <<customer, methods, purchased, sessions, usage, now>>
  BY DEF RenewalPays, notifyEntitlementsChanged
<1>2. /\ subs[i] \in SubRow /\ i \in Nat /\ now \in Nat /\ now + Period \in Nat
      /\ credits \in [Payers -> Int] /\ usage \in Seq(UsageRow) /\ rated \in Seq(Nat)
      /\ Len(rated) = Len(usage) /\ subs \in Seq(SubRow)
  BY RowsAre, MockBillingAssumption DEF BillingInv, BillingTyped, MockBillingAssumption
<1>3. /\ u \in Payers /\ p.price \in Nat /\ p.unit \in Nat /\ subs[i].mode \in Modes
      /\ subs[i].status # "canceled" /\ credits[u] \in Int
  BY <1>1, <1>2, PlanIs DEF SubRow, ENTITLED
<1>4. Units(closed) \in Nat
  <2>1. closed \subseteq 1..Len(usage) /\ Len(usage) \in Nat
    BY <1>2 DEF Rated
  <2> HIDE DEF closed
  <2>2. IsFiniteSet(1..Len(usage))
    BY <2>1, FS_Interval
  <2>3. IsFiniteSet(closed)
    BY <2>1, <2>2, FS_Subset
  <2> QED BY <2>3, FS_CardinalityType DEF Units
<1> HIDE DEF u, p, metered
<1>5. spent \in Int /\ (metered => spent <= Units(closed))
  <2>1. held \in Int
    <3> DEFINE b == credits[u]
    <3>1. b \in Int /\ 0 \in Int
      BY <1>3
    <3> HIDE DEF b
    <3>2. Max({0, b}) \in {0, b}
      BY <3>1, TwoOf, Zenon
    <3> QED BY <3>1, <3>2 DEF b
  <2> DEFINE n == Units(closed)
             least == Min({held, n})
  <2>2. n \in Int /\ (metered => spent = least) /\ (~metered => spent = 0)
    BY <1>4
  <2> HIDE DEF held, n, spent
  <2>3. least \in {held, n} /\ least <= n
    BY <2>1, <2>2, TwoOf, Zenon
  <2> QED BY <2>1, <2>2, <2>3 DEF n
<1>6. amount \in Nat
  <2> HIDE DEF spent, closed
  <2> QED BY <1>3, <1>4, <1>5
<1>7. SubsMove
  <2>1. /\ x \in SubRow /\ x.user = u /\ x.start = now /\ x.status = "active" /\ x.attempts = 0
    BY <1>2 DEF SubRow, OPEN, ENTITLED, u
  <2> HIDE DEF x
  <2>2. Becomes(subs[i], x) /\ ToldOf(subs[i], x)
    BY <1>1, <1>3, <2>1 DEF Becomes, ToldOf, LadderOf, DunningMaxAttempts, u
  <2> QED BY <1>1, <2>1, <2>2, OneRow
<1>8. CustomersStay
  <2>1. credits' \in [Payers -> Int]
    <3> HIDE DEF spent
    <3> QED BY <1>1, <1>2, <1>3, <1>5
  <2> QED BY <1>1, <2>1 DEF CustomersStay, BillingInv, BillingTyped
<1>9. InvoicesMove
  <2>1. i \in 0..Len(subs') /\ Len(subs') \in Nat
    <3> HIDE DEF x
    <3> QED BY <1>1, <1>2
  <2> HIDE DEF amount
  <2> QED BY <1>1, <1>3, <1>6, <2>1, OneInvoice
<1>10. UsageMoves
  <2>1. subs'[i].start = now
    BY <1>1, <1>2 DEF SubRow
  <2>2. DOMAIN rated = 1..Len(usage) /\ DOMAIN usage = 1..Len(usage) /\ Len(usage) \in Nat
    BY <1>2
  <2>3. \A r \in DOMAIN usage : rated[r] \in Nat
    BY <1>2, <2>2, ElementOfSeq
  <2>4. \A r \in DOMAIN usage : rated'[r] = rated[r] + IF r \in closed THEN 1 ELSE 0
    BY <1>1, <2>2
  <2>5. \A r \in closed : usage[r].sub = i /\ r \in Rated(i)
    BY DEF Rated
  <2> HIDE DEF closed, x
  <2>6. rated' \in Seq(Nat) /\ Len(rated') = Len(usage)
    <3>1. rated' \in [1..Len(usage) -> Nat]
      BY <1>1, <2>2, <2>3
    <3> QED BY <2>2, <3>1, SeqDef, LenProperties
  <2>7. ASSUME NEW r \in DOMAIN usage
        PROVE  \/ rated'[r] = rated[r]
               \/ /\ rated'[r] = rated[r] + 1 /\ r \in Rated(usage[r].sub)
                  /\ subs'[usage[r].sub].start = now
    BY <2>1, <2>3, <2>4, <2>5
  <2> QED BY <1>1, <1>2, <2>6, <2>7 DEF UsageMoves
<1> QED BY <1>1, <1>7, <1>8, <1>9, <1>10, Kept DEF Moves

LEMMA UserDeletedMoves ==
    ASSUME BillingInv, NEW u \in Payers, UserDeleted(u)
    PROVE  Moves
<1> DEFINE gone(i) == [subs[i] EXCEPT !.status = "canceled",
                                      !.cancelAtEnd = @ /\ subs[i].status = "canceled"]
           x(i) == IF customer[u] # Nil /\ subs[i].user = u THEN gone(i) ELSE subs[i]
<1>1. /\ subs' = [i \in DOMAIN subs |-> x(i)]
      /\ UNCHANGED <<customer, invoices, methods, purchased, credits, sessions, usage, now, rated>>
  BY DEF UserDeleted
<1>2. subs \in Seq(SubRow)
  BY DEF BillingInv, BillingTyped
<1>3. ASSUME NEW i \in DOMAIN subs
      PROVE  x(i) \in SubRow /\ Becomes(subs[i], x(i)) /\ ToldOf(subs[i], x(i))
  <2>1. subs[i] \in SubRow /\ LadderOf(subs[i])
    BY RowsAre
  <2>2. /\ gone(i) \in SubRow /\ gone(i).user = subs[i].user /\ gone(i).start = subs[i].start
        /\ gone(i).attempts = subs[i].attempts /\ gone(i).status = "canceled"
        /\ subs[i].attempts \in Nat
    BY <2>1 DEF SubRow
  <2> HIDE DEF gone
  <2> QED BY <2>1, <2>2 DEF Becomes, ToldOf, LadderOf, DunningMaxAttempts, ENTITLED
<1> HIDE DEF x
<1>4. subs' \in Seq(SubRow)
  <2>1. DOMAIN subs = 1..Len(subs) /\ Len(subs) \in Nat
    BY <1>2
  <2>2. subs' \in [1..Len(subs) -> SubRow]
    BY <1>1, <1>3, <2>1
  <2> QED BY <2>1, <2>2, SeqDef
<1>5. SubsMove
  BY <1>1, <1>3, <1>4 DEF SubsMove
<1> QED BY <1>1, <1>5, Kept DEF Moves

LEMMA TickMoves ==
    ASSUME BillingInv, Tick
    PROVE  Moves
<1>1. /\ now' = now + 1
      /\ UNCHANGED <<customer, subs, invoices, methods, purchased, credits, sessions, usage, rated>>
  BY DEF Tick
<1>2. CustomersStay
  BY <1>1 DEF CustomersStay, BillingInv, BillingTyped
<1> QED BY <1>1, <1>2, SameSubs, Kept DEF Moves

LEMMA EveryStepMoves ==
    ASSUME BillingInv, BillingNext
    PROVE  Moves
<1> USE DEF BillingNext
<1>1. CASE \E u \in Payers : \E p \in Plans : Checkout(u, p) \/ ChangePlan(u, p)
  BY <1>1, CheckoutMoves, ChangePlanMoves
<1>2. CASE \E u \in Payers : \E o \in PaymentProviders \cup {Nil} : SetRegion(u, o)
  BY <1>2, SetRegionMoves
<1>3. CASE \E u \in Payers : ReplaceMethod(u) \/ UserDeleted(u)
  BY <1>3, ReplaceMethodMoves, UserDeletedMoves
<1>4. CASE \E u \in Payers : \E m \in {"immediate", "period_end"} : Cancel(u, m)
  BY <1>4, CancelMoves
<1>5. CASE \E u \in Payers : \E p \in Products : \E a \in 1..2 : Purchase(u, p, a)
  BY <1>5, PurchaseMoves
<1>6. CASE \E u \in Payers : \E p \in Plans : \E s \in CHANGEABLE : Activate(u, p, s)
  BY <1>6, ActivateMoves
<1>7. CASE \E u \in Payers : \E meter \in Meters, at \in {now, 0} : RecordUsage(u, meter, at)
  BY <1>7, RecordUsageMoves
<1>8. CASE \E i \in DOMAIN subs : \E m \in {"immediate", "period_end"} : AdminCancel(i, m)
  BY <1>8, AdminCancelMoves
<1>9. CASE \E i \in DOMAIN subs : \E meter \in Meters : SeedUsage(i, meter, now)
  BY <1>9, SeedUsageMoves
<1>10. CASE \E i \in DOMAIN subs : RenewalFails(i) \/ RenewalEnds(i) \/ RenewalPays(i)
  BY <1>10, RenewalFailsMoves, RenewalEndsMoves, RenewalPaysMoves
<1>11. CASE \E k \in DOMAIN invoices : \E a \in 1..4 : Refund(k, a)
  BY <1>11, RefundMoves
<1>12. CASE \E s \in DOMAIN sessions : CompletePurchase(s)
  BY <1>12, CompletePurchaseMoves
<1>13. CASE Tick
  BY <1>13, TickMoves
<1> QED BY <1>1, <1>2, <1>3, <1>4, <1>5, <1>6, <1>7, <1>8, <1>9, <1>10, <1>11, <1>12, <1>13

LEMMA BillingInvHolds == BillingSpec => []BillingInv
<1>1. BillingInit => BillingInv
  <2> SUFFICES ASSUME BillingInit PROVE BillingInv
    OBVIOUS
  <2> USE DEF BillingInit
  <2>1. BillingTyped
    BY DEF BillingTyped
  <2>2. /\ RowsHaveCustomers /\ OneIsOpen /\ LaddersGoOn /\ RatedAreBefore /\ RefundsWithin
    BY DEF RowsHaveCustomers, OneIsOpen, LaddersGoOn, RatedAreBefore, RefundsWithin
  <2> QED BY <2>1, <2>2 DEF BillingInv
<1>2. BillingInv /\ [BillingNext]_billingVars => BillingInv'
  <2>1. BillingInv /\ BillingNext => BillingInv'
    BY EveryStepMoves, MovesKeepInv
  <2>2. BillingInv /\ UNCHANGED billingVars => BillingInv'
    BY DEF billingVars, BillingInv, BillingTyped, RowsHaveCustomers, OneIsOpen, Closed,
           LaddersGoOn, RatedAreBefore, RefundsWithin
  <2> QED BY <2>1, <2>2
<1> QED BY <1>1, <1>2, PTL DEF BillingSpec

\* A usage record of the mock enters at most one invoice, whatever plan changes,
\* backdated records and early renewals happen around a boundary: a paid renewal
\* sums the records from its period's start on and starts the next period after them
\* (advance-renewal in mock-server/src/control.routes.ts).
THEOREM MockRecordsAreRatedOnce == BillingSpec => []RatedOnce
<1>1. BillingInv => RatedOnce
  <2> SUFFICES ASSUME BillingInv, NEW r \in DOMAIN rated PROVE rated[r] <= 1
    BY DEF RatedOnce
  <2>1. rated \in Seq(Nat) /\ usage \in Seq(UsageRow) /\ Len(rated) = Len(usage)
    BY DEF BillingInv, BillingTyped
  <2>2. r \in DOMAIN usage
    BY <2>1
  <2> QED BY <2>2 DEF BillingInv, RatedAreBefore
<1> QED BY <1>1, BillingInvHolds, PTL

\* No step of the mock gives a user a capability without telling his clients: every
\* handler that opens a row, changes its plan or adds a grant ends in
\* notifyEntitlementsChanged (mock-server: billing.middleware.ts, control.routes.ts).
THEOREM MockGainsArePushed == BillingSpec => GainIsPushed
<1>1. BillingInv /\ [BillingNext]_billingVars
        => [\A u \in Payers : \/ resolveEntitlements(u)' \subseteq resolveEntitlements(u)
                               \/ u \in pushed']_billingVars
  <2>1. ASSUME BillingInv, BillingNext, NEW u \in Payers
        PROVE  \/ resolveEntitlements(u)' \subseteq resolveEntitlements(u)
               \/ u \in pushed'
    BY <2>1, EveryStepMoves, MovesPush
  <2> QED BY <2>1
<1> QED BY <1>1, BillingInvHolds, PTL DEF BillingSpec, GainIsPushed

----------------------------------------------------------------------------
(* The card a subscription charges. *)

(* A method shown as the default is the customer's, and an open row        *)
(* charges none other.                                                     *)
DefaultsAreShown ==
    /\ \A u \in Payers : customer[u] # Nil => customer[u].default \in 0..Len(methods)
    /\ \A i \in DOMAIN subs :
          /\ subs[i].method \in 0..Len(methods)
          /\ Closed(i) \/ subs[i].method \in {0, customer[subs[i].user].default}
    /\ \A m \in DOMAIN methods :
          methods[m].default <=> /\ customer[methods[m].user] # Nil
                                 /\ customer[methods[m].user].default = m
    /\ \A u \in Payers : customer[u] # Nil /\ customer[u].default # 0 =>
          methods[customer[u].default].user = u

(* Nobody's default changes, and a row charges it, what it did or nothing. *)
KeepsDefaults ==
    /\ methods' = methods
    /\ \A u \in Payers : customer'[u] # Nil =>
          customer'[u].default = IF customer[u] = Nil THEN 0 ELSE customer[u].default
    /\ \A i \in DOMAIN subs' :
          \/ i \in DOMAIN subs /\ subs'[i].method = subs[i].method
          \/ subs'[i].method \in {0, customer'[subs'[i].user].default}

(* u's default is a new method, and u's open row charges it.               *)
NewDefault(u) ==
    LET m == Len(methods) + 1
    IN  /\ Len(methods') = m
        /\ methods'[m].user = u /\ methods'[m].default
        /\ \A k \in DOMAIN methods :
              /\ methods'[k].user = methods[k].user
              /\ methods'[k].default <=> methods[k].default /\ methods[k].user # u
        /\ customer'[u] # Nil /\ customer'[u].default = m
        /\ \A v \in Payers \ {u} : customer'[v] = customer[v]
        /\ \A i \in DOMAIN subs' :
              \/ subs'[i].user = u /\ subs'[i].method = m
              \/ /\ i \in DOMAIN subs /\ subs'[i] = subs[i]
                 /\ subs[i].user # u \/ Closed(i)

LEMMA DefaultsKept ==
    ASSUME BillingInv, Moves, DefaultsAreShown, KeepsDefaults
    PROVE  DefaultsAreShown'
<1>1. BillingInv'
  BY MovesKeepInv
<1>2. /\ subs \in Seq(SubRow) /\ subs' \in Seq(SubRow) /\ methods \in Seq(MethodRow)
      /\ methods' = methods /\ Len(methods) \in Nat
  BY <1>1 DEF BillingInv, BillingTyped, KeepsDefaults
<1>3. \A u \in Payers : customer[u] # Nil =>
         customer'[u] # Nil /\ customer'[u].default = customer[u].default
  BY DEF Moves, CustomersStay, KeepsDefaults
<1>4. \A u \in Payers : customer'[u] # Nil => customer'[u].default \in 0..Len(methods)
  BY <1>2 DEF KeepsDefaults, DefaultsAreShown
<1>5. ASSUME NEW i \in DOMAIN subs'
      PROVE  /\ subs'[i].method \in 0..Len(methods')
             /\ Closed(i)' \/ subs'[i].method \in {0, customer'[subs'[i].user].default}
  <2>1. subs'[i].user \in Payers /\ customer'[subs'[i].user] # Nil
    <3>1. subs'[i] \in SubRow
      BY <1>2, ElementOfSeq
    <3> QED BY <1>1, <3>1 DEF BillingInv, RowsHaveCustomers, SubRow
  <2>2. CASE i \in DOMAIN subs /\ subs'[i].method = subs[i].method
    <3>1. subs'[i].user = subs[i].user /\ (Closed(i) => Closed(i)')
      BY <2>2 DEF Moves, SubsMove, Becomes, Closed
    <3>2. customer[subs[i].user] # Nil
      BY <2>2 DEF BillingInv, RowsHaveCustomers
    <3>3. /\ subs[i].method \in 0..Len(methods)
          /\ Closed(i) \/ subs[i].method \in {0, customer[subs[i].user].default}
      BY <2>2 DEF DefaultsAreShown
    <3>4. customer'[subs[i].user].default = customer[subs[i].user].default
      BY <1>3, <2>1, <3>1, <3>2
    <3> QED BY <1>2, <2>2, <3>1, <3>3, <3>4
  <2>3. CASE subs'[i].method \in {0, customer'[subs'[i].user].default}
    BY <1>2, <1>4, <2>1, <2>3
  <2> QED BY <2>2, <2>3 DEF KeepsDefaults
<1>6. ASSUME NEW k \in DOMAIN methods'
      PROVE  methods'[k].default <=> /\ customer'[methods'[k].user] # Nil
                                     /\ customer'[methods'[k].user].default = k
  <2>1. methods[k].user \in Payers /\ k # 0
    <3>1. methods[k] \in MethodRow /\ k \in 1..Len(methods)
      BY <1>2, ElementOfSeq
    <3> QED BY <1>2, <3>1 DEF MethodRow
  <2>2. methods[k].default <=> /\ customer[methods[k].user] # Nil
                               /\ customer[methods[k].user].default = k
    BY <1>2 DEF DefaultsAreShown
  <2> QED BY <1>2, <1>3, <2>1, <2>2 DEF KeepsDefaults
<1>7. ASSUME NEW u \in Payers, customer'[u] # Nil, customer'[u].default # 0
      PROVE  methods'[customer'[u].default].user = u
  BY <1>2, <1>7 DEF KeepsDefaults, DefaultsAreShown
<1> QED BY <1>2, <1>4, <1>5, <1>6, <1>7 DEF DefaultsAreShown

LEMMA DefaultMoved ==
    ASSUME BillingInv, Moves, DefaultsAreShown, NEW u \in Payers, NewDefault(u)
    PROVE  DefaultsAreShown'
<1> DEFINE m == Len(methods) + 1
<1>1. BillingInv'
  BY MovesKeepInv
<1>2. /\ subs \in Seq(SubRow) /\ subs' \in Seq(SubRow) /\ methods \in Seq(MethodRow)
      /\ methods' \in Seq(MethodRow) /\ Len(methods) \in Nat
      /\ DOMAIN methods = 1..Len(methods) /\ DOMAIN methods' = 1..Len(methods')
      /\ Len(methods') \in Nat
  BY <1>1 DEF BillingInv, BillingTyped
<1>3. Len(methods') = m
  BY DEF NewDefault
<1>4. /\ customer'[u] # Nil /\ customer'[u].default = m
      /\ \A v \in Payers \ {u} : customer'[v] = customer[v]
      /\ methods'[m].user = u /\ methods'[m].default
      /\ \A k \in DOMAIN methods : /\ methods'[k].user = methods[k].user
                                   /\ methods'[k].default <=> methods[k].default /\ methods[k].user # u
  BY DEF NewDefault
<1>5. \A v \in Payers : customer'[v] # Nil => customer'[v].default \in 0..Len(methods')
  <2> SUFFICES ASSUME NEW v \in Payers, customer'[v] # Nil PROVE customer'[v].default \in 0..m
    BY <1>3
  <2>1. CASE v = u
    BY <1>2, <1>4, <2>1
  <2>2. CASE v # u
    BY <1>2, <1>4, <2>2 DEF DefaultsAreShown
  <2> QED BY <2>1, <2>2
<1>6. ASSUME NEW i \in DOMAIN subs'
      PROVE  /\ subs'[i].method \in 0..Len(methods')
             /\ Closed(i)' \/ subs'[i].method \in {0, customer'[subs'[i].user].default}
  <2>1. CASE subs'[i].user = u /\ subs'[i].method = m
    BY <1>2, <1>3, <1>4, <2>1
  <2>2. CASE i \in DOMAIN subs /\ subs'[i] = subs[i] /\ (subs[i].user # u \/ Closed(i))
    <3>1. /\ subs[i].method \in 0..Len(methods)
          /\ Closed(i) \/ subs[i].method \in {0, customer[subs[i].user].default}
      BY <2>2 DEF DefaultsAreShown
    <3>2. subs[i].user \in Payers
      BY <2>2, RowsAre DEF SubRow
    <3>3. subs'[i].method \in 0..Len(methods')
      BY <1>2, <1>3, <2>2, <3>1
    <3>4. CASE Closed(i)
      BY <2>2, <3>3, <3>4 DEF Closed
    <3>5. CASE ~Closed(i)
      BY <1>4, <2>2, <3>1, <3>2, <3>3, <3>5
    <3> QED BY <3>4, <3>5
  <2> QED BY <2>1, <2>2 DEF NewDefault
<1>7. ASSUME NEW k \in DOMAIN methods'
      PROVE  methods'[k].default <=> /\ customer'[methods'[k].user] # Nil
                                     /\ customer'[methods'[k].user].default = k
  <2>1. CASE k = m
    BY <1>4, <2>1
  <2>2. CASE k # m
    <3>1. k \in DOMAIN methods
      BY <1>2, <1>3, <2>2
    <3>2. methods[k].user \in Payers
      <4>1. methods[k] \in MethodRow
        BY <1>2, <3>1, ElementOfSeq
      <4> QED BY <4>1 DEF MethodRow
    <3>3. methods[k].default <=> /\ customer[methods[k].user] # Nil
                                 /\ customer[methods[k].user].default = k
      BY <3>1 DEF DefaultsAreShown
    <3> QED BY <1>4, <2>2, <3>1, <3>2, <3>3
  <2> QED BY <2>1, <2>2
<1>8. ASSUME NEW v \in Payers, customer'[v] # Nil, customer'[v].default # 0
      PROVE  methods'[customer'[v].default].user = v
  <2>1. CASE v = u
    BY <1>4, <2>1
  <2>2. CASE v # u
    <3>1. customer'[v] = customer[v] /\ methods[customer[v].default].user = v
          /\ customer[v].default \in 0..Len(methods)
      BY <1>4, <1>8, <2>2 DEF DefaultsAreShown
    <3>2. customer[v].default \in DOMAIN methods
      BY <1>2, <1>8, <3>1
    <3> QED BY <1>4, <3>1, <3>2
  <2> QED BY <2>1, <2>2
<1> QED BY <1>5, <1>6, <1>7, <1>8 DEF DefaultsAreShown

(* Rows that keep what they charge.                                        *)
LEMMA RowsKeepMethods ==
    ASSUME UNCHANGED <<customer, methods>>, DOMAIN subs' = DOMAIN subs,
           \A i \in DOMAIN subs : subs'[i].method = subs[i].method
    PROVE  KeepsDefaults
BY DEF KeepsDefaults

LEMMA OneRowKeepsMethod ==
    ASSUME BillingInv, NEW i \in DOMAIN subs, UNCHANGED <<customer, methods>>, NEW x,
           x.method = subs[i].method, subs' = [subs EXCEPT ![i] = x]
    PROVE  KeepsDefaults
<1>1. subs \in Seq(SubRow)
  BY DEF BillingInv, BillingTyped
<1>2. DOMAIN subs' = DOMAIN subs /\ \A j \in DOMAIN subs : subs'[j].method = subs[j].method
  BY <1>1
<1> QED BY <1>2, RowsKeepMethods

(* A handler that makes u a customer changes nobody's default.             *)
LEMMA NewCustomerHasNone ==
    ASSUME BillingInv, NEW u \in Payers, NEW c, c.default = CustomerOf(u).default,
           customer' = [customer EXCEPT ![u] = c]
    PROVE  \A v \in Payers : customer'[v] # Nil =>
              customer'[v].default = IF customer[v] = Nil THEN 0 ELSE customer[v].default
<1>1. customer \in [Payers -> CustomerRow \cup {Nil}]
  BY DEF BillingInv, BillingTyped
<1>2. c.default = IF customer[u] = Nil THEN 0 ELSE customer[u].default
  BY CustomerIs
<1> QED BY <1>1, <1>2

LEMMA CheckoutDefaults ==
    ASSUME BillingInv, NEW u \in Payers, NEW p \in Plans, Checkout(u, p)
    PROVE  KeepsDefaults
<1> DEFINE pending == {i \in DOMAIN subs : subs[i].user = u /\ subs[i].status = "incomplete"}
           provider == effectiveProvider(CustomerOf(u), u)
           i == Min(pending)
           y == Row(u, p, provider, "incomplete")
           x == [y EXCEPT !.attempts = subs[i].attempts]
<1>1. /\ customer' = [customer EXCEPT ![u] = CustomerOf(u)] /\ methods' = methods
      /\ \/ subs' = subs
         \/ subs' = [subs EXCEPT ![i] = x]
         \/ subs' = Append(subs, y)
         \/ subs' = [j \in DOMAIN subs |->
                        IF pending # {} /\ j = i THEN [subs[j] EXCEPT !.status = "canceled"]
                        ELSE subs[j]]
  BY DEF Checkout
<1>2. subs \in Seq(SubRow) /\ \A j \in DOMAIN subs : subs[j] \in SubRow
  BY RowsAre DEF BillingInv, BillingTyped
<1>3. x.method = 0 /\ y.method = 0
  BY DEF Row
<1>4. \A v \in Payers : customer'[v] # Nil =>
         customer'[v].default = IF customer[v] = Nil THEN 0 ELSE customer[v].default
  BY <1>1, NewCustomerHasNone
<1> HIDE DEF x, y, i, pending
<1>5. ASSUME NEW j \in DOMAIN subs'
      PROVE  \/ j \in DOMAIN subs /\ subs'[j].method = subs[j].method
             \/ subs'[j].method = 0
  <2>1. CASE subs' = subs
    BY <2>1
  <2>2. CASE subs' = [subs EXCEPT ![i] = x]
    <3>1. j \in DOMAIN subs /\ subs'[j] = IF j = i THEN x ELSE subs[j]
      BY <1>2, <2>2
    <3> QED BY <1>3, <3>1
  <2>3. CASE subs' = Append(subs, y)
    <3>1. \/ j \in DOMAIN subs /\ subs'[j] = subs[j]
          \/ subs'[j] = y
      <4>1. DOMAIN subs = 1..Len(subs) /\ Len(subs) \in Nat /\ j \in 1..Len(subs) + 1
        BY <1>2, <2>3
      <4>2. CASE j = Len(subs) + 1
        BY <1>2, <2>3, <4>2
      <4>3. CASE j # Len(subs) + 1
        BY <1>2, <2>3, <4>1, <4>3
      <4> QED BY <4>2, <4>3
    <3> QED BY <1>3, <3>1
  <2>4. CASE subs' = [k \in DOMAIN subs |->
                        IF pending # {} /\ k = i THEN [subs[k] EXCEPT !.status = "canceled"]
                        ELSE subs[k]]
    <3>1. j \in DOMAIN subs /\ subs'[j] \in {subs[j], [subs[j] EXCEPT !.status = "canceled"]}
      BY <2>4
    <3> QED BY <1>2, <3>1 DEF SubRow
  <2> QED BY <1>1, <2>1, <2>2, <2>3, <2>4
<1> QED BY <1>1, <1>4, <1>5 DEF KeepsDefaults

LEMMA ReplaceDefaults ==
    ASSUME BillingInv, NEW u \in Payers, ReplaceMethod(u)
    PROVE  NewDefault(u)
<1> DEFINE i == findCurrentSubscription(u)
           m == Len(methods) + 1
           old == [k \in DOMAIN methods |->
                      [methods[k] EXCEPT !.default = @ /\ methods[k].user # u]]
           new == [user |-> u, default |-> TRUE]
<1>1. /\ i # 0 /\ methods' = Append(old, new)
      /\ customer' = [customer EXCEPT ![u].default = m]
      /\ subs' = [subs EXCEPT ![i].method = m]
  BY DEF ReplaceMethod
<1>2. /\ methods \in Seq(MethodRow) /\ m \in Nat /\ subs \in Seq(SubRow)
      /\ customer \in [Payers -> CustomerRow \cup {Nil}] /\ Len(methods) \in Nat
      /\ DOMAIN methods = 1..Len(methods) /\ \A k \in DOMAIN methods : methods[k] \in MethodRow
  BY ElementOfSeq DEF BillingInv, BillingTyped
<1>3. i \in DOMAIN subs /\ customer[u] # Nil /\ subs[i].user = u /\ subs[i].status \in OPEN
  BY <1>1, CurrentIs DEF findCurrentSubscription
<1>4. /\ Len(methods') = m /\ methods'[m] = new
      /\ \A k \in DOMAIN methods : methods'[k] = old[k]
  <2>1. old \in [1..Len(methods) -> MethodRow] /\ new \in MethodRow
    BY <1>2 DEF MethodRow
  <2> HIDE DEF old, new
  <2>2. old \in Seq(MethodRow) /\ Len(old) = Len(methods)
    BY <1>2, <2>1, SeqDef, LenProperties
  <2>3. /\ Append(old, new) \in Seq(MethodRow) /\ Len(Append(old, new)) = Len(old) + 1
        /\ \A k \in 1..Len(old) : Append(old, new)[k] = old[k]
        /\ Append(old, new)[Len(old) + 1] = new
    BY <2>1, <2>2, AppendProperties
  <2> QED BY <1>1, <1>2, <2>2, <2>3
<1>5. customer'[u].default = m /\ \A v \in Payers \ {u} : customer'[v] = customer[v]
  BY <1>1, <1>2, <1>3 DEF CustomerRow
<1>6. customer'[u] # Nil
  <2>1. [customer[u] EXCEPT !.default = m] \in CustomerRow
    BY <1>2, <1>3 DEF CustomerRow
  <2> QED BY <1>1, <1>2, <2>1, MockBillingAssumption DEF MockBillingAssumption
<1>7. ASSUME NEW j \in DOMAIN subs'
      PROVE  \/ subs'[j].user = u /\ subs'[j].method = m
             \/ /\ j \in DOMAIN subs /\ subs'[j] = subs[j]
                /\ subs[j].user # u \/ Closed(j)
  <2> HIDE DEF i, m
  <2>1. CASE j = i
    <3>1. subs'[j] = [subs[i] EXCEPT !.method = m] /\ subs[i] \in SubRow
      BY <1>1, <1>2, <1>3, <2>1, RowsAre
    <3> QED BY <1>3, <3>1 DEF SubRow
  <2>2. CASE j # i
    <3>1. j \in DOMAIN subs /\ subs'[j] = subs[j]
      BY <1>1, <1>2, <2>2
    <3>2. subs[j].user = u => Closed(j)
      BY <1>3, <2>2, <3>1 DEF BillingInv, OneIsOpen, Closed, OPEN, ENTITLED
    <3> QED BY <3>1, <3>2
  <2> QED BY <2>1, <2>2
<1>8. \A k \in DOMAIN methods : /\ methods'[k].user = methods[k].user
                                /\ methods'[k].default <=> methods[k].default /\ methods[k].user # u
  BY <1>2, <1>4 DEF MethodRow
<1> QED BY <1>4, <1>5, <1>6, <1>7, <1>8 DEF NewDefault

LEMMA ActivateDefaults ==
    ASSUME BillingInv, DefaultsAreShown, NEW u \in Payers, NEW p \in Plans,
           NEW status \in CHANGEABLE, Activate(u, p, status)
    PROVE  KeepsDefaults \/ NewDefault(u)
<1> DEFINE c == CustomerOf(u)
           m == IF c.default # 0 THEN c.default ELSE Len(methods) + 1
           open == Newest(u, OPEN)
           i == IF open # 0 THEN open ELSE Len(subs) + 1
           before == IF open # 0 THEN subs[open] ELSE Row(u, p, c.provider, status)
           after == [before EXCEPT !.plan = p, !.mode = PlanCatalog[p].mode,
                                   !.status = status, !.method = m, !.end = now + Period]
           d == [c EXCEPT !.default = m]
           new == [user |-> u, default |-> TRUE]
<1>1. /\ customer' = [customer EXCEPT ![u] = d]
      /\ methods' = IF c.default # 0 THEN methods ELSE Append(methods, new)
      /\ subs' = IF open # 0 THEN [subs EXCEPT ![i] = after] ELSE Append(subs, after)
  BY DEF Activate
<1>2. /\ c \in CustomerRow /\ methods \in Seq(MethodRow) /\ subs \in Seq(SubRow)
      /\ customer \in [Payers -> CustomerRow \cup {Nil}] /\ Len(methods) \in Nat
      /\ DOMAIN methods = 1..Len(methods)
      /\ \A k \in DOMAIN methods : methods[k] \in MethodRow
  BY CustomerIs, ElementOfSeq DEF BillingInv, BillingTyped
<1>3. d \in CustomerRow /\ d.default = m /\ d # Nil
  <2>1. m \in Nat
    BY <1>2 DEF CustomerRow
  <2> HIDE DEF c, m
  <2>2. d \in CustomerRow /\ d.default = m
    BY <1>2, <2>1 DEF CustomerRow
  <2> QED BY <2>2, MockBillingAssumption DEF MockBillingAssumption
<1>4. customer'[u] = d /\ \A v \in Payers \ {u} : customer'[v] = customer[v]
  <2> HIDE DEF d
  <2> QED BY <1>1, <1>2
<1>5. \/ open = 0 /\ NoneOpen(u)
      \/ open \in DOMAIN subs /\ subs[open].user = u /\ subs[open].status \in OPEN
  BY CurrentIs
<1>6. after.user = u /\ after.method = m
  <2>1. CASE open = 0
    <3> HIDE DEF m, c
    <3> QED BY <2>1 DEF Row
  <2>2. CASE open # 0
    <3>1. subs[open] \in SubRow /\ subs[open].user = u
      BY <1>5, <2>2, RowsAre
    <3> HIDE DEF m, open
    <3> QED BY <2>2, <3>1 DEF SubRow
  <2> QED BY <2>1, <2>2
<1>7. ASSUME NEW j \in DOMAIN subs'
      PROVE  \/ subs'[j].user = u /\ subs'[j].method = m
             \/ /\ j \in DOMAIN subs /\ subs'[j] = subs[j]
                /\ subs[j].user # u \/ Closed(j)
  <2> HIDE DEF after, m, open
  <2>1. CASE open = 0
    <3>1. DOMAIN subs = 1..Len(subs) /\ Len(subs) \in Nat /\ j \in 1..Len(subs) + 1
      BY <1>1, <1>2, <2>1
    <3>2. CASE j = Len(subs) + 1
      BY <1>1, <1>2, <1>6, <2>1, <3>2
    <3>3. CASE j # Len(subs) + 1
      BY <1>1, <1>2, <1>5, <2>1, <3>1, <3>3, RowsAre DEF NoneOpen, Closed
    <3> QED BY <3>2, <3>3
  <2>2. CASE open # 0
    <3>1. open \in DOMAIN subs /\ subs[open].user = u /\ subs[open].status \in OPEN
      BY <1>5, <2>2
    <3>2. j \in DOMAIN subs /\ subs'[j] = IF j = open THEN after ELSE subs[j]
      BY <1>1, <1>2, <2>2
    <3>3. j # open /\ subs[j].user = u => Closed(j)
      BY <3>1, <3>2 DEF BillingInv, OneIsOpen, Closed, OPEN, ENTITLED
    <3> QED BY <1>6, <3>2, <3>3
  <2> QED BY <2>1, <2>2
<1>8. CASE c.default # 0
  <2>1. m = c.default /\ methods' = methods
    BY <1>1, <1>8
  <2>2. \A v \in Payers : customer'[v] # Nil =>
           customer'[v].default = IF customer[v] = Nil THEN 0 ELSE customer[v].default
    BY <1>1, <1>3, <2>1, NewCustomerHasNone
  <2>3. ASSUME NEW j \in DOMAIN subs'
        PROVE  \/ j \in DOMAIN subs /\ subs'[j].method = subs[j].method
               \/ subs'[j].method \in {0, customer'[subs'[j].user].default}
    <3> HIDE DEF m, d
    <3> QED BY <1>3, <1>4, <1>7
  <2> QED BY <2>1, <2>2, <2>3 DEF KeepsDefaults
<1>9. CASE c.default = 0
  <2>1. m = Len(methods) + 1 /\ methods' = Append(methods, new)
    BY <1>1, <1>9
  <2>2. /\ Len(methods') = m /\ methods'[m] = new
        /\ \A k \in DOMAIN methods : methods'[k] = methods[k]
    BY <1>2, <2>1
  <2>3. ASSUME NEW k \in DOMAIN methods
        PROVE  ~(methods[k].default /\ methods[k].user = u)
    <3>1. methods[k].default <=> /\ customer[methods[k].user] # Nil
                                 /\ customer[methods[k].user].default = k
      BY DEF DefaultsAreShown
    <3>2. customer[u] # Nil => customer[u].default = 0
      BY <1>9, CustomerIs
    <3>3. k # 0
      BY <1>2
    <3> QED BY <3>1, <3>2, <3>3
  <2>4. \A k \in DOMAIN methods : /\ methods'[k].user = methods[k].user
                                  /\ methods'[k].default <=> methods[k].default /\ methods[k].user # u
    BY <1>2, <2>2, <2>3 DEF MethodRow
  <2>5. methods'[m].user = u /\ methods'[m].default
    <3> HIDE DEF m
    <3> QED BY <2>2
  <2> HIDE DEF c, d
  <2> QED BY <1>3, <1>4, <1>7, <2>1, <2>2, <2>4, <2>5 DEF NewDefault
<1> QED BY <1>8, <1>9

LEMMA DefaultsStep ==
    ASSUME BillingInv, DefaultsAreShown, BillingNext
    PROVE  KeepsDefaults \/ \E u \in Payers : NewDefault(u)
<1> USE DEF BillingNext
<1>0. subs \in Seq(SubRow) /\ \A i \in DOMAIN subs : subs[i] \in SubRow
  BY RowsAre DEF BillingInv, BillingTyped
<1>1. CASE \E u \in Payers : \E p \in Plans : Checkout(u, p)
  BY <1>1, CheckoutDefaults
<1>2. ASSUME NEW u \in Payers, NEW p \in Plans, ChangePlan(u, p)
      PROVE  KeepsDefaults
  <2> DEFINE i == findCurrentSubscription(u)
             x == [subs[i] EXCEPT !.plan = p, !.mode = PlanCatalog[p].mode]
  <2>1. i # 0 /\ subs' = [subs EXCEPT ![i] = x] /\ UNCHANGED <<customer, methods>>
    BY <1>2 DEF ChangePlan, Changeable
  <2>2. i \in DOMAIN subs
    BY <2>1, CurrentIs
  <2>3. x.method = subs[i].method
    <3> HIDE DEF i
    <3> QED BY <1>0, <2>2 DEF SubRow
  <2> HIDE DEF x, i
  <2> QED BY <2>1, <2>2, <2>3, OneRowKeepsMethod
<1>3. ASSUME NEW u \in Payers, NEW o \in PaymentProviders \cup {Nil}, SetRegion(u, o)
      PROVE  KeepsDefaults
  <2> DEFINE c == CustomerOf(u)
             d == [c EXCEPT !.override = o]
  <2>1. /\ customer' = [customer EXCEPT ![u] = c] \/ customer' = [customer EXCEPT ![u] = d]
        /\ UNCHANGED <<subs, methods>>
    BY <1>3 DEF SetRegion
  <2>2. d.default = c.default
    <3>1. c \in CustomerRow
      BY CustomerIs
    <3> QED BY <3>1 DEF CustomerRow
  <2> HIDE DEF d
  <2>3. \A v \in Payers : customer'[v] # Nil =>
           customer'[v].default = IF customer[v] = Nil THEN 0 ELSE customer[v].default
    BY <2>1, <2>2, NewCustomerHasNone
  <2> QED BY <2>1, <2>3 DEF KeepsDefaults
<1>4. CASE \E u \in Payers : ReplaceMethod(u)
  BY <1>4, ReplaceDefaults
<1>5. ASSUME NEW i \in DOMAIN subs, NEW mode, UNCHANGED <<customer, methods>>,
             subs' = [subs EXCEPT ![i] =
                       IF mode = "immediate"
                       THEN [@ EXCEPT !.status = "canceled", !.cancelAtEnd = FALSE]
                       ELSE [@ EXCEPT !.cancelAtEnd = TRUE]]
      PROVE  KeepsDefaults
  <2> DEFINE x == IF mode = "immediate"
                  THEN [subs[i] EXCEPT !.status = "canceled", !.cancelAtEnd = FALSE]
                  ELSE [subs[i] EXCEPT !.cancelAtEnd = TRUE]
  <2>1. subs' = [subs EXCEPT ![i] = x] /\ x.method = subs[i].method
    BY <1>0, <1>5 DEF SubRow
  <2> HIDE DEF x
  <2> QED BY <1>5, <2>1, OneRowKeepsMethod
<1>6. ASSUME NEW u \in Payers, NEW mode, Cancel(u, mode)
      PROVE  KeepsDefaults
  <2> DEFINE i == findCurrentSubscription(u)
  <2>1. i \in DOMAIN subs
    BY <1>6, CurrentIs DEF Cancel
  <2>2. /\ UNCHANGED <<customer, methods>>
        /\ subs' = [subs EXCEPT ![i] =
                       IF mode = "immediate"
                       THEN [@ EXCEPT !.status = "canceled", !.cancelAtEnd = FALSE]
                       ELSE [@ EXCEPT !.cancelAtEnd = TRUE]]
    BY <1>6 DEF Cancel
  <2> HIDE DEF i
  <2> QED BY <1>5, <2>1, <2>2
<1>7. ASSUME NEW i \in DOMAIN subs, NEW mode, AdminCancel(i, mode)
      PROVE  KeepsDefaults
  BY <1>5, <1>7 DEF AdminCancel
<1>8. ASSUME NEW u \in Payers, NEW p \in Products, NEW a \in 1..2, Purchase(u, p, a)
      PROVE  KeepsDefaults
  <2>1. customer' = [customer EXCEPT ![u] = CustomerOf(u)] /\ UNCHANGED <<subs, methods>>
    BY <1>8 DEF Purchase
  <2>2. \A v \in Payers : customer'[v] # Nil =>
           customer'[v].default = IF customer[v] = Nil THEN 0 ELSE customer[v].default
    BY <2>1, NewCustomerHasNone
  <2> QED BY <2>1, <2>2 DEF KeepsDefaults
<1>9. CASE \E u \in Payers : \E p \in Plans : \E s \in CHANGEABLE : Activate(u, p, s)
  BY <1>9, ActivateDefaults
<1>10. ASSUME UNCHANGED <<customer, methods, subs>>
       PROVE  KeepsDefaults
  BY <1>10, RowsKeepMethods
<1>11. ASSUME NEW i \in DOMAIN subs, RenewalFails(i) \/ RenewalEnds(i) \/ RenewalPays(i)
       PROVE  KeepsDefaults
  <2>1. UNCHANGED <<customer, methods>>
    BY <1>11 DEF RenewalFails, RenewalEnds, RenewalPays
  <2>2. CASE RenewalFails(i)
    <3> DEFINE over == subs[i].attempts + 1 >= DunningMaxAttempts
               x == [subs[i] EXCEPT !.attempts = subs[i].attempts + 1,
                                    !.status = IF over THEN "canceled" ELSE "past_due",
                                    !.cancelAtEnd = @ /\ ~over]
    <3>1. subs' = [subs EXCEPT ![i] = x]
      BY <2>2 DEF RenewalFails
    <3>2. x.method = subs[i].method
      BY <1>0 DEF SubRow
    <3> HIDE DEF x
    <3> QED BY <2>1, <3>1, <3>2, OneRowKeepsMethod
  <2>3. CASE RenewalEnds(i)
    <3> DEFINE x == [subs[i] EXCEPT !.status = "canceled"]
    <3>1. subs' = [subs EXCEPT ![i] = x] /\ x.method = subs[i].method
      BY <1>0, <2>3 DEF RenewalEnds, SubRow
    <3> HIDE DEF x
    <3> QED BY <2>1, <3>1, OneRowKeepsMethod
  <2>4. CASE RenewalPays(i)
    <3> DEFINE x == [subs[i] EXCEPT !.status = "active", !.attempts = 0,
                                    !.start = now, !.end = now + Period]
    <3>1. subs' = [subs EXCEPT ![i] = x] /\ x.method = subs[i].method
      BY <1>0, <2>4 DEF RenewalPays, SubRow
    <3> HIDE DEF x
    <3> QED BY <2>1, <3>1, OneRowKeepsMethod
  <2> QED BY <1>11, <2>2, <2>3, <2>4
<1>12. ASSUME NEW u \in Payers, UserDeleted(u)
       PROVE  KeepsDefaults
  <2>1. /\ UNCHANGED <<customer, methods>> /\ DOMAIN subs' = DOMAIN subs
        /\ \A i \in DOMAIN subs :
              subs'[i] \in {subs[i], [subs[i] EXCEPT !.status = "canceled",
                                        !.cancelAtEnd = @ /\ subs[i].status = "canceled"]}
    BY <1>12 DEF UserDeleted
  <2>2. \A i \in DOMAIN subs : subs'[i].method = subs[i].method
    BY <1>0, <2>1 DEF SubRow
  <2> QED BY <2>1, <2>2, RowsKeepMethods
<1>13. CASE \E u \in Payers : \E meter \in Meters, at \in {now, 0} : RecordUsage(u, meter, at)
  BY <1>10, <1>13 DEF RecordUsage
<1>14. CASE \E i \in DOMAIN subs : \E meter \in Meters : SeedUsage(i, meter, now)
  BY <1>10, <1>14 DEF SeedUsage
<1>15. CASE \/ \E k \in DOMAIN invoices : \E a \in 1..4 : Refund(k, a)
            \/ \E s \in DOMAIN sessions : CompletePurchase(s)
            \/ Tick
  BY <1>10, <1>15 DEF Refund, CompletePurchase, Tick
<1> QED BY <1>1, <1>2, <1>3, <1>4, <1>6, <1>7, <1>8, <1>9, <1>11, <1>12, <1>13, <1>14, <1>15

LEMMA DefaultsHold == BillingSpec => [](BillingInv /\ DefaultsAreShown)
<1>1. BillingInit => DefaultsAreShown
  BY DEF BillingInit, DefaultsAreShown
<1>2. BillingInv /\ DefaultsAreShown /\ [BillingNext]_billingVars => DefaultsAreShown'
  <2>1. BillingInv /\ DefaultsAreShown /\ BillingNext => DefaultsAreShown'
    BY EveryStepMoves, DefaultsStep, DefaultsKept, DefaultMoved
  <2>2. BillingInv /\ DefaultsAreShown /\ UNCHANGED billingVars => DefaultsAreShown'
    BY DEF billingVars, DefaultsAreShown, Closed
  <2> QED BY <2>1, <2>2
<1> QED BY <1>1, <1>2, BillingInvHolds, PTL DEF BillingSpec

\* A user of the mock has at most one open subscription, and it charges the card
\* that the settings page shows as the default: a replacement takes both over at once
\* (POST /billing/payment-method and activate-subscription).
THEOREM MockChargesTheDefault == BillingSpec => []OpenChargesDefault
<1>1. BillingInv /\ DefaultsAreShown => OpenChargesDefault
  <2> SUFFICES ASSUME BillingInv, DefaultsAreShown, NEW u \in Payers
               PROVE  LET open == {i \in DOMAIN subs : subs[i].user = u /\ subs[i].status # "canceled"}
                      IN  /\ Cardinality(open) <= 1
                          /\ \A i \in open : subs[i].method \in {0, customer[u].default}
                          /\ {m \in DOMAIN methods : methods[m].user = u /\ methods[m].default}
                                 = IF customer[u] = Nil THEN {} ELSE {customer[u].default} \ {0}
    BY DEF OpenChargesDefault
  <2> DEFINE open == {i \in DOMAIN subs : subs[i].user = u /\ subs[i].status # "canceled"}
             shown == {m \in DOMAIN methods : methods[m].user = u /\ methods[m].default}
  <2>1. \A i, j \in open : i = j
    BY DEF BillingInv, OneIsOpen, Closed
  <2>2. \A i \in open : subs[i].method \in {0, customer[u].default}
    BY DEF DefaultsAreShown, Closed
  <2>3. shown = IF customer[u] = Nil THEN {} ELSE {customer[u].default} \ {0}
    <3>1. methods \in Seq(MethodRow) /\ DOMAIN methods = 1..Len(methods) /\ Len(methods) \in Nat
      BY DEF BillingInv, BillingTyped
    <3>2. \A m \in shown : customer[u] # Nil /\ customer[u].default = m /\ m # 0
      BY <3>1 DEF DefaultsAreShown
    <3>3. ASSUME customer[u] # Nil, customer[u].default # 0
          PROVE  customer[u].default \in shown
      <4>1. customer[u].default \in DOMAIN methods /\ methods[customer[u].default].user = u
        BY <3>1, <3>3 DEF DefaultsAreShown
      <4> QED BY <3>3, <4>1 DEF DefaultsAreShown
    <3> HIDE DEF shown
    <3> QED BY <3>2, <3>3
  <2>4. Cardinality(open) <= 1
    <3> HIDE DEF open
    <3>1. CASE open = {}
      BY <3>1, FS_EmptySet
    <3>2. CASE open # {}
      <4>1. PICK i \in open : TRUE
        BY <3>2
      <4>2. open = {i}
        BY <2>1, <4>1
      <4> QED BY <4>2, FS_Singleton
    <3> QED BY <3>1, <3>2
  <2> QED BY <2>2, <2>3, <2>4
<1> QED BY <1>1, DefaultsHold, PTL

\* The rows of the mock's billing are well formed and name rows that exist: a refund
\* stays within its invoice and an open ladder below its last rung, for any numbers
\* of users, rows and requests.
THEOREM MockBillingTypeCorrect == BillingSpec => []MockBillingTypeOK
<1>1. BillingInv /\ DefaultsAreShown => MockBillingTypeOK
  <2> SUFFICES ASSUME BillingInv, DefaultsAreShown PROVE MockBillingTypeOK
    OBVIOUS
  <2>1. ASSUME NEW u \in Payers
        PROVE  /\ customer[u] # Nil => customer[u].default \in 0..Len(methods)
               /\ credits[u] \in Int
    BY DEF DefaultsAreShown, BillingInv, BillingTyped
  <2>2. ASSUME NEW i \in DOMAIN subs
        PROVE  /\ subs[i].status \in OPEN \cup {"canceled"}
               /\ subs[i].method \in 0..Len(methods)
               /\ subs[i].attempts \in 0..DunningMaxAttempts
               /\ customer[subs[i].user] # Nil
    <3>1. subs[i] \in SubRow /\ LadderOf(subs[i])
      BY RowsAre
    <3>2. subs[i].attempts \in 0..DunningMaxAttempts
      BY <3>1 DEF SubRow, LadderOf, DunningMaxAttempts
    <3> QED BY <3>1, <3>2 DEF SubRow, DefaultsAreShown, BillingInv, RowsHaveCustomers
  <2>3. ASSUME NEW k \in DOMAIN invoices
        PROVE  /\ invoices[k].sub \in 0..Len(subs)
               /\ invoices[k].refunded \in 0..invoices[k].amount
    BY InvoicesKept DEF BillingInv, RowsHaveCustomers
  <2>4. /\ \A g \in purchased : g.invoice \in DOMAIN invoices
        /\ Len(rated) = Len(usage)
    BY DEF BillingInv, BillingTyped, RowsHaveCustomers
  <2> QED BY <2>1, <2>2, <2>3, <2>4 DEF MockBillingTypeOK
<1> QED BY <1>1, DefaultsHold, PTL
=============================================================================
