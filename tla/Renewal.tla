------------------------------ MODULE Renewal ------------------------------
(***************************************************************************)
(* The self-managed renewal scheduler (renewals/renewal.service.ts) for    *)
(* one subscription: several scans run at once (two application instances, *)
(* or a stalled job that is run again), each reads the row, resolves the   *)
(* charge of the period that fell due and advances the period or walks the *)
(* dunning ladder.  Around it: the payment provider, whose calls time out  *)
(* while the request still lands; its confirming webhooks, late, repeated  *)
(* or never; the customer's and the operator's cancels; account deletion;  *)
(* and the crash of a scan between any two of its steps.                   *)
(*                                                                         *)
(* Time is counted in ticks of RetryDelay or less.  A scan takes seconds   *)
(* (provider-deadline.ts bounds every provider call), so the clock does    *)
(* not tick while one is running.                                          *)
(***************************************************************************)
EXTENDS Naturals, Sequences

CONSTANTS
    Scans,              \* the scans that may run at the same time
    PeriodLength,       \* ticks in a billing period
    TrialLength,        \* ticks from checkout to trial_end
    RetryDelay,         \* DUNNING_RETRY_DELAY_MS in ticks
    MaxAttempts,        \* DUNNING_MAX_ATTEMPTS
    IdempotenceWindow,  \* ticks for which the provider remembers a key
    Amounts,            \* what a period may be rated at (0: nothing to charge)
    InitialStatuses,    \* the statuses the subscription may start in
    LongOutage,         \* may no scan complete for longer than the window?
    MaxCrashes,         \* bound: crashes of a scan in a behaviour
    MaxClock            \* bound: the last tick

ASSUME RenewalAssumption ==
    /\ PeriodLength \in Nat \ {0}
    /\ TrialLength \in Nat \ {0}
    /\ RetryDelay \in Nat \ {0}
    /\ MaxAttempts \in Nat \ {0}
    /\ IdempotenceWindow \in Nat \ {0}
    /\ Amounts \subseteq Nat
    /\ InitialStatuses \subseteq {"trialing", "active"}
    /\ LongOutage \in BOOLEAN
    /\ MaxCrashes \in Nat
    /\ MaxClock \in Nat

VARIABLES
    clock,        \* the current tick
    sub,          \* the subscription row
    invoices,     \* the renewal invoice rows, by provider_event_id
    payments,     \* the provider's payments for this customer
    strays,       \* charge requests the caller gave up on, still under way
    scans,        \* what each running scan holds
    crashes,      \* scans lost so far
    scanned,      \* a scan completed since the last tick and the last lost scan
    paidEvents,   \* InvoicePaidEvent emissions (credits are spent with them)
    lastRung      \* the tick of the last dunning rung, 0 before the first

vars == <<clock, sub, invoices, payments, strays, scans, crashes,
          scanned, paidEvents, lastRung>>

Entitled == {"trialing", "active", "past_due"}
Statuses == Entitled \cup {"canceled"}

\* trialEnd and retryAt are 0 for NULL: no trial ends and no retry falls at 0.
SubType == [status: Statuses, periodStart: Nat, periodEnd: Nat, trialEnd: Nat,
            attempts: Nat, retryAt: Nat, cancelAtPeriodEnd: BOOLEAN]

InvoiceType == [status: {"pending", "paid", "failed", "refunded"}, amount: Nat]

\* period is the period start the charge was made from: the obligation it pays.
PaymentType == [key: Nat, period: Nat, amount: Nat, at: Nat,
                state: {"pending", "captured", "canceled"}]

RequestType == [key: Nat, period: Nat, amount: Nat]

Pcs == {"idle", "stop", "lookup", "poll", "flip", "reconcile",
        "charge", "record", "settle", "dun"}

\* A scan's locals: what it keeps of the row it read (the boundary that fell due,
\* the period and the rung), what it rated the period at, and whether the recorded
\* invoice keeps its amount (settleStored, keepStored).
ScanType == [pc: Pcs, anchor: Nat, start: Nat, end: Nat, attempts: Nat,
             amount: Nat, keep: BOOLEAN]

----------------------------------------------------------------------------
(* Reading the row. *)

\* The moment a row is due, 0 when it never is.
DueAt(row) ==
    CASE row.status = "trialing" -> row.trialEnd
      [] row.status = "past_due" -> row.retryAt
      [] row.status = "active"   -> row.periodEnd
      [] OTHER                   -> 0

IsDue(row) == DueAt(row) # 0 /\ DueAt(row) <= clock

\* Mutant: a period starts when the scan runs.
AnchorNow(row) == clock

\* The boundary the new period starts at; it names the idempotency key
\* renewal:{sub}:{anchor} and so the invoice row.
Anchor(row) ==
    IF row.status = "trialing" /\ row.trialEnd # 0 THEN row.trialEnd
                                                   ELSE row.periodEnd

NewSub(status) ==
    [status |-> status, periodStart |-> 0, periodEnd |-> PeriodLength,
     trialEnd |-> IF status = "trialing" THEN TrialLength ELSE 0,
     attempts |-> 0, retryAt |-> 0, cancelAtPeriodEnd |-> FALSE]

Idle == [pc |-> "idle", anchor |-> 0, start |-> 0, end |-> 0, attempts |-> 0,
         amount |-> 0, keep |-> FALSE]

AllIdle == \A s \in Scans : scans[s].pc = "idle"

\* Insert or update of the invoice row with key k.
WithInvoice(k, inv) ==
    [j \in DOMAIN invoices \cup {k} |-> IF j = k THEN inv ELSE invoices[j]]

HasInvoice(k, statuses) == k \in DOMAIN invoices /\ invoices[k].status \in statuses

Live(k)     == {i \in DOMAIN payments :
                    payments[i].key = k /\ payments[i].state # "canceled"}
Captured(k) == {i \in Live(k) : payments[i].state = "captured"}

Init ==
    /\ clock = 0
    /\ \E status \in InitialStatuses : sub = NewSub(status)
    /\ invoices = [k \in {} |-> {}]
    /\ payments = <<>>
    /\ strays = {}
    /\ scans = [s \in Scans |-> Idle]
    /\ crashes = 0
    /\ scanned = FALSE
    /\ paidEvents = <<>>
    /\ lastRung = 0

----------------------------------------------------------------------------
(* The steps of a scan. *)

Goto(s, pc) == scans' = [scans EXCEPT ![s].pc = pc]

\* The scan is done with this subscription.
Finish(s) == /\ scans' = [scans EXCEPT ![s] = Idle]
             /\ scanned' = TRUE

\* findDue lists the row and processSubscription reads it again: what it then
\* holds is this read, so listing is not a step of its own.  Stop at the boundary
\* if asked to, or rate the period (usage and the credit balance may rate it
\* differently from one scan to the next).
ReadSubscription(s) ==
    /\ scans[s].pc = "idle"
    /\ IsDue(sub)
    /\ \E amount \in Amounts :
          scans' = [scans EXCEPT ![s] =
              IF sub.cancelAtPeriodEnd
              THEN [Idle EXCEPT !.pc = "stop"]
              ELSE [pc |-> "lookup", anchor |-> Anchor(sub),
                    start |-> sub.periodStart, end |-> sub.periodEnd,
                    attempts |-> sub.attempts, amount |-> amount,
                    keep |-> FALSE]]
    /\ UNCHANGED <<clock, sub, invoices, payments, strays, crashes, scanned,
                   paidEvents, lastRung>>

\* cancelAtPeriodEnd: guarded on the state that justified the cancel.
CancelAtPeriodEnd(s) ==
    /\ scans[s].pc = "stop"
    /\ IF sub.status \in Entitled /\ sub.cancelAtPeriodEnd
       THEN sub' = [sub EXCEPT !.status = "canceled", !.retryAt = 0]
       ELSE UNCHANGED sub
    /\ Finish(s)
    /\ UNCHANGED <<clock, invoices, payments, strays, crashes,
                   paidEvents, lastRung>>

\* A webhook recorded the decline before any scan saw it: dun, do not re-charge.
DeclinedUnseen(scan) == HasInvoice(scan.anchor, {"failed"}) /\ scan.attempts = 0

\* Mutant: every unsettled row waits for the provider.
UnsettledAwaits(k) == HasInvoice(k, {"pending", "failed"})

\* An accepted charge is open at the provider.
AwaitsCapture(k) == HasInvoice(k, {"pending"})

\* Mutant: a retry charges without looking for the prior attempt.
NeverReconciles(scan) == FALSE

\* An earlier attempt at this period may have captured after it was given up on.
MayHaveCaptured(scan) == scan.attempts > 0

\* What the invoice row under the period's key decides.
Decision(scan) ==
    CASE HasInvoice(scan.anchor, {"paid", "refunded"}) -> "settle"
      [] AwaitsCapture(scan.anchor)                    -> "poll"
      [] DeclinedUnseen(scan)                          -> "dun"
      [] MayHaveCaptured(scan)                         -> "reconcile"
      [] OTHER -> IF scan.amount = 0 THEN "settle" ELSE "charge"

\* resolveDueCharge, first read.
LookUpInvoice(s) ==
    /\ scans[s].pc = "lookup"
    /\ scans' = [scans EXCEPT ![s].keep = scans[s].anchor \in DOMAIN invoices,
                              ![s].pc = Decision(scans[s])]
    /\ UNCHANGED <<clock, sub, invoices, payments, strays, crashes,
                   scanned, paidEvents, lastRung>>

\* Mutant: anything found at the provider counts as captured.
IsFound(i) == payments[i].state # "canceled"

IsCaptured(i) == payments[i].state = "captured"

\* findOffSessionCharge answers for a recorded pending charge.
PollAnswers(s) ==
    LET key == scans[s].anchor IN
    /\ scans[s].pc = "poll"
    /\ \/ /\ \E i \in Live(key) : IsCaptured(i)
          /\ Goto(s, "settle")
          /\ UNCHANGED scanned
       \/ /\ \E i \in Live(key) : payments[i].state = "pending"
          /\ Finish(s)
       \/ /\ Live(key) = {}
          /\ Goto(s, "flip")
          /\ UNCHANGED scanned
    /\ UNCHANGED <<clock, sub, invoices, payments, strays, crashes,
                   paidEvents, lastRung>>

\* The poll or the reconcile throws: this cycle decides nothing.
LookupFails(s) ==
    /\ scans[s].pc \in {"poll", "reconcile"}
    /\ Finish(s)
    /\ UNCHANGED <<clock, sub, invoices, payments, strays, crashes,
                   paidEvents, lastRung>>

\* Canceled at capture: the gated flip pending -> failed, and only the scan
\* that wins it goes on to dunning.
FlipFailed(s) ==
    LET key == scans[s].anchor IN
    /\ scans[s].pc = "flip"
    /\ IF HasInvoice(key, {"pending"})
       THEN /\ invoices' = [invoices EXCEPT ![key].status = "failed"]
            /\ Goto(s, "dun")
            /\ UNCHANGED scanned
       ELSE /\ UNCHANGED invoices
            /\ Finish(s)
    /\ UNCHANGED <<clock, sub, payments, strays, crashes, paidEvents,
                   lastRung>>

\* A dunning retry looks for the prior attempt's charge before a new one.
Reconcile(s) ==
    LET scan == scans[s]
        key  == scan.anchor
    IN
    /\ scan.pc = "reconcile"
    /\ \/ /\ \E i \in Live(key) : IsCaptured(i)
          /\ Goto(s, "settle")
       \/ /\ \E i \in Live(key) : payments[i].state = "pending"
          /\ Goto(s, "record")
       \/ /\ Live(key) = {}
          /\ scans' = [scans EXCEPT
                ![s].keep = FALSE,
                ![s].pc = IF scan.amount = 0 THEN "settle" ELSE "charge"]
    /\ UNCHANGED <<clock, sub, invoices, payments, strays, crashes,
                   scanned, paidEvents, lastRung>>

----------------------------------------------------------------------------
(* The charge. *)

\* The provider answers a repeated key from its key store while it remembers it.
Remembered(k) == {i \in DOMAIN payments :
                    payments[i].key = k /\ clock < payments[i].at + IdempotenceWindow}

\* createPayment at the provider: payments' and the state it answers with.
CreatePayment(req, state) ==
    IF Remembered(req.key) # {}
    THEN /\ \E i \in Remembered(req.key) : state = payments[i].state
         /\ UNCHANGED payments
    ELSE payments' = Append(payments,
             [key |-> req.key, period |-> req.period, amount |-> req.amount,
              at |-> clock, state |-> state])

Request(scan) == [key |-> scan.anchor, period |-> scan.start,
                  amount |-> scan.amount]

\* Mutants: an accepted charge settles; a declined one goes nowhere.
AcceptedSettles(state) == IF state = "canceled" THEN "dun" ELSE "settle"

\* Accepted is not captured: only captured funds settle.
AfterCharge(state) ==
    CASE state = "captured" -> "settle"
      [] state = "pending"  -> "record"
      [] OTHER              -> "dun"

\* chargeOffSession answers: canceled throws, succeeded is captured, anything
\* else is pending.
ChargeAnswers(s) ==
    /\ scans[s].pc = "charge"
    /\ \E state \in {"captured", "pending", "canceled"} :
          /\ CreatePayment(Request(scans[s]), state)
          /\ Goto(s, AfterCharge(state))
    /\ UNCHANGED <<clock, sub, invoices, strays, crashes, scanned,
                   paidEvents, lastRung>>

\* The call is given up on; its request may still be on its way.
ChargeTimesOut(s) ==
    /\ scans[s].pc = "charge"
    /\ \/ strays' = strays \cup {Request(scans[s])}
       \/ UNCHANGED strays
    /\ Goto(s, "dun")
    /\ UNCHANGED <<clock, sub, invoices, payments, crashes,
                   scanned, paidEvents, lastRung>>

\* A request nobody waits for any more lands.
StrayLands ==
    \E req \in strays :
       /\ strays' = strays \ {req}
       /\ \E state \in {"captured", "pending", "canceled"} :
             CreatePayment(req, state)
       /\ UNCHANGED <<clock, sub, invoices, scans, crashes,
                      scanned, paidEvents, lastRung>>

\* recordPendingCharge: insert the pending row, or re-open a failed one.
RecordPendingCharge(s) ==
    LET scan == scans[s]
        key  == scan.anchor
    IN
    /\ scan.pc = "record"
    /\ invoices' =
          IF key \notin DOMAIN invoices
          THEN WithInvoice(key, [status |-> "pending", amount |-> scan.amount])
          ELSE IF HasInvoice(key, {"failed"})
          THEN WithInvoice(key, [status |-> "pending",
                                 amount |-> IF scan.keep THEN invoices[key].amount
                                                         ELSE scan.amount])
          ELSE invoices
    /\ Finish(s)
    /\ UNCHANGED <<clock, sub, payments, strays, crashes, paidEvents,
                   lastRung>>

----------------------------------------------------------------------------
(* The outcome. *)

\* The compare-and-swap on the period end and the status.
CanAdvance(scan) == sub.periodEnd = scan.end /\ sub.status \in Entitled

\* The insert or the flip pending/failed -> paid is this scan's.
WinsSettle(k) == ~HasInvoice(k, {"paid", "refunded"})

\* The row after the advance.
Advanced(scan) ==
    [sub EXCEPT !.status = "active",
                !.periodStart = scan.anchor,
                !.periodEnd = scan.anchor + PeriodLength,
                !.trialEnd = 0, !.attempts = 0, !.retryAt = 0]

\* handleSuccess: one transaction settles the invoice (whoever wins the insert
\* or the flip spends the credits and emits) and advances the period.
HandleSuccess(s) ==
    LET scan == scans[s]
        key  == scan.anchor
    IN
    /\ scan.pc = "settle"
    /\ IF WinsSettle(key)
       THEN /\ invoices' = WithInvoice(key,
                  [status |-> "paid",
                   amount |-> IF key \in DOMAIN invoices /\ scan.keep
                              THEN invoices[key].amount ELSE scan.amount])
            /\ paidEvents' = Append(paidEvents, key)
       ELSE UNCHANGED <<invoices, paidEvents>>
    /\ sub' = IF CanAdvance(scan) THEN Advanced(scan) ELSE sub
    /\ Finish(s)
    /\ UNCHANGED <<clock, payments, strays, crashes, lastRung>>

\* Mutant: the rung is re-read instead of compared.
RungReread(scan) == IF sub.status \in Entitled THEN sub.attempts + 1 ELSE 0

\* The rung this scan takes: the compare-and-swap on the rung it read and on the
\* status; 0 when another writer was first.
RungTaken(scan) ==
    IF sub.attempts = scan.attempts /\ sub.status \in Entitled
    THEN scan.attempts + 1 ELSE 0

\* The row one rung up: the last rung cancels.
OnRung(rung) ==
    IF rung >= MaxAttempts
    THEN [sub EXCEPT !.attempts = rung, !.status = "canceled",
                     !.cancelAtPeriodEnd = FALSE, !.retryAt = 0]
    ELSE [sub EXCEPT !.attempts = rung, !.status = "past_due",
                     !.retryAt = clock + RetryDelay]

\* handleFailure.
HandleFailure(s) ==
    LET rung == RungTaken(scans[s]) IN
    /\ scans[s].pc = "dun"
    /\ IF rung = 0
       THEN UNCHANGED <<sub, lastRung>>
       ELSE /\ sub' = OnRung(rung)
            /\ lastRung' = clock
    /\ Finish(s)
    /\ UNCHANGED <<clock, invoices, payments, strays, crashes, paidEvents>>

\* The process dies, or a database write throws: the locals are gone.
Crash(s) ==
    /\ scans[s].pc # "idle"
    /\ crashes < MaxCrashes
    /\ crashes' = crashes + 1
    /\ scans' = [scans EXCEPT ![s] = Idle]
    /\ scanned' = FALSE
    /\ UNCHANGED <<clock, sub, invoices, payments, strays, paidEvents,
                   lastRung>>

----------------------------------------------------------------------------
(* The rest of the world. *)

\* A pending payment is captured or canceled.
PaymentResolves ==
    \E i \in DOMAIN payments : \E state \in {"captured", "canceled"} :
       /\ payments[i].state = "pending"
       /\ payments' = [payments EXCEPT ![i].state = state]
       /\ UNCHANGED <<clock, sub, invoices, strays, scans, crashes,
                      scanned, paidEvents, lastRung>>

\* The invoice.paid webhook of a captured payment, whenever it arrives and
\* however often: it settles a pending row and never inserts one.
WebhookPaid ==
    \E i \in DOMAIN payments :
       LET key == payments[i].key IN
       /\ payments[i].state = "captured"
       /\ HasInvoice(key, {"pending"})
       /\ invoices' = [invoices EXCEPT ![key].status = "paid"]
       /\ paidEvents' = Append(paidEvents, key)
       /\ UNCHANGED <<clock, sub, payments, strays, scans, crashes,
                      scanned, lastRung>>

\* The payment.failed webhook of a canceled payment.
WebhookFailed ==
    \E i \in DOMAIN payments :
       LET key == payments[i].key IN
       /\ payments[i].state = "canceled"
       /\ HasInvoice(key, {"pending"})
       /\ invoices' = [invoices EXCEPT ![key].status = "failed"]
       /\ UNCHANGED <<clock, sub, payments, strays, scans, crashes,
                      scanned, paidEvents, lastRung>>

CancelModes == {"immediate", "period_end", "deleted"}

\* The customer or the operator cancels, or the account is deleted and the
\* listener cancels locally; each mode owns only its own columns.
Cancel(mode) ==
    /\ sub.status \in Entitled
    /\ sub' = CASE mode = "period_end" -> [sub EXCEPT !.cancelAtPeriodEnd = TRUE]
                [] mode = "immediate"  -> [sub EXCEPT !.status = "canceled",
                                                      !.cancelAtPeriodEnd = FALSE]
                [] mode = "deleted"    -> [sub EXCEPT !.status = "canceled",
                                                      !.cancelAtPeriodEnd = FALSE,
                                                      !.retryAt = 0]
    /\ UNCHANGED <<clock, invoices, payments, strays, scans, crashes,
                   scanned, paidEvents, lastRung>>

\* The operator refunds a renewal invoice in full.
RefundInvoice ==
    \E k \in DOMAIN invoices :
       /\ invoices[k].status = "paid"
       /\ invoices' = [invoices EXCEPT ![k].status = "refunded"]
       /\ UNCHANGED <<clock, sub, payments, strays, scans, crashes,
                      scanned, paidEvents, lastRung>>

\* A tick outlasts any scan and any request.  The scheduler scans every hour, a
\* tick is days: unless LongOutage, a due row is scanned to the end in each tick,
\* and again after a scan was lost.
Tick ==
    /\ clock < MaxClock
    /\ AllIdle /\ strays = {}
    /\ LongOutage \/ scanned \/ ~IsDue(sub)
    /\ clock' = clock + 1
    /\ scanned' = FALSE
    /\ UNCHANGED <<sub, invoices, payments, strays, scans, crashes, paidEvents,
                   lastRung>>

ScanStep(s) ==
    \/ ReadSubscription(s) \/ CancelAtPeriodEnd(s)
    \/ LookUpInvoice(s)  \/ PollAnswers(s)         \/ LookupFails(s)
    \/ FlipFailed(s)     \/ Reconcile(s)           \/ ChargeAnswers(s)
    \/ ChargeTimesOut(s) \/ RecordPendingCharge(s) \/ HandleSuccess(s)
    \/ HandleFailure(s)

Next ==
    \/ \E s \in Scans : ScanStep(s) \/ Crash(s)
    \/ StrayLands
    \/ PaymentResolves
    \/ WebhookPaid
    \/ WebhookFailed
    \/ \E mode \in CancelModes : Cancel(mode)
    \/ RefundInvoice
    \/ Tick

Spec == Init /\ [][Next]_vars

\* The scheduler starts a scan every hour and every started step returns; the
\* provider resolves what is pending; a lookup that keeps being made is in the
\* end answered.  Nothing is assumed of webhooks, cancels or the clock.
Fairness ==
    /\ \A s \in Scans : WF_vars(ScanStep(s))
    /\ \A s \in Scans : SF_vars(PollAnswers(s)) /\ SF_vars(Reconcile(s))
    /\ WF_vars(StrayLands)
    /\ WF_vars(PaymentResolves)

FairSpec == Spec /\ Fairness

----------------------------------------------------------------------------
(* Properties. *)

TypeOK ==
    /\ clock \in Nat
    /\ sub \in SubType
    /\ DOMAIN invoices \subseteq Nat
    /\ \A k \in DOMAIN invoices : invoices[k] \in InvoiceType
    /\ payments \in Seq(PaymentType)
    /\ strays \subseteq RequestType
    /\ scans \in [Scans -> ScanType]
    /\ crashes \in Nat
    /\ scanned \in BOOLEAN
    /\ paidEvents \in Seq(Nat)
    /\ lastRung \in Nat

\* "The per-period Idempotence-Key" never buys a period twice: however scans
\* overlap, time out, crash or are run again, at most one payment under a key is
\* ever captured (the retry reconciles, the key store replays).
ChargedOncePerKey ==
    \A i, j \in DOMAIN payments :
        /\ payments[i].key = payments[j].key
        /\ payments[i].state = "captured"
        /\ payments[j].state = "captured"
        => i = j

\* "An accepted charge is recorded without advancing the period": a period that
\* opened by a renewal has a settled invoice under its key, and unless it was
\* rated at zero the provider captured a payment under that key.
OpenedIsPaid ==
    sub.periodStart # 0 =>
        /\ HasInvoice(sub.periodStart, {"paid", "refunded"})
        /\ invoices[sub.periodStart].amount = 0 \/ Captured(sub.periodStart) # {}

\* A paid invoice with money on it is backed by captured money, whichever of the
\* scans, the webhook and the retries settled it.
PaidIsBacked ==
    \A k \in DOMAIN invoices :
        invoices[k].status \in {"paid", "refunded"} =>
            invoices[k].amount = 0 \/ Captured(k) # {}

\* Credits are spent and InvoicePaidEvent is emitted "exactly once, whichever
\* side settles": no invoice is settled twice by scans and webhook together.
SettledOnce ==
    \A i, j \in DOMAIN paidEvents : paidEvents[i] = paidEvents[j] => i = j

\* "A cancel landing during the provider round-trip must not be flipped back to
\* active": no step of a stale scan resurrects a canceled subscription.
CanceledStaysCanceled ==
    [][sub.status = "canceled" => sub'.status = "canceled"]_vars

\* "Periods stay contiguous even if a scan runs late": a new period starts exactly
\* where the one before it ended (or where the trial ended).
PeriodsContiguous ==
    [][sub'.periodStart # sub.periodStart
        => sub'.periodStart \in {sub.periodEnd, sub.trialEnd}]_vars

\* Two scans racing one decline never consume two rungs of the ladder: the rung a
\* scan takes in the period it read is at least the retry delay after the last.
RungsSpaced ==
    [][\A s \in Scans :
          /\ scans[s].pc = "dun" /\ scans'[s].pc = "idle"
          /\ scans[s].end = sub.periodEnd
          /\ sub'.attempts > sub.attempts /\ sub.attempts > 0
          => clock >= lastRung + RetryDelay]_vars

\* While the scheduler runs and the provider answers in the end, a due
\* subscription does not stay due: it is renewed, retried later or canceled.
DueIsResolved == IsDue(sub) ~> ~IsDue(sub)
============================================================================
