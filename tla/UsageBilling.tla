---------------------------- MODULE UsageBilling ----------------------------
(***************************************************************************)
(* Postpaid usage of a provider-managed (Paddle) subscription.  Paddle     *)
(* owns the lifecycle: when a billing period ends it sends a snapshot of   *)
(* the subscription, and the event reducer notices that the stored period  *)
(* is over.  A listener then rates the period's usage records, spends      *)
(* prepaid credits, inserts a pending invoice and asks Paddle to charge    *)
(* it; events of the charge settle or fail the invoice.                    *)
(*                                                                         *)
(* Events reach the reducer as EventDelivery lets them: once stored, in    *)
(* any order, and possibly again.  A reduction and the transaction of a    *)
(* listener are one step each; the credit balance row is locked in         *)
(* between, which is a step of its own.  Period k is [k, k + 1).           *)
(***************************************************************************)
EXTENDS Integers, FiniteSets, FiniteSetsExt

CONSTANTS
    LastPeriod,     \* bound: periods 1..LastPeriod may end
    Keys,           \* idempotency keys of usage records
    Quantity,       \* units of one record
    Included,       \* units a period includes
    UnitPrice,      \* price of one billable unit
    Packs,          \* purchases of the credit pack
    PackUnits,      \* units in a pack
    Closers,        \* bound: listeners at work at once
    MaxFailures,    \* bound: provider calls that throw
    MaxServerCrashes \* bound: server crashes

UsageAssumption ==
    /\ LastPeriod \in Nat \ {0} /\ Quantity \in Nat /\ Included \in Nat
    /\ UnitPrice \in Nat /\ PackUnits \in Nat
    /\ IsFiniteSet(Keys) /\ IsFiniteSet(Packs) /\ IsFiniteSet(Closers)
    /\ MaxFailures \in Nat /\ MaxServerCrashes \in Nat
    /\ "free" \notin Closers

VARIABLES
    stage, acked,   \* the delivery of events, see EventDelivery
    paddle,         \* the provider: its current period, and its charges
    usageRow,       \* the subscription row
    records,        \* usage_records, by idempotency key
    credit,         \* the credit balance row and who holds its lock
    packs,          \* one-time invoices of credit packs
    usageInvoices,  \* usage invoices, by the period in usage:{sub}:{periodEnd}
    closer,         \* UsageInvoicingService.invoiceClosedPeriod, as it runs
    used            \* how much of each bound is spent

usageVars ==
    <<stage, acked, paddle, usageRow, records, credit, packs, usageInvoices, closer, used>>

Periods == 1..LastPeriod

(* What Paddle sends: the snapshot of a new period, the snapshot of a      *)
(* canceled subscription (without a period), the outcome of a charge and   *)
(* the payment of a credit pack.                                           *)
Events ==
    [type : {"snapshot"}, n : 2..(LastPeriod + 1)]
    \cup [type : {"canceled"}, n : {0}]
    \cup [type : {"paid", "failed"}, n : Periods]
    \cup [type : {"pack"}, n : Packs]

INSTANCE EventDelivery

Unsubmitted == [state |-> "none", amount |-> 0, count |-> 0]
UsageChargeType ==
    [state : {"none", "open", "failed", "captured"},
     amount : Nat, count : 0..2]

NoInvoice == [status |-> "none", amount |-> 0, credits |-> 0]
UsageInvoiceType == [status : {"none", "pending", "paid", "failed"}, amount : Nat, credits : Nat]

NoRecord == 0
Idle == [pc |-> "idle", period |-> 1, available |-> 0]
CloserType == [pc : {"idle", "lookup", "rate", "charge"},
               period : Periods, available : Nat]

UsageTypeOK ==
    /\ stage \in [Events -> {"new", "kept", "done"}]
    /\ acked \subseteq Events
    /\ paddle \in [period : 1..(LastPeriod + 1), canceled : BOOLEAN,
                   charges : [Periods -> UsageChargeType]]
    /\ usageRow \in [start : 1..(LastPeriod + 1), status : {"active", "canceled"}]
    /\ records \in [Keys -> Periods \cup {NoRecord, LastPeriod + 1}]
    /\ credit \in [exists : BOOLEAN, units : Int, lock : Closers \cup {"free"}]
    /\ packs \in [Packs -> {"none", "paid", "refunded"}]
    /\ usageInvoices \in [Periods -> UsageInvoiceType]
    /\ closer \in [Closers -> CloserType]
    /\ used \in [failures : 0..MaxFailures, crashes : 0..MaxServerCrashes]

UsageInit ==
    /\ DeliveryInit
    /\ paddle = [period |-> 1, canceled |-> FALSE,
                 charges |-> [k \in Periods |-> Unsubmitted]]
    /\ usageRow = [start |-> 1, status |-> "active"]
    /\ records = [i \in Keys |-> NoRecord]
    /\ credit = [exists |-> FALSE, units |-> 0, lock |-> "free"]
    /\ packs = [i \in Packs |-> "none"]
    /\ usageInvoices = [k \in Periods |-> NoInvoice]
    /\ closer = [c \in Closers |-> Idle]
    /\ used = [failures |-> 0, crashes |-> 0]

Spend(what, max) == used[what] < max /\ used' = [used EXCEPT ![what] = @ + 1]

----------------------------------------------------------------------------
(* Rating. *)

(* UsageRating.sumUnits: the records whose time falls inside the period.   *)
TotalUnits(k) == Quantity * Cardinality({i \in Keys : records[i] = k})

AtLeastZero(n) == IF n > 0 THEN n ELSE 0
Smaller(a, b) == IF a < b THEN a ELSE b

BillableUnits(k) == AtLeastZero(TotalUnits(k) - Included)

(* summarizeForPeriodWithCredits *)
CreditsApplied(k, available) == Smaller(AtLeastZero(available), BillableUnits(k))
Amount(k, available) == UnitPrice * (BillableUnits(k) - CreditsApplied(k, available))

----------------------------------------------------------------------------
(* The credit balance: CreditService. *)

BalanceFree == ~credit.exists \/ credit.lock = "free"

(* applyDelta: an upsert, which waits for whoever holds the row. *)
Adjusted(delta) == [credit EXCEPT !.exists = TRUE, !.units = @ + delta]

----------------------------------------------------------------------------
(* Usage records: UsageService.record.  A record may be late: its time is  *)
(* any up to now, whatever has been closed.                                *)

Blocked == credit.exists /\ credit.units < 0

RecordUsage(i) ==
    /\ records[i] = NoRecord
    /\ ~Blocked
    /\ usageRow.status = "active"
    /\ \E k \in 1..paddle.period : records' = [records EXCEPT ![i] = k]
    /\ UNCHANGED <<stage, acked, paddle, usageRow, credit, packs, usageInvoices, closer, used>>

----------------------------------------------------------------------------
(* The reducer. *)

Emits(e) == stage[e] = "new" /\ Keep(e)

(* A snapshot that starts at or after the stored boundary closes the       *)
(* stored period.                                                          *)

PeriodCloses(start) == start >= usageRow.start + 1

(* reduceSubscription: the snapshot is applied as it is, and after the     *)
(* commit the closed period is announced to the invoicing listener.        *)
ReduceSnapshot(e) ==
    /\ e.type = "snapshot"
    /\ Reduce(e)
    /\ usageRow' = [start |-> e.n, status |-> "active"]
    /\ IF PeriodCloses(e.n)
       THEN \E c \in Closers :
               /\ closer[c].pc = "idle"
               /\ closer' = [closer EXCEPT ![c] = [Idle EXCEPT !.pc = "lookup",
                                                               !.period = usageRow.start]]
       ELSE UNCHANGED closer
    /\ UNCHANGED <<paddle, records, credit, packs, usageInvoices, used>>

(* A canceled snapshot names no period, so it closes none. *)
ReduceCanceled(e) ==
    /\ e.type = "canceled"
    /\ Reduce(e)
    /\ usageRow' = [usageRow EXCEPT !.status = "canceled"]
    /\ UNCHANGED <<paddle, records, credit, packs, usageInvoices, closer, used>>

Outcome(i, status) == IF i.status = "pending" THEN [i EXCEPT !.status = status] ELSE i

(* reduceInvoice with a usageChargeKey, reducePaymentFailed: only a        *)
(* pending invoice moves.                                                  *)
ReduceCharge(e) ==
    /\ e.type \in {"paid", "failed"}
    /\ Reduce(e)
    /\ usageInvoices' = [usageInvoices EXCEPT ![e.n] = Outcome(@, e.type)]
    /\ UNCHANGED <<paddle, usageRow, records, credit, packs, closer, used>>

\* Mutant: the grant is applied whether or not the insert won.
NeverGranted(i) == packs[i] # "refunded"
FirstInsert(i) == packs[i] = "none"

(* reduceInvoice of a one-time purchase: the invoice is inserted under its *)
(* event id, and only the winning insert tops the balance up.              *)
ReducePack(e) ==
    /\ e.type = "pack"
    /\ Reduce(e)
    /\ IF FirstInsert(e.n)
       THEN /\ BalanceFree
            /\ packs' = [packs EXCEPT ![e.n] = "paid"]
            /\ credit' = Adjusted(PackUnits)
       ELSE UNCHANGED <<packs, credit>>
    /\ UNCHANGED <<paddle, usageRow, records, usageInvoices, closer, used>>

(* A full refund of the pack takes its units back, spent or not. *)
RefundPack(i) ==
    /\ packs[i] = "paid"
    /\ BalanceFree
    /\ packs' = [packs EXCEPT ![i] = "refunded"]
    /\ credit' = Adjusted(-PackUnits)
    /\ UNCHANGED <<stage, acked, paddle, usageRow, records, usageInvoices, closer, used>>

----------------------------------------------------------------------------
(* The listener: UsageInvoicingService.invoiceClosedPeriod. *)

\* Mutant: the balance is read without FOR UPDATE.
Unlocked(c) == UNCHANGED credit
Locks(c) == credit' = [credit EXCEPT !.lock = IF credit.exists THEN c ELSE @]

(* availableUnitsForUpdate: reads the balance and keeps its row locked; a  *)
(* customer without a row has nothing to lock and nothing to spend.        *)
LockBalance(c) ==
    /\ closer[c].pc = "lookup"
    /\ BalanceFree
    /\ Locks(c)
    /\ closer' = [closer EXCEPT ![c].pc = "rate",
                                ![c].available = IF credit.exists THEN AtLeastZero(credit.units) ELSE 0]
    /\ UNCHANGED <<stage, acked, paddle, usageRow, records, packs, usageInvoices, used>>

LockReleased(state, c) == [state EXCEPT !.lock = IF @ = c THEN "free" ELSE @]

\* Mutant: the credits are spent before the insert is known to have won.
AlwaysWins(k) == TRUE
InsertWins(k) == usageInvoices[k] = NoInvoice

(* Rates the period, inserts the invoice under its key and spends the      *)
(* credits it was rated with, in one transaction; a lost insert means that *)
(* the period was invoiced before.                                         *)
CloseTransaction(c) ==
    LET k == closer[c].period
        spent == CreditsApplied(k, closer[c].available)
        amount == Amount(k, closer[c].available)
    IN  /\ closer[c].pc = "rate"
        /\ IF InsertWins(k)
           THEN /\ usageInvoices' = [usageInvoices EXCEPT ![k] =
                      [status |-> IF amount = 0 THEN "paid" ELSE "pending",
                       amount |-> amount, credits |-> spent]]
                /\ credit' = LockReleased(IF spent > 0 THEN Adjusted(-spent) ELSE credit, c)
                /\ closer' = [closer EXCEPT ![c] =
                      IF amount = 0 THEN Idle ELSE [@ EXCEPT !.pc = "charge", !.available = 0]]
           ELSE /\ credit' = LockReleased(credit, c)
                /\ closer' = [closer EXCEPT ![c] = Idle]
                /\ UNCHANGED usageInvoices
        /\ UNCHANGED <<stage, acked, paddle, usageRow, records, packs, used>>

(* chargeUsage posts a one-time charge; Paddle knows no idempotency key.   *)
Submitted(k) == [paddle EXCEPT !.charges[k] =
    [state |-> "open", amount |-> usageInvoices[k].amount,
     count |-> Smaller(paddle.charges[k].count + 1, 2)]]

ChargeUsage(c) ==
    /\ closer[c].pc = "charge"
    /\ paddle' = Submitted(closer[c].period)
    /\ closer' = [closer EXCEPT ![c] = Idle]
    /\ UNCHANGED <<stage, acked, usageRow, records, credit, packs, usageInvoices, used>>

(* The call throws, before or after Paddle accepted the charge: the        *)
(* invoice stays pending.                                                  *)
ChargeFails(c) ==
    /\ closer[c].pc = "charge"
    /\ Spend("failures", MaxFailures)
    /\ paddle' \in {paddle, Submitted(closer[c].period)}
    /\ closer' = [closer EXCEPT ![c] = Idle]
    /\ UNCHANGED <<stage, acked, usageRow, records, credit, packs, usageInvoices>>

(* The server dies: its listeners are gone, their transactions rolled      *)
(* back.                                                                   *)
ServerCrash ==
    /\ \E c \in Closers : closer[c].pc # "idle"
    /\ Spend("crashes", MaxServerCrashes)
    /\ closer' = [c \in Closers |-> Idle]
    /\ credit' = [credit EXCEPT !.lock = "free"]
    /\ UNCHANGED <<stage, acked, paddle, usageRow, records, packs, usageInvoices>>

----------------------------------------------------------------------------
(* Paddle. *)

NextPeriod ==
    /\ ~paddle.canceled /\ paddle.period <= LastPeriod
    /\ paddle' = [paddle EXCEPT !.period = @ + 1]
    /\ Emits([type |-> "snapshot", n |-> paddle.period + 1])
    /\ UNCHANGED <<usageRow, records, credit, packs, usageInvoices, closer, used>>

CancelAtPaddle ==
    /\ ~paddle.canceled
    /\ paddle' = [paddle EXCEPT !.canceled = TRUE]
    /\ Emits([type |-> "canceled", n |-> 0])
    /\ UNCHANGED <<usageRow, records, credit, packs, usageInvoices, closer, used>>

(* A charge is captured, at once or after a failed attempt, or fails. *)
ChargeSettles(k) ==
    /\ \/ /\ paddle.charges[k].state \in {"open", "failed"}
          /\ paddle' = [paddle EXCEPT !.charges[k].state = "captured"]
          /\ Emits([type |-> "paid", n |-> k])
       \/ /\ paddle.charges[k].state = "open"
          /\ paddle' = [paddle EXCEPT !.charges[k].state = "failed"]
          /\ Emits([type |-> "failed", n |-> k])
    /\ UNCHANGED <<usageRow, records, credit, packs, usageInvoices, closer, used>>

BuyPack(i) ==
    /\ Emits([type |-> "pack", n |-> i])
    /\ UNCHANGED <<paddle, usageRow, records, credit, packs, usageInvoices, closer, used>>

----------------------------------------------------------------------------
Listener(c) == LockBalance(c) \/ CloseTransaction(c) \/ ChargeUsage(c) \/ ChargeFails(c)

Reducer(e) == ReduceSnapshot(e) \/ ReduceCanceled(e) \/ ReduceCharge(e) \/ ReducePack(e)

UsageNext ==
    \/ \E i \in Keys : RecordUsage(i)
    \/ \E e \in Events : Reducer(e)
    \/ \E c \in Closers : Listener(c)
    \/ \E i \in Packs : BuyPack(i) \/ RefundPack(i)
    \/ \E k \in Periods : ChargeSettles(k)
    \/ NextPeriod \/ CancelAtPaddle \/ ServerCrash

UsageSpec == UsageInit /\ [][UsageNext]_usageVars

----------------------------------------------------------------------------
(* Properties. *)

(* A period is charged at most once, after it has ended, and what Paddle   *)
(* was asked for is what the period's one invoice says, although Paddle    *)
(* has no idempotency keys, closes are replayed and raced, and calls fail  *)
(* after they were accepted (usage-invoicing.service.ts:22-32).            *)
ChargedOnce ==
    \A k \in Periods :
        /\ paddle.charges[k].count <= 1
        /\ paddle.charges[k].count = 1 =>
              k < paddle.period /\ paddle.charges[k].amount = usageInvoices[k].amount

(* Every unit of the balance is accounted for by rows that survive: packs  *)
(* that were paid, packs that were refunded, invoices that spent           *)
(* (credit.service.ts:11-19).                                              *)
CreditsExplained ==
    credit.units =
        PackUnits * Cardinality({i \in Packs : packs[i] = "paid"})
        - MapThenSumSet(LAMBDA k : usageInvoices[k].credits, Periods)

(* Closings that race do not spend one unit twice: only the refund of a    *)
(* pack that was spent takes the balance below zero.  The read of the      *)
(* balance locks its row until the credits are spent (credit.service.ts,   *)
(* availableUnitsForUpdate).                                               *)
NeverOverspent ==
    [][credit'.units < credit.units /\ packs' = packs => credit'.units >= 0]_usageVars

(* The claim of billing-event-reducer.service.ts:184-189 (a new period's   *)
(* snapshot closes the stored one, which "must be invoiced", and "a        *)
(* replayed snapshot no longer advances anything"): once every event that  *)
(* was sent has been reduced, without a crash and with no listener at      *)
(* work, each period that ended at Paddle has its invoice.                 *)
Settled ==
    /\ used.crashes = 0
    /\ \A c \in Closers : closer[c].pc = "idle"
    /\ \A e \in Events : stage[e] # "kept"

EndedIsInvoiced == Settled => \A k \in Periods : k < paddle.period => usageInvoices[k] # NoInvoice
============================================================================
