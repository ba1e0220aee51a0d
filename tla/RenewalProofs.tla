--------------------------- MODULE RenewalProofs ---------------------------
(* What holds of the renewal scheduler for any number of overlapping scans, *)
(* any period, ladder and idempotence window, and any ratings.              *)
EXTENDS Renewal, SequenceTheorems, TLAPS

----------------------------------------------------------------------------
(* Type correctness. *)

InvoicesOK == /\ DOMAIN invoices \subseteq Nat
              /\ \A k \in DOMAIN invoices : invoices[k] \in InvoiceType

\* Writing one row keeps the rows well typed.
LEMMA WithInvoiceType ==
    ASSUME InvoicesOK, NEW k \in Nat, NEW inv \in InvoiceType,
           invoices' = WithInvoice(k, inv)
    PROVE  InvoicesOK'
BY DEF WithInvoice, InvoicesOK

\* Changing the status of a row keeps the rows well typed.
LEMMA StatusWriteType ==
    ASSUME InvoicesOK, NEW k \in DOMAIN invoices,
           NEW st \in {"pending", "paid", "failed", "refunded"},
           invoices' = [invoices EXCEPT ![k].status = st]
    PROVE  InvoicesOK'
BY DEF InvoicesOK, InvoiceType

\* A charge request leaves a well-typed list of payments.
LEMMA CreatePaymentType ==
    ASSUME payments \in Seq(PaymentType), clock \in Nat, NEW req \in RequestType,
           NEW state \in {"captured", "pending", "canceled"},
           CreatePayment(req, state)
    PROVE  payments' \in Seq(PaymentType)
<1> DEFINE p == [key |-> req.key, period |-> req.period, amount |-> req.amount,
                 at |-> clock, state |-> state]
<1>1. p \in PaymentType
  BY DEF RequestType, PaymentType
<1>2. UNCHANGED payments \/ payments' = Append(payments, p)
  BY DEF CreatePayment
<1> HIDE DEF p
<1> QED BY <1>1, <1>2

\* What the steps write to the subscription row is a row.
LEMMA AdvancedType ==
    ASSUME sub \in SubType, NEW scan \in ScanType PROVE Advanced(scan) \in SubType
<1>1. scan.anchor + PeriodLength \in Nat /\ scan.anchor \in Nat
  BY RenewalAssumption DEF RenewalAssumption, ScanType
<1> QED BY <1>1 DEF Advanced, SubType, Statuses, Entitled

LEMMA OnRungType ==
    ASSUME sub \in SubType, clock \in Nat, NEW rung \in Nat
    PROVE  OnRung(rung) \in SubType
<1>1. clock + RetryDelay \in Nat
  BY RenewalAssumption DEF RenewalAssumption
<1> QED BY <1>1 DEF OnRung, SubType, Statuses, Entitled

LEMMA CanceledType ==
    ASSUME sub \in SubType
    PROVE  [sub EXCEPT !.status = "canceled", !.retryAt = 0] \in SubType
BY DEF SubType, Statuses

LEMMA IdleType == Idle \in ScanType
BY DEF Idle, ScanType, Pcs

\* Moving a scan on, or finishing it, keeps its locals in their type.
LEMMA GotoType ==
    ASSUME scans \in [Scans -> ScanType], NEW s \in Scans, NEW pc \in Pcs, Goto(s, pc)
    PROVE  scans' \in [Scans -> ScanType]
BY DEF Goto, ScanType

LEMMA FinishType ==
    ASSUME scans \in [Scans -> ScanType], NEW s \in Scans, Finish(s)
    PROVE  scans' \in [Scans -> ScanType]
BY IdleType DEF Finish

\* Every step of a scan leaves its locals in their type.
LEMMA ScanStepType ==
    ASSUME TypeOK, NEW s \in Scans, ScanStep(s) \/ Crash(s)
    PROVE  scans' \in [Scans -> ScanType]
<1>0. scans \in [Scans -> ScanType]
  BY DEF TypeOK
<1>1. CASE ReadSubscription(s)
  <2>1. Anchor(sub) \in Nat /\ sub.periodStart \in Nat /\ sub.periodEnd \in Nat
        /\ sub.attempts \in Nat
    BY DEF Anchor, SubType, TypeOK
  <2>2. PICK amount \in Amounts :
          scans' = [scans EXCEPT ![s] =
              IF sub.cancelAtPeriodEnd
              THEN [Idle EXCEPT !.pc = "stop"]
              ELSE [pc |-> "lookup", anchor |-> Anchor(sub),
                    start |-> sub.periodStart, end |-> sub.periodEnd,
                    attempts |-> sub.attempts, amount |-> amount,
                    keep |-> FALSE]]
    BY <1>1 DEF ReadSubscription
  <2>3. amount \in Nat
    BY RenewalAssumption DEF RenewalAssumption
  <2> QED BY <1>0, <2>1, <2>2, <2>3 DEF ScanType, Pcs, Idle
<1>2. CASE CancelAtPeriodEnd(s)
  BY <1>0, <1>2, FinishType DEF CancelAtPeriodEnd
<1>3. CASE LookUpInvoice(s)
  <2>1. Decision(scans[s]) \in Pcs
    BY DEF Decision, Pcs
  <2>2. scans' = [scans EXCEPT ![s].keep = scans[s].anchor \in DOMAIN invoices,
                              ![s].pc = Decision(scans[s])]
    BY <1>3 DEF LookUpInvoice
  <2> DEFINE known == scans[s].anchor \in DOMAIN invoices
             next  == Decision(scans[s])
  <2>3. known \in BOOLEAN
    OBVIOUS
  <2>4. scans' = [scans EXCEPT ![s].keep = known, ![s].pc = next]
    BY <2>2
  <2> HIDE DEF known, next
  <2> QED BY <1>0, <2>1, <2>3, <2>4 DEF ScanType, next
<1>4. CASE PollAnswers(s)
  <2>1. Goto(s, "settle") \/ Finish(s) \/ Goto(s, "flip")
    BY <1>4 DEF PollAnswers
  <2> QED BY <1>0, <2>1, GotoType, FinishType DEF Pcs
<1>5. CASE LookupFails(s)
  BY <1>0, <1>5, FinishType DEF LookupFails
<1>6. CASE FlipFailed(s)
  <2>1. Goto(s, "dun") \/ Finish(s)
    BY <1>6 DEF FlipFailed
  <2> QED BY <1>0, <2>1, GotoType, FinishType DEF Pcs
<1>7. CASE Reconcile(s)
  <2>1. \/ Goto(s, "settle") \/ Goto(s, "record")
        \/ \E pc \in {"settle", "charge"} :
              scans' = [scans EXCEPT ![s].keep = FALSE, ![s].pc = pc]
    BY <1>7 DEF Reconcile
  <2>2. ASSUME NEW pc \in {"settle", "charge"},
               scans' = [scans EXCEPT ![s].keep = FALSE, ![s].pc = pc]
        PROVE  scans' \in [Scans -> ScanType]
    BY <1>0, <2>2 DEF ScanType, Pcs
  <2> QED BY <1>0, <2>1, <2>2, GotoType DEF Pcs
<1>8. CASE ChargeAnswers(s)
  <2>1. PICK state \in {"captured", "pending", "canceled"} : Goto(s, AfterCharge(state))
    BY <1>8 DEF ChargeAnswers
  <2> QED BY <1>0, <2>1, GotoType DEF AfterCharge, Pcs
<1>9. CASE ChargeTimesOut(s)
  BY <1>0, <1>9, GotoType DEF ChargeTimesOut, Pcs
<1>10. CASE RecordPendingCharge(s)
  BY <1>0, <1>10, FinishType DEF RecordPendingCharge
<1>11. CASE HandleSuccess(s)
  BY <1>0, <1>11, FinishType DEF HandleSuccess
<1>12. CASE HandleFailure(s)
  BY <1>0, <1>12, FinishType DEF HandleFailure
<1>13. CASE Crash(s)
  BY <1>0, <1>13, IdleType DEF Crash
<1> QED
  BY <1>1, <1>2, <1>3, <1>4, <1>5, <1>6, <1>7, <1>8, <1>9, <1>10, <1>11, <1>12,
     <1>13 DEF ScanStep

\* Every step keeps every variable in its type.
LEMMA NextType ==
    ASSUME TypeOK, [Next]_vars
    PROVE  TypeOK'
<1>0a. clock \in Nat /\ lastRung \in Nat /\ crashes \in Nat
  BY DEF TypeOK
<1>0b. payments \in Seq(PaymentType) /\ paidEvents \in Seq(Nat)
  BY DEF TypeOK
<1>0. /\ sub \in SubType /\ InvoicesOK /\ strays \subseteq RequestType
  BY DEF TypeOK, InvoicesOK
<1>1. ASSUME NEW s \in Scans, ScanStep(s) \/ Crash(s) PROVE TypeOK'
  <2>0. scans[s] \in ScanType /\ scans' \in [Scans -> ScanType]
    BY <1>1, ScanStepType DEF TypeOK
  <2>1. CASE ReadSubscription(s)
    BY <2>0, <2>1 DEF ReadSubscription, InvoicesOK, TypeOK
  <2>2. CASE CancelAtPeriodEnd(s)
    <3>1. sub' \in SubType
      <4>1. sub' = sub \/ sub' = [sub EXCEPT !.status = "canceled", !.retryAt = 0]
        BY <2>2 DEF CancelAtPeriodEnd
      <4> QED BY <1>0, <4>1, CanceledType
    <3> QED BY <2>0, <2>2, <3>1 DEF CancelAtPeriodEnd, Finish, InvoicesOK, TypeOK
  <2>3. CASE LookUpInvoice(s)
    BY <2>0, <2>3 DEF LookUpInvoice, InvoicesOK, TypeOK
  <2>4. CASE PollAnswers(s)
    BY <2>0, <2>4 DEF PollAnswers, Finish, InvoicesOK, TypeOK
  <2>5. CASE LookupFails(s)
    BY <2>0, <2>5 DEF LookupFails, Finish, InvoicesOK, TypeOK
  <2>6. CASE FlipFailed(s)
    <3>1. InvoicesOK'
      BY <1>0, <2>6, StatusWriteType DEF FlipFailed, HasInvoice, InvoicesOK
    <3> QED BY <2>0, <2>6, <3>1 DEF FlipFailed, Finish, InvoicesOK, TypeOK
  <2>7. CASE Reconcile(s)
    BY <2>0, <2>7 DEF Reconcile, InvoicesOK, TypeOK
  <2>8. CASE ChargeAnswers(s)
    <3>1. Request(scans[s]) \in RequestType
      BY <2>0 DEF Request, ScanType, RequestType
    <3>2. payments' \in Seq(PaymentType)
      BY <1>0a, <1>0b, <2>8, <3>1, CreatePaymentType DEF ChargeAnswers
    <3> QED BY <2>0, <2>8, <3>2 DEF ChargeAnswers, InvoicesOK, TypeOK
  <2>9. CASE ChargeTimesOut(s)
    <3>1. Request(scans[s]) \in RequestType
      BY <2>0 DEF Request, ScanType, RequestType
    <3> QED BY <2>0, <2>9, <3>1 DEF ChargeTimesOut, InvoicesOK, TypeOK
  <2>10. CASE RecordPendingCharge(s)
    <3>1. InvoicesOK'
      BY <1>0, <2>0, <2>10, WithInvoiceType
         DEF RecordPendingCharge, HasInvoice, InvoicesOK, InvoiceType, ScanType
    <3> QED BY <2>0, <2>10, <3>1 DEF RecordPendingCharge, Finish, InvoicesOK, TypeOK
  <2>11. CASE HandleSuccess(s)
    <3>1. InvoicesOK'
      BY <1>0, <2>0, <2>11, WithInvoiceType
         DEF HandleSuccess, InvoicesOK, InvoiceType, ScanType
    <3>2. paidEvents' \in Seq(Nat)
      <4>1. \/ paidEvents' = paidEvents
            \/ paidEvents' = Append(paidEvents, scans[s].anchor)
        BY <2>11 DEF HandleSuccess
      <4>2. scans[s].anchor \in Nat
        BY <2>0 DEF ScanType
      <4> QED BY <1>0b, <4>1, <4>2, AppendProperties
    <3>3. sub' \in SubType
      <4>1. sub' = sub \/ sub' = Advanced(scans[s])
        BY <2>11 DEF HandleSuccess
      <4> QED BY <1>0, <2>0, <4>1, AdvancedType
    <3> QED BY <2>0, <2>11, <3>1, <3>2, <3>3 DEF HandleSuccess, Finish, InvoicesOK, TypeOK
  <2>12. CASE HandleFailure(s)
    <3>1. RungTaken(scans[s]) \in Nat
      BY <2>0 DEF RungTaken, ScanType
    <3>2. sub' \in SubType /\ lastRung' \in Nat
      <4>1. \/ sub' = sub /\ lastRung' = lastRung
            \/ sub' = OnRung(RungTaken(scans[s])) /\ lastRung' = clock
        BY <2>12 DEF HandleFailure
      <4> QED BY <1>0, <1>0a, <3>1, <4>1, OnRungType
    <3> QED BY <2>0, <2>12, <3>2 DEF HandleFailure, Finish, InvoicesOK, TypeOK
  <2>13. CASE Crash(s)
    <3>1. crashes' \in Nat /\ scanned' \in BOOLEAN
      <4>1. crashes' = crashes + 1 /\ scanned' = FALSE
        BY <2>13 DEF Crash
      <4>2. crashes' \in Nat
        BY <1>0a, <4>1
      <4> QED BY <4>1, <4>2
    <3>2. UNCHANGED <<clock, sub, invoices, payments, strays, paidEvents, lastRung>>
      BY <2>13 DEF Crash
    <3> QED BY <2>0, <3>1, <3>2 DEF TypeOK
  <2> QED
    BY <1>1, <2>1, <2>2, <2>3, <2>4, <2>5, <2>6, <2>7, <2>8, <2>9, <2>10, <2>11,
       <2>12, <2>13 DEF ScanStep
<1>2. CASE StrayLands
  <2>1. payments' \in Seq(PaymentType)
    BY <1>0, <1>0a, <1>0b, <1>2, CreatePaymentType DEF StrayLands
  <2> QED BY <1>0, <1>2, <2>1 DEF StrayLands, TypeOK
<1>3. CASE PaymentResolves
  <2>1. payments' \in Seq(PaymentType)
    <3>1. PICK i \in DOMAIN payments, state \in {"captured", "canceled"} :
             payments' = [payments EXCEPT ![i].state = state]
      BY <1>3 DEF PaymentResolves
    <3>2. payments[i] \in PaymentType /\ i \in 1 .. Len(payments)
      BY <1>0b, LenProperties, ElementOfSeq
    <3>3. [payments[i] EXCEPT !.state = state] \in PaymentType
      BY <3>2 DEF PaymentType
    <3>4. payments' = [payments EXCEPT ![i] = [payments[i] EXCEPT !.state = state]]
      BY <3>1
    <3> QED BY <1>0b, <3>2, <3>3, <3>4, ExceptSeq
  <2> QED BY <1>3, <2>1 DEF PaymentResolves, TypeOK
<1>4. CASE WebhookPaid \/ WebhookFailed \/ RefundInvoice
  <2>1. InvoicesOK'
    BY <1>0, <1>4, StatusWriteType
       DEF WebhookPaid, WebhookFailed, RefundInvoice, HasInvoice, InvoicesOK
  <2>2. paidEvents' \in Seq(Nat)
    <3>1. \/ paidEvents' = paidEvents
          \/ \E i \in DOMAIN payments : paidEvents' = Append(paidEvents, payments[i].key)
      BY <1>4 DEF WebhookPaid, WebhookFailed, RefundInvoice
    <3>2. \A i \in DOMAIN payments : payments[i].key \in Nat
      <4> SUFFICES ASSUME NEW i \in DOMAIN payments PROVE payments[i].key \in Nat
        OBVIOUS
      <4>1. payments[i] \in PaymentType
        BY <1>0b, LenProperties, ElementOfSeq
      <4> QED BY <4>1 DEF PaymentType
    <3>3. CASE paidEvents' = paidEvents
      BY <1>0b, <3>3
    <3>4. ASSUME NEW i \in DOMAIN payments, paidEvents' = Append(paidEvents, payments[i].key)
          PROVE  paidEvents' \in Seq(Nat)
      BY <1>0b, <3>2, <3>4, AppendProperties
    <3> QED BY <3>1, <3>3, <3>4
  <2> QED BY <1>4, <2>1, <2>2 DEF WebhookPaid, WebhookFailed, RefundInvoice, InvoicesOK, TypeOK
<1>5. ASSUME NEW mode \in CancelModes, Cancel(mode) PROVE TypeOK'
  <2>1. sub' \in SubType
    BY <1>0, <1>5 DEF Cancel, CancelModes, SubType, Statuses
  <2> QED BY <1>5, <2>1 DEF Cancel, TypeOK
<1>6. CASE Tick
  <2>1. clock' \in Nat /\ scanned' \in BOOLEAN
    <3>1. clock' = clock + 1 /\ scanned' = FALSE
      BY <1>6 DEF Tick
    <3>2. clock' \in Nat
      BY <1>0a, <3>1
    <3> QED BY <3>1, <3>2
  <2>2. UNCHANGED <<sub, invoices, payments, strays, scans, crashes, paidEvents, lastRung>>
    BY <1>6 DEF Tick
  <2> QED BY <2>1, <2>2 DEF TypeOK
<1>7. CASE UNCHANGED vars
  BY <1>7 DEF vars, TypeOK
<1> QED
  BY <1>1, <1>2, <1>3, <1>4, <1>5, <1>6, <1>7 DEF Next

\* The initial states are well typed.
LEMMA TypeInit == Init => TypeOK
<1> SUFFICES ASSUME Init PROVE TypeOK
  OBVIOUS
<1>1. sub \in SubType
  BY RenewalAssumption DEF RenewalAssumption, Init, NewSub, SubType, Statuses, Entitled
<1>2. scans \in [Scans -> ScanType]
  BY IdleType DEF Init
<1>3. /\ DOMAIN invoices \subseteq Nat
      /\ \A k \in DOMAIN invoices : invoices[k] \in InvoiceType
  BY DEF Init
<1>4. payments \in Seq(PaymentType) /\ paidEvents \in Seq(Nat)
  BY DEF Init
<1> QED BY <1>1, <1>2, <1>3, <1>4 DEF Init, TypeOK

\* The specification keeps every variable in its type.
THEOREM TypeCorrect == Spec => []TypeOK
BY TypeInit, NextType, PTL DEF Spec

----------------------------------------------------------------------------
(* Money.  The invariant the runs check is not inductive: it says nothing   *)
(* of a scan that holds a captured charge and has not settled it yet.       *)

Done == {"paid", "refunded"}

\* A scan about to settle has something to settle with: the row is settled
\* already, or the provider captured a payment under its key, or there is
\* nothing to pay and no recorded amount to keep.
ReadyToSettle(scan) ==
    \/ HasInvoice(scan.anchor, Done)
    \/ Captured(scan.anchor) # {}
    \/ scan.amount = 0 /\ ~scan.keep

SettlesReady == \A s \in Scans : scans[s].pc = "settle" => ReadyToSettle(scans[s])

\* InvoicePaidEvent is only ever emitted for a settled invoice.
EventsSettled ==
    \A i \in DOMAIN paidEvents : HasInvoice(paidEvents[i], Done)

MoneyInv == /\ TypeOK
            /\ SettlesReady
            /\ PaidIsBacked
            /\ OpenedIsPaid
            /\ EventsSettled
            /\ SettledOnce

\* What a step does to the payments: none disappears, none changes its key, and
\* what is captured stays captured.
PaymentsGrow ==
    \A i \in DOMAIN payments :
        /\ i \in DOMAIN payments'
        /\ payments'[i].key = payments[i].key
        /\ payments[i].state = "captured" => payments'[i].state = "captured"

LEMMA CreatePaymentGrows ==
    ASSUME TypeOK, NEW req, NEW state, CreatePayment(req, state)
    PROVE  /\ PaymentsGrow
           /\ state = "captured" => \E i \in DOMAIN payments' :
                 payments'[i].key = req.key /\ payments'[i].state = "captured"
<1> DEFINE p == [key |-> req.key, period |-> req.period, amount |-> req.amount,
                 at |-> clock, state |-> state]
<1>0. payments \in Seq(PaymentType) /\ DOMAIN payments = 1 .. Len(payments)
      /\ Len(payments) \in Nat
  BY LenProperties DEF TypeOK
<1>1. CASE /\ \E i \in Remembered(req.key) : state = payments[i].state
           /\ UNCHANGED payments
  BY <1>1 DEF PaymentsGrow, Remembered
<1>2. CASE payments' = Append(payments, p)
  <2>1. /\ DOMAIN payments' = 1 .. (Len(payments) + 1)
        /\ \A i \in 1 .. Len(payments) : payments'[i] = payments[i]
        /\ payments'[Len(payments) + 1] = p
    BY <1>0, <1>2
  <2>2. PaymentsGrow
    BY <1>0, <2>1 DEF PaymentsGrow
  <2>3. Len(payments) + 1 \in DOMAIN payments'
    BY <1>0, <2>1
  <2>4. p.key = req.key /\ p.state = state
    OBVIOUS
  <2> QED BY <2>1, <2>2, <2>3, <2>4
<1> QED BY <1>1, <1>2 DEF CreatePayment

LEMMA NextPaymentsGrow ==
    ASSUME TypeOK, [Next]_vars PROVE PaymentsGrow
<1>1. CASE UNCHANGED payments
  BY <1>1 DEF PaymentsGrow
<1>2. ASSUME NEW s \in Scans, ChargeAnswers(s) PROVE PaymentsGrow
  BY <1>2, CreatePaymentGrows DEF ChargeAnswers
<1>3. CASE StrayLands
  BY <1>3, CreatePaymentGrows DEF StrayLands
<1>4. CASE PaymentResolves
  <2>1. PICK i \in DOMAIN payments, state \in {"captured", "canceled"} :
           /\ payments[i].state = "pending"
           /\ payments' = [payments EXCEPT ![i].state = state]
    BY <1>4 DEF PaymentResolves
  <2>2. /\ DOMAIN payments' = DOMAIN payments
        /\ \A j \in DOMAIN payments : j # i => payments'[j] = payments[j]
        /\ payments'[i] = [payments[i] EXCEPT !.state = state]
    BY <2>1
  <2>3. payments[i] \in PaymentType
    BY LenProperties, ElementOfSeq DEF TypeOK
  <2>4. payments'[i].key = payments[i].key
    BY <2>2, <2>3 DEF PaymentType
  <2> QED BY <2>1, <2>2, <2>4 DEF PaymentsGrow
<1>5. ASSUME NEW s \in Scans, ScanStep(s) \/ Crash(s), ~ChargeAnswers(s)
      PROVE  UNCHANGED payments
  BY <1>5 DEF ScanStep, Crash, ReadSubscription, CancelAtPeriodEnd, LookUpInvoice,
     PollAnswers, LookupFails, FlipFailed, Reconcile, ChargeTimesOut,
     RecordPendingCharge, HandleSuccess, HandleFailure
<1>6. CASE \/ WebhookPaid \/ WebhookFailed \/ RefundInvoice \/ Tick
           \/ (\E mode \in CancelModes : Cancel(mode)) \/ UNCHANGED vars
  BY <1>1, <1>6 DEF WebhookPaid, WebhookFailed, RefundInvoice, Tick, Cancel, vars
<1> QED BY <1>1, <1>2, <1>3, <1>4, <1>5, <1>6 DEF Next

\* What is captured under a key stays captured.
LEMMA CapturedStays ==
    ASSUME PaymentsGrow, NEW k, Captured(k) # {} PROVE Captured(k)' # {}
<1>1. PICK i \in DOMAIN payments : payments[i].key = k /\ payments[i].state = "captured"
  BY DEF Captured, Live
<1>2. i \in DOMAIN payments' /\ payments'[i].key = k /\ payments'[i].state = "captured"
  BY <1>1 DEF PaymentsGrow
<1> QED BY <1>2 DEF Captured, Live

\* A settled row stays settled and keeps its amount.
DoneStays ==
    \A k \in DOMAIN invoices :
        invoices[k].status \in Done =>
            /\ k \in DOMAIN invoices'
            /\ invoices'[k].status \in Done
            /\ invoices'[k].amount = invoices[k].amount

LEMMA NextDoneStays ==
    ASSUME TypeOK, [Next]_vars PROVE DoneStays
<1> USE DEF Done
<1>0. \A k \in DOMAIN invoices : invoices[k] \in InvoiceType
  BY DEF TypeOK
<1>1. CASE UNCHANGED invoices
  BY <1>1 DEF DoneStays
<1>2. ASSUME NEW k \in DOMAIN invoices, NEW st,
             invoices[k].status \notin Done \/ st \in Done,
             invoices' = [invoices EXCEPT ![k].status = st]
      PROVE  DoneStays
  BY <1>0, <1>2 DEF DoneStays, InvoiceType
<1>3. ASSUME NEW k, NEW inv, ~HasInvoice(k, Done), invoices' = WithInvoice(k, inv)
      PROVE  DoneStays
  BY <1>3 DEF DoneStays, WithInvoice, HasInvoice
<1>4. ASSUME NEW s \in Scans, FlipFailed(s) PROVE DoneStays
  BY <1>1, <1>2, <1>4 DEF FlipFailed, HasInvoice
<1>5. ASSUME NEW s \in Scans, RecordPendingCharge(s) PROVE DoneStays
  BY <1>1, <1>3, <1>5 DEF RecordPendingCharge, HasInvoice
<1>6. ASSUME NEW s \in Scans, HandleSuccess(s) PROVE DoneStays
  BY <1>1, <1>3, <1>6 DEF HandleSuccess, WinsSettle
<1>7. CASE WebhookPaid \/ WebhookFailed \/ RefundInvoice
  BY <1>2, <1>7 DEF WebhookPaid, WebhookFailed, RefundInvoice, HasInvoice
<1>8. ASSUME NEW s \in Scans, ScanStep(s) \/ Crash(s),
             ~FlipFailed(s), ~RecordPendingCharge(s), ~HandleSuccess(s)
      PROVE  UNCHANGED invoices
  BY <1>8 DEF ScanStep, Crash, ReadSubscription, CancelAtPeriodEnd, LookUpInvoice,
     PollAnswers, LookupFails, Reconcile, ChargeAnswers, ChargeTimesOut, HandleFailure
<1>9. CASE \/ StrayLands \/ PaymentResolves \/ Tick
           \/ (\E mode \in CancelModes : Cancel(mode)) \/ UNCHANGED vars
  BY <1>1, <1>9 DEF StrayLands, PaymentResolves, Tick, Cancel, vars
<1> QED BY <1>1, <1>4, <1>5, <1>6, <1>7, <1>8, <1>9 DEF Next

\* Every way into the settle brings what it settles with.
LEMMA SettlesReadyStep ==
    ASSUME TypeOK, TypeOK', [Next]_vars, SettlesReady PROVE SettlesReady'
<1>0. PaymentsGrow /\ DoneStays
  BY NextPaymentsGrow, NextDoneStays
<1> SUFFICES ASSUME NEW t \in Scans, scans'[t].pc = "settle"
             PROVE  ReadyToSettle(scans[t])'
  BY DEF SettlesReady
<1>T. /\ scans \in [Scans -> ScanType]
      /\ \A k \in DOMAIN invoices : invoices[k] \in InvoiceType
  BY DEF TypeOK
<1>1. CASE scans'[t] = scans[t]
  <2>1. ReadyToSettle(scans[t])
    BY <1>1 DEF SettlesReady
  <2>2. ReadyToSettle(scans[t])'
    BY <1>0, <1>1, <2>1, CapturedStays DEF ReadyToSettle, HasInvoice, DoneStays
  <2> QED BY <2>2
<1>2. CASE LookUpInvoice(t)
  <2>1. scans'[t] = [scans[t] EXCEPT !.keep = scans[t].anchor \in DOMAIN invoices,
                                     !.pc = Decision(scans[t])]
        /\ UNCHANGED <<invoices, payments>>
    BY <1>2, <1>T DEF LookUpInvoice
  <2>2. /\ Decision(scans[t]) = "settle"
        /\ scans'[t].anchor = scans[t].anchor /\ scans'[t].amount = scans[t].amount
        /\ scans'[t].keep = (scans[t].anchor \in DOMAIN invoices)
    BY <2>1, <1>T DEF ScanType
  <2>3. CASE HasInvoice(scans[t].anchor, Done)
    BY <2>1, <2>2, <2>3 DEF ReadyToSettle, HasInvoice
  <2>4. CASE ~HasInvoice(scans[t].anchor, Done)
    <3>1. /\ ~AwaitsCapture(scans[t].anchor) /\ ~DeclinedUnseen(scans[t])
          /\ ~MayHaveCaptured(scans[t]) /\ scans[t].amount = 0
      BY <2>2, <2>4 DEF Decision, Done
    <3>2. scans[t].attempts \in Nat
      BY <1>T DEF ScanType
    <3>3. scans[t].attempts = 0
      BY <3>1, <3>2 DEF MayHaveCaptured
    <3>4. scans[t].anchor \notin DOMAIN invoices
      BY <1>T, <2>4, <3>1, <3>3
         DEF HasInvoice, AwaitsCapture, DeclinedUnseen, Done, InvoiceType
    <3> QED BY <2>2, <3>1, <3>4 DEF ReadyToSettle
  <2> QED BY <2>3, <2>4
<1>3. CASE PollAnswers(t)
  <2>1. CASE (\E i \in Live(scans[t].anchor) : IsCaptured(i)) /\ Goto(t, "settle")
    <3>1. scans'[t].anchor = scans[t].anchor /\ UNCHANGED <<invoices, payments>>
      BY <1>3, <2>1, <1>T DEF PollAnswers, Goto, ScanType
    <3>2. Captured(scans[t].anchor) # {}
      BY <2>1 DEF Captured, IsCaptured
    <3> QED BY <3>1, <3>2 DEF ReadyToSettle, Captured, Live
  <2>2. CASE Finish(t) \/ Goto(t, "flip")
    BY <2>2, <1>T DEF Finish, Goto, Idle, ScanType
  <2> QED BY <1>3, <2>1, <2>2 DEF PollAnswers
<1>4. CASE Reconcile(t)
  <2>0. UNCHANGED <<invoices, payments>>
    BY <1>4 DEF Reconcile
  <2>1. CASE (\E i \in Live(scans[t].anchor) : IsCaptured(i)) /\ Goto(t, "settle")
    <3>1. scans'[t].anchor = scans[t].anchor
      BY <2>1, <1>T DEF Goto, ScanType
    <3>2. Captured(scans[t].anchor) # {}
      BY <2>1 DEF Captured, IsCaptured
    <3> QED BY <2>0, <3>1, <3>2 DEF ReadyToSettle, Captured, Live
  <2>2. CASE Goto(t, "record")
    BY <2>2, <1>T DEF Goto, ScanType
  <2>3. CASE scans' = [scans EXCEPT
                ![t].keep = FALSE,
                ![t].pc = IF scans[t].amount = 0 THEN "settle" ELSE "charge"]
    <3>1. /\ scans'[t].keep = FALSE /\ scans'[t].amount = scans[t].amount
          /\ scans'[t].pc = IF scans[t].amount = 0 THEN "settle" ELSE "charge"
      BY <2>3, <1>T DEF ScanType
    <3> QED BY <3>1 DEF ReadyToSettle
  <2> QED BY <1>4, <2>1, <2>2, <2>3 DEF Reconcile
<1>5. CASE ChargeAnswers(t)
  <2>1. PICK state \in {"captured", "pending", "canceled"} :
           /\ CreatePayment(Request(scans[t]), state)
           /\ Goto(t, AfterCharge(state))
    BY <1>5 DEF ChargeAnswers
  <2>2. scans'[t].anchor = scans[t].anchor /\ scans'[t].pc = AfterCharge(state)
    BY <2>1, <1>T DEF Goto, ScanType
  <2>3. state = "captured"
    BY <2>2 DEF AfterCharge
  <2>4. \E i \in DOMAIN payments' :
           payments'[i].key = Request(scans[t]).key /\ payments'[i].state = "captured"
    BY <2>1, <2>3, CreatePaymentGrows
  <2> QED BY <2>2, <2>4 DEF Request, ReadyToSettle, Captured, Live
<1>6. ASSUME NEW s \in Scans, ScanStep(s) \/ Crash(s), s # t
      PROVE  scans'[t] = scans[t]
  BY <1>6, <1>T DEF ScanStep, Goto, Finish, Crash, ReadSubscription, CancelAtPeriodEnd,
     LookUpInvoice, PollAnswers, LookupFails, FlipFailed, Reconcile, ChargeAnswers,
     ChargeTimesOut, RecordPendingCharge, HandleSuccess, HandleFailure
<1>7. CASE \/ ReadSubscription(t) \/ CancelAtPeriodEnd(t) \/ LookupFails(t)
           \/ FlipFailed(t) \/ ChargeTimesOut(t) \/ RecordPendingCharge(t)
           \/ HandleSuccess(t) \/ HandleFailure(t) \/ Crash(t)
  <2>1. scans'[t].pc # "settle"
    BY <1>7, <1>T DEF ReadSubscription, CancelAtPeriodEnd, LookupFails, FlipFailed,
       ChargeTimesOut, RecordPendingCharge, HandleSuccess, HandleFailure, Crash,
       Goto, Finish, Idle, ScanType
  <2> QED BY <2>1
<1>8. CASE UNCHANGED scans
  BY <1>1, <1>8
<1>9. CASE \/ StrayLands \/ PaymentResolves \/ WebhookPaid \/ WebhookFailed
           \/ RefundInvoice \/ Tick \/ (\E mode \in CancelModes : Cancel(mode))
           \/ UNCHANGED vars
  BY <1>8, <1>9 DEF StrayLands, PaymentResolves, WebhookPaid, WebhookFailed,
     RefundInvoice, Tick, Cancel, vars
<1> QED
  BY <1>1, <1>2, <1>3, <1>4, <1>5, <1>6, <1>7, <1>9 DEF Next, ScanStep

\* A row becomes settled only with captured money behind it or nothing to pay.
NewlySettled ==
    \A k \in DOMAIN invoices' :
        /\ invoices'[k].status \in Done
        /\ ~HasInvoice(k, Done)
        => invoices'[k].amount = 0 \/ Captured(k)' # {}

LEMMA NextNewlySettled ==
    ASSUME TypeOK, SettlesReady, [Next]_vars PROVE NewlySettled
<1> USE DEF Done
<1>0. /\ \A k \in DOMAIN invoices : invoices[k] \in InvoiceType
      /\ PaymentsGrow
  BY NextPaymentsGrow DEF TypeOK
<1>1. CASE UNCHANGED invoices
  BY <1>1 DEF NewlySettled, HasInvoice
<1>2. ASSUME NEW k \in DOMAIN invoices, NEW st,
             invoices[k].status \in Done \/ st \notin Done \/ Captured(k)' # {},
             invoices' = [invoices EXCEPT ![k].status = st]
      PROVE  NewlySettled
  BY <1>0, <1>2 DEF NewlySettled, HasInvoice, InvoiceType
<1>3. ASSUME NEW k, NEW inv,
             inv.status \in Done => (inv.amount = 0 \/ Captured(k)' # {}),
             invoices' = WithInvoice(k, inv)
      PROVE  NewlySettled
  BY <1>3 DEF NewlySettled, WithInvoice, HasInvoice
<1>4. ASSUME NEW s \in Scans, FlipFailed(s) PROVE NewlySettled
  BY <1>1, <1>2, <1>4 DEF FlipFailed, HasInvoice
<1>5. ASSUME NEW s \in Scans, RecordPendingCharge(s) PROVE NewlySettled
  BY <1>1, <1>3, <1>5 DEF RecordPendingCharge
<1>6. ASSUME NEW s \in Scans, HandleSuccess(s) PROVE NewlySettled
  <2>0. PICK scan, key : scan = scans[s] /\ key = scan.anchor
    OBVIOUS
  <2> DEFINE row == [status |-> "paid",
                     amount |-> IF key \in DOMAIN invoices /\ scan.keep
                                THEN invoices[key].amount ELSE scan.amount]
  <2>1. CASE ~WinsSettle(key)
    BY <1>1, <1>6, <2>0, <2>1 DEF HandleSuccess
  <2>2. CASE WinsSettle(key)
    <3>1. invoices' = WithInvoice(key, row) /\ UNCHANGED payments
      BY <1>6, <2>0, <2>2 DEF HandleSuccess
    <3>2. Captured(key) # {} \/ (scan.amount = 0 /\ ~scan.keep)
      BY <1>6, <2>0, <2>2 DEF HandleSuccess, SettlesReady, ReadyToSettle, WinsSettle
    <3>3. Captured(key)' # {} \/ row.amount = 0
      BY <1>0, <3>2, <3>1 DEF Captured, Live
    <3>4. row.status \in Done => (row.amount = 0 \/ Captured(key)' # {})
      BY <3>3
    <3> HIDE DEF row
    <3> QED BY <1>3, <3>1, <3>4
  <2> QED BY <2>1, <2>2
<1>7. CASE WebhookPaid
  <2>1. PICK i \in DOMAIN payments :
           /\ payments[i].state = "captured"
           /\ HasInvoice(payments[i].key, {"pending"})
           /\ invoices' = [invoices EXCEPT ![payments[i].key].status = "paid"]
           /\ UNCHANGED payments
    BY <1>7 DEF WebhookPaid
  <2>2. Captured(payments[i].key)' # {}
    BY <2>1 DEF Captured, Live
  <2> QED BY <1>2, <2>1, <2>2 DEF HasInvoice
<1>8. CASE WebhookFailed \/ RefundInvoice
  BY <1>2, <1>8 DEF WebhookFailed, RefundInvoice, HasInvoice
<1>9. ASSUME NEW s \in Scans, ScanStep(s) \/ Crash(s),
             ~FlipFailed(s), ~RecordPendingCharge(s), ~HandleSuccess(s)
      PROVE  UNCHANGED invoices
  BY <1>9 DEF ScanStep, Crash, ReadSubscription, CancelAtPeriodEnd, LookUpInvoice,
     PollAnswers, LookupFails, Reconcile, ChargeAnswers, ChargeTimesOut, HandleFailure
<1>10. CASE \/ StrayLands \/ PaymentResolves \/ Tick
            \/ (\E mode \in CancelModes : Cancel(mode)) \/ UNCHANGED vars
  BY <1>1, <1>10 DEF StrayLands, PaymentResolves, Tick, Cancel, vars
<1> QED BY <1>1, <1>4, <1>5, <1>6, <1>7, <1>8, <1>9, <1>10 DEF Next

\* What one step does to the emitted events and to the period: an event is for a
\* row this very step settled, and a period opens over a settled row.
LEMMA NextEmitsAndOpens ==
    ASSUME TypeOK, [Next]_vars
    PROVE  /\ \/ UNCHANGED paidEvents
              \/ \E k \in Nat : /\ paidEvents' = Append(paidEvents, k)
                               /\ ~HasInvoice(k, Done)
                               /\ HasInvoice(k, Done)'
           /\ \/ sub'.periodStart = sub.periodStart
              \/ HasInvoice(sub.periodStart, Done)'
<1> DEFINE Goal == /\ \/ UNCHANGED paidEvents
                      \/ \E k \in Nat : /\ paidEvents' = Append(paidEvents, k)
                                       /\ ~HasInvoice(k, Done)
                                       /\ HasInvoice(k, Done)'
                   /\ \/ sub'.periodStart = sub.periodStart
                      \/ HasInvoice(sub.periodStart, Done)'
<1>0. /\ sub \in SubType /\ scans \in [Scans -> ScanType]
      /\ \A k \in DOMAIN invoices : k \in Nat /\ invoices[k] \in InvoiceType
  BY DEF TypeOK
<1>1. ASSUME NEW s \in Scans, HandleSuccess(s) PROVE Goal
  <2>0. PICK key : key = scans[s].anchor
    OBVIOUS
  <2>1. key \in Nat
    BY <1>0, <2>0 DEF ScanType
  <2>2. HasInvoice(key, Done)'
    <3>1. CASE WinsSettle(key)
      BY <1>1, <2>0, <3>1 DEF HandleSuccess, WithInvoice, HasInvoice, Done
    <3>2. CASE ~WinsSettle(key)
      BY <1>1, <2>0, <3>2 DEF HandleSuccess, WinsSettle, HasInvoice, Done
    <3> QED BY <3>1, <3>2
  <2>3. \/ UNCHANGED paidEvents
        \/ paidEvents' = Append(paidEvents, key) /\ ~HasInvoice(key, Done)
    BY <1>1, <2>0 DEF HandleSuccess, WinsSettle, Done
  <2>4. sub'.periodStart = sub.periodStart \/ sub'.periodStart = key
    BY <1>0, <1>1, <2>0 DEF HandleSuccess, Advanced, SubType
  <2> QED BY <2>1, <2>2, <2>3, <2>4
<1>2. CASE WebhookPaid
  <2>1. PICK i \in DOMAIN payments :
           /\ HasInvoice(payments[i].key, {"pending"})
           /\ invoices' = [invoices EXCEPT ![payments[i].key].status = "paid"]
           /\ paidEvents' = Append(paidEvents, payments[i].key)
           /\ UNCHANGED sub
    BY <1>2 DEF WebhookPaid
  <2>2. PICK key : key = payments[i].key
    OBVIOUS
  <2>3. key \in Nat /\ ~HasInvoice(key, Done)
    BY <1>0, <2>1, <2>2 DEF HasInvoice, Done
  <2>4. HasInvoice(key, Done)'
    BY <1>0, <2>1, <2>2 DEF HasInvoice, Done, InvoiceType
  <2> QED BY <2>1, <2>2, <2>3, <2>4
<1>3. ASSUME NEW s \in Scans, ScanStep(s) \/ Crash(s), ~HandleSuccess(s) PROVE Goal
  <2>1. UNCHANGED paidEvents
    BY <1>3 DEF ScanStep, Crash, ReadSubscription, CancelAtPeriodEnd, LookUpInvoice,
       PollAnswers, LookupFails, FlipFailed, Reconcile, ChargeAnswers, ChargeTimesOut,
       RecordPendingCharge, HandleFailure
  <2>2. CASE CancelAtPeriodEnd(s)
    BY <1>0, <2>1, <2>2 DEF CancelAtPeriodEnd, SubType
  <2>3. CASE HandleFailure(s)
    BY <1>0, <2>1, <2>3 DEF HandleFailure, OnRung, SubType
  <2>4. CASE ~CancelAtPeriodEnd(s) /\ ~HandleFailure(s)
    BY <1>3, <2>1, <2>4 DEF ScanStep, Crash, ReadSubscription, LookUpInvoice,
       PollAnswers, LookupFails, FlipFailed, Reconcile, ChargeAnswers, ChargeTimesOut,
       RecordPendingCharge
  <2> QED BY <2>2, <2>3, <2>4
<1>4. ASSUME NEW mode \in CancelModes, Cancel(mode) PROVE Goal
  BY <1>0, <1>4 DEF Cancel, CancelModes, SubType
<1>5. CASE \/ StrayLands \/ PaymentResolves \/ WebhookFailed \/ RefundInvoice
           \/ Tick \/ UNCHANGED vars
  BY <1>5 DEF StrayLands, PaymentResolves, WebhookFailed, RefundInvoice, Tick, vars
<1> QED BY <1>1, <1>2, <1>3, <1>4, <1>5 DEF Next

LEMMA MoneyInvStep ==
    ASSUME MoneyInv, TypeOK', [Next]_vars PROVE MoneyInv'
<1>0. /\ TypeOK /\ PaymentsGrow /\ DoneStays /\ NewlySettled
      /\ SettlesReady'
  BY NextPaymentsGrow, NextDoneStays, NextNewlySettled, SettlesReadyStep DEF MoneyInv
<1>1. PaidIsBacked'
  <2> SUFFICES ASSUME NEW k \in DOMAIN invoices', invoices'[k].status \in Done
               PROVE  invoices'[k].amount = 0 \/ Captured(k)' # {}
    BY DEF PaidIsBacked, Done
  <2>1. CASE HasInvoice(k, Done)
    <3>1. invoices[k].amount = 0 \/ Captured(k) # {}
      BY <2>1 DEF MoneyInv, PaidIsBacked, HasInvoice, Done
    <3>2. invoices'[k].amount = invoices[k].amount
      BY <1>0, <2>1 DEF DoneStays, HasInvoice
    <3> QED BY <1>0, <3>1, <3>2, CapturedStays
  <2>2. CASE ~HasInvoice(k, Done)
    BY <1>0, <2>2 DEF NewlySettled
  <2> QED BY <2>1, <2>2
<1>2. \A k : HasInvoice(k, Done) => HasInvoice(k, Done)'
  BY <1>0 DEF DoneStays, HasInvoice
<1>3. OpenedIsPaid'
  <2> SUFFICES ASSUME sub'.periodStart # 0
               PROVE  HasInvoice(sub.periodStart, Done)'
    BY <1>1 DEF OpenedIsPaid, PaidIsBacked, HasInvoice, Done
  <2>1. CASE sub'.periodStart = sub.periodStart
    BY <1>2, <2>1 DEF MoneyInv, OpenedIsPaid, Done
  <2> QED BY <1>0, <2>1, NextEmitsAndOpens
<1>4. CASE UNCHANGED paidEvents
  BY <1>0, <1>1, <1>2, <1>3, <1>4 DEF MoneyInv, EventsSettled, SettledOnce
<1>5. ASSUME NEW k \in Nat, paidEvents' = Append(paidEvents, k),
             ~HasInvoice(k, Done), HasInvoice(k, Done)'
      PROVE  MoneyInv'
  <2>1. /\ Len(paidEvents) \in Nat
        /\ DOMAIN paidEvents = 1 .. Len(paidEvents)
        /\ DOMAIN paidEvents' = 1 .. (Len(paidEvents) + 1)
        /\ \A i \in 1 .. Len(paidEvents) : paidEvents'[i] = paidEvents[i]
        /\ paidEvents'[Len(paidEvents) + 1] = k
    BY <1>0, <1>5 DEF TypeOK
  <2>2. \A i \in DOMAIN paidEvents' : i \in DOMAIN paidEvents \/ i = Len(paidEvents) + 1
    BY <2>1
  <2>3. \A i \in DOMAIN paidEvents : HasInvoice(paidEvents[i], Done) /\ paidEvents[i] # k
    BY <1>5 DEF MoneyInv, EventsSettled
  <2>4. EventsSettled'
    BY <1>2, <1>5, <2>1, <2>2, <2>3 DEF EventsSettled
  <2>5. \A i, j \in DOMAIN paidEvents : paidEvents[i] = paidEvents[j] => i = j
    BY DEF MoneyInv, SettledOnce
  <2>6. SettledOnce'
    BY <2>1, <2>2, <2>3, <2>5 DEF SettledOnce
  <2> QED BY <1>0, <1>1, <1>3, <2>4, <2>6 DEF MoneyInv
<1> QED BY <1>0, <1>4, <1>5, NextEmitsAndOpens

\* However many scans overlap, time out, crash and are run again, and whichever of
\* them and the webhooks settles: no period opens over an unsettled invoice, no
\* invoice counts as paid without captured money behind it, and none is settled
\* (its credits spent, its event emitted) twice.
THEOREM MoneyCorrect == Spec => [](OpenedIsPaid /\ PaidIsBacked /\ SettledOnce)
<1>1. Init => SettlesReady /\ PaidIsBacked /\ OpenedIsPaid /\ EventsSettled /\ SettledOnce
  <2> SUFFICES ASSUME Init
               PROVE  SettlesReady /\ PaidIsBacked /\ OpenedIsPaid /\ EventsSettled
                      /\ SettledOnce
    OBVIOUS
  <2>1. /\ DOMAIN invoices = {} /\ DOMAIN paidEvents = {}
        /\ \A s \in Scans : scans[s].pc = "idle"
        /\ sub.periodStart = 0
    BY DEF Init, Idle, NewSub
  <2> QED BY <2>1 DEF SettlesReady, PaidIsBacked, OpenedIsPaid, EventsSettled, SettledOnce
<1>2. Spec => []TypeOK
  BY TypeCorrect
<1>3. Init /\ TypeOK => MoneyInv
  BY <1>1 DEF MoneyInv
<1>4. MoneyInv /\ TypeOK' /\ [Next]_vars => MoneyInv'
  BY MoneyInvStep
<1>5. MoneyInv => OpenedIsPaid /\ PaidIsBacked /\ SettledOnce
  BY DEF MoneyInv
<1> QED BY <1>2, <1>3, <1>4, <1>5, PTL DEF Spec

----------------------------------------------------------------------------
(* The guards of the advance and of the ladder. *)

\* Every write of the status is guarded on an entitled row.
LEMMA CanceledKept ==
    ASSUME TypeOK, [Next]_vars, sub.status = "canceled"
    PROVE  sub'.status = "canceled"
<1>0. sub \in SubType /\ "canceled" \notin Entitled
  BY DEF TypeOK, Entitled
<1>1. CASE UNCHANGED sub
  BY <1>1
<1>2. ASSUME NEW s \in Scans, ScanStep(s) \/ Crash(s) PROVE UNCHANGED sub
  BY <1>0, <1>2
     DEF ScanStep, Crash, ReadSubscription, CancelAtPeriodEnd, LookUpInvoice,
     PollAnswers, LookupFails, FlipFailed, Reconcile, ChargeAnswers, ChargeTimesOut,
     RecordPendingCharge, HandleSuccess, HandleFailure, CanAdvance, RungTaken
<1>3. ASSUME NEW mode \in CancelModes, Cancel(mode) PROVE FALSE
  BY <1>0, <1>3 DEF Cancel
<1>4. CASE \/ StrayLands \/ PaymentResolves \/ WebhookPaid \/ WebhookFailed
           \/ RefundInvoice \/ Tick
  BY <1>4 DEF StrayLands, PaymentResolves, WebhookPaid, WebhookFailed,
     RefundInvoice, Tick
<1> QED BY <1>1, <1>2, <1>3, <1>4 DEF Next, vars

\* No stale scan, retry or late outcome makes a canceled subscription anything
\* else.
THEOREM CanceledIsFinal == Spec => CanceledStaysCanceled
<1>1. TypeOK /\ [Next]_vars => [sub.status = "canceled" => sub'.status = "canceled"]_vars
  BY CanceledKept
<1> QED BY <1>1, TypeCorrect, PTL DEF Spec, CanceledStaysCanceled

----------------------------------------------------------------------------
(* The ladder.  A scan compares what it read with the row it writes; the    *)
(* invariant says what a scan of the row's current period read.             *)

Running(s) == scans[s].pc \notin {"idle", "stop"}

\* The scan works on the period that is still to be paid.
OfThisPeriod(s) == scans[s].end = sub.periodEnd

\* Only the first period starts with a trial, and only the ladder counts rungs.
RowSound ==
    /\ sub.periodEnd >= PeriodLength
    /\ sub.trialEnd # 0 => sub.trialEnd = TrialLength /\ sub.periodEnd = PeriodLength
    /\ sub.status = "trialing" => sub.trialEnd # 0 /\ sub.attempts = 0
    /\ sub.status = "active" => sub.trialEnd = 0 /\ sub.attempts = 0
    /\ sub.status = "past_due" => sub.attempts > 0 /\ sub.retryAt = lastRung + RetryDelay

\* What a scan at work read: a boundary of its own period, which no later write
\* of the row moves back to; and, of the current period, the row's boundary and a
\* rung the row has not gone below.
ScanSound(s) ==
    /\ scans[s].end >= PeriodLength /\ scans[s].end <= sub.periodEnd
    /\ \/ scans[s].anchor = scans[s].end
       \/ scans[s].anchor = TrialLength /\ scans[s].end = PeriodLength
    /\ scans[s].attempts = 0 => scans[s].anchor <= clock
    /\ OfThisPeriod(s) =>
          /\ scans[s].anchor \in {sub.periodEnd, sub.trialEnd}
          /\ scans[s].attempts <= sub.attempts
          /\ sub.status \in Entitled /\ scans[s].attempts = sub.attempts =>
                IF sub.attempts = 0 THEN scans[s].anchor = Anchor(sub)
                                    ELSE sub.retryAt <= clock

LadderInv == /\ TypeOK
             /\ RowSound
             /\ \A s \in Scans : Running(s) => ScanSound(s)

\* What a step may do to the row.
RowCanceled ==
    /\ sub'.status = "canceled" /\ sub'.attempts >= sub.attempts
    /\ sub'.periodStart = sub.periodStart /\ sub'.periodEnd = sub.periodEnd
    /\ sub'.trialEnd = sub.trialEnd

RowLate ==
    /\ sub'.status = "past_due" /\ sub'.attempts = sub.attempts + 1
    /\ sub'.retryAt = clock + RetryDelay /\ lastRung' = clock
    /\ sub'.periodStart = sub.periodStart /\ sub'.periodEnd = sub.periodEnd
    /\ sub'.trialEnd = sub.trialEnd
    /\ sub'.cancelAtPeriodEnd = sub.cancelAtPeriodEnd

RowKept ==
    /\ lastRung' = lastRung
    /\ sub'.status = sub.status /\ sub'.attempts = sub.attempts
    /\ sub'.retryAt = sub.retryAt
    /\ sub'.periodStart = sub.periodStart /\ sub'.periodEnd = sub.periodEnd
    /\ sub'.trialEnd = sub.trialEnd
    /\ sub.cancelAtPeriodEnd => sub'.cancelAtPeriodEnd

RowAdvanced(s) ==
    /\ scans[s].pc = "settle" /\ CanAdvance(scans[s])
    /\ UNCHANGED <<payments, strays, clock>>
    /\ sub'.status = "active" /\ sub'.attempts = 0 /\ sub'.trialEnd = 0
    /\ sub'.periodStart = scans[s].anchor
    /\ sub'.periodEnd = scans[s].anchor + PeriodLength
    /\ sub'.cancelAtPeriodEnd = sub.cancelAtPeriodEnd

\* The row is canceled, goes a rung up, advances, or keeps what the scans compare.
LEMMA NextRow ==
    ASSUME TypeOK, [Next]_vars
    PROVE  RowCanceled \/ RowLate \/ RowKept \/ \E s \in Scans : RowAdvanced(s)
<1>0. sub \in SubType /\ sub.attempts \in Nat /\ clock \in Nat
      /\ scans \in [Scans -> ScanType]
  BY DEF TypeOK, SubType
<1>1. CASE UNCHANGED <<sub, lastRung>>
  BY <1>1 DEF RowKept
<1>2. ASSUME NEW s \in Scans, CancelAtPeriodEnd(s) PROVE RowCanceled \/ RowKept
  <2>1. /\ lastRung' = lastRung
        /\ sub' = sub \/ sub' = [sub EXCEPT !.status = "canceled", !.retryAt = 0]
    BY <1>2 DEF CancelAtPeriodEnd
  <2>2. CASE sub' = [sub EXCEPT !.status = "canceled", !.retryAt = 0]
    BY <1>0, <2>2 DEF RowCanceled, SubType
  <2> QED BY <2>1, <2>2 DEF RowKept
<1>3. ASSUME NEW s \in Scans, HandleSuccess(s) PROVE RowKept \/ RowAdvanced(s)
  BY <1>0, <1>3 DEF HandleSuccess, Advanced, RowAdvanced, RowKept, SubType
<1>4. ASSUME NEW s \in Scans, HandleFailure(s) PROVE RowCanceled \/ RowLate \/ RowKept
  <2>1. \/ sub' = sub /\ lastRung' = lastRung
        \/ sub' = OnRung(sub.attempts + 1) /\ lastRung' = clock
    BY <1>4 DEF HandleFailure, RungTaken
  <2>2. CASE sub' = OnRung(sub.attempts + 1) /\ lastRung' = clock
    BY <1>0, <2>2 DEF OnRung, RowCanceled, RowLate, SubType
  <2> QED BY <2>1, <2>2 DEF RowKept
<1>5. ASSUME NEW mode \in CancelModes, Cancel(mode) PROVE RowCanceled \/ RowKept
  BY <1>0, <1>5 DEF Cancel, CancelModes, RowCanceled, RowKept, SubType
<1>6. ASSUME NEW s \in Scans, ScanStep(s) \/ Crash(s),
             ~CancelAtPeriodEnd(s), ~HandleSuccess(s), ~HandleFailure(s)
      PROVE  UNCHANGED <<sub, lastRung>>
  BY <1>6 DEF ScanStep, Crash, ReadSubscription, LookUpInvoice,
     PollAnswers, LookupFails, FlipFailed, Reconcile, ChargeAnswers, ChargeTimesOut,
     RecordPendingCharge
<1>7. CASE \/ StrayLands \/ PaymentResolves \/ WebhookPaid \/ WebhookFailed
           \/ RefundInvoice \/ Tick \/ UNCHANGED vars
  BY <1>1, <1>7 DEF StrayLands, PaymentResolves, WebhookPaid, WebhookFailed,
     RefundInvoice, Tick, vars
<1> QED BY <1>1, <1>2, <1>3, <1>4, <1>5, <1>6, <1>7 DEF Next

\* What a step may do to a scan at work: nothing, end it, move it on with what it
\* read, or start it.
Holds(s) ==
    /\ scans'[s].end = scans[s].end /\ scans'[s].anchor = scans[s].anchor
    /\ scans'[s].attempts = scans[s].attempts

MovesOn(s) ==
    /\ Running(s) /\ Holds(s)
    /\ \/ scans'[s].pc \in {"settle", "dun", "record"}
       \/ scans'[s].pc = "flip" /\ scans[s].pc = "poll"
       \/ scans'[s].pc = "poll" /\ scans[s].anchor \in DOMAIN invoices
       \/ scans'[s].pc = "reconcile" /\ scans[s].attempts > 0
       \/ scans'[s].pc = "charge" /\ UNCHANGED payments /\ Live(scans[s].anchor) = {}
       \/ /\ scans'[s].pc = "charge" /\ UNCHANGED payments
          /\ scans[s].pc = "lookup" /\ scans[s].attempts = 0
          /\ scans[s].anchor \notin DOMAIN invoices

LEMMA NextScan ==
    ASSUME TypeOK, [Next]_vars, NEW s \in Scans
    PROVE  \/ scans'[s] = scans[s]
           \/ scans'[s] = Idle
           \/ ReadSubscription(s)
           \/ MovesOn(s)
<1>0. scans \in [Scans -> ScanType] /\ scans[s] \in ScanType
  BY DEF TypeOK
<1>1. CASE UNCHANGED scans
  BY <1>1
<1>2. ASSUME NEW t \in Scans, t # s, ScanStep(t) \/ Crash(t) PROVE scans'[s] = scans[s]
  BY <1>0, <1>2
     DEF ScanStep, Crash, ReadSubscription, CancelAtPeriodEnd, LookUpInvoice,
     PollAnswers, LookupFails, FlipFailed, Reconcile, ChargeAnswers, ChargeTimesOut,
     RecordPendingCharge, HandleSuccess, HandleFailure, Goto, Finish
<1>3. CASE \/ CancelAtPeriodEnd(s) \/ LookupFails(s) \/ RecordPendingCharge(s)
           \/ HandleSuccess(s) \/ HandleFailure(s) \/ Crash(s)
  BY <1>0, <1>3
     DEF Crash, CancelAtPeriodEnd, LookupFails, RecordPendingCharge, HandleSuccess,
     HandleFailure, Finish
<1>4. CASE LookUpInvoice(s)
  <2>0. /\ scans[s].pc = "lookup" /\ UNCHANGED payments
        /\ scans' = [scans EXCEPT ![s].keep = scans[s].anchor \in DOMAIN invoices,
                                  ![s].pc = Decision(scans[s])]
    BY <1>4 DEF LookUpInvoice
  <2>1. Holds(s) /\ Running(s) /\ scans'[s].pc = Decision(scans[s])
    BY <1>0, <2>0 DEF Holds, Running, ScanType
  <2>2. \/ Decision(scans[s]) \in {"settle", "dun"}
        \/ Decision(scans[s]) = "poll" /\ scans[s].anchor \in DOMAIN invoices
        \/ Decision(scans[s]) = "reconcile" /\ scans[s].attempts > 0
        \/ /\ Decision(scans[s]) = "charge"
           /\ ~(scans[s].attempts > 0)
           /\ \A st \in {"paid", "refunded", "pending", "failed"} :
                 ~HasInvoice(scans[s].anchor, {st})
    <3>1. scans[s].attempts \in Nat
      BY <1>0 DEF ScanType
    <3> QED BY <3>1 DEF Decision, AwaitsCapture, DeclinedUnseen, MayHaveCaptured, HasInvoice
  <2>3. scans[s].anchor \in DOMAIN invoices =>
           invoices[scans[s].anchor].status \in {"paid", "refunded", "pending", "failed"}
    BY DEF TypeOK, InvoiceType
  <2>4. scans[s].attempts \in Nat
    BY <1>0 DEF ScanType
  <2> QED BY <2>0, <2>1, <2>2, <2>3, <2>4 DEF MovesOn, HasInvoice
<1>5. CASE PollAnswers(s)
  BY <1>0, <1>5 DEF PollAnswers, Goto, Finish, MovesOn, Holds, Running, ScanType
<1>6. CASE FlipFailed(s)
  BY <1>0, <1>6 DEF FlipFailed, Goto, Finish, MovesOn, Holds, Running, ScanType
<1>7. CASE Reconcile(s)
  <2>1. /\ scans[s].pc = "reconcile" /\ UNCHANGED payments
        /\ \/ Goto(s, "settle") \/ Goto(s, "record")
           \/ /\ Live(scans[s].anchor) = {}
              /\ \E pc \in {"settle", "charge"} :
                    scans' = [scans EXCEPT ![s].keep = FALSE, ![s].pc = pc]
    BY <1>7 DEF Reconcile
  <2> QED BY <1>0, <2>1 DEF Goto, MovesOn, Holds, Running, ScanType
<1>8. CASE ChargeAnswers(s) \/ ChargeTimesOut(s)
  <2>1. scans[s].pc = "charge" /\ \E pc \in {"settle", "record", "dun"} : Goto(s, pc)
    BY <1>8 DEF ChargeAnswers, ChargeTimesOut, AfterCharge
  <2> QED BY <1>0, <2>1 DEF Goto, MovesOn, Holds, Running, ScanType
<1>9. CASE \/ StrayLands \/ PaymentResolves \/ WebhookPaid \/ WebhookFailed
           \/ RefundInvoice \/ Tick \/ (\E mode \in CancelModes : Cancel(mode))
           \/ UNCHANGED vars
  BY <1>1, <1>9 DEF StrayLands, PaymentResolves, WebhookPaid, WebhookFailed,
     RefundInvoice, Tick, Cancel, vars
<1> QED BY <1>2, <1>3, <1>4, <1>5, <1>6, <1>7, <1>8, <1>9 DEF Next, ScanStep

\* A row that a running scan is not behind of keeps what the scan read.
LEMMA ScanHolds ==
    ASSUME LadderInv, [Next]_vars, NEW s \in Scans, Running(s), Holds(s), clock' = clock
    PROVE  ScanSound(s)'
<1>0. /\ sub \in SubType /\ sub' \in SubType /\ clock \in Nat /\ PeriodLength \in Nat \ {0}
      /\ TrialLength \in Nat \ {0}
      /\ \A t \in Scans : scans[t] \in ScanType
  BY NextType, RenewalAssumption DEF LadderInv, TypeOK, RenewalAssumption
<1>1. ScanSound(s) /\ RowSound
  BY DEF LadderInv
<1>2. ASSUME NEW t \in Scans, RowAdvanced(t) PROVE ScanSound(s)'
  <2>1. ScanSound(t) /\ OfThisPeriod(t)
    BY <1>2 DEF LadderInv, Running, RowAdvanced, CanAdvance, OfThisPeriod
  <2>2. sub'.periodEnd > sub.periodEnd /\ sub'.periodEnd \in Nat
    BY <1>0, <1>2, <2>1 DEF ScanSound, OfThisPeriod, RowAdvanced, ScanType, SubType
  <2> QED BY <1>0, <1>1, <2>2 DEF ScanSound, Holds, OfThisPeriod, ScanType, SubType
<1>3. CASE RowKept
  <2>1. Anchor(sub)' = Anchor(sub)
    BY <1>3 DEF RowKept, Anchor
  <2> QED BY <1>1, <1>3, <2>1 DEF RowKept, ScanSound, Holds, OfThisPeriod
<1>4. CASE RowCanceled
  <2>1. "canceled" \notin Entitled
    BY DEF Entitled
  <2> QED BY <1>0, <1>1, <1>4, <2>1 DEF RowCanceled, ScanSound, Holds, OfThisPeriod, ScanType, SubType
<1>5. CASE RowLate
  <2>1. ScanSound(s) => (OfThisPeriod(s) => scans[s].attempts < sub'.attempts)
    BY <1>0, <1>5 DEF RowLate, ScanSound, ScanType, SubType
  <2> QED BY <1>0, <1>1, <1>5, <2>1 DEF RowLate, ScanSound, Holds, OfThisPeriod, ScanType, SubType
<1> QED BY <1>2, <1>3, <1>4, <1>5, NextRow DEF LadderInv

\* A scan that starts reads the row as it is.
LEMMA ScanStarts ==
    ASSUME LadderInv, [Next]_vars, NEW s \in Scans, ReadSubscription(s), Running(s)'
    PROVE  /\ ScanSound(s)' /\ scans'[s].pc = "lookup" /\ OfThisPeriod(s)'
           /\ sub' = sub /\ sub.status \in Entitled
           /\ scans'[s].attempts = sub.attempts /\ scans'[s].anchor = Anchor(sub)
<1>0. /\ sub \in SubType /\ clock \in Nat /\ PeriodLength \in Nat \ {0}
      /\ TrialLength \in Nat \ {0} /\ scans \in [Scans -> ScanType]
  BY RenewalAssumption DEF LadderInv, TypeOK, RenewalAssumption
<1>1. /\ scans'[s].pc = "lookup" /\ scans'[s].anchor = Anchor(sub)
      /\ scans'[s].end = sub.periodEnd /\ scans'[s].attempts = sub.attempts
      /\ sub' = sub /\ clock' = clock /\ IsDue(sub)
  <2>1. PICK amount \in Amounts :
          scans' = [scans EXCEPT ![s] =
              IF sub.cancelAtPeriodEnd
              THEN [Idle EXCEPT !.pc = "stop"]
              ELSE [pc |-> "lookup", anchor |-> Anchor(sub),
                    start |-> sub.periodStart, end |-> sub.periodEnd,
                    attempts |-> sub.attempts, amount |-> amount,
                    keep |-> FALSE]]
    BY DEF ReadSubscription
  <2>2. ~sub.cancelAtPeriodEnd
    BY <1>0, <2>1 DEF Running, Idle
  <2> QED BY <1>0, <2>1, <2>2 DEF ReadSubscription
<1>2. RowSound
  BY DEF LadderInv
<1>3. sub.status \in Entitled /\ DueAt(sub) <= clock
  BY <1>0, <1>1 DEF IsDue, DueAt, SubType, Statuses, Entitled
<1>4. /\ sub.attempts = 0 => Anchor(sub) <= clock
      /\ sub.attempts # 0 => sub.retryAt <= clock
      /\ Anchor(sub) \in {sub.periodEnd, sub.trialEnd}
      /\ Anchor(sub) = sub.periodEnd \/ (Anchor(sub) = TrialLength /\ sub.periodEnd = PeriodLength)
  BY <1>0, <1>2, <1>3 DEF RowSound, DueAt, Anchor, Entitled, SubType
<1> QED BY <1>0, <1>1, <1>2, <1>3, <1>4 DEF ScanSound, RowSound, OfThisPeriod, SubType

\* Only a tick moves the clock, and no scan runs through it.
LEMMA NextClock ==
    ASSUME [Next]_vars PROVE clock' = clock \/ Tick
BY DEF Next, vars, ScanStep, Crash, ReadSubscription, CancelAtPeriodEnd, LookUpInvoice,
   PollAnswers, LookupFails, FlipFailed, Reconcile, ChargeAnswers, ChargeTimesOut,
   RecordPendingCharge, HandleSuccess, HandleFailure, StrayLands, PaymentResolves,
   WebhookPaid, WebhookFailed, Cancel, RefundInvoice

LEMMA LadderInit == ASSUME Init PROVE RowSound /\ \A s \in Scans : ~Running(s)
<1>1. RowSound
  BY RenewalAssumption DEF RenewalAssumption, Init, NewSub, RowSound
<1> QED BY <1>1 DEF Init, Running, Idle

LEMMA LadderStep == ASSUME LadderInv, [Next]_vars PROVE LadderInv'
<1>0. TypeOK /\ TypeOK' /\ RowSound
  BY NextType DEF LadderInv
<1>1. RowSound'
  <2>0. /\ sub \in SubType /\ sub' \in SubType /\ PeriodLength \in Nat
        /\ \A s \in Scans : scans[s] \in ScanType
    BY <1>0, RenewalAssumption DEF TypeOK, RenewalAssumption
  <2>1. CASE RowCanceled
    BY <1>0, <2>1 DEF RowCanceled, RowSound
  <2>2. CASE RowLate
    BY <1>0, <2>0, <2>2 DEF RowLate, RowSound, SubType
  <2>3. CASE RowKept
    BY <1>0, <2>3 DEF RowKept, RowSound
  <2>4. ASSUME NEW s \in Scans, RowAdvanced(s) PROVE RowSound'
    BY <2>0, <2>4 DEF RowAdvanced, RowSound, ScanType
  <2> QED BY <1>0, <2>1, <2>2, <2>3, <2>4, NextRow
<1>2. ASSUME NEW s \in Scans, Running(s)' PROVE ScanSound(s)'
  <2>1. CASE Tick
    BY <1>2, <2>1 DEF Tick, AllIdle, Running
  <2>2. CASE clock' = clock
    <3>1. CASE ReadSubscription(s)
      BY <1>2, <3>1, ScanStarts
    <3>2. CASE scans'[s] = scans[s] \/ MovesOn(s)
      <4>1. Running(s) /\ Holds(s)
        BY <1>2, <3>2 DEF MovesOn, Running, Holds
      <4> QED BY <2>2, <4>1, ScanHolds
    <3>3. scans'[s] # Idle
      BY <1>2 DEF Running, Idle
    <3> QED BY <1>0, <3>1, <3>2, <3>3, NextScan
  <2> QED BY <2>1, <2>2, NextClock
<1> QED BY <1>0, <1>1, <1>2 DEF LadderInv

\* A late scan still opens the new period where the last one, or the trial, ended.
THEOREM LateScansStayContiguous == Spec => PeriodsContiguous
<1>1. Init => LadderInv
  BY LadderInit, TypeInit DEF LadderInv
<1>2. LadderInv /\ [Next]_vars => LadderInv'
  BY LadderStep
<1>3. LadderInv /\ [Next]_vars
        => [sub'.periodStart # sub.periodStart
              => sub'.periodStart \in {sub.periodEnd, sub.trialEnd}]_vars
  <2> SUFFICES ASSUME LadderInv, [Next]_vars, sub'.periodStart # sub.periodStart
               PROVE  sub'.periodStart \in {sub.periodEnd, sub.trialEnd}
    OBVIOUS
  <2>1. PICK s \in Scans : RowAdvanced(s)
    BY NextRow DEF LadderInv, RowCanceled, RowLate, RowKept
  <2>2. ScanSound(s) /\ OfThisPeriod(s)
    BY <2>1 DEF LadderInv, Running, RowAdvanced, CanAdvance, OfThisPeriod
  <2> QED BY <2>1, <2>2 DEF ScanSound, RowAdvanced
<1> QED BY <1>1, <1>2, <1>3, PTL DEF Spec, PeriodsContiguous

\* However many scans race one decline, they take one rung together.
THEOREM RacingScansTakeOneRung == Spec => RungsSpaced
<1>1. Init => LadderInv
  BY LadderInit, TypeInit DEF LadderInv
<1>2. LadderInv /\ [Next]_vars => LadderInv'
  BY LadderStep
<1>3. LadderInv /\ [Next]_vars
        => [\A s \in Scans :
              /\ scans[s].pc = "dun" /\ scans'[s].pc = "idle"
              /\ scans[s].end = sub.periodEnd
              /\ sub'.attempts > sub.attempts /\ sub.attempts > 0
              => clock >= lastRung + RetryDelay]_vars
  <2> SUFFICES ASSUME LadderInv, [Next]_vars, NEW s \in Scans,
                      scans[s].pc = "dun", scans'[s].pc = "idle",
                      scans[s].end = sub.periodEnd,
                      sub'.attempts > sub.attempts, sub.attempts > 0
               PROVE  clock >= lastRung + RetryDelay
    OBVIOUS
  <2>0. /\ scans \in [Scans -> ScanType] /\ sub.attempts \in Nat /\ sub \in SubType
        /\ crashes \in Nat /\ clock \in Nat /\ lastRung \in Nat /\ RetryDelay \in Nat
    BY RenewalAssumption DEF LadderInv, TypeOK, SubType, RenewalAssumption
  <2>1. HandleFailure(s)
    <3>1. ASSUME NEW t \in Scans, ScanStep(t) \/ Crash(t), sub' # sub PROVE ~Crash(t)
      BY <3>1 DEF Crash
    <3>2. sub' # sub /\ scans' # scans
      BY <2>0
    <3>3. PICK t \in Scans : ScanStep(t)
      BY <3>1, <3>2 DEF Next, vars, StrayLands, PaymentResolves, WebhookPaid, WebhookFailed,
         Cancel, RefundInvoice, Tick
    <3>4. CancelAtPeriodEnd(t) \/ HandleSuccess(t) \/ HandleFailure(t)
      BY <3>2, <3>3 DEF ScanStep, ReadSubscription, LookUpInvoice, PollAnswers, LookupFails,
         FlipFailed, Reconcile, ChargeAnswers, ChargeTimesOut, RecordPendingCharge
    <3>5. t = s
      BY <2>0, <3>4 DEF CancelAtPeriodEnd, HandleSuccess, HandleFailure, Finish
    <3> QED BY <3>4, <3>5 DEF CancelAtPeriodEnd, HandleSuccess
  <2>2. sub.status \in Entitled /\ sub.attempts = scans[s].attempts
    BY <2>0, <2>1 DEF HandleFailure, RungTaken
  <2>3. ScanSound(s) /\ RowSound
    BY DEF LadderInv, Running
  <2>4. sub.retryAt <= clock
    BY <2>2, <2>3 DEF ScanSound, OfThisPeriod
  <2>5. sub.status = "past_due"
    BY <2>2, <2>3 DEF RowSound, Entitled
  <2> QED BY <2>0, <2>3, <2>4, <2>5 DEF RowSound, SubType
<1> QED BY <1>1, <1>2, <1>3, PTL DEF Spec, RungsSpaced

----------------------------------------------------------------------------
(* One payment per period.  The provider replays a key only while it        *)
(* remembers it, so the scans must not ask under an old key again before    *)
(* they have looked: a row no invoice says anything of is charged in the    *)
(* tick its boundary is first charged, or, when a crash lost that charge,   *)
(* in the next.                                                             *)

\* What the proof needs of time: scans complete within a tick, the provider
\* remembers a key for more than one, and a trial is no longer than a period.
Timely == ~LongOutage /\ IdempotenceWindow >= 2 /\ TrialLength <= PeriodLength

\* The row as it is before anything of its period is recorded.
Unrecorded ==
    /\ sub.status \in Entitled /\ sub.attempts = 0
    /\ Anchor(sub) \notin DOMAIN invoices

\* Keys are boundaries the row has reached or stands at.
KeysReached ==
    /\ \A i \in DOMAIN payments : payments[i].key <= sub.periodEnd
    /\ \A req \in strays : req.key <= sub.periodEnd

\* An unrecorded period is charged only once it is due, and is charged again
\* within a tick of its first payment.
UnrecordedIsRecent ==
    Unrecorded =>
        /\ \A req \in strays : req.key = Anchor(sub) => Anchor(sub) <= clock
        /\ \A i \in DOMAIN payments :
              payments[i].key = Anchor(sub) =>
                  /\ Anchor(sub) <= clock
                  /\ clock <= payments[i].at + (IF scanned THEN 0 ELSE 1)

\* The provider still remembers every payment under k that was not canceled.
Fresh(k) == \A i \in Live(k) : clock < payments[i].at + IdempotenceWindow

\* What else a scan at work relies on.
StepSound(s) ==
    /\ scans[s].pc \in {"poll", "flip"} => scans[s].anchor \in DOMAIN invoices
    /\ scans[s].pc = "reconcile" => scans[s].attempts > 0
    /\ scans[s].pc = "charge" => Fresh(scans[s].anchor)
    /\ scans[s].pc = "lookup" /\ scans[s].attempts = 0 =>
          scans[s].anchor \in DOMAIN invoices \/ Fresh(scans[s].anchor)
    /\ ~OfThisPeriod(s) =>
          \A i \in DOMAIN payments :
              payments[i].key = sub.periodEnd => payments[i].at >= clock

StopSound(s) == scans[s].pc = "stop" => sub.cancelAtPeriodEnd \/ sub.status = "canceled"

\* At most one payment under a key is not canceled.
LiveOnce ==
    \A i, j \in DOMAIN payments :
        /\ payments[i].key = payments[j].key
        /\ payments[i].state # "canceled" /\ payments[j].state # "canceled"
        => i = j

OnceInv ==
    /\ LadderInv
    /\ KeysReached
    /\ UnrecordedIsRecent
    /\ \A s \in Scans : StopSound(s) /\ (Running(s) => StepSound(s))
    /\ \A req \in strays : Fresh(req.key)
    /\ LiveOnce

\* What a step does to the payments: a payment keeps its key and its date and is
\* not revived; a new one is for a request, under a key the provider forgot.
Requesting(key) ==
    \/ \E req \in strays : req.key = key
    \/ \E s \in Scans : scans[s].pc = "charge" /\ scans[s].anchor = key

KeptPayment(i) ==
    /\ i \in DOMAIN payments
    /\ payments'[i].key = payments[i].key /\ payments'[i].at = payments[i].at
    /\ payments'[i].state # "canceled" => payments[i].state # "canceled"

NewPayment(i) ==
    /\ i = Len(payments) + 1 /\ payments'[i].at = clock /\ clock' = clock
    /\ Requesting(payments'[i].key) /\ Remembered(payments'[i].key) = {}

KnownPayments == \A i \in DOMAIN payments' : KeptPayment(i) \/ NewPayment(i)

LEMMA CreatePaymentKnown ==
    ASSUME TypeOK, NEW req, NEW state, CreatePayment(req, state), Requesting(req.key),
           clock' = clock
    PROVE  KnownPayments
<1> DEFINE p == [key |-> req.key, period |-> req.period, amount |-> req.amount,
                 at |-> clock, state |-> state]
<1>0. payments \in Seq(PaymentType) /\ DOMAIN payments = 1 .. Len(payments)
      /\ Len(payments) \in Nat
  BY LenProperties DEF TypeOK
<1>1. CASE UNCHANGED payments
  BY <1>1 DEF KnownPayments, KeptPayment
<1>2. CASE payments' = Append(payments, p) /\ Remembered(req.key) = {}
  <2>1. /\ DOMAIN payments' = 1 .. (Len(payments) + 1)
        /\ \A i \in 1 .. Len(payments) : payments'[i] = payments[i]
        /\ payments'[Len(payments) + 1] = p
    BY <1>0, <1>2
  <2>2. p.key = req.key /\ p.at = clock
    OBVIOUS
  <2>3. NewPayment(Len(payments) + 1)
    BY <1>2, <2>1, <2>2 DEF NewPayment
  <2>4. \A i \in 1 .. Len(payments) : KeptPayment(i)
    BY <1>0, <2>1 DEF KeptPayment
  <2> QED BY <1>0, <2>1, <2>3, <2>4 DEF KnownPayments
<1> QED BY <1>1, <1>2 DEF CreatePayment

LEMMA NextPayments == ASSUME TypeOK, [Next]_vars PROVE KnownPayments
<1>1. CASE UNCHANGED payments
  BY <1>1 DEF KnownPayments, KeptPayment
<1>2. ASSUME NEW s \in Scans, ChargeAnswers(s) PROVE KnownPayments
  <2>1. PICK state \in {"captured", "pending", "canceled"} :
           CreatePayment(Request(scans[s]), state)
    BY <1>2 DEF ChargeAnswers
  <2>2. Requesting(Request(scans[s]).key) /\ clock' = clock
    BY <1>2 DEF ChargeAnswers, Requesting, Request
  <2> QED BY <2>1, <2>2, CreatePaymentKnown
<1>3. CASE StrayLands
  <2>1. PICK req \in strays, state \in {"captured", "pending", "canceled"} :
           CreatePayment(req, state)
    BY <1>3 DEF StrayLands
  <2>2. Requesting(req.key) /\ clock' = clock
    BY <1>3 DEF StrayLands, Requesting
  <2> QED BY <2>1, <2>2, CreatePaymentKnown
<1>4. CASE PaymentResolves
  <2>1. PICK i \in DOMAIN payments, state \in {"captured", "canceled"} :
           /\ payments[i].state = "pending"
           /\ payments' = [payments EXCEPT ![i].state = state]
    BY <1>4 DEF PaymentResolves
  <2>2. /\ DOMAIN payments' = DOMAIN payments
        /\ \A j \in DOMAIN payments : j # i => payments'[j] = payments[j]
        /\ payments'[i] = [payments[i] EXCEPT !.state = state]
    BY <2>1
  <2>3. payments[i] \in PaymentType
    BY LenProperties, ElementOfSeq DEF TypeOK
  <2>4. payments'[i].key = payments[i].key /\ payments'[i].at = payments[i].at
    BY <2>2, <2>3 DEF PaymentType
  <2> QED BY <2>1, <2>2, <2>4 DEF KnownPayments, KeptPayment
<1>5. ASSUME NEW s \in Scans, ScanStep(s) \/ Crash(s), ~ChargeAnswers(s)
      PROVE  UNCHANGED payments
  BY <1>5 DEF ScanStep, Crash, ReadSubscription, CancelAtPeriodEnd, LookUpInvoice,
     PollAnswers, LookupFails, FlipFailed, Reconcile, ChargeTimesOut,
     RecordPendingCharge, HandleSuccess, HandleFailure
<1>6. CASE \/ WebhookPaid \/ WebhookFailed \/ RefundInvoice \/ Tick
           \/ (\E mode \in CancelModes : Cancel(mode)) \/ UNCHANGED vars
  BY <1>1, <1>6 DEF WebhookPaid, WebhookFailed, RefundInvoice, Tick, Cancel, vars
<1> QED BY <1>1, <1>2, <1>3, <1>4, <1>5, <1>6 DEF Next

\* A request is given up on only by the scan that made it.
LEMMA NextStrays ==
    ASSUME TypeOK, [Next]_vars, NEW req \in strays'
    PROVE  req \in strays \/ Requesting(req.key)
<1>1. ASSUME NEW s \in Scans, ChargeTimesOut(s) PROVE req \in strays \/ Requesting(req.key)
  BY <1>1 DEF ChargeTimesOut, Requesting, Request
<1>2. CASE StrayLands
  BY <1>2 DEF StrayLands
<1>3. ASSUME NEW s \in Scans, ScanStep(s) \/ Crash(s), ~ChargeTimesOut(s)
      PROVE  UNCHANGED strays
  BY <1>3 DEF ScanStep, Crash, ReadSubscription, CancelAtPeriodEnd, LookUpInvoice,
     PollAnswers, LookupFails, FlipFailed, Reconcile, ChargeAnswers,
     RecordPendingCharge, HandleSuccess, HandleFailure
<1>4. CASE \/ WebhookPaid \/ WebhookFailed \/ RefundInvoice \/ Tick \/ PaymentResolves
           \/ (\E mode \in CancelModes : Cancel(mode)) \/ UNCHANGED vars
  BY <1>4 DEF WebhookPaid, WebhookFailed, RefundInvoice, Tick, PaymentResolves, Cancel, vars
<1> QED BY <1>1, <1>2, <1>3, <1>4 DEF Next

\* An invoice row is never removed.
LEMMA NextInvoices == ASSUME [Next]_vars PROVE DOMAIN invoices \subseteq DOMAIN invoices'
<1>1. CASE UNCHANGED invoices
  BY <1>1
<1>2. ASSUME NEW s \in Scans, ScanStep(s) \/ Crash(s)
      PROVE  DOMAIN invoices \subseteq DOMAIN invoices'
  BY <1>2 DEF ScanStep, Crash, ReadSubscription, CancelAtPeriodEnd, LookUpInvoice,
     PollAnswers, LookupFails, FlipFailed, Reconcile, ChargeAnswers, ChargeTimesOut,
     RecordPendingCharge, HandleSuccess, HandleFailure, WithInvoice
<1>3. CASE WebhookPaid \/ WebhookFailed \/ RefundInvoice
  BY <1>3 DEF WebhookPaid, WebhookFailed, RefundInvoice
<1>4. CASE \/ StrayLands \/ PaymentResolves \/ Tick
           \/ (\E mode \in CancelModes : Cancel(mode)) \/ UNCHANGED vars
  BY <1>1, <1>4 DEF StrayLands, PaymentResolves, Tick, Cancel, vars
<1> QED BY <1>1, <1>2, <1>3, <1>4 DEF Next

LEMMA OnceTypes ==
    ASSUME OnceInv
    PROVE  /\ sub \in SubType /\ clock \in Nat /\ scans \in [Scans -> ScanType]
           /\ sub.periodEnd \in Nat /\ sub.attempts \in Nat /\ Anchor(sub) \in Nat
           /\ \A s \in Scans : /\ scans[s].anchor \in Nat /\ scans[s].end \in Nat
                               /\ scans[s].attempts \in Nat
           /\ \A i \in DOMAIN payments : payments[i].key \in Nat /\ payments[i].at \in Nat
           /\ \A req \in strays : req.key \in Nat
           /\ PeriodLength \in Nat \ {0} /\ TrialLength \in Nat \ {0}
           /\ IdempotenceWindow \in Nat
<1>1. sub \in SubType /\ clock \in Nat /\ scans \in [Scans -> ScanType]
  BY DEF OnceInv, LadderInv, TypeOK
<1>2. ASSUME NEW i \in DOMAIN payments PROVE payments[i].key \in Nat /\ payments[i].at \in Nat
  <2>1. payments[i] \in PaymentType
    BY LenProperties, ElementOfSeq DEF OnceInv, LadderInv, TypeOK
  <2> QED BY <2>1 DEF PaymentType
<1>3. \A req \in strays : req.key \in Nat
  BY DEF OnceInv, LadderInv, TypeOK, RequestType
<1>4. Anchor(sub) \in Nat
  BY <1>1 DEF Anchor, SubType
<1> QED BY <1>1, <1>2, <1>3, <1>4, RenewalAssumption DEF SubType, ScanType, RenewalAssumption

\* A scan of the current period whose rung is 0 works on the row's boundary; one
\* of an earlier period on a boundary below it.
LEMMA ScanBoundary ==
    ASSUME OnceInv, Timely, NEW s \in Scans, Running(s)
    PROVE  /\ scans[s].anchor <= scans[s].end /\ scans[s].end <= sub.periodEnd
           /\ ~OfThisPeriod(s) =>
                 scans[s].anchor < sub.periodEnd /\ (sub.status \in Entitled => Anchor(sub) = sub.periodEnd)
           /\ OfThisPeriod(s) /\ sub.status \in Entitled /\ sub.attempts = 0 =>
                 /\ scans[s].attempts = 0 /\ scans[s].anchor = Anchor(sub)
                 /\ scans[s].anchor <= clock
<1>1. ScanSound(s) /\ RowSound
  BY DEF OnceInv, LadderInv
<1>2. scans[s].anchor <= scans[s].end /\ scans[s].end <= sub.periodEnd
  BY <1>1, OnceTypes DEF ScanSound, Timely
<1>3. ASSUME ~OfThisPeriod(s)
      PROVE  scans[s].anchor < sub.periodEnd /\ (sub.status \in Entitled => Anchor(sub) = sub.periodEnd)
  <2>1. scans[s].end < sub.periodEnd /\ PeriodLength < sub.periodEnd
    BY <1>1, <1>2, <1>3, OnceTypes DEF ScanSound, OfThisPeriod
  <2>2. sub.status # "trialing"
    BY <1>1, <2>1, OnceTypes DEF RowSound
  <2> QED BY <1>2, <2>1, <2>2, OnceTypes DEF Anchor
<1>4. ASSUME OfThisPeriod(s), sub.status \in Entitled, sub.attempts = 0
      PROVE  /\ scans[s].attempts = 0 /\ scans[s].anchor = Anchor(sub)
             /\ scans[s].anchor <= clock
  BY <1>1, <1>4, OnceTypes DEF ScanSound
<1> QED BY <1>2, <1>3, <1>4

\* A request is for a boundary the row has reached, and for an unrecorded period
\* only once it is due.
LEMMA RequestsReached ==
    ASSUME OnceInv, Timely, NEW key, Requesting(key)
    PROVE  /\ key <= sub.periodEnd /\ Fresh(key)
           /\ Unrecorded /\ key = Anchor(sub) => Anchor(sub) <= clock
<1>1. CASE \E req \in strays : req.key = key
  BY <1>1 DEF OnceInv, KeysReached, UnrecordedIsRecent
<1>2. ASSUME NEW s \in Scans, scans[s].pc = "charge", scans[s].anchor = key
      PROVE  /\ key <= sub.periodEnd /\ Fresh(key)
             /\ Unrecorded /\ key = Anchor(sub) => Anchor(sub) <= clock
  <2>1. Running(s)
    BY <1>2 DEF Running
  <2>2. Fresh(key)
    BY <1>2, <2>1 DEF OnceInv, StepSound
  <2>3. key <= sub.periodEnd
    BY <1>2, <2>1, ScanBoundary, OnceTypes
  <2>4. ASSUME Unrecorded, key = Anchor(sub) PROVE Anchor(sub) <= clock
    <3>1. OfThisPeriod(s)
      BY <1>2, <2>1, <2>4, ScanBoundary, OnceTypes DEF Unrecorded
    <3> QED BY <1>2, <2>1, <2>4, <3>1, ScanBoundary DEF Unrecorded
  <2> QED BY <2>2, <2>3, <2>4
<1> QED BY <1>1, <1>2 DEF Requesting

\* What the provider remembers it goes on remembering within the tick.
LEMMA StaysFresh ==
    ASSUME OnceInv, Timely, KnownPayments, clock' = clock, NEW k, Fresh(k)
    PROVE  Fresh(k)'
<1> SUFFICES ASSUME NEW i \in DOMAIN payments', payments'[i].key = k,
                    payments'[i].state # "canceled"
             PROVE  clock < payments'[i].at + IdempotenceWindow
  BY DEF Fresh, Live
<1>1. CASE KeptPayment(i)
  BY <1>1 DEF KeptPayment, Fresh, Live
<1>2. CASE NewPayment(i)
  BY <1>2, OnceTypes DEF NewPayment, Timely
<1> QED BY <1>1, <1>2 DEF KnownPayments

\* A new payment is under a key with no payment left to capture.
LEMMA LiveOnceStep == ASSUME OnceInv, Timely, KnownPayments PROVE LiveOnce'
<1> SUFFICES ASSUME NEW i \in DOMAIN payments', NEW j \in DOMAIN payments',
                    payments'[i].key = payments'[j].key,
                    payments'[i].state # "canceled", payments'[j].state # "canceled"
             PROVE  i = j
  BY DEF LiveOnce
<1>1. ASSUME NEW m \in DOMAIN payments', NEW n \in DOMAIN payments',
             NewPayment(m), KeptPayment(n), payments'[n].state # "canceled",
             payments'[n].key = payments'[m].key
      PROVE  FALSE
  <2>1. n \in Live(payments'[m].key)
    BY <1>1 DEF KeptPayment, Live
  <2>2. Fresh(payments'[m].key)
    BY <1>1, RequestsReached DEF NewPayment
  <2>3. n \in Remembered(payments'[m].key)
    BY <2>1, <2>2 DEF Fresh, Remembered, Live
  <2> QED BY <1>1, <2>3 DEF NewPayment
<1>2. CASE KeptPayment(i) /\ KeptPayment(j)
  BY <1>2 DEF KeptPayment, OnceInv, LiveOnce
<1>3. CASE NewPayment(i) /\ NewPayment(j)
  BY <1>3 DEF NewPayment
<1> QED BY <1>1, <1>2, <1>3 DEF KnownPayments

\* When the row advances, no key is at the new boundary yet.
LEMMA AdvanceOpens ==
    ASSUME OnceInv, Timely, NEW s \in Scans, RowAdvanced(s)
    PROVE  /\ sub'.periodEnd > sub.periodEnd /\ sub'.periodEnd \in Nat
           /\ Anchor(sub)' = sub'.periodEnd
           /\ payments' = payments /\ strays' = strays
<1>1. Running(s) /\ OfThisPeriod(s)
  BY DEF RowAdvanced, Running, CanAdvance, OfThisPeriod
<1>2. ScanSound(s)
  BY <1>1 DEF OnceInv, LadderInv
<1>3. scans[s].anchor + PeriodLength > sub.periodEnd /\ scans[s].anchor + PeriodLength \in Nat
  BY <1>1, <1>2, OnceTypes DEF ScanSound, OfThisPeriod
<1> QED BY <1>3 DEF RowAdvanced, Anchor

LEMMA KeysReachedStep ==
    ASSUME OnceInv, Timely, [Next]_vars PROVE KeysReached'
<1>0. TypeOK
  BY DEF OnceInv, LadderInv
<1>1. sub'.periodEnd >= sub.periodEnd /\ sub'.periodEnd \in Nat
  <2>1. ASSUME NEW s \in Scans, RowAdvanced(s) PROVE sub'.periodEnd >= sub.periodEnd /\ sub'.periodEnd \in Nat
    BY <2>1, AdvanceOpens, OnceTypes
  <2>2. CASE RowCanceled \/ RowLate \/ RowKept
    BY <2>2, OnceTypes DEF RowCanceled, RowLate, RowKept
  <2> QED BY <1>0, <2>1, <2>2, NextRow
<1>2. ASSUME NEW i \in DOMAIN payments' PROVE payments'[i].key <= sub'.periodEnd
  <2>1. CASE KeptPayment(i)
    BY <1>1, <2>1, OnceTypes DEF KeptPayment, OnceInv, KeysReached
  <2>2. CASE NewPayment(i)
    <3>1. payments'[i].key <= sub.periodEnd
      BY <2>2, RequestsReached DEF NewPayment
    <3>2. payments'[i].key \in Nat
      BY <2>2, OnceTypes DEF NewPayment, Requesting
    <3> QED BY <1>1, <3>1, <3>2, OnceTypes
  <2> QED BY <1>0, <2>1, <2>2, NextPayments DEF KnownPayments
<1>3. ASSUME NEW req \in strays' PROVE req.key <= sub'.periodEnd
  <2>1. Requesting(req.key)
    BY <1>0, NextStrays DEF Requesting
  <2>2. req.key <= sub.periodEnd /\ req.key \in Nat
    BY <2>1, RequestsReached, OnceTypes DEF Requesting
  <2> QED BY <1>1, <2>2, OnceTypes
<1> QED BY <1>2, <1>3 DEF KeysReached

\* A scan about to stop the subscription still may: the flag is only cleared by
\* what cancels the row itself.
LEMMA StopSoundStep ==
    ASSUME OnceInv, [Next]_vars, NEW s \in Scans PROVE StopSound(s)'
<1> SUFFICES ASSUME scans'[s].pc = "stop"
             PROVE  sub'.cancelAtPeriodEnd \/ sub'.status = "canceled"
  BY DEF StopSound
<1>0. TypeOK
  BY DEF OnceInv, LadderInv
<1>1. CASE ReadSubscription(s)
  <2>1. sub.cancelAtPeriodEnd /\ sub' = sub
    BY <1>1, OnceTypes DEF ReadSubscription
  <2> QED BY <2>1
<1>2. CASE scans'[s] = scans[s]
  <2>1. sub.cancelAtPeriodEnd \/ sub.status = "canceled"
    BY <1>2 DEF OnceInv, StopSound
  <2>2. ASSUME NEW t \in Scans, RowAdvanced(t)
        PROVE  sub'.cancelAtPeriodEnd \/ sub'.status = "canceled"
    BY <2>1, <2>2 DEF RowAdvanced, CanAdvance, Entitled
  <2>3. CASE RowLate
    <3>1. sub.status # "canceled"
      BY <1>0, <2>3, CanceledKept DEF RowLate
    <3> QED BY <2>1, <2>3, <3>1 DEF RowLate
  <2>4. CASE RowCanceled \/ RowKept
    BY <2>1, <2>4 DEF RowCanceled, RowKept
  <2> QED BY <1>0, <2>2, <2>3, <2>4, NextRow
<1>3. CASE MovesOn(s) \/ scans'[s] = Idle
  BY <1>3 DEF MovesOn, Idle
<1> QED BY <1>0, <1>1, <1>2, <1>3, NextScan

\* Within a tick a scan at work keeps what it relies on.
LEMMA StepSoundStep ==
    ASSUME OnceInv, Timely, [Next]_vars, clock' = clock, NEW s \in Scans, Running(s)'
    PROVE  StepSound(s)'
<1>0. TypeOK /\ KnownPayments /\ DOMAIN invoices \subseteq DOMAIN invoices'
  BY NextPayments, NextInvoices DEF OnceInv, LadderInv
<1>1. CASE ReadSubscription(s)
  <2>1. /\ scans'[s].pc = "lookup" /\ OfThisPeriod(s)'
        /\ sub' = sub /\ sub.status \in Entitled
        /\ scans'[s].attempts = sub.attempts /\ scans'[s].anchor = Anchor(sub)
    BY <1>1, ScanStarts DEF OnceInv
  <2>2. ASSUME sub.attempts = 0, Anchor(sub) \notin DOMAIN invoices PROVE Fresh(Anchor(sub))
    <3>1. Unrecorded
      BY <2>1, <2>2 DEF Unrecorded
    <3>2. ASSUME NEW i \in DOMAIN payments, payments[i].key = Anchor(sub)
          PROVE  clock < payments[i].at + IdempotenceWindow
      <4>1. clock <= payments[i].at + 1
        BY <3>1, <3>2, OnceTypes DEF OnceInv, UnrecordedIsRecent
      <4> QED BY <3>2, <4>1, OnceTypes DEF Timely
    <3> QED BY <3>2 DEF Fresh, Live
  <2>3. Fresh(Anchor(sub)) => Fresh(scans[s].anchor)'
    <3>1. PICK k : k = Anchor(sub)
      OBVIOUS
    <3>2. Fresh(k) => Fresh(k)'
      BY <1>0, StaysFresh
    <3>3. Fresh(k)' => Fresh(scans[s].anchor)'
      BY <2>1, <3>1 DEF Fresh, Live
    <3> QED BY <3>1, <3>2, <3>3
  <2> QED BY <1>0, <2>1, <2>2, <2>3 DEF StepSound
<1>2. CASE scans'[s] = scans[s] \/ MovesOn(s)
  <2>0. Running(s) /\ Holds(s) /\ StepSound(s)
    BY <1>2 DEF MovesOn, Running, Holds, OnceInv
  <2>1. ASSUME ~OfThisPeriod(s)', NEW i \in DOMAIN payments',
               payments'[i].key = sub'.periodEnd
        PROVE  payments'[i].at >= clock
    <3>1. ASSUME NEW t \in Scans, RowAdvanced(t) PROVE FALSE
      <4>1. payments[i].key > sub.periodEnd /\ i \in DOMAIN payments
        BY <2>1, <3>1, AdvanceOpens
      <4> QED BY <4>1, OnceTypes DEF OnceInv, KeysReached
    <3>2. sub'.periodEnd = sub.periodEnd
      BY <1>0, <3>1, NextRow DEF RowCanceled, RowLate, RowKept
    <3>3. ~OfThisPeriod(s)
      BY <2>0, <2>1, <3>2 DEF OfThisPeriod, Holds
    <3>4. CASE KeptPayment(i)
      BY <2>0, <2>1, <3>2, <3>3, <3>4 DEF KeptPayment, StepSound
    <3>5. CASE NewPayment(i)
      BY <3>5, OnceTypes DEF NewPayment
    <3> QED BY <1>0, <3>4, <3>5 DEF KnownPayments
  <2>2. ASSUME scans'[s].pc \in {"poll", "flip"} PROVE scans'[s].anchor \in DOMAIN invoices'
    BY <1>0, <1>2, <2>0, <2>2 DEF MovesOn, Holds, StepSound
  <2>3. ASSUME scans'[s].pc = "reconcile" PROVE scans'[s].attempts > 0
    BY <1>2, <2>0, <2>3 DEF MovesOn, Holds, StepSound
  <2>4. Fresh(scans[s].anchor) => Fresh(scans[s].anchor)'
    <3>1. PICK k : k = scans[s].anchor
      OBVIOUS
    <3>2. Fresh(k) => Fresh(k)'
      BY <1>0, StaysFresh
    <3>3. Fresh(k)' => Fresh(scans[s].anchor)'
      BY <2>0, <3>1 DEF Fresh, Live, Holds
    <3> QED BY <3>1, <3>2, <3>3
  <2>5. ASSUME scans'[s].pc = "charge" PROVE Fresh(scans[s].anchor)
    BY <1>2, <2>0, <2>5 DEF MovesOn, StepSound, Fresh
  <2>6. ASSUME scans'[s].pc = "lookup", scans'[s].attempts = 0
        PROVE  scans'[s].anchor \in DOMAIN invoices' \/ Fresh(scans[s].anchor)
    BY <1>0, <1>2, <2>0, <2>6 DEF MovesOn, Holds, StepSound
  <2> QED BY <2>1, <2>2, <2>3, <2>4, <2>5, <2>6, <1>0 DEF StepSound
<1>3. scans'[s] # Idle
  BY DEF Running, Idle
<1> QED BY <1>0, <1>1, <1>2, <1>3, NextScan

\* The steps that complete a scan.
LEMMA NextScanned ==
    ASSUME [Next]_vars, scanned', ~scanned
    PROVE  \E s \in Scans :
              \/ CancelAtPeriodEnd(s)
              \/ scans[s].pc \in {"poll", "flip", "reconcile"}
              \/ RecordPendingCharge(s)
              \/ HandleSuccess(s)
              \/ HandleFailure(s)
<1>1. PICK s \in Scans : ScanStep(s)
  BY DEF Next, vars, Crash, StrayLands, PaymentResolves, WebhookPaid, WebhookFailed,
     Cancel, RefundInvoice, Tick
<1> QED BY <1>1 DEF ScanStep, ReadSubscription, LookUpInvoice, PollAnswers, LookupFails,
     FlipFailed, Reconcile, ChargeAnswers, ChargeTimesOut

\* A scan that completes and leaves the row unrecorded is of an earlier period,
\* and overlaps the scan that opened this one.
LEMMA CompletedIsRecent ==
    ASSUME OnceInv, Timely, [Next]_vars, RowKept, Unrecorded, Unrecorded',
           scanned', ~scanned, NEW i \in DOMAIN payments, payments[i].key = Anchor(sub)
    PROVE  clock <= payments[i].at
<1>1. PICK s \in Scans :
          \/ CancelAtPeriodEnd(s)
          \/ scans[s].pc \in {"poll", "flip", "reconcile"}
          \/ RecordPendingCharge(s)
          \/ HandleSuccess(s)
          \/ HandleFailure(s)
  BY NextScanned
<1>2. ~CancelAtPeriodEnd(s)
  <2>1. ASSUME CancelAtPeriodEnd(s) PROVE sub'.status = "canceled"
    <3>1. scans[s].pc = "stop" /\ sub.status \in Entitled
      BY <2>1 DEF CancelAtPeriodEnd, Unrecorded
    <3>2. sub.cancelAtPeriodEnd
      BY <3>1 DEF OnceInv, StopSound, Entitled
    <3> QED BY <2>1, <3>1, <3>2, OnceTypes DEF CancelAtPeriodEnd, SubType
  <2> QED BY <2>1 DEF Unrecorded, Entitled
<1>3. Running(s) /\ StepSound(s)
  BY <1>1, <1>2 DEF RecordPendingCharge, HandleSuccess, HandleFailure, Running, OnceInv
<1>4. CASE ~OfThisPeriod(s)
  <2>1. Anchor(sub) = sub.periodEnd
    BY <1>3, <1>4, ScanBoundary DEF Unrecorded
  <2> QED BY <1>3, <1>4, <2>1, OnceTypes DEF StepSound
<1>5. CASE OfThisPeriod(s)
  <2>1. scans[s].attempts = 0 /\ scans[s].anchor = Anchor(sub)
    BY <1>3, <1>5, ScanBoundary DEF Unrecorded
  <2>2. scans[s].pc \notin {"poll", "flip", "reconcile"}
    BY <1>3, <2>1 DEF StepSound, Unrecorded
  <2>3. Anchor(sub)' = Anchor(sub)
    BY DEF RowKept, Anchor
  <2>4. ~RecordPendingCharge(s)
    <3>1. RecordPendingCharge(s) => scans[s].anchor \in DOMAIN invoices'
      BY DEF RecordPendingCharge, WithInvoice, HasInvoice
    <3> QED BY <2>1, <2>3, <3>1 DEF Unrecorded
  <2>5. ~HandleSuccess(s)
    <3>1. ASSUME HandleSuccess(s) PROVE scans[s].anchor \in DOMAIN invoices'
      BY <3>1 DEF HandleSuccess, WithInvoice, WinsSettle, HasInvoice
    <3> QED BY <2>1, <2>3, <3>1 DEF Unrecorded
  <2>6. ~HandleFailure(s)
    <3>1. ASSUME HandleFailure(s) PROVE sub' = OnRung(1)
      BY <2>1, <3>1, OnceTypes DEF HandleFailure, RungTaken, Unrecorded
    <3>2. OnRung(1).attempts = 1
      BY OnceTypes DEF OnRung, SubType
    <3> QED BY <3>1, <3>2 DEF Unrecorded
  <2> QED BY <1>1, <1>2, <2>2, <2>4, <2>5, <2>6
<1> QED BY <1>4, <1>5

LEMMA RecentStep ==
    ASSUME OnceInv, Timely, [Next]_vars, clock' = clock PROVE UnrecordedIsRecent'
<1>0. TypeOK /\ KnownPayments /\ DOMAIN invoices \subseteq DOMAIN invoices'
  BY NextPayments, NextInvoices DEF OnceInv, LadderInv
<1> SUFFICES ASSUME Unrecorded'
             PROVE  /\ \A req \in strays' : req.key = Anchor(sub)' => Anchor(sub)' <= clock
                    /\ \A i \in DOMAIN payments' :
                          payments'[i].key = Anchor(sub)' =>
                              /\ Anchor(sub)' <= clock
                              /\ clock <= payments'[i].at + (IF scanned' THEN 0 ELSE 1)
  BY DEF UnrecordedIsRecent
<1>1. ASSUME NEW s \in Scans, RowAdvanced(s)
      PROVE  /\ \A req \in strays' : req.key # Anchor(sub)'
             /\ \A i \in DOMAIN payments' : payments'[i].key # Anchor(sub)'
  <2>1. /\ Anchor(sub)' > sub.periodEnd /\ Anchor(sub)' \in Nat
        /\ payments' = payments /\ strays' = strays
    BY <1>1, AdvanceOpens
  <2> QED BY <2>1, OnceTypes DEF OnceInv, KeysReached
<1>2. ~RowCanceled /\ ~RowLate
  BY OnceTypes DEF RowCanceled, RowLate, Unrecorded, Entitled
<1>3. CASE RowKept
  <2>1. Anchor(sub)' = Anchor(sub) /\ Unrecorded
    BY <1>0, <1>3 DEF RowKept, Anchor, Unrecorded
  <2>2. ASSUME NEW req \in strays', req.key = Anchor(sub) PROVE Anchor(sub) <= clock
    BY <1>0, <2>1, <2>2, NextStrays, RequestsReached DEF Requesting
  <2>3. ASSUME NEW i \in DOMAIN payments', payments'[i].key = Anchor(sub), KeptPayment(i)
        PROVE  /\ Anchor(sub) <= clock
               /\ clock <= payments'[i].at + (IF scanned' THEN 0 ELSE 1)
    <3>1. /\ i \in DOMAIN payments /\ payments[i].key = Anchor(sub)
          /\ payments'[i].at = payments[i].at
      BY <2>3 DEF KeptPayment
    <3>2. /\ Anchor(sub) <= clock
          /\ clock <= payments[i].at + (IF scanned THEN 0 ELSE 1)
      BY <2>1, <3>1 DEF OnceInv, UnrecordedIsRecent
    <3>3. scanned' /\ ~scanned => clock <= payments[i].at
      BY <1>3, <2>1, <3>1, CompletedIsRecent
    <3> QED BY <3>1, <3>2, <3>3, OnceTypes
  <2>4. ASSUME NEW i \in DOMAIN payments', payments'[i].key = Anchor(sub), NewPayment(i)
        PROVE  /\ Anchor(sub) <= clock
               /\ clock <= payments'[i].at + (IF scanned' THEN 0 ELSE 1)
    BY <2>1, <2>4, RequestsReached, OnceTypes DEF NewPayment
  <2> QED BY <1>0, <2>1, <2>2, <2>3, <2>4 DEF KnownPayments
<1> QED BY <1>0, <1>1, <1>2, <1>3, NextRow

\* A tick finds no scan at work, and a due row was scanned in the one before.
LEMMA TickKeeps ==
    ASSUME OnceInv, Timely, Tick PROVE OnceInv'
<1>0. /\ clock' = clock + 1 /\ scanned' = FALSE
      /\ UNCHANGED <<sub, invoices, payments, strays, scans>>
      /\ strays = {} /\ \A s \in Scans : scans[s].pc = "idle"
  BY DEF Tick, AllIdle
<1>1. LadderInv' /\ KeysReached' /\ LiveOnce'
  <2>1. LadderInv'
    BY LadderStep DEF OnceInv, Next
  <2> QED BY <1>0, <2>1 DEF OnceInv, KeysReached, LiveOnce
<1>2. UnrecordedIsRecent'
  <2>0. Anchor(sub)' = Anchor(sub)
    BY <1>0 DEF Anchor
  <2>1. ASSUME Unrecorded, NEW i \in DOMAIN payments, payments[i].key = Anchor(sub)
        PROVE  Anchor(sub) <= clock + 1 /\ clock + 1 <= payments[i].at + 1
    <3>1. /\ Anchor(sub) <= clock
          /\ clock <= payments[i].at + (IF scanned THEN 0 ELSE 1)
      BY <2>1 DEF OnceInv, UnrecordedIsRecent
    <3>2. IsDue(sub)
      <4>1. RowSound
        BY DEF OnceInv, LadderInv
      <4>2. sub.periodEnd # 0
        BY <4>1, OnceTypes DEF RowSound
      <4> QED BY <2>1, <3>1, <4>1, <4>2, OnceTypes
              DEF Unrecorded, Entitled, RowSound, IsDue, DueAt, Anchor
    <3>3. scanned
      BY <3>2 DEF Tick, Timely
    <3> QED BY <2>1, <3>1, <3>3, OnceTypes
  <2> QED BY <1>0, <2>0, <2>1 DEF UnrecordedIsRecent, Unrecorded
<1>3. ASSUME NEW s \in Scans PROVE StopSound(s)' /\ ~Running(s)'
  BY <1>0 DEF StopSound, Running
<1> QED BY <1>0, <1>1, <1>2, <1>3 DEF OnceInv

LEMMA OnceStep == ASSUME OnceInv, Timely, [Next]_vars PROVE OnceInv'
<1>1. CASE Tick
  BY <1>1, TickKeeps
<1>2. CASE clock' = clock
  <2>0. LadderInv' /\ TypeOK
    BY LadderStep DEF OnceInv, LadderInv
  <2>1. KeysReached' /\ UnrecordedIsRecent' /\ LiveOnce'
    BY <1>2, <2>0, KeysReachedStep, RecentStep, LiveOnceStep, NextPayments
  <2>2. \A s \in Scans : StopSound(s)' /\ (Running(s)' => StepSound(s)')
    BY <1>2, StopSoundStep, StepSoundStep
  <2>3. ASSUME NEW req \in strays' PROVE Fresh(req.key)'
    <3>1. PICK k : k = req.key
      OBVIOUS
    <3>2. Fresh(k)
      BY <2>0, <3>1, NextStrays, RequestsReached DEF Requesting
    <3>3. Fresh(k)'
      BY <1>2, <2>0, <3>2, StaysFresh, NextPayments
    <3> QED BY <3>1, <3>3 DEF Fresh, Live
  <2>4. (\A req \in strays : Fresh(req.key))'
    BY <2>3
  <2> QED BY <2>0, <2>1, <2>2, <2>4 DEF OnceInv
<1> QED BY <1>1, <1>2, NextClock

\* The per-period key never buys a period twice (renewal.service.ts): of any
\* payments the provider holds under one key at most one is ever captured, with any
\* number of overlapping scans, crashes, timeouts and late requests.  The
\* hypothesis is the scheduler's timing: an hourly scan against a 24-hour key store.
THEOREM PeriodsAreChargedOnce == Timely => (Spec => []ChargedOncePerKey)
<1> SUFFICES ASSUME Timely PROVE Spec => []ChargedOncePerKey
  OBVIOUS
<1>1. Init => OnceInv
  <2> SUFFICES ASSUME Init PROVE OnceInv
    OBVIOUS
  <2>1. LadderInv
    BY LadderInit, TypeInit DEF LadderInv
  <2>2. payments = <<>> /\ strays = {} /\ \A s \in Scans : scans[s].pc = "idle"
    BY DEF Init, Idle
  <2> QED BY <2>1, <2>2
          DEF OnceInv, KeysReached, UnrecordedIsRecent, LiveOnce, StopSound, Running
<1>2. OnceInv /\ [Next]_vars => OnceInv'
  BY OnceStep
<1>3. OnceInv => ChargedOncePerKey
  BY DEF OnceInv, LiveOnce, ChargedOncePerKey
<1> QED BY <1>1, <1>2, <1>3, PTL DEF Spec
============================================================================
