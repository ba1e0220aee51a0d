----------------------------- MODULE PlanChange -----------------------------
(***************************************************************************)
(* Plan changes of one self-managed subscription (changePlan in            *)
(* services/billing-user.service.ts): read the row, claim the change by a  *)
(* compare-and-swap on the version, charge the new plan's remainder,       *)
(* refund the old plan's through a reservation (module Refund), then in    *)
(* one transaction record both legs and switch the plan if the row still   *)
(* is the claimed one.  Changes overlap each other, operators' refunds,    *)
(* cancels, the renewal scheduler's writes and the confirming webhooks.    *)
(***************************************************************************)
EXTENDS Refund

CONSTANTS
    Quotes,     \* what either leg of a change may be quoted at (0: no such leg)
    MaxWrites   \* bound: writes of other actors to the row or to its invoices

ASSUME PlanChangeAssumption ==
    /\ Quotes \subseteq Nat
    /\ MaxWrites \in Nat

VARIABLES
    sub,       \* the subscription row
    changes,   \* what each change holds
    charges,   \* the provider's payments for change charges
    claimant,  \* the change whose claim is the latest (a history variable)
    writes     \* writes of other actors so far

vars == <<refundVars, sub, changes, charges, claimant, writes>>

Changeable == {"trialing", "active"}

SubType == [plan: Plans, status: {"trialing", "active", "past_due", "canceled"},
            cancelAtPeriodEnd: BOOLEAN, version: Nat, period: Nat]

\* Which step comes next; then switched, or refused.
ChangePcs == {"idle", "claim", "charge", "refund", "call", "commit", "switched", "refused"}

ChangeType == [pc: ChangePcs, to: Plans \cup {""}, version: Nat, period: Nat,
               trial: BOOLEAN, charge: Nat, state: {"none", "captured", "pending"}]

ChargeType == [key: KeyType, minor: Nat, state: {"pending", "captured", "canceled"}]

IdleChange == [pc |-> "idle", to |-> "", version |-> 0, period |-> 0, trial |-> FALSE,
               charge |-> 0, state |-> "none"]

NoClaimant == "none"

Init ==
    /\ RefundInit
    /\ \E plan \in Plans, status \in Changeable :
          sub = [plan |-> plan, status |-> status, cancelAtPeriodEnd |-> FALSE,
                 version |-> 1, period |-> 0]
    /\ changes = [c \in Changes |-> IdleChange]
    /\ charges = <<>>
    /\ claimant = NoClaimant
    /\ writes = 0

----------------------------------------------------------------------------
(* A change. *)

Move(c, pc) == changes' = [changes EXCEPT ![c].pc = pc]

IsChangeable(row) == row.status \in Changeable /\ ~row.cancelAtPeriodEnd

\* resolveChangeContext: every guard passes on the row as read.
ReadContext(c) ==
    /\ changes[c].pc = "idle"
    /\ IsChangeable(sub)
    /\ \E to \in Plans \ {sub.plan} :
          changes' = [changes EXCEPT ![c] =
             [IdleChange EXCEPT !.pc = "claim", !.to = to, !.version = sub.version,
                                !.period = sub.period,
                                !.trial = sub.status = "trialing"]]
    /\ UNCHANGED <<refundVars, sub, charges, claimant, writes>>

\* What claimChange and commitPlanChange compare.
Unmoved(c) == sub.version = changes[c].version /\ IsChangeable(sub)

\* claimChange; a change of a trial moves no money.
Claim(c) ==
    /\ changes[c].pc = "claim"
    /\ IF Unmoved(c)
       THEN /\ sub' = [sub EXCEPT !.version = changes[c].version + 1]
            /\ changes' = [changes EXCEPT ![c].version = @ + 1,
                 ![c].pc = IF changes[c].trial THEN "commit" ELSE "charge"]
            /\ claimant' = c
       ELSE Move(c, "refused") /\ UNCHANGED <<sub, claimant>>
    /\ UNCHANGED <<refundVars, charges, writes>>

OwnCharge(c) == ChargeKey(changes[c].to, changes[c].period)
OwnRefund(c) == ChangeKey(changes[c].to, changes[c].period)

\* Payments under a key.  The changes of a behaviour fall within the day the key
\* store remembers: the provider repeats its answer.
Known(key) == {p \in DOMAIN charges : charges[p].key = key}

\* chargeOffSession: skipped when nothing is quoted; a decline throws.
Charge(c) ==
    LET key == OwnCharge(c) IN
    /\ changes[c].pc = "charge"
    /\ \E minor \in Quotes :
          IF minor = 0
          THEN Move(c, "refund") /\ UNCHANGED charges
          ELSE \E state \in {"captured", "pending", "canceled"} :
             /\ IF Known(key) # {}
                THEN UNCHANGED charges /\ \E p \in Known(key) : state = charges[p].state
                ELSE charges' = Append(charges, [key |-> key, minor |-> minor, state |-> state])
             /\ IF state = "canceled"
                THEN Move(c, "refused")
                ELSE changes' = [changes EXCEPT ![c].pc = "refund", ![c].charge = minor,
                                                ![c].state = state]
    /\ UNCHANGED <<refundVars, sub, claimant, writes>>

\* The call times out: the change is refused, the charge may have landed.
ChargeTimesOut(c) ==
    LET key == OwnCharge(c) IN
    /\ changes[c].pc = "charge"
    /\ \/ UNCHANGED charges
       \/ /\ Known(key) = {}
          /\ \E minor \in Quotes \ {0}, state \in {"captured", "pending"} :
                charges' = Append(charges, [key |-> key, minor |-> minor, state |-> state])
    /\ Move(c, "refused")
    /\ UNCHANGED <<refundVars, sub, claimant, writes>>

\* The reservation is taken only after the charge; no refund leg when nothing is
\* quoted or left.
StartRefund(c) ==
    /\ changes[c].pc = "refund"
    /\ \E quote \in Quotes : ReserveProration(c, quote, OwnRefund(c))
    /\ Move(c, IF legs'[c].pc = "idle" THEN "commit" ELSE "call")
    /\ UNCHANGED <<sub, charges, claimant, writes>>

\* The call and, if it fails, the release (module Refund has its steps): issued, or
\* given back, or the release failed too; a call that fails may have moved money.
\* A refund that failed never reverts the switch.
RefundCall(c) ==
    LET i == legs[c].inv IN
    /\ changes[c].pc = "call"
    /\ \E pc \in {"issued", "returned", "stranded"} :
          /\ \/ Found(legs[c].key) /\ UNCHANGED refunds
             \/ ~Found(legs[c].key) /\ Accept(Request(c))
             \/ pc # "issued" /\ UNCHANGED refunds
          /\ Goto(c, pc)
          /\ invoices' = IF pc = "returned"
                THEN [invoices EXCEPT ![i].refunded = Released(invoices[i], legs[c])]
                ELSE invoices
    /\ Move(c, "commit")
    /\ UNCHANGED <<landing, revoked, crashes, sub, charges, claimant, writes>>

Recorded(key) == \E i \in DOMAIN invoices : invoices[i].event = key

\* insertChangeInvoice: or-ignore on the unique event key.
Inserted(rows, row) ==
    IF \E i \in DOMAIN rows : rows[i].event = row.event THEN rows ELSE Append(rows, row)

\* Mutant: a switch that loses the swap rolls its legs back.
OnlyIfApplied(c, rows) == IF Unmoved(c) THEN rows ELSE invoices

\* Both legs are recorded, whether or not the plan is switched.
LegsRecorded(c, rows) == rows

\* The rows with the legs of change c on them.
WithLegs(c) ==
    LET charged == IF changes[c].state = "none" THEN invoices
                   ELSE Inserted(invoices, NewInvoice(OwnCharge(c), changes[c].charge,
                            IF changes[c].state = "captured" THEN "paid" ELSE "pending"))
    IN  IF legs[c].pc = "issued"
        THEN Inserted(charged, NewInvoice(OwnRefund(c), legs[c].minor, "refunded"))
        ELSE charged

StateOnly(c) == IsChangeable(sub)

\* The switch applies to the claimed row only.
Applies(c) == Unmoved(c)

\* The last transaction.
Commit(c) ==
    /\ changes[c].pc = "commit"
    /\ invoices' = LegsRecorded(c, WithLegs(c))
    /\ IF Applies(c)
       THEN sub' = [sub EXCEPT !.plan = changes[c].to] /\ Move(c, "switched")
       ELSE Move(c, "refused") /\ UNCHANGED sub
    /\ legs' = [legs EXCEPT ![c].pc = IF @ = "issued" THEN "done" ELSE @]
    /\ UNCHANGED <<refunds, landing, revoked, crashes, charges, claimant, writes>>

\* The process dies in the middle of a change.
CrashChange(c) ==
    /\ changes[c].pc \in {"claim", "charge", "refund", "call", "commit"}
    /\ crashes < MaxCrashes
    /\ crashes' = crashes + 1
    /\ Move(c, "refused")
    /\ legs' = [legs EXCEPT ![c].pc =
                   IF @ \in {"idle", "returned"} THEN @ ELSE "stranded"]
    /\ UNCHANGED <<invoices, refunds, landing, revoked, sub, charges, claimant, writes>>

----------------------------------------------------------------------------
(* The other writers of the row. *)

AnotherWrite == writes < MaxWrites /\ writes' = writes + 1

\* The renewal scheduler advances the period (RenewalService.handleSuccess): the
\* version stays, a paid invoice is added.
Renew ==
    /\ AnotherWrite
    /\ sub.status \in {"trialing", "active", "past_due"}
    /\ ~sub.cancelAtPeriodEnd
    /\ sub' = [sub EXCEPT !.status = "active", !.period = @ + 1]
    /\ invoices' = Append(invoices, NewInvoice(RenewalKey(sub.period + 1), Price, "paid"))
    /\ UNCHANGED <<legs, refunds, landing, revoked, crashes, changes, charges, claimant>>

\* It puts the row on the dunning ladder, or cancels at the last rung.
Dun ==
    /\ AnotherWrite
    /\ sub.status \in {"trialing", "active", "past_due"}
    /\ \E status \in {"past_due", "canceled"} :
          sub' = [sub EXCEPT !.status = status]
    /\ UNCHANGED <<refundVars, changes, charges, claimant>>

\* cancelOpenSubscription: now, or at the period end.
Cancel ==
    /\ AnotherWrite
    /\ sub.status # "canceled"
    /\ \/ sub' = [sub EXCEPT !.status = "canceled", !.cancelAtPeriodEnd = FALSE]
       \/ sub' = [sub EXCEPT !.cancelAtPeriodEnd = TRUE]
    /\ UNCHANGED <<refundVars, changes, charges, claimant>>

\* The confirming webhook settles or fails a recorded pending charge, and never
\* inserts one.
SettlePending(state, status) ==
    /\ \E p \in DOMAIN charges, i \in DOMAIN invoices :
          /\ charges[p].state = state
          /\ invoices[i].event = charges[p].key
          /\ invoices[i].status = "pending"
          /\ invoices' = [invoices EXCEPT ![i].status = status]
    /\ UNCHANGED <<legs, refunds, landing, revoked, crashes, sub, changes, charges, claimant, writes>>

WebhookPaid   == SettlePending("captured", "paid")
WebhookFailed == SettlePending("canceled", "failed")

\* A pending charge is captured or canceled.
ChargeResolves ==
    /\ \E p \in DOMAIN charges, state \in {"captured", "canceled"} :
          /\ charges[p].state = "pending"
          /\ charges' = [charges EXCEPT ![p].state = state]
    /\ UNCHANGED <<refundVars, sub, changes, claimant, writes>>

\* An operator refunds an invoice meanwhile (refundInvoice, taken as one step).
OperatorRefunds ==
    /\ AnotherWrite
    /\ \E i \in DOMAIN invoices :
          /\ invoices[i].status = "paid"
          /\ \E minor \in 1 .. Remaining(invoices[i]) :
                LET total == invoices[i].refunded + minor
                    whole == total = invoices[i].amount
                IN  /\ invoices' = [invoices EXCEPT ![i].refunded = total,
                          ![i].status = IF whole THEN "refunded" ELSE @]
                    /\ revoked' = IF whole THEN Append(revoked, i) ELSE revoked
                    /\ IF Found(AdminKey(i, total)) THEN UNCHANGED refunds
                       ELSE Accept([inv |-> i, key |-> AdminKey(i, total), minor |-> minor])
    /\ UNCHANGED <<legs, landing, crashes, sub, changes, charges, claimant>>

ChangeStep(c) ==
    \/ ReadContext(c) \/ Claim(c)      \/ Charge(c) \/ ChargeTimesOut(c)
    \/ StartRefund(c) \/ RefundCall(c) \/ Commit(c)

Next ==
    \/ \E c \in Changes : ChangeStep(c) \/ CrashChange(c)
    \/ OperatorRefunds
    \/ Renew \/ Dun \/ Cancel
    \/ WebhookPaid \/ WebhookFailed
    \/ ChargeResolves

Spec == Init /\ [][Next]_vars

----------------------------------------------------------------------------
(* Properties. *)

TypeOK ==
    /\ RefundTypeOK
    /\ sub \in SubType
    /\ changes \in [Changes -> ChangeType]
    /\ charges \in Seq(ChargeType)
    /\ claimant \in Changes \cup {NoClaimant}
    /\ writes \in Nat

\* "A guarded apply that loses to a concurrent writer still commits the legs: the
\* money already left": once a change has come to its end without a crash, a charge
\* that was accepted and a refund that was issued are on the invoices.
MoneyIsRecorded ==
    \A c \in Changes :
        changes[c].pc \in {"switched", "refused"} =>
            /\ changes[c].state # "none" =>
                  Recorded(OwnCharge(c)) \/ crashes > 0
            /\ legs[c].pc = "done" => Recorded(OwnRefund(c))

\* Of overlapping changes, the one whose claim is the latest may switch the plan:
\* an earlier one never overwrites it.
LatestClaimSwitches ==
    [][\A c \in Changes :
          changes[c].pc # "switched" /\ changes'[c].pc = "switched" => claimant = c]_vars

\* "So two concurrent changes can't both charge", "the provider is never asked for a
\* second, conflicting charge": no two changes to different plans are past their
\* claim at once.
OneChangeCharges ==
    \A c, d \in Changes :
        /\ changes[c].pc \in {"refund", "call", "commit"} /\ changes[c].state # "none"
        /\ changes[d].pc \in {"refund", "call", "commit"} /\ changes[d].state # "none"
        => changes[c].to = changes[d].to
=============================================================================
