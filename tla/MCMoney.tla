------------------------------ MODULE MCMoney ------------------------------
(***************************************************************************)
(* Three ways money moves outside a renewal: refunds in full detail (two   *)
(* operators and a plan change on one invoice), plan changes (two at once, *)
(* with the other writers of the row) and the usage of closed periods.  A  *)
(* behaviour runs one of them.                                             *)
(***************************************************************************)
EXTENDS PlanChange, UsageBilling, TLC

VARIABLE part

ASSUME UsageAssumption

changeVars == <<sub, changes, charges, claimant, writes>>

MoneyInit ==
    /\ Init /\ UsageInit
    /\ part \in {"refund", "change", "usage"}
    /\ sub.plan = "basic"
    /\ part # "change" => sub.status = "active"

\* One plan change's leg, to one plan, among the operators' legs.
OneChange ==
    \A c, d \in Changes : legs[c].pc # "idle" /\ legs[d].pc # "idle" =>
        c = d /\ legs[c].key.to = "pro"

RefundPart == RefundNext /\ OneChange' /\ UNCHANGED <<part, changeVars, usageVars>>
ChangePart == Next /\ UNCHANGED <<part, usageVars>>
UsagePart  == UsageNext /\ UNCHANGED <<part, vars>>

MoneyNext ==
    \/ part = "refund" /\ RefundPart
    \/ part = "change" /\ ChangePart
    \/ part = "usage" /\ UsagePart

MoneySpec == MoneyInit /\ [][MoneyNext]_<<part, vars, usageVars>>

\* The usage reports and the closers of periods are named by the same model values
\* as the operators and the changes, to keep the symmetry group small.
Alike == Permutations(AdminLegs) \cup Permutations(Changes)

=============================================================================
