------------------------------- MODULE MCMock -------------------------------
(***************************************************************************)
(* The mock server: its accounts and administration, and its billing.  A   *)
(* behaviour runs one of the two halves; they meet only in the deletion of *)
(* a user, which each half takes its own part of.                          *)
(***************************************************************************)
EXTENDS MockAdmin, MockBilling, TLC

VARIABLE part

\* One user in the YooKassa region, whose checkout opens a row.
MockInit == part \in {"admin", "billing"} /\ AdminInit /\ BillingInit

MockNext ==
    \/ part = "admin" /\ AdminNext /\ UNCHANGED <<part, billingVars>>
    \/ part = "billing" /\ BillingNext /\ UNCHANGED <<part, accountVars, adminVars>>

MockSpec == MockInit /\ [][MockNext]_<<part, accountVars, adminVars, billingVars>>

Symmetric == Permutations(Users) \cup Permutations(Addresses)

\* Accounts: a pending address has one live token and its row agrees with it, an old
\* password opens nothing, sessions stay within the allowance.  Administration: every
\* grant names rows that exist, clients hold the abilities and flags last told.
\* Billing: one open subscription, charging the card the page shows; a full refund
\* takes back what was bought.
MockIsSound ==
    /\ MockAccountsTypeOK
    /\ PendingAgrees
    /\ OldPasswordIsOut
    /\ SessionsWithinAllowance
    /\ GrantsResolve
    /\ AbilitiesAreShown
    /\ VersionTellsContents
    /\ FlagChangesAreTold
    /\ MockBillingTypeOK
    /\ OpenChargesDefault
    /\ RefundTakesBack
=============================================================================
