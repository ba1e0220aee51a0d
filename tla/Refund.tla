------------------------------- MODULE Refund -------------------------------
(***************************************************************************)
(* Refunds of invoices (utils/refund-reservation.util.ts and its two       *)
(* callers).  A leg reserves its amount on the locked invoice, calls the   *)
(* provider outside the lock, and settles or gives the reservation back:   *)
(* the operator's refund (services/billing-admin.service.ts) and the       *)
(* proration leg of a plan change (services/billing-user.service.ts).      *)
(* Legs overlap freely; a call can time out and still land; a leg can      *)
(* crash between any two of its steps; the release itself can fail.        *)
(*                                                                         *)
(* The provider is YooKassa: a refund is looked for by the key in its      *)
(* description before it is created, and the key store behind the          *)
(* Idempotence-Key header remembers a day.                                 *)
(***************************************************************************)
EXTENDS Integers, Sequences, FiniteSetsExt

CONSTANTS
    AdminLegs,        \* refund requests of operators
    Changes,          \* plan changes, each with a proration leg
    Plans,            \* plan keys, strings
    Price,            \* what the first invoice was paid with, in minor units
    ProviderCancels,  \* may the provider cancel a refund it accepted?
    MaxCrashes        \* bound: crashes of a leg in a behaviour

ASSUME RefundAssumption ==
    /\ AdminLegs \cap Changes = {}
    /\ Plans \subseteq STRING
    /\ Price \in Nat \ {0}
    /\ ProviderCancels \in BOOLEAN
    /\ MaxCrashes \in Nat

Legs == AdminLegs \cup Changes

VARIABLES
    invoices,   \* the invoice rows, in the order they were created
    legs,       \* what each leg holds
    refunds,    \* the refunds the provider accepted
    landing,    \* refund requests their leg gave up on, still under way
    revoked,    \* the invoices whose full refund took back the grants, in order
    crashes     \* legs lost so far

refundVars == <<invoices, legs, refunds, landing, revoked, crashes>>

\* A row's unique provider_event_id, and a refund's idempotency key.
KeyType == [what: {"renewal", "refund", "change-charge", "change-refund"},
            to: Plans \cup {""}, inv: Nat, n: Nat]

RenewalKey(n)         == [what |-> "renewal", to |-> "", inv |-> 0, n |-> n]
AdminKey(i, total)    == [what |-> "refund", to |-> "", inv |-> i, n |-> total]
ChargeKey(plan, end)  == [what |-> "change-charge", to |-> plan, inv |-> 0, n |-> end]
ChangeKey(plan, end)  == [what |-> "change-refund", to |-> plan, inv |-> 0, n |-> end]

InvoiceType == [event: KeyType, amount: Nat, refunded: Nat,
                status: {"pending", "paid", "failed", "refunded"}]

\* idle, reserved and looking for the refund, creating it, giving back, accepted by
\* the provider, settled, given back, or never given back.
LegPcs == {"idle", "scan", "create", "release", "issued", "done", "returned", "stranded"}

LegType == [pc: LegPcs, inv: Nat, minor: Nat, total: Nat, key: KeyType]

RefundType == [inv: Nat, key: KeyType, minor: Nat, state: {"moved", "canceled"},
               fresh: BOOLEAN]

LandingType == [inv: Nat, key: KeyType, minor: Nat]

IdleLeg == [pc |-> "idle", inv |-> 0, minor |-> 0, total |-> 0, key |-> RenewalKey(0)]

NewInvoice(event, amount, status) ==
    [event |-> event, amount |-> amount, refunded |-> 0, status |-> status]

RefundInit ==
    /\ invoices = <<NewInvoice(RenewalKey(0), Price, "paid")>>
    /\ legs = [l \in Legs |-> IdleLeg]
    /\ refunds = <<>>
    /\ landing = {}
    /\ revoked = <<>>
    /\ crashes = 0

----------------------------------------------------------------------------
(* The reservation. *)

\* Mutants: a concurrent leg's reservation is not subtracted; the operands swapped.
WholeAmount(inv) == inv.amount

\* remainingRefundable.
Remaining(inv) == inv.amount - inv.refunded

\* reserveRefund: never more than what remains.
Capped(inv, requested) == IF requested > Remaining(inv) THEN Remaining(inv) ELSE requested

\* The reservation of minor on invoice i, with the key the provider call will use.
Reserve(l, i, minor, key) ==
    /\ invoices' = [invoices EXCEPT ![i].refunded = @ + minor]
    /\ legs' = [legs EXCEPT ![l] =
          [pc |-> "scan", inv |-> i, minor |-> minor,
           total |-> invoices[i].refunded + minor, key |-> key]]
    /\ UNCHANGED <<refunds, landing, revoked, crashes>>

\* refundInvoice, first transaction: a paid invoice, at least one and at most the
\* remainder; the key is the cumulative total after it.
ReserveAdmin(l) ==
    /\ legs[l].pc = "idle"
    /\ \E i \in DOMAIN invoices :
          /\ invoices[i].status = "paid"
          /\ \E minor \in 1 .. Remaining(invoices[i]) :
                Reserve(l, i, minor, AdminKey(i, invoices[i].refunded + minor))

\* Paid invoices the proration leg may take from; the latest is the source.
Sources == {i \in DOMAIN invoices : invoices[i].status = "paid"}

\* reserveProrationRefund: caps silently, and skips the leg when nothing is left.
ReserveProration(c, quote, key) ==
    IF Sources = {} \/ Capped(invoices[Max(Sources)], quote) = 0
    THEN UNCHANGED refundVars
    ELSE Reserve(c, Max(Sources), Capped(invoices[Max(Sources)], quote), key)

----------------------------------------------------------------------------
(* The provider call. *)

Goto(l, pc) == legs' = [legs EXCEPT ![l].pc = pc]

\* Mutants: the descriptions are not searched; any refund of the payment will do.
NeverFound(key) == FALSE

\* hasRefundWithKey: a refund with this key that was not canceled.
Found(key) == \E r \in DOMAIN refunds :
                  refunds[r].key = key /\ refunds[r].state # "canceled"

ScanRefunds(l) ==
    /\ legs[l].pc = "scan"
    /\ \/ Goto(l, IF Found(legs[l].key) THEN "issued" ELSE "create")
       \/ Goto(l, "release")                      \* the lookup throws
    /\ UNCHANGED <<invoices, refunds, landing, revoked, crashes>>

Moved(i) == {r \in DOMAIN refunds : refunds[r].inv = i /\ refunds[r].state = "moved"}
MovedMinor(i) == MapThenSumSet(LAMBDA r : refunds[r].minor, Moved(i))

\* The refunds the key store still remembers under a header.
Remembered(key) == {r \in DOMAIN refunds : refunds[r].key = key /\ refunds[r].fresh}

\* The provider takes a request: it repeats the answer it remembers, or accepts a
\* new refund.  No provider refunds more than was paid.
Accept(req) ==
    IF Remembered(req.key) # {}
    THEN UNCHANGED refunds
    ELSE /\ MovedMinor(req.inv) + req.minor <= invoices[req.inv].amount
         /\ refunds' = Append(refunds, [inv |-> req.inv, key |-> req.key,
               minor |-> req.minor, state |-> "moved", fresh |-> TRUE])

Request(l) == [inv |-> legs[l].inv, key |-> legs[l].key, minor |-> legs[l].minor]

\* createRefund answers: whatever it answers counts as issued.
RefundAccepted(l) ==
    /\ legs[l].pc = "create"
    /\ Accept(Request(l))
    /\ Goto(l, "issued")
    /\ UNCHANGED <<invoices, landing, revoked, crashes>>

\* It throws: refused, or timed out with the request possibly still on its way.
RefundThrows(l) ==
    /\ legs[l].pc = "create"
    /\ landing' \in {landing, landing \cup {Request(l)}}
    /\ Goto(l, "release")
    /\ UNCHANGED <<invoices, refunds, revoked, crashes>>

\* A request nobody waits for any more is accepted or refused.
RequestLands ==
    \E req \in landing :
       /\ landing' = landing \ {req}
       /\ Accept(req) \/ UNCHANGED refunds
       /\ UNCHANGED <<invoices, legs, revoked, crashes>>

\* The provider cancels a refund it had accepted.
RefundCanceled ==
    /\ ProviderCancels
    /\ \E r \in DOMAIN refunds :
          /\ refunds[r].state = "moved"
          /\ refunds' = [refunds EXCEPT ![r].state = "canceled"]
    /\ UNCHANGED <<invoices, legs, landing, revoked, crashes>>

\* A day passes: the key store forgets.  No call and no request takes a day.
DayPasses ==
    /\ landing = {}
    /\ \A l \in Legs : legs[l].pc \notin {"scan", "create"}
    /\ \E r \in DOMAIN refunds : refunds[r].fresh
    /\ refunds' = [r \in DOMAIN refunds |-> [refunds[r] EXCEPT !.fresh = FALSE]]
    /\ UNCHANGED <<invoices, legs, landing, revoked, crashes>>

----------------------------------------------------------------------------
(* The end of a leg. *)

\* releaseRefund: this leg's own amount, never below zero.
Released(inv, leg) == IF leg.minor > inv.refunded THEN 0 ELSE inv.refunded - leg.minor

\* releaseReservation and releaseProrationRefund; a release that fails is only
\* logged and leaves the reservation standing.
Release(l) ==
    LET i == legs[l].inv IN
    /\ legs[l].pc = "release"
    /\ \/ /\ invoices' = [invoices EXCEPT ![i].refunded = Released(invoices[i], legs[l])]
          /\ Goto(l, "returned")
       \/ /\ UNCHANGED invoices
          /\ Goto(l, "stranded")
    /\ UNCHANGED <<refunds, landing, revoked, crashes>>

\* Mutant: the flip does not look at the row.
FlipsByTotal(inv, leg) == leg.total >= inv.amount

\* The one-way flip: this leg's own cumulative total covers the amount, and nobody
\* flipped it before.
Flips(inv, leg) == leg.total >= inv.amount /\ inv.status = "paid"

\* refundInvoice, last transaction: the flip takes the grants and credits back.
Settle(l) ==
    LET i == legs[l].inv IN
    /\ l \in AdminLegs
    /\ legs[l].pc = "issued"
    /\ IF Flips(invoices[i], legs[l])
       THEN /\ invoices' = [invoices EXCEPT ![i].status = "refunded"]
            /\ revoked' = Append(revoked, i)
       ELSE UNCHANGED <<invoices, revoked>>
    /\ Goto(l, "done")
    /\ UNCHANGED <<refunds, landing, crashes>>

\* The process dies with the reservation committed.
Crash(l) ==
    /\ legs[l].pc \in {"scan", "create", "release", "issued"}
    /\ crashes < MaxCrashes
    /\ crashes' = crashes + 1
    /\ Goto(l, "stranded")
    /\ UNCHANGED <<invoices, refunds, landing, revoked>>

ProviderStep == RequestLands \/ RefundCanceled \/ DayPasses

LegStep(l) == \/ ScanRefunds(l) \/ RefundAccepted(l) \/ RefundThrows(l)
              \/ Release(l)     \/ Settle(l)

RefundNext ==
    \/ \E l \in AdminLegs : ReserveAdmin(l)
    \/ \E c \in Changes, quote \in 1 .. Price, plan \in Plans :
          legs[c].pc = "idle" /\ ReserveProration(c, quote, ChangeKey(plan, 0))
    \/ \E l \in Legs : LegStep(l) \/ Crash(l)
    \/ ProviderStep

RefundSpec == RefundInit /\ [][RefundNext]_refundVars

----------------------------------------------------------------------------
(* Properties. *)

RefundTypeOK ==
    /\ invoices \in Seq(InvoiceType)
    /\ legs \in [Legs -> LegType]
    /\ \A l \in Legs : legs[l].pc # "idle" => legs[l].inv \in DOMAIN invoices
    /\ refunds \in Seq(RefundType)
    /\ landing \subseteq LandingType
    /\ revoked \in Seq(Nat)
    /\ crashes \in Nat

\* "0 <= refundedMinor <= amountMinor", however legs overlap and fail: an invoice
\* never shows more refunded than was paid.
WithinPaid ==
    \A i \in DOMAIN invoices : invoices[i].refunded <= invoices[i].amount

\* No money moves twice under one key: an overlapping retry is caught by the key
\* store, one the store has forgotten by the scan of the descriptions.
MovedOncePerKey ==
    \A q, r \in DOMAIN refunds :
        /\ refunds[q].key = refunds[r].key
        /\ refunds[q].state = "moved"
        /\ refunds[r].state = "moved"
        => q = r

\* A refund counts as paid out only when the provider has accepted one under its key.
IssuedIsAccepted ==
    \A l \in Legs : legs[l].pc \in {"issued", "done"} =>
        \E r \in DOMAIN refunds : refunds[r].key = legs[l].key

\* "The one-way paid -> refunded flip keeps grant revoke / credit clawback
\* exactly-once": no invoice has them taken back twice, and a row is refunded
\* exactly when they were.
RevokedOnce ==
    /\ \A j, k \in DOMAIN revoked : revoked[j] = revoked[k] => j = k
    /\ \A i \in DOMAIN invoices :
          invoices[i].event.what # "change-refund" =>
              (invoices[i].status = "refunded" <=> \E j \in DOMAIN revoked : revoked[j] = i)

=============================================================================
