---------------------------- MODULE MockBilling ----------------------------
(***************************************************************************)
(* The billing half of the mock server the client is tested against: its   *)
(* user routes, its admin routes, and the control routes that stand in for *)
(* the provider (a paid checkout, a paid purchase, a due renewal).         *)
(*                                                                         *)
(* The process is single-threaded and no handler awaits, so a handler is   *)
(* one action.  Rows live in maps keyed by fresh ids; here they are        *)
(* sequences in the order of creation.  Amounts and units are scaled down, *)
(* their order in the seeded catalog is kept.                              *)
(***************************************************************************)
EXTENDS Integers, Sequences, FiniteSets, SequencesExt, FiniteSetsExt

CONSTANTS
    Payers,         \* user ids, one customer each
    Russian,        \* the users whose locale is Russian
    Plans,          \* keys of the seeded plans an instance uses
    Products,       \* keys of its products
    Period,         \* days in a billing period
    MaxTime,        \* bound: days observed
    MaxCalls,       \* bound: requests in all
    MaxSubs,        \* bound: subscription rows
    MaxInvoices,    \* bound: invoice rows
    MaxUsage,       \* bound: usage records
    MaxMethods,     \* bound: saved payment methods
    Nil             \* no row, no override, no meter

PaymentProviders == {"yookassa", "paddle"}
CustomerRow ==
    [provider : PaymentProviders, override : PaymentProviders \cup {Nil}, default : Nat]

ASSUME MockBillingAssumption ==
    /\ Russian \subseteq Payers /\ Nil \notin Payers \cup CustomerRow
    /\ Plans \subseteq {"free", "pro", "business", "usage"}
    /\ Products \subseteq {"pack", "donation", "credits"}
    /\ Period \in Nat \ {0} /\ MaxTime \in Nat /\ MaxCalls \in Nat

VARIABLES
    customer,       \* billingCustomers, by user
    subs,           \* billingSubscriptions
    invoices,       \* billingInvoices
    methods,        \* billingPaymentMethods
    purchased,      \* billingCustomerGrants
    credits,        \* billingCreditBalances (no row reads as 0)
    sessions,       \* billingPurchaseSessions
    usage,          \* billingUsageRecords
    deleted,        \* users that were deleted
    calls,          \* requests that may still arrive
    now,            \* the day
    pushed,         \* users pushed an entitlements_updated by the last step
    rated           \* ghost: how often each usage record entered an invoice

billingVars ==
    <<customer, subs, invoices, methods, purchased, credits, sessions, usage, deleted,
      calls, now, pushed, rated>>

-----------------------------------------------------------------------------
(* The seeded catalog. *)

PlanCatalog ==
    [free     |-> [mode |-> "fixed", price |-> 0, unit |-> 0, meter |-> Nil,
                   capabilities |-> {}],
     pro      |-> [mode |-> "fixed", price |-> 2, unit |-> 0, meter |-> Nil,
                   capabilities |-> {"reports", "data-export"}],
     business |-> [mode |-> "fixed", price |-> 4, unit |-> 0, meter |-> Nil,
                   capabilities |-> {"reports", "data-export",
                                     "priority-support"}],
     usage    |-> [mode |-> "usage", price |-> 0, unit |-> 1,
                   meter |-> "api_calls",
                   capabilities |-> {"reports"}]]

ProductCatalog ==
    [pack     |-> [type |-> "sku", amounts |-> {1}, entitlement |-> "reports",
                   days |-> 1, credits |-> 0],
     donation |-> [type |-> "custom", amounts |-> {1, 2}, entitlement |-> Nil,
                   days |-> 0, credits |-> 0],
     credits  |-> [type |-> "credits", amounts |-> {1}, entitlement |-> Nil,
                   days |-> 0, credits |-> 1]]

Meters == {"api_calls", "other"}

ENTITLED == {"trialing", "active", "past_due"}
OPEN == ENTITLED \cup {"incomplete"}
CHANGEABLE == {"trialing", "active"}
DunningMaxAttempts == 3

-----------------------------------------------------------------------------
(* Lookups. *)

geoDefault(u) == IF u \in Russian THEN "yookassa" ELSE "paddle"
effectiveProvider(c, u) == IF c.override # Nil THEN c.override ELSE geoDefault(u)
managesLifecycle(provider) == provider # "yookassa"

(* getOrCreateCustomer: the customer a handler goes on with. *)
CustomerOf(u) ==
    IF customer[u] # Nil THEN customer[u]
    ELSE [provider |-> geoDefault(u), override |-> Nil, default |-> 0]

(* The newest row of u in one of the statuses, 0 when there is none. *)
Newest(u, statuses) ==
    Max({0} \cup {i \in DOMAIN subs : subs[i].user = u /\ subs[i].status \in statuses})

findCurrentSubscription(u) ==
    IF customer[u] = Nil THEN 0 ELSE Newest(u, OPEN)

LiveGrants(u) ==
    {g \in purchased : invoices[g.invoice].user = u /\ ~g.revoked /\ g.expires > now}

(* Capabilities of the plan in force together with those of live grants.   *)
PlanInForce(u) ==
    LET i == Newest(u, ENTITLED)
    IN  IF customer[u] # Nil /\ i # 0 THEN subs[i].plan ELSE "free"
resolveEntitlements(u) ==
    PlanCatalog[PlanInForce(u)].capabilities
        \cup (IF customer[u] = Nil THEN {}
              ELSE {g.entitlement : g \in LiveGrants(u)})

(* Mutants: nobody is told; a close that forgets where its period began.   *)
TellsNobody(u) == {}
RatedFromAnyTime(i) == {r \in DOMAIN usage : usage[r].sub = i /\ usage[r].at < now}

(* The push of entitlements_updated to the one user concerned. *)
notifyEntitlementsChanged(u) == {u}

(* The records a period close sums.                                        *)
Rated(i) == {r \in DOMAIN usage : /\ usage[r].sub = i
                                  /\ usage[r].at >= subs[i].start
                                  /\ usage[r].at < now}
Units(S) == Cardinality(S)

prorationQuote(i, plan) ==
    LET total == Max({1, subs[i].end - subs[i].start})
        remainder == Min({total, Max({0, subs[i].end - now})})
    IN  [refund |-> (PlanCatalog[subs[i].plan].price * remainder) \div total,
         charge |-> (PlanCatalog[plan].price * remainder) \div total]

Row(u, plan, provider, status) ==
    [user |-> u, plan |-> plan, provider |-> provider,
     mode |-> PlanCatalog[plan].mode, status |-> status,
     start |-> now, end |-> now + Period, cancelAtEnd |-> FALSE,
     attempts |-> 0, method |-> 0]

Invoice(u, i, amount, status, mode, product) ==
    [user |-> u, sub |-> i, amount |-> amount, status |-> status, mode |-> mode,
     product |-> product, refunded |-> 0]

-----------------------------------------------------------------------------
BillingInit ==
    /\ customer = [u \in Payers |-> Nil]
    /\ subs = <<>> /\ invoices = <<>> /\ methods = <<>>
    /\ purchased = {} /\ credits = [u \in Payers |-> 0]
    /\ sessions = <<>> /\ usage = <<>>
    /\ deleted = {} /\ calls = MaxCalls /\ now = 0 /\ pushed = {} /\ rated = <<>>

Present(u) == u \notin deleted
Arrives == calls > 0 /\ calls' = calls - 1

(* POST /billing/checkout: a self-managed plan opens or rewrites the       *)
(* incomplete row, a managed one only releases a stale row.                *)
Checkout(u, plan) ==
    LET c == CustomerOf(u)
        provider == effectiveProvider(c, u)
        pending == {i \in DOMAIN subs : subs[i].user = u
                                         /\ subs[i].status = "incomplete"}
    IN  /\ Arrives
        /\ Present(u)
        /\ customer' = [customer EXCEPT ![u] = c]
        /\ pushed' = {}
        /\ IF Newest(u, ENTITLED) # 0 THEN UNCHANGED subs
           ELSE IF ~managesLifecycle(provider)
           THEN IF pending # {}
                THEN LET i == Min(pending) IN
                     subs' = [subs EXCEPT ![i] =
                                [Row(u, plan, provider, "incomplete")
                                     EXCEPT !.attempts = subs[i].attempts]]
                ELSE /\ Len(subs) < MaxSubs
                     /\ subs' = Append(subs, Row(u, plan, provider, "incomplete"))
           ELSE subs' = [i \in DOMAIN subs |->
                            IF pending # {} /\ i = Min(pending)
                            THEN [subs[i] EXCEPT !.status = "canceled"]
                            ELSE subs[i]]
        /\ UNCHANGED <<invoices, methods, purchased, credits, sessions, usage,
                       deleted, now, rated>>

(* PUT /billing/region: refused while an open row is of another provider.  *)
SetRegion(u, override) ==
    LET c == CustomerOf(u)
        open == Newest(u, OPEN)
        next == IF override # Nil THEN override ELSE geoDefault(u)
        refused == open # 0 /\ subs[open].provider # next
    IN  /\ Arrives
        /\ Present(u)
        /\ customer' = [customer EXCEPT ![u] =
                           IF refused THEN c ELSE [c EXCEPT !.override = override]]
        /\ pushed' = {}
        /\ UNCHANGED <<subs, invoices, methods, purchased, credits, sessions,
                       usage, deleted, now, rated>>

(* POST /billing/payment-method: the replacement becomes the default.      *)
ReplaceMethod(u) ==
    LET i == findCurrentSubscription(u)
        m == Len(methods) + 1
    IN  /\ Arrives
        /\ Present(u) /\ i # 0 /\ m <= MaxMethods
        /\ methods' = Append([k \in DOMAIN methods |->
                                 [methods[k] EXCEPT !.default =
                                     @ /\ methods[k].user # u]],
                             [user |-> u, default |-> TRUE])
        /\ customer' = [customer EXCEPT ![u].default = m]
        /\ subs' = [subs EXCEPT ![i].method = m]
        /\ pushed' = {}
        /\ UNCHANGED <<invoices, purchased, credits, sessions, usage, deleted,
                       now, rated>>

(* guardChange, shared by the change and its preview. *)
Changeable(u, plan) ==
    LET i == findCurrentSubscription(u)
    IN  /\ i # 0
        /\ subs[i].status \in CHANGEABLE
        /\ ~subs[i].cancelAtEnd
        /\ plan # subs[i].plan

(* The latest paid fixed invoice of the row, the source of a refund leg.   *)
RefundSource(i) ==
    Max({0} \cup {k \in DOMAIN invoices : /\ invoices[k].sub = i
                                          /\ invoices[k].status = "paid"
                                          /\ invoices[k].mode = "fixed"
                                          /\ invoices[k].amount > 0})

RefundLeg(source, quoted) ==
    IF source = 0 THEN 0
    ELSE Min({quoted, invoices[source].amount - invoices[source].refunded})

(* POST /billing/subscription/change.  The source is resolved before the   *)
(* new charge is recorded, and the refund is capped by what is left on it. *)
ChangePlan(u, plan) ==
    LET i == findCurrentSubscription(u)
        quote == prorationQuote(i, plan)
        source == RefundSource(i)
        trial == subs[i].status = "trialing"
        refund == RefundLeg(source, quote.refund)
        legs == (IF quote.charge > 0
                 THEN <<Invoice(u, i, quote.charge, "paid",
                                PlanCatalog[plan].mode, Nil)>> ELSE <<>>)
                \o (IF refund > 0
                    THEN <<Invoice(u, i, refund, "refunded", "fixed", Nil)>>
                    ELSE <<>>)
    IN  /\ Arrives
        /\ Present(u) /\ Changeable(u, plan)
        /\ IF trial THEN UNCHANGED invoices
           ELSE /\ Len(invoices \o legs) <= MaxInvoices
                /\ invoices' = [k \in DOMAIN invoices |->
                                   IF k = source /\ refund > 0
                                   THEN [invoices[k] EXCEPT !.refunded = @ + refund]
                                   ELSE invoices[k]] \o legs
        /\ subs' = [subs EXCEPT ![i].plan = plan, ![i].mode = PlanCatalog[plan].mode]
        /\ pushed' = notifyEntitlementsChanged(u)
        /\ UNCHANGED <<customer, methods, purchased, credits, sessions, usage,
                       deleted, now, rated>>

(* POST /billing/subscription/cancel. *)
Cancel(u, mode) ==
    LET i == findCurrentSubscription(u)
    IN  /\ Arrives
        /\ Present(u) /\ i # 0
        /\ subs' = [subs EXCEPT ![i] =
                       IF mode = "immediate"
                       THEN [@ EXCEPT !.status = "canceled", !.cancelAtEnd = FALSE]
                       ELSE [@ EXCEPT !.cancelAtEnd = TRUE]]
        /\ pushed' = IF mode = "immediate" THEN notifyEntitlementsChanged(u) ELSE {}
        /\ UNCHANGED <<customer, invoices, methods, purchased, credits, sessions,
                       usage, deleted, now, rated>>

(* POST /admin/billing/subscriptions/:id/cancel: by id, so a closed row is *)
(* refused here; nobody is told.                                           *)
AdminCancel(i, mode) ==
    /\ Arrives
    /\ subs[i].status \in OPEN
    /\ subs' = [subs EXCEPT ![i] =
                   IF mode = "immediate"
                   THEN [@ EXCEPT !.status = "canceled", !.cancelAtEnd = FALSE]
                   ELSE [@ EXCEPT !.cancelAtEnd = TRUE]]
    /\ pushed' = {}
    /\ UNCHANGED <<customer, invoices, methods, purchased, credits, sessions,
                   usage, deleted, now, rated>>

(* revokeOneTimeEffects: what a full refund takes back. *)
GrantsAfterRefund(k) ==
    {IF g.invoice = k THEN [g EXCEPT !.revoked = TRUE] ELSE g : g \in purchased}
CreditsAfterRefund(k) ==
    LET product == invoices[k].product
        back == IF product = Nil THEN 0 ELSE ProductCatalog[product].credits
        u == invoices[k].user
    IN  IF back = 0 THEN credits ELSE [credits EXCEPT ![u] = @ - back]

(* POST /admin/billing/invoices/:id/refund, of a part or of all that is    *)
(* left.                                                                   *)
Refund(k, amount) ==
    LET total == invoices[k].refunded + amount
        full == total >= invoices[k].amount
    IN  /\ Arrives
        /\ invoices[k].status = "paid"
        /\ amount > 0 /\ amount <= invoices[k].amount - invoices[k].refunded
        /\ invoices' = [invoices EXCEPT ![k].refunded = total,
                            ![k].status = IF full THEN "refunded" ELSE @]
        /\ purchased' = IF full THEN GrantsAfterRefund(k) ELSE purchased
        /\ credits' = IF full THEN CreditsAfterRefund(k) ELSE credits
        /\ pushed' = {}
        /\ UNCHANGED <<customer, subs, methods, sessions, usage, deleted, now,
                       rated>>

(* POST /admin/billing/usage, of a unit under a new idempotency key (a     *)
(* replay changes nothing): a debt of credits blocks new usage, a meter no *)
(* plan declares is refused.                                               *)
RecordUsage(u, meter, at) ==
    LET i == Newest(u, ENTITLED)
    IN  /\ Arrives
        /\ \E p \in Plans : PlanCatalog[p].meter = meter
        /\ credits[u] >= 0
        /\ i # 0
        /\ Len(usage) < MaxUsage
        /\ usage' = Append(usage, [sub |-> i, meter |-> meter, at |-> at])
        /\ rated' = Append(rated, 0)
        /\ pushed' = {}
        /\ UNCHANGED <<customer, subs, invoices, methods, purchased, credits,
                       sessions, deleted, now>>

(* POST /billing/purchase: the session the provider would hold. *)
Purchase(u, product, amount) ==
    /\ Arrives
    /\ Present(u)
    /\ amount \in ProductCatalog[product].amounts
    /\ Len(sessions) = 0
    /\ customer' = [customer EXCEPT ![u] = CustomerOf(u)]
    /\ sessions' = Append(sessions, [user |-> u, product |-> product,
                                     amount |-> amount])
    /\ pushed' = {}
    /\ UNCHANGED <<subs, invoices, methods, purchased, credits, usage, deleted,
                   now, rated>>

-----------------------------------------------------------------------------
(* The control routes that play the provider. *)

(* POST /__control/billing/complete-purchase. *)
CompletePurchase(s) ==
    LET u == sessions[s].user
        product == ProductCatalog[sessions[s].product]
        k == Len(invoices) + 1
    IN  /\ Arrives
        /\ k <= MaxInvoices
        /\ invoices' = Append(invoices, Invoice(u, 0, sessions[s].amount, "paid",
                                                "fixed", sessions[s].product))
        /\ purchased' = IF product.type # "sku" THEN purchased
                        ELSE purchased \cup {[invoice |-> k, revoked |-> FALSE,
                                              entitlement |-> product.entitlement,
                                              expires |-> now + product.days]}
        /\ credits' = IF product.type # "credits" THEN credits
                      ELSE [credits EXCEPT ![u] = @ + product.credits]
        /\ sessions' = RemoveAt(sessions, s)
        /\ pushed' = notifyEntitlementsChanged(u)
        /\ UNCHANGED <<customer, subs, methods, usage, deleted, now, rated>>

(* POST /__control/billing/activate-subscription: the paid checkout.  The  *)
(* row's provider is the one the customer was created with.                *)
Activate(u, plan, status) ==
    LET c == CustomerOf(u)
        m == IF c.default # 0 THEN c.default ELSE Len(methods) + 1
        open == Newest(u, OPEN)
        i == IF open # 0 THEN open ELSE Len(subs) + 1
        before == IF open # 0 THEN subs[open] ELSE Row(u, plan, c.provider, status)
        after == [before EXCEPT !.plan = plan, !.mode = PlanCatalog[plan].mode,
                                !.status = status, !.method = m,
                                !.end = now + Period]
    IN  /\ Arrives
        /\ i <= MaxSubs /\ Len(invoices) < MaxInvoices
        /\ customer' = [customer EXCEPT ![u] = [c EXCEPT !.default = m]]
        /\ methods' = IF c.default # 0 THEN methods
                      ELSE Append(methods, [user |-> u, default |-> TRUE])
        /\ subs' = IF open # 0 THEN [subs EXCEPT ![i] = after]
                   ELSE Append(subs, after)
        /\ invoices' = Append(invoices, Invoice(u, i, PlanCatalog[plan].price,
                                  "paid", PlanCatalog[plan].mode, Nil))
        /\ pushed' = notifyEntitlementsChanged(u)
        /\ UNCHANGED <<purchased, credits, sessions, usage, deleted, now, rated>>

(* POST /__control/billing/seed-usage: no guard of the ingest route.       *)
SeedUsage(i, meter, at) ==
    /\ Arrives
    /\ Len(usage) < MaxUsage
    /\ usage' = Append(usage, [sub |-> i, meter |-> meter, at |-> at])
    /\ rated' = Append(rated, 0)
    /\ pushed' = {}
    /\ UNCHANGED <<customer, subs, invoices, methods, purchased, credits,
                   sessions, deleted, now>>

(* POST /__control/billing/advance-renewal, a declined charge. *)
RenewalFails(i) ==
    LET attempts == subs[i].attempts + 1
        over == attempts >= DunningMaxAttempts
    IN  /\ Arrives
        /\ subs[i].status \in ENTITLED
        /\ subs' = [subs EXCEPT ![i].attempts = attempts,
                        ![i].status = IF over THEN "canceled" ELSE "past_due",
                        ![i].cancelAtEnd = @ /\ ~over]
        /\ pushed' = notifyEntitlementsChanged(subs[i].user)
        /\ UNCHANGED <<customer, invoices, methods, purchased, credits, sessions,
                       usage, deleted, now, rated>>

(* The same route, the boundary of a subscription set to end. *)
RenewalEnds(i) ==
    /\ Arrives
    /\ subs[i].status \in ENTITLED /\ subs[i].cancelAtEnd
    /\ subs' = [subs EXCEPT ![i].status = "canceled"]
    /\ pushed' = notifyEntitlementsChanged(subs[i].user)
    /\ UNCHANGED <<customer, invoices, methods, purchased, credits, sessions,
                   usage, deleted, now, rated>>

(* The same route, a paid boundary: fixed plans in advance, usage plans    *)
(* for the period that closes, prepaid credits spent first.                *)
RenewalPays(i) ==
    LET u == subs[i].user
        p == PlanCatalog[subs[i].plan]
        metered == subs[i].mode = "usage"
        closed == IF metered THEN Rated(i) ELSE {}
        held == Max({0, credits[u]})
        spent == IF metered THEN Min({held, Units(closed)}) ELSE 0
        amount == IF metered THEN (Units(closed) - spent) * p.unit ELSE p.price
    IN  /\ Arrives
        /\ subs[i].status \in ENTITLED /\ ~subs[i].cancelAtEnd
        /\ Len(invoices) < MaxInvoices
        /\ credits' = IF spent > 0 THEN [credits EXCEPT ![u] = @ - spent]
                      ELSE credits
        /\ invoices' = Append(invoices, Invoice(u, i, amount, "paid",
                                                subs[i].mode, Nil))
        /\ subs' = [subs EXCEPT ![i].status = "active", ![i].attempts = 0,
                                ![i].start = now, ![i].end = now + Period]
        /\ rated' = [r \in DOMAIN rated |-> rated[r] + IF r \in closed THEN 1 ELSE 0]
        /\ pushed' = notifyEntitlementsChanged(u)
        /\ UNCHANGED <<customer, methods, purchased, sessions, usage, deleted,
                       now>>

(* cancelSubscriptionsForDeletedUser, called by DELETE /users/:id. *)
UserDeleted(u) ==
    /\ Arrives
    /\ Present(u)
    /\ deleted' = deleted \cup {u}
    /\ subs' = [i \in DOMAIN subs |->
                  IF customer[u] # Nil /\ subs[i].user = u
                  THEN [subs[i] EXCEPT !.status = "canceled",
                            !.cancelAtEnd = @ /\ subs[i].status = "canceled"]
                  ELSE subs[i]]
    /\ pushed' = {}
    /\ UNCHANGED <<customer, invoices, methods, purchased, credits, sessions,
                   usage, now, rated>>

Tick ==
    /\ now < MaxTime
    /\ now' = now + 1
    /\ pushed' = {}
    /\ UNCHANGED <<customer, subs, invoices, methods, purchased, credits, sessions,
                   usage, deleted, calls, rated>>

BillingNext ==
    \/ \E u \in Payers : \/ \E p \in Plans : Checkout(u, p) \/ ChangePlan(u, p)
                         \/ \E o \in PaymentProviders \cup {Nil} : SetRegion(u, o)
                         \/ ReplaceMethod(u)
                         \/ \E m \in {"immediate", "period_end"} : Cancel(u, m)
                         \/ \E p \in Products : \E a \in 1..2 : Purchase(u, p, a)
                         \/ \E p \in Plans : \E s \in CHANGEABLE : Activate(u, p, s)
                         \/ \E meter \in Meters, at \in {now, 0} : RecordUsage(u, meter, at)
                         \/ UserDeleted(u)
    \/ \E i \in DOMAIN subs : \/ \E m \in {"immediate", "period_end"} : AdminCancel(i, m)
                              \/ \E meter \in Meters : SeedUsage(i, meter, now)
                              \/ RenewalFails(i) \/ RenewalEnds(i) \/ RenewalPays(i)
    \/ \E k \in DOMAIN invoices : \E a \in 1..4 : Refund(k, a)
    \/ \E s \in DOMAIN sessions : CompletePurchase(s)
    \/ Tick

BillingSpec == BillingInit /\ [][BillingNext]_billingVars

-----------------------------------------------------------------------------
(* Every row is well formed and names rows that exist.                     *)
MockBillingTypeOK ==
    /\ \A u \in Payers : /\ customer[u] # Nil => customer[u].default \in 0..Len(methods)
                         /\ credits[u] \in Int
    /\ \A i \in DOMAIN subs : /\ subs[i].status \in OPEN \cup {"canceled"}
                              /\ subs[i].method \in 0..Len(methods)
                              /\ subs[i].attempts \in 0..DunningMaxAttempts
                              /\ customer[subs[i].user] # Nil
    /\ \A k \in DOMAIN invoices : /\ invoices[k].sub \in 0..Len(subs)
                                  /\ invoices[k].refunded \in 0..invoices[k].amount
    /\ \A g \in purchased : g.invoice \in DOMAIN invoices
    /\ Len(rated) = Len(usage)

(* However checkouts, cancellations and renewals follow each other, a user *)
(* has at most one open subscription, and the card it would charge is the  *)
(* one the settings page shows as the default.                             *)
OpenChargesDefault ==
    \A u \in Payers :
        LET open == {i \in DOMAIN subs : subs[i].user = u /\ subs[i].status # "canceled"}
        IN  /\ Cardinality(open) <= 1
            /\ \A i \in open : subs[i].method \in {0, customer[u].default}
            /\ {m \in DOMAIN methods : methods[m].user = u /\ methods[m].default}
                   = IF customer[u] = Nil THEN {} ELSE {customer[u].default} \ {0}

(* A full refund takes back exactly what the invoice bought: its grant is  *)
(* live while the invoice is paid, and a credit balance can only be        *)
(* negative by the packs that were refunded after they were spent.         *)
RefundTakesBack ==
    /\ \A g \in purchased : g.revoked <=> invoices[g.invoice].status = "refunded"
    /\ \A u \in Payers :
         credits[u] + MapThenSumSet(
             LAMBDA k : ProductCatalog[invoices[k].product].credits,
             {k \in DOMAIN invoices : /\ invoices[k].user = u
                                      /\ invoices[k].product # Nil
                                      /\ invoices[k].status = "refunded"}) >= 0

(* A usage record enters at most one invoice, whatever plan changes,       *)
(* backdated records and early renewals happen around the boundary.        *)
RatedOnce == \A r \in DOMAIN rated : rated[r] <= 1

(* A client is told of every entitlement its user gains; losses by an      *)
(* admin's cancel, a refund, a deletion or an expiry are not pushed.       *)
GainIsPushed ==
    [][\A u \in Payers : \/ resolveEntitlements(u)' \subseteq resolveEntitlements(u)
                          \/ u \in pushed']_billingVars
=============================================================================
