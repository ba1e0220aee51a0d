------------------------------ MODULE Checkout ------------------------------
(***************************************************************************)
(* How a customer comes to a subscription: checkout, one-time purchase,    *)
(* change of the saved card, cancellation and billing region on one side,  *)
(* and on the other the reduction of the provider's events, which opens    *)
(* subscriptions, inserts invoices, grants products and swaps cards.       *)
(*                                                                         *)
(* A self-managed (YooKassa) subscription is a local row, incomplete until *)
(* the first payment is reduced.  A provider-managed (Paddle) row is made  *)
(* by the reduction.  Requests and reductions read a row, do something     *)
(* else, and write: each of those is a step.  A conditional UPDATE is one  *)
(* step; save of an entity writes back all of the row that was read.       *)
(* Trialing is not told from active.  Renewals are what Renewal models.    *)
(***************************************************************************)
EXTENDS Integers, FiniteSets

CONSTANTS
    Plans,          \* plan keys
    Requests,       \* bound: requests of the user at work at once
    Reducers,       \* bound: reductions at work at once
    MaxRows,        \* bound: subscription rows
    MaxSessions,    \* bound: hosted payments
    MaxIncidents    \* bound: writes of other parts, and transactions that roll back

ASSUME CheckoutAssumption ==
    /\ MaxRows \in Nat \ {0} /\ MaxSessions \in Nat \ {0} /\ MaxIncidents \in Nat
    /\ Plans # {}

VARIABLES
    sub,            \* subscription rows, in the order of their creation
    customer,       \* the customer row and the transaction that holds its lock
    methods,        \* payment methods, by the session that saved the card
    sessions,       \* hosted payments at the providers
    invoices,       \* the invoice of a session's payment
    grants,         \* grants applied for a session
    request,        \* requests at work
    tx,             \* reductions at work
    incidents

vars == <<sub, customer, methods, sessions, invoices, grants, request, tx, incidents>>

Rows == 1..MaxRows
Sessions == 1..MaxSessions
Providers == {"yookassa", "paddle"}

(* Events of a session: its payment (for a card update: the new card), and *)
(* the snapshots of the Paddle subscription it started.  What the ledger   *)
(* promises of them (EventDelivery) is all that matters here: once         *)
(* something has happened its event may be reduced, in any order with      *)
(* others, and again.                                                      *)
Events == [what : {"paid", "opened", "closed"}, s : Sessions]

Open == {"incomplete", "active", "past_due"}
Entitled == {"active", "past_due"}

NoRow == [status |-> "none", plan |-> CHOOSE p \in Plans : TRUE, provider |-> "yookassa",
          atEnd |-> FALSE, method |-> 0, psid |-> 0]
RowType == [status : Open \cup {"none", "canceled"}, plan : Plans, provider : Providers,
            atEnd : BOOLEAN, method : 0..MaxSessions, psid : 0..MaxSessions]

(* getOrCreateCustomer: one row per user, whoever inserts it first. *)
FirstCustomer == [override |-> "none", pointer |-> 0, lock |-> "free"]

NoSession == [kind |-> "none", provider |-> "yookassa", plan |-> NoRow.plan,
              status |-> "none", saved |-> FALSE]
SessionType == [kind : {"none", "plan", "once", "card"}, provider : Providers, plan : Plans,
                status : {"none", "open", "paid", "ended"}, saved : BOOLEAN]

Unpaid == [paid |-> FALSE, row |-> 0]

IdleRequest == [pc |-> "idle", plan |-> NoRow.plan, provider |-> "yookassa", row |-> 0,
                mode |-> "none", pointer |-> 0]
RequestType == [pc : {"idle", "resolve", "write", "cancel", "region"}, plan : Plans,
                provider : Providers, row : 0..MaxRows,
                mode : {"none", "immediate", "period_end"} \cup Providers,
                pointer : 0..MaxSessions]

IdleTx == [pc |-> "idle", s |-> 1, row |-> 0, seen |-> NoRow, demoted |-> {}]
TxType == [pc : {"idle", "insert", "point", "save"}, s : Sessions, row : 0..MaxRows,
           seen : RowType, demoted : SUBSET Sessions]

CheckoutTypeOK ==
    /\ sub \in [Rows -> RowType]
    /\ customer \in [override : Providers \cup {"none"}, pointer : 0..MaxSessions,
                     lock : Reducers \cup {"free"}]
    /\ methods \in [Sessions -> {"none", "default", "demoted"}]
    /\ sessions \in [Sessions -> SessionType]
    /\ invoices \in [Sessions -> [paid : BOOLEAN, row : 0..MaxRows]]
    /\ grants \in [Sessions -> 0..2]
    /\ request \in [Requests -> RequestType]
    /\ tx \in [Reducers -> TxType]
    /\ incidents \in 0..MaxIncidents

Init ==
    /\ sub = [r \in Rows |-> NoRow]
    /\ customer = FirstCustomer
    /\ methods = [s \in Sessions |-> "none"]
    /\ sessions = [s \in Sessions |-> NoSession]
    /\ invoices = [s \in Sessions |-> Unpaid]
    /\ grants = [s \in Sessions |-> 0]
    /\ request = [c \in Requests |-> IdleRequest]
    /\ tx = [w \in Reducers |-> IdleTx]
    /\ incidents = 0

reductionUnchanged == UNCHANGED <<methods, invoices, grants, tx, incidents>>
ledgerUnchanged == UNCHANGED <<methods, invoices, grants, tx>>

----------------------------------------------------------------------------
(* Helpers. *)

OpenRows == {r \in Rows : sub[r].status \in Open}
IncompleteRows == {r \in Rows : sub[r].status = "incomplete"}

LatestOf(rows) == IF rows = {} THEN 0 ELSE CHOOSE r \in rows : \A q \in rows : q <= r

(* UQ_subscriptions_customer_open: the index rejects a second open row.    *)
IndexAllows(r, row) == row.status \in Open => OpenRows \subseteq {r}

UnusedRow(r) == sub[r].status = "none" /\ \A q \in Rows : sub[q].status = "none" => r <= q
UnusedSession(s) ==
    sessions[s].kind = "none" /\ \A q \in Sessions : sessions[q].kind = "none" => s <= q

(* geoDefaultFor: the customers of the model are Russian. *)
EffectiveWith(override) == IF override = "none" THEN "yookassa" ELSE override

(* The provider opens a hosted payment, or its call fails. *)
SessionStarts(kind, provider, plan) ==
    \/ \E s \in Sessions :
          /\ UnusedSession(s)
          /\ sessions' = [sessions EXCEPT ![s] =
                [kind |-> kind, provider |-> provider, plan |-> plan,
                 status |-> "open", saved |-> FALSE]]
    \/ UNCHANGED sessions

Finish(c) == request' = [request EXCEPT ![c] = IdleRequest]

----------------------------------------------------------------------------
(* Requests: BillingUserService. *)

(* checkout: no subscription that grants access may exist. *)
CheckoutStart(c, p) ==
    /\ request[c].pc = "idle"
    /\ \A r \in Rows : sub[r].status \notin Entitled
    /\ request' = [request EXCEPT ![c] =
          [IdleRequest EXCEPT !.pc = "resolve", !.plan = p,
                              !.provider = EffectiveWith(customer.override)]]
    /\ UNCHANGED <<sub, customer, sessions>> /\ reductionUnchanged

(* resolveProvider finds the provider available, or ends the request; then *)
(* the leftover row is read.                                               *)
CheckoutPending(c) ==
    /\ request[c].pc = "resolve"
    /\ \/ request' = [request EXCEPT ![c].pc = "write", ![c].row = LatestOf(IncompleteRows)]
       \/ Finish(c)
    /\ UNCHANGED <<sub, customer, sessions>> /\ reductionUnchanged

\* Mutant: the leftover row is saved whatever became of it.
ReusableWhenRead(r) == TRUE
Reusable(r) == sub[r].status = "incomplete"

IncompleteRow(c) == [NoRow EXCEPT !.status = "incomplete", !.plan = request[c].plan]

(* The self-managed row is rewritten or inserted; for Paddle a leftover    *)
(* row is released.  When the row is not incomplete any more, or another   *)
(* open one exists, the answer is 409.  Then the payment is started.       *)
CheckoutWrite(c) ==
    LET r == request[c].row
        self == request[c].provider = "yookassa"
        start == SessionStarts("plan", request[c].provider, request[c].plan)
    IN  /\ request[c].pc = "write"
        /\ \/ /\ r # 0 /\ Reusable(r)
              /\ sub' = IF self THEN [sub EXCEPT ![r] = IncompleteRow(c)]
                                ELSE [sub EXCEPT ![r].status = "canceled"]
              /\ start
           \/ /\ r = 0 /\ self
              /\ \E q \in Rows : /\ UnusedRow(q) /\ IndexAllows(q, IncompleteRow(c))
                                 /\ sub' = [sub EXCEPT ![q] = IncompleteRow(c)]
              /\ start
           \/ /\ r = 0 /\ ~self
              /\ start
              /\ UNCHANGED sub
           \/ /\ IF r # 0 THEN ~Reusable(r) ELSE self /\ OpenRows # {}
              /\ UNCHANGED <<sub, sessions>>
        /\ Finish(c)
        /\ UNCHANGED customer /\ reductionUnchanged

(* purchase *)
Purchase ==
    /\ SessionStarts("once", EffectiveWith(customer.override), NoRow.plan)
    /\ UNCHANGED <<sub, customer, request>> /\ reductionUnchanged

(* startPaymentMethodUpdate: the provider is that of the open row; Paddle  *)
(* keeps the cards of its own subscriptions.                               *)
StartCardUpdate ==
    /\ OpenRows # {}
    /\ sub[LatestOf(OpenRows)].provider = "yookassa"
    /\ SessionStarts("card", "yookassa", NoRow.plan)
    /\ UNCHANGED <<sub, customer, request>> /\ reductionUnchanged

(* cancelOpenSubscription, for the owner or an administrator: an open row  *)
(* is read, and a provider-managed one canceled at its provider first.     *)
CancelRead(c, mode) ==
    /\ request[c].pc = "idle"
    /\ OpenRows # {}
    /\ LET r == LatestOf(OpenRows)
       IN  /\ request' = [request EXCEPT ![c] = [IdleRequest EXCEPT !.pc = "cancel",
                                                                    !.row = r, !.mode = mode]]
           /\ sessions' = IF sub[r].psid # 0 /\ mode = "immediate"
                          THEN [sessions EXCEPT ![sub[r].psid].status = "ended"]
                          ELSE sessions
    /\ UNCHANGED <<sub, customer>> /\ reductionUnchanged

CancelFields(row, mode) ==
    IF mode = "immediate" THEN [row EXCEPT !.status = "canceled", !.atEnd = FALSE]
                          ELSE [row EXCEPT !.atEnd = TRUE]

CancelWrite(c) ==
    LET r == request[c].row
    IN  /\ request[c].pc = "cancel"
        /\ sub' = IF sub[r].status \in Open
                  THEN [sub EXCEPT ![r] = CancelFields(@, request[c].mode)]
                  ELSE sub
        /\ Finish(c)
        /\ UNCHANGED <<customer, sessions>> /\ reductionUnchanged

(* setRegion reads the customer and refuses a region whose provider is not *)
(* that of the open row; then it saves the customer it has read.           *)
RegionRead(c, override) ==
    /\ request[c].pc = "idle"
    /\ \A r \in OpenRows : sub[r].provider = EffectiveWith(override)
    /\ request' = [request EXCEPT ![c] = [IdleRequest EXCEPT !.pc = "region",
                                             !.mode = override, !.pointer = customer.pointer]]
    /\ UNCHANGED <<sub, customer, sessions>> /\ reductionUnchanged

RegionWrite(c) ==
    /\ request[c].pc = "region"
    /\ customer.lock = "free"
    /\ customer' = [customer EXCEPT !.override = request[c].mode, !.pointer = request[c].pointer]
    /\ Finish(c)
    /\ UNCHANGED <<sub, sessions>> /\ reductionUnchanged

----------------------------------------------------------------------------
(* The providers and the other writers. *)

(* The user pays; the card of a payment may be one that cannot be saved.   *)
Pay(s) ==
    /\ sessions[s].status = "open"
    /\ \E saved \in (IF sessions[s].kind = "plan" THEN BOOLEAN ELSE {sessions[s].kind = "card"}) :
          sessions' = [sessions EXCEPT ![s].status = "paid", ![s].saved = saved]
    /\ UNCHANGED <<sub, customer, request>> /\ reductionUnchanged

EndAtPaddle(s) ==
    /\ sessions[s].kind = "plan" /\ sessions[s].provider = "paddle" /\ sessions[s].status = "paid"
    /\ sessions' = [sessions EXCEPT ![s].status = "ended"]
    /\ UNCHANGED <<sub, customer, request>> /\ reductionUnchanged

Happened(e) ==
    CASE e.what = "paid" -> sessions[e.s].status \in {"paid", "ended"}
      [] e.what = "opened" -> /\ sessions[e.s].kind = "plan" /\ sessions[e.s].provider = "paddle"
                              /\ sessions[e.s].status \in {"paid", "ended"}
      [] e.what = "closed" -> sessions[e.s].status = "ended"

Incident == incidents < MaxIncidents /\ incidents' = incidents + 1

(* The renewal scheduler settles, degrades or ends a self-managed row.     *)
RenewalWrites(r) ==
    /\ sub[r].provider = "yookassa" /\ sub[r].status \in Entitled
    /\ \E status \in {"active", "past_due", "canceled"} \ {sub[r].status} :
          /\ sub[r].status = "active" /\ status = "canceled" => sub[r].atEnd
          /\ sub' = [sub EXCEPT ![r].status = status]
    /\ Incident
    /\ UNCHANGED <<customer, sessions, request>> /\ ledgerUnchanged

(* The listener of a deleted user ends a self-managed row as it is, and a  *)
(* provider-managed one at its provider.                                   *)
DeletionCancels(r) ==
    /\ sub[r].status \in Open
    /\ IF sub[r].psid = 0
       THEN sub' = [sub EXCEPT ![r] = CancelFields(@, "immediate")] /\ UNCHANGED sessions
       ELSE /\ sessions[sub[r].psid].status = "paid"
            /\ sessions' = [sessions EXCEPT ![sub[r].psid].status = "ended"]
            /\ UNCHANGED sub
    /\ Incident
    /\ UNCHANGED <<customer, request>> /\ ledgerUnchanged

----------------------------------------------------------------------------
(* Reductions: BillingEventReducer. *)

Payment(s) == [what |-> "paid", s |-> s]

(* The subscription a payment belongs to. *)
\* Mutant: a one-time purchase falls back to the open subscription.
AnyOpenRow(s) == LatestOf(OpenRows)
RowOf(s) ==
    CASE sessions[s].kind = "once" -> 0
      [] sessions[s].kind = "plan" /\ sessions[s].provider = "paddle" ->
            LatestOf({r \in Rows : sub[r].psid = s})
      [] sessions[s].kind = "plan" /\ sessions[s].provider = "yookassa" -> LatestOf(OpenRows)
      [] OTHER -> 0

SeenRow(r) == IF r = 0 THEN NoRow ELSE sub[r]

(* reduceInvoice: the row is read. *)
BeginPayment(w, s) ==
    /\ tx[w].pc = "idle" /\ Happened(Payment(s)) /\ sessions[s].kind # "card"
    /\ tx' = [tx EXCEPT ![w] = [IdleTx EXCEPT !.pc = "insert", !.s = s, !.row = RowOf(s),
                                              !.seen = SeenRow(RowOf(s))]]
    /\ UNCHANGED <<sub, customer, methods, sessions, invoices, grants, request, incidents>>
   

DefaultMethods == {m \in Sessions : methods[m] = "default"}

Activates(s, r) == r # 0 /\ sessions[s].kind # "card" /\ sessions[s].provider = "yookassa"

\* Mutant: every reduction of the payment goes on to the grant.
AlwaysWins(w) == TRUE
InsertWins(w) == ~invoices[tx[w].s].paid

(* The invoice is inserted under its event id; a transaction that inserts  *)
(* the same one waits for the first.  A lost insert ends the reduction.    *)
(* An activation goes on to demote the cards that are default by now.      *)
InsertInvoice(w) ==
    LET s == tx[w].s
    IN  /\ tx[w].pc = "insert"
        /\ \A v \in Reducers \ {w} : tx[v].pc \in {"point", "save"} => tx[v].s # s
        /\ IF InsertWins(w)
           THEN tx' = [tx EXCEPT ![w].pc = IF Activates(s, tx[w].row) /\ sessions[s].saved
                                           THEN "point" ELSE "save",
                                 ![w].demoted = DefaultMethods]
               
           ELSE tx' = [tx EXCEPT ![w] = IdleTx]
        /\ UNCHANGED <<sub, customer, methods, sessions, invoices, grants, request, incidents>>

(* reducePaymentMethodUpdated: the default cards are demoted. *)
BeginCard(w, s) ==
    /\ tx[w].pc = "idle" /\ Happened(Payment(s)) /\ sessions[s].kind = "card"
    /\ tx' = [tx EXCEPT ![w] = [IdleTx EXCEPT !.pc = "point", !.s = s, !.demoted = DefaultMethods]]
    /\ UNCHANGED <<sub, customer, methods, sessions, invoices, grants, request, incidents>>
   

(* The new card is inserted and the customer pointed at it, which locks    *)
(* the customer until the commit.  A card update then reads the open row.  *)
PointCustomer(w) ==
    LET card == sessions[tx[w].s].kind = "card"
        r == IF card THEN LatestOf(OpenRows) ELSE tx[w].row
    IN  /\ tx[w].pc = "point"
        /\ customer.lock = "free"
        /\ customer' = [customer EXCEPT !.lock = w]
        /\ tx' = [tx EXCEPT ![w].pc = "save", ![w].row = r,
                            ![w].seen = IF card THEN SeenRow(r) ELSE @]
        /\ UNCHANGED <<sub, methods, sessions, invoices, grants, request, incidents>>
       

(* What save writes: the row as it was read, activated by a first payment, *)
(* with the new card.                                                      *)
SavedRow(w) ==
    LET s == tx[w].s
        activated == IF Activates(s, tx[w].row) THEN [tx[w].seen EXCEPT !.status = "active"]
                                                ELSE tx[w].seen
    IN  IF customer.lock = w THEN [activated EXCEPT !.method = s] ELSE activated

WritesRow(w) == tx[w].row # 0 /\ (sessions[tx[w].s].kind = "card" \/ Activates(tx[w].s, tx[w].row))

(* The rest of the transaction and its commit.  When another open row      *)
(* exists by now the save is rejected, and only Abort is left.             *)
CommitReduction(w) ==
    LET s == tx[w].s
        swaps == customer.lock = w
    IN  /\ tx[w].pc = "save"
        /\ IF WritesRow(w)
           THEN /\ IndexAllows(tx[w].row, SavedRow(w))
                /\ sub' = [sub EXCEPT ![tx[w].row] = SavedRow(w)]
           ELSE UNCHANGED sub
        /\ IF swaps
           THEN /\ methods' = [m \in Sessions |-> IF m = s THEN "default"
                                                  ELSE IF m \in tx[w].demoted THEN "demoted"
                                                  ELSE methods[m]]
                /\ customer' = [customer EXCEPT !.pointer = s, !.lock = "free"]
           ELSE UNCHANGED <<methods, customer>>
        /\ IF sessions[s].kind = "card"
           THEN UNCHANGED <<invoices, grants>>
           ELSE /\ invoices' = [invoices EXCEPT ![s] = [paid |-> TRUE, row |-> tx[w].row]]
                /\ grants' = IF sessions[s].kind = "once" /\ grants[s] < 2
                             THEN [grants EXCEPT ![s] = @ + 1] ELSE grants
        /\ tx' = [tx EXCEPT ![w] = IdleTx]
        /\ UNCHANGED <<sessions, request, incidents>>

(* A statement fails or the process dies: the transaction is rolled back.  *)
Abort(w) ==
    /\ tx[w].pc # "idle"
    /\ Incident
    /\ tx' = [tx EXCEPT ![w] = IdleTx]
    /\ customer' = [customer EXCEPT !.lock = IF @ = w THEN "free" ELSE @]
    /\ UNCHANGED <<sub, methods, sessions, invoices, grants, request>>

(* reduceSubscription: a snapshot is applied to the row of the Paddle      *)
(* subscription as it comes, or makes the row unless another is open.      *)
SnapshotStatus(e) == IF e.what = "closed" THEN "canceled" ELSE "active"

SnapshotRow(e) == [NoRow EXCEPT !.status = SnapshotStatus(e), !.plan = sessions[e.s].plan,
                                !.provider = "paddle", !.psid = e.s]

ReduceSnapshot(e) ==
    LET r == LatestOf({q \in Rows : sub[q].psid = e.s})
    IN  /\ e.what \in {"opened", "closed"}
        /\ Happened(e)
        /\ \/ /\ r # 0
              /\ IndexAllows(r, [sub[r] EXCEPT !.status = SnapshotStatus(e)])
              /\ sub' = [sub EXCEPT ![r].status = SnapshotStatus(e), ![r].atEnd = FALSE]
           \/ /\ r = 0 /\ OpenRows = {}
              /\ \E q \in Rows : UnusedRow(q) /\ sub' = [sub EXCEPT ![q] = SnapshotRow(e)]
           \/ /\ r = 0 /\ OpenRows # {}
              /\ UNCHANGED sub
        /\ UNCHANGED <<customer, sessions, request>> /\ reductionUnchanged

----------------------------------------------------------------------------
Request(c) ==
    \/ \E p \in Plans : CheckoutStart(c, p)
    \/ \E mode \in {"immediate", "period_end"} : CancelRead(c, mode)
    \/ \E override \in {"none", "paddle"} : RegionRead(c, override)
    \/ CheckoutPending(c) \/ CheckoutWrite(c) \/ CancelWrite(c) \/ RegionWrite(c)

Reduction(w) ==
    \/ \E s \in Sessions : BeginPayment(w, s) \/ BeginCard(w, s)
    \/ InsertInvoice(w) \/ PointCustomer(w) \/ CommitReduction(w)

Next ==
    \/ \E c \in Requests : Request(c)
    \/ Purchase \/ StartCardUpdate
    \/ \E s \in Sessions : Pay(s) \/ EndAtPaddle(s)
    \/ \E e \in Events : ReduceSnapshot(e)
    \/ \E r \in Rows : RenewalWrites(r) \/ DeletionCancels(r)
    \/ \E w \in Reducers : Reduction(w) \/ Abort(w)

Spec == Init /\ [][Next]_vars

----------------------------------------------------------------------------
(* Properties. *)

CardUpdateSaves == \E w \in Reducers : tx[w].pc = "save" /\ sessions[tx[w].s].kind = "card"

(* A subscription that was paid for does not become incomplete again,      *)
(* although a second checkout may be rewriting the leftover row it was     *)
(* (billing-user.service.ts:447-454).  The save of a card update, which    *)
(* writes back the status it has read, is the exception.                   *)
PaidStaysPaid ==
    [][\A r \in Rows :
          sub[r].status \in Entitled /\ sub'[r].status = "incomplete" => CardUpdateSaves]_vars

(* A canceled row is opened again only by a reduction that had read it     *)
(* while it was open, or by a snapshot of Paddle; no request does it       *)
(* (cancel-subscription.util.ts:33-40).                                    *)
ReopenedByReduction ==
    [][\A r \in Rows :
          sub[r].status = "canceled" /\ sub'[r].status \in Open =>
             \/ \E w \in Reducers :
                   tx[w].pc = "save" /\ tx[w].row = r /\ tx[w].seen.status \in Open
             \/ sub[r].psid # 0]_vars

(* Whoever has access has paid for it: a self-managed row that grants      *)
(* access carries the invoice of a plan's checkout, never that of a        *)
(* one-time purchase (billing-event-reducer.service.ts:416-418), and a     *)
(* provider-managed one was paid at Paddle.                                *)
EntitledIsPaid ==
    \A r \in Rows :
        sub[r].status \in Entitled =>
            IF sub[r].psid = 0
            THEN \E s \in Sessions : invoices[s] = [paid |-> TRUE, row |-> r]
                                     /\ sessions[s].kind = "plan"
            ELSE sessions[sub[r].psid].status \in {"paid", "ended"}

(* Each paid one-time purchase is granted once, whichever and however many *)
(* reductions race (billing-event-reducer.service.ts:463-465).             *)
GrantedOnce ==
    \A s \in Sessions :
        grants[s] = IF invoices[s].paid /\ sessions[s].kind = "once" THEN 1 ELSE 0

============================================================================
