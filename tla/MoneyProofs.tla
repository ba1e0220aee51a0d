----------------------------- MODULE MoneyProofs -----------------------------
(***************************************************************************)
(* What holds of the money that moves outside a renewal, in three parts:   *)
(* overlapping refunds of an invoice for any number of legs, any price and *)
(* any crashes; the plan changes of one subscription for any number of     *)
(* changes, any plans and quotes, beside refunds of operators, renewals,   *)
(* cancellations and webhooks, with the lemmas of the refunds; and the     *)
(* billing of usage for any number of periods, usage records, credit       *)
(* packs, listeners at work, failed calls and crashes.                     *)
(***************************************************************************)
EXTENDS PlanChange, UsageBilling, FiniteSetTheorems, WellFoundedInduction, TLAPS

----------------------------------------------------------------------------
(* Refunds: the inductive invariant. *)

(* A refund that is about to be created, or whose request is still under   *)
(* way, can only meet a refund under its key that the key store remembers: *)
(* the scan ruled out the others, and no day passes meanwhile.             *)
Creating(key) ==
    \/ \E l \in Legs : legs[l].pc = "create" /\ legs[l].key = key
    \/ \E req \in landing : req.key = key

MovedAreRemembered ==
    \A r \in DOMAIN refunds :
        refunds[r].state = "moved" /\ Creating(refunds[r].key) => refunds[r].fresh

(* The only invoice of this module is the renewal it starts with. *)
OnlyRenewal == DOMAIN invoices = {1} /\ invoices[1].event.what = "renewal"

RefundInv ==
    /\ RefundTypeOK
    /\ WithinPaid
    /\ MovedAreRemembered
    /\ MovedOncePerKey
    /\ IssuedIsAccepted
    /\ OnlyRenewal
    /\ RevokedOnce

\* The keys are keys.
LEMMA KeyTypes ==
    /\ RenewalKey(0) \in KeyType
    /\ \A i, n \in Nat : AdminKey(i, n) \in KeyType
    /\ \A plan \in Plans, n \in Nat : ChangeKey(plan, n) \in KeyType
BY DEF RenewalKey, AdminKey, ChangeKey, KeyType

\* The invariant holds at the start.
LEMMA InitEstablishes == RefundInit => RefundInv
<1> SUFFICES ASSUME RefundInit PROVE RefundInv
  OBVIOUS
<1> DEFINE first == NewInvoice(RenewalKey(0), Price, "paid")
<1>1. /\ first \in InvoiceType /\ first.event.what = "renewal" /\ first.status = "paid"
      /\ first.refunded = 0 /\ first.amount = Price /\ Price \in Nat
  BY KeyTypes, RefundAssumption DEF RefundAssumption, NewInvoice, InvoiceType, RenewalKey
<1> HIDE DEF first
<1>2. invoices = <<first>>
  BY DEF RefundInit, first
<1>3. /\ invoices \in Seq(InvoiceType) /\ DOMAIN invoices = {1} /\ invoices[1] = first
  BY <1>1, <1>2
<1>4. IdleLeg \in LegType /\ IdleLeg.pc = "idle"
  BY KeyTypes DEF IdleLeg, LegType, LegPcs
<1>5. RefundTypeOK
  BY <1>3, <1>4 DEF RefundInit, RefundTypeOK
<1>6. WithinPaid /\ OnlyRenewal
  BY <1>1, <1>3 DEF WithinPaid, OnlyRenewal
<1>7. DOMAIN refunds = {} /\ DOMAIN revoked = {}
  BY DEF RefundInit
<1>8. MovedAreRemembered /\ MovedOncePerKey
  BY <1>7 DEF MovedAreRemembered, MovedOncePerKey
<1>9. IssuedIsAccepted
  BY <1>4 DEF RefundInit, IssuedIsAccepted
<1>10. RevokedOnce
  BY <1>1, <1>3, <1>7 DEF RevokedOnce
<1> QED BY <1>5, <1>6, <1>8, <1>9, <1>10 DEF RefundInv

----------------------------------------------------------------------------
(* What one step may do to each part of the state. *)

\* A write to one invoice keeps the list well typed.
LEMMA InvoiceWrite ==
    ASSUME invoices \in Seq(InvoiceType), NEW i \in DOMAIN invoices,
           NEW inv \in InvoiceType, invoices' = [invoices EXCEPT ![i] = inv]
    PROVE  /\ invoices' \in Seq(InvoiceType) /\ DOMAIN invoices' = DOMAIN invoices
           /\ invoices'[i] = inv
           /\ \A j \in DOMAIN invoices : j # i => invoices'[j] = invoices[j]
OBVIOUS

\* The provider accepts nothing, or one more refund under a key that no remembered
\* refund has.
LEMMA AcceptedRefund ==
    ASSUME refunds \in Seq(RefundType), NEW req \in LandingType, Accept(req)
    PROVE  \/ UNCHANGED refunds /\ Remembered(req.key) # {}
           \/ /\ Remembered(req.key) = {}
              /\ \E new \in RefundType :
                    /\ refunds' = Append(refunds, new)
                    /\ new.key = req.key /\ new.state = "moved" /\ new.fresh
<1>1. [inv |-> req.inv, key |-> req.key, minor |-> req.minor, state |-> "moved",
       fresh |-> TRUE] \in RefundType
  BY DEF LandingType, RefundType
<1> QED BY <1>1 DEF Accept

(* A reservation as either caller makes it. *)
Reservation(l, i, minor, key) ==
    /\ legs[l].pc = "idle" /\ invoices[i].status = "paid"
    /\ minor <= Remaining(invoices[i])
    /\ Reserve(l, i, minor, key)

\* An operator's reservation is at most the remainder.
LEMMA AdminReserves ==
    ASSUME RefundInv, NEW l \in AdminLegs, ReserveAdmin(l)
    PROVE  \E i \in DOMAIN invoices, minor \in Nat, key \in KeyType :
              Reservation(l, i, minor, key)
<1>0. invoices \in Seq(InvoiceType)
  BY DEF RefundInv, RefundTypeOK
<1>1. PICK i \in DOMAIN invoices :
         /\ invoices[i].status = "paid"
         /\ \E minor \in 1 .. Remaining(invoices[i]) :
               Reserve(l, i, minor, AdminKey(i, invoices[i].refunded + minor))
  BY DEF ReserveAdmin
<1>2. invoices[i] \in InvoiceType /\ i \in Nat
  BY <1>0
<1>3. Remaining(invoices[i]) \in Int /\ invoices[i].refunded \in Nat
  BY <1>2 DEF Remaining, InvoiceType
<1>4. PICK minor \in 1 .. Remaining(invoices[i]) :
         Reserve(l, i, minor, AdminKey(i, invoices[i].refunded + minor))
  BY <1>1
<1>5. minor \in Nat /\ minor <= Remaining(invoices[i])
      /\ AdminKey(i, invoices[i].refunded + minor) \in KeyType
  BY <1>2, <1>3, <1>4, KeyTypes
<1>6. legs[l].pc = "idle"
  BY DEF ReserveAdmin
<1> QED BY <1>1, <1>4, <1>5, <1>6 DEF Reservation

\* A plan change takes the latest paid invoice, caps its amount, or takes nothing.
LEMMA ProrationReserves ==
    ASSUME RefundInv, NEW c \in Changes, NEW quote \in 1 .. Price, NEW key \in KeyType,
           legs[c].pc = "idle", ReserveProration(c, quote, key)
    PROVE  \/ UNCHANGED refundVars
           \/ \E i \in DOMAIN invoices, minor \in Nat : Reservation(c, i, minor, key)
<1>0. WithinPaid /\ DOMAIN invoices = {1}
  BY DEF RefundInv, OnlyRenewal
<1>1. \A i \in DOMAIN invoices : invoices[i] \in InvoiceType
  <2>1. invoices \in Seq(InvoiceType)
    BY DEF RefundInv, RefundTypeOK
  <2> QED BY <2>1
<1>2. Sources # {} => Sources = {1} /\ invoices[1].status = "paid"
  BY <1>0 DEF Sources
<1>3. Max({1}) = 1
  BY DEF Max
<1> DEFINE minor == Capped(invoices[1], quote)
<1>4. minor \in Nat /\ minor <= Remaining(invoices[1])
  <2>0. Price \in Nat
    BY RefundAssumption DEF RefundAssumption
  <2>1. invoices[1] \in InvoiceType
    BY <1>0, <1>1
  <2>2. Remaining(invoices[1]) \in Nat
    BY <1>0, <2>1 DEF WithinPaid, Remaining, InvoiceType
  <2>3. quote \in Nat
    BY <2>0
  <2> QED BY <2>2, <2>3 DEF Capped
<1> HIDE DEF minor
<1>5. UNCHANGED refundVars \/ (Sources # {} /\ Reserve(c, 1, minor, key))
  BY <1>2, <1>3 DEF ReserveProration, minor
<1> QED BY <1>0, <1>2, <1>4, <1>5 DEF Reservation

\* Every step is one of these.
LEMMA Steps ==
    ASSUME RefundInv, [RefundNext]_refundVars
    PROVE  \/ UNCHANGED refundVars
           \/ \E l \in Legs, i \in DOMAIN invoices, minor \in Nat, key \in KeyType :
                 Reservation(l, i, minor, key)
           \/ \E l \in Legs : LegStep(l) \/ Crash(l)
           \/ ProviderStep
<1>1. ASSUME NEW l \in AdminLegs, ReserveAdmin(l)
      PROVE  \E i \in DOMAIN invoices, minor \in Nat, key \in KeyType :
                Reservation(l, i, minor, key)
  BY <1>1, AdminReserves
<1>2. ASSUME NEW c \in Changes, NEW quote \in 1 .. Price, NEW plan \in Plans,
             legs[c].pc = "idle", ReserveProration(c, quote, ChangeKey(plan, 0))
      PROVE  \/ UNCHANGED refundVars
             \/ \E i \in DOMAIN invoices, minor \in Nat, key \in KeyType :
                   Reservation(c, i, minor, key)
  BY <1>2, ProrationReserves, KeyTypes
<1> QED BY <1>1, <1>2 DEF RefundNext, Legs

\* What holds of every invoice and leg, one by one.
LEMMA Elements ==
    ASSUME RefundTypeOK
    PROVE  /\ \A i \in DOMAIN invoices : invoices[i] \in InvoiceType /\ i \in Nat
           /\ \A l \in Legs : legs[l] \in LegType
           /\ \A l \in Legs : legs[l].pc # "idle" => legs[l].inv \in DOMAIN invoices
           /\ \A r \in DOMAIN refunds : refunds[r] \in RefundType
BY DEF RefundTypeOK

(* What a step writes to an invoice: a larger or smaller sum of refunds, or *)
(* the flip, together with its entry in the list of revocations.            *)
Flipped(i) ==
    /\ invoices[i].status = "paid"
    /\ invoices' = [invoices EXCEPT ![i].status = "refunded"]
    /\ revoked' = Append(revoked, i)

InvoiceTo ==
    \/ UNCHANGED <<invoices, revoked>>
    \/ \E i \in DOMAIN invoices, n \in Nat :
          /\ n <= invoices[i].amount
          /\ invoices' = [invoices EXCEPT ![i].refunded = n]
          /\ UNCHANGED revoked
    \/ \E i \in DOMAIN invoices : Flipped(i)

\* Every step writes to the invoices in one of these ways.
LEMMA InvoiceSteps ==
    ASSUME RefundInv, [RefundNext]_refundVars
    PROVE  InvoiceTo
<1>0. RefundTypeOK /\ WithinPaid
  BY DEF RefundInv
<1>1. CASE UNCHANGED refundVars
  BY <1>1 DEF refundVars, InvoiceTo
<1>2. ASSUME NEW l \in Legs, NEW i \in DOMAIN invoices, NEW minor \in Nat,
             NEW key \in KeyType, Reservation(l, i, minor, key)
      PROVE  InvoiceTo
  <2> DEFINE n == invoices[i].refunded + minor
  <2>1. invoices[i].refunded \in Nat /\ invoices[i].amount \in Nat
    BY <1>0, Elements DEF InvoiceType
  <2>2. n \in Nat /\ n <= invoices[i].amount
    BY <1>2, <2>1 DEF Reservation, Remaining
  <2>3. invoices' = [invoices EXCEPT ![i].refunded = n] /\ UNCHANGED revoked
    BY <1>2 DEF Reservation, Reserve
  <2> HIDE DEF n
  <2> QED BY <2>2, <2>3 DEF InvoiceTo
<1>3. ASSUME NEW l \in Legs, Release(l) PROVE InvoiceTo
  <2> DEFINE i == legs[l].inv
             n == Released(invoices[i], legs[l])
  <2>1. i \in DOMAIN invoices
    BY <1>0, <1>3, Elements DEF Release
  <2>2. /\ invoices[i].refunded \in Nat /\ invoices[i].amount \in Nat /\ legs[l].minor \in Nat
        /\ invoices[i].refunded <= invoices[i].amount
    BY <1>0, <2>1, Elements DEF InvoiceType, LegType, WithinPaid
  <2>3. n \in Nat /\ n <= invoices[i].amount
    BY <2>2 DEF Released
  <2>4. UNCHANGED revoked /\ (UNCHANGED invoices \/ invoices' = [invoices EXCEPT ![i].refunded = n])
    BY <1>3 DEF Release
  <2> HIDE DEF n, i
  <2> QED BY <2>1, <2>3, <2>4 DEF InvoiceTo
<1>4. ASSUME NEW l \in Legs, Settle(l) PROVE InvoiceTo
  <2> DEFINE i == legs[l].inv
  <2>1. i \in DOMAIN invoices
    BY <1>0, <1>4, Elements DEF Settle
  <2>2. UNCHANGED <<invoices, revoked>> \/ Flipped(i)
    BY <1>4 DEF Settle, Flips, Flipped
  <2> HIDE DEF i
  <2> QED BY <2>1, <2>2 DEF InvoiceTo
<1>5. ASSUME NEW l \in Legs,
             ScanRefunds(l) \/ RefundAccepted(l) \/ RefundThrows(l) \/ Crash(l)
      PROVE  InvoiceTo
  BY <1>5 DEF ScanRefunds, RefundAccepted, RefundThrows, Crash, InvoiceTo
<1>6. CASE ProviderStep
  BY <1>6 DEF ProviderStep, RequestLands, RefundCanceled, DayPasses, InvoiceTo
<1> QED BY <1>1, <1>2, <1>3, <1>4, <1>5, <1>6, Steps DEF LegStep

\* Invoices stay invoices, in their bounds, and are revoked once.
LEMMA InvoicesStep ==
    ASSUME RefundInv, [RefundNext]_refundVars
    PROVE  /\ invoices' \in Seq(InvoiceType) /\ revoked' \in Seq(Nat)
           /\ WithinPaid' /\ OnlyRenewal' /\ RevokedOnce'
<1>0. /\ RefundTypeOK /\ WithinPaid /\ OnlyRenewal /\ RevokedOnce
      /\ invoices \in Seq(InvoiceType) /\ revoked \in Seq(Nat)
  BY DEF RefundInv, RefundTypeOK
<1>1. CASE UNCHANGED <<invoices, revoked>>
  BY <1>0, <1>1 DEF WithinPaid, OnlyRenewal, RevokedOnce
<1>2. ASSUME NEW i \in DOMAIN invoices, NEW n \in Nat, n <= invoices[i].amount,
             invoices' = [invoices EXCEPT ![i].refunded = n], UNCHANGED revoked
      PROVE  /\ invoices' \in Seq(InvoiceType) /\ revoked' \in Seq(Nat)
             /\ WithinPaid' /\ OnlyRenewal' /\ RevokedOnce'
  <2> DEFINE inv == [invoices[i] EXCEPT !.refunded = n]
  <2>1. /\ inv \in InvoiceType /\ inv.refunded = n /\ inv.amount = invoices[i].amount
        /\ inv.event = invoices[i].event /\ inv.status = invoices[i].status
    BY <1>0, Elements DEF InvoiceType
  <2>2. invoices' = [invoices EXCEPT ![i] = inv]
    BY <1>2
  <2> HIDE DEF inv
  <2>3. /\ invoices' \in Seq(InvoiceType) /\ DOMAIN invoices' = DOMAIN invoices
        /\ invoices'[i] = inv
        /\ \A j \in DOMAIN invoices : j # i => invoices'[j] = invoices[j]
    BY <1>0, <2>1, <2>2, InvoiceWrite
  <2>4. WithinPaid' /\ OnlyRenewal' /\ RevokedOnce'
    BY <1>0, <1>2, <2>1, <2>3 DEF WithinPaid, OnlyRenewal, RevokedOnce
  <2> QED BY <1>0, <1>2, <2>3, <2>4
<1>3. ASSUME NEW i \in DOMAIN invoices, Flipped(i)
      PROVE  /\ invoices' \in Seq(InvoiceType) /\ revoked' \in Seq(Nat)
             /\ WithinPaid' /\ OnlyRenewal' /\ RevokedOnce'
  <2> DEFINE inv == [invoices[i] EXCEPT !.status = "refunded"]
  <2>1. /\ inv \in InvoiceType /\ inv.refunded = invoices[i].refunded
        /\ inv.amount = invoices[i].amount
        /\ inv.event = invoices[i].event /\ inv.status = "refunded"
    BY <1>0, Elements DEF InvoiceType
  <2>2. invoices' = [invoices EXCEPT ![i] = inv]
    BY <1>3 DEF Flipped
  <2> HIDE DEF inv
  <2>3. /\ invoices' \in Seq(InvoiceType) /\ DOMAIN invoices' = DOMAIN invoices
        /\ invoices'[i] = inv
        /\ \A j \in DOMAIN invoices : j # i => invoices'[j] = invoices[j]
    BY <1>0, <2>1, <2>2, InvoiceWrite
  <2>4. WithinPaid' /\ OnlyRenewal'
    BY <1>0, <2>1, <2>3 DEF WithinPaid, OnlyRenewal
  <2>5. i \in Nat /\ i = 1 /\ invoices[i].status = "paid" /\ invoices[i].event.what = "renewal"
    BY <1>0, <1>3, Elements DEF Flipped, OnlyRenewal
  <2>6. \A j \in DOMAIN revoked : revoked[j] # i
    BY <1>0, <2>5 DEF RevokedOnce
  <2>7. /\ revoked' \in Seq(Nat) /\ DOMAIN revoked' = 1 .. Len(revoked) + 1
        /\ revoked'[Len(revoked) + 1] = i /\ Len(revoked) + 1 \in DOMAIN revoked'
        /\ DOMAIN revoked = 1 .. Len(revoked)
        /\ \A j \in DOMAIN revoked : revoked'[j] = revoked[j]
    BY <1>0, <1>3, <2>5 DEF Flipped
  <2>8. RevokedOnce'
    <3>1. ASSUME NEW j \in DOMAIN revoked', NEW k \in DOMAIN revoked', revoked'[j] = revoked'[k]
          PROVE  j = k
      <4>1. j \in DOMAIN revoked \/ j = Len(revoked) + 1
        BY <2>7
      <4>2. k \in DOMAIN revoked \/ k = Len(revoked) + 1
        BY <2>7
      <4>3. \A a, b \in DOMAIN revoked : revoked[a] = revoked[b] => a = b
        BY <1>0 DEF RevokedOnce
      <4>4. CASE j \in DOMAIN revoked /\ k \in DOMAIN revoked
        BY <2>7, <3>1, <4>3, <4>4
      <4>5. CASE j \in DOMAIN revoked /\ k = Len(revoked) + 1
        BY <2>6, <2>7, <3>1, <4>5
      <4>6. CASE k \in DOMAIN revoked /\ j = Len(revoked) + 1
        BY <2>6, <2>7, <3>1, <4>6
      <4> QED BY <4>1, <4>2, <4>4, <4>5, <4>6
    <3>2. \A k \in DOMAIN invoices' : k = i
      BY <1>0, <2>3, <2>5 DEF OnlyRenewal
    <3>3. invoices'[i].status = "refunded" /\ \E j \in DOMAIN revoked' : revoked'[j] = i
      BY <2>1, <2>3, <2>7
    <3> QED BY <3>1, <3>2, <3>3 DEF RevokedOnce
  <2> QED BY <2>3, <2>4, <2>7, <2>8
<1>4. InvoiceTo
  BY InvoiceSteps
<1> QED BY <1>1, <1>2, <1>3, <1>4 DEF InvoiceTo

\* A leg that goes on keeps its reservation.
LEMMA GotoType ==
    ASSUME RefundTypeOK, NEW l \in Legs, NEW pc \in LegPcs, Goto(l, pc)
    PROVE  /\ legs' \in [Legs -> LegType]
           /\ legs'[l].pc = pc
           /\ \A k \in Legs : legs'[k].key = legs[k].key /\ legs'[k].inv = legs[k].inv
           /\ \A k \in Legs : k # l => legs'[k] = legs[k]
BY DEF Goto, RefundTypeOK, LegType

(* What a step does to the legs: a reservation, or one leg goes on.         *)
LegTo ==
    \/ UNCHANGED legs
    \/ /\ UNCHANGED <<refunds, landing>>
       /\ \E l \in Legs, i \in DOMAIN invoices, minor \in Nat, key \in KeyType, total \in Nat :
             legs' = [legs EXCEPT ![l] = [pc |-> "scan", inv |-> i, minor |-> minor,
                                          total |-> total, key |-> key]]
    \/ \E l \in Legs, pc \in LegPcs :
          /\ Goto(l, pc)
          /\ legs[l].pc # "idle" /\ pc # "idle"
          /\ pc = "create" => ~Found(legs[l].key) /\ UNCHANGED <<refunds, landing>>
          /\ pc \in {"issued", "done"} =>
                \/ legs[l].pc \in {"issued", "done"} /\ UNCHANGED refunds
                \/ Found(legs[l].key) /\ UNCHANGED refunds
                \/ legs[l].pc = "create" /\ Accept(Request(l))

\* Every step moves the legs in one of these ways.
LEMMA LegSteps ==
    ASSUME RefundInv, [RefundNext]_refundVars
    PROVE  LegTo
<1>0. RefundTypeOK
  BY DEF RefundInv
<1>1. CASE UNCHANGED refundVars
  BY <1>1 DEF refundVars, LegTo
<1>2. ASSUME NEW l \in Legs, NEW i \in DOMAIN invoices, NEW minor \in Nat,
             NEW key \in KeyType, Reservation(l, i, minor, key)
      PROVE  LegTo
  <2>1. invoices[i].refunded + minor \in Nat
    BY <1>0, Elements DEF InvoiceType
  <2> QED BY <1>2, <2>1 DEF Reservation, Reserve, LegTo
<1>3. ASSUME NEW l \in Legs, ScanRefunds(l) PROVE LegTo
  <2>1. \E pc \in {"issued", "create", "release"} :
           /\ Goto(l, pc) /\ legs[l].pc = "scan" /\ UNCHANGED <<refunds, landing>>
           /\ pc = "create" => ~Found(legs[l].key)
           /\ pc = "issued" => Found(legs[l].key)
    BY <1>3 DEF ScanRefunds
  <2> QED BY <2>1 DEF LegTo, LegPcs
<1>4. ASSUME NEW l \in Legs, RefundAccepted(l) PROVE LegTo
  BY <1>4 DEF RefundAccepted, LegTo, LegPcs
<1>5. ASSUME NEW l \in Legs, RefundThrows(l) \/ Release(l) \/ Crash(l) PROVE LegTo
  <2>1. \E pc \in {"release", "returned", "stranded"} : Goto(l, pc) /\ legs[l].pc # "idle"
    BY <1>5 DEF RefundThrows, Release, Crash
  <2> QED BY <2>1 DEF LegTo, LegPcs
<1>6. ASSUME NEW l \in Legs, Settle(l) PROVE LegTo
  BY <1>6 DEF Settle, LegTo, LegPcs
<1>7. CASE ProviderStep
  BY <1>7 DEF ProviderStep, RequestLands, RefundCanceled, DayPasses, LegTo
<1> QED BY <1>1, <1>2, <1>3, <1>4, <1>5, <1>6, <1>7, Steps DEF LegStep

(* What a step does to the refunds of the provider.                         *)
RefundTo ==
    \/ UNCHANGED refunds
    \/ \E new \in RefundType :
          /\ refunds' = Append(refunds, new)
          /\ Creating(new.key) /\ Remembered(new.key) = {}
          /\ new.state = "moved" /\ new.fresh
    \/ \E r \in DOMAIN refunds :
          /\ refunds' = [refunds EXCEPT ![r].state = "canceled"]
          /\ UNCHANGED <<legs, landing>>
    \/ /\ \A key \in KeyType : ~Creating(key)
       /\ refunds' = [r \in DOMAIN refunds |-> [refunds[r] EXCEPT !.fresh = FALSE]]
       /\ UNCHANGED <<legs, landing>>

\* Every step does one of these to the refunds, and adds to the requests under way
\* only that of a leg that was creating.
LEMMA RefundSteps ==
    ASSUME RefundInv, [RefundNext]_refundVars
    PROVE  /\ RefundTo
           /\ landing' \subseteq LandingType
           /\ \A req \in landing' : Creating(req.key)
<1> DEFINE Goal == /\ RefundTo
                   /\ landing' \subseteq LandingType
                   /\ \A req \in landing' : Creating(req.key)
<1>0. RefundTypeOK /\ landing \subseteq LandingType /\ refunds \in Seq(RefundType)
  BY DEF RefundInv, RefundTypeOK
<1>1. \A req \in landing : Creating(req.key)
  BY DEF Creating
<1>2. ASSUME NEW l \in Legs, legs[l].pc = "create"
      PROVE  Request(l) \in LandingType /\ Creating(Request(l).key)
  BY <1>0, <1>2, Elements DEF Request, LandingType, LegType, Creating
<1>3. ASSUME NEW req \in LandingType, Creating(req.key), Accept(req) PROVE RefundTo
  BY <1>0, <1>3, AcceptedRefund DEF RefundTo
<1>4. ASSUME UNCHANGED <<refunds, landing>> PROVE Goal
  BY <1>0, <1>1, <1>4 DEF RefundTo
<1>5. ASSUME NEW l \in Legs, RefundAccepted(l) PROVE Goal
  <2>1. legs[l].pc = "create" /\ Accept(Request(l)) /\ UNCHANGED landing
    BY <1>5 DEF RefundAccepted
  <2> QED BY <1>0, <1>1, <1>2, <1>3, <2>1
<1>6. ASSUME NEW l \in Legs, RefundThrows(l) PROVE Goal
  <2>1. /\ legs[l].pc = "create" /\ landing' \subseteq landing \cup {Request(l)}
        /\ UNCHANGED refunds
    BY <1>6 DEF RefundThrows
  <2> QED BY <1>0, <1>1, <1>2, <2>1 DEF RefundTo
<1>7. CASE RequestLands
  <2>1. PICK req \in landing :
           landing' = landing \ {req} /\ (Accept(req) \/ UNCHANGED refunds)
    BY <1>7 DEF RequestLands
  <2>2. RefundTo
    BY <1>0, <1>1, <1>3, <2>1 DEF RefundTo
  <2> QED BY <1>0, <1>1, <2>1, <2>2
<1>8. CASE RefundCanceled
  BY <1>0, <1>1, <1>8 DEF RefundCanceled, RefundTo
<1>9. CASE DayPasses
  <2>1. \A key \in KeyType : ~Creating(key)
    BY <1>9 DEF DayPasses, Creating
  <2>2. /\ refunds' = [r \in DOMAIN refunds |-> [refunds[r] EXCEPT !.fresh = FALSE]]
        /\ UNCHANGED <<legs, landing>>
    BY <1>9 DEF DayPasses
  <2> QED BY <1>0, <1>1, <2>1, <2>2 DEF RefundTo
<1> HIDE DEF Goal
<1>10. ASSUME NEW l \in Legs, NEW i \in DOMAIN invoices, NEW minor \in Nat,
              NEW key \in KeyType, Reservation(l, i, minor, key)
       PROVE  Goal
  BY <1>4, <1>10 DEF Reservation, Reserve
<1>11. ASSUME NEW l \in Legs, ScanRefunds(l) \/ Release(l) \/ Settle(l) \/ Crash(l)
       PROVE  Goal
  BY <1>4, <1>11 DEF ScanRefunds, Release, Settle, Crash
<1>12. ASSUME UNCHANGED refundVars PROVE Goal
  BY <1>4, <1>12 DEF refundVars
<1>13. Goal
  BY <1>5, <1>6, <1>7, <1>8, <1>9, <1>10, <1>11, <1>12, Steps DEF LegStep, ProviderStep, Goal
<1> QED BY <1>13 DEF Goal

----------------------------------------------------------------------------
(* Each part of the invariant is preserved. *)

\* Refunds stay refunds: none disappears or changes its key, and none becomes moved
\* again.
LEMMA RefundsKept ==
    ASSUME RefundInv, [RefundNext]_refundVars
    PROVE  /\ refunds' \in Seq(RefundType)
           /\ \A r \in DOMAIN refunds :
                 /\ r \in DOMAIN refunds' /\ refunds'[r].key = refunds[r].key
                 /\ refunds'[r].state = "moved" => refunds[r].state = "moved"
<1>0. refunds \in Seq(RefundType)
  BY DEF RefundInv, RefundTypeOK
<1>1. \A r \in DOMAIN refunds : refunds[r] \in RefundType
  BY <1>0
<1>2. CASE UNCHANGED refunds
  BY <1>0, <1>2
<1>3. ASSUME NEW new \in RefundType, refunds' = Append(refunds, new)
      PROVE  /\ refunds' \in Seq(RefundType)
             /\ \A r \in DOMAIN refunds : r \in DOMAIN refunds' /\ refunds'[r] = refunds[r]
  BY <1>0, <1>3
<1>4. ASSUME NEW r \in DOMAIN refunds, refunds' = [refunds EXCEPT ![r].state = "canceled"]
      PROVE  /\ refunds' \in Seq(RefundType)
             /\ \A q \in DOMAIN refunds :
                  /\ q \in DOMAIN refunds' /\ refunds'[q].key = refunds[q].key
                  /\ refunds'[q].state = "moved" => refunds[q].state = "moved"
  <2> DEFINE new == [refunds[r] EXCEPT !.state = "canceled"]
  <2>1. new \in RefundType /\ new.key = refunds[r].key /\ new.state = "canceled"
    BY <1>1 DEF RefundType
  <2>2. refunds' = [refunds EXCEPT ![r] = new]
    BY <1>4
  <2> HIDE DEF new
  <2> QED BY <1>0, <2>1, <2>2
<1>5. ASSUME refunds' = [r \in DOMAIN refunds |-> [refunds[r] EXCEPT !.fresh = FALSE]]
      PROVE  /\ refunds' \in Seq(RefundType)
             /\ \A q \in DOMAIN refunds :
                  /\ q \in DOMAIN refunds' /\ refunds'[q].key = refunds[q].key
                  /\ refunds'[q].state = "moved" => refunds[q].state = "moved"
  <2>1. DOMAIN refunds' = 1 .. Len(refunds) /\ DOMAIN refunds = 1 .. Len(refunds)
        /\ Len(refunds) \in Nat
    BY <1>0, <1>5
  <2>2. \A q \in DOMAIN refunds :
           /\ refunds'[q] \in RefundType
           /\ refunds'[q].key = refunds[q].key /\ refunds'[q].state = refunds[q].state
    BY <1>1, <1>5 DEF RefundType
  <2>3. refunds' \in [1 .. Len(refunds) -> RefundType]
    BY <1>5, <2>1, <2>2
  <2>4. refunds' \in Seq(RefundType)
    BY <2>1, <2>3
  <2> QED BY <2>1, <2>2, <2>4
<1>6. RefundTo
  BY RefundSteps
<1> QED BY <1>2, <1>3, <1>4, <1>5, <1>6 DEF RefundTo

\* A key under which a request may be sent after a step was one before, or was just
\* looked for and not found.
LEMMA CreatingStep ==
    ASSUME RefundInv, [RefundNext]_refundVars, NEW key, Creating(key)'
    PROVE  Creating(key) \/ (~Found(key) /\ UNCHANGED <<refunds, landing>>)
<1>0. RefundTypeOK
  BY DEF RefundInv
<1>1. CASE \E req \in landing' : req.key = key
  BY <1>1, RefundSteps
<1>2. ASSUME NEW l \in Legs, legs'[l].pc = "create", legs'[l].key = key
      PROVE  Creating(key) \/ (~Found(key) /\ UNCHANGED <<refunds, landing>>)
  <2>1. CASE legs'[l] = legs[l]
    BY <1>2, <2>1 DEF Creating
  <2>2. ASSUME NEW k \in Legs, NEW pc \in LegPcs, Goto(k, pc),
               pc = "create" => ~Found(legs[k].key) /\ UNCHANGED <<refunds, landing>>
        PROVE  Creating(key) \/ (~Found(key) /\ UNCHANGED <<refunds, landing>>)
    <3>1. legs'[k].pc = pc /\ legs'[k].key = legs[k].key /\ (l # k => legs'[l] = legs[l])
      BY <1>0, <2>2, GotoType
    <3> QED BY <1>2, <2>1, <2>2, <3>1
  <2>3. ASSUME NEW k \in Legs, NEW new, new.pc = "scan", legs' = [legs EXCEPT ![k] = new]
        PROVE  legs'[l] = legs[l]
    BY <1>0, <1>2, <2>3 DEF RefundTypeOK
  <2>4. LegTo
    BY LegSteps
  <2> QED BY <2>1, <2>2, <2>3, <2>4 DEF LegTo
<1> QED BY <1>1, <1>2 DEF Creating

\* What is moved under a key that may be sent is still remembered, and no key moves
\* money twice.
LEMMA KeysStep ==
    ASSUME RefundInv, [RefundNext]_refundVars
    PROVE  MovedAreRemembered' /\ MovedOncePerKey'
<1>0. /\ RefundTypeOK /\ MovedAreRemembered /\ MovedOncePerKey
      /\ refunds \in Seq(RefundType) /\ \A r \in DOMAIN refunds : refunds[r] \in RefundType
  BY Elements DEF RefundInv, RefundTypeOK
<1>1. CASE UNCHANGED refunds
  <2>1. ASSUME NEW r \in DOMAIN refunds, refunds[r].state = "moved", Creating(refunds[r].key)'
        PROVE  refunds[r].fresh
    <3>1. PICK key : key = refunds[r].key
      OBVIOUS
    <3>2. Creating(key)'
      BY <1>1, <2>1, <3>1 DEF Creating
    <3>3. Creating(key)
      BY <2>1, <3>1, <3>2, CreatingStep DEF Found
    <3> QED BY <1>0, <2>1, <3>1, <3>3 DEF MovedAreRemembered
  <2> QED BY <1>0, <1>1, <2>1 DEF MovedAreRemembered, MovedOncePerKey
<1>2. ASSUME NEW new \in RefundType, refunds' = Append(refunds, new), Creating(new.key),
             Remembered(new.key) = {}, new.state = "moved", new.fresh
      PROVE  MovedAreRemembered' /\ MovedOncePerKey'
  <2>1. \A r \in DOMAIN refunds : refunds[r].key = new.key => refunds[r].state # "moved"
    BY <1>0, <1>2 DEF MovedAreRemembered, Remembered
  <2>2. /\ DOMAIN refunds' = 1 .. Len(refunds) + 1 /\ DOMAIN refunds = 1 .. Len(refunds)
        /\ refunds'[Len(refunds) + 1] = new /\ Len(refunds) \in Nat
        /\ \A r \in DOMAIN refunds : refunds'[r] = refunds[r]
    BY <1>0, <1>2
  <2>3. \A r \in DOMAIN refunds' : r \in DOMAIN refunds \/ r = Len(refunds) + 1
    BY <2>2
  <2>4. ~UNCHANGED refunds
    <3>1. Len(refunds) + 1 \in DOMAIN refunds' /\ Len(refunds) + 1 \notin DOMAIN refunds
      BY <2>2
    <3> QED BY <3>1
  <2>5. ASSUME NEW r \in DOMAIN refunds', refunds'[r].state = "moved", Creating(refunds[r].key)'
        PROVE  refunds'[r].fresh
    <3>1. CASE r = Len(refunds) + 1
      BY <1>2, <2>2, <3>1
    <3>2. CASE r \in DOMAIN refunds
      <4>1. PICK key : key = refunds[r].key
        OBVIOUS
      <4>2. refunds'[r] = refunds[r]
        BY <2>2, <3>2
      <4>3. Creating(key)'
        BY <2>5, <4>1, <4>2 DEF Creating
      <4>4. Creating(key)
        BY <2>4, <4>3, CreatingStep
      <4> QED BY <1>0, <2>5, <3>2, <4>1, <4>2, <4>4 DEF MovedAreRemembered
    <3> QED BY <2>3, <3>1, <3>2
  <2>6. MovedOncePerKey'
    <3>1. \A q, r \in DOMAIN refunds :
             /\ refunds[q].key = refunds[r].key
             /\ refunds[q].state = "moved" /\ refunds[r].state = "moved"
             => q = r
      BY <1>0 DEF MovedOncePerKey
    <3>2. ASSUME NEW q \in DOMAIN refunds', NEW r \in DOMAIN refunds',
                 refunds'[q].key = refunds'[r].key,
                 refunds'[q].state = "moved", refunds'[r].state = "moved"
          PROVE  q = r
      <4>1. CASE q \in DOMAIN refunds /\ r \in DOMAIN refunds
        BY <2>2, <3>1, <3>2, <4>1
      <4>2. CASE q \in DOMAIN refunds /\ r = Len(refunds) + 1
        BY <2>1, <2>2, <3>2, <4>2
      <4>3. CASE r \in DOMAIN refunds /\ q = Len(refunds) + 1
        BY <2>1, <2>2, <3>2, <4>3
      <4> QED BY <2>3, <4>1, <4>2, <4>3
    <3> QED BY <3>2 DEF MovedOncePerKey
  <2> QED BY <2>5, <2>6 DEF MovedAreRemembered
<1>3. ASSUME NEW q \in DOMAIN refunds,
             refunds' = [refunds EXCEPT ![q].state = "canceled"], UNCHANGED <<legs, landing>>
      PROVE  MovedAreRemembered' /\ MovedOncePerKey'
  <2>1. DOMAIN refunds' = DOMAIN refunds
    BY <1>3
  <2>2. \A r \in DOMAIN refunds :
           /\ refunds'[r].key = refunds[r].key /\ refunds'[r].fresh = refunds[r].fresh
           /\ refunds'[r].state = "moved" => refunds[r].state = "moved"
    BY <1>0, <1>3 DEF RefundType
  <2>3. \A r \in DOMAIN refunds : Creating(refunds[r].key)' => Creating(refunds[r].key)
    BY <1>3, <2>2 DEF Creating
  <2> QED BY <1>0, <2>1, <2>2, <2>3 DEF MovedAreRemembered, MovedOncePerKey
<1>4. ASSUME \A key \in KeyType : ~Creating(key),
             refunds' = [r \in DOMAIN refunds |-> [refunds[r] EXCEPT !.fresh = FALSE]],
             UNCHANGED <<legs, landing>>
      PROVE  MovedAreRemembered' /\ MovedOncePerKey'
  <2>1. DOMAIN refunds' = DOMAIN refunds
    BY <1>4
  <2>2. \A r \in DOMAIN refunds :
           /\ refunds'[r].key = refunds[r].key /\ refunds'[r].state = refunds[r].state
           /\ refunds[r].key \in KeyType
    BY <1>0, <1>4 DEF RefundType
  <2>3. \A r \in DOMAIN refunds : ~Creating(refunds[r].key)'
    BY <1>4, <2>2 DEF Creating
  <2> QED BY <1>0, <2>1, <2>2, <2>3 DEF MovedAreRemembered, MovedOncePerKey
<1>5. RefundTo
  BY RefundSteps
<1> QED BY <1>1, <1>2, <1>3, <1>4, <1>5 DEF RefundTo

\* Legs stay legs, and one that counts as issued has a refund under its key.
LEMMA LegsStep ==
    ASSUME RefundInv, [RefundNext]_refundVars
    PROVE  /\ legs' \in [Legs -> LegType]
           /\ \A l \in Legs : legs'[l].pc # "idle" => legs'[l].inv \in DOMAIN invoices
           /\ IssuedIsAccepted'
<1> DEFINE Accepted(key) == \E r \in DOMAIN refunds' : refunds'[r].key = key
           Goal == /\ legs' \in [Legs -> LegType]
                   /\ \A l \in Legs : legs'[l].pc # "idle" => legs'[l].inv \in DOMAIN invoices
                   /\ \A l \in Legs : legs'[l].pc \in {"issued", "done"} => Accepted(legs'[l].key)
<1>0. /\ RefundTypeOK /\ legs \in [Legs -> LegType] /\ refunds \in Seq(RefundType)
      /\ \A l \in Legs : legs[l].pc # "idle" => legs[l].inv \in DOMAIN invoices
  BY Elements DEF RefundInv, RefundTypeOK
<1>1. \A l \in Legs : legs[l].pc \in {"issued", "done"} => Accepted(legs[l].key)
  <2>1. IssuedIsAccepted
    BY DEF RefundInv
  <2> QED BY <2>1, RefundsKept DEF IssuedIsAccepted
<1>2. \A key : Found(key) => Accepted(key)
  BY RefundsKept DEF Found
<1> HIDE DEF Accepted
<1>3. ASSUME UNCHANGED legs PROVE Goal
  BY <1>0, <1>1, <1>3
<1>4. ASSUME NEW l \in Legs, NEW i \in DOMAIN invoices, NEW minor \in Nat,
             NEW key \in KeyType, NEW total \in Nat,
             legs' = [legs EXCEPT ![l] = [pc |-> "scan", inv |-> i, minor |-> minor,
                                          total |-> total, key |-> key]]
      PROVE  Goal
  <2> DEFINE leg == [pc |-> "scan", inv |-> i, minor |-> minor, total |-> total, key |-> key]
  <2>1. leg \in LegType /\ leg.pc = "scan" /\ leg.inv = i
    BY <1>0, Elements DEF LegType, LegPcs
  <2>2. legs' = [legs EXCEPT ![l] = leg]
    BY <1>4
  <2> HIDE DEF leg
  <2> QED BY <1>0, <1>1, <2>1, <2>2
<1>5. ASSUME NEW l \in Legs, NEW pc \in LegPcs, Goto(l, pc), legs[l].pc # "idle",
             pc \in {"issued", "done"} =>
                \/ legs[l].pc \in {"issued", "done"} /\ UNCHANGED refunds
                \/ Found(legs[l].key) /\ UNCHANGED refunds
                \/ legs[l].pc = "create" /\ Accept(Request(l))
      PROVE  Goal
  <2>1. /\ legs' \in [Legs -> LegType] /\ legs'[l].pc = pc
        /\ \A k \in Legs : legs'[k].key = legs[k].key /\ legs'[k].inv = legs[k].inv
        /\ \A k \in Legs : k # l => legs'[k] = legs[k]
    BY <1>0, <1>5, GotoType
  <2>2. Accept(Request(l)) => Accepted(legs[l].key)
    <3>1. Request(l) \in LandingType /\ Request(l).key = legs[l].key
      BY <1>0, Elements DEF Request, LandingType, LegType
    <3>2. CASE UNCHANGED refunds /\ Remembered(Request(l).key) # {}
      BY <3>1, <3>2 DEF Remembered, Accepted
    <3>3. CASE \E new \in RefundType :
                  refunds' = Append(refunds, new) /\ new.key = Request(l).key
      BY <1>0, <3>1, <3>3 DEF Accepted
    <3> QED BY <1>0, <3>1, <3>2, <3>3, AcceptedRefund
  <2>3. pc \in {"issued", "done"} => Accepted(legs[l].key)
    BY <1>1, <1>2, <1>5, <2>2
  <2> QED BY <1>0, <1>1, <1>5, <2>1, <2>3
<1>6. LegTo
  BY LegSteps
<1> HIDE DEF Goal
<1>7. Goal
  BY <1>3, <1>4, <1>5, <1>6 DEF LegTo
<1> QED BY <1>7 DEF Goal, Accepted, IssuedIsAccepted

\* The invariant is inductive.
LEMMA InvariantStep == RefundInv /\ [RefundNext]_refundVars => RefundInv'
<1> SUFFICES ASSUME RefundInv, [RefundNext]_refundVars PROVE RefundInv'
  OBVIOUS
<1>1. DOMAIN invoices' = DOMAIN invoices
  BY InvoicesStep DEF OnlyRenewal, RefundInv
<1>2. crashes' \in Nat
  <2>1. crashes \in Nat
    BY DEF RefundInv, RefundTypeOK
  <2>2. UNCHANGED crashes \/ crashes' = crashes + 1
    BY Steps DEF refundVars, Reservation, Reserve, LegStep, ScanRefunds, RefundAccepted,
       RefundThrows, Release, Settle, Crash, ProviderStep, RequestLands, RefundCanceled,
       DayPasses
  <2> QED BY <2>1, <2>2
<1>3. RefundTypeOK'
  BY <1>1, <1>2, InvoicesStep, LegsStep, RefundsKept, RefundSteps DEF RefundTypeOK
<1> QED BY <1>3, InvoicesStep, KeysStep, LegsStep DEF RefundInv

----------------------------------------------------------------------------
(* The theorems. *)

\* Every reachable state of the refunds is well typed.
THEOREM RefundTypeCorrect == RefundSpec => []RefundTypeOK
<1>1. RefundInv => RefundTypeOK
  BY DEF RefundInv
<1> QED BY <1>1, InitEstablishes, InvariantStep, PTL DEF RefundSpec

\* However reservations and releases overlap, fail and crash, an invoice never shows
\* more refunded than was paid (utils/refund-reservation.util.ts).
THEOREM RefundsAreWithinPaid == RefundSpec => []WithinPaid
<1>1. RefundInv => WithinPaid
  BY DEF RefundInv
<1> QED BY <1>1, InitEstablishes, InvariantStep, PTL DEF RefundSpec

\* A key never moves money twice: a retry is caught by the key store of the provider,
\* or by the scan of the descriptions when the store has forgotten.
THEOREM KeysMoveOnce == RefundSpec => []MovedOncePerKey
<1>1. RefundInv => MovedOncePerKey
  BY DEF RefundInv
<1> QED BY <1>1, InitEstablishes, InvariantStep, PTL DEF RefundSpec

\* What a leg counts as paid out was accepted by the provider under its key.
THEOREM IssuedWasAccepted == RefundSpec => []IssuedIsAccepted
<1>1. RefundInv => IssuedIsAccepted
  BY DEF RefundInv
<1> QED BY <1>1, InitEstablishes, InvariantStep, PTL DEF RefundSpec

\* Grants and credits are taken back once, and exactly when the row is flipped
\* (services/billing-admin.service.ts).
THEOREM GrantsRevokedOnce == RefundSpec => []RevokedOnce
<1>1. RefundInv => RevokedOnce
  BY DEF RefundInv
<1> QED BY <1>1, InitEstablishes, InvariantStep, PTL DEF RefundSpec

----------------------------------------------------------------------------
(* Plan changes: the inductive invariant. *)

(* The rows are never refunded beyond what was paid, and a row is flipped  *)
(* when its grants were taken back, once; the row a change writes for its  *)
(* own refund is born refunded.                                            *)
Sound(rows, back) ==
    /\ rows \in Seq(InvoiceType) /\ back \in Seq(Nat)
    /\ \A i \in DOMAIN rows : rows[i].refunded <= rows[i].amount
    /\ \A j \in DOMAIN back : back[j] \in DOMAIN rows
    /\ \A j, k \in DOMAIN back : back[j] = back[k] => j = k
    /\ \A i \in DOMAIN rows :
          IF rows[i].event.what = "change-refund"
          THEN rows[i].status = "refunded"
          ELSE rows[i].status = "refunded" <=> \E j \in DOMAIN back : back[j] = i

(* The steps of one change: money is asked for after the claim and once,   *)
(* the claim is the latest as long as the row carries its version, and     *)
(* what was asked for is on the invoices in the end.                       *)
Claimed(c) == changes[c].pc \in {"charge", "refund", "call", "commit"}
Over(c)    == changes[c].pc \in {"switched", "refused"}

ChangeSound(c) ==
    /\ changes[c].pc # "idle" => changes[c].to \in Plans
    /\ changes[c].pc \in {"idle", "claim", "charge"} => changes[c].state = "none"
    /\ changes[c].pc \in {"idle", "claim", "charge", "refund"} => legs[c].pc = "idle"
    /\ changes[c].pc = "call" => legs[c].pc # "idle"
    /\ legs[c].pc = "done" => Over(c)
    /\ Claimed(c) => /\ changes[c].version <= sub.version
                     /\ changes[c].version = sub.version => claimant = c
    /\ Over(c) => /\ changes[c].state # "none" => Recorded(OwnCharge(c)) \/ crashes > 0
                  /\ legs[c].pc = "done" => Recorded(OwnRefund(c))

ChangeInv ==
    /\ TypeOK
    /\ Sound(invoices, revoked)
    /\ \A c \in Changes : ChangeSound(c)
    /\ MovedOncePerKey

----------------------------------------------------------------------------
(* The invoices. *)

(* Rows are added at the end and keep what they are for.                   *)
Grown(rows, more) ==
    /\ DOMAIN rows \subseteq DOMAIN more
    /\ \A i \in DOMAIN rows : more[i].event = rows[i].event

\* A row that is added.
LEMMA AddedRow ==
    ASSUME NEW rows, NEW back, Sound(rows, back), NEW row \in InvoiceType,
           row.refunded = 0, row.status = "refunded" <=> row.event.what = "change-refund"
    PROVE  /\ Sound(Append(rows, row), back) /\ Grown(rows, Append(rows, row))
           /\ \E i \in DOMAIN Append(rows, row) : Append(rows, row)[i].event = row.event
<1> DEFINE more == Append(rows, row)
<1>1. rows \in Seq(InvoiceType) /\ Len(rows) \in Nat
  BY DEF Sound
<1>2. /\ more \in Seq(InvoiceType) /\ DOMAIN more = 1..(Len(rows) + 1)
      /\ DOMAIN rows = 1..Len(rows) /\ more[Len(rows) + 1] = row
      /\ \A i \in DOMAIN rows : more[i] = rows[i]
  BY <1>1
<1>3. \A i \in DOMAIN more : i \in DOMAIN rows \/ (i = Len(rows) + 1 /\ i \notin DOMAIN rows)
  BY <1>1, <1>2
<1>4. row.refunded <= row.amount
  BY DEF InvoiceType
<1> HIDE DEF more
<1>5. Sound(more, back)
  <2>1. \A i \in DOMAIN more : more[i].refunded <= more[i].amount
    BY <1>2, <1>3, <1>4 DEF Sound
  <2>2. \A j \in DOMAIN back : back[j] \in DOMAIN rows /\ back[j] \in DOMAIN more
    BY <1>1, <1>2 DEF Sound
  <2>3. ASSUME NEW i \in DOMAIN more
        PROVE  IF more[i].event.what = "change-refund"
               THEN more[i].status = "refunded"
               ELSE more[i].status = "refunded" <=> \E j \in DOMAIN back : back[j] = i
    <3>1. CASE i \in DOMAIN rows
      BY <1>2, <3>1 DEF Sound
    <3>2. CASE i = Len(rows) + 1 /\ i \notin DOMAIN rows
      BY <1>2, <2>2, <3>2
    <3> QED BY <1>3, <3>1, <3>2
  <2> QED BY <1>2, <2>1, <2>2, <2>3 DEF Sound
<1>6. Grown(rows, more)
  BY <1>1, <1>2 DEF Grown
<1>7. \E i \in DOMAIN more : more[i].event = row.event
  BY <1>1, <1>2
<1> QED BY <1>5, <1>6, <1>7 DEF more

\* A row that is inserted unless there is one with its key.
LEMMA InsertedRow ==
    ASSUME NEW rows, NEW back, Sound(rows, back), NEW row \in InvoiceType,
           row.refunded = 0, row.status = "refunded" <=> row.event.what = "change-refund"
    PROVE  /\ Sound(Inserted(rows, row), back) /\ Grown(rows, Inserted(rows, row))
           /\ \E i \in DOMAIN Inserted(rows, row) : Inserted(rows, row)[i].event = row.event
<1>1. CASE \E i \in DOMAIN rows : rows[i].event = row.event
  BY <1>1 DEF Inserted, Grown
<1>2. CASE ~\E i \in DOMAIN rows : rows[i].event = row.event
  BY <1>2, AddedRow DEF Inserted
<1> QED BY <1>1, <1>2

\* A row that is written in place, and not flipped.
LEMMA WrittenRow ==
    ASSUME NEW rows, NEW back, Sound(rows, back), NEW i \in DOMAIN rows, NEW row \in InvoiceType,
           row.event = rows[i].event, row.refunded <= row.amount,
           \/ row.status = rows[i].status
           \/ rows[i].status # "refunded" /\ row.status # "refunded"
    PROVE  LET more == [rows EXCEPT ![i] = row] IN Sound(more, back) /\ Grown(rows, more)
<1> DEFINE more == [rows EXCEPT ![i] = row]
<1>1. rows \in Seq(InvoiceType)
  BY DEF Sound
<1>2. /\ more \in Seq(InvoiceType) /\ DOMAIN more = DOMAIN rows /\ more[i] = row
      /\ \A j \in DOMAIN rows : j # i => more[j] = rows[j]
  BY <1>1
<1> HIDE DEF more
<1>3. /\ more[i].event = rows[i].event
      /\ more[i].status = "refunded" <=> rows[i].status = "refunded"
  BY <1>2
<1>4. Sound(more, back)
  <2>1. \A j \in DOMAIN more : more[j].refunded <= more[j].amount
    BY <1>2 DEF Sound
  <2>2. ASSUME NEW j \in DOMAIN more
        PROVE  IF more[j].event.what = "change-refund"
               THEN more[j].status = "refunded"
               ELSE more[j].status = "refunded" <=> \E k \in DOMAIN back : back[k] = j
    <3>1. /\ more[j].event = rows[j].event /\ j \in DOMAIN rows
          /\ more[j].status = "refunded" <=> rows[j].status = "refunded"
      BY <1>2, <1>3
    <3> QED BY <3>1 DEF Sound
  <2> QED BY <1>2, <2>1, <2>2 DEF Sound
<1>5. Grown(rows, more)
  BY <1>2 DEF Grown
<1> QED BY <1>4, <1>5 DEF more

\* A row that is flipped, and its grants taken back.
LEMMA FlippedRow ==
    ASSUME NEW rows, NEW back, Sound(rows, back), NEW i \in DOMAIN rows, NEW row \in InvoiceType,
           row.event = rows[i].event, row.refunded <= row.amount,
           rows[i].status # "refunded", row.status = "refunded"
    PROVE  LET more == [rows EXCEPT ![i] = row]
           IN  Sound(more, Append(back, i)) /\ Grown(rows, more)
<1> DEFINE more  == [rows EXCEPT ![i] = row]
           again == Append(back, i)
<1>1. rows \in Seq(InvoiceType) /\ back \in Seq(Nat)
  BY DEF Sound
<1>2. /\ more \in Seq(InvoiceType) /\ DOMAIN more = DOMAIN rows /\ more[i] = row
      /\ \A j \in DOMAIN rows : j # i => more[j] = rows[j]
  BY <1>1
<1>3. /\ again \in Seq(Nat) /\ again[Len(back) + 1] = i /\ Len(back) + 1 \in DOMAIN again
      /\ \A k \in DOMAIN back : k \in DOMAIN again /\ again[k] = back[k]
      /\ \A k \in DOMAIN again : k \in DOMAIN back \/ k = Len(back) + 1
  <2>1. i \in Nat /\ Len(back) \in Nat /\ DOMAIN back = 1..Len(back)
    BY <1>1
  <2>2. /\ again \in Seq(Nat) /\ DOMAIN again = 1..(Len(back) + 1)
        /\ again[Len(back) + 1] = i /\ \A k \in 1..Len(back) : again[k] = back[k]
    BY <1>1, <2>1
  <2> HIDE DEF again
  <2> QED BY <2>1, <2>2
<1> HIDE DEF more, again
<1>4. rows[i].event.what # "change-refund" /\ ~\E k \in DOMAIN back : back[k] = i
  BY DEF Sound
<1>5. Sound(more, again)
  <2>1. \A j \in DOMAIN more : more[j].refunded <= more[j].amount
    BY <1>2 DEF Sound
  <2>2. \A k \in DOMAIN again : again[k] \in DOMAIN more
    BY <1>2, <1>3 DEF Sound
  <2>3. ASSUME NEW j \in DOMAIN again, NEW k \in DOMAIN again, again[j] = again[k]
        PROVE  j = k
    <3>1. CASE j \in DOMAIN back /\ k \in DOMAIN back
      BY <1>3, <2>3, <3>1 DEF Sound
    <3>2. CASE j \notin DOMAIN back
      <4>1. again[k] = i
        BY <1>3, <2>3, <3>2
      <4>2. k \notin DOMAIN back
        BY <1>3, <1>4, <4>1
      <4> QED BY <1>3, <3>2, <4>2
    <3>3. CASE k \notin DOMAIN back
      <4>1. again[j] = i
        BY <1>3, <2>3, <3>3
      <4>2. j \notin DOMAIN back
        BY <1>3, <1>4, <4>1
      <4> QED BY <1>3, <3>3, <4>2
    <3> QED BY <3>1, <3>2, <3>3
  <2>4. ASSUME NEW j \in DOMAIN more
        PROVE  IF more[j].event.what = "change-refund"
               THEN more[j].status = "refunded"
               ELSE more[j].status = "refunded" <=> \E k \in DOMAIN again : again[k] = j
    <3>1. CASE j = i
      BY <1>2, <1>3, <1>4, <3>1
    <3>2. CASE j # i
      <4>1. (\E k \in DOMAIN again : again[k] = j) <=> \E k \in DOMAIN back : back[k] = j
        BY <1>3, <3>2
      <4> QED BY <1>2, <3>2, <4>1 DEF Sound
    <3> QED BY <3>1, <3>2
  <2> QED BY <1>2, <1>3, <2>1, <2>2, <2>3, <2>4 DEF Sound
<1>6. Grown(rows, more)
  BY <1>2 DEF Grown
<1> QED BY <1>5, <1>6 DEF more, again

----------------------------------------------------------------------------
(* What the steps use. *)

\* The keys, and the rows that carry them.
LEMMA ChangeKeys ==
    /\ \A n \in Nat : RenewalKey(n) \in KeyType /\ RenewalKey(n).what = "renewal"
    /\ \A to \in Plans \cup {""}, n \in Nat :
          /\ ChargeKey(to, n) \in KeyType /\ ChargeKey(to, n).what = "change-charge"
          /\ ChangeKey(to, n) \in KeyType /\ ChangeKey(to, n).what = "change-refund"
BY DEF RenewalKey, ChargeKey, ChangeKey, KeyType

LEMMA NewRow ==
    ASSUME NEW event \in KeyType, NEW amount \in Nat,
           NEW status \in {"pending", "paid", "failed", "refunded"}
    PROVE  /\ NewInvoice(event, amount, status) \in InvoiceType
           /\ NewInvoice(event, amount, status).event = event
           /\ NewInvoice(event, amount, status).refunded = 0
           /\ NewInvoice(event, amount, status).status = status
BY DEF NewInvoice, InvoiceType

\* The parts of a well-typed state.
LEMMA ChangeParts ==
    ASSUME ChangeInv
    PROVE  /\ invoices \in Seq(InvoiceType) /\ revoked \in Seq(Nat)
           /\ \A i \in DOMAIN invoices : /\ invoices[i] \in InvoiceType /\ i \in Nat
                                        /\ invoices[i].refunded <= invoices[i].amount
           /\ legs \in [Legs -> LegType] /\ changes \in [Changes -> ChangeType]
           /\ \A c \in Changes : /\ c \in Legs /\ legs[c] \in LegType
                                 /\ changes[c] \in ChangeType
                                 /\ legs[c].pc # "idle" => legs[c].inv \in DOMAIN invoices
           /\ refunds \in Seq(RefundType) /\ charges \in Seq(ChargeType)
           /\ landing \subseteq LandingType /\ crashes \in Nat /\ sub \in SubType
           /\ claimant \in Changes \cup {NoClaimant} /\ writes \in Nat
BY DEF ChangeInv, TypeOK, RefundTypeOK, Sound, Legs

LEMMA OwnKeys ==
    ASSUME ChangeInv, NEW c \in Changes
    PROVE  /\ OwnCharge(c) \in KeyType /\ OwnCharge(c).what = "change-charge"
           /\ OwnRefund(c) \in KeyType /\ OwnRefund(c).what = "change-refund"
<1>1. changes[c].to \in Plans \cup {""} /\ changes[c].period \in Nat
  BY ChangeParts DEF ChangeType
<1> QED BY <1>1, ChangeKeys DEF OwnCharge, OwnRefund

\* The latest paid invoice is one of the invoices.
LEMMA LatestSource ==
    ASSUME ChangeInv, Sources # {}
    PROVE  Max(Sources) \in DOMAIN invoices /\ invoices[Max(Sources)].status = "paid"
<1> DEFINE less == OpToRel(<, Nat)
           mirrored == {Len(invoices) - i : i \in Sources}
<1>0. invoices \in Seq(InvoiceType)
  BY ChangeParts
<1>1. IsWellFoundedOn(less, Nat)
  BY NatLessThanWellFounded
<1>2. Sources \subseteq 1..Len(invoices) /\ Len(invoices) \in Nat
  BY <1>0 DEF Sources
<1>3. mirrored \subseteq Nat /\ mirrored # {}
  <2>1. \A i \in Sources : Len(invoices) - i \in Nat
    BY <1>2
  <2>2. PICK i \in Sources : TRUE
    OBVIOUS
  <2> QED BY <2>1, <2>2
<1>4. \A a, b \in Nat : a < b => <<a, b>> \in less
  BY DEF OpToRel
<1> HIDE DEF less
<1>5. PICK x \in mirrored : \A y \in mirrored : ~(<<y, x>> \in less)
  BY <1>1, <1>3, WFMin
<1>6. PICK m \in Sources : x = Len(invoices) - m
  OBVIOUS
<1>7. \A i \in Sources : ~(Len(invoices) - i < Len(invoices) - m)
  BY <1>3, <1>4, <1>5, <1>6
<1>8. \A i \in Sources : m >= i
  BY <1>2, <1>7
<1>9. Max(Sources) \in Sources
  BY <1>8 DEF Max
<1> QED BY <1>9 DEF Sources

\* A refund that is accepted under a key none was found with.
LEMMA FirstUnderKey ==
    ASSUME refunds \in Seq(RefundType), MovedOncePerKey, NEW req \in LandingType,
           Accept(req), ~Found(req.key)
    PROVE  refunds' \in Seq(RefundType) /\ MovedOncePerKey'
<1>1. CASE UNCHANGED refunds
  BY <1>1 DEF MovedOncePerKey
<1>2. CASE ~UNCHANGED refunds
  <2>1. PICK new \in RefundType : refunds' = Append(refunds, new) /\ new.key = req.key
    BY <1>2, AcceptedRefund
  <2>2. /\ refunds' \in Seq(RefundType) /\ refunds'[Len(refunds) + 1] = new
        /\ \A r \in DOMAIN refunds : refunds'[r] = refunds[r]
        /\ \A r \in DOMAIN refunds' : r \in DOMAIN refunds \/ r = Len(refunds) + 1
    BY <2>1
  <2>3. \A r \in DOMAIN refunds : refunds[r].key = new.key => refunds[r].state # "moved"
    BY <2>1 DEF Found
  <2> QED BY <2>2, <2>3 DEF MovedOncePerKey
<1> QED BY <1>1, <1>2

----------------------------------------------------------------------------
(* The invoices stay sound. *)

RowsKept == Sound(invoices', revoked') /\ Grown(invoices, invoices')

\* The change reserves its refund.
LEMMA StartKeepsRows ==
    ASSUME ChangeInv, NEW c \in Changes, StartRefund(c)
    PROVE  /\ RowsKept
           /\ UNCHANGED <<refunds, landing, revoked, crashes>>
           /\ \/ UNCHANGED legs
              \/ \E new \in LegType : /\ new.pc = "scan" /\ new.inv \in DOMAIN invoices
                                      /\ legs' = [legs EXCEPT ![c] = new]
<1>0. Sound(invoices, revoked)
  BY DEF ChangeInv
<1>1. PICK quote \in Quotes : ReserveProration(c, quote, OwnRefund(c))
  BY DEF StartRefund
<1>2. CASE UNCHANGED refundVars
  BY <1>0, <1>2 DEF RowsKept, Grown, refundVars
<1>3. CASE ~UNCHANGED refundVars
  <2>1. PICK i : i = Max(Sources)
    OBVIOUS
  <2>2. Sources # {}
    BY <1>1, <1>3 DEF ReserveProration
  <2>3. PICK minor : /\ minor = Capped(invoices[i], quote) /\ minor # 0
                     /\ Reserve(c, i, minor, OwnRefund(c))
    BY <1>1, <1>3, <2>1 DEF ReserveProration
  <2>4. /\ i \in DOMAIN invoices /\ i \in Nat /\ invoices[i].refunded <= invoices[i].amount
        /\ invoices[i] \in InvoiceType
    BY <2>1, <2>2, LatestSource, ChangeParts
  <2>5. quote \in Nat
    BY PlanChangeAssumption DEF PlanChangeAssumption
  <2>6. minor \in Nat /\ invoices[i].refunded + minor <= invoices[i].amount
    BY <2>3, <2>4, <2>5 DEF Capped, Remaining, InvoiceType
  <2>7. PICK row : row = [invoices[i] EXCEPT !.refunded = @ + minor]
    OBVIOUS
  <2>8. /\ row \in InvoiceType /\ row.event = invoices[i].event
        /\ row.refunded <= row.amount /\ row.status = invoices[i].status
    BY <2>4, <2>6, <2>7 DEF InvoiceType
  <2>9. invoices' = [invoices EXCEPT ![i] = row] /\ UNCHANGED <<refunds, landing, revoked, crashes>>
    BY <2>3, <2>7 DEF Reserve
  <2>10. Sound([invoices EXCEPT ![i] = row], revoked) /\ Grown(invoices, [invoices EXCEPT ![i] = row])
    BY <1>0, <2>4, <2>8, WrittenRow
  <2>11. PICK new : new = [pc |-> "scan", inv |-> i, minor |-> minor,
                           total |-> invoices[i].refunded + minor, key |-> OwnRefund(c)]
    OBVIOUS
  <2>12. new \in LegType /\ new.pc = "scan" /\ new.inv = i
    BY <2>4, <2>6, <2>11, OwnKeys DEF LegType, LegPcs, InvoiceType
  <2>13. legs' = [legs EXCEPT ![c] = new]
    BY <2>3, <2>11 DEF Reserve
  <2> QED BY <2>4, <2>9, <2>10, <2>12, <2>13 DEF RowsKept
<1> QED BY <1>2, <1>3

\* A failed call gives the reservation back.
LEMMA CallKeepsRows ==
    ASSUME ChangeInv, NEW c \in Changes, RefundCall(c), legs[c].pc # "idle"
    PROVE  RowsKept
<1>0. Sound(invoices, revoked) /\ UNCHANGED revoked
  BY DEF ChangeInv, RefundCall
<1>1. PICK i : i = legs[c].inv
  OBVIOUS
<1>2. /\ i \in DOMAIN invoices /\ invoices[i] \in InvoiceType
      /\ invoices[i].refunded <= invoices[i].amount /\ legs[c] \in LegType
  BY <1>1, ChangeParts
<1>3. \/ UNCHANGED invoices
      \/ invoices' = [invoices EXCEPT ![i].refunded = Released(invoices[i], legs[c])]
  BY <1>1 DEF RefundCall
<1>4. CASE UNCHANGED invoices
  BY <1>0, <1>4 DEF RowsKept, Grown
<1>5. CASE invoices' = [invoices EXCEPT ![i].refunded = Released(invoices[i], legs[c])]
  <2>1. PICK left : left = Released(invoices[i], legs[c])
    OBVIOUS
  <2>2. left \in Nat /\ left <= invoices[i].amount
    BY <1>2, <2>1 DEF Released, InvoiceType, LegType
  <2>3. PICK row : row = [invoices[i] EXCEPT !.refunded = left]
    OBVIOUS
  <2>4. /\ row \in InvoiceType /\ row.event = invoices[i].event
        /\ row.refunded <= row.amount /\ row.status = invoices[i].status
    BY <1>2, <2>2, <2>3 DEF InvoiceType
  <2>5. invoices' = [invoices EXCEPT ![i] = row]
    BY <1>5, <2>1, <2>3
  <2>6. Sound([invoices EXCEPT ![i] = row], revoked) /\ Grown(invoices, [invoices EXCEPT ![i] = row])
    BY <1>0, <1>2, <2>4, WrittenRow
  <2> QED BY <1>0, <2>5, <2>6 DEF RowsKept
<1> QED BY <1>3, <1>4, <1>5

\* The last transaction records what was asked for.
LEMMA CommitRecords ==
    ASSUME ChangeInv, NEW c \in Changes
    PROVE  /\ Sound(WithLegs(c), revoked) /\ Grown(invoices, WithLegs(c))
           /\ changes[c].state # "none" =>
                 \E i \in DOMAIN WithLegs(c) : WithLegs(c)[i].event = OwnCharge(c)
           /\ legs[c].pc = "issued" =>
                 \E i \in DOMAIN WithLegs(c) : WithLegs(c)[i].event = OwnRefund(c)
<1>0. Sound(invoices, revoked) /\ legs[c] \in LegType /\ changes[c] \in ChangeType
  BY ChangeParts DEF ChangeInv
<1>1. PICK bill : bill = NewInvoice(OwnCharge(c), changes[c].charge,
                            IF changes[c].state = "captured" THEN "paid" ELSE "pending")
  OBVIOUS
<1>2. /\ bill \in InvoiceType /\ bill.event = OwnCharge(c) /\ bill.refunded = 0
      /\ bill.status = "refunded" <=> bill.event.what = "change-refund"
  <2>1. changes[c].charge \in Nat
    BY <1>0 DEF ChangeType
  <2> QED BY <1>1, <2>1, OwnKeys, NewRow
<1>3. PICK charged : charged = IF changes[c].state = "none" THEN invoices
                               ELSE Inserted(invoices, bill)
  OBVIOUS
<1>4. /\ Sound(charged, revoked) /\ Grown(invoices, charged)
      /\ changes[c].state # "none" => \E i \in DOMAIN charged : charged[i].event = OwnCharge(c)
  <2>1. CASE changes[c].state = "none"
    BY <1>0, <1>3, <2>1 DEF Grown
  <2>2. CASE changes[c].state # "none"
    BY <1>0, <1>2, <1>3, <2>2, InsertedRow
  <2> QED BY <2>1, <2>2
<1>5. PICK refund : refund = NewInvoice(OwnRefund(c), legs[c].minor, "refunded")
  OBVIOUS
<1>6. /\ refund \in InvoiceType /\ refund.event = OwnRefund(c) /\ refund.refunded = 0
      /\ refund.status = "refunded" <=> refund.event.what = "change-refund"
  <2>1. legs[c].minor \in Nat
    BY <1>0 DEF LegType
  <2> QED BY <1>5, <2>1, OwnKeys, NewRow
<1>7. WithLegs(c) = IF legs[c].pc = "issued" THEN Inserted(charged, refund) ELSE charged
  BY <1>1, <1>3, <1>5 DEF WithLegs
<1>8. CASE legs[c].pc = "issued"
  <2>1. PICK rows : rows = Inserted(charged, refund)
    OBVIOUS
  <2>2. /\ Sound(rows, revoked) /\ Grown(charged, rows)
        /\ \E i \in DOMAIN rows : rows[i].event = OwnRefund(c)
    BY <1>4, <1>6, <2>1, InsertedRow
  <2> QED BY <1>4, <1>7, <1>8, <2>1, <2>2 DEF Grown
<1>9. CASE legs[c].pc # "issued"
  BY <1>4, <1>7, <1>9
<1> QED BY <1>8, <1>9

\* The scheduler adds a paid row.
LEMMA RenewKeepsRows ==
    ASSUME ChangeInv, Renew
    PROVE  RowsKept
<1>0. Sound(invoices, revoked) /\ UNCHANGED revoked /\ sub.period + 1 \in Nat /\ Price \in Nat
  <2>1. sub.period \in Nat
    BY ChangeParts DEF SubType
  <2> QED BY <2>1, RefundAssumption DEF ChangeInv, Renew, RefundAssumption
<1>1. PICK row : row = NewInvoice(RenewalKey(sub.period + 1), Price, "paid")
  OBVIOUS
<1>2. /\ row \in InvoiceType /\ row.refunded = 0
      /\ row.status = "refunded" <=> row.event.what = "change-refund"
  <2>1. PICK event \in KeyType : event = RenewalKey(sub.period + 1) /\ event.what = "renewal"
    BY <1>0, ChangeKeys
  <2> QED BY <1>0, <1>1, <2>1, NewRow
<1>3. invoices' = Append(invoices, row)
  BY <1>1 DEF Renew
<1> QED BY <1>0, <1>2, <1>3, AddedRow DEF RowsKept

\* A webhook settles or fails a pending row.
LEMMA WebhookKeepsRows ==
    ASSUME ChangeInv, NEW state, NEW status \in {"paid", "failed"}, SettlePending(state, status)
    PROVE  RowsKept
<1>0. Sound(invoices, revoked) /\ UNCHANGED revoked
  BY DEF ChangeInv, SettlePending
<1>1. PICK i \in DOMAIN invoices : /\ invoices[i].status = "pending"
                                   /\ invoices' = [invoices EXCEPT ![i].status = status]
  BY DEF SettlePending
<1>2. invoices[i] \in InvoiceType /\ invoices[i].refunded <= invoices[i].amount
  BY ChangeParts
<1>3. PICK row : row = [invoices[i] EXCEPT !.status = status]
  OBVIOUS
<1>4. /\ row \in InvoiceType /\ row.event = invoices[i].event
      /\ row.refunded <= row.amount /\ row.status # "refunded"
  BY <1>2, <1>3 DEF InvoiceType
<1>5. invoices' = [invoices EXCEPT ![i] = row]
  BY <1>1, <1>3
<1>6. Sound([invoices EXCEPT ![i] = row], revoked) /\ Grown(invoices, [invoices EXCEPT ![i] = row])
  BY <1>0, <1>1, <1>2, <1>4, WrittenRow
<1> QED BY <1>0, <1>5, <1>6 DEF RowsKept

\* An operator refunds a part or the rest of a row.
LEMMA OperatorKeepsRows ==
    ASSUME ChangeInv, OperatorRefunds
    PROVE  RowsKept /\ refunds' \in Seq(RefundType) /\ MovedOncePerKey'
<1>0. Sound(invoices, revoked) /\ refunds \in Seq(RefundType) /\ MovedOncePerKey
  BY ChangeParts DEF ChangeInv
<1>1. PICK i \in DOMAIN invoices :
         /\ invoices[i].status = "paid"
         /\ \E minor \in 1 .. Remaining(invoices[i]) :
                LET total == invoices[i].refunded + minor
                    whole == total = invoices[i].amount
                IN  /\ invoices' = [invoices EXCEPT ![i].refunded = total,
                          ![i].status = IF whole THEN "refunded" ELSE @]
                    /\ revoked' = IF whole THEN Append(revoked, i) ELSE revoked
                    /\ IF Found(AdminKey(i, total)) THEN UNCHANGED refunds
                       ELSE Accept([inv |-> i, key |-> AdminKey(i, total), minor |-> minor])
  BY DEF OperatorRefunds
<1>2. /\ invoices[i] \in InvoiceType /\ i \in Nat /\ invoices[i].refunded <= invoices[i].amount
      /\ invoices[i].refunded \in Nat /\ invoices[i].amount \in Nat
  BY ChangeParts DEF InvoiceType
<1>3. PICK minor \in 1 .. Remaining(invoices[i]), total \in Nat :
         /\ total = invoices[i].refunded + minor
         /\ invoices' = [invoices EXCEPT ![i].refunded = total,
                  ![i].status = IF total = invoices[i].amount THEN "refunded" ELSE @]
         /\ revoked' = IF total = invoices[i].amount THEN Append(revoked, i) ELSE revoked
         /\ IF Found(AdminKey(i, total)) THEN UNCHANGED refunds
            ELSE Accept([inv |-> i, key |-> AdminKey(i, total), minor |-> minor])
  <2>1. \A minor \in 1 .. Remaining(invoices[i]) : invoices[i].refunded + minor \in Nat
    BY <1>2 DEF Remaining
  <2> QED BY <1>1, <2>1
<1>4. total \in Nat /\ total <= invoices[i].amount /\ minor \in Nat
  BY <1>2, <1>3 DEF Remaining
<1>5. RowsKept
  <2>1. CASE total = invoices[i].amount
    <3>1. PICK row : row = [invoices[i] EXCEPT !.refunded = total, !.status = "refunded"]
      OBVIOUS
    <3>2. /\ row \in InvoiceType /\ row.event = invoices[i].event
          /\ row.refunded <= row.amount /\ row.status = "refunded"
      BY <1>2, <1>4, <3>1 DEF InvoiceType
    <3>3. invoices' = [invoices EXCEPT ![i] = row] /\ revoked' = Append(revoked, i)
      BY <1>3, <2>1, <3>1
    <3>4. LET more == [invoices EXCEPT ![i] = row]
          IN  Sound(more, Append(revoked, i)) /\ Grown(invoices, more)
      BY <1>0, <1>1, <1>2, <3>2, FlippedRow
    <3> QED BY <3>3, <3>4 DEF RowsKept
  <2>2. CASE total # invoices[i].amount
    <3>1. PICK row : row = [invoices[i] EXCEPT !.refunded = total]
      OBVIOUS
    <3>2. /\ row \in InvoiceType /\ row.event = invoices[i].event
          /\ row.refunded <= row.amount /\ row.status = invoices[i].status
      BY <1>2, <1>4, <3>1 DEF InvoiceType
    <3>3. invoices' = [invoices EXCEPT ![i] = row] /\ revoked' = revoked
      BY <1>2, <1>3, <2>2, <3>1 DEF InvoiceType
    <3>4. LET more == [invoices EXCEPT ![i] = row]
          IN  Sound(more, revoked) /\ Grown(invoices, more)
      BY <1>0, <1>2, <3>2, WrittenRow
    <3> QED BY <3>3, <3>4 DEF RowsKept
  <2> QED BY <2>1, <2>2
<1>6. refunds' \in Seq(RefundType) /\ MovedOncePerKey'
  <2>1. PICK req : req = [inv |-> i, key |-> AdminKey(i, total), minor |-> minor]
    OBVIOUS
  <2>2. req \in LandingType /\ req.key = AdminKey(i, total)
    BY <1>2, <1>4, <2>1, KeyTypes DEF LandingType
  <2>3. \/ UNCHANGED refunds
        \/ Accept(req) /\ ~Found(req.key)
    BY <1>3, <2>1, <2>2
  <2>4. CASE UNCHANGED refunds
    BY <1>0, <2>4 DEF MovedOncePerKey
  <2> QED BY <1>0, <2>2, <2>3, <2>4, FirstUnderKey
<1> QED BY <1>5, <1>6

\* Whatever steps, the invoices stay sound and only grow.
LEMMA RowsStep ==
    ASSUME ChangeInv, [Next]_vars
    PROVE  RowsKept
<1>0. Sound(invoices, revoked)
  BY DEF ChangeInv
<1>1. CASE UNCHANGED <<invoices, revoked>>
  BY <1>0, <1>1 DEF RowsKept, Grown
<1>2. ASSUME NEW c \in Changes, ChangeStep(c)
      PROVE  RowsKept
  <2>1. CASE StartRefund(c)
    BY <2>1, StartKeepsRows
  <2>2. CASE RefundCall(c)
    <3>1. legs[c].pc # "idle"
      BY <2>2 DEF RefundCall, ChangeInv, ChangeSound
    <3> QED BY <2>2, <3>1, CallKeepsRows
  <2>3. CASE Commit(c)
    BY <2>3, CommitRecords DEF Commit, LegsRecorded, RowsKept
  <2>4. CASE ReadContext(c) \/ Claim(c) \/ Charge(c) \/ ChargeTimesOut(c)
    BY <1>1, <2>4 DEF ReadContext, Claim, Charge, ChargeTimesOut, refundVars
  <2> QED BY <1>2, <2>1, <2>2, <2>3, <2>4 DEF ChangeStep
<1>3. ASSUME NEW c \in Changes, CrashChange(c)
      PROVE  RowsKept
  BY <1>1, <1>3 DEF CrashChange
<1>4. CASE OperatorRefunds
  BY <1>4, OperatorKeepsRows
<1>5. CASE Renew
  BY <1>5, RenewKeepsRows
<1>6. CASE WebhookPaid \/ WebhookFailed
  BY <1>6, WebhookKeepsRows DEF WebhookPaid, WebhookFailed
<1>7. CASE Dun \/ Cancel \/ ChargeResolves \/ UNCHANGED vars
  BY <1>1, <1>7 DEF Dun, Cancel, ChargeResolves, vars, refundVars
<1> QED BY <1>2, <1>3, <1>4, <1>5, <1>6, <1>7 DEF Next

----------------------------------------------------------------------------
(* The steps of a change. *)

(* What such a step does to the rest of the state, and to its own change.  *)
StepOf(c) ==
    /\ \A d \in Changes \ {c} : changes'[d] = changes[d] /\ legs'[d] = legs[d]
    /\ changes' \in [Changes -> ChangeType] /\ legs' \in [Legs -> LegType]
    /\ \A l \in Legs : legs'[l].pc # "idle" => legs'[l].inv \in DOMAIN invoices
    /\ refunds' \in Seq(RefundType) /\ charges' \in Seq(ChargeType) /\ MovedOncePerKey'
    /\ sub' \in SubType /\ claimant' \in Changes \cup {NoClaimant}
    /\ \/ UNCHANGED <<sub.version, claimant>>
       \/ sub'.version > sub.version
    /\ crashes' \in Nat /\ crashes' >= crashes
    /\ UNCHANGED <<landing, writes>>
    /\ ChangeSound(c)'

\* One change is written.
LEMMA WrittenChange ==
    ASSUME ChangeInv, NEW c \in Changes, NEW new \in ChangeType,
           changes' = [changes EXCEPT ![c] = new]
    PROVE  /\ changes' \in [Changes -> ChangeType] /\ changes'[c] = new
           /\ \A d \in Changes \ {c} : changes'[d] = changes[d]
BY ChangeParts

LEMMA MovedChange ==
    ASSUME ChangeInv, NEW c \in Changes, NEW pc \in ChangePcs, Move(c, pc)
    PROVE  /\ changes' \in [Changes -> ChangeType] /\ changes'[c].pc = pc
           /\ changes'[c].to = changes[c].to /\ changes'[c].period = changes[c].period
           /\ changes'[c].state = changes[c].state
           /\ changes'[c].version = changes[c].version
           /\ \A d \in Changes \ {c} : changes'[d] = changes[d]
<1>1. PICK new : new = [changes[c] EXCEPT !.pc = pc]
  OBVIOUS
<1>2. /\ new \in ChangeType /\ new.pc = pc /\ new.to = changes[c].to
      /\ new.period = changes[c].period /\ new.state = changes[c].state
      /\ new.version = changes[c].version
  BY <1>1, ChangeParts DEF ChangeType
<1>3. changes' = [changes EXCEPT ![c] = new]
  BY <1>1 DEF Move
<1> QED BY <1>2, <1>3, WrittenChange

\* A step that leaves the refunds alone.
LEMMA RefundsAlone ==
    ASSUME ChangeInv, UNCHANGED refundVars
    PROVE  /\ \A d \in Changes : legs'[d] = legs[d]
           /\ legs' \in [Legs -> LegType]
           /\ \A l \in Legs : legs'[l].pc # "idle" => legs'[l].inv \in DOMAIN invoices
           /\ refunds' \in Seq(RefundType) /\ MovedOncePerKey'
           /\ crashes' \in Nat /\ crashes' >= crashes /\ UNCHANGED landing
<1>1. UNCHANGED <<legs, refunds, crashes, landing>>
  BY DEF refundVars
<1>2. MovedOncePerKey'
  BY <1>1 DEF ChangeInv, MovedOncePerKey
<1>3. \A l \in Legs : legs'[l].pc # "idle" => legs'[l].inv \in DOMAIN invoices
  BY <1>1 DEF ChangeInv, TypeOK, RefundTypeOK
<1>4. crashes' \in Nat /\ crashes' >= crashes
  BY <1>1, ChangeParts
<1> QED BY <1>1, <1>2, <1>3, <1>4, ChangeParts

\* The change reads the row.
LEMMA ReadIsStep == ASSUME ChangeInv, NEW c \in Changes, ReadContext(c) PROVE StepOf(c)
<1>1. /\ changes[c].pc = "idle"
      /\ UNCHANGED <<refundVars, sub, charges, claimant, writes>>
  BY DEF ReadContext
<1>2. PICK to \in Plans \ {sub.plan} :
         changes' = [changes EXCEPT ![c] =
             [IdleChange EXCEPT !.pc = "claim", !.to = to, !.version = sub.version,
                                !.period = sub.period,
                                !.trial = sub.status = "trialing"]]
  BY DEF ReadContext
<1>3. PICK new : new = [IdleChange EXCEPT !.pc = "claim", !.to = to, !.version = sub.version,
                                          !.period = sub.period,
                                          !.trial = sub.status = "trialing"]
  OBVIOUS
<1>4. sub.version \in Nat /\ sub.period \in Nat
  BY ChangeParts DEF SubType
<1>5. new \in ChangeType /\ new.pc = "claim" /\ new.state = "none" /\ new.to \in Plans
  BY <1>3, <1>4 DEF IdleChange, ChangeType, ChangePcs
<1>6. /\ changes' \in [Changes -> ChangeType] /\ changes'[c] = new
      /\ \A d \in Changes \ {c} : changes'[d] = changes[d]
  BY <1>2, <1>3, <1>5, WrittenChange
<1>7. ChangeSound(c)'
  BY <1>1, <1>5, <1>6 DEF ChangeInv, ChangeSound, refundVars, Claimed, Over
<1>8. /\ charges' \in Seq(ChargeType) /\ sub' \in SubType
      /\ claimant' \in Changes \cup {NoClaimant} /\ UNCHANGED <<sub.version, claimant, writes>>
  BY <1>1, ChangeParts
<1> QED BY <1>1, <1>6, <1>7, <1>8, RefundsAlone DEF StepOf

\* It claims the change, or is refused.
LEMMA ClaimIsStep == ASSUME ChangeInv, NEW c \in Changes, Claim(c) PROVE StepOf(c)
<1>1. changes[c].pc = "claim" /\ UNCHANGED <<refundVars, charges, writes>>
  BY DEF Claim
<1>2. legs[c].pc = "idle" /\ changes[c].state = "none" /\ changes[c].to \in Plans
  BY <1>1 DEF ChangeInv, ChangeSound
<1>3. sub.version \in Nat /\ sub \in SubType
  BY ChangeParts DEF SubType
<1>4. charges' \in Seq(ChargeType) /\ UNCHANGED writes
  BY <1>1, ChangeParts
<1>5. CASE Unmoved(c)
  <2>1. /\ sub' = [sub EXCEPT !.version = changes[c].version + 1]
        /\ changes' = [changes EXCEPT ![c].version = @ + 1,
                 ![c].pc = IF changes[c].trial THEN "commit" ELSE "charge"]
        /\ claimant' = c /\ changes[c].version = sub.version
    BY <1>5 DEF Claim, Unmoved
  <2>2. PICK pc \in {"commit", "charge"} :
           changes' = [changes EXCEPT ![c].version = @ + 1, ![c].pc = pc]
    BY <2>1
  <2>0. PICK v \in Nat : v = changes[c].version + 1
    <3>1. changes[c].version \in Nat
      BY ChangeParts DEF ChangeType
    <3> QED BY <3>1
  <2>3. PICK new : new = [changes[c] EXCEPT !.version = v, !.pc = pc]
    OBVIOUS
  <2>4. /\ new \in ChangeType /\ new.pc = pc /\ new.state = "none"
        /\ new.version = changes[c].version + 1 /\ new.to \in Plans
    <3>1. changes[c] \in ChangeType /\ pc \in ChangePcs
      BY ChangeParts DEF ChangePcs
    <3>2. new \in ChangeType
      BY <2>3, <3>1 DEF ChangeType
    <3> QED BY <1>2, <2>0, <2>3, <3>1, <3>2 DEF ChangeType
  <2>5. changes' = [changes EXCEPT ![c] = new]
    BY <2>0, <2>2, <2>3, ChangeParts
  <2>6. /\ changes' \in [Changes -> ChangeType] /\ changes'[c] = new
        /\ \A d \in Changes \ {c} : changes'[d] = changes[d]
    BY <2>4, <2>5, WrittenChange
  <2>7. sub' \in SubType /\ sub'.version = sub.version + 1
    BY <1>3, <2>1 DEF SubType
  <2>8. ChangeSound(c)'
    BY <1>1, <1>2, <1>3, <2>1, <2>4, <2>6, <2>7 DEF ChangeSound, refundVars, Claimed, Over
  <2>9. claimant' \in Changes \cup {NoClaimant} /\ sub'.version > sub.version
    BY <1>3, <2>1, <2>7
  <2> QED BY <1>1, <1>4, <2>6, <2>7, <2>8, <2>9, RefundsAlone DEF StepOf
<1>6. CASE ~Unmoved(c)
  <2>1. Move(c, "refused") /\ UNCHANGED <<sub, claimant>>
    BY <1>6 DEF Claim
  <2>2. /\ changes' \in [Changes -> ChangeType] /\ changes'[c].pc = "refused"
        /\ changes'[c].to \in Plans
        /\ changes'[c].state = "none" /\ \A d \in Changes \ {c} : changes'[d] = changes[d]
    BY <1>2, <2>1, MovedChange DEF ChangePcs
  <2>3. ChangeSound(c)'
    BY <1>1, <1>2, <2>2 DEF ChangeSound, refundVars, Claimed, Over
  <2>4. /\ sub' \in SubType /\ claimant' \in Changes \cup {NoClaimant}
        /\ UNCHANGED <<sub.version, claimant>>
    BY <2>1, ChangeParts
  <2> QED BY <1>1, <1>4, <2>2, <2>3, <2>4, RefundsAlone DEF StepOf
<1> QED BY <1>5, <1>6

\* A payment of a change is well typed.
LEMMA NewCharge ==
    ASSUME ChangeInv, NEW c \in Changes, NEW minor \in Quotes,
           NEW state \in {"captured", "pending", "canceled"},
           \/ UNCHANGED charges
           \/ charges' = Append(charges, [key |-> OwnCharge(c), minor |-> minor, state |-> state])
    PROVE  charges' \in Seq(ChargeType)
<1>1. minor \in Nat
  BY PlanChangeAssumption DEF PlanChangeAssumption
<1>2. PICK new : new = [key |-> OwnCharge(c), minor |-> minor, state |-> state]
  OBVIOUS
<1>3. new \in ChargeType /\ charges \in Seq(ChargeType)
  BY <1>1, <1>2, OwnKeys, ChangeParts DEF ChargeType
<1>4. UNCHANGED charges \/ charges' = Append(charges, new)
  BY <1>2
<1> QED BY <1>3, <1>4

\* It charges the new plan's remainder.
LEMMA ChargeIsStep == ASSUME ChangeInv, NEW c \in Changes, Charge(c) PROVE StepOf(c)
<1>1. changes[c].pc = "charge" /\ UNCHANGED <<refundVars, sub, claimant, writes>>
  BY DEF Charge
<1>2. /\ changes[c].to \in Plans
      /\ legs[c].pc = "idle" /\ changes[c].state = "none" /\ changes[c].version <= sub.version
      /\ changes[c].version = sub.version => claimant = c
  BY <1>1 DEF ChangeInv, ChangeSound, Claimed
<1>3. /\ sub' \in SubType /\ claimant' \in Changes \cup {NoClaimant}
      /\ UNCHANGED <<sub.version, claimant, writes>> /\ legs'[c].pc = "idle"
  BY <1>1, <1>2, ChangeParts DEF refundVars
<1>4. PICK minor \in Quotes :
         IF minor = 0
         THEN Move(c, "refund") /\ UNCHANGED charges
         ELSE \E state \in {"captured", "pending", "canceled"} :
             /\ IF Known(OwnCharge(c)) # {}
                THEN UNCHANGED charges /\ \E p \in Known(OwnCharge(c)) : state = charges[p].state
                ELSE charges' = Append(charges, [key |-> OwnCharge(c), minor |-> minor, state |-> state])
             /\ IF state = "canceled"
                THEN Move(c, "refused")
                ELSE changes' = [changes EXCEPT ![c].pc = "refund", ![c].charge = minor,
                                                ![c].state = state]
  BY DEF Charge
<1>5. CASE minor = 0
  <2>1. Move(c, "refund") /\ UNCHANGED charges
    BY <1>4, <1>5
  <2>2. /\ changes' \in [Changes -> ChangeType] /\ changes'[c].pc = "refund"
        /\ changes'[c].to = changes[c].to
        /\ changes'[c].version = changes[c].version
        /\ \A d \in Changes \ {c} : changes'[d] = changes[d]
    BY <2>1, MovedChange DEF ChangePcs
  <2>3. ChangeSound(c)'
    BY <1>2, <1>3, <2>2 DEF ChangeSound, Claimed, Over
  <2>4. charges' \in Seq(ChargeType)
    BY <2>1, ChangeParts
  <2> QED BY <1>1, <1>3, <2>2, <2>3, <2>4, RefundsAlone DEF StepOf
<1>6. CASE minor # 0
  <2>1. PICK state \in {"captured", "pending", "canceled"} :
             /\ \/ UNCHANGED charges
                \/ charges' = Append(charges, [key |-> OwnCharge(c), minor |-> minor, state |-> state])
             /\ IF state = "canceled"
                THEN Move(c, "refused")
                ELSE changes' = [changes EXCEPT ![c].pc = "refund", ![c].charge = minor,
                                                ![c].state = state]
    BY <1>4, <1>6
  <2>2. charges' \in Seq(ChargeType)
    BY <2>1, NewCharge
  <2>3. CASE state = "canceled"
    <3>1. /\ changes' \in [Changes -> ChangeType] /\ changes'[c].pc = "refused"
          /\ changes'[c].to = changes[c].to /\ changes'[c].state = "none"
          /\ \A d \in Changes \ {c} : changes'[d] = changes[d]
      BY <1>2, <2>1, <2>3, MovedChange DEF ChangePcs
    <3>2. ChangeSound(c)'
      BY <1>2, <1>3, <3>1 DEF ChangeSound, Claimed, Over
    <3> QED BY <1>1, <1>3, <2>2, <3>1, <3>2, RefundsAlone DEF StepOf
  <2>4. CASE state # "canceled"
    <3>1. PICK new : new = [changes[c] EXCEPT !.pc = "refund", !.charge = minor, !.state = state]
      OBVIOUS
    <3>2. /\ new \in ChangeType /\ new.pc = "refund" /\ new.version = changes[c].version
          /\ new.to = changes[c].to
      <4>1. changes[c] \in ChangeType /\ minor \in Nat
        BY ChangeParts, PlanChangeAssumption DEF PlanChangeAssumption
      <4> QED BY <2>4, <3>1, <4>1 DEF ChangeType, ChangePcs
    <3>3. changes' = [changes EXCEPT ![c] = new]
      BY <2>1, <2>4, <3>1, ChangeParts
    <3>4. /\ changes' \in [Changes -> ChangeType] /\ changes'[c] = new
          /\ \A d \in Changes \ {c} : changes'[d] = changes[d]
      BY <3>2, <3>3, WrittenChange
    <3>5. ChangeSound(c)'
      BY <1>2, <1>3, <3>2, <3>4 DEF ChangeSound, Claimed, Over
    <3> QED BY <1>1, <1>3, <2>2, <3>4, <3>5, RefundsAlone DEF StepOf
  <2> QED BY <2>3, <2>4
<1> QED BY <1>5, <1>6

\* The call times out.
LEMMA TimeOutIsStep == ASSUME ChangeInv, NEW c \in Changes, ChargeTimesOut(c) PROVE StepOf(c)
<1>1. /\ changes[c].pc = "charge" /\ Move(c, "refused")
      /\ UNCHANGED <<refundVars, sub, claimant, writes>>
  BY DEF ChargeTimesOut
<1>2. legs[c].pc = "idle" /\ changes[c].state = "none" /\ changes[c].to \in Plans
  BY <1>1 DEF ChangeInv, ChangeSound
<1>3. /\ sub' \in SubType /\ claimant' \in Changes \cup {NoClaimant}
      /\ UNCHANGED <<sub.version, claimant, writes>> /\ legs'[c].pc = "idle"
  BY <1>1, <1>2, ChangeParts DEF refundVars
<1>4. charges' \in Seq(ChargeType)
  <2>1. CASE UNCHANGED charges
    BY <2>1, ChangeParts
  <2>2. CASE ~UNCHANGED charges
    <3>1. PICK minor \in Quotes, state \in {"captured", "pending"} :
             charges' = Append(charges, [key |-> OwnCharge(c), minor |-> minor, state |-> state])
      BY <2>2 DEF ChargeTimesOut
    <3> QED BY <3>1, NewCharge
  <2> QED BY <2>1, <2>2
<1>5. /\ changes' \in [Changes -> ChangeType] /\ changes'[c].pc = "refused"
      /\ changes'[c].to \in Plans /\ changes'[c].state = "none"
      /\ \A d \in Changes \ {c} : changes'[d] = changes[d]
  BY <1>1, <1>2, MovedChange DEF ChangePcs
<1>6. ChangeSound(c)'
  BY <1>2, <1>3, <1>5 DEF ChangeSound, Claimed, Over
<1> QED BY <1>1, <1>3, <1>4, <1>5, <1>6, RefundsAlone DEF StepOf

\* One leg is written.
LEMMA WrittenLeg ==
    ASSUME ChangeInv, NEW c \in Changes, NEW new \in LegType, legs' = [legs EXCEPT ![c] = new],
           new.pc # "idle" => new.inv \in DOMAIN invoices
    PROVE  /\ legs' \in [Legs -> LegType] /\ legs'[c] = new
           /\ \A l \in Legs : legs'[l].pc # "idle" => legs'[l].inv \in DOMAIN invoices
           /\ \A d \in Changes \ {c} : legs'[d] = legs[d]
<1>1. \A l \in Legs : legs[l].pc # "idle" => legs[l].inv \in DOMAIN invoices
  BY DEF ChangeInv, TypeOK, RefundTypeOK
<1>2. c \in Legs /\ Changes \subseteq Legs
  BY DEF Legs
<1> QED BY <1>1, <1>2, ChangeParts

\* It reserves the refund of the old plan's remainder.
LEMMA StartIsStep == ASSUME ChangeInv, NEW c \in Changes, StartRefund(c) PROVE StepOf(c)
<1>1. changes[c].pc = "refund" /\ UNCHANGED <<sub, charges, claimant, writes>>
  BY DEF StartRefund
<1>2. /\ legs[c].pc = "idle" /\ changes[c].version <= sub.version /\ changes[c].to \in Plans
      /\ changes[c].version = sub.version => claimant = c
  BY <1>1 DEF ChangeInv, ChangeSound, Claimed
<1>3. /\ UNCHANGED <<refunds, landing, crashes>>
      /\ \/ UNCHANGED legs
         \/ \E new \in LegType : /\ new.pc = "scan" /\ new.inv \in DOMAIN invoices
                                 /\ legs' = [legs EXCEPT ![c] = new]
  BY StartKeepsRows
<1>4. /\ legs' \in [Legs -> LegType] /\ legs'[c].pc \in {"idle", "scan"}
      /\ \A l \in Legs : legs'[l].pc # "idle" => legs'[l].inv \in DOMAIN invoices
      /\ \A d \in Changes \ {c} : legs'[d] = legs[d]
  <2>1. CASE UNCHANGED legs
    BY <1>2, <2>1, ChangeParts DEF ChangeInv, TypeOK, RefundTypeOK
  <2>2. CASE ~UNCHANGED legs
    <3>1. PICK new \in LegType : /\ new.pc = "scan" /\ new.inv \in DOMAIN invoices
                                /\ legs' = [legs EXCEPT ![c] = new]
      BY <1>3, <2>2
    <3> QED BY <3>1, WrittenLeg
  <2> QED BY <2>1, <2>2
<1>5. PICK pc \in {"commit", "call"} : Move(c, pc) /\ (pc = "call" => legs'[c].pc # "idle")
  BY DEF StartRefund
<1>6. /\ changes' \in [Changes -> ChangeType] /\ changes'[c].pc = pc
      /\ changes'[c].version = changes[c].version /\ changes'[c].to = changes[c].to
      /\ \A d \in Changes \ {c} : changes'[d] = changes[d]
  BY <1>5, MovedChange DEF ChangePcs
<1>7. ChangeSound(c)'
  BY <1>1, <1>2, <1>4, <1>5, <1>6 DEF ChangeSound, Claimed, Over
<1>8. /\ sub' \in SubType /\ claimant' \in Changes \cup {NoClaimant}
      /\ UNCHANGED <<sub.version, claimant, writes, landing>> /\ charges' \in Seq(ChargeType)
      /\ refunds' \in Seq(RefundType) /\ crashes' \in Nat /\ crashes' >= crashes
  BY <1>1, <1>3, ChangeParts
<1>9. MovedOncePerKey'
  BY <1>3 DEF ChangeInv, MovedOncePerKey
<1> QED BY <1>4, <1>6, <1>7, <1>8, <1>9 DEF StepOf

\* It asks the provider for the refund.
LEMMA CallIsStep == ASSUME ChangeInv, NEW c \in Changes, RefundCall(c) PROVE StepOf(c)
<1>1. /\ changes[c].pc = "call" /\ Move(c, "commit")
      /\ UNCHANGED <<landing, revoked, crashes, sub, charges, claimant, writes>>
  BY DEF RefundCall
<1>2. /\ changes[c].version <= sub.version /\ legs[c].pc # "idle" /\ changes[c].to \in Plans
      /\ changes[c].version = sub.version => claimant = c
  BY <1>1 DEF ChangeInv, ChangeSound, Claimed
<1>3. PICK pc \in {"issued", "returned", "stranded"} :
          /\ \/ UNCHANGED refunds
             \/ ~Found(legs[c].key) /\ Accept(Request(c))
          /\ Goto(c, pc)
  BY DEF RefundCall
<1>4. legs[c] \in LegType /\ legs[c].inv \in DOMAIN invoices
  BY <1>2, ChangeParts
<1>5. /\ legs' \in [Legs -> LegType] /\ legs'[c].pc = pc
      /\ \A l \in Legs : legs'[l].pc # "idle" => legs'[l].inv \in DOMAIN invoices
      /\ \A d \in Changes \ {c} : legs'[d] = legs[d]
  <2>1. PICK new : new = [legs[c] EXCEPT !.pc = pc]
    OBVIOUS
  <2>2. new \in LegType /\ new.pc = pc /\ new.inv = legs[c].inv
    BY <1>4, <2>1 DEF LegType, LegPcs
  <2>3. legs' = [legs EXCEPT ![c] = new]
    BY <1>3, <2>1 DEF Goto
  <2> QED BY <1>4, <2>2, <2>3, WrittenLeg
<1>6. refunds' \in Seq(RefundType) /\ MovedOncePerKey'
  <2>0. refunds \in Seq(RefundType) /\ MovedOncePerKey
    BY ChangeParts DEF ChangeInv
  <2>1. CASE UNCHANGED refunds
    BY <2>0, <2>1 DEF MovedOncePerKey
  <2>2. CASE ~Found(legs[c].key) /\ Accept(Request(c))
    <3>1. PICK req : req = Request(c)
      OBVIOUS
    <3>2. legs[c].inv \in Nat
      BY <1>4 DEF LegType
    <3>3. req \in LandingType /\ req.key = legs[c].key
      BY <1>4, <3>1, <3>2 DEF Request, LandingType, LegType
    <3> QED BY <2>0, <2>2, <3>1, <3>3, FirstUnderKey
  <2> QED BY <1>3, <2>1, <2>2
<1>7. /\ changes' \in [Changes -> ChangeType] /\ changes'[c].pc = "commit"
      /\ changes'[c].version = changes[c].version /\ changes'[c].to = changes[c].to
      /\ \A d \in Changes \ {c} : changes'[d] = changes[d]
  BY <1>1, MovedChange DEF ChangePcs
<1>8. ChangeSound(c)'
  BY <1>1, <1>2, <1>5, <1>7 DEF ChangeSound, Claimed, Over
<1>9. /\ sub' \in SubType /\ claimant' \in Changes \cup {NoClaimant}
      /\ UNCHANGED <<sub.version, claimant, writes, landing>> /\ charges' \in Seq(ChargeType)
      /\ crashes' \in Nat /\ crashes' >= crashes
  BY <1>1, ChangeParts
<1> QED BY <1>5, <1>6, <1>7, <1>8, <1>9 DEF StepOf

\* The last transaction: both legs are recorded, and only the latest claim switches.
LEMMA CommitIsStep ==
    ASSUME ChangeInv, NEW c \in Changes, Commit(c)
    PROVE  StepOf(c) /\ (changes'[c].pc = "switched" => claimant = c)
<1>1. /\ changes[c].pc = "commit" /\ invoices' = WithLegs(c)
      /\ UNCHANGED <<refunds, landing, revoked, crashes, charges, claimant, writes>>
  BY DEF Commit, LegsRecorded
<1>2. /\ legs[c].pc # "done" /\ changes[c].version <= sub.version /\ changes[c].to \in Plans
      /\ changes[c].version = sub.version => claimant = c
  BY <1>1 DEF ChangeInv, ChangeSound, Claimed, Over
<1>3. PICK pc \in {"switched", "refused"} :
         /\ Move(c, pc) /\ (pc = "switched" => Unmoved(c))
         /\ \/ UNCHANGED sub
            \/ sub' = [sub EXCEPT !.plan = changes[c].to] /\ Unmoved(c)
  BY DEF Commit, Applies
<1>4. /\ changes' \in [Changes -> ChangeType] /\ changes'[c].pc = pc
      /\ changes'[c].to = changes[c].to /\ changes'[c].period = changes[c].period
      /\ changes'[c].state = changes[c].state
      /\ \A d \in Changes \ {c} : changes'[d] = changes[d]
  BY <1>3, MovedChange DEF ChangePcs
<1>5. pc = "switched" => claimant = c
  BY <1>2, <1>3 DEF Unmoved
<1>6. sub' \in SubType /\ sub'.version = sub.version
  <2>0. sub \in SubType
    BY ChangeParts
  <2>1. CASE UNCHANGED sub
    BY <2>0, <2>1
  <2>2. CASE sub' = [sub EXCEPT !.plan = changes[c].to]
    BY <1>2, <2>0, <2>2 DEF SubType
  <2> QED BY <1>3, <2>1, <2>2
<1>7. legs[c] \in LegType /\ (legs[c].pc # "idle" => legs[c].inv \in DOMAIN invoices)
  BY ChangeParts
<1>8. /\ legs' \in [Legs -> LegType] /\ (legs'[c].pc = "done" => legs[c].pc = "issued")
      /\ \A l \in Legs : legs'[l].pc # "idle" => legs'[l].inv \in DOMAIN invoices
      /\ \A d \in Changes \ {c} : legs'[d] = legs[d]
  <2>1. PICK new : new = [legs[c] EXCEPT !.pc = IF @ = "issued" THEN "done" ELSE @]
    OBVIOUS
  <2>2. /\ new \in LegType /\ new.inv = legs[c].inv /\ (new.pc = "idle" <=> legs[c].pc = "idle")
        /\ new.pc = "done" => legs[c].pc = "issued"
    BY <1>2, <1>7, <2>1 DEF LegType, LegPcs
  <2>3. legs' = [legs EXCEPT ![c] = new]
    BY <2>1 DEF Commit
  <2> QED BY <1>7, <2>2, <2>3, WrittenLeg
<1>9. OwnCharge(c)' = OwnCharge(c) /\ OwnRefund(c)' = OwnRefund(c)
  BY <1>4 DEF OwnCharge, OwnRefund
<1>10. /\ changes[c].state # "none" => Recorded(OwnCharge(c))'
       /\ legs[c].pc = "issued" => Recorded(OwnRefund(c))'
  BY <1>1, <1>9, CommitRecords DEF Recorded
<1>11. ChangeSound(c)'
  BY <1>2, <1>4, <1>8, <1>10 DEF ChangeSound, Claimed, Over
<1>12. /\ claimant' \in Changes \cup {NoClaimant} /\ charges' \in Seq(ChargeType)
       /\ UNCHANGED <<sub.version, claimant, writes, landing>>
       /\ refunds' \in Seq(RefundType) /\ crashes' \in Nat /\ crashes' >= crashes
  BY <1>1, <1>6, ChangeParts
<1>13. MovedOncePerKey'
  BY <1>1 DEF ChangeInv, MovedOncePerKey
<1> QED BY <1>4, <1>5, <1>6, <1>8, <1>11, <1>12, <1>13 DEF StepOf

\* The process dies in the middle.
LEMMA CrashIsStep == ASSUME ChangeInv, NEW c \in Changes, CrashChange(c) PROVE StepOf(c)
<1>1. /\ Move(c, "refused") /\ crashes' = crashes + 1
      /\ UNCHANGED <<invoices, refunds, landing, revoked, sub, charges, claimant, writes>>
  BY DEF CrashChange
<1>2. /\ legs[c] \in LegType /\ (legs[c].pc # "idle" => legs[c].inv \in DOMAIN invoices)
      /\ changes[c].to \in Plans
  BY ChangeParts DEF CrashChange, ChangeInv, ChangeSound
<1>3. /\ legs' \in [Legs -> LegType] /\ legs'[c].pc # "done"
      /\ \A l \in Legs : legs'[l].pc # "idle" => legs'[l].inv \in DOMAIN invoices
      /\ \A d \in Changes \ {c} : legs'[d] = legs[d]
  <2>1. PICK new : new = [legs[c] EXCEPT !.pc = IF @ \in {"idle", "returned"} THEN @ ELSE "stranded"]
    OBVIOUS
  <2>2. /\ new \in LegType /\ new.inv = legs[c].inv /\ (new.pc = "idle" <=> legs[c].pc = "idle")
        /\ new.pc # "done"
    BY <1>2, <2>1 DEF LegType, LegPcs
  <2>3. legs' = [legs EXCEPT ![c] = new]
    BY <2>1 DEF CrashChange
  <2> QED BY <1>2, <2>2, <2>3, WrittenLeg
<1>4. /\ changes' \in [Changes -> ChangeType] /\ changes'[c].pc = "refused"
      /\ changes'[c].to = changes[c].to
      /\ \A d \in Changes \ {c} : changes'[d] = changes[d]
  BY <1>1, MovedChange DEF ChangePcs
<1>5. /\ sub' \in SubType /\ claimant' \in Changes \cup {NoClaimant} /\ charges' \in Seq(ChargeType)
      /\ UNCHANGED <<sub.version, claimant, writes, landing>>
      /\ refunds' \in Seq(RefundType) /\ crashes' \in Nat /\ crashes' >= crashes /\ crashes' > 0
  BY <1>1, ChangeParts
<1>6. ChangeSound(c)'
  BY <1>2, <1>3, <1>4, <1>5 DEF ChangeSound, Claimed, Over
<1>7. MovedOncePerKey'
  BY <1>1 DEF ChangeInv, MovedOncePerKey
<1> QED BY <1>3, <1>4, <1>5, <1>6, <1>7 DEF StepOf

----------------------------------------------------------------------------
(* The other writers, and the changes that do not move. *)

(* What the others do to the state a change relies on.                     *)
StepOfOthers ==
    /\ UNCHANGED <<legs, changes, claimant, landing, crashes, sub.version>>
    /\ refunds' \in Seq(RefundType) /\ charges' \in Seq(ChargeType) /\ MovedOncePerKey'
    /\ sub' \in SubType /\ writes' \in Nat

\* The scheduler, the cancellation, the provider and an operator.
LEMMA OthersAreSteps ==
    ASSUME ChangeInv,
           \/ OperatorRefunds \/ Renew \/ Dun \/ Cancel \/ WebhookPaid \/ WebhookFailed
           \/ ChargeResolves \/ UNCHANGED vars
    PROVE  StepOfOthers
<1>0. /\ refunds \in Seq(RefundType) /\ charges \in Seq(ChargeType) /\ MovedOncePerKey
      /\ sub \in SubType /\ writes \in Nat
  BY ChangeParts DEF ChangeInv
<1>1. CASE OperatorRefunds
  <2>1. /\ UNCHANGED <<legs, landing, crashes, sub, changes, charges, claimant>>
        /\ writes' = writes + 1
    BY <1>1 DEF OperatorRefunds, AnotherWrite
  <2> QED BY <1>0, <1>1, <2>1, OperatorKeepsRows DEF StepOfOthers
<1>2. ASSUME UNCHANGED refunds
      PROVE  refunds' \in Seq(RefundType) /\ MovedOncePerKey'
  BY <1>0, <1>2 DEF MovedOncePerKey
<1>3. CASE Renew
  <2>1. /\ UNCHANGED <<legs, refunds, landing, revoked, crashes, changes, charges, claimant>>
        /\ writes' = writes + 1
        /\ sub' = [sub EXCEPT !.status = "active", !.period = @ + 1]
    BY <1>3 DEF Renew, AnotherWrite
  <2>2. PICK n \in Nat : sub' = [sub EXCEPT !.status = "active", !.period = n]
    <3>1. sub.period \in Nat
      BY <1>0 DEF SubType
    <3>2. sub.period + 1 \in Nat
      BY <3>1
    <3> QED BY <2>1, <3>2
  <2>3. sub' \in SubType /\ sub'.version = sub.version
    BY <1>0, <2>2 DEF SubType
  <2> QED BY <1>0, <1>2, <2>1, <2>3 DEF StepOfOthers
<1>4. CASE Dun
  <2>1. /\ UNCHANGED <<refundVars, changes, charges, claimant>> /\ writes' = writes + 1
        /\ \E status \in {"past_due", "canceled"} : sub' = [sub EXCEPT !.status = status]
    BY <1>4 DEF Dun, AnotherWrite
  <2>2. sub' \in SubType /\ sub'.version = sub.version
    BY <1>0, <2>1 DEF SubType
  <2> QED BY <1>0, <1>2, <2>1, <2>2 DEF StepOfOthers, refundVars
<1>5. CASE Cancel
  <2>1. /\ UNCHANGED <<refundVars, changes, charges, claimant>> /\ writes' = writes + 1
        /\ \/ sub' = [sub EXCEPT !.status = "canceled", !.cancelAtPeriodEnd = FALSE]
           \/ sub' = [sub EXCEPT !.cancelAtPeriodEnd = TRUE]
    BY <1>5 DEF Cancel, AnotherWrite
  <2>2. sub' \in SubType /\ sub'.version = sub.version
    BY <1>0, <2>1 DEF SubType
  <2> QED BY <1>0, <1>2, <2>1, <2>2 DEF StepOfOthers, refundVars
<1>6. CASE WebhookPaid \/ WebhookFailed
  <2>1. UNCHANGED <<legs, refunds, landing, crashes, sub, changes, charges, claimant, writes>>
    BY <1>6 DEF WebhookPaid, WebhookFailed, SettlePending
  <2> QED BY <1>0, <1>2, <2>1 DEF StepOfOthers
<1>7. CASE ChargeResolves
  <2>1. /\ UNCHANGED <<refundVars, sub, changes, claimant, writes>>
        /\ \E p \in DOMAIN charges, state \in {"captured", "canceled"} :
              charges' = [charges EXCEPT ![p].state = state]
    BY <1>7 DEF ChargeResolves
  <2>2. PICK p \in DOMAIN charges, state \in {"captured", "canceled"} :
           charges' = [charges EXCEPT ![p].state = state]
    BY <2>1
  <2>3. PICK new : new = [charges[p] EXCEPT !.state = state]
    OBVIOUS
  <2>4. charges[p] \in ChargeType
    BY <1>0
  <2>5. new \in ChargeType
    BY <2>3, <2>4 DEF ChargeType
  <2>6. charges' = [charges EXCEPT ![p] = new]
    BY <2>2, <2>3
  <2>7. charges' \in Seq(ChargeType)
    BY <1>0, <2>5, <2>6
  <2> QED BY <1>0, <1>2, <2>1, <2>7 DEF StepOfOthers, refundVars
<1>8. CASE UNCHANGED vars
  <2>1. UNCHANGED <<legs, refunds, landing, crashes, sub, changes, charges, claimant, writes>>
    BY <1>8 DEF vars, refundVars
  <2> QED BY <1>0, <1>2, <2>1 DEF StepOfOthers
<1> QED BY <1>1, <1>3, <1>4, <1>5, <1>6, <1>7, <1>8

\* A change that does not move stays sound: a version that moved on is not its own
\* any more, and what is on the invoices stays there.
LEMMA RestIsSound ==
    ASSUME ChangeInv, NEW d \in Changes, changes'[d] = changes[d], legs'[d] = legs[d],
           Grown(invoices, invoices'), crashes' \in Nat, crashes' >= crashes,
           sub' \in SubType,
           \/ UNCHANGED <<sub.version, claimant>>
           \/ sub'.version > sub.version
    PROVE  ChangeSound(d)'
<1>0. /\ ChangeSound(d) /\ sub.version \in Nat /\ sub'.version \in Nat
      /\ changes[d].version \in Nat /\ crashes \in Nat
  BY ChangeParts DEF ChangeInv, SubType, ChangeType
<1>1. OwnCharge(d)' = OwnCharge(d) /\ OwnRefund(d)' = OwnRefund(d)
  BY DEF OwnCharge, OwnRefund
<1>2. /\ Recorded(OwnCharge(d)) => Recorded(OwnCharge(d))'
      /\ Recorded(OwnRefund(d)) => Recorded(OwnRefund(d))'
  BY <1>1 DEF Recorded, Grown
<1>3. Claimed(d)' = Claimed(d) /\ Over(d)' = Over(d)
  BY DEF Claimed, Over
<1>4. Claimed(d) => /\ changes[d].version <= sub'.version
                    /\ changes[d].version = sub'.version => claimant' = d
  BY <1>0 DEF ChangeSound
<1>5. Over(d) => /\ changes[d].state # "none" => Recorded(OwnCharge(d))' \/ crashes' > 0
                 /\ legs[d].pc = "done" => Recorded(OwnRefund(d))'
  BY <1>0, <1>2 DEF ChangeSound
<1> QED BY <1>0, <1>3, <1>4, <1>5 DEF ChangeSound

----------------------------------------------------------------------------
(* The invariant. *)

\* It holds at the start.
LEMMA ChangeInvStarts == Init => ChangeInv
<1> SUFFICES ASSUME Init PROVE ChangeInv
  OBVIOUS
<1>1. /\ RefundInv /\ invoices = <<NewInvoice(RenewalKey(0), Price, "paid")>>
      /\ revoked = <<>> /\ legs = [l \in Legs |-> IdleLeg]
  BY InitEstablishes DEF Init, RefundInit
<1>2. RefundTypeOK /\ WithinPaid /\ MovedOncePerKey
  BY <1>1 DEF RefundInv
<1>3. TypeOK
  <2>1. sub \in SubType
    BY DEF Init, SubType, Changeable
  <2>2. IdleChange \in ChangeType
    BY DEF IdleChange, ChangeType, ChangePcs
  <2>3. changes \in [Changes -> ChangeType]
    BY <2>2 DEF Init
  <2>4. charges \in Seq(ChargeType) /\ claimant \in Changes \cup {NoClaimant} /\ writes \in Nat
    BY DEF Init
  <2> QED BY <1>2, <2>1, <2>3, <2>4 DEF TypeOK
<1>4. Sound(invoices, revoked)
  <2>1. PICK row : row = NewInvoice(RenewalKey(0), Price, "paid")
    OBVIOUS
  <2>2. row.status = "paid" /\ row.event.what = "renewal"
    BY <2>1 DEF NewInvoice, RenewalKey
  <2>3. invoices = <<row>> /\ DOMAIN invoices = {1} /\ invoices[1] = row /\ DOMAIN revoked = {}
    BY <1>1, <2>1
  <2>4. invoices \in Seq(InvoiceType) /\ revoked \in Seq(Nat)
    BY <1>2 DEF RefundTypeOK
  <2> QED BY <1>2, <2>2, <2>3, <2>4 DEF Sound, WithinPaid
<1>5. ASSUME NEW c \in Changes PROVE ChangeSound(c)
  <2>1. changes[c].pc = "idle" /\ changes[c].state = "none" /\ legs[c].pc = "idle"
    BY <1>1 DEF Init, IdleChange, IdleLeg, Legs
  <2> QED BY <2>1 DEF ChangeSound, Claimed, Over
<1> QED BY <1>2, <1>3, <1>4, <1>5 DEF ChangeInv

\* And every step keeps it.
LEMMA ChangeInvStep == ChangeInv /\ [Next]_vars => ChangeInv'
<1> SUFFICES ASSUME ChangeInv, [Next]_vars PROVE ChangeInv'
  OBVIOUS
<1>1. Sound(invoices', revoked') /\ Grown(invoices, invoices')
  BY RowsStep DEF RowsKept
<1>2. invoices' \in Seq(InvoiceType) /\ revoked' \in Seq(Nat) /\ DOMAIN invoices \subseteq DOMAIN invoices'
  BY <1>1 DEF Sound, Grown
<1>3. CASE \E c \in Changes : ChangeStep(c) \/ CrashChange(c)
  <2>1. PICK c \in Changes : ChangeStep(c) \/ CrashChange(c)
    BY <1>3
  <2>2. StepOf(c)
    BY <2>1, ReadIsStep, ClaimIsStep, ChargeIsStep, TimeOutIsStep, StartIsStep, CallIsStep,
       CommitIsStep, CrashIsStep DEF ChangeStep
  <2>3. TypeOK'
    <3>1. \A l \in Legs : legs'[l].pc # "idle" => legs'[l].inv \in DOMAIN invoices'
      BY <1>2, <2>2 DEF StepOf
    <3>2. landing' \subseteq LandingType /\ writes' \in Nat
      BY <2>2, ChangeParts DEF StepOf
    <3> QED BY <1>2, <2>2, <3>1, <3>2 DEF StepOf, TypeOK, RefundTypeOK
  <2>4. ASSUME NEW d \in Changes PROVE ChangeSound(d)'
    <3>1. CASE d = c
      BY <2>2, <3>1 DEF StepOf
    <3>2. CASE d # c
      BY <1>1, <2>2, <3>2, RestIsSound DEF StepOf
    <3> QED BY <3>1, <3>2
  <2> QED BY <1>1, <2>2, <2>3, <2>4 DEF ChangeInv, StepOf
<1>4. CASE ~\E c \in Changes : ChangeStep(c) \/ CrashChange(c)
  <2>1. StepOfOthers
    BY <1>4, OthersAreSteps DEF Next
  <2>2. TypeOK'
    <3>1. \A l \in Legs : legs'[l].pc # "idle" => legs'[l].inv \in DOMAIN invoices'
      BY <1>2, <2>1 DEF StepOfOthers, ChangeInv, TypeOK, RefundTypeOK
    <3>2. /\ landing' \subseteq LandingType /\ crashes' \in Nat
          /\ legs' \in [Legs -> LegType] /\ changes' \in [Changes -> ChangeType]
          /\ claimant' \in Changes \cup {NoClaimant}
      BY <2>1, ChangeParts DEF StepOfOthers
    <3> QED BY <1>2, <2>1, <3>1, <3>2 DEF StepOfOthers, TypeOK, RefundTypeOK
  <2>3. ASSUME NEW d \in Changes PROVE ChangeSound(d)'
    <3>1. /\ changes'[d] = changes[d] /\ legs'[d] = legs[d] /\ crashes' \in Nat
          /\ crashes' >= crashes /\ sub' \in SubType /\ UNCHANGED <<sub.version, claimant>>
      BY <2>1, ChangeParts DEF StepOfOthers
    <3> QED BY <1>1, <3>1, RestIsSound
  <2> QED BY <1>1, <2>1, <2>2, <2>3 DEF ChangeInv, StepOfOthers
<1> QED BY <1>3, <1>4

----------------------------------------------------------------------------
(* The theorems. *)

\* Every reachable state of the plan changes is well typed.
THEOREM PlanChangeTypeCorrect == Spec => []TypeOK
<1>1. ChangeInv => TypeOK
  BY DEF ChangeInv
<1> QED BY <1>1, ChangeInvStarts, ChangeInvStep, PTL DEF Spec

\* However changes overlap each other, operators' refunds, renewals, cancellations and
\* webhooks, a change that ended without a crash has what it asked the provider for
\* on the invoices (commitPlanChange in services/billing-user.service.ts).
THEOREM LegsAreRecorded == Spec => []MoneyIsRecorded
<1>1. ChangeInv => MoneyIsRecorded
  <2> SUFFICES ASSUME ChangeInv, NEW c \in Changes, changes[c].pc \in {"switched", "refused"}
               PROVE  /\ changes[c].state # "none" => Recorded(OwnCharge(c)) \/ crashes > 0
                      /\ legs[c].pc = "done" => Recorded(OwnRefund(c))
    BY DEF MoneyIsRecorded
  <2> QED BY DEF ChangeInv, ChangeSound, Over
<1> QED BY <1>1, ChangeInvStarts, ChangeInvStep, PTL DEF Spec

\* The plan is switched by the change whose claim is the latest: the compare-and-swap
\* on the version decides, for any number of changes.
THEOREM OnlyLatestSwitches == Spec => LatestClaimSwitches
<1>1. ChangeInv /\ [Next]_vars =>
         [\A c \in Changes :
             changes[c].pc # "switched" /\ changes'[c].pc = "switched" => claimant = c]_vars
  <2> SUFFICES ASSUME ChangeInv, [Next]_vars, NEW c \in Changes,
                      changes[c].pc # "switched", changes'[c].pc = "switched"
               PROVE  claimant = c
    OBVIOUS
  <2>1. CASE \E d \in Changes : ChangeStep(d) \/ CrashChange(d)
    <3>1. PICK d \in Changes : ChangeStep(d) \/ CrashChange(d)
      BY <2>1
    <3>2. StepOf(d)
      BY <3>1, ReadIsStep, ClaimIsStep, ChargeIsStep, TimeOutIsStep, StartIsStep, CallIsStep,
         CommitIsStep, CrashIsStep DEF ChangeStep
    <3>3. d = c
      BY <3>2 DEF StepOf
    <3>4. Commit(c)
      <4>0. changes \in [Changes -> ChangeType] /\ changes[c] \in ChangeType
        BY ChangeParts
      <4>1. ASSUME NEW pc \in ChangePcs, Move(c, pc)
            PROVE  pc = "switched"
        BY <4>1, MovedChange
      <4>2. ~ReadContext(c)
        BY <4>0 DEF ReadContext, IdleChange
      <4>3. ~Claim(c)
        <5>1. CASE Unmoved(c) /\ Claim(c)
          <6>1. changes' = [changes EXCEPT ![c].version = @ + 1,
                   ![c].pc = IF changes[c].trial THEN "commit" ELSE "charge"]
            BY <5>1 DEF Claim
          <6> QED BY <4>0, <6>1 DEF ChangeType
        <5>2. CASE ~Unmoved(c) /\ Claim(c)
          BY <4>1, <5>2 DEF Claim, ChangePcs
        <5> QED BY <5>1, <5>2
      <4>4. ~Charge(c)
        <5>1. SUFFICES ASSUME Charge(c) PROVE FALSE
          OBVIOUS
        <5>2. \/ Move(c, "refund") \/ Move(c, "refused")
              \/ \E minor \in Quotes, state \in {"captured", "pending", "canceled"} :
                    changes' = [changes EXCEPT ![c].pc = "refund", ![c].charge = minor,
                                               ![c].state = state]
          BY <5>1 DEF Charge
        <5>3. CASE Move(c, "refund") \/ Move(c, "refused")
          BY <4>1, <5>3 DEF ChangePcs
        <5>4. ASSUME NEW minor, NEW state,
                     changes' = [changes EXCEPT ![c].pc = "refund", ![c].charge = minor,
                                                ![c].state = state]
              PROVE  FALSE
          BY <4>0, <5>4 DEF ChangeType
        <5> QED BY <5>2, <5>3, <5>4
      <4>5. ~ChargeTimesOut(c) /\ ~StartRefund(c) /\ ~RefundCall(c) /\ ~CrashChange(c)
        BY <4>1 DEF ChargeTimesOut, StartRefund, RefundCall, CrashChange, ChangePcs
      <4> QED BY <3>1, <3>3, <4>2, <4>3, <4>4, <4>5 DEF ChangeStep
    <3> QED BY <3>4, CommitIsStep
  <2>2. CASE ~\E d \in Changes : ChangeStep(d) \/ CrashChange(d)
    <3>1. UNCHANGED changes
      BY <2>2, OthersAreSteps DEF Next, StepOfOthers
    <3> QED BY <3>1
  <2> QED BY <2>1, <2>2
<1> QED BY <1>1, ChangeInvStarts, ChangeInvStep, PTL DEF Spec, LatestClaimSwitches

\* Beside plan changes too, an invoice never shows more refunded than was paid: the
\* proration refund and the operators' share the reservation.
THEOREM ChangesRefundWithinPaid == Spec => []WithinPaid
<1>1. ChangeInv => WithinPaid
  BY DEF ChangeInv, Sound, WithinPaid
<1> QED BY <1>1, ChangeInvStarts, ChangeInvStep, PTL DEF Spec

\* A change that was claimed twice under one key does not move its refund twice.
THEOREM ChangesMoveOncePerKey == Spec => []MovedOncePerKey
<1>1. ChangeInv => MovedOncePerKey
  BY DEF ChangeInv
<1> QED BY <1>1, ChangeInvStarts, ChangeInvStep, PTL DEF Spec

\* The grants of an invoice are taken back once, and exactly when its row is flipped;
\* the row of a change's own refund is born refunded and takes nothing back.
THEOREM ChangesRevokeOnce == Spec => []RevokedOnce
<1>1. ChangeInv => RevokedOnce
  BY DEF ChangeInv, Sound, RevokedOnce
<1> QED BY <1>1, ChangeInvStarts, ChangeInvStep, PTL DEF Spec

----------------------------------------------------------------------------
(* Usage: type correctness. *)

\* What a snapshot, an outcome of a charge and a pack's payment name.
LEMMA EventNames ==
    ASSUME NEW e \in Events
    PROVE  /\ e.type = "snapshot" => e.n \in 2..(LastPeriod + 1)
           /\ e.type \in {"paid", "failed"} => e.n \in Periods
           /\ e.type = "pack" => e.n \in Packs
BY DEF Events

\* Events are told apart by the boundary a snapshot names.
LEMMA SnapshotIsEvent ==
    ASSUME NEW n \in 2..(LastPeriod + 1)
    PROVE  [type |-> "snapshot", n |-> n] \in Events
BY DEF Events

\* Rating yields units, no more than there are, and money.
LEMMA RatingType ==
    ASSUME UsageAssumption, NEW k, NEW available \in Nat
    PROVE  /\ CreditsApplied(k, available) \in Nat /\ Amount(k, available) \in Nat
           /\ CreditsApplied(k, available) <= available
<1>1. Cardinality({i \in Keys : records[i] = k}) \in Nat
  <2>1. {i \in Keys : records[i] = k} \subseteq Keys /\ IsFiniteSet(Keys)
    BY DEF UsageAssumption
  <2> QED BY <2>1, FS_Subset, FS_CardinalityType
<1> DEFINE size == Cardinality({i \in Keys : records[i] = k})
<1>2. size \in Nat /\ Quantity \in Nat /\ Included \in Nat /\ UnitPrice \in Nat
  BY <1>1 DEF UsageAssumption
<1> HIDE DEF size
<1>3. Quantity * size \in Nat
  BY <1>2
<1>4. BillableUnits(k) \in Nat
  <2>1. TotalUnits(k) = Quantity * size
    BY DEF TotalUnits, size
  <2> QED BY <1>2, <1>3, <2>1 DEF BillableUnits, AtLeastZero
<1>5. /\ CreditsApplied(k, available) \in Nat /\ CreditsApplied(k, available) <= available
      /\ CreditsApplied(k, available) <= BillableUnits(k)
  BY <1>4 DEF CreditsApplied, Smaller, AtLeastZero
<1>6. BillableUnits(k) - CreditsApplied(k, available) \in Nat
  BY <1>4, <1>5
<1> QED BY <1>2, <1>5, <1>6 DEF Amount

\* Moving a stage keeps the stages in their type.
LEMMA StageType ==
    ASSUME UsageTypeOK, NEW e \in Events, Emits(e) \/ Reduce(e)
    PROVE  stage' \in [Events -> {"new", "kept", "done"}] /\ acked' = acked
BY DEF UsageTypeOK, Emits, Keep, Reduce

\* Asking Paddle for money leaves its charges well typed.
LEMMA SubmittedType ==
    ASSUME UsageTypeOK, NEW k \in Periods
    PROVE  Submitted(k) \in [period : 1..(LastPeriod + 1), canceled : BOOLEAN,
                             charges : [Periods -> UsageChargeType]]
<1>1. /\ paddle \in [period : 1..(LastPeriod + 1), canceled : BOOLEAN,
                     charges : [Periods -> UsageChargeType]]
      /\ usageInvoices[k].amount \in Nat /\ paddle.charges[k].count \in 0..2
  BY DEF UsageTypeOK, UsageInvoiceType, UsageChargeType
<1>2. PICK count : count = Smaller(paddle.charges[k].count + 1, 2)
  OBVIOUS
<1>3. count \in 0..2
  BY <1>1, <1>2 DEF Smaller
<1>4. [state |-> "open", amount |-> usageInvoices[k].amount, count |-> count] \in UsageChargeType
  BY <1>1, <1>3 DEF UsageChargeType
<1> QED BY <1>1, <1>2, <1>4 DEF Submitted

LEMMA AdjustedType ==
    ASSUME NEW delta \in Int,
           credit \in [exists : BOOLEAN, units : Int, lock : Closers \cup {"free"}]
    PROVE  Adjusted(delta) \in [exists : BOOLEAN, units : Int, lock : Closers \cup {"free"}]
<1>1. PICK units : units = credit.units + delta
  OBVIOUS
<1>2. units \in Int
  BY <1>1
<1>3. Adjusted(delta) = [credit EXCEPT !.exists = TRUE, !.units = units]
  BY <1>1 DEF Adjusted
<1> QED BY <1>2, <1>3

\* Spending a bound keeps it in its type.
LEMMA SpendType ==
    ASSUME MaxFailures \in Nat, MaxServerCrashes \in Nat,
           used \in [failures : 0..MaxFailures, crashes : 0..MaxServerCrashes],
           Spend("failures", MaxFailures) \/ Spend("crashes", MaxServerCrashes)
    PROVE  used' \in [failures : 0..MaxFailures, crashes : 0..MaxServerCrashes]
<1>1. CASE Spend("failures", MaxFailures)
  <2>1. PICK n : n = used.failures + 1
    OBVIOUS
  <2>2. used' = [used EXCEPT !.failures = n] /\ used.failures < MaxFailures
    BY <1>1, <2>1 DEF Spend
  <2>3. n \in 0..MaxFailures
    BY <2>1, <2>2
  <2> QED BY <2>2, <2>3
<1>2. CASE Spend("crashes", MaxServerCrashes)
  <2>1. PICK n : n = used.crashes + 1
    OBVIOUS
  <2>2. used' = [used EXCEPT !.crashes = n] /\ used.crashes < MaxServerCrashes
    BY <1>2, <2>1 DEF Spend
  <2>3. n \in 0..MaxServerCrashes
    BY <2>1, <2>2
  <2> QED BY <2>2, <2>3
<1> QED BY <1>1, <1>2

\* Every step keeps every variable in its type.
LEMMA NextUsageType ==
    ASSUME UsageAssumption, UsageTypeOK, [UsageNext]_usageVars
    PROVE  UsageTypeOK'
<1>0. /\ paddle \in [period : 1..(LastPeriod + 1), canceled : BOOLEAN,
                     charges : [Periods -> UsageChargeType]]
      /\ usageRow \in [start : 1..(LastPeriod + 1), status : {"active", "canceled"}]
      /\ credit \in [exists : BOOLEAN, units : Int, lock : Closers \cup {"free"}]
      /\ usageInvoices \in [Periods -> UsageInvoiceType] /\ closer \in [Closers -> CloserType]
      /\ packs \in [Packs -> {"none", "paid", "refunded"}]
      /\ records \in [Keys -> Periods \cup {NoRecord, LastPeriod + 1}]
      /\ used \in [failures : 0..MaxFailures, crashes : 0..MaxServerCrashes]
      /\ stage \in [Events -> {"new", "kept", "done"}] /\ acked \subseteq Events
      /\ LastPeriod \in Nat \ {0} /\ PackUnits \in Int /\ -PackUnits \in Int
      /\ MaxFailures \in Nat /\ MaxServerCrashes \in Nat
  BY DEF UsageAssumption, UsageTypeOK
<1>1. ASSUME NEW i \in Keys, RecordUsage(i) PROVE UsageTypeOK'
  <2>1. PICK k \in 1..paddle.period : records' = [records EXCEPT ![i] = k]
    BY <1>1 DEF RecordUsage
  <2>2. k \in Periods \cup {NoRecord, LastPeriod + 1}
    BY <1>0 DEF Periods
  <2> QED BY <1>0, <1>1, <2>1, <2>2 DEF RecordUsage, UsageTypeOK
<1>2. ASSUME NEW e \in Events, ReduceSnapshot(e) PROVE UsageTypeOK'
  <2>1. stage' \in [Events -> {"new", "kept", "done"}] /\ acked' = acked
    BY <1>2, StageType DEF ReduceSnapshot
  <2>2. usageRow' \in [start : 1..(LastPeriod + 1), status : {"active", "canceled"}]
    BY <1>0, <1>2, EventNames DEF ReduceSnapshot
  <2>3. closer' \in [Closers -> CloserType]
    <3>1. CASE UNCHANGED closer
      BY <1>0, <3>1
    <3>2. CASE PeriodCloses(e.n)
      <4>1. usageRow.start \in Periods
        BY <1>0, <1>2, <3>2, EventNames DEF PeriodCloses, Periods, ReduceSnapshot
      <4>2. PICK c \in Closers :
               closer' = [closer EXCEPT ![c] = [Idle EXCEPT !.pc = "lookup", !.period = usageRow.start]]
        BY <1>2, <3>2 DEF ReduceSnapshot
      <4> QED BY <1>0, <4>1, <4>2 DEF CloserType, Idle
    <3> QED BY <1>2, <3>1, <3>2 DEF ReduceSnapshot
  <2> QED BY <1>0, <1>2, <2>1, <2>2, <2>3 DEF ReduceSnapshot, UsageTypeOK
<1>3. ASSUME NEW e \in Events, ReduceCanceled(e) PROVE UsageTypeOK'
  BY <1>0, <1>3, StageType DEF ReduceCanceled, UsageTypeOK
<1>4. ASSUME NEW e \in Events, ReduceCharge(e) PROVE UsageTypeOK'
  <2>1. stage' \in [Events -> {"new", "kept", "done"}] /\ acked' = acked
    BY <1>4, StageType DEF ReduceCharge
  <2>2. e.n \in Periods
    BY <1>4, EventNames DEF ReduceCharge
  <2>3. Outcome(usageInvoices[e.n], e.type) \in UsageInvoiceType
    BY <1>0, <1>4, <2>2 DEF Outcome, UsageInvoiceType, ReduceCharge
  <2>4. usageInvoices' = [usageInvoices EXCEPT ![e.n] = Outcome(usageInvoices[e.n], e.type)]
    BY <1>0, <1>4, <2>2 DEF ReduceCharge
  <2>5. usageInvoices' \in [Periods -> UsageInvoiceType]
    BY <1>0, <2>3, <2>4
  <2> QED BY <1>0, <1>4, <2>1, <2>5 DEF ReduceCharge, UsageTypeOK
<1>5. ASSUME NEW e \in Events, ReducePack(e) PROVE UsageTypeOK'
  <2>1. stage' \in [Events -> {"new", "kept", "done"}] /\ acked' = acked
    BY <1>5, StageType DEF ReducePack
  <2>2. credit' \in [exists : BOOLEAN, units : Int, lock : Closers \cup {"free"}]
    BY <1>0, <1>5, AdjustedType DEF ReducePack
  <2> QED BY <1>0, <1>5, <2>1, <2>2 DEF ReducePack, UsageTypeOK
<1>6. ASSUME NEW c \in Closers, LockBalance(c) PROVE UsageTypeOK'
  <2>1. PICK units : units = IF credit.exists THEN AtLeastZero(credit.units) ELSE 0
    OBVIOUS
  <2>2. units \in Nat
    BY <1>0, <2>1 DEF AtLeastZero
  <2>3. closer' = [closer EXCEPT ![c].pc = "rate", ![c].available = units]
    BY <1>6, <2>1 DEF LockBalance
  <2>4. closer' \in [Closers -> CloserType]
    <3>1. PICK held : held = [closer[c] EXCEPT !.pc = "rate", !.available = units]
      OBVIOUS
    <3>2. closer[c] \in CloserType
      BY <1>0
    <3>3. held \in CloserType
      BY <2>2, <3>1, <3>2 DEF CloserType
    <3>4. closer' = [closer EXCEPT ![c] = held]
      BY <1>0, <2>3, <3>1
    <3> QED BY <1>0, <3>3, <3>4
  <2>5. credit' \in [exists : BOOLEAN, units : Int, lock : Closers \cup {"free"}]
    BY <1>0, <1>6 DEF LockBalance, Locks
  <2> QED BY <1>0, <1>6, <2>4, <2>5 DEF LockBalance, UsageTypeOK
<1>7. ASSUME NEW c \in Closers, CloseTransaction(c) PROVE UsageTypeOK'
  <2>1. PICK k, spent, amount : k = closer[c].period
           /\ spent = CreditsApplied(k, closer[c].available)
           /\ amount = Amount(k, closer[c].available)
    OBVIOUS
  <2>2. k \in Periods /\ spent \in Nat /\ amount \in Nat /\ -spent \in Int
    <3>1. k \in Periods /\ closer[c].available \in Nat
      BY <1>0, <2>1 DEF CloserType
    <3>2. spent \in Nat /\ amount \in Nat
      BY <2>1, <3>1, RatingType
    <3> QED BY <3>1, <3>2
  <2>3. ASSUME NEW state \in [exists : BOOLEAN, units : Int, lock : Closers \cup {"free"}]
        PROVE  LockReleased(state, c) \in [exists : BOOLEAN, units : Int, lock : Closers \cup {"free"}]
    BY DEF LockReleased
  <2>4. credit' \in [exists : BOOLEAN, units : Int, lock : Closers \cup {"free"}]
    <3>1. \/ credit' = LockReleased(credit, c)
          \/ credit' = LockReleased(Adjusted(-spent), c)
      BY <1>7, <2>1 DEF CloseTransaction
    <3> QED BY <1>0, <2>2, <2>3, <3>1, AdjustedType
  <2>5. usageInvoices' \in [Periods -> UsageInvoiceType]
    <3>1. \/ usageInvoices' = usageInvoices
          \/ \E status \in {"pending", "paid"} :
                usageInvoices' = [usageInvoices EXCEPT ![k] =
                    [status |-> status, amount |-> amount, credits |-> spent]]
      BY <1>7, <2>1 DEF CloseTransaction
    <3> QED BY <1>0, <2>2, <3>1 DEF UsageInvoiceType
  <2>6. closer' \in [Closers -> CloserType]
    <3>1. \/ closer' = [closer EXCEPT ![c] = Idle]
          \/ closer' = [closer EXCEPT ![c].pc = "charge", ![c].available = 0]
      BY <1>0, <1>7 DEF CloseTransaction
    <3>2. Idle \in CloserType
      BY <1>0 DEF Idle, CloserType, Periods
    <3> QED BY <1>0, <3>1, <3>2 DEF CloserType
  <2> QED BY <1>0, <1>7, <2>4, <2>5, <2>6 DEF CloseTransaction, UsageTypeOK
<1>8. Idle \in CloserType
  BY <1>0 DEF Idle, CloserType, Periods
<1>9. ASSUME NEW c \in Closers, ChargeUsage(c) \/ ChargeFails(c) PROVE UsageTypeOK'
  <2>1. closer[c].period \in Periods
    BY <1>0 DEF CloserType
  <2>2. paddle' \in [period : 1..(LastPeriod + 1), canceled : BOOLEAN,
                     charges : [Periods -> UsageChargeType]]
    BY <1>0, <1>9, <2>1, SubmittedType DEF ChargeUsage, ChargeFails
  <2>3. used' \in [failures : 0..MaxFailures, crashes : 0..MaxServerCrashes]
    <3>1. used' = used \/ Spend("failures", MaxFailures)
      BY <1>9 DEF ChargeUsage, ChargeFails
    <3> QED BY <1>0, <3>1, SpendType
  <2> QED BY <1>0, <1>8, <1>9, <2>2, <2>3 DEF ChargeUsage, ChargeFails, UsageTypeOK
<1>10. ASSUME NEW i \in Packs, BuyPack(i) PROVE UsageTypeOK'
  <2>1. [type |-> "pack", n |-> i] \in Events
    BY DEF Events
  <2> QED BY <1>0, <1>10, <2>1, StageType DEF BuyPack, UsageTypeOK
<1>11. ASSUME NEW i \in Packs, RefundPack(i) PROVE UsageTypeOK'
  BY <1>0, <1>11, AdjustedType DEF RefundPack, UsageTypeOK
<1>12. ASSUME NEW k \in Periods, ChargeSettles(k) PROVE UsageTypeOK'
  <2>1. [type |-> "paid", n |-> k] \in Events /\ [type |-> "failed", n |-> k] \in Events
    BY DEF Events
  <2>2. stage' \in [Events -> {"new", "kept", "done"}] /\ acked' = acked
    BY <1>12, <2>1, StageType DEF ChargeSettles
  <2>3. PICK state \in {"captured", "failed"} : paddle' = [paddle EXCEPT !.charges[k].state = state]
    BY <1>12 DEF ChargeSettles
  <2>4. [paddle.charges[k] EXCEPT !.state = state] \in UsageChargeType
    BY <1>0 DEF UsageChargeType
  <2>5. paddle' = [paddle EXCEPT !.charges[k] = [paddle.charges[k] EXCEPT !.state = state]]
    BY <1>0, <2>3
  <2> QED BY <1>0, <1>12, <2>2, <2>4, <2>5 DEF ChargeSettles, UsageTypeOK
<1>13. CASE NextPeriod
  <2>1. paddle.period + 1 \in 2..(LastPeriod + 1)
    BY <1>0, <1>13 DEF NextPeriod
  <2>2. stage' \in [Events -> {"new", "kept", "done"}] /\ acked' = acked
    BY <1>13, <2>1, SnapshotIsEvent, StageType DEF NextPeriod
  <2>3. paddle' \in [period : 1..(LastPeriod + 1), canceled : BOOLEAN,
                     charges : [Periods -> UsageChargeType]]
    BY <1>0, <1>13, <2>1 DEF NextPeriod
  <2> QED BY <1>0, <1>13, <2>2, <2>3 DEF NextPeriod, UsageTypeOK
<1>14. CASE CancelAtPaddle
  <2>1. [type |-> "canceled", n |-> 0] \in Events
    BY DEF Events
  <2> QED BY <1>0, <1>14, <2>1, StageType DEF CancelAtPaddle, UsageTypeOK
<1>15. CASE ServerCrash
  <2>1. used' \in [failures : 0..MaxFailures, crashes : 0..MaxServerCrashes]
    BY <1>0, <1>15, SpendType DEF ServerCrash
  <2> QED BY <1>0, <1>8, <1>15, <2>1 DEF ServerCrash, UsageTypeOK
<1>16. CASE UNCHANGED usageVars
  BY <1>16 DEF usageVars, UsageTypeOK
<1> QED BY <1>1, <1>2, <1>3, <1>4, <1>5, <1>6, <1>7, <1>9, <1>10, <1>11, <1>12, <1>13,
           <1>14, <1>15, <1>16 DEF UsageNext, Reducer, Listener

LEMMA UsageTypeInit == ASSUME UsageAssumption, UsageInit PROVE UsageTypeOK
<1>1. LastPeriod \in Nat \ {0} /\ MaxFailures \in Nat /\ MaxServerCrashes \in Nat
  BY DEF UsageAssumption
<1>2. Unsubmitted \in UsageChargeType /\ NoInvoice \in UsageInvoiceType /\ Idle \in CloserType
  BY <1>1 DEF Unsubmitted, UsageChargeType, NoInvoice, UsageInvoiceType, Idle, CloserType, Periods
<1>3. stage \in [Events -> {"new", "kept", "done"}] /\ acked \subseteq Events
  BY DEF UsageInit, DeliveryInit
<1> QED BY <1>1, <1>2, <1>3 DEF UsageInit, UsageTypeOK, NoRecord

\* The specification keeps every variable in its type.
THEOREM UsageTypeCorrect == UsageAssumption => (UsageSpec => []UsageTypeOK)
<1> SUFFICES ASSUME UsageAssumption PROVE UsageSpec => []UsageTypeOK
  OBVIOUS
<1> QED BY UsageTypeInit, NextUsageType, PTL DEF UsageSpec

----------------------------------------------------------------------------
(* One charge per period.  Paddle knows no idempotency keys, so whoever     *)
(* inserts the invoice of a period is the only one that charges it; the     *)
(* invariant follows the right to charge from the insert to the call.       *)

Charging(c) == closer[c].pc = "charge"

\* Snapshots announce only periods Paddle has begun, and a period is closed only
\* after it has ended there.
PeriodsEnded ==
    /\ \A e \in Events : e.type = "snapshot" /\ stage[e] # "new" => e.n <= paddle.period
    /\ usageRow.start <= paddle.period
    /\ \A c \in Closers : closer[c].pc # "idle" => closer[c].period < paddle.period

\* A listener about to charge has inserted the invoice, nobody else is about to
\* charge it, and nobody has.
ChargingAlone ==
    \A c \in Closers : Charging(c) =>
        /\ usageInvoices[closer[c].period].status # "none"
        /\ paddle.charges[closer[c].period].count = 0
        /\ \A d \in Closers : Charging(d) /\ closer[d].period = closer[c].period => c = d

UninvoicedIsUncharged ==
    \A k \in Periods : usageInvoices[k].status = "none" => paddle.charges[k].count = 0

UsageInv ==
    /\ UsageTypeOK
    /\ PeriodsEnded
    /\ ChargingAlone
    /\ UninvoicedIsUncharged
    /\ ChargedOnce

LEMMA UsageTypes ==
    ASSUME UsageAssumption, UsageTypeOK
    PROVE  /\ paddle \in [period : 1..(LastPeriod + 1), canceled : BOOLEAN,
                          charges : [Periods -> UsageChargeType]]
           /\ paddle.period \in Nat /\ usageRow.start \in Nat /\ LastPeriod \in Nat
           /\ closer \in [Closers -> CloserType] /\ usageInvoices \in [Periods -> UsageInvoiceType]
           /\ \A c \in Closers : closer[c].period \in Periods /\ closer[c].period \in Nat
           /\ stage \in [Events -> {"new", "kept", "done"}]
BY DEF UsageAssumption, UsageTypeOK, CloserType, Periods

\* A reduction is of an event that was stored, and stores no other.
LEMMA ReducedWasKept ==
    ASSUME UsageTypeOK, NEW e \in Events, Reduce(e)
    PROVE  /\ stage[e] # "new"
           /\ \A f \in Events : stage'[f] # "new" => stage[f] # "new"
BY DEF UsageTypeOK, Reduce

\* What is not a new period's snapshot stores no snapshot.
LEMMA OtherEmits ==
    ASSUME UsageTypeOK, NEW e \in Events, e.type # "snapshot", Emits(e)
    PROVE  \A f \in Events : f.type = "snapshot" /\ stage'[f] # "new" => stage[f] # "new"
BY DEF UsageTypeOK, Emits, Keep

\* The call that reaches Paddle is the first for its period, and uses up the right
\* to charge it.
LEMMA ChargeKeepsInv ==
    ASSUME UsageAssumption, UsageInv, UsageTypeOK', NEW c \in Closers, Charging(c),
           paddle' \in {paddle, Submitted(closer[c].period)},
           closer' = [closer EXCEPT ![c] = Idle],
           UNCHANGED <<stage, usageRow, usageInvoices>>
    PROVE  UsageInv'
<1>0. /\ UsageTypeOK /\ closer \in [Closers -> CloserType] /\ c \in Closers
      /\ paddle.period \in Nat
  BY UsageTypes DEF UsageInv
<1>1. PICK k : k = closer[c].period
  OBVIOUS
<1>2. k \in Periods /\ k < paddle.period /\ paddle.charges[k].count = 0
      /\ usageInvoices[k].status # "none"
  BY <1>0, <1>1, UsageTypes DEF UsageInv, PeriodsEnded, ChargingAlone, Charging
<1>3. /\ paddle'.period = paddle.period
      /\ paddle'.charges[k].count \in {0, 1}
      /\ paddle'.charges[k].count = 1 => paddle'.charges[k].amount = usageInvoices[k].amount
      /\ \A j \in Periods : j # k => paddle'.charges[j] = paddle.charges[j]
  <2>1. CASE paddle' = paddle
    BY <1>2, <2>1
  <2>2. CASE paddle' = Submitted(k)
    <3>1. Smaller(paddle.charges[k].count + 1, 2) = 1
      BY <1>2 DEF Smaller
    <3>2. paddle' = [paddle EXCEPT !.charges[k] =
              [state |-> "open", amount |-> usageInvoices[k].amount, count |-> 1]]
      BY <2>2, <3>1 DEF Submitted
    <3> QED BY <1>0, <1>2, <3>2, UsageTypes
  <2> QED BY <1>1, <2>1, <2>2
<1>4. ~Charging(c)' /\ \A d \in Closers : d # c => closer'[d] = closer[d]
  BY <1>0 DEF Charging, Idle
<1>5. \A d \in Closers : Charging(d)' =>
          /\ d # c /\ Charging(d) /\ closer'[d] = closer[d] /\ closer[d].period # k
  BY <1>1, <1>4 DEF Charging, UsageInv, ChargingAlone
<1>6. ChargingAlone'
  <2> SUFFICES ASSUME NEW d \in Closers, Charging(d)'
               PROVE  /\ usageInvoices[closer[d].period].status # "none"
                      /\ paddle'.charges[closer[d].period].count = 0
                      /\ \A b \in Closers :
                            Charging(b)' /\ closer'[b].period = closer[d].period => d = b
    BY <1>5 DEF ChargingAlone
  <2>1. Charging(d) /\ closer[d].period # k /\ closer[d].period \in Periods
    BY <1>0, <1>5, UsageTypes
  <2>2. paddle'.charges[closer[d].period] = paddle.charges[closer[d].period]
    BY <1>3, <2>1
  <2>3. \A b \in Closers : Charging(b)' => Charging(b) /\ closer'[b].period = closer[b].period
    BY <1>5
  <2> QED BY <2>1, <2>2, <2>3 DEF UsageInv, ChargingAlone
<1>7. PeriodsEnded'
  BY <1>0, <1>3, <1>4 DEF UsageInv, PeriodsEnded, Idle
<1>8. UninvoicedIsUncharged'
  BY <1>2, <1>3 DEF UsageInv, UninvoicedIsUncharged
<1>9. ChargedOnce'
  BY <1>2, <1>3 DEF UsageInv, ChargedOnce
<1> QED BY <1>6, <1>7, <1>8, <1>9 DEF UsageInv

\* Only the transaction that inserts the invoice gains the right to charge.
LEMMA CloseKeepsInv ==
    ASSUME UsageAssumption, UsageInv, UsageTypeOK', NEW c \in Closers, CloseTransaction(c)
    PROVE  UsageInv'
<1>0. /\ UsageTypeOK /\ closer \in [Closers -> CloserType] /\ closer[c].pc = "rate"
      /\ UNCHANGED <<stage, usageRow, paddle>>
      /\ usageInvoices \in [Periods -> UsageInvoiceType] /\ paddle.period \in Nat
  BY UsageTypes DEF UsageInv, CloseTransaction
<1>1. PICK k : k = closer[c].period
  OBVIOUS
<1>2. k \in Periods /\ k < paddle.period
  BY <1>0, <1>1, UsageTypes DEF UsageInv, PeriodsEnded
<1>3. \A d \in Closers : d # c => closer'[d] = closer[d]
  BY <1>0 DEF CloseTransaction
<1>4. closer'[c].pc \in {"idle", "charge"} /\ (closer'[c].pc = "charge" => closer'[c].period = k)
  <2>1. \/ closer' = [closer EXCEPT ![c] = Idle]
        \/ closer' = [closer EXCEPT ![c].pc = "charge", ![c].available = 0]
    BY <1>0 DEF CloseTransaction
  <2>2. closer[c] \in CloserType
    BY <1>0
  <2>3. CASE closer' = [closer EXCEPT ![c] = Idle]
    BY <1>0, <2>3 DEF Idle
  <2>4. CASE closer' = [closer EXCEPT ![c].pc = "charge", ![c].available = 0]
    BY <1>0, <1>1, <2>2, <2>4 DEF CloserType
  <2> QED BY <2>1, <2>3, <2>4
<1>5. \/ UNCHANGED usageInvoices /\ closer'[c].pc = "idle"
      \/ /\ usageInvoices[k].status = "none" /\ usageInvoices'[k].status # "none"
         /\ \A j \in Periods : j # k => usageInvoices'[j] = usageInvoices[j]
  <2>1. CASE ~InsertWins(k)
    BY <1>0, <1>1, <2>1 DEF CloseTransaction, Idle
  <2>2. CASE InsertWins(k)
    <3>1. PICK new : /\ usageInvoices' = [usageInvoices EXCEPT ![k] = new]
                     /\ new.status \in {"paid", "pending"}
      BY <1>0, <1>1, <2>2 DEF CloseTransaction
    <3>2. usageInvoices[k].status = "none"
      BY <2>2 DEF InsertWins, NoInvoice
    <3> QED BY <1>0, <1>2, <3>1, <3>2
  <2> QED BY <2>1, <2>2
<1>6. \A j \in Periods : usageInvoices'[j].status = "none" => usageInvoices[j].status = "none"
  BY <1>2, <1>5
<1>7. \A j \in Periods : paddle.charges[j].count = 1 => usageInvoices'[j] = usageInvoices[j]
  <2>1. paddle.charges[k].count = 1 => usageInvoices[k].status # "none"
    BY <1>2 DEF UsageInv, UninvoicedIsUncharged
  <2> QED BY <1>5, <2>1
<1>8. PeriodsEnded'
  BY <1>0, <1>2, <1>3, <1>4 DEF UsageInv, PeriodsEnded
<1>9. ChargingAlone'
  <2>1. ASSUME NEW d \in Closers, d # c, Charging(d)
        PROVE  /\ usageInvoices'[closer[d].period].status # "none"
               /\ closer'[c].pc = "charge" => closer[d].period # k
    <3>1. closer[d].period \in Periods /\ usageInvoices[closer[d].period].status # "none"
      BY <1>0, <2>1, UsageTypes DEF UsageInv, ChargingAlone
    <3> QED BY <1>5, <3>1
  <2>2. closer'[c].pc = "charge" => paddle.charges[k].count = 0 /\ usageInvoices'[k].status # "none"
    BY <1>2, <1>5 DEF UsageInv, UninvoicedIsUncharged
  <2> QED BY <1>0, <1>3, <1>4, <2>1, <2>2 DEF UsageInv, ChargingAlone, Charging
<1>10. UninvoicedIsUncharged'
  BY <1>0, <1>6 DEF UsageInv, UninvoicedIsUncharged
<1>11. ChargedOnce'
  BY <1>0, <1>7 DEF UsageInv, ChargedOnce
<1> QED BY <1>8, <1>9, <1>10, <1>11 DEF UsageInv

\* A listener that starts, locks or stops, and what Paddle does by itself, give
\* nobody the right to charge and take no period back.
LEMMA OtherKeepsInv ==
    ASSUME UsageAssumption, UsageInv, UsageTypeOK',
           paddle'.period >= paddle.period,
           \A k \in Periods : /\ paddle'.charges[k].count = paddle.charges[k].count
                              /\ paddle'.charges[k].amount = paddle.charges[k].amount,
           \A k \in Periods : /\ usageInvoices'[k].amount = usageInvoices[k].amount
                              /\ usageInvoices'[k].status = "none" <=> usageInvoices[k].status = "none",
           \A c \in Closers : Charging(c)' => closer'[c] = closer[c],
           PeriodsEnded'
    PROVE  UsageInv'
<1>0. /\ UsageTypeOK /\ paddle.period \in Nat /\ paddle'.period \in Nat
      /\ \A c \in Closers : closer[c].period \in Periods
      /\ \A k \in Periods : k \in Nat
  <2>1. paddle'.period \in 1..(LastPeriod + 1)
    BY DEF UsageTypeOK
  <2>2. paddle'.period \in Nat
    BY <2>1
  <2>3. UsageTypeOK
    BY DEF UsageInv
  <2>4. paddle.period \in Nat /\ \A c \in Closers : closer[c].period \in Periods
    BY <2>3, UsageTypes
  <2> QED BY <2>2, <2>3, <2>4 DEF Periods
<1>1. ChargingAlone'
  BY <1>0 DEF UsageInv, ChargingAlone, Charging
<1>2. UninvoicedIsUncharged'
  BY DEF UsageInv, UninvoicedIsUncharged
<1>3. ChargedOnce'
  BY <1>0 DEF UsageInv, ChargedOnce
<1> QED BY <1>1, <1>2, <1>3 DEF UsageInv

\* Boundaries that have been announced stay announced, and the periods that are
\* being closed stay ended, where nothing is announced or closed anew.
LEMMA PeriodsStayEnded ==
    ASSUME UsageAssumption, UsageTypeOK, UsageTypeOK', PeriodsEnded,
           \A e \in Events : e.type = "snapshot" /\ stage'[e] # "new" => stage[e] # "new",
           paddle'.period = paddle.period,
           usageRow'.start = usageRow.start,
           \A c \in Closers : closer'[c].pc # "idle" =>
              closer[c].pc # "idle" /\ closer'[c].period = closer[c].period
    PROVE  PeriodsEnded'
BY DEF PeriodsEnded

\* A snapshot was announced before it is reduced, so the period it closes has ended.
LEMMA SnapshotKeepsInv ==
    ASSUME UsageAssumption, UsageInv, UsageTypeOK', NEW e \in Events, ReduceSnapshot(e)
    PROVE  UsageInv'
<1>0. /\ UsageTypeOK /\ PeriodsEnded /\ closer \in [Closers -> CloserType]
      /\ paddle.period \in Nat /\ usageRow.start \in Nat
      /\ e.type = "snapshot" /\ e.n \in Nat /\ e.n \in 2..(LastPeriod + 1)
      /\ Reduce(e) /\ UNCHANGED <<paddle, usageInvoices>>
  <2>1. UsageTypeOK /\ PeriodsEnded
    BY DEF UsageInv
  <2>2. e.n \in 2..(LastPeriod + 1) /\ LastPeriod \in Nat
    BY EventNames DEF ReduceSnapshot, UsageAssumption
  <2>3. e.n \in Nat
    BY <2>2
  <2> QED BY <2>1, <2>2, <2>3, UsageTypes DEF ReduceSnapshot
<1>1. /\ e.n <= paddle.period
      /\ \A f \in Events : stage'[f] # "new" => stage[f] # "new"
  BY <1>0, ReducedWasKept DEF PeriodsEnded
<1>2. usageRow'.start <= paddle'.period
  BY <1>0, <1>1 DEF ReduceSnapshot
<1>3. /\ \A c \in Closers : closer'[c].pc # "idle" => closer'[c].period < paddle'.period
      /\ \A c \in Closers : Charging(c)' => closer'[c] = closer[c]
  <2>1. CASE UNCHANGED closer
    BY <1>0, <2>1 DEF PeriodsEnded
  <2>2. CASE PeriodCloses(e.n) /\ ~(UNCHANGED closer)
    <3>1. PICK c \in Closers :
             closer' = [closer EXCEPT ![c] = [Idle EXCEPT !.pc = "lookup", !.period = usageRow.start]]
      BY <2>2 DEF ReduceSnapshot
    <3>2. usageRow.start < paddle.period
      BY <1>0, <1>1, <2>2 DEF PeriodCloses
    <3>3. closer'[c].pc = "lookup" /\ closer'[c].period = usageRow.start
      BY <1>0, <3>1 DEF Idle
    <3>4. \A d \in Closers : d # c => closer'[d] = closer[d]
      BY <1>0, <3>1
    <3>5. ~Charging(c)'
      BY <3>3 DEF Charging
    <3> QED BY <1>0, <3>2, <3>3, <3>4, <3>5 DEF PeriodsEnded
  <2> QED BY <2>1, <2>2 DEF ReduceSnapshot
<1>4. \A f \in Events : f.type = "snapshot" /\ stage'[f] # "new" => f.n <= paddle'.period
  BY <1>0, <1>1 DEF PeriodsEnded
<1>5. PeriodsEnded'
  BY <1>2, <1>3, <1>4 DEF PeriodsEnded
<1>6. paddle'.period >= paddle.period
  BY <1>0
<1> QED BY <1>0, <1>3, <1>5, <1>6, OtherKeepsInv

\* An outcome moves a pending invoice and changes neither its amount nor whether
\* it is there.
LEMMA OutcomeKeeps ==
    ASSUME NEW i \in UsageInvoiceType, NEW status \in {"paid", "failed"}
    PROVE  /\ Outcome(i, status).amount = i.amount
           /\ (Outcome(i, status).status = "none") <=> (i.status = "none")
BY DEF Outcome, UsageInvoiceType

\* A new period is announced by the step that begins it.
LEMMA NextPeriodKeepsInv ==
    ASSUME UsageAssumption, UsageInv, UsageTypeOK', NextPeriod
    PROVE  UsageInv'
<1>0. /\ UsageTypeOK /\ PeriodsEnded /\ paddle.period \in Nat /\ usageRow.start \in Nat
      /\ stage \in [Events -> {"new", "kept", "done"}]
      /\ \A c \in Closers : closer[c].period \in Nat
      /\ UNCHANGED <<usageRow, usageInvoices, closer>>
      /\ paddle \in [period : 1..(LastPeriod + 1), canceled : BOOLEAN,
                      charges : [Periods -> UsageChargeType]]
  BY UsageTypes DEF UsageInv, NextPeriod
<1>1. PICK n : n = paddle.period + 1
  OBVIOUS
<1>2. paddle' = [paddle EXCEPT !.period = n]
  BY <1>0, <1>1 DEF NextPeriod
<1>3. paddle'.period = n /\ paddle'.charges = paddle.charges
  BY <1>0, <1>2
<1>4. n \in 2..(LastPeriod + 1)
  BY <1>0, <1>1 DEF NextPeriod, UsageAssumption
<1>5. PICK new : new = [type |-> "snapshot", n |-> n]
  OBVIOUS
<1>6. new \in Events /\ new.n = n /\ Emits(new)
  BY <1>1, <1>4, <1>5, SnapshotIsEvent DEF NextPeriod
<1>7. \A f \in Events : f # new => stage'[f] = stage[f]
  BY <1>0, <1>6 DEF Emits, Keep
<1>8. \A f \in Events : f.type = "snapshot" => f.n \in Nat
  <2>1. \A m \in 2..(LastPeriod + 1) : m \in Nat
    BY DEF UsageAssumption
  <2> QED BY <2>1, EventNames
<1>9. \A f \in Events : f.type = "snapshot" /\ stage'[f] # "new" => f.n <= n
  BY <1>0, <1>1, <1>6, <1>7, <1>8 DEF PeriodsEnded
<1>10. usageRow.start <= n /\ \A c \in Closers : closer[c].pc # "idle" => closer[c].period < n
  BY <1>0, <1>1 DEF PeriodsEnded
<1>11. PeriodsEnded'
  BY <1>0, <1>3, <1>9, <1>10 DEF PeriodsEnded
<1>12. paddle'.period >= paddle.period
  BY <1>0, <1>1, <1>3
<1>13. \A c \in Closers : Charging(c)' => closer'[c] = closer[c]
  BY <1>0
<1> QED BY <1>0, <1>3, <1>11, <1>12, <1>13, OtherKeepsInv

\* Every step keeps the invariant.
LEMMA UsageStep ==
    ASSUME UsageAssumption, UsageInv, [UsageNext]_usageVars
    PROVE  UsageInv'
<1>0. /\ UsageTypeOK /\ UsageTypeOK' /\ PeriodsEnded /\ paddle.period >= paddle.period
      /\ closer \in [Closers -> CloserType] /\ usageInvoices \in [Periods -> UsageInvoiceType]
      /\ stage \in [Events -> {"new", "kept", "done"}]
      /\ paddle \in [period : 1..(LastPeriod + 1), canceled : BOOLEAN,
                      charges : [Periods -> UsageChargeType]]
  <2>1. UsageTypeOK /\ UsageTypeOK' /\ PeriodsEnded
    BY NextUsageType DEF UsageInv
  <2>2. paddle.period \in Nat
    BY <2>1, UsageTypes
  <2>3. paddle.period >= paddle.period
    BY <2>2
  <2> QED BY <2>1, <2>3, UsageTypes
<1>1. ASSUME UNCHANGED <<stage, paddle, usageRow, usageInvoices, closer>> PROVE UsageInv'
  <2>1. PeriodsEnded'
    BY <1>0, <1>1, PeriodsStayEnded
  <2> QED BY <1>0, <1>1, <2>1, OtherKeepsInv
<1>2. ASSUME NEW i \in Keys, RecordUsage(i) PROVE UsageInv'
  BY <1>1, <1>2 DEF RecordUsage
<1>3. ASSUME NEW e \in Events, ReduceSnapshot(e) PROVE UsageInv'
  BY <1>0, <1>3, SnapshotKeepsInv
<1>4. ASSUME NEW e \in Events, ReduceCanceled(e) \/ ReduceCharge(e) \/ ReducePack(e)
      PROVE  UsageInv'
  <2>1. /\ Reduce(e) /\ UNCHANGED <<paddle, closer>> /\ usageRow'.start = usageRow.start
    <3>1. Reduce(e) /\ UNCHANGED <<paddle, closer>>
      BY <1>4 DEF ReduceCanceled, ReduceCharge, ReducePack
    <3>2. usageRow' = usageRow \/ usageRow' = [usageRow EXCEPT !.status = "canceled"]
      BY <1>4 DEF ReduceCanceled, ReduceCharge, ReducePack
    <3>3. usageRow \in [start : 1..(LastPeriod + 1), status : {"active", "canceled"}]
      BY <1>0 DEF UsageTypeOK
    <3> QED BY <3>1, <3>2, <3>3
  <2>2. \A f \in Events : stage'[f] # "new" => stage[f] # "new"
    BY <1>0, <2>1, ReducedWasKept
  <2>3. PeriodsEnded'
    BY <1>0, <2>1, <2>2, PeriodsStayEnded
  <2>4. \A k \in Periods : /\ usageInvoices'[k].amount = usageInvoices[k].amount
                           /\ usageInvoices'[k].status = "none" <=> usageInvoices[k].status = "none"
    <3>1. CASE UNCHANGED usageInvoices
      BY <3>1
    <3>2. CASE ReduceCharge(e)
      <4>1. e.n \in Periods /\ e.type \in {"paid", "failed"} /\ usageInvoices[e.n] \in UsageInvoiceType
        BY <1>0, <3>2, EventNames DEF ReduceCharge
      <4>2. usageInvoices' = [usageInvoices EXCEPT ![e.n] = Outcome(usageInvoices[e.n], e.type)]
        BY <1>0, <3>2 DEF ReduceCharge
      <4>3. usageInvoices'[e.n] = Outcome(usageInvoices[e.n], e.type)
        BY <1>0, <4>1, <4>2
      <4>4. \A k \in Periods : k # e.n => usageInvoices'[k] = usageInvoices[k]
        BY <1>0, <4>2
      <4> QED BY <4>1, <4>3, <4>4, OutcomeKeeps
    <3> QED BY <1>4, <3>1, <3>2 DEF ReduceCanceled, ReducePack
  <2> QED BY <1>0, <2>1, <2>3, <2>4, OtherKeepsInv
<1>5. ASSUME NEW c \in Closers, LockBalance(c) PROVE UsageInv'
  <2>1. UNCHANGED <<stage, paddle, usageRow, usageInvoices>>
    BY <1>5 DEF LockBalance
  <2>2. closer[c].pc = "lookup" /\ closer[c] \in CloserType
    BY <1>0, <1>5 DEF LockBalance
  <2>3. closer'[c].pc = "rate" /\ closer'[c].period = closer[c].period
    BY <1>0, <1>5 DEF LockBalance, CloserType
  <2>4. \A d \in Closers : d # c => closer'[d] = closer[d]
    BY <1>0, <1>5 DEF LockBalance
  <2>5. \A d \in Closers : Charging(d)' => closer'[d] = closer[d]
    BY <2>3, <2>4 DEF Charging
  <2>6. PeriodsEnded'
    BY <1>0, <2>1, <2>2, <2>3, <2>4, PeriodsStayEnded
  <2> QED BY <1>0, <2>1, <2>5, <2>6, OtherKeepsInv
<1>6. ASSUME NEW c \in Closers, CloseTransaction(c) PROVE UsageInv'
  BY <1>0, <1>6, CloseKeepsInv
<1>7. ASSUME NEW c \in Closers, ChargeUsage(c) \/ ChargeFails(c) PROVE UsageInv'
  <2>1. /\ Charging(c) /\ paddle' \in {paddle, Submitted(closer[c].period)}
        /\ closer' = [closer EXCEPT ![c] = Idle] /\ UNCHANGED <<stage, usageRow, usageInvoices>>
    BY <1>7 DEF Charging, ChargeUsage, ChargeFails
  <2> QED BY <1>0, <2>1, ChargeKeepsInv
<1>8. ASSUME NEW i \in Packs, RefundPack(i) PROVE UsageInv'
  BY <1>1, <1>8 DEF RefundPack
<1>9. ASSUME NEW e \in Events, e.type # "snapshot", Emits(e),
             UNCHANGED <<usageRow, usageInvoices, closer>>, paddle'.period = paddle.period,
             \A k \in Periods : /\ paddle'.charges[k].count = paddle.charges[k].count
                                /\ paddle'.charges[k].amount = paddle.charges[k].amount
      PROVE  UsageInv'
  <2>1. \A f \in Events : f.type = "snapshot" /\ stage'[f] # "new" => stage[f] # "new"
    BY <1>0, <1>9, OtherEmits
  <2>2. PeriodsEnded'
    BY <1>0, <1>9, <2>1, PeriodsStayEnded
  <2> QED BY <1>0, <1>9, <2>2, OtherKeepsInv
<1>10. ASSUME NEW i \in Packs, BuyPack(i) PROVE UsageInv'
  <2>1. PICK e : e = [type |-> "pack", n |-> i]
    OBVIOUS
  <2>2. e \in Events /\ e.type # "snapshot" /\ Emits(e)
    BY <1>10, <2>1 DEF BuyPack, Events
  <2> QED BY <1>9, <1>10, <2>2 DEF BuyPack
<1>11. ASSUME NEW k \in Periods, ChargeSettles(k) PROVE UsageInv'
  <2>1. PICK type \in {"paid", "failed"}, state \in {"captured", "failed"} :
           paddle' = [paddle EXCEPT !.charges[k].state = state] /\ Emits([type |-> type, n |-> k])
    BY <1>11 DEF ChargeSettles
  <2>2. PICK e : e = [type |-> type, n |-> k]
    OBVIOUS
  <2>3. e \in Events /\ e.type # "snapshot" /\ Emits(e)
    BY <2>1, <2>2 DEF Events
  <2>4. paddle.charges[k] \in UsageChargeType
    BY <1>0
  <2>5. paddle'.period = paddle.period
        /\ \A j \in Periods : /\ paddle'.charges[j].count = paddle.charges[j].count
                               /\ paddle'.charges[j].amount = paddle.charges[j].amount
    BY <1>0, <2>1, <2>4 DEF UsageChargeType
  <2> QED BY <1>9, <1>11, <2>3, <2>5 DEF ChargeSettles
<1>12. CASE NextPeriod
  BY <1>0, <1>12, NextPeriodKeepsInv
<1>13. CASE CancelAtPaddle
  <2>1. PICK e : e = [type |-> "canceled", n |-> 0]
    OBVIOUS
  <2>2. e \in Events /\ e.type # "snapshot" /\ Emits(e)
    BY <1>13, <2>1 DEF CancelAtPaddle, Events
  <2>3. paddle'.period = paddle.period /\ paddle'.charges = paddle.charges
    BY <1>0, <1>13 DEF CancelAtPaddle
  <2> QED BY <1>9, <1>13, <2>2, <2>3 DEF CancelAtPaddle
<1>14. CASE ServerCrash
  <2>1. \A c \in Closers : closer'[c].pc = "idle"
    BY <1>14 DEF ServerCrash, Idle
  <2>2. UNCHANGED <<stage, paddle, usageRow, usageInvoices>>
    BY <1>14 DEF ServerCrash
  <2>3. PeriodsEnded'
    BY <1>0, <2>1, <2>2, PeriodsStayEnded
  <2>4. \A c \in Closers : Charging(c)' => closer'[c] = closer[c]
    BY <2>1 DEF Charging
  <2> QED BY <1>0, <2>2, <2>3, <2>4, OtherKeepsInv
<1>15. CASE UNCHANGED usageVars
  BY <1>1, <1>15 DEF usageVars
<1> QED BY <1>2, <1>3, <1>4, <1>5, <1>6, <1>7, <1>8, <1>10, <1>11, <1>12, <1>13, <1>14,
           <1>15 DEF UsageNext, Reducer, Listener

LEMMA UsageStart == ASSUME UsageAssumption, UsageInit PROVE UsageInv
<1>1. UsageTypeOK
  BY UsageTypeInit
<1>2. PeriodsEnded
  BY DEF UsageInit, DeliveryInit, PeriodsEnded, Idle
<1>3. ChargingAlone /\ UninvoicedIsUncharged /\ ChargedOnce
  BY DEF UsageInit, ChargingAlone, Charging, Idle, UninvoicedIsUncharged, ChargedOnce, Unsubmitted
<1> QED BY <1>1, <1>2, <1>3 DEF UsageInv

\* An ended period is charged at most once, and for what its one invoice says,
\* whatever is replayed, raced, or fails after Paddle accepted it
\* (usage-invoicing.service.ts:22-32).
THEOREM PeriodsAreBilledOnce == UsageAssumption => (UsageSpec => []ChargedOnce)
<1> SUFFICES ASSUME UsageAssumption PROVE UsageSpec => []ChargedOnce
  OBVIOUS
<1>1. UsageInit => UsageInv
  BY UsageStart
<1>2. UsageInv /\ [UsageNext]_usageVars => UsageInv'
  BY UsageStep
<1>3. UsageInv => ChargedOnce
  BY DEF UsageInv
<1> QED BY <1>1, <1>2, <1>3, PTL DEF UsageSpec

----------------------------------------------------------------------------
(* The balance.  It is what the packs brought less what the invoices spent; *)
(* the sum over the invoices is a fold, whose values are found by induction *)
(* on the number of periods summed.                                         *)

\* A set of numbers that holds 0 and each number after one of its own is all of Nat.
LEMMA EveryNumber ==
    ASSUME NEW S, 0 \in S, \A n \in Nat : n \in S => n + 1 \in S
    PROVE  Nat \subseteq S
<1> DEFINE less == OpToRel(<, Nat)
           Missing == Nat \ S
<1>1. SUFFICES ASSUME Missing # {} PROVE FALSE
  OBVIOUS
<1>2. IsWellFoundedOn(less, Nat)
  BY NatLessThanWellFounded
<1>3. \A a, b \in Nat : a < b => <<a, b>> \in less
  BY DEF OpToRel
<1> HIDE DEF less
<1>4. PICK x \in Missing : \A y \in Missing : ~(<<y, x>> \in less)
  BY <1>1, <1>2, WFMin
<1>5. x \in Nat /\ x # 0 /\ x - 1 \in Nat /\ x - 1 < x /\ (x - 1) + 1 = x
  OBVIOUS
<1>6. x - 1 \in S
  BY <1>3, <1>4, <1>5
<1> QED BY <1>4, <1>5, <1>6

(* The fold of CreditsExplained, as it is defined over any invoices f.      *)
Chosen(s) == CHOOSE k \in s : TRUE

SumStep(f, sums, s) == IF s = {} THEN 0 ELSE f[Chosen(s)].credits + sums[s \ {Chosen(s)}]

SumsOf(f) == CHOOSE sums : sums = [s \in SUBSET Periods |-> SumStep(f, sums, s)]

LEMMA FoldIsSum ==
    /\ MapThenSumSet(LAMBDA k : usageInvoices[k].credits, Periods) = SumsOf(usageInvoices)[Periods]
    /\ MapThenSumSet(LAMBDA k : usageInvoices[k].credits, Periods)' = SumsOf(usageInvoices')[Periods]
BY DEF MapThenSumSet, MapThenFoldSet, SumsOf, SumStep, Chosen

\* What the sum of no period is, and of some.
LEMMA SumCases ==
    ASSUME NEW f, NEW sums, NEW s
    PROVE  /\ s = {} => SumStep(f, sums, s) = 0
           /\ s # {} => SumStep(f, sums, s) = f[Chosen(s)].credits + sums[s \ {Chosen(s)}]
BY DEF SumStep

Upto(n) == {s \in SUBSET Periods : Cardinality(s) <= n}

\* What is left of some periods without the one chosen.
LEMMA OneLess ==
    ASSUME UsageAssumption, NEW n \in Nat, NEW s \in Upto(n + 1), s # {}
    PROVE  Chosen(s) \in s /\ Chosen(s) \in Periods /\ s \ {Chosen(s)} \in Upto(n)
<1>1. IsFiniteSet(Periods)
  BY FS_Interval DEF UsageAssumption, Periods
<1>2. s \in SUBSET Periods /\ Cardinality(s) <= n + 1
  BY DEF Upto
<1>3. IsFiniteSet(s) /\ Cardinality(s) \in Nat
  BY <1>1, <1>2, FS_Subset, FS_CardinalityType
<1>4. Chosen(s) \in s
  BY DEF Chosen
<1>5. Cardinality(s \ {Chosen(s)}) = Cardinality(s) - 1
  BY <1>3, <1>4, FS_RemoveElement
<1> QED BY <1>2, <1>3, <1>4, <1>5 DEF Upto

LEMMA UptoRange ==
    ASSUME UsageAssumption
    PROVE  /\ Upto(0) = {{}}
           /\ \A n \in Nat : {} \in Upto(n) /\ Upto(n) \subseteq Upto(n + 1)
           /\ Cardinality(Periods) \in Nat /\ Upto(Cardinality(Periods)) = SUBSET Periods
<1>1. IsFiniteSet(Periods) /\ Cardinality(Periods) \in Nat
  <2>1. IsFiniteSet(Periods)
    BY FS_Interval DEF UsageAssumption, Periods
  <2> QED BY <2>1, FS_CardinalityType
<1>2. \A s \in SUBSET Periods :
          IsFiniteSet(s) /\ Cardinality(s) \in Nat /\ Cardinality(s) <= Cardinality(Periods)
  BY <1>1, FS_Subset, FS_CardinalityType
<1>3. \A s \in SUBSET Periods : Cardinality(s) = 0 <=> s = {}
  BY <1>2, FS_EmptySet
<1>4. \A s \in SUBSET Periods : Cardinality(s) <= 0 <=> s = {}
  BY <1>2, <1>3
<1>5. Upto(0) = {{}}
  BY <1>4 DEF Upto
<1>6. \A n \in Nat : {} \in Upto(n)
  BY <1>3 DEF Upto
<1>7. \A n \in Nat : Upto(n) \subseteq Upto(n + 1)
  BY <1>2 DEF Upto
<1>8. Upto(Cardinality(Periods)) = SUBSET Periods
  BY <1>2 DEF Upto
<1> QED BY <1>1, <1>5, <1>6, <1>7, <1>8

\* The fold has values: for every n there is a function that obeys its definition on
\* the sets of at most n periods.
LEMMA SumsExist ==
    ASSUME UsageAssumption, NEW f \in [Periods -> UsageInvoiceType]
    PROVE  /\ SumsOf(f) \in [SUBSET Periods -> Int]
           /\ \A s \in SUBSET Periods : SumsOf(f)[s] = SumStep(f, SumsOf(f), s)
<1> DEFINE Obeys(sums, n) == \A s \in Upto(n) : sums[s] = SumStep(f, sums, s)
           Served == {n \in Nat : \E sums \in [Upto(n) -> Int] : Obeys(sums, n)}
<1>0. \A k \in Periods : f[k].credits \in Int
  BY DEF UsageInvoiceType
<1>1. 0 \in Served
  <2>1. [s \in Upto(0) |-> 0] \in [Upto(0) -> Int]
    OBVIOUS
  <2>2. Obeys([s \in Upto(0) |-> 0], 0)
    BY UptoRange DEF SumStep
  <2> QED BY <2>1, <2>2
<1>2. ASSUME NEW n \in Nat, n \in Served PROVE n + 1 \in Served
  <2>1. PICK sums \in [Upto(n) -> Int] : Obeys(sums, n)
    BY <1>2
  <2> DEFINE more == [s \in Upto(n + 1) |-> SumStep(f, sums, s)]
  <2>2. more \in [Upto(n + 1) -> Int]
    <3> SUFFICES ASSUME NEW s \in Upto(n + 1) PROVE SumStep(f, sums, s) \in Int
      OBVIOUS
    <3>1. CASE s = {}
      BY <3>1 DEF SumStep
    <3>2. CASE s # {}
      <4>1. f[Chosen(s)].credits \in Int /\ sums[s \ {Chosen(s)}] \in Int
        BY <1>0, <3>2, OneLess
      <4> QED BY <3>2, <4>1 DEF SumStep
    <3> QED BY <3>1, <3>2
  <2>3. \A s \in Upto(n) : more[s] = sums[s]
    BY <2>1, UptoRange
  <2>4. Obeys(more, n + 1)
    <3> SUFFICES ASSUME NEW s \in Upto(n + 1) PROVE more[s] = SumStep(f, more, s)
      OBVIOUS
    <3>0. more[s] = SumStep(f, sums, s)
      OBVIOUS
    <3> HIDE DEF more
    <3>1. CASE s = {}
      BY <3>0, <3>1 DEF SumStep
    <3>2. CASE s # {}
      <4>1. more[s \ {Chosen(s)}] = sums[s \ {Chosen(s)}]
        BY <2>3, <3>2, OneLess
      <4> QED BY <3>0, <3>2, <4>1 DEF SumStep
    <3> QED BY <3>1, <3>2
  <2> HIDE DEF more
  <2> QED BY <2>2, <2>4
<1>3. Cardinality(Periods) \in Served
  <2> HIDE DEF Served
  <2> QED BY <1>1, <1>2, EveryNumber, UptoRange
<1>4. PICK sums \in [SUBSET Periods -> Int] : \A s \in SUBSET Periods : sums[s] = SumStep(f, sums, s)
  BY <1>3, UptoRange
<1>5. sums = [s \in SUBSET Periods |-> SumStep(f, sums, s)]
  BY <1>4
<1>6. SumsOf(f) = [s \in SUBSET Periods |-> SumStep(f, SumsOf(f), s)]
  BY <1>5 DEF SumsOf
<1>7. PICK g : g = SumsOf(f)
  OBVIOUS
<1>8. g = [s \in SUBSET Periods |-> SumStep(f, g, s)]
  BY <1>6, <1>7
<1>9. \A s \in SUBSET Periods : g[s] = SumStep(f, g, s)
  BY <1>8
<1>10. \A s \in SUBSET Periods : g[s] \in Int
  <2> DEFINE Whole == {n \in Nat : \A s \in Upto(n) : g[s] \in Int}
  <2>1. 0 \in Whole
    <3>1. g[{}] = 0
      BY <1>9, SumCases
    <3>2. \A s \in Upto(0) : g[s] = 0
      BY <3>1, UptoRange
    <3>3. \A s \in Upto(0) : g[s] \in Int
      BY <3>2
    <3> QED BY <3>3
  <2>2. ASSUME NEW n \in Nat, n \in Whole PROVE n + 1 \in Whole
    <3> SUFFICES ASSUME NEW s \in Upto(n + 1) PROVE g[s] \in Int
      OBVIOUS
    <3>0. s \in SUBSET Periods
      BY DEF Upto
    <3>1. CASE s = {}
      <4>1. g[s] = 0
        BY <1>9, <3>0, <3>1, SumCases
      <4> QED BY <4>1
    <3>2. CASE s # {}
      <4>1. f[Chosen(s)].credits \in Int /\ g[s \ {Chosen(s)}] \in Int
        BY <1>0, <2>2, <3>2, OneLess
      <4>2. g[s] = f[Chosen(s)].credits + g[s \ {Chosen(s)}]
        BY <1>9, <3>0, <3>2, SumCases
      <4> QED BY <4>1, <4>2
    <3> QED BY <3>1, <3>2
  <2>3. Cardinality(Periods) \in Whole
    <3> HIDE DEF Whole
    <3> QED BY <2>1, <2>2, EveryNumber, UptoRange
  <2> QED BY <2>3, UptoRange
<1>11. g \in [SUBSET Periods -> Int]
  BY <1>8, <1>10
<1> QED BY <1>7, <1>9, <1>11

\* Where only one invoice changes, the sum changes by what it spends more.
LEMMA SumFollows ==
    ASSUME UsageAssumption, NEW f \in [Periods -> UsageInvoiceType],
           NEW g \in [Periods -> UsageInvoiceType], NEW p \in Periods,
           \A k \in Periods \ {p} : g[k].credits = f[k].credits
    PROVE  SumsOf(g)[Periods] = SumsOf(f)[Periods] + (g[p].credits - f[p].credits)
<1> DEFINE d == g[p].credits - f[p].credits
           old == SumsOf(f)
           new == SumsOf(g)
           Follows == {n \in Nat : \A s \in Upto(n) : new[s] = old[s] + (IF p \in s THEN d ELSE 0)}
<1>0. \A k \in Periods : f[k].credits \in Int /\ g[k].credits \in Int
  BY DEF UsageInvoiceType
<1>1. /\ old \in [SUBSET Periods -> Int] /\ new \in [SUBSET Periods -> Int]
      /\ \A s \in SUBSET Periods : old[s] = SumStep(f, old, s) /\ new[s] = SumStep(g, new, s)
  BY SumsExist
<1>2. d \in Int /\ g[p].credits = f[p].credits + d
  BY <1>0
<1> HIDE DEF d, old, new
<1>3. 0 \in Follows
  <2>1. old[{}] = 0 /\ new[{}] = 0
    BY <1>1, SumCases
  <2>2. \A s \in Upto(0) : new[s] = old[s] + (IF p \in s THEN d ELSE 0)
    <3> SUFFICES ASSUME NEW s \in Upto(0)
                 PROVE  new[s] = old[s] + (IF p \in s THEN d ELSE 0)
      OBVIOUS
    <3>1. s = {}
      BY UptoRange
    <3>2. p \notin s /\ new[s] = 0 /\ old[s] = 0
      BY <2>1, <3>1
    <3> QED BY <3>2
  <2> QED BY <2>2
<1>4. ASSUME NEW n \in Nat, n \in Follows PROVE n + 1 \in Follows
  <2> SUFFICES ASSUME NEW s \in Upto(n + 1)
               PROVE  new[s] = old[s] + (IF p \in s THEN d ELSE 0)
    OBVIOUS
  <2>0. s \in SUBSET Periods
    BY DEF Upto
  <2>1. CASE s = {}
    <3>1. old[s] = 0 /\ new[s] = 0
      BY <1>1, <2>0, <2>1, SumCases
    <3> QED BY <2>1, <3>1
  <2>2. CASE s # {}
    <3>1. PICK x : x = Chosen(s)
      OBVIOUS
    <3>2. PICK r : r = s \ {x}
      OBVIOUS
    <3>3. x \in s /\ x \in Periods /\ r \in Upto(n) /\ r \in SUBSET Periods
      BY <2>2, <3>1, <3>2, OneLess DEF Upto
    <3>4. new[r] = old[r] + (IF p \in r THEN d ELSE 0)
      BY <1>4, <3>3
    <3>5. old[s] = f[x].credits + old[r] /\ new[s] = g[x].credits + new[r]
      BY <1>1, <2>0, <2>2, <3>1, <3>2, SumCases
    <3>6. f[x].credits \in Int /\ old[r] \in Int /\ new[r] \in Int
      BY <1>0, <1>1, <3>3
    <3>7. CASE x = p
      BY <1>2, <3>2, <3>3, <3>4, <3>5, <3>6, <3>7
    <3>8. CASE x # p
      <4>1. g[x].credits = f[x].credits /\ (p \in r <=> p \in s)
        BY <3>2, <3>3, <3>8
      <4> QED BY <1>2, <3>4, <3>5, <3>6, <4>1
    <3> QED BY <3>7, <3>8
  <2> QED BY <2>1, <2>2
<1>5. Cardinality(Periods) \in Follows
  <2> HIDE DEF Follows
  <2> QED BY <1>3, <1>4, EveryNumber, UptoRange
<1>6. new[Periods] = old[Periods] + d
  BY <1>5, UptoRange
<1> QED BY <1>6 DEF d, old, new

\* Invoices that spent nothing sum to nothing.
LEMMA NothingSpent ==
    ASSUME UsageAssumption, NEW f \in [Periods -> UsageInvoiceType],
           \A k \in Periods : f[k].credits = 0
    PROVE  SumsOf(f)[Periods] = 0
<1> DEFINE sums == SumsOf(f)
           None0 == {n \in Nat : \A s \in Upto(n) : sums[s] = 0}
<1>1. /\ sums \in [SUBSET Periods -> Int]
      /\ \A s \in SUBSET Periods : sums[s] = SumStep(f, sums, s)
  BY SumsExist
<1> HIDE DEF sums
<1>2. 0 \in None0
  <2>1. sums[{}] = 0
    BY <1>1, SumCases
  <2>2. \A s \in Upto(0) : sums[s] = 0
    BY <2>1, UptoRange
  <2> QED BY <2>2
<1>3. ASSUME NEW n \in Nat, n \in None0 PROVE n + 1 \in None0
  <2> SUFFICES ASSUME NEW s \in Upto(n + 1) PROVE sums[s] = 0
    OBVIOUS
  <2>0. s \in SUBSET Periods
    BY DEF Upto
  <2>1. CASE s = {}
    BY <1>1, <2>0, <2>1, SumCases
  <2>2. CASE s # {}
    <3>1. f[Chosen(s)].credits = 0 /\ sums[s \ {Chosen(s)}] = 0
      BY <1>3, <2>2, OneLess
    <3>2. sums[s] = f[Chosen(s)].credits + sums[s \ {Chosen(s)}]
      BY <1>1, <2>0, <2>2, SumCases
    <3> QED BY <3>1, <3>2
  <2> QED BY <2>1, <2>2
<1>4. Cardinality(Periods) \in None0
  <2> HIDE DEF None0
  <2> QED BY <1>2, <1>3, EveryNumber, UptoRange
<1> QED BY <1>4, UptoRange DEF sums

(* Who has rated a period with credits still holds the row they are on.     *)
LockHeld ==
    \A c \in Closers : closer[c].pc = "rate" /\ closer[c].available > 0 =>
        credit.exists /\ credit.lock = c /\ credit.units = closer[c].available

CreditsInv == UsageTypeOK /\ CreditsExplained /\ LockHeld

PaidPacks == {i \in Packs : packs[i] = "paid"}
Spent == SumsOf(usageInvoices)[Periods]

\* One more unit of something, or one less, is worth its price.
LEMMA OneMore ==
    ASSUME NEW u \in Int, NEW n \in Int
    PROVE  u * (n + 1) = u * n + u /\ u * (n - 1) = u * n - u
OBVIOUS

LEMMA CreditTypes ==
    ASSUME UsageAssumption, UsageTypeOK
    PROVE  /\ credit \in [exists : BOOLEAN, units : Int, lock : Closers \cup {"free"}]
           /\ credit.units \in Int /\ PackUnits \in Int /\ -PackUnits \in Int
           /\ packs \in [Packs -> {"none", "paid", "refunded"}]
           /\ usageInvoices \in [Periods -> UsageInvoiceType]
           /\ closer \in [Closers -> CloserType]
           /\ \A c \in Closers : /\ closer[c].period \in Periods
                                 /\ closer[c].available \in Nat
           /\ Cardinality(PaidPacks) \in Int /\ IsFiniteSet(PaidPacks) /\ Spent \in Int
<1>1. IsFiniteSet(PaidPacks) /\ Cardinality(PaidPacks) \in Int
  BY FS_Subset, FS_CardinalityType DEF UsageAssumption, PaidPacks
<1>2. Spent \in Int
  BY SumsExist DEF UsageTypeOK, Spent
<1>3. PackUnits \in Int /\ -PackUnits \in Int
  BY DEF UsageAssumption
<1> QED BY <1>1, <1>2, <1>3 DEF UsageTypeOK, CloserType

LEMMA ExplainedBySums ==
    /\ CreditsExplained <=> credit.units = PackUnits * Cardinality(PaidPacks) - Spent
    /\ CreditsExplained' <=> credit'.units = PackUnits * Cardinality(PaidPacks') - Spent'
BY FoldIsSum DEF CreditsExplained, PaidPacks, Spent

\* Where neither the packs nor what the invoices spent change, the balance is
\* explained as before.
LEMMA StaysExplained ==
    ASSUME UsageAssumption, UsageTypeOK, UsageTypeOK', CreditsExplained,
           credit'.units = credit.units, packs' = packs,
           \A k \in Periods : usageInvoices'[k].credits = usageInvoices[k].credits
    PROVE  CreditsExplained'
<1>1. 1 \in Periods
  BY DEF UsageAssumption, Periods
<1>2. Spent' = Spent + (usageInvoices'[1].credits - usageInvoices[1].credits)
  <2>1. usageInvoices \in [Periods -> UsageInvoiceType] /\ usageInvoices' \in [Periods -> UsageInvoiceType]
    BY DEF UsageTypeOK
  <2>2. \A k \in Periods \ {1} : usageInvoices'[k].credits = usageInvoices[k].credits
    OBVIOUS
  <2> QED BY <1>1, <2>1, <2>2, SumFollows DEF Spent
<1>3. usageInvoices[1].credits \in Int /\ usageInvoices'[1].credits = usageInvoices[1].credits
  BY <1>1 DEF UsageTypeOK, UsageInvoiceType
<1>4. Spent' = Spent
  BY <1>2, <1>3, CreditTypes
<1>5. PaidPacks' = PaidPacks
  BY DEF PaidPacks
<1> QED BY <1>4, <1>5, ExplainedBySums

\* A pack that becomes paid, or is no longer, moves the balance by its units.
LEMMA PackExplained ==
    ASSUME UsageAssumption, UsageTypeOK, CreditsExplained, NEW i \in Packs,
           UNCHANGED usageInvoices,
           \/ /\ packs[i] = "none" /\ packs' = [packs EXCEPT ![i] = "paid"]
              /\ credit' = Adjusted(PackUnits)
           \/ /\ packs[i] = "paid" /\ packs' = [packs EXCEPT ![i] = "refunded"]
              /\ credit' = Adjusted(-PackUnits)
    PROVE  CreditsExplained'
<1>0. /\ credit.units \in Int /\ PackUnits \in Int /\ -PackUnits \in Int
      /\ packs \in [Packs -> {"none", "paid", "refunded"}]
      /\ IsFiniteSet(PaidPacks) /\ Cardinality(PaidPacks) \in Int /\ Spent \in Int
      /\ credit \in [exists : BOOLEAN, units : Int, lock : Closers \cup {"free"}]
  BY CreditTypes
<1>1. Spent' = Spent
  BY DEF Spent
<1>2. CASE packs[i] = "none" /\ packs' = [packs EXCEPT ![i] = "paid"] /\ credit' = Adjusted(PackUnits)
  <2>1. PaidPacks' = PaidPacks \cup {i} /\ i \notin PaidPacks
    BY <1>0, <1>2 DEF PaidPacks
  <2>2. Cardinality(PaidPacks') = Cardinality(PaidPacks) + 1
    BY <1>0, <2>1, FS_AddElement
  <2>3. credit'.units = credit.units + PackUnits
    BY <1>0, <1>2 DEF Adjusted
  <2>4. PackUnits * Cardinality(PaidPacks') = PackUnits * Cardinality(PaidPacks) + PackUnits
    BY <1>0, <2>2, OneMore
  <2>5. PICK worth : worth = PackUnits * Cardinality(PaidPacks)
    OBVIOUS
  <2>6. worth \in Int
    BY <1>0, <2>5
  <2> QED BY <1>0, <1>1, <2>3, <2>4, <2>5, <2>6, ExplainedBySums
<1>3. CASE packs[i] = "paid" /\ packs' = [packs EXCEPT ![i] = "refunded"] /\ credit' = Adjusted(-PackUnits)
  <2>1. PaidPacks' = PaidPacks \ {i} /\ i \in PaidPacks
    BY <1>0, <1>3 DEF PaidPacks
  <2>2. Cardinality(PaidPacks') = Cardinality(PaidPacks) - 1
    BY <1>0, <2>1, FS_RemoveElement
  <2>3. credit'.units = credit.units - PackUnits
    BY <1>0, <1>3 DEF Adjusted
  <2>4. PackUnits * Cardinality(PaidPacks') = PackUnits * Cardinality(PaidPacks) - PackUnits
    BY <1>0, <2>2, OneMore
  <2>5. PICK worth : worth = PackUnits * Cardinality(PaidPacks)
    OBVIOUS
  <2>6. worth \in Int
    BY <1>0, <2>5
  <2> QED BY <1>0, <1>1, <2>3, <2>4, <2>5, <2>6, ExplainedBySums
<1> QED BY <1>2, <1>3

\* The transaction of a closing: what it spends is on the invoice it inserts and off
\* the balance, which has it.
LEMMA ClosingSpends ==
    ASSUME UsageAssumption, CreditsInv, UsageTypeOK', NEW c \in Closers, CloseTransaction(c)
    PROVE  /\ CreditsExplained'
           /\ credit'.units = credit.units \/ credit'.units >= 0
           /\ credit'.exists = credit.exists
           /\ credit.lock # c => credit' = credit
           /\ closer'[c].pc # "rate" /\ \A d \in Closers : d # c => closer'[d] = closer[d]
<1>0. /\ UsageTypeOK /\ CreditsExplained /\ LockHeld /\ closer[c].pc = "rate"
      /\ credit \in [exists : BOOLEAN, units : Int, lock : Closers \cup {"free"}]
      /\ credit.units \in Int /\ closer \in [Closers -> CloserType]
      /\ usageInvoices \in [Periods -> UsageInvoiceType]
      /\ closer[c].period \in Periods /\ closer[c].available \in Nat /\ Spent \in Int
      /\ packs' = packs
  BY CreditTypes DEF CreditsInv, CloseTransaction
<1>1. PICK k, n, spent : k = closer[c].period /\ n = closer[c].available /\ spent = CreditsApplied(k, n)
  OBVIOUS
<1>2. k \in Periods /\ n \in Nat /\ spent \in Nat /\ -spent \in Int /\ spent <= n
  <2>1. k \in Periods /\ n \in Nat
    BY <1>0, <1>1
  <2>2. spent \in Nat /\ spent <= n
    BY <1>1, <2>1, RatingType
  <2> QED BY <2>1, <2>2
<1>3. spent > 0 => credit.exists /\ credit.lock = c /\ credit.units = n
  <2>1. spent > 0 => n > 0
    BY <1>2
  <2> QED BY <1>0, <1>1, <2>1 DEF LockHeld
<1>4. closer'[c].pc # "rate" /\ \A d \in Closers : d # c => closer'[d] = closer[d]
  <2>1. \/ closer' = [closer EXCEPT ![c] = Idle]
        \/ closer' = [closer EXCEPT ![c].pc = "charge", ![c].available = 0]
    BY <1>0 DEF CloseTransaction
  <2> QED BY <1>0, <2>1 DEF Idle, CloserType
<1>5. ASSUME credit' = LockReleased(credit, c), credit' = credit \/ credit.lock = c,
             \A j \in Periods : usageInvoices'[j].credits = usageInvoices[j].credits
      PROVE  /\ CreditsExplained' /\ credit'.units = credit.units /\ credit'.exists = credit.exists
  <2>1. credit'.units = credit.units /\ credit'.exists = credit.exists
    BY <1>0, <1>5 DEF LockReleased
  <2> QED BY <1>0, <1>5, <2>1, StaysExplained
<1>6. LockReleased(credit, c) = credit \/ credit.lock = c
  BY <1>0 DEF LockReleased
<1>7. CASE ~InsertWins(k)
  <2>1. credit' = LockReleased(credit, c) /\ usageInvoices' = usageInvoices
    BY <1>1, <1>7 DEF CloseTransaction
  <2> QED BY <1>4, <1>5, <1>6, <2>1
<1>8. CASE InsertWins(k) /\ spent = 0
  <2>1. credit' = LockReleased(credit, c)
    BY <1>1, <1>8 DEF CloseTransaction
  <2>2. PICK new : usageInvoices' = [usageInvoices EXCEPT ![k] = new] /\ new.credits = 0
    BY <1>1, <1>8 DEF CloseTransaction
  <2>3. usageInvoices[k].credits = 0
    BY <1>8 DEF InsertWins, NoInvoice
  <2>4. \A j \in Periods : usageInvoices'[j].credits = usageInvoices[j].credits
    BY <1>0, <1>2, <2>2, <2>3
  <2> QED BY <1>4, <1>5, <1>6, <2>1, <2>4
<1>9. CASE InsertWins(k) /\ spent # 0
  <2>1. spent > 0
    BY <1>2, <1>9
  <2>2. credit.exists /\ credit.lock = c /\ credit.units = n
    BY <1>3, <2>1
  <2>3. credit' = LockReleased(Adjusted(-spent), c)
    BY <1>1, <1>9, <2>1 DEF CloseTransaction
  <2>4. credit'.units = credit.units - spent /\ credit'.exists = credit.exists
    BY <1>0, <1>2, <2>2, <2>3 DEF LockReleased, Adjusted
  <2>5. credit'.units >= 0
    BY <1>2, <2>2, <2>4
  <2>6. PICK new : usageInvoices' = [usageInvoices EXCEPT ![k] = new] /\ new.credits = spent
    BY <1>1, <1>9 DEF CloseTransaction
  <2>7. usageInvoices'[k].credits = spent /\ usageInvoices[k].credits = 0
    BY <1>0, <1>2, <1>9, <2>6 DEF InsertWins, NoInvoice
  <2>8. \A j \in Periods \ {k} : usageInvoices'[j].credits = usageInvoices[j].credits
    BY <1>0, <1>2, <2>6
  <2>9. Spent' = Spent + (usageInvoices'[k].credits - usageInvoices[k].credits)
    BY <1>0, <1>2, <2>8, SumFollows DEF UsageTypeOK, Spent
  <2>10. Spent' = Spent + spent
    BY <1>0, <1>2, <2>7, <2>9
  <2>11. PaidPacks' = PaidPacks
    BY <1>0 DEF PaidPacks
  <2>12. PICK worth : worth = PackUnits * Cardinality(PaidPacks)
    OBVIOUS
  <2>13. worth \in Int
    BY <2>12, <1>0, CreditTypes
  <2>14. CreditsExplained'
    BY <1>0, <1>2, <2>4, <2>10, <2>11, <2>12, <2>13, ExplainedBySums
  <2> QED BY <1>4, <2>2, <2>4, <2>5, <2>14
<1> QED BY <1>7, <1>8, <1>9

\* Steps that leave the balance and what was spent alone, and start no rating.
LEMMA OtherKeepsCredits ==
    ASSUME UsageAssumption, CreditsInv, UsageTypeOK', credit' = credit, packs' = packs,
           \A k \in Periods : usageInvoices'[k].credits = usageInvoices[k].credits,
           \A c \in Closers : closer'[c].pc = "rate" => closer'[c] = closer[c]
    PROVE  CreditsInv'
<1>1. CreditsExplained'
  BY StaysExplained DEF CreditsInv
<1>2. LockHeld'
  BY DEF CreditsInv, LockHeld
<1> QED BY <1>1, <1>2 DEF CreditsInv

\* A step on the balance that waits for its row to be free meets nobody who rates
\* with its credits.
LEMMA FreeIsUnrated ==
    ASSUME UsageAssumption, CreditsInv, BalanceFree
    PROVE  \A c \in Closers : closer[c].pc = "rate" => closer[c].available = 0
<1> SUFFICES ASSUME NEW c \in Closers, closer[c].pc = "rate", closer[c].available # 0
             PROVE  FALSE
  OBVIOUS
<1>1. closer[c].available > 0
  BY CreditTypes DEF CreditsInv
<1>2. credit.exists /\ credit.lock = c /\ c # "free"
  BY <1>1 DEF CreditsInv, LockHeld, UsageAssumption
<1> QED BY <1>2 DEF BalanceFree

\* Every step keeps the invariant, and spends no more than the balance holds.
LEMMA CreditsStep ==
    ASSUME UsageAssumption, CreditsInv, [UsageNext]_usageVars
    PROVE  /\ CreditsInv'
           /\ credit'.units < credit.units /\ packs' = packs => credit'.units >= 0
<1>0. /\ UsageTypeOK /\ UsageTypeOK' /\ CreditsExplained /\ LockHeld
      /\ credit \in [exists : BOOLEAN, units : Int, lock : Closers \cup {"free"}]
      /\ credit.units \in Int /\ closer \in [Closers -> CloserType]
      /\ usageInvoices \in [Periods -> UsageInvoiceType]
  BY NextUsageType, CreditTypes DEF CreditsInv
<1> DEFINE Spends == credit'.units < credit.units /\ packs' = packs => credit'.units >= 0
<1>1. ASSUME credit' = credit PROVE Spends
  BY <1>0, <1>1
<1>2. ASSUME UNCHANGED <<credit, packs, usageInvoices, closer>> PROVE CreditsInv' /\ Spends
  BY <1>0, <1>1, <1>2, OtherKeepsCredits
<1>3. ASSUME NEW e \in Events, ReduceSnapshot(e) PROVE CreditsInv' /\ Spends
  <2>1. \A c \in Closers : closer'[c].pc = "rate" => closer'[c] = closer[c]
    <3>1. CASE UNCHANGED closer
      BY <3>1
    <3>2. CASE ~(UNCHANGED closer)
      <4>1. PICK c \in Closers :
               closer' = [closer EXCEPT ![c] = [Idle EXCEPT !.pc = "lookup",
                                                            !.period = usageRow.start]]
        BY <1>3, <3>2 DEF ReduceSnapshot
      <4> QED BY <1>0, <4>1 DEF Idle
    <3> QED BY <3>1, <3>2
  <2>2. credit' = credit /\ packs' = packs /\ usageInvoices' = usageInvoices
    BY <1>3 DEF ReduceSnapshot
  <2> QED BY <1>0, <1>1, <2>1, <2>2, OtherKeepsCredits
<1>4. ASSUME NEW e \in Events, ReduceCharge(e) PROVE CreditsInv' /\ Spends
  <2>1. e.n \in Periods /\ UNCHANGED <<credit, packs, closer>>
    BY <1>4, EventNames DEF ReduceCharge
  <2>2. usageInvoices' = [usageInvoices EXCEPT ![e.n] = Outcome(usageInvoices[e.n], e.type)]
    BY <1>0, <1>4 DEF ReduceCharge
  <2>3. Outcome(usageInvoices[e.n], e.type).credits = usageInvoices[e.n].credits
    BY <1>0, <2>1 DEF Outcome, UsageInvoiceType
  <2>4. \A k \in Periods : usageInvoices'[k].credits = usageInvoices[k].credits
    BY <1>0, <2>1, <2>2, <2>3
  <2> QED BY <1>0, <1>1, <2>1, <2>4, OtherKeepsCredits
<1>5. ASSUME NEW i \in Packs, BalanceFree, UNCHANGED <<usageInvoices, closer>>,
             \/ /\ packs[i] = "none" /\ packs' = [packs EXCEPT ![i] = "paid"]
                /\ credit' = Adjusted(PackUnits)
             \/ /\ packs[i] = "paid" /\ packs' = [packs EXCEPT ![i] = "refunded"]
                /\ credit' = Adjusted(-PackUnits)
      PROVE  CreditsInv' /\ Spends
  <2>1. CreditsExplained'
    BY <1>0, <1>5, PackExplained
  <2>2. LockHeld'
    BY <1>5, FreeIsUnrated DEF LockHeld
  <2>3. packs' # packs
    BY <1>0, <1>5 DEF UsageTypeOK
  <2> QED BY <1>0, <2>1, <2>2, <2>3 DEF CreditsInv
<1>6. ASSUME NEW e \in Events, ReducePack(e) PROVE CreditsInv' /\ Spends
  <2>1. e.n \in Packs /\ UNCHANGED <<usageInvoices, closer>>
    BY <1>6 DEF ReducePack, Events
  <2>2. CASE FirstInsert(e.n)
    BY <1>5, <1>6, <2>1, <2>2 DEF ReducePack, FirstInsert
  <2>3. CASE ~FirstInsert(e.n)
    BY <1>2, <1>6, <2>1, <2>3 DEF ReducePack
  <2> QED BY <2>2, <2>3
<1>7. ASSUME NEW i \in Packs, RefundPack(i) PROVE CreditsInv' /\ Spends
  BY <1>5, <1>7 DEF RefundPack
<1>8. ASSUME NEW c \in Closers, LockBalance(c) PROVE CreditsInv' /\ Spends
  <2>1. UNCHANGED <<packs, usageInvoices>> /\ BalanceFree
    BY <1>8 DEF LockBalance
  <2>2. credit'.units = credit.units /\ credit'.exists = credit.exists
        /\ (credit.exists => credit'.lock = c)
    BY <1>0, <1>8 DEF LockBalance, Locks
  <2>3. CreditsExplained'
    BY <1>0, <2>1, <2>2, StaysExplained
  <2>4. PICK n : /\ n = IF credit.exists THEN AtLeastZero(credit.units) ELSE 0
                 /\ closer' = [closer EXCEPT ![c].pc = "rate", ![c].available = n]
    BY <1>8 DEF LockBalance
  <2>5. closer'[c].available = n /\ \A d \in Closers : d # c => closer'[d] = closer[d]
    BY <1>0, <2>4 DEF CloserType
  <2>6. n > 0 => credit.exists /\ credit.units = n
    BY <1>0, <2>4 DEF AtLeastZero
  <2>7. \A d \in Closers : closer'[d].pc = "rate" /\ closer'[d].available > 0 => d = c
    BY <2>1, <2>5, FreeIsUnrated
  <2>8. LockHeld'
    BY <2>2, <2>5, <2>6, <2>7 DEF LockHeld
  <2> QED BY <1>0, <2>2, <2>3, <2>8 DEF CreditsInv
<1>9. ASSUME NEW c \in Closers, CloseTransaction(c) PROVE CreditsInv' /\ Spends
  <2>1. /\ CreditsExplained' /\ (credit'.units = credit.units \/ credit'.units >= 0)
        /\ credit.lock # c => credit' = credit
        /\ closer'[c].pc # "rate" /\ \A d \in Closers : d # c => closer'[d] = closer[d]
    BY <1>0, <1>9, ClosingSpends
  <2>2. LockHeld'
    BY <1>0, <2>1 DEF LockHeld
  <2>3. Spends
    BY <1>0, <2>1
  <2> QED BY <1>0, <2>1, <2>2, <2>3 DEF CreditsInv
<1>10. ASSUME NEW c \in Closers, ChargeUsage(c) \/ ChargeFails(c) PROVE CreditsInv' /\ Spends
  <2>1. UNCHANGED <<credit, packs, usageInvoices>> /\ closer' = [closer EXCEPT ![c] = Idle]
    BY <1>10 DEF ChargeUsage, ChargeFails
  <2>2. \A d \in Closers : closer'[d].pc = "rate" => closer'[d] = closer[d]
    BY <1>0, <2>1 DEF Idle
  <2> QED BY <1>0, <1>1, <2>1, <2>2, OtherKeepsCredits
<1>11. CASE ServerCrash
  <2>1. credit'.units = credit.units /\ packs' = packs /\ usageInvoices' = usageInvoices
    BY <1>0, <1>11 DEF ServerCrash
  <2>2. \A c \in Closers : closer'[c].pc # "rate"
    BY <1>11 DEF ServerCrash, Idle
  <2>3. CreditsExplained' /\ LockHeld'
    BY <1>0, <2>1, <2>2, StaysExplained DEF LockHeld
  <2> QED BY <1>0, <2>1, <2>3 DEF CreditsInv
<1>12. ASSUME NEW i \in Keys, RecordUsage(i) PROVE CreditsInv' /\ Spends
  BY <1>2, <1>12 DEF RecordUsage
<1>13. ASSUME NEW e \in Events, ReduceCanceled(e) PROVE CreditsInv' /\ Spends
  BY <1>2, <1>13 DEF ReduceCanceled
<1>14. ASSUME NEW i \in Packs, BuyPack(i) PROVE CreditsInv' /\ Spends
  BY <1>2, <1>14 DEF BuyPack
<1>15. ASSUME NEW k \in Periods, ChargeSettles(k) PROVE CreditsInv' /\ Spends
  BY <1>2, <1>15 DEF ChargeSettles
<1>16. CASE NextPeriod \/ CancelAtPaddle
  BY <1>2, <1>16 DEF NextPeriod, CancelAtPaddle
<1>17. CASE UNCHANGED usageVars
  BY <1>2, <1>17 DEF usageVars
<1> QED BY <1>3, <1>4, <1>6, <1>7, <1>8, <1>9, <1>10, <1>11, <1>12, <1>13, <1>14, <1>15,
           <1>16, <1>17 DEF UsageNext, Reducer, Listener

LEMMA CreditsStart == ASSUME UsageAssumption, UsageInit PROVE CreditsInv
<1>1. UsageTypeOK
  BY UsageTypeInit
<1>2. LockHeld
  BY DEF UsageInit, LockHeld, Idle
<1>3. credit.units = 0 /\ PaidPacks = {}
  BY DEF UsageInit, PaidPacks
<1>4. \A k \in Periods : usageInvoices[k].credits = 0
  BY DEF UsageInit, NoInvoice
<1>5. Spent = 0
  BY <1>1, <1>4, NothingSpent DEF UsageTypeOK, Spent
<1>6. Cardinality(PaidPacks) = 0 /\ PackUnits * 0 = 0
  BY <1>3, FS_EmptySet DEF UsageAssumption
<1>7. CreditsExplained
  BY <1>3, <1>5, <1>6, ExplainedBySums
<1> QED BY <1>1, <1>2, <1>7 DEF CreditsInv

\* Every unit of the balance is accounted for by packs that were paid and not
\* refunded and by invoices that spent, whatever is replayed, raced, refunded or
\* crashed (credit.service.ts:11-19).
THEOREM BalanceIsExplained == UsageAssumption => (UsageSpec => []CreditsExplained)
<1> SUFFICES ASSUME UsageAssumption PROVE UsageSpec => []CreditsExplained
  OBVIOUS
<1>1. UsageInit => CreditsInv
  BY CreditsStart
<1>2. CreditsInv /\ [UsageNext]_usageVars => CreditsInv'
  BY CreditsStep
<1>3. CreditsInv => CreditsExplained
  BY DEF CreditsInv
<1> QED BY <1>1, <1>2, <1>3, PTL DEF UsageSpec

\* Racing closings do not spend one unit twice: without a refund the balance is not
\* lowered below zero, for the row stays locked from the read to the spending
\* (credit.service.ts, availableUnitsForUpdate).
THEOREM CreditsAreNotOverspent == UsageAssumption => (UsageSpec => NeverOverspent)
<1> SUFFICES ASSUME UsageAssumption PROVE UsageSpec => NeverOverspent
  OBVIOUS
<1>1. UsageInit => CreditsInv
  BY CreditsStart
<1>2. CreditsInv /\ [UsageNext]_usageVars => CreditsInv'
  BY CreditsStep
<1>3. CreditsInv /\ [UsageNext]_usageVars
      => [credit'.units < credit.units /\ packs' = packs => credit'.units >= 0]_usageVars
  BY CreditsStep
<1> QED BY <1>1, <1>2, <1>3, PTL DEF UsageSpec, NeverOverspent

=============================================================================
