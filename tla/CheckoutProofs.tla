--------------------------- MODULE CheckoutProofs ---------------------------
(* What holds of checkouts, cancellations and the reductions that race     *)
(* with them, for any number of requests, reductions, rows and hosted      *)
(* payments, and any number of rolled back transactions.                   *)
EXTENDS Checkout, WellFoundedInduction, TLAPS

----------------------------------------------------------------------------
(* The inductive invariant. *)

Captured(s) == sessions[s].status \in {"paid", "ended"}

PaidFor(r) ==
    \E s \in Sessions : invoices[s] = [paid |-> TRUE, row |-> r] /\ sessions[s].kind = "plan"

(* The row r, as it is or as a reduction has read it, is backed by money.  *)
Backed(r, row) ==
    /\ row.psid # 0 => Captured(row.psid)
    /\ r # 0 /\ row.status \in Entitled /\ row.psid = 0 => PaidFor(r)

RowsAreBacked == \A r \in Rows : Backed(r, sub[r])

(* A row is saved as it was read, whatever became of it since: what was    *)
(* read must stay backed until then.                                       *)
SeenAreBacked == \A w \in Reducers : Backed(tx[w].row, tx[w].seen)

(* A session that was not opened has no payment.                           *)
UnusedIsUnpaid ==
    \A s \in Sessions :
        sessions[s].kind = "none" => sessions[s].status = "none" /\ ~invoices[s].paid

(* A reduction is about something that happened; a purchase has no row.    *)
ReducesFacts ==
    \A w \in Reducers :
        tx[w].pc # "idle" => /\ Captured(tx[w].s)
                             /\ sessions[tx[w].s].kind = "once" => tx[w].row = 0

(* A reduction that went past the insert of its invoice.                   *)
Inserted(w, s) == tx[w].pc \in {"point", "save"} /\ tx[w].s = s /\ sessions[s].kind # "card"

(* It is the only one, and nobody has committed that invoice before.       *)
OneInserts ==
    \A s \in Sessions, w \in Reducers :
        Inserted(w, s) => ~invoices[s].paid /\ \A v \in Reducers : Inserted(v, s) => v = w

(* A request that is about to save the customer names a region.            *)
AtWork == {q \in RequestType : q.pc = "region" => q.mode \in Providers \cup {"none"}}

CheckoutInv ==
    /\ CheckoutTypeOK
    /\ request \in [Requests -> AtWork]
    /\ UnusedIsUnpaid
    /\ RowsAreBacked
    /\ SeenAreBacked
    /\ ReducesFacts
    /\ OneInserts
    /\ GrantedOnce

----------------------------------------------------------------------------
(* The helpers. *)

\* A set of bounded naturals has a greatest element.
LEMMA HasGreatest ==
    ASSUME NEW N \in Nat, NEW S \in SUBSET (1..N), S # {}
    PROVE  \E m \in S : \A q \in S : q <= m
<1> DEFINE less == OpToRel(<, Nat)
           mirrored == {N - q : q \in S}
<1>1. IsWellFoundedOn(less, Nat)
  BY NatLessThanWellFounded
<1>2. mirrored \subseteq Nat /\ mirrored # {}
  <2>1. \A q \in S : N - q \in Nat
    OBVIOUS
  <2>2. PICK q \in S : TRUE
    OBVIOUS
  <2> QED BY <2>1, <2>2
<1>3. \A a, b \in Nat : a < b => <<a, b>> \in less
  BY DEF OpToRel
<1> HIDE DEF less
<1>4. PICK x \in mirrored : \A y \in mirrored : ~(<<y, x>> \in less)
  BY <1>1, <1>2, WFMin
<1>5. PICK m \in S : x = N - m
  OBVIOUS
<1>6. \A q \in S : ~(N - q < N - m)
  BY <1>2, <1>3, <1>4, <1>5
<1> QED BY <1>6

\* The latest of some rows is one of them, or 0 when there is none.
LEMMA LatestIsOneOfThem ==
    ASSUME NEW rows \in SUBSET Rows
    PROVE  IF rows = {} THEN LatestOf(rows) = 0 ELSE LatestOf(rows) \in rows
<1>1. CASE rows = {}
  BY <1>1 DEF LatestOf
<1>2. CASE rows # {}
  <2>1. \E r \in rows : \A q \in rows : q <= r
    BY <1>2, HasGreatest, CheckoutAssumption DEF CheckoutAssumption, Rows
  <2> QED BY <1>2, <2>1 DEF LatestOf
<1> QED BY <1>1, <1>2

\* The initial values are well typed.
LEMMA ConstantTypes ==
    /\ NoRow \in RowType /\ NoRow.status = "none" /\ NoRow.psid = 0
    /\ NoSession \in SessionType /\ NoSession.kind = "none" /\ NoSession.status = "none"
    /\ IdleRequest \in AtWork
    /\ IdleTx \in TxType /\ IdleTx.pc = "idle" /\ IdleTx.row = 0 /\ IdleTx.seen = NoRow
    /\ 1 \in Sessions
<1>0. MaxRows \in Nat \ {0} /\ MaxSessions \in Nat \ {0} /\ Plans # {}
  BY CheckoutAssumption DEF CheckoutAssumption
<1>1. (CHOOSE p \in Plans : TRUE) \in Plans
  BY <1>0
<1>2. NoRow \in RowType /\ NoRow.status = "none" /\ NoRow.psid = 0 /\ NoRow.plan \in Plans
  BY <1>0, <1>1 DEF NoRow, RowType, Open, Providers
<1>3. NoSession \in SessionType /\ NoSession.kind = "none" /\ NoSession.status = "none"
  BY <1>2 DEF NoSession, SessionType, Providers
<1>4. IdleRequest \in AtWork
  BY <1>0, <1>2 DEF IdleRequest, AtWork, RequestType, Providers
<1>5. IdleTx \in TxType /\ IdleTx.pc = "idle" /\ IdleTx.row = 0 /\ IdleTx.seen = NoRow
      /\ 1 \in Sessions
  BY <1>0, <1>2 DEF IdleTx, TxType, Sessions
<1> QED BY <1>2, <1>3, <1>4, <1>5

\* The invariant holds at the start.
LEMMA InitEstablishes == Init => CheckoutInv
<1> SUFFICES ASSUME Init PROVE CheckoutInv
  OBVIOUS
<1>0. MaxRows \in Nat /\ MaxSessions \in Nat /\ MaxIncidents \in Nat
  BY CheckoutAssumption DEF CheckoutAssumption
<1>1. CheckoutTypeOK /\ request \in [Requests -> AtWork]
  BY <1>0, ConstantTypes DEF Init, CheckoutTypeOK, FirstCustomer, Unpaid, AtWork
<1>2. UnusedIsUnpaid /\ GrantedOnce
  BY ConstantTypes DEF Init, UnusedIsUnpaid, GrantedOnce, Unpaid
<1>3. RowsAreBacked /\ SeenAreBacked
  BY ConstantTypes DEF Init, RowsAreBacked, SeenAreBacked, Backed, Entitled
<1>4. ReducesFacts /\ OneInserts
  BY ConstantTypes DEF Init, ReducesFacts, OneInserts, Inserted
<1> QED BY <1>1, <1>2, <1>3, <1>4 DEF CheckoutInv

----------------------------------------------------------------------------
(* What a step may do to the sessions and to the rows. *)

(* A session is opened once, and what was captured stays captured.         *)
SessionsMove ==
    /\ sessions' \in [Sessions -> SessionType]
    /\ \A s \in Sessions :
          /\ sessions[s].kind # "none" => /\ sessions'[s].kind = sessions[s].kind
                                           /\ sessions'[s].provider = sessions[s].provider
          /\ Captured(s) => sessions'[s].status \in {"paid", "ended"}
          /\ sessions'[s].kind = "none" =>
                sessions[s].kind = "none" /\ sessions'[s].status = "none"

(* A step of anyone but a reduction that holds a transaction.              *)
OtherStep ==
    /\ UNCHANGED <<methods, invoices, grants, tx>>
    /\ sub' \in [Rows -> RowType]
    /\ customer' \in [override : Providers \cup {"none"}, pointer : 0..MaxSessions,
                      lock : Reducers \cup {"free"}]
    /\ request' \in [Requests -> AtWork]
    /\ incidents' \in 0..MaxIncidents
    /\ SessionsMove
    /\ \A r \in Rows : Backed(r, sub'[r])

\* Sessions that did not change have moved.
LEMMA SessionsStay == ASSUME CheckoutInv, UNCHANGED sessions PROVE SessionsMove
BY DEF CheckoutInv, CheckoutTypeOK, UnusedIsUnpaid, SessionsMove, Captured

\* A hosted payment that is opened takes an unused session.
LEMMA StartMoves ==
    ASSUME CheckoutInv, NEW kind \in {"plan", "once", "card"}, NEW provider \in Providers,
           NEW plan \in Plans, SessionStarts(kind, provider, plan)
    PROVE  SessionsMove
<1>1. CASE UNCHANGED sessions
  BY <1>1, SessionsStay
<1>2. ASSUME NEW s \in Sessions, UnusedSession(s),
             sessions' = [sessions EXCEPT ![s] =
                [kind |-> kind, provider |-> provider, plan |-> plan,
                 status |-> "open", saved |-> FALSE]]
      PROVE  SessionsMove
  <2>1. [kind |-> kind, provider |-> provider, plan |-> plan,
         status |-> "open", saved |-> FALSE] \in SessionType
    BY DEF SessionType
  <2>2. sessions[s].kind = "none" /\ sessions[s].status = "none"
    BY <1>2 DEF UnusedSession, CheckoutInv, UnusedIsUnpaid
  <2> QED BY <1>2, <2>1, <2>2
          DEF SessionsMove, CheckoutInv, CheckoutTypeOK, UnusedIsUnpaid, Captured
<1> QED BY <1>1, <1>2 DEF SessionStarts

\* So does one that is paid or ended.
LEMMA StatusMoves ==
    ASSUME CheckoutInv, NEW s \in Sessions, NEW status \in {"paid", "ended"},
           NEW saved \in BOOLEAN, sessions[s].status \in {"open", "paid", "ended"},
           sessions' = [sessions EXCEPT ![s] = [@ EXCEPT !.status = status, !.saved = saved]]
    PROVE  SessionsMove
<1>1. sessions \in [Sessions -> SessionType] /\ sessions[s].kind # "none"
  BY DEF CheckoutInv, CheckoutTypeOK, UnusedIsUnpaid
<1>2. [sessions[s] EXCEPT !.status = status, !.saved = saved] \in SessionType
  BY <1>1 DEF SessionType
<1>3. /\ sessions'[s] = [sessions[s] EXCEPT !.status = status, !.saved = saved]
      /\ sessions'[s].kind = sessions[s].kind /\ sessions'[s].status = status
      /\ sessions'[s].provider = sessions[s].provider
      /\ \A q \in Sessions : q # s => sessions'[q] = sessions[q]
  BY <1>1 DEF SessionType
<1>4. sessions' \in [Sessions -> SessionType]
  BY <1>1, <1>2
<1> QED BY <1>1, <1>3, <1>4 DEF SessionsMove, CheckoutInv, UnusedIsUnpaid, Captured

\* What was backed by money stays backed: no invoice is taken back.
LEMMA BackedStays ==
    ASSUME CheckoutInv, SessionsMove,
           \A s \in Sessions : invoices[s].paid => invoices'[s] = invoices[s],
           NEW r \in 0..MaxRows, NEW row \in RowType, Backed(r, row)
    PROVE  Backed(r, row)'
<1>1. row.psid \in 0..MaxSessions /\ (row.psid # 0 => row.psid \in Sessions)
  BY CheckoutAssumption DEF CheckoutAssumption, RowType, Sessions
<1>2. row.psid # 0 => Captured(row.psid)'
  BY <1>1 DEF Backed, SessionsMove, Captured
<1>3. ASSUME PaidFor(r) PROVE PaidFor(r)'
  BY <1>3 DEF PaidFor, SessionsMove
<1> QED BY <1>2, <1>3 DEF Backed

\* A row that is replaced by one that is backed leaves the rows backed.
LEMMA RowMoves ==
    ASSUME CheckoutInv, NEW q \in Rows, NEW row \in RowType, Backed(q, row),
           sub' = [sub EXCEPT ![q] = row]
    PROVE  sub' \in [Rows -> RowType] /\ \A r \in Rows : Backed(r, sub'[r])
<1>1. sub \in [Rows -> RowType] /\ \A r \in Rows : Backed(r, sub[r])
  BY DEF CheckoutInv, CheckoutTypeOK, RowsAreBacked
<1>2. \A r \in Rows : sub'[r] = IF r = q THEN row ELSE sub[r]
  BY <1>1
<1> QED BY <1>1, <1>2

\* Rows that did not change stay backed.
LEMMA RowsStay ==
    ASSUME CheckoutInv, UNCHANGED sub
    PROVE  sub' \in [Rows -> RowType] /\ \A r \in Rows : Backed(r, sub'[r])
BY DEF CheckoutInv, CheckoutTypeOK, RowsAreBacked

\* A row that gets another status is backed, unless it is opened by the change.
LEMMA StatusIsBacked ==
    ASSUME CheckoutInv, NEW r \in Rows, NEW status \in Open \cup {"canceled"},
           NEW atEnd \in BOOLEAN,
           status \in Entitled => sub[r].status \in Entitled \/ sub[r].psid # 0
    PROVE  LET row == [sub[r] EXCEPT !.status = status, !.atEnd = atEnd]
           IN  row \in RowType /\ Backed(r, row)
<1> DEFINE row == [sub[r] EXCEPT !.status = status, !.atEnd = atEnd]
<1>1. sub[r] \in RowType /\ Backed(r, sub[r])
  BY DEF CheckoutInv, CheckoutTypeOK, RowsAreBacked
<1>2. row \in RowType /\ row.status = status /\ row.psid = sub[r].psid
  BY <1>1 DEF RowType
<1>3. Backed(r, row)
  BY <1>1, <1>2 DEF Backed
<1> QED BY <1>2, <1>3

\* A new row that grants no access needs no money.
LEMMA IncompleteIsBacked ==
    ASSUME CheckoutInv, NEW c \in Requests, NEW r \in Rows
    PROVE  IncompleteRow(c) \in RowType /\ Backed(r, IncompleteRow(c))
<1>1. request[c].plan \in Plans
  BY DEF CheckoutInv, CheckoutTypeOK, RequestType
<1>2. /\ IncompleteRow(c) \in RowType
      /\ IncompleteRow(c).status = "incomplete" /\ IncompleteRow(c).psid = 0
  BY <1>1, ConstantTypes DEF IncompleteRow, NoRow, RowType, Open
<1> QED BY <1>2 DEF Backed, Entitled

----------------------------------------------------------------------------
(* The requests. *)

\* A request that changes nothing but itself.
LEMMA RequestMoves ==
    ASSUME CheckoutInv, NEW c \in Requests, NEW req \in AtWork,
           request' = [request EXCEPT ![c] = req]
    PROVE  request' \in [Requests -> AtWork]
BY DEF CheckoutInv, CheckoutTypeOK

\* What the type invariant says of the parts a request leaves alone.
LEMMA PartsAreTyped ==
    ASSUME CheckoutInv
    PROVE  /\ sub \in [Rows -> RowType]
           /\ customer \in [override : Providers \cup {"none"}, pointer : 0..MaxSessions,
                            lock : Reducers \cup {"free"}]
           /\ sessions \in [Sessions -> SessionType]
           /\ request \in [Requests -> AtWork]
           /\ tx \in [Reducers -> TxType]
           /\ incidents \in 0..MaxIncidents
BY DEF CheckoutInv, CheckoutTypeOK

LEMMA StartAndPending ==
    ASSUME CheckoutInv, NEW c \in Requests,
           CheckoutPending(c) \/ \E p \in Plans : CheckoutStart(c, p)
    PROVE  OtherStep
<1>1. UNCHANGED <<sub, customer, sessions, methods, invoices, grants, tx, incidents>>
  BY DEF CheckoutPending, CheckoutStart, reductionUnchanged
<1>2. request' \in [Requests -> AtWork]
  <2>1. ASSUME NEW p \in Plans, CheckoutStart(c, p) PROVE request' \in [Requests -> AtWork]
    <3>1. EffectiveWith(customer.override) \in Providers
      BY PartsAreTyped DEF EffectiveWith, Providers
    <3>2. [IdleRequest EXCEPT !.pc = "resolve", !.plan = p,
                              !.provider = EffectiveWith(customer.override)] \in AtWork
      BY <3>1, ConstantTypes DEF AtWork, RequestType
    <3> QED BY <2>1, <3>2, RequestMoves DEF CheckoutStart
  <2>2. ASSUME request' = [request EXCEPT ![c].pc = "write",
                                          ![c].row = LatestOf(IncompleteRows)]
        PROVE request' \in [Requests -> AtWork]
    <3>1. LatestOf(IncompleteRows) \in 0..MaxRows
      BY LatestIsOneOfThem, CheckoutAssumption DEF CheckoutAssumption, IncompleteRows, Rows
    <3>2. request[c] \in AtWork
      BY PartsAreTyped
    <3>3. [request[c] EXCEPT !.pc = "write", !.row = LatestOf(IncompleteRows)] \in AtWork
      BY <3>1, <3>2 DEF AtWork, RequestType
    <3>4. request' = [request EXCEPT ![c] = [request[c] EXCEPT !.pc = "write",
                                                !.row = LatestOf(IncompleteRows)]]
      BY <2>2, PartsAreTyped
    <3> QED BY <3>3, <3>4, RequestMoves
  <2>3. ASSUME Finish(c) PROVE request' \in [Requests -> AtWork]
    BY <2>3, ConstantTypes, RequestMoves DEF Finish
  <2> QED BY <2>1, <2>2, <2>3 DEF CheckoutPending
<1> QED BY <1>1, <1>2, PartsAreTyped, SessionsStay, RowsStay DEF OtherStep

LEMMA WriteMoves == ASSUME CheckoutInv, NEW c \in Requests, CheckoutWrite(c) PROVE OtherStep
<1>0. request[c] \in AtWork
  BY PartsAreTyped
<1>1. UNCHANGED <<customer, methods, invoices, grants, tx, incidents>>
  BY DEF CheckoutWrite, reductionUnchanged
<1>2. request' \in [Requests -> AtWork]
  BY ConstantTypes, RequestMoves DEF CheckoutWrite, Finish
<1>3. SessionsMove
  <2>1. request[c].provider \in Providers /\ request[c].plan \in Plans
    BY <1>0 DEF AtWork, RequestType
  <2>2. SessionStarts("plan", request[c].provider, request[c].plan) \/ UNCHANGED sessions
    BY DEF CheckoutWrite
  <2> QED BY <2>1, <2>2, StartMoves, SessionsStay
<1>4. sub' \in [Rows -> RowType] /\ \A r \in Rows : Backed(r, sub'[r])
  <2> DEFINE r == request[c].row
  <2>1. r # 0 => r \in Rows
    BY <1>0, CheckoutAssumption DEF CheckoutAssumption, AtWork, RequestType, Rows
  <2>2. ASSUME NEW q \in Rows, sub' = [sub EXCEPT ![q] = IncompleteRow(c)]
        PROVE  sub' \in [Rows -> RowType] /\ \A x \in Rows : Backed(x, sub'[x])
    BY <2>2, RowMoves, IncompleteIsBacked
  <2>3. ASSUME r # 0, sub' = [sub EXCEPT ![r].status = "canceled"]
        PROVE  sub' \in [Rows -> RowType] /\ \A x \in Rows : Backed(x, sub'[x])
    <3>1. r \in Rows /\ sub[r] \in RowType
      BY <2>1, <2>3, PartsAreTyped
    <3>2. sub' = [sub EXCEPT ![r] = [sub[r] EXCEPT !.status = "canceled",
                                                   !.atEnd = sub[r].atEnd]]
      BY <2>3, <3>1 DEF RowType
    <3>3. sub[r].atEnd \in BOOLEAN
      BY <3>1 DEF RowType
    <3>4. [sub[r] EXCEPT !.status = "canceled", !.atEnd = sub[r].atEnd] \in RowType
          /\ Backed(r, [sub[r] EXCEPT !.status = "canceled", !.atEnd = sub[r].atEnd])
      BY <3>1, <3>3, StatusIsBacked DEF Entitled
    <3> QED BY <3>1, <3>2, <3>4, RowMoves
  <2>4. \/ UNCHANGED sub
        \/ \E q \in Rows : sub' = [sub EXCEPT ![q] = IncompleteRow(c)]
        \/ r # 0 /\ sub' = [sub EXCEPT ![r].status = "canceled"]
    BY <2>1 DEF CheckoutWrite
  <2> QED BY <2>2, <2>3, <2>4, RowsStay
<1> QED BY <1>1, <1>2, <1>3, <1>4, PartsAreTyped DEF OtherStep

LEMMA HostedMoves == ASSUME CheckoutInv, Purchase \/ StartCardUpdate PROVE OtherStep
<1>1. UNCHANGED <<sub, customer, request, methods, invoices, grants, tx, incidents>>
  BY DEF Purchase, StartCardUpdate, reductionUnchanged
<1>2. NoRow.plan \in Plans
  BY ConstantTypes DEF RowType
<1>3. SessionsMove
  <2>1. EffectiveWith(customer.override) \in Providers /\ "yookassa" \in Providers
    BY PartsAreTyped DEF EffectiveWith, Providers
  <2>2. CASE Purchase
    BY <1>2, <2>1, <2>2, StartMoves DEF Purchase
  <2>3. CASE StartCardUpdate
    BY <1>2, <2>1, <2>3, StartMoves DEF StartCardUpdate
  <2> QED BY <2>2, <2>3
<1> QED BY <1>1, <1>3, RowsStay, PartsAreTyped DEF OtherStep

\* A session whose row was made by a reduction was captured, and may end.
LEMMA EndMoves ==
    ASSUME CheckoutInv, NEW s \in Sessions, Captured(s),
           sessions' = [sessions EXCEPT ![s].status = "ended"]
    PROVE  SessionsMove
<1>1. sessions[s] \in SessionType
  BY PartsAreTyped
<1>2. sessions' = [sessions EXCEPT ![s] = [sessions[s] EXCEPT !.status = "ended",
                                                              !.saved = sessions[s].saved]]
  BY <1>1, PartsAreTyped DEF SessionType
<1>3. sessions[s].saved \in BOOLEAN
  BY <1>1 DEF SessionType
<1> QED BY <1>2, <1>3, StatusMoves DEF Captured

LEMMA CancelMoves ==
    ASSUME CheckoutInv, NEW c \in Requests,
           CancelWrite(c) \/ \E mode \in {"immediate", "period_end"} : CancelRead(c, mode)
    PROVE  OtherStep
<1>1. UNCHANGED <<customer, methods, invoices, grants, tx, incidents>>
  BY DEF CancelRead, CancelWrite, reductionUnchanged
<1>2. ASSUME NEW mode \in {"immediate", "period_end"}, CancelRead(c, mode)
      PROVE  request' \in [Requests -> AtWork] /\ SessionsMove /\ UNCHANGED sub
  <2>1. PICK r : /\ r = LatestOf(OpenRows)
                 /\ request' = [request EXCEPT ![c] = [IdleRequest EXCEPT !.pc = "cancel",
                                                                  !.row = r, !.mode = mode]]
                 /\ sessions' = IF sub[r].psid # 0 /\ mode = "immediate"
                                THEN [sessions EXCEPT ![sub[r].psid].status = "ended"]
                                ELSE sessions
    BY <1>2 DEF CancelRead
  <2>2. r \in Rows /\ r \in 0..MaxRows
    <3>1. OpenRows \in SUBSET Rows /\ OpenRows # {}
      BY <1>2 DEF CancelRead, OpenRows
    <3>2. r \in OpenRows
      BY <2>1, <3>1, LatestIsOneOfThem
    <3> QED BY <3>1, <3>2, CheckoutAssumption DEF CheckoutAssumption, Rows
  <2>3. [IdleRequest EXCEPT !.pc = "cancel", !.row = r, !.mode = mode] \in AtWork
    BY <2>2, ConstantTypes DEF AtWork, RequestType
  <2>4. sub[r].psid # 0 => sub[r].psid \in Sessions /\ Captured(sub[r].psid)
    BY <2>2, PartsAreTyped, CheckoutAssumption
       DEF CheckoutAssumption, CheckoutInv, RowsAreBacked, Backed, RowType, Sessions
  <2> QED BY <1>2, <2>1, <2>3, <2>4, EndMoves, SessionsStay, RequestMoves DEF CancelRead
<1>3. ASSUME CancelWrite(c)
      PROVE  /\ request' \in [Requests -> AtWork] /\ SessionsMove
             /\ sub' \in [Rows -> RowType] /\ \A r \in Rows : Backed(r, sub'[r])
  <2>1. request' \in [Requests -> AtWork] /\ UNCHANGED sessions
    BY <1>3, ConstantTypes, RequestMoves DEF CancelWrite, Finish
  <2>2. PICK r, mode : r = request[c].row /\ mode = request[c].mode
    OBVIOUS
  <2>3. CASE sub[r].status \in Open /\ r \in Rows
    <3>1. sub[r] \in RowType /\ sub' = [sub EXCEPT ![r] = CancelFields(sub[r], mode)]
      BY <1>3, <2>2, <2>3, PartsAreTyped DEF CancelWrite
    <3>2. ASSUME mode = "immediate"
          PROVE  CancelFields(sub[r], mode) \in RowType /\ Backed(r, CancelFields(sub[r], mode))
      <4>1. CancelFields(sub[r], mode)
               = [sub[r] EXCEPT !.status = "canceled", !.atEnd = FALSE]
        BY <3>2 DEF CancelFields
      <4>2. "canceled" \in Open \cup {"canceled"} /\ "canceled" \notin Entitled
        BY DEF Entitled
      <4>3. LET row == [sub[r] EXCEPT !.status = "canceled", !.atEnd = FALSE]
            IN  row \in RowType /\ Backed(r, row)
        BY <2>3, <4>2, StatusIsBacked
      <4> QED BY <4>1, <4>3
    <3>3. ASSUME mode # "immediate"
          PROVE  CancelFields(sub[r], mode) \in RowType /\ Backed(r, CancelFields(sub[r], mode))
      <4>1. CancelFields(sub[r], mode)
               = [sub[r] EXCEPT !.status = sub[r].status, !.atEnd = TRUE]
        BY <3>1, <3>3 DEF CancelFields, RowType
      <4>2. sub[r].status \in Open \cup {"canceled"}
        BY <2>3
      <4> QED BY <2>3, <4>1, <4>2, StatusIsBacked
    <3>4. CancelFields(sub[r], mode) \in RowType /\ Backed(r, CancelFields(sub[r], mode))
      BY <3>2, <3>3
    <3> QED BY <2>1, <2>3, <3>1, <3>4, RowMoves, SessionsStay
  <2>4. CASE ~(sub[r].status \in Open /\ r \in Rows)
    <3>1. UNCHANGED sub
      BY <1>3, <2>2, <2>4, PartsAreTyped DEF CancelWrite
    <3> QED BY <2>1, <3>1, RowsStay, SessionsStay
  <2> QED BY <2>3, <2>4
<1> QED BY <1>1, <1>2, <1>3, RowsStay, PartsAreTyped DEF OtherStep

LEMMA RegionMoves ==
    ASSUME CheckoutInv, NEW c \in Requests,
           RegionWrite(c) \/ \E override \in {"none", "paddle"} : RegionRead(c, override)
    PROVE  OtherStep
<1>1. UNCHANGED <<sub, sessions, methods, invoices, grants, tx, incidents>>
  BY DEF RegionRead, RegionWrite, reductionUnchanged
<1>2. customer.pointer \in 0..MaxSessions /\ request[c] \in AtWork
  BY PartsAreTyped
<1>3. ASSUME NEW override \in {"none", "paddle"}, RegionRead(c, override)
      PROVE  request' \in [Requests -> AtWork] /\ UNCHANGED customer
  <2>1. [IdleRequest EXCEPT !.pc = "region", !.mode = override, !.pointer = customer.pointer]
           \in AtWork
    BY <1>2, ConstantTypes DEF AtWork, RequestType, Providers
  <2> QED BY <1>3, <2>1, RequestMoves DEF RegionRead
<1>4. ASSUME RegionWrite(c)
      PROVE  /\ request' \in [Requests -> AtWork]
             /\ customer' \in [override : Providers \cup {"none"}, pointer : 0..MaxSessions,
                               lock : Reducers \cup {"free"}]
  <2>1. request[c].mode \in Providers \cup {"none"} /\ request[c].pointer \in 0..MaxSessions
    BY <1>2, <1>4 DEF RegionWrite, AtWork, RequestType
  <2> QED BY <1>4, <2>1, ConstantTypes, RequestMoves, PartsAreTyped DEF RegionWrite, Finish
<1> QED BY <1>1, <1>3, <1>4, RowsStay, SessionsStay, PartsAreTyped DEF OtherStep

----------------------------------------------------------------------------
(* The providers, the other writers and the snapshots. *)

LEMMA PaymentMoves ==
    ASSUME CheckoutInv, NEW s \in Sessions, Pay(s) \/ EndAtPaddle(s)
    PROVE  OtherStep
<1>1. UNCHANGED <<sub, customer, request, methods, invoices, grants, tx, incidents>>
  BY DEF Pay, EndAtPaddle, reductionUnchanged
<1>2. sessions[s] \in SessionType /\ sessions \in [Sessions -> SessionType]
  BY PartsAreTyped
<1>3. ASSUME Pay(s) PROVE SessionsMove
  <2>1. PICK saved \in (IF sessions[s].kind = "plan" THEN BOOLEAN
                                                     ELSE {sessions[s].kind = "card"}) :
           sessions' = [sessions EXCEPT ![s].status = "paid", ![s].saved = saved]
    BY <1>3 DEF Pay
  <2>2. saved \in BOOLEAN
    BY <2>1
  <2>3. sessions' = [sessions EXCEPT ![s] = [sessions[s] EXCEPT !.status = "paid",
                                                                !.saved = saved]]
    BY <1>2, <2>1
  <2>4. sessions[s].status \in {"open", "paid", "ended"}
    BY <1>3 DEF Pay
  <2> QED BY <2>2, <2>3, <2>4, StatusMoves
<1>4. ASSUME EndAtPaddle(s) PROVE SessionsMove
  BY <1>4, EndMoves DEF EndAtPaddle, Captured
<1> QED BY <1>1, <1>3, <1>4, RowsStay, PartsAreTyped DEF OtherStep

LEMMA IncidentCounts == ASSUME CheckoutInv, Incident PROVE incidents' \in 0..MaxIncidents
BY PartsAreTyped, CheckoutAssumption DEF Incident, CheckoutAssumption

LEMMA RenewalMoves == ASSUME CheckoutInv, NEW r \in Rows, RenewalWrites(r) PROVE OtherStep
<1>1. UNCHANGED <<customer, sessions, request, methods, invoices, grants, tx>>
      /\ incidents' \in 0..MaxIncidents
  BY IncidentCounts DEF RenewalWrites, ledgerUnchanged
<1>2. PICK status \in {"active", "past_due", "canceled"} :
         sub' = [sub EXCEPT ![r].status = status] /\ sub[r].status \in Entitled
  BY DEF RenewalWrites
<1>3. sub[r] \in RowType /\ sub[r].atEnd \in BOOLEAN
  BY PartsAreTyped DEF RowType
<1>4. sub' = [sub EXCEPT ![r] = [sub[r] EXCEPT !.status = status, !.atEnd = sub[r].atEnd]]
  BY <1>2, <1>3, PartsAreTyped DEF RowType
<1>5. status \in Open \cup {"canceled"}
  BY DEF Open
<1>6. LET row == [sub[r] EXCEPT !.status = status, !.atEnd = sub[r].atEnd]
      IN  row \in RowType /\ Backed(r, row)
  BY <1>2, <1>3, <1>5, StatusIsBacked
<1>7. sub' \in [Rows -> RowType] /\ \A q \in Rows : Backed(q, sub'[q])
  BY <1>4, <1>6, RowMoves
<1> QED BY <1>1, <1>7, SessionsStay, PartsAreTyped DEF OtherStep

LEMMA DeletionMoves == ASSUME CheckoutInv, NEW r \in Rows, DeletionCancels(r) PROVE OtherStep
<1>1. UNCHANGED <<customer, request, methods, invoices, grants, tx>>
      /\ incidents' \in 0..MaxIncidents
  BY IncidentCounts DEF DeletionCancels, ledgerUnchanged
<1>2. CASE sub[r].psid = 0
  <2>1. sub' = [sub EXCEPT ![r] = [sub[r] EXCEPT !.status = "canceled", !.atEnd = FALSE]]
        /\ UNCHANGED sessions
    BY <1>2, PartsAreTyped DEF DeletionCancels, CancelFields
  <2>2. "canceled" \in Open \cup {"canceled"} /\ "canceled" \notin Entitled
    BY DEF Entitled
  <2>3. LET row == [sub[r] EXCEPT !.status = "canceled", !.atEnd = FALSE]
        IN  row \in RowType /\ Backed(r, row)
    BY <2>2, StatusIsBacked
  <2>4. sub' \in [Rows -> RowType] /\ \A q \in Rows : Backed(q, sub'[q])
    BY <2>1, <2>3, RowMoves
  <2> QED BY <1>1, <2>1, <2>4, SessionsStay, PartsAreTyped DEF OtherStep
<1>3. CASE sub[r].psid # 0
  <2>1. sub[r].psid \in Sessions /\ Captured(sub[r].psid)
    BY <1>3, PartsAreTyped, CheckoutAssumption
       DEF CheckoutAssumption, CheckoutInv, RowsAreBacked, Backed, RowType, Sessions
  <2>2. SessionsMove /\ UNCHANGED sub
    BY <1>3, <2>1, EndMoves DEF DeletionCancels
  <2> QED BY <1>1, <2>2, RowsStay, PartsAreTyped DEF OtherStep
<1> QED BY <1>2, <1>3

\* A snapshot writes a row that was paid for at Paddle.
LEMMA SnapshotMoves == ASSUME CheckoutInv, NEW e \in Events, ReduceSnapshot(e) PROVE OtherStep
<1>1. UNCHANGED <<customer, sessions, request, methods, invoices, grants, tx, incidents>>
  BY DEF ReduceSnapshot, reductionUnchanged
<1>2. PICK s \in Sessions : s = e.s /\ Captured(s) /\ s # 0
  <2>1. e.s \in Sessions /\ e.what \in {"opened", "closed"} /\ Happened(e)
    BY DEF Events, ReduceSnapshot
  <2>2. CASE e.what = "opened"
    BY <2>1, <2>2 DEF Happened, Captured, Sessions
  <2>3. CASE e.what = "closed"
    BY <2>1, <2>3 DEF Happened, Captured, Sessions
  <2> QED BY <2>1, <2>2, <2>3
<1>3. SnapshotStatus(e) \in Open \cup {"canceled"}
  BY DEF SnapshotStatus, Open
<1>4. PICK r : r = LatestOf({q \in Rows : sub[q].psid = s})
  OBVIOUS
<1>5. ASSUME r # 0, sub' = [sub EXCEPT ![r].status = SnapshotStatus(e), ![r].atEnd = FALSE]
      PROVE  sub' \in [Rows -> RowType] /\ \A q \in Rows : Backed(q, sub'[q])
  <2>1. r \in Rows /\ sub[r].psid = s
    BY <1>4, <1>5, LatestIsOneOfThem
  <2>2. sub' = [sub EXCEPT ![r] = [sub[r] EXCEPT !.status = SnapshotStatus(e),
                                                 !.atEnd = FALSE]]
    BY <1>5, <2>1, PartsAreTyped
  <2>3. LET row == [sub[r] EXCEPT !.status = SnapshotStatus(e), !.atEnd = FALSE]
        IN  row \in RowType /\ Backed(r, row)
    BY <1>2, <1>3, <2>1, StatusIsBacked
  <2> QED BY <2>1, <2>2, <2>3, RowMoves
<1>6. ASSUME NEW q \in Rows, sub' = [sub EXCEPT ![q] = SnapshotRow(e)]
      PROVE  sub' \in [Rows -> RowType] /\ \A x \in Rows : Backed(x, sub'[x])
  <2>1. sessions[s].plan \in Plans
    BY PartsAreTyped DEF SessionType
  <2>2. SnapshotRow(e) = [NoRow EXCEPT !.status = SnapshotStatus(e), !.plan = sessions[s].plan,
                                       !.provider = "paddle", !.psid = s]
    BY <1>2 DEF SnapshotRow
  <2>3. SnapshotRow(e) \in RowType /\ SnapshotRow(e).psid = s
    <3>1. s \in 0..MaxSessions
      BY <1>2, CheckoutAssumption DEF Sessions, CheckoutAssumption
    <3>2. NoRow \in RowType
      BY ConstantTypes
    <3>3. PICK status, plan : /\ status = SnapshotStatus(e) /\ plan = sessions[s].plan
                              /\ status \in Open \cup {"canceled"} /\ plan \in Plans
      BY <1>3, <2>1
    <3> QED BY <2>2, <3>1, <3>2, <3>3 DEF RowType, Providers
  <2>4. Backed(q, SnapshotRow(e))
    BY <1>2, <2>3 DEF Backed
  <2> QED BY <1>6, <2>3, <2>4, RowMoves
<1>7. sub' \in [Rows -> RowType] /\ \A q \in Rows : Backed(q, sub'[q])
  BY <1>2, <1>4, <1>5, <1>6, RowsStay DEF ReduceSnapshot
<1> QED BY <1>1, <1>7, SessionsStay, PartsAreTyped DEF OtherStep

\* No step outside the reductions breaks the invariant.
LEMMA OtherStepPreserves == ASSUME CheckoutInv, OtherStep PROVE CheckoutInv'
<1>1. CheckoutTypeOK' /\ request' \in [Requests -> AtWork]
  <2>1. request' \in [Requests -> RequestType]
    BY DEF OtherStep, AtWork
  <2> QED BY <2>1 DEF CheckoutInv, CheckoutTypeOK, OtherStep, SessionsMove
<1>2. UnusedIsUnpaid'
  BY DEF CheckoutInv, UnusedIsUnpaid, OtherStep, SessionsMove
<1>3. \A s \in Sessions : invoices[s].paid => invoices'[s] = invoices[s]
  BY DEF OtherStep
<1>4. RowsAreBacked'
  <2> SUFFICES ASSUME NEW r \in Rows PROVE Backed(r, sub[r])'
    BY DEF RowsAreBacked
  <2>1. PICK row \in RowType : row = sub'[r] /\ Backed(r, row)
    BY DEF OtherStep
  <2>2. r \in 0..MaxRows
    BY CheckoutAssumption DEF CheckoutAssumption, Rows
  <2>3. Backed(r, row)'
    BY <1>3, <2>1, <2>2, BackedStays DEF OtherStep
  <2> QED BY <2>1, <2>3
<1>5. SeenAreBacked'
  <2> SUFFICES ASSUME NEW w \in Reducers PROVE Backed(tx[w].row, tx[w].seen)'
    BY DEF SeenAreBacked
  <2>1. PICK r, row : /\ r = tx[w].row /\ row = tx[w].seen
                      /\ r \in 0..MaxRows /\ row \in RowType /\ Backed(r, row)
    BY PartsAreTyped DEF TxType, CheckoutInv, SeenAreBacked
  <2>2. Backed(r, row)'
    BY <1>3, <2>1, BackedStays DEF OtherStep
  <2> QED BY <2>1, <2>2 DEF OtherStep
<1>6. \A s \in Sessions : Captured(s) => Captured(s)' /\ sessions'[s].kind = sessions[s].kind
  BY DEF CheckoutInv, UnusedIsUnpaid, Captured, OtherStep, SessionsMove
<1>7. \A w \in Reducers : tx'[w] = tx[w] /\ tx[w].s \in Sessions
  BY PartsAreTyped DEF OtherStep, TxType
<1>8. ReducesFacts'
  BY <1>6, <1>7 DEF CheckoutInv, ReducesFacts
<1>9. OneInserts'
  <2>1. \A w \in Reducers, s \in Sessions : Inserted(w, s)' => Inserted(w, s)
    BY <1>6, <1>7 DEF Inserted, CheckoutInv, ReducesFacts
  <2> QED BY <2>1 DEF CheckoutInv, OneInserts, OtherStep
<1>10. GrantedOnce'
  BY DEF CheckoutInv, GrantedOnce, UnusedIsUnpaid, OtherStep, SessionsMove
<1> QED BY <1>1, <1>2, <1>4, <1>5, <1>8, <1>9, <1>10 DEF CheckoutInv

----------------------------------------------------------------------------
(* The reductions. *)

(* A step of the reduction w that keeps what was committed.                *)
TxStep(w, new) ==
    /\ UNCHANGED <<sub, methods, sessions, invoices, grants, request>>
    /\ customer' \in [override : Providers \cup {"none"}, pointer : 0..MaxSessions,
                      lock : Reducers \cup {"free"}]
    /\ incidents' \in 0..MaxIncidents
    /\ tx' = [tx EXCEPT ![w] = new]

\* Such a step preserves the invariant when what it goes on with is sound.
LEMMA TxStepPreserves ==
    ASSUME CheckoutInv, NEW w \in Reducers, NEW new \in TxType, TxStep(w, new),
           Backed(new.row, new.seen),
           new.pc # "idle" => /\ Captured(new.s)
                              /\ sessions[new.s].kind = "once" => new.row = 0,
           new.pc \in {"point", "save"} /\ sessions[new.s].kind # "card" =>
              /\ ~invoices[new.s].paid
              /\ \A v \in Reducers \ {w} : ~Inserted(v, new.s)
    PROVE  CheckoutInv'
<1>1. tx' \in [Reducers -> TxType] /\ \A v \in Reducers : tx'[v] = IF v = w THEN new ELSE tx[v]
  BY PartsAreTyped DEF TxStep
<1>2. CheckoutTypeOK' /\ request' \in [Requests -> AtWork]
  BY <1>1 DEF CheckoutInv, CheckoutTypeOK, TxStep
<1>3. UnusedIsUnpaid' /\ GrantedOnce'
  BY DEF CheckoutInv, UnusedIsUnpaid, GrantedOnce, TxStep
<1>4. ASSUME NEW r, NEW row, Backed(r, row) PROVE Backed(r, row)'
  BY <1>4 DEF Backed, PaidFor, Captured, TxStep
<1>5. RowsAreBacked'
  <2> SUFFICES ASSUME NEW r \in Rows PROVE Backed(r, sub[r])'
    BY DEF RowsAreBacked
  <2>1. PICK row : row = sub[r] /\ row = sub'[r] /\ Backed(r, row)
    BY DEF CheckoutInv, RowsAreBacked, TxStep
  <2>2. Backed(r, row)'
    BY <1>4, <2>1
  <2> QED BY <2>1, <2>2
<1>6. SeenAreBacked'
  <2> SUFFICES ASSUME NEW v \in Reducers PROVE Backed(tx[v].row, tx[v].seen)'
    BY DEF SeenAreBacked
  <2>1. PICK r, row : r = tx'[v].row /\ row = tx'[v].seen /\ Backed(r, row)
    BY <1>1 DEF CheckoutInv, SeenAreBacked
  <2>2. Backed(r, row)'
    BY <1>4, <2>1
  <2> QED BY <2>1, <2>2
<1>7. ReducesFacts'
  BY <1>1 DEF CheckoutInv, ReducesFacts, Captured, TxStep
<1>8. OneInserts'
  <2>1. \A v \in Reducers, s \in Sessions : v # w => (Inserted(v, s)' <=> Inserted(v, s))
    BY <1>1 DEF Inserted, TxStep
  <2>2. \A s \in Sessions : Inserted(w, s)' =>
           /\ s = new.s /\ ~invoices[s].paid
           /\ \A v \in Reducers \ {w} : ~Inserted(v, s)
    BY <1>1 DEF Inserted, TxStep
  <2>3. \A s \in Sessions : invoices'[s] = invoices[s]
    BY DEF TxStep
  <2>4. ASSUME NEW s \in Sessions, NEW v \in Reducers, Inserted(v, s)'
        PROVE  ~invoices'[s].paid /\ \A u \in Reducers : Inserted(u, s)' => u = v
    <3>1. CASE v = w
      BY <2>1, <2>2, <2>3, <2>4, <3>1
    <3>2. CASE v # w
      BY <2>1, <2>2, <2>3, <2>4, <3>2 DEF CheckoutInv, OneInserts
    <3> QED BY <3>1, <3>2
  <2> QED BY <2>4 DEF OneInserts
<1> QED BY <1>2, <1>3, <1>5, <1>6, <1>7, <1>8 DEF CheckoutInv

\* The row a payment belongs to; a purchase belongs to none.
LEMMA RowOfPayment ==
    ASSUME CheckoutInv, NEW s \in Sessions
    PROVE  /\ RowOf(s) \in 0..MaxRows
           /\ sessions[s].kind = "once" => RowOf(s) = 0
<1>1. \A rows \in SUBSET Rows : LatestOf(rows) \in 0..MaxRows
  <2> TAKE rows \in SUBSET Rows
  <2>1. LatestOf(rows) = 0 \/ LatestOf(rows) \in Rows
    BY LatestIsOneOfThem
  <2> QED BY <2>1, CheckoutAssumption DEF CheckoutAssumption, Rows
<1>2. LatestOf(OpenRows) \in 0..MaxRows
  BY <1>1 DEF OpenRows
<1>3. LatestOf({r \in Rows : sub[r].psid = s}) \in 0..MaxRows
  BY <1>1
<1>4. 0 \in 0..MaxRows
  BY CheckoutAssumption DEF CheckoutAssumption
<1>5. sessions[s].kind \in {"none", "plan", "once", "card"}
      /\ sessions[s].provider \in {"yookassa", "paddle"}
  BY PartsAreTyped DEF SessionType, Providers
<1>6. CASE sessions[s].kind = "plan" /\ sessions[s].provider = "paddle"
  BY <1>3, <1>6 DEF RowOf
<1>7. CASE sessions[s].kind = "plan" /\ sessions[s].provider = "yookassa"
  BY <1>2, <1>7 DEF RowOf
<1>8. CASE sessions[s].kind \in {"none", "once", "card"}
  BY <1>4, <1>8 DEF RowOf
<1> QED BY <1>5, <1>6, <1>7, <1>8

\* A row that is read now is backed.
LEMMA SeenNow ==
    ASSUME CheckoutInv, NEW r \in 0..MaxRows
    PROVE  SeenRow(r) \in RowType /\ Backed(r, SeenRow(r))
<1>1. CASE r = 0
  BY <1>1, ConstantTypes DEF SeenRow, Backed
<1>2. CASE r # 0
  <2>1. r \in Rows /\ SeenRow(r) = sub[r]
    BY <1>2, CheckoutAssumption DEF CheckoutAssumption, Rows, SeenRow
  <2> QED BY <2>1, PartsAreTyped DEF CheckoutInv, RowsAreBacked
<1> QED BY <1>1, <1>2

\* The first steps of a reduction.
LEMMA BeginPreserves ==
    ASSUME CheckoutInv, NEW w \in Reducers, NEW s \in Sessions,
           BeginPayment(w, s) \/ BeginCard(w, s)
    PROVE  CheckoutInv'
<1>1. Captured(s)
  BY DEF BeginPayment, BeginCard, Happened, Payment, Captured
<1>2. ASSUME BeginPayment(w, s) PROVE CheckoutInv'
  <2>1. PICK r, seen : r = RowOf(s) /\ seen = SeenRow(RowOf(s))
    OBVIOUS
  <2>2. r \in 0..MaxRows /\ (sessions[s].kind = "once" => r = 0)
        /\ seen \in RowType /\ Backed(r, seen)
    BY <2>1, RowOfPayment, SeenNow
  <2>3. PICK new : new = [IdleTx EXCEPT !.pc = "insert", !.s = s, !.row = r, !.seen = seen]
    OBVIOUS
  <2>4. /\ new \in TxType /\ new.pc = "insert" /\ new.s = s
        /\ new.row = r /\ new.seen = seen
    BY <2>2, <2>3, ConstantTypes DEF TxType
  <2>5. TxStep(w, new)
    BY <1>2, <2>1, <2>3, PartsAreTyped DEF BeginPayment, TxStep
  <2> QED BY <1>1, <2>2, <2>4, <2>5, TxStepPreserves
<1>3. ASSUME BeginCard(w, s) PROVE CheckoutInv'
  <2>1. PICK new : new = [IdleTx EXCEPT !.pc = "point", !.s = s, !.demoted = DefaultMethods]
    OBVIOUS
  <2>2. DefaultMethods \in SUBSET Sessions
    BY DEF DefaultMethods
  <2>3. /\ new \in TxType /\ new.pc = "point" /\ new.s = s
        /\ new.row = 0 /\ new.seen = NoRow
    BY <2>1, <2>2, ConstantTypes DEF TxType
  <2>4. TxStep(w, new)
    BY <1>3, <2>1, PartsAreTyped DEF BeginCard, TxStep
  <2>5. Backed(0, NoRow) /\ sessions[s].kind = "card"
    BY <1>3, ConstantTypes DEF Backed, BeginCard
  <2> QED BY <1>1, <2>3, <2>4, <2>5, TxStepPreserves
<1> QED BY <1>2, <1>3

\* A reduction that is forgotten, because it lost or was rolled back.
LEMMA IdlePreserves ==
    ASSUME CheckoutInv, NEW w \in Reducers, TxStep(w, IdleTx)
    PROVE  CheckoutInv'
<1>1. Backed(0, NoRow)
  BY ConstantTypes DEF Backed
<1>2. /\ IdleTx \in TxType /\ IdleTx.pc = "idle"
      /\ IdleTx.row = 0 /\ IdleTx.seen = NoRow
  BY ConstantTypes
<1>3. Backed(IdleTx.row, IdleTx.seen)
  BY <1>1, <1>2
<1> QED BY <1>2, <1>3, TxStepPreserves

LEMMA InsertPreserves ==
    ASSUME CheckoutInv, NEW w \in Reducers, InsertInvoice(w)
    PROVE  CheckoutInv'
<1>0. tx[w] \in TxType /\ tx[w].pc = "insert" /\ tx[w].s \in Sessions
  BY PartsAreTyped DEF InsertInvoice, TxType
<1>1. CASE InsertWins(w)
  <2>1. PICK pc \in {"point", "save"} :
           tx' = [tx EXCEPT ![w].pc = pc, ![w].demoted = DefaultMethods]
    <3>1. CASE Activates(tx[w].s, tx[w].row) /\ sessions[tx[w].s].saved
      BY <1>1, <3>1 DEF InsertInvoice
    <3>2. CASE ~(Activates(tx[w].s, tx[w].row) /\ sessions[tx[w].s].saved)
      BY <1>1, <3>2 DEF InsertInvoice
    <3> QED BY <3>1, <3>2
  <2>2. PICK new : new = [tx[w] EXCEPT !.pc = pc, !.demoted = DefaultMethods]
    OBVIOUS
  <2>3. DefaultMethods \in SUBSET Sessions
    BY DEF DefaultMethods
  <2>4. /\ new \in TxType /\ new.pc = pc /\ new.s = tx[w].s
        /\ new.row = tx[w].row /\ new.seen = tx[w].seen
    BY <1>0, <2>2, <2>3 DEF TxType
  <2>5. TxStep(w, new)
    BY <2>1, <2>2, PartsAreTyped DEF InsertInvoice, TxStep
  <2>6. Backed(new.row, new.seen)
    BY <2>4 DEF CheckoutInv, SeenAreBacked
  <2>7. Captured(new.s) /\ (sessions[new.s].kind = "once" => new.row = 0)
    BY <1>0, <2>4 DEF CheckoutInv, ReducesFacts
  <2>8. ~invoices[new.s].paid /\ \A v \in Reducers \ {w} : ~Inserted(v, new.s)
    BY <1>1, <2>4 DEF InsertWins, InsertInvoice, Inserted
  <2> QED BY <2>4, <2>5, <2>6, <2>7, <2>8, TxStepPreserves
<1>2. CASE ~InsertWins(w)
  <2>1. TxStep(w, IdleTx)
    BY <1>2, PartsAreTyped DEF InsertInvoice, TxStep
  <2> QED BY <2>1, IdlePreserves
<1> QED BY <1>1, <1>2

LEMMA PointPreserves ==
    ASSUME CheckoutInv, NEW w \in Reducers, PointCustomer(w)
    PROVE  CheckoutInv'
<1>0. tx[w] \in TxType /\ tx[w].pc = "point" /\ tx[w].s \in Sessions
      /\ tx[w].row \in 0..MaxRows /\ tx[w].seen \in RowType
  BY PartsAreTyped DEF PointCustomer, TxType
<1>1. PICK r, seen :
         /\ r = IF sessions[tx[w].s].kind = "card" THEN LatestOf(OpenRows) ELSE tx[w].row
         /\ seen = IF sessions[tx[w].s].kind = "card" THEN SeenRow(r) ELSE tx[w].seen
  OBVIOUS
<1>2. LatestOf(OpenRows) \in 0..MaxRows
  <2>1. OpenRows \in SUBSET Rows
    BY DEF OpenRows
  <2>2. LatestOf(OpenRows) = 0 \/ LatestOf(OpenRows) \in Rows
    BY <2>1, LatestIsOneOfThem
  <2> QED BY <2>2, CheckoutAssumption DEF CheckoutAssumption, Rows
<1>3. r \in 0..MaxRows /\ seen \in RowType /\ Backed(r, seen)
  <2>1. CASE sessions[tx[w].s].kind = "card"
    BY <1>1, <1>2, <2>1, SeenNow
  <2>2. CASE sessions[tx[w].s].kind # "card"
    BY <1>0, <1>1, <2>2 DEF CheckoutInv, SeenAreBacked
  <2> QED BY <2>1, <2>2
<1>4. PICK new : new = [tx[w] EXCEPT !.pc = "save", !.row = r, !.seen = seen]
  OBVIOUS
<1>5. /\ new \in TxType /\ new.pc = "save" /\ new.s = tx[w].s
      /\ new.row = r /\ new.seen = seen
  BY <1>0, <1>3, <1>4 DEF TxType
<1>6. TxStep(w, new)
  <2>1. tx' = [tx EXCEPT ![w] = new]
    BY <1>0, <1>1, <1>4, PartsAreTyped DEF PointCustomer
  <2>2. customer' = [customer EXCEPT !.lock = w]
    BY DEF PointCustomer
  <2> QED BY <2>1, <2>2, PartsAreTyped DEF PointCustomer, TxStep
<1>7. Captured(new.s) /\ (sessions[new.s].kind = "once" => new.row = 0)
  BY <1>0, <1>1, <1>5 DEF CheckoutInv, ReducesFacts
<1>8. sessions[new.s].kind # "card" =>
         ~invoices[new.s].paid /\ \A v \in Reducers \ {w} : ~Inserted(v, new.s)
  BY <1>0, <1>5 DEF CheckoutInv, OneInserts, Inserted
<1> QED BY <1>3, <1>5, <1>6, <1>7, <1>8, TxStepPreserves

LEMMA AbortPreserves ==
    ASSUME CheckoutInv, NEW w \in Reducers, Abort(w)
    PROVE  CheckoutInv'
<1>1. customer' \in [override : Providers \cup {"none"}, pointer : 0..MaxSessions,
                     lock : Reducers \cup {"free"}]
  BY PartsAreTyped DEF Abort
<1>2. TxStep(w, IdleTx)
  BY <1>1, IncidentCounts DEF Abort, TxStep
<1> QED BY <1>2, IdlePreserves

\* The row a reduction saves is the one it read, activated or with a new card.
LEMMA SavedRowIs ==
    ASSUME CheckoutInv, NEW w \in Reducers
    PROVE  /\ SavedRow(w) \in RowType /\ SavedRow(w).psid = tx[w].seen.psid
           /\ SavedRow(w).status = IF Activates(tx[w].s, tx[w].row) THEN "active"
                                                                    ELSE tx[w].seen.status
<1>0. tx[w].seen \in RowType /\ tx[w].s \in Sessions
  BY PartsAreTyped DEF TxType
<1>1. tx[w].s \in 0..MaxSessions
  BY <1>0, CheckoutAssumption DEF CheckoutAssumption, Sessions
<1>2. PICK row : row = IF Activates(tx[w].s, tx[w].row)
                       THEN [tx[w].seen EXCEPT !.status = "active"] ELSE tx[w].seen
  OBVIOUS
<1>3. /\ row \in RowType /\ row.psid = tx[w].seen.psid
      /\ row.status = IF Activates(tx[w].s, tx[w].row) THEN "active" ELSE tx[w].seen.status
  <2>1. CASE Activates(tx[w].s, tx[w].row)
    BY <1>0, <1>2, <2>1 DEF RowType, Open
  <2>2. CASE ~Activates(tx[w].s, tx[w].row)
    BY <1>0, <1>2, <2>2
  <2> QED BY <2>1, <2>2
<1>4. SavedRow(w) = IF customer.lock = w THEN [row EXCEPT !.method = tx[w].s] ELSE row
  BY <1>2 DEF SavedRow
<1>5. CASE customer.lock = w
  BY <1>1, <1>3, <1>4, <1>5 DEF RowType
<1>6. CASE customer.lock # w
  BY <1>3, <1>4, <1>6
<1> QED BY <1>5, <1>6

\* The commit settles one invoice, for good, and grants what it pays for.
LEMMA CommitPreserves ==
    ASSUME CheckoutInv, NEW w \in Reducers, CommitReduction(w)
    PROVE  CheckoutInv'
<1> DEFINE s == tx[w].s
<1>0. /\ tx[w] \in TxType /\ tx[w].pc = "save" /\ s \in Sessions
      /\ tx[w].row \in 0..MaxRows /\ tx[w].seen \in RowType /\ tx[w].demoted \in SUBSET Sessions
      /\ Backed(tx[w].row, tx[w].seen)
  BY PartsAreTyped DEF CommitReduction, TxType, CheckoutInv, SeenAreBacked
<1>1. /\ Captured(s) /\ sessions[s].kind \in {"plan", "once", "card"}
      /\ sessions[s].kind = "once" => tx[w].row = 0
  BY <1>0, PartsAreTyped DEF CheckoutInv, ReducesFacts, UnusedIsUnpaid, Captured, SessionType
<1>2. sessions[s].kind # "card" =>
         ~invoices[s].paid /\ \A v \in Reducers \ {w} : ~Inserted(v, s)
  BY <1>0 DEF CheckoutInv, OneInserts, Inserted
<1>3. UNCHANGED <<sessions, request, incidents>> /\ SessionsMove
  BY SessionsStay DEF CommitReduction
<1>4. tx' \in [Reducers -> TxType]
      /\ \A v \in Reducers : tx'[v] = IF v = w THEN IdleTx ELSE tx[v]
  BY PartsAreTyped, ConstantTypes DEF CommitReduction
<1>5. invoices' = IF sessions[s].kind = "card" THEN invoices
                  ELSE [invoices EXCEPT ![s] = [paid |-> TRUE, row |-> tx[w].row]]
  BY DEF CommitReduction
<1>6. grants' = IF sessions[s].kind = "once" /\ grants[s] < 2
                THEN [grants EXCEPT ![s] = @ + 1] ELSE grants
  <2>1. CASE sessions[s].kind = "card"
    BY <2>1 DEF CommitReduction
  <2>2. CASE sessions[s].kind # "card"
    BY <2>2 DEF CommitReduction
  <2> QED BY <2>1, <2>2
<1>7. \A q \in Sessions : invoices[q].paid => invoices'[q] = invoices[q]
  BY <1>2, <1>5 DEF CheckoutInv, CheckoutTypeOK
<1>8. sub' = IF WritesRow(w) THEN [sub EXCEPT ![tx[w].row] = SavedRow(w)] ELSE sub
  BY DEF CommitReduction
<1>9. CheckoutTypeOK' /\ request' \in [Requests -> AtWork]
  <2>1. sub' \in [Rows -> RowType]
    BY <1>8, SavedRowIs, PartsAreTyped
  <2>2. invoices' \in [Sessions -> [paid : BOOLEAN, row : 0..MaxRows]]
    BY <1>0, <1>5 DEF CheckoutInv, CheckoutTypeOK
  <2>3. grants' \in [Sessions -> 0..2]
    BY <1>0, <1>6 DEF CheckoutInv, CheckoutTypeOK
  <2>4. methods' \in [Sessions -> {"none", "default", "demoted"}]
    BY DEF CommitReduction, CheckoutInv, CheckoutTypeOK
  <2>5. customer' \in [override : Providers \cup {"none"}, pointer : 0..MaxSessions,
                       lock : Reducers \cup {"free"}]
    <3>1. s \in 0..MaxSessions
      BY <1>0, CheckoutAssumption DEF CheckoutAssumption, Sessions
    <3> QED BY <3>1, PartsAreTyped DEF CommitReduction
  <2> QED BY <1>3, <1>4, <2>1, <2>2, <2>3, <2>4, <2>5 DEF CheckoutInv, CheckoutTypeOK
<1>10. UnusedIsUnpaid'
  BY <1>1, <1>3, <1>5 DEF CheckoutInv, CheckoutTypeOK, UnusedIsUnpaid
<1>11. RowsAreBacked'
  <2> SUFFICES ASSUME NEW r \in Rows PROVE Backed(r, sub[r])'
    BY DEF RowsAreBacked
  <2>0. r \in 0..MaxRows /\ r # 0
    BY CheckoutAssumption DEF CheckoutAssumption, Rows
  <2>1. CASE WritesRow(w) /\ r = tx[w].row
    <3>1. PICK row : row = SavedRow(w) /\ row = sub'[r]
      BY <1>8, <2>1, PartsAreTyped
    <3>2. PICK seen : seen = tx[w].seen /\ seen \in RowType /\ Backed(r, seen)
      BY <1>0, <2>1
    <3>3. Backed(r, seen)'
      BY <1>3, <1>7, <2>0, <3>2, BackedStays
    <3>4. row.psid = seen.psid
      BY <3>1, <3>2, SavedRowIs
    <3>5. CASE Activates(s, r)
      <4>1. sessions[s].kind = "plan"
        BY <1>1, <2>0, <2>1, <3>5 DEF Activates
      <4>2. invoices'[s] = [paid |-> TRUE, row |-> r] /\ sessions'[s].kind = "plan"
        BY <1>0, <1>3, <1>5, <2>1, <4>1 DEF CheckoutInv, CheckoutTypeOK
      <4>3. PaidFor(r)'
        BY <1>0, <4>2 DEF PaidFor
      <4>4. Backed(r, row)'
        BY <3>3, <3>4, <4>3 DEF Backed
      <4> QED BY <3>1, <4>4
    <3>6. CASE ~Activates(s, r)
      <4>1. row.status = seen.status
        BY <2>1, <3>1, <3>2, <3>6, SavedRowIs
      <4>2. Backed(r, row)'
        BY <3>3, <3>4, <4>1 DEF Backed
      <4> QED BY <3>1, <4>2
    <3> QED BY <3>5, <3>6
  <2>2. CASE ~(WritesRow(w) /\ r = tx[w].row)
    <3>1. PICK row \in RowType : row = sub[r] /\ row = sub'[r] /\ Backed(r, row)
      BY <1>8, <2>2, PartsAreTyped DEF CheckoutInv, RowsAreBacked
    <3>2. Backed(r, row)'
      BY <1>3, <1>7, <2>0, <3>1, BackedStays
    <3> QED BY <3>1, <3>2
  <2> QED BY <2>1, <2>2
<1>12. SeenAreBacked'
  <2> SUFFICES ASSUME NEW v \in Reducers PROVE Backed(tx[v].row, tx[v].seen)'
    BY DEF SeenAreBacked
  <2>1. PICK r, row : /\ r = tx'[v].row /\ row = tx'[v].seen
                      /\ r \in 0..MaxRows /\ row \in RowType /\ Backed(r, row)
    <3>1. CASE v = w
      BY <1>4, <3>1, ConstantTypes, CheckoutAssumption DEF CheckoutAssumption, Backed
    <3>2. CASE v # w
      BY <1>4, <3>2, PartsAreTyped DEF TxType, CheckoutInv, SeenAreBacked
    <3> QED BY <3>1, <3>2
  <2>2. Backed(r, row)'
    BY <1>3, <1>7, <2>1, BackedStays
  <2> QED BY <2>1, <2>2
<1>13. ReducesFacts'
  BY <1>3, <1>4, ConstantTypes DEF CheckoutInv, ReducesFacts, Captured
<1>14. OneInserts'
  <2>1. \A v \in Reducers, q \in Sessions :
           Inserted(v, q)' => Inserted(v, q) /\ v # w
    BY <1>3, <1>4, ConstantTypes DEF Inserted
  <2>2. \A v \in Reducers, q \in Sessions : Inserted(v, q)' => ~invoices'[q].paid
    BY <1>0, <1>2, <1>5, <2>1 DEF CheckoutInv, CheckoutTypeOK, OneInserts, Inserted
  <2> QED BY <2>1, <2>2 DEF CheckoutInv, OneInserts
<1>15. GrantedOnce'
  BY <1>0, <1>2, <1>3, <1>5, <1>6 DEF CheckoutInv, CheckoutTypeOK, GrantedOnce
<1> QED BY <1>9, <1>10, <1>11, <1>12, <1>13, <1>14, <1>15 DEF CheckoutInv

----------------------------------------------------------------------------
(* The theorems. *)

\* Every step preserves the invariant.
LEMMA StepPreserves == CheckoutInv /\ [Next]_vars => CheckoutInv'
<1> SUFFICES ASSUME CheckoutInv, [Next]_vars PROVE CheckoutInv'
  OBVIOUS
<1>1. CASE UNCHANGED vars
  <2>1. OtherStep
    BY <1>1, SessionsStay, RowsStay, PartsAreTyped DEF vars, OtherStep
  <2> QED BY <2>1, OtherStepPreserves
<1>2. ASSUME NEW c \in Requests, Request(c) PROVE CheckoutInv'
  <2>1. CASE CheckoutWrite(c)
    BY <2>1, WriteMoves, OtherStepPreserves
  <2>2. CASE CheckoutPending(c) \/ \E p \in Plans : CheckoutStart(c, p)
    BY <2>2, StartAndPending, OtherStepPreserves
  <2>3. CASE CancelWrite(c) \/ \E mode \in {"immediate", "period_end"} : CancelRead(c, mode)
    BY <2>3, CancelMoves, OtherStepPreserves
  <2>4. CASE RegionWrite(c) \/ \E override \in {"none", "paddle"} : RegionRead(c, override)
    BY <2>4, RegionMoves, OtherStepPreserves
  <2> QED BY <1>2, <2>1, <2>2, <2>3, <2>4 DEF Request
<1>3. CASE Purchase \/ StartCardUpdate
  BY <1>3, HostedMoves, OtherStepPreserves
<1>4. ASSUME NEW s \in Sessions, Pay(s) \/ EndAtPaddle(s) PROVE CheckoutInv'
  BY <1>4, PaymentMoves, OtherStepPreserves
<1>5. ASSUME NEW e \in Events, ReduceSnapshot(e) PROVE CheckoutInv'
  BY <1>5, SnapshotMoves, OtherStepPreserves
<1>6. ASSUME NEW r \in Rows, RenewalWrites(r) \/ DeletionCancels(r) PROVE CheckoutInv'
  BY <1>6, RenewalMoves, DeletionMoves, OtherStepPreserves
<1>7. ASSUME NEW w \in Reducers, Reduction(w) \/ Abort(w) PROVE CheckoutInv'
  <2>1. ASSUME NEW s \in Sessions, BeginPayment(w, s) \/ BeginCard(w, s) PROVE CheckoutInv'
    BY <2>1, BeginPreserves
  <2> QED BY <1>7, <2>1, InsertPreserves, PointPreserves, CommitPreserves, AbortPreserves
          DEF Reduction
<1> QED BY <1>1, <1>2, <1>3, <1>4, <1>5, <1>6, <1>7 DEF Next

\* The invariant holds of every behaviour.
LEMMA Inductive == Spec => []CheckoutInv
BY InitEstablishes, StepPreserves, PTL DEF Spec

(* The state keeps its types, for any number of requests and reductions.   *)
THEOREM CheckoutTypeCorrect == Spec => []CheckoutTypeOK
<1>1. CheckoutInv => CheckoutTypeOK
  BY DEF CheckoutInv
<1> QED BY <1>1, Inductive, PTL

(* Whoever has access has paid for it, however checkouts, cancellations,   *)
(* snapshots and rolled back reductions interleave: a row is saved as it   *)
(* was read, but never with an access that nobody paid.                    *)
THEOREM AccessIsPaid == Spec => []EntitledIsPaid
<1>1. CheckoutInv => EntitledIsPaid
  <2> SUFFICES ASSUME CheckoutInv, NEW r \in Rows, sub[r].status \in Entitled
               PROVE  IF sub[r].psid = 0
                      THEN \E s \in Sessions : invoices[s] = [paid |-> TRUE, row |-> r]
                                               /\ sessions[s].kind = "plan"
                      ELSE sessions[sub[r].psid].status \in {"paid", "ended"}
    BY DEF EntitledIsPaid
  <2>1. Backed(r, sub[r]) /\ r # 0
    BY CheckoutAssumption DEF CheckoutInv, RowsAreBacked, CheckoutAssumption, Rows
  <2> QED BY <2>1 DEF Backed, PaidFor, Captured
<1> QED BY <1>1, Inductive, PTL

(* A purchase is granted once for its payment, however many reductions of  *)
(* it race and roll back.                                                  *)
THEOREM PurchaseGrantedOnce == Spec => []GrantedOnce
<1>1. CheckoutInv => GrantedOnce
  BY DEF CheckoutInv
<1> QED BY <1>1, Inductive, PTL

----------------------------------------------------------------------------
(* What a step may never do to a row. *)

\* How a step may change the status of a row.
LEMMA StatusSteps ==
    ASSUME CheckoutInv, [Next]_vars, NEW r \in Rows, sub'[r].status # sub[r].status
    PROVE  \/ sub[r].status \in {"none", "incomplete"} /\ sub'[r].status # "none"
           \/ sub[r].status \in Open /\ sub'[r].status \in {"active", "past_due", "canceled"}
           \/ sub[r].psid # 0 /\ sub'[r].status \in {"active", "canceled"}
           \/ \E w \in Reducers : /\ CommitReduction(w) /\ WritesRow(w) /\ r = tx[w].row
                                  /\ sub'[r] = SavedRow(w)
<1>0. sub \in [Rows -> RowType]
  BY PartsAreTyped
<1>1. CASE UNCHANGED vars
  BY <1>1 DEF vars
<1>2. ASSUME NEW c \in Requests, Request(c)
      PROVE  \/ sub[r].status \in {"none", "incomplete"} /\ sub'[r].status # "none"
             \/ sub[r].status \in Open /\ sub'[r].status = "canceled"
  <2>1. ASSUME CheckoutWrite(c)
        PROVE  sub[r].status \in {"none", "incomplete"} /\ sub'[r].status # "none"
    <3>1. PICK q : q = request[c].row
      OBVIOUS
    <3>2. PICK row : row = IncompleteRow(c) /\ row.status = "incomplete"
      <4>1. IncompleteRow(c).status = "incomplete"
        BY ConstantTypes DEF IncompleteRow, RowType
      <4> QED BY <4>1
    <3>3. \/ /\ Reusable(q)
             /\ sub' = [sub EXCEPT ![q] = row] \/ sub' = [sub EXCEPT ![q].status = "canceled"]
          \/ \E x \in Rows : UnusedRow(x) /\ sub' = [sub EXCEPT ![x] = row]
          \/ UNCHANGED sub
      BY <2>1, <3>1, <3>2 DEF CheckoutWrite
    <3> QED BY <1>0, <3>2, <3>3 DEF Reusable, UnusedRow, RowType
  <2>2. ASSUME CancelWrite(c)
        PROVE  sub[r].status \in Open /\ sub'[r].status = "canceled"
    <3>1. PICK q, mode : q = request[c].row /\ mode = request[c].mode
      OBVIOUS
    <3>2. sub[q].status \in Open /\ sub' = [sub EXCEPT ![q] = CancelFields(@, mode)]
      BY <2>2, <3>1 DEF CancelWrite
    <3>3. q = r /\ sub'[r] = CancelFields(sub[r], mode)
      BY <1>0, <3>2
    <3> QED BY <1>0, <3>2, <3>3 DEF CancelFields, RowType
  <2>3. ~CheckoutWrite(c) /\ ~CancelWrite(c) => UNCHANGED sub
    BY <1>2 DEF Request, CheckoutStart, CancelRead, RegionRead, CheckoutPending, RegionWrite
  <2> QED BY <2>1, <2>2, <2>3
<1>3. ~(Purchase \/ StartCardUpdate) /\ \A s \in Sessions : ~(Pay(s) \/ EndAtPaddle(s))
  BY DEF Purchase, StartCardUpdate, Pay, EndAtPaddle
<1>4. ASSUME NEW e \in Events, ReduceSnapshot(e)
      PROVE  \/ sub[r].status \in {"none", "incomplete"} /\ sub'[r].status # "none"
             \/ sub[r].psid # 0 /\ sub'[r].status \in {"active", "canceled"}
  <2>0. e.s # 0 /\ SnapshotStatus(e) \in {"active", "canceled"}
    BY CheckoutAssumption DEF Events, Sessions, SnapshotStatus, CheckoutAssumption
  <2>1. PICK q : q = LatestOf({x \in Rows : sub[x].psid = e.s})
    OBVIOUS
  <2>2. ASSUME q # 0,
               sub' = [sub EXCEPT ![q].status = SnapshotStatus(e), ![q].atEnd = FALSE]
        PROVE  sub[r].psid # 0 /\ sub'[r].status \in {"active", "canceled"}
    <3>1. q \in Rows /\ sub[q].psid = e.s
      BY <2>1, <2>2, LatestIsOneOfThem
    <3> QED BY <1>0, <2>0, <2>2, <3>1 DEF RowType
  <2>3. ASSUME NEW x \in Rows, UnusedRow(x), sub' = [sub EXCEPT ![x] = SnapshotRow(e)]
        PROVE  sub[r].status = "none" /\ sub'[r].status # "none"
    <3>1. SnapshotRow(e).status = SnapshotStatus(e)
      BY DEF SnapshotRow, NoRow
    <3> QED BY <1>0, <2>0, <2>3, <3>1 DEF UnusedRow
  <2> QED BY <1>4, <2>1, <2>2, <2>3 DEF ReduceSnapshot
<1>5. ASSUME NEW q \in Rows, RenewalWrites(q)
      PROVE  sub[r].status \in Open /\ sub'[r].status \in {"active", "past_due", "canceled"}
  BY <1>0, <1>5 DEF RenewalWrites, RowType, Open, Entitled
<1>6. ASSUME NEW q \in Rows, DeletionCancels(q)
      PROVE  sub[r].status \in Open /\ sub'[r].status = "canceled"
  BY <1>0, <1>6 DEF DeletionCancels, CancelFields, RowType
<1>7. ASSUME NEW w \in Reducers, Reduction(w) \/ Abort(w)
      PROVE  /\ CommitReduction(w) /\ WritesRow(w) /\ r = tx[w].row
             /\ sub'[r] = SavedRow(w)
  <2>1. CommitReduction(w)
    BY <1>7 DEF Reduction, Abort, BeginPayment, BeginCard, InsertInvoice, PointCustomer
  <2> QED BY <1>0, <2>1 DEF CommitReduction
<1> QED BY <1>1, <1>2, <1>3, <1>4, <1>5, <1>6, <1>7 DEF Next

(* Paid access does not turn into an unpaid checkout: only the save of a   *)
(* card update, which writes back what it has read, may do that.           *)
THEOREM PaidIsNotForgotten == Spec => PaidStaysPaid
<1>1. CheckoutInv /\ [Next]_vars
         => \A r \in Rows : sub[r].status \in Entitled /\ sub'[r].status = "incomplete"
                               => CardUpdateSaves
  <2> SUFFICES ASSUME CheckoutInv, [Next]_vars, NEW r \in Rows,
                      sub[r].status \in Entitled, sub'[r].status = "incomplete"
               PROVE  CardUpdateSaves
    OBVIOUS
  <2>1. PICK w \in Reducers : /\ CommitReduction(w) /\ WritesRow(w) /\ r = tx[w].row
                              /\ sub'[r] = SavedRow(w)
    BY StatusSteps DEF Entitled
  <2>2. ~Activates(tx[w].s, tx[w].row)
    BY <2>1, SavedRowIs
  <2> QED BY <2>1, <2>2 DEF WritesRow, CardUpdateSaves, CommitReduction
<1> QED BY <1>1, Inductive, PTL DEF Spec, PaidStaysPaid

(* A payment that will activate a row has read it while it was open.       *)
ActivatesOpen ==
    \A w \in Reducers :
        tx[w].pc # "idle" /\ Activates(tx[w].s, tx[w].row) => tx[w].seen.status \in Open

LEMMA ActivatesOpenInductive == Spec => []ActivatesOpen
<1>1. Init => ActivatesOpen
  BY ConstantTypes DEF Init, ActivatesOpen
<1>2. CheckoutInv /\ ActivatesOpen /\ [Next]_vars => ActivatesOpen'
  <2> SUFFICES ASSUME CheckoutInv, ActivatesOpen, [Next]_vars, NEW w \in Reducers,
                      (tx[w].pc # "idle")', Activates(tx[w].s, tx[w].row)'
               PROVE  tx'[w].seen.status \in Open
    BY DEF ActivatesOpen
  <2>0. SessionsMove
    <3>1. ASSUME OtherStep PROVE SessionsMove
      BY <3>1 DEF OtherStep
    <3>2. UNCHANGED sessions => SessionsMove
      BY SessionsStay
    <3>3. CASE UNCHANGED vars
      BY <3>2, <3>3 DEF vars
    <3>4. ASSUME NEW c \in Requests, Request(c) PROVE SessionsMove
      BY <3>1, <3>4, WriteMoves, StartAndPending, CancelMoves, RegionMoves DEF Request
    <3>5. CASE Purchase \/ StartCardUpdate
      BY <3>1, <3>5, HostedMoves
    <3>6. ASSUME NEW s \in Sessions, Pay(s) \/ EndAtPaddle(s) PROVE SessionsMove
      BY <3>1, <3>6, PaymentMoves
    <3>7. ASSUME NEW r \in Rows, RenewalWrites(r) \/ DeletionCancels(r) PROVE SessionsMove
      BY <3>1, <3>7, RenewalMoves, DeletionMoves
    <3>8. ASSUME NEW v \in Reducers, Reduction(v) \/ Abort(v) PROVE UNCHANGED sessions
      BY <3>8 DEF Reduction, Abort, BeginPayment, BeginCard, InsertInvoice, PointCustomer,
                  CommitReduction
    <3>9. ASSUME NEW e \in Events, ReduceSnapshot(e) PROVE UNCHANGED sessions
      BY <3>9 DEF ReduceSnapshot
    <3> QED BY <3>2, <3>3, <3>4, <3>5, <3>6, <3>7, <3>8, <3>9 DEF Next
  <2>1. ASSUME UNCHANGED <<tx[w].pc, tx[w].s, tx[w].row, tx[w].seen>>
        PROVE  tx'[w].seen.status \in Open
    <3>1. tx[w].pc # "idle" /\ tx[w].s \in Sessions
      BY <2>1, PartsAreTyped DEF TxType
    <3>2. Captured(tx[w].s) /\ sessions[tx[w].s].kind # "none"
      BY <3>1 DEF CheckoutInv, ReducesFacts, UnusedIsUnpaid, Captured
    <3>3. PICK s, r : s = tx[w].s /\ r = tx[w].row /\ s = tx'[w].s /\ r = tx'[w].row
      BY <2>1
    <3>4. sessions'[s].kind = sessions[s].kind /\ sessions'[s].provider = sessions[s].provider
      BY <2>0, <3>1, <3>2, <3>3 DEF SessionsMove
    <3>5. Activates(s, r)
      BY <3>3, <3>4 DEF Activates
    <3> QED BY <2>1, <3>1, <3>3, <3>5 DEF ActivatesOpen
  <2>2. ASSUME NEW s \in Sessions, BeginPayment(w, s) PROVE tx'[w].seen.status \in Open
    <3>1. PICK r, seen : r = RowOf(s) /\ seen = SeenRow(RowOf(s))
      OBVIOUS
    <3>2. tx'[w] = [IdleTx EXCEPT !.pc = "insert", !.s = s, !.row = r, !.seen = seen]
      BY <2>2, <3>1, PartsAreTyped DEF BeginPayment
    <3>3. tx'[w].s = s /\ tx'[w].row = r /\ tx'[w].seen = seen
      BY <3>2, ConstantTypes DEF TxType
    <3>4. UNCHANGED sessions
      BY <2>2 DEF BeginPayment
    <3>5. r # 0 /\ sessions[s].kind # "card" /\ sessions[s].provider = "yookassa"
      BY <3>3, <3>4 DEF Activates
    <3>6. sessions[s].kind = "plan"
      <4>1. sessions[s].kind \in {"none", "plan", "once", "card"}
        BY PartsAreTyped DEF SessionType
      <4>2. sessions[s].kind # "none"
        BY <2>2 DEF BeginPayment, Happened, Payment, CheckoutInv, UnusedIsUnpaid
      <4> QED BY <3>1, <3>5, <4>1, <4>2, RowOfPayment
    <3>7. r = LatestOf(OpenRows)
      BY <3>1, <3>5, <3>6 DEF RowOf
    <3>8. r \in OpenRows
      <4>1. OpenRows \in SUBSET Rows
        BY DEF OpenRows
      <4> QED BY <3>5, <3>7, <4>1, LatestIsOneOfThem
    <3> QED BY <3>1, <3>3, <3>5, <3>8 DEF OpenRows, SeenRow
  <2>3. ASSUME NEW s \in Sessions, BeginCard(w, s) PROVE FALSE
    <3>1. tx'[w] = [IdleTx EXCEPT !.pc = "point", !.s = s, !.demoted = DefaultMethods]
      BY <2>3, PartsAreTyped DEF BeginCard
    <3>2. tx'[w].s = s /\ tx'[w].row = 0
      BY <3>1, ConstantTypes DEF TxType
    <3> QED BY <3>2 DEF Activates
  <2>4. ASSUME InsertInvoice(w) PROVE tx'[w].seen.status \in Open
    <3>1. tx[w] \in TxType /\ tx[w].pc = "insert"
      BY <2>4, PartsAreTyped DEF InsertInvoice
    <3>2. CASE ~InsertWins(w)
      BY <2>4, <3>2, PartsAreTyped, ConstantTypes DEF InsertInvoice
    <3>3. CASE InsertWins(w)
      <4>1. tx'[w].s = tx[w].s /\ tx'[w].row = tx[w].row /\ tx'[w].seen = tx[w].seen
        BY <2>4, <3>1, <3>3, PartsAreTyped DEF InsertInvoice, TxType
      <4>2. UNCHANGED sessions
        BY <2>4 DEF InsertInvoice
      <4> QED BY <3>1, <4>1, <4>2 DEF ActivatesOpen, Activates
    <3> QED BY <3>2, <3>3
  <2>5. ASSUME PointCustomer(w) PROVE tx'[w].seen.status \in Open
    <3>1. tx[w] \in TxType /\ tx[w].pc = "point" /\ UNCHANGED sessions
      BY <2>5, PartsAreTyped DEF PointCustomer
    <3>2. CASE sessions[tx[w].s].kind = "card"
      <4>1. tx'[w].s = tx[w].s
        BY <2>5, <3>1, PartsAreTyped DEF PointCustomer, TxType
      <4> QED BY <3>1, <3>2, <4>1 DEF Activates
    <3>3. CASE sessions[tx[w].s].kind # "card"
      <4>1. tx'[w].s = tx[w].s /\ tx'[w].row = tx[w].row /\ tx'[w].seen = tx[w].seen
        BY <2>5, <3>1, <3>3, PartsAreTyped DEF PointCustomer, TxType
      <4> QED BY <3>1, <4>1 DEF ActivatesOpen, Activates
    <3> QED BY <3>2, <3>3
  <2>6. ASSUME CommitReduction(w) \/ Abort(w) PROVE FALSE
    BY <2>6, PartsAreTyped, ConstantTypes DEF CommitReduction, Abort
  <2>7. ASSUME NEW v \in Reducers \ {w}, Reduction(v) \/ Abort(v) PROVE tx'[w] = tx[w]
    BY <2>7, PartsAreTyped DEF Reduction, Abort, BeginPayment, BeginCard, InsertInvoice,
                               PointCustomer, CommitReduction
  <2>8. CASE UNCHANGED tx
    BY <2>1, <2>8
  <2>9. UNCHANGED tx \/ \E v \in Reducers : Reduction(v) \/ Abort(v)
    <3>1. CASE UNCHANGED vars
      BY <3>1 DEF vars
    <3>2. ASSUME NEW c \in Requests, Request(c) PROVE UNCHANGED tx
      BY <3>2 DEF Request, CheckoutStart, CheckoutPending, CheckoutWrite, CancelRead,
                  CancelWrite, RegionRead, RegionWrite, reductionUnchanged
    <3>3. ASSUME Purchase \/ StartCardUpdate \/ \E s \in Sessions : Pay(s) \/ EndAtPaddle(s)
          PROVE UNCHANGED tx
      BY <3>3 DEF Purchase, StartCardUpdate, Pay, EndAtPaddle, reductionUnchanged
    <3>4. ASSUME \/ \E e \in Events : ReduceSnapshot(e)
                 \/ \E r \in Rows : RenewalWrites(r) \/ DeletionCancels(r)
          PROVE UNCHANGED tx
      BY <3>4 DEF ReduceSnapshot, RenewalWrites, DeletionCancels, reductionUnchanged,
                  ledgerUnchanged
    <3> QED BY <3>1, <3>2, <3>3, <3>4 DEF Next
  <2>10. CASE \E v \in Reducers : Reduction(v) \/ Abort(v)
    <3>1. PICK v \in Reducers : Reduction(v) \/ Abort(v)
      BY <2>10
    <3>2. CASE v = w
      BY <2>2, <2>3, <2>4, <2>5, <2>6, <3>1, <3>2 DEF Reduction
    <3>3. CASE v # w
      BY <2>1, <2>7, <3>1, <3>3
    <3> QED BY <3>2, <3>3
  <2> QED BY <2>8, <2>9, <2>10
<1> QED BY <1>1, <1>2, Inductive, PTL DEF Spec

(* A canceled row is opened again only by a reduction that had read it     *)
(* while it was open, or by a snapshot of Paddle; no request does it.      *)
THEOREM CanceledIsReopened == Spec => ReopenedByReduction
<1>1. CheckoutInv /\ ActivatesOpen /\ [Next]_vars
         => \A r \in Rows :
               sub[r].status = "canceled" /\ sub'[r].status \in Open =>
                  \/ \E w \in Reducers :
                        tx[w].pc = "save" /\ tx[w].row = r /\ tx[w].seen.status \in Open
                  \/ sub[r].psid # 0
  <2> SUFFICES ASSUME CheckoutInv, ActivatesOpen, [Next]_vars, NEW r \in Rows,
                      sub[r].status = "canceled", sub'[r].status \in Open, sub[r].psid = 0
               PROVE  \E w \in Reducers :
                        tx[w].pc = "save" /\ tx[w].row = r /\ tx[w].seen.status \in Open
    OBVIOUS
  <2>1. PICK w \in Reducers : /\ CommitReduction(w) /\ WritesRow(w) /\ r = tx[w].row
                              /\ sub'[r] = SavedRow(w)
    BY StatusSteps DEF Open
  <2>2. tx[w].pc = "save"
    BY <2>1 DEF CommitReduction
  <2>3. CASE Activates(tx[w].s, tx[w].row)
    BY <2>1, <2>2, <2>3 DEF ActivatesOpen
  <2>4. CASE ~Activates(tx[w].s, tx[w].row)
    BY <2>1, <2>2, <2>4, SavedRowIs
  <2> QED BY <2>3, <2>4
<1> QED BY <1>1, Inductive, ActivatesOpenInductive, PTL DEF Spec, ReopenedByReduction

=============================================================================
