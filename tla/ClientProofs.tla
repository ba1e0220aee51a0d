---------------------------- MODULE ClientProofs ----------------------------
(* What holds of one browser's session for any number of tabs, refreshes,  *)
(* logouts, expiries and lost answers; of a list page for any rows, page   *)
(* size, orders and writes; of the permission dialog for any permissions   *)
(* and edits; of the list of users beside the check of one user, for any   *)
(* conditional grants; and of the attempts to connect a provider, for any  *)
(* tabs, users and providers.                                              *)
EXTENDS Session, CursorList, GrantEditor, Conditions, OAuthFlow, FiniteSetTheorems,
        WellFoundedInduction, TLAPS

----------------------------------------------------------------------------
(* The inductive invariants. *)

(* Refresh tokens are issued one after the other.                          *)
IssuedInOrder ==
    \E n \in 0..MaxTokens : \A t \in Tokens : tokens[t] # "none" <=> t <= n

(* What the cookie and the calls carry was issued.                         *)
CarriedWereIssued ==
    /\ cookie # 0 => tokens[cookie] # "none"
    /\ \A c \in Calls :
          call[c].pc \in {"sent", "rotate", "ok"} =>
             call[c].token # 0 /\ tokens[call[c].token] # "none"

(* While no answer was lost, the lock leaves one call on the wire, no call *)
(* carries a rotated token, and the cookie is one only while the answer of *)
(* its rotation is on the way.                                             *)
NothingRotatedIsSent ==
    used.lost = 0 =>
       /\ ~alarm
       /\ \A c \in Calls : ~call[c].orphan
       /\ \A c, d \in Calls : OnTheWire(c) /\ OnTheWire(d) => c = d
       /\ \A c \in Calls :
             call[c].pc \in {"sent", "rotate", "ok"} => tokens[call[c].token] # "revoked"
       /\ cookie # 0 /\ tokens[cookie] = "revoked" => \E c \in Calls : call[c].pc = "ok"

(* A call is some page's.                                                  *)
OwnedCall == {k \in CallType : k.pc # "idle" => k.tab \in Tabs}

SessionInv ==
    /\ SessionTypeOK
    /\ call \in [Calls -> OwnedCall]
    /\ IssuedInOrder
    /\ CarriedWereIssued

----------------------------------------------------------------------------
(* The operators that change tabs and calls keep their types. *)

\* The initial values are well typed.
LEMMA ConstantTypes ==
    /\ SignedOut \in TabType /\ NoCall \in OwnedCall /\ NoCall.pc = "idle" /\ ~NoCall.orphan
    /\ 0 \in 0..MaxTokens /\ 0 \in 0..MaxCalls /\ MaxLost \in Nat
<1>1. MaxTokens \in Nat /\ MaxCalls \in Nat /\ MaxLost \in Nat
  BY SessionAssumption DEF SessionAssumption
<1>2. SignedOut \in TabType
  BY <1>1 DEF SignedOut, TabType, Stamps
<1>3. NoCall \in OwnedCall /\ NoCall.pc = "idle" /\ ~NoCall.orphan
  BY <1>1 DEF NoCall, OwnedCall, CallType, Stamps
<1> QED BY <1>1, <1>2, <1>3

\* Spending counts against a bound.
LEMMA SpendTyped ==
    ASSUME SessionInv, Spend("logouts", MaxLogouts) \/ Spend("expiries", MaxExpiries)
                          \/ Spend("lost", MaxLost)
    PROVE  /\ used' \in [logouts : 0..MaxLogouts, expiries : 0..MaxExpiries, lost : 0..MaxLost]
           /\ used'.lost >= used.lost
           /\ Spend("lost", MaxLost) => used'.lost > 0
<1>0. /\ used \in [logouts : 0..MaxLogouts, expiries : 0..MaxExpiries, lost : 0..MaxLost]
      /\ MaxLogouts \in Nat /\ MaxExpiries \in Nat /\ MaxLost \in Nat
  BY SessionAssumption DEF SessionInv, SessionTypeOK, SessionAssumption
<1>1. CASE Spend("logouts", MaxLogouts)
  BY <1>0, <1>1 DEF Spend
<1>2. CASE Spend("expiries", MaxExpiries)
  BY <1>0, <1>2 DEF Spend
<1>3. CASE Spend("lost", MaxLost)
  BY <1>0, <1>3 DEF Spend
<1> QED BY <1>1, <1>2, <1>3

\* The tabs after the session of t ended.
LEMMA ClearedTyped ==
    ASSUME NEW tabs \in [Tabs -> TabType], NEW t \in Tabs, persisted \in BOOLEAN
    PROVE  /\ Cleared(tabs, t) \in [Tabs -> TabType]
           /\ ~Cleared(tabs, t)[t].user
           /\ \A x \in Tabs \ {t} :
                 /\ Cleared(tabs, t)[x].user => tabs[x].user
                 /\ tabs[x].event \/ persisted => Cleared(tabs, t)[x].event
<1>1. PICK mine : mine = [SignedOut EXCEPT !.slot = tabs[t].slot, !.event = tabs[t].event,
                                       !.bearer = tabs[t].bearer, !.logout = tabs[t].logout]
  OBVIOUS
<1>2. mine \in TabType /\ mine.user = FALSE
  <2>1. tabs[t] \in TabType
    OBVIOUS
  <2> QED BY <1>1, <2>1, ConstantTypes DEF TabType, SignedOut
<1>3. \A x \in Tabs : [tabs[x] EXCEPT !.event = @ \/ persisted] \in TabType
  BY DEF TabType
<1>4. Cleared(tabs, t) = [x \in Tabs |-> IF x = t THEN mine
                                         ELSE [tabs[x] EXCEPT !.event = @ \/ persisted]]
  BY <1>1 DEF Cleared
<1>5. Cleared(tabs, t) \in [Tabs -> TabType]
  BY <1>2, <1>3, <1>4
<1>6. \A x \in Tabs \ {t} :
         /\ Cleared(tabs, t)[x].user => tabs[x].user
         /\ tabs[x].event \/ persisted => Cleared(tabs, t)[x].event
  BY <1>4 DEF TabType
<1> QED BY <1>2, <1>4, <1>5, <1>6

\* Calls that are cut off keep what they carry.
LEMMA InertTyped ==
    ASSUME NEW calls \in [Calls -> OwnedCall], NEW t \in Tabs
    PROVE  /\ Inert(calls, t) \in [Calls -> OwnedCall]
           /\ \A c \in Calls : /\ Inert(calls, t)[c].pc = calls[c].pc
                               /\ Inert(calls, t)[c].token = calls[c].token
                               /\ Inert(calls, t)[c].orphan = calls[c].orphan
<1>1. \A c \in Calls :
         /\ [calls[c] EXCEPT !.live = FALSE, !.subs = @ \ {"timer"}] \in OwnedCall
         /\ [calls[c] EXCEPT !.live = FALSE, !.subs = @ \ {"timer"}].pc = calls[c].pc
         /\ [calls[c] EXCEPT !.live = FALSE, !.subs = @ \ {"timer"}].token = calls[c].token
         /\ [calls[c] EXCEPT !.live = FALSE, !.subs = @ \ {"timer"}].orphan = calls[c].orphan
  BY DEF OwnedCall, CallType
<1> QED BY <1>1 DEF Inert

(* What happens to the calls in the eyes of the server: they carry what    *)
(* they carried, or one that had not left is another that has not.         *)
SameWire(calls) ==
    \A c \in Calls :
        \/ /\ call'[c].pc = calls[c].pc /\ call'[c].token = calls[c].token
           /\ call'[c].orphan = calls[c].orphan
        \/ /\ calls[c].pc \in {"idle", "waiting"} /\ call'[c].pc \in {"idle", "waiting"}
           /\ ~call'[c].orphan

\* Dropping the slot of a tab changes nothing else of it.
LEMMA UnslottedTyped ==
    ASSUME NEW tabs \in [Tabs -> TabType], NEW t \in Tabs
    PROVE  /\ Unslotted(tabs, t) \in [Tabs -> TabType]
           /\ \A x \in Tabs : /\ Unslotted(tabs, t)[x].user => tabs[x].user
                              /\ tabs[x].event => Unslotted(tabs, t)[x].event
<1>1. tabs[t] \in TabType /\ [tabs[t] EXCEPT !.slot = 0] \in TabType
  BY ConstantTypes DEF TabType
<1>2. Unslotted(tabs, t) = [tabs EXCEPT ![t] = [tabs[t] EXCEPT !.slot = 0]]
  BY DEF Unslotted
<1> QED BY <1>1, <1>2 DEF TabType

LEMMA EndSessionTyped ==
    ASSUME NEW tabs \in [Tabs -> TabType], NEW calls \in [Calls -> OwnedCall],
           NEW t \in Tabs, NEW cancel \in BOOLEAN, persisted \in BOOLEAN,
           EndSession(tabs, calls, t, cancel)
    PROVE  /\ tab' \in [Tabs -> TabType] /\ call' \in [Calls -> OwnedCall]
           /\ persisted' \in BOOLEAN
           /\ SameWire(calls)
           /\ (\A x \in Tabs \ {t} : tabs[x].user => persisted \/ tabs[x].event)
                 => SignedTabIsTold'
<1>1. PICK after : /\ after = (IF cancel THEN Unslotted(tabs, t) ELSE tabs)
                   /\ after \in [Tabs -> TabType]
                   /\ \A x \in Tabs : /\ after[x].user => tabs[x].user
                                      /\ tabs[x].event => after[x].event
  <2>1. CASE cancel
    BY <2>1, UnslottedTyped
  <2>2. CASE ~cancel
    BY <2>2
  <2> QED BY <2>1, <2>2
<1>2. tab' = Cleared(after, t)
  BY <1>1 DEF EndSession
<1>3. call' \in [Calls -> OwnedCall] /\ SameWire(calls)
  BY InertTyped DEF EndSession, SameWire
<1>4. (\A x \in Tabs \ {t} : tabs[x].user => persisted \/ tabs[x].event)
         => \A x \in Tabs : tab'[x].user => tab'[x].event
  BY <1>1, <1>2, ClearedTyped
<1>5. tab' \in [Tabs -> TabType]
  BY <1>1, <1>2, ClearedTyped
<1>6. persisted' \in BOOLEAN
  BY DEF EndSession
<1>7. (\A x \in Tabs \ {t} : tabs[x].user => persisted \/ tabs[x].event) => SignedTabIsTold'
  BY <1>4 DEF SignedTabIsTold
<1> QED BY <1>3, <1>5, <1>6, <1>7

LEMMA RefreshTyped ==
    ASSUME NEW tabs \in [Tabs -> TabType], NEW calls \in [Calls -> OwnedCall],
           NEW t \in Tabs, NEW subscriber \in Subscribers,
           \A c \in FreeCalls : calls[c].pc \in {"idle", "waiting"},
           Refresh(tabs, calls, t, subscriber)
    PROVE  /\ tab' \in [Tabs -> TabType] /\ call' \in [Calls -> OwnedCall]
           /\ SameWire(calls)
           /\ \A x \in Tabs : tab'[x].user = tabs[x].user /\ tab'[x].event = tabs[x].event
<1>1. PICK s : s = tabs[t].slot /\ s \in 0..MaxCalls
  BY DEF TabType
<1>2. CASE s # 0
  <2>1. s \in Calls /\ calls[s] \in OwnedCall
    BY <1>1, <1>2, SessionAssumption DEF SessionAssumption, Calls
  <2>2. call' = [calls EXCEPT ![s].subs = @ \cup {subscriber}] /\ tab' = tabs
    BY <1>1, <1>2 DEF Refresh
  <2>3. [calls[s] EXCEPT !.subs = @ \cup {subscriber}] \in OwnedCall
    BY <2>1 DEF OwnedCall, CallType
  <2> QED BY <2>1, <2>2, <2>3 DEF OwnedCall, CallType, SameWire
<1>3. CASE s = 0
  <2>1. PICK c \in FreeCalls :
           /\ call' = [calls EXCEPT ![c] =
                  [NoCall EXCEPT !.pc = "waiting", !.tab = t, !.subs = {subscriber}]]
           /\ tab' = [tabs EXCEPT ![t].slot = c]
    BY <1>1, <1>3 DEF Refresh
  <2>2. c \in Calls /\ c \in 0..MaxCalls
    BY SessionAssumption DEF SessionAssumption, FreeCalls, Calls
  <2>3. PICK new : new = [NoCall EXCEPT !.pc = "waiting", !.tab = t, !.subs = {subscriber}]
    OBVIOUS
  <2>4. new \in OwnedCall /\ new.pc = "waiting" /\ ~new.orphan
    BY <2>3, ConstantTypes DEF OwnedCall, CallType
  <2>5. call' \in [Calls -> OwnedCall] /\ SameWire(calls)
    BY <2>1, <2>2, <2>3, <2>4 DEF SameWire
  <2>6. [tabs[t] EXCEPT !.slot = c] \in TabType
    BY <2>2 DEF TabType
  <2> QED BY <2>1, <2>5, <2>6 DEF TabType
<1> QED BY <1>2, <1>3

----------------------------------------------------------------------------
(* The steps of the client that the server does not see. *)

ClientStep ==
    /\ UNCHANGED <<tokens, stamp, alarm>>
    /\ cookie' = cookie \/ cookie' = 0
    /\ tab' \in [Tabs -> TabType] /\ call' \in [Calls -> OwnedCall] /\ persisted' \in BOOLEAN
    /\ used' \in [logouts : 0..MaxLogouts, expiries : 0..MaxExpiries, lost : 0..MaxLost]
    /\ used'.lost >= used.lost
    /\ \A c \in Calls :
          \/ call'[c].pc = call[c].pc /\ call'[c].token = call[c].token
          \/ call'[c].pc \in {"idle", "waiting"}
    /\ SameWire(call) \/ used'.lost > 0 \/ \E c \in Calls : call[c].orphan
    /\ SignedTabIsTold => SignedTabIsTold'

\* What a step leaves alone is well typed.
LEMMA PartsAreTyped ==
    ASSUME SessionInv
    PROVE  /\ tab \in [Tabs -> TabType] /\ call \in [Calls -> OwnedCall]
           /\ persisted \in BOOLEAN /\ used.lost \in Nat
           /\ used \in [logouts : 0..MaxLogouts, expiries : 0..MaxExpiries, lost : 0..MaxLost]
           /\ \A c \in FreeCalls : call[c].pc \in {"idle", "waiting"}
BY SessionAssumption DEF SessionInv, SessionTypeOK, SessionAssumption, FreeCalls

\* A refresh is asked for.
LEMMA RefreshIsClient ==
    ASSUME SessionInv, NEW t \in Tabs, TimerFires(t) \/ RequestRefused(t) \/ Navigate(t)
    PROVE  ClientStep
<1>1. UNCHANGED <<tokens, stamp, alarm, cookie, persisted, used>>
  BY DEF TimerFires, RequestRefused, Navigate
<1>2. PICK subscriber \in Subscribers : Refresh(tab, call, t, subscriber)
  BY DEF TimerFires, RequestRefused, Navigate, Subscribers
<1>3. /\ tab' \in [Tabs -> TabType] /\ call' \in [Calls -> OwnedCall] /\ SameWire(call)
      /\ \A x \in Tabs : tab'[x].user = tab[x].user /\ tab'[x].event = tab[x].event
  BY <1>2, PartsAreTyped, RefreshTyped
<1>4. SignedTabIsTold => SignedTabIsTold'
  BY <1>1, <1>3 DEF SignedTabIsTold
<1> QED BY <1>1, <1>3, <1>4, PartsAreTyped DEF ClientStep, SameWire

\* A session ends in the tab, or its token expires there.
LEMMA EndsAreClient ==
    ASSUME SessionInv, NEW t \in Tabs,
           NavigateAnonymous(t) \/ StorageEvent(t) \/ LogoutAnswered(t) \/ LogoutLost(t)
           \/ AccessExpires(t)
    PROVE  ClientStep
<1> DEFINE theRest(tabs) == \A x \in Tabs \ {t} : tabs[x].user => persisted \/ tabs[x].event
<1>0. UNCHANGED <<tokens, stamp, alarm>> /\ (cookie' = cookie \/ cookie' = 0)
  BY DEF NavigateAnonymous, StorageEvent, LogoutAnswered, LogoutLost, AccessExpires
<1>1. ASSUME NEW tabs \in [Tabs -> TabType], NEW cancel \in BOOLEAN,
             EndSession(tabs, call, t, cancel), SignedTabIsTold => theRest(tabs)
      PROVE  /\ tab' \in [Tabs -> TabType] /\ call' \in [Calls -> OwnedCall]
             /\ persisted' \in BOOLEAN /\ SameWire(call)
             /\ SignedTabIsTold => SignedTabIsTold'
  BY <1>1, PartsAreTyped, EndSessionTyped
<1>2. SignedTabIsTold => theRest(tab)
  BY DEF SignedTabIsTold
<1>3. ASSUME NEW tabs, tabs = NoLogout(tab, t)
      PROVE  tabs \in [Tabs -> TabType] /\ (SignedTabIsTold => theRest(tabs))
  <2>1. tab[t] \in TabType
    BY PartsAreTyped
  <2>2. [tab[t] EXCEPT !.logout = "no", !.bearer = 0] \in TabType
    BY <2>1 DEF TabType, Stamps
  <2>3. tabs = [tab EXCEPT ![t] = [tab[t] EXCEPT !.logout = "no", !.bearer = 0]]
    BY <1>3, PartsAreTyped DEF NoLogout
  <2>4. tabs \in [Tabs -> TabType] /\ \A x \in Tabs \ {t} : tabs[x] = tab[x]
    BY <2>2, <2>3, PartsAreTyped
  <2> QED BY <1>2, <2>4
<1>4. CASE NavigateAnonymous(t)
  <2>1. EndSession(tab, call, t, FALSE) /\ UNCHANGED used
    BY <1>4 DEF NavigateAnonymous
  <2>2. /\ tab' \in [Tabs -> TabType] /\ call' \in [Calls -> OwnedCall]
        /\ persisted' \in BOOLEAN /\ SameWire(call)
        /\ SignedTabIsTold => SignedTabIsTold'
    BY <1>1, <1>2, <2>1, PartsAreTyped
  <2> QED BY <1>0, <2>1, <2>2, PartsAreTyped DEF ClientStep, SameWire
<1>5. CASE StorageEvent(t)
  <2>1. PICK seen : seen = [tab EXCEPT ![t].event = FALSE]
    OBVIOUS
  <2>2. seen \in [Tabs -> TabType] /\ \A x \in Tabs \ {t} : seen[x] = tab[x]
    <3>1. tab[t] \in TabType /\ [tab[t] EXCEPT !.event = FALSE] \in TabType
      BY PartsAreTyped DEF TabType
    <3>2. seen = [tab EXCEPT ![t] = [tab[t] EXCEPT !.event = FALSE]]
      BY <2>1, PartsAreTyped
    <3> QED BY <3>1, <3>2, PartsAreTyped
  <2>3. SignedTabIsTold => theRest(seen)
    BY <1>2, <2>2
  <2>4. UNCHANGED used
    BY <1>5 DEF StorageEvent
  <2>5. CASE tab[t].signed \/ tab[t].user
    <3>1. EndSession(seen, call, t, TRUE)
      BY <1>5, <2>1, <2>5 DEF StorageEvent
    <3>2. /\ tab' \in [Tabs -> TabType] /\ call' \in [Calls -> OwnedCall]
          /\ persisted' \in BOOLEAN /\ SameWire(call)
          /\ SignedTabIsTold => SignedTabIsTold'
      BY <1>1, <2>2, <2>3, <3>1
    <3> QED BY <1>0, <2>4, <3>2, PartsAreTyped DEF ClientStep, SameWire
  <2>6. CASE ~(tab[t].signed \/ tab[t].user)
    <3>1. tab' = seen /\ UNCHANGED <<call, persisted>>
      BY <1>5, <2>1, <2>6 DEF StorageEvent
    <3>2. seen[t].user = tab[t].user
      BY <2>1, PartsAreTyped DEF TabType
    <3>3. SignedTabIsTold => SignedTabIsTold'
      BY <2>2, <2>6, <3>1, <3>2 DEF SignedTabIsTold
    <3> QED BY <1>0, <2>2, <2>4, <3>1, <3>3, PartsAreTyped DEF ClientStep, SameWire
  <2> QED BY <2>5, <2>6
<1>6. CASE LogoutAnswered(t) \/ LogoutLost(t)
  <2>1. PICK tabs : tabs = NoLogout(tab, t)
    OBVIOUS
  <2>2. EndSession(tabs, call, t, TRUE)
    BY <1>6, <2>1 DEF LogoutAnswered, LogoutLost
  <2>3. /\ used' \in [logouts : 0..MaxLogouts, expiries : 0..MaxExpiries, lost : 0..MaxLost]
        /\ used'.lost >= used.lost
    <3>1. CASE LogoutAnswered(t)
      BY <3>1, PartsAreTyped DEF LogoutAnswered
    <3>2. CASE LogoutLost(t)
      BY <3>2, SpendTyped DEF LogoutLost
    <3> QED BY <1>6, <3>1, <3>2
  <2>4. /\ tab' \in [Tabs -> TabType] /\ call' \in [Calls -> OwnedCall]
        /\ persisted' \in BOOLEAN /\ SameWire(call)
        /\ SignedTabIsTold => SignedTabIsTold'
    BY <1>1, <1>3, <2>1, <2>2
  <2> QED BY <1>0, <2>3, <2>4 DEF ClientStep, SameWire
<1>7. CASE AccessExpires(t)
  <2>1. tab' = [tab EXCEPT ![t].expired = TRUE] /\ UNCHANGED <<persisted, call>>
    BY <1>7 DEF AccessExpires
  <2>2. /\ tab' \in [Tabs -> TabType]
        /\ \A x \in Tabs : tab'[x].user = tab[x].user /\ tab'[x].event = tab[x].event
    BY <2>1, PartsAreTyped DEF TabType
  <2>3. SignedTabIsTold => SignedTabIsTold'
    BY <2>1, <2>2 DEF SignedTabIsTold
  <2>4. /\ used' \in [logouts : 0..MaxLogouts, expiries : 0..MaxExpiries, lost : 0..MaxLost]
        /\ used'.lost >= used.lost
    BY <1>7, SpendTyped DEF AccessExpires
  <2> QED BY <1>0, <2>1, <2>2, <2>3, <2>4, PartsAreTyped DEF ClientStep, SameWire
<1> QED BY <1>4, <1>5, <1>6, <1>7

\* A click on logout.
LEMMA ClickIsClient == ASSUME SessionInv, NEW t \in Tabs, ClickLogout(t) PROVE ClientStep
<1>0. UNCHANGED <<tokens, stamp, alarm, cookie>>
  BY DEF ClickLogout
<1>1. /\ used' \in [logouts : 0..MaxLogouts, expiries : 0..MaxExpiries, lost : 0..MaxLost]
      /\ used'.lost >= used.lost
  BY SpendTyped DEF ClickLogout
<1>2. PICK dropped : /\ dropped = Unslotted(tab, t) /\ dropped \in [Tabs -> TabType]
                     /\ \A x \in Tabs : /\ dropped[x].user => tab[x].user
                                        /\ tab[x].event => dropped[x].event
  BY PartsAreTyped, UnslottedTyped
<1>3. PICK inert : /\ inert = Inert(call, t) /\ inert \in [Calls -> OwnedCall]
                   /\ \A c \in Calls : /\ inert[c].pc = call[c].pc
                                       /\ inert[c].token = call[c].token
                                       /\ inert[c].orphan = call[c].orphan
  BY PartsAreTyped, InertTyped
<1>4. CASE EndSession(tab, call, t, TRUE)
  <2>1. SignedTabIsTold => \A x \in Tabs \ {t} : tab[x].user => persisted \/ tab[x].event
    BY DEF SignedTabIsTold
  <2>2. /\ tab' \in [Tabs -> TabType] /\ call' \in [Calls -> OwnedCall]
        /\ persisted' \in BOOLEAN /\ SameWire(call)
        /\ SignedTabIsTold => SignedTabIsTold'
    BY <1>4, <2>1, PartsAreTyped, EndSessionTyped
  <2> QED BY <1>0, <1>1, <2>2 DEF ClientStep, SameWire
<1>5. CASE /\ tab' = [dropped EXCEPT ![t].logout = "posted", ![t].bearer = tab[t].born]
           /\ call' = inert /\ UNCHANGED persisted
  <2>1. dropped[t] \in TabType /\ tab[t].born \in Stamps
    BY <1>2, PartsAreTyped DEF TabType
  <2>2. tab' \in [Tabs -> TabType]
        /\ \A x \in Tabs : tab'[x].user = dropped[x].user /\ tab'[x].event = dropped[x].event
    BY <1>2, <1>5, <2>1 DEF TabType
  <2>3. SignedTabIsTold => SignedTabIsTold'
    BY <1>2, <1>5, <2>2 DEF SignedTabIsTold
  <2> QED BY <1>0, <1>1, <1>3, <1>5, <2>2, <2>3, PartsAreTyped DEF ClientStep, SameWire
<1>6. ASSUME NEW tabs, tabs = [dropped EXCEPT ![t].logout = "refreshing"],
             Refresh(tabs, inert, t, "logout"), UNCHANGED persisted
      PROVE  ClientStep
  <2>1. tabs \in [Tabs -> TabType]
        /\ \A x \in Tabs : tabs[x].user = dropped[x].user /\ tabs[x].event = dropped[x].event
    BY <1>2, <1>6 DEF TabType
  <2>2. \A c \in FreeCalls : inert[c].pc \in {"idle", "waiting"}
    BY <1>3 DEF FreeCalls
  <2>3. /\ tab' \in [Tabs -> TabType] /\ call' \in [Calls -> OwnedCall] /\ SameWire(inert)
        /\ \A x \in Tabs : tab'[x].user = tabs[x].user /\ tab'[x].event = tabs[x].event
    BY <1>3, <1>6, <2>1, <2>2, RefreshTyped DEF Subscribers
  <2>4. SameWire(call)
    BY <1>3, <2>3 DEF SameWire
  <2>5. SignedTabIsTold => SignedTabIsTold'
    BY <1>2, <1>6, <2>1, <2>3 DEF SignedTabIsTold
  <2> QED BY <1>0, <1>1, <1>6, <2>3, <2>4, <2>5, PartsAreTyped DEF ClientStep, SameWire
<1>7. \/ EndSession(tab, call, t, TRUE)
      \/ /\ tab' = [dropped EXCEPT ![t].logout = "posted", ![t].bearer = tab[t].born]
         /\ call' = inert /\ UNCHANGED persisted
      \/ /\ Refresh([dropped EXCEPT ![t].logout = "refreshing"], inert, t, "logout")
         /\ UNCHANGED persisted
  BY <1>2, <1>3 DEF ClickLogout
<1>8. PICK tabs : tabs = [dropped EXCEPT ![t].logout = "refreshing"]
  OBVIOUS
<1>9. CASE Refresh(tabs, inert, t, "logout") /\ UNCHANGED persisted
  BY <1>6, <1>8, <1>9
<1> QED BY <1>4, <1>5, <1>7, <1>8, <1>9

\* A call nobody waits for any more keeps what it carries.
LEMMA AbandonedTyped ==
    ASSUME SessionInv, NEW c \in Calls
    PROVE  /\ Abandoned(call, c) \in [Calls -> OwnedCall]
           /\ Abandoned(call, c)[c] \in OwnedCall
           /\ \A d \in Calls : /\ Abandoned(call, c)[d].pc = call[d].pc
                               /\ Abandoned(call, c)[d].token = call[d].token
<1>1. call[c] \in OwnedCall /\ call \in [Calls -> OwnedCall]
  BY PartsAreTyped
<1>2. PICK new : new = [call[c] EXCEPT !.orphan = TRUE, !.subs = {}, !.live = FALSE]
  OBVIOUS
<1>3. new \in OwnedCall /\ new.pc = call[c].pc /\ new.token = call[c].token
  BY <1>1, <1>2 DEF OwnedCall, CallType
<1>4. Abandoned(call, c) = [call EXCEPT ![c] = new]
  BY <1>1, <1>2 DEF Abandoned
<1> QED BY <1>1, <1>3, <1>4

\* A page that is loaded again.
LEMMA ReloadIsClient == ASSUME SessionInv, NEW t \in Tabs, Reload(t) PROVE ClientStep
<1>0. UNCHANGED <<tokens, stamp, alarm, cookie, persisted>>
  BY DEF Reload
<1>1. /\ used' \in [logouts : 0..MaxLogouts, expiries : 0..MaxExpiries, lost : 0..MaxLost]
      /\ used'.lost >= used.lost
      /\ (\E c \in Calls : call[c].tab = t /\ OnTheWire(c)) => used'.lost > 0
  <2>1. CASE tab[t].logout # "no" \/ \E c \in Calls : call[c].tab = t /\ OnTheWire(c)
    BY <2>1, SpendTyped DEF Reload
  <2>2. CASE ~(tab[t].logout # "no" \/ \E c \in Calls : call[c].tab = t /\ OnTheWire(c))
    BY <2>2, PartsAreTyped DEF Reload
  <2> QED BY <2>1, <2>2
<1>2. PICK renewed : renewed = [tab EXCEPT ![t] = [SignedOut EXCEPT !.user = persisted]]
  OBVIOUS
<1>3. /\ renewed \in [Tabs -> TabType] /\ renewed[t].user = persisted
      /\ \A x \in Tabs \ {t} : renewed[x] = tab[x]
  <2>1. PICK mine : mine = [SignedOut EXCEPT !.user = persisted]
    OBVIOUS
  <2>2. mine \in TabType /\ mine.user = persisted
    BY <2>1, ConstantTypes, PartsAreTyped DEF TabType
  <2>3. renewed = [tab EXCEPT ![t] = mine]
    BY <1>2, <2>1
  <2> QED BY <2>2, <2>3, PartsAreTyped
<1>4. PICK left : left = [c \in Calls |->
                       IF call[c].tab # t \/ call[c].pc = "idle" \/ call[c].orphan THEN call[c]
                       ELSE IF call[c].pc = "waiting" THEN NoCall
                       ELSE Abandoned(call, c)[c]]
  OBVIOUS
<1>5. /\ left \in [Calls -> OwnedCall]
      /\ \A c \in Calls : \/ left[c].pc = call[c].pc /\ left[c].token = call[c].token
                          \/ left[c].pc = "idle" /\ call[c].pc = "waiting"
  BY <1>4, AbandonedTyped, PartsAreTyped, ConstantTypes
<1>6. ASSUME ~\E c \in Calls : call[c].tab = t /\ OnTheWire(c)
      PROVE  \A c \in Calls : left[c] = call[c] \/ (left[c] = NoCall /\ call[c].pc = "waiting")
  <2>1. \A c \in Calls : call[c].pc \in {"idle", "waiting", "sent", "rotate", "ok", "denied"}
    BY PartsAreTyped DEF OwnedCall, CallType
  <2> QED BY <1>4, <1>6, <2>1 DEF OnTheWire
<1>7. \/ persisted /\ Refresh(renewed, left, t, "boot")
      \/ tab' = renewed /\ call' = left
  BY <1>2, <1>4 DEF Reload
<1>8. CASE Refresh(renewed, left, t, "boot")
  <2>1. \A c \in FreeCalls : left[c].pc \in {"idle", "waiting"}
    BY <1>5 DEF FreeCalls
  <2>2. /\ tab' \in [Tabs -> TabType] /\ call' \in [Calls -> OwnedCall] /\ SameWire(left)
        /\ \A x \in Tabs : tab'[x].user = renewed[x].user /\ tab'[x].event = renewed[x].event
    BY <1>3, <1>5, <1>8, <2>1, RefreshTyped DEF Subscribers
  <2>3. SignedTabIsTold => SignedTabIsTold'
    BY <1>0, <1>3, <2>2 DEF SignedTabIsTold
  <2>4. \A c \in Calls : \/ call'[c].pc = call[c].pc /\ call'[c].token = call[c].token
                         \/ call'[c].pc \in {"idle", "waiting"}
    BY <1>5, <2>2 DEF SameWire
  <2>5. SameWire(call) \/ used'.lost > 0
    BY <1>1, <1>6, <2>2, ConstantTypes DEF SameWire
  <2> QED BY <1>0, <1>1, <2>2, <2>3, <2>4, <2>5, PartsAreTyped DEF ClientStep
<1>9. CASE tab' = renewed /\ call' = left
  <2>1. SignedTabIsTold => SignedTabIsTold'
    BY <1>0, <1>3, <1>9 DEF SignedTabIsTold
  <2>2. SameWire(call) \/ used'.lost > 0
    BY <1>1, <1>6, <1>9, ConstantTypes DEF SameWire
  <2>3. \A c \in Calls : \/ call'[c].pc = call[c].pc /\ call'[c].token = call[c].token
                         \/ call'[c].pc \in {"idle", "waiting"}
    BY <1>5, <1>9
  <2> QED BY <1>0, <1>1, <1>3, <1>5, <1>9, <2>1, <2>2, <2>3, PartsAreTyped DEF ClientStep
<1> QED BY <1>7, <1>8, <1>9

\* What a call leaves of its page when it ends.
LEMMA SettledTyped ==
    ASSUME SessionInv, NEW c \in Calls, call[c].tab \in Tabs
    PROVE  /\ Settled(tab, c) \in [Tabs -> TabType]
           /\ \A x \in Tabs : /\ Settled(tab, c)[x].user = tab[x].user
                              /\ Settled(tab, c)[x].event = tab[x].event
<1>1. PICK t \in Tabs : t = call[c].tab
  OBVIOUS
<1>2. tab[t] \in TabType /\ tab \in [Tabs -> TabType]
  BY PartsAreTyped
<1>3. PICK slot : slot = (IF tab[t].slot = c THEN 0 ELSE tab[t].slot) /\ slot \in 0..MaxCalls
  BY <1>2, ConstantTypes DEF TabType
<1>4. PICK new : new = [tab[t] EXCEPT !.slot = slot]
  OBVIOUS
<1>5. new \in TabType /\ new.user = tab[t].user /\ new.event = tab[t].event
  BY <1>2, <1>3, <1>4 DEF TabType
<1>6. Settled(tab, c) = [tab EXCEPT ![t] = new]
  BY <1>1, <1>2, <1>3, <1>4 DEF Settled
<1> QED BY <1>2, <1>5, <1>6

\* The same, with its logout given up.
LEMMA UnsavedTyped ==
    ASSUME SessionInv, NEW c \in Calls, call[c].tab \in Tabs
    PROVE  /\ Unsaved(c) \in [Tabs -> TabType]
           /\ \A x \in Tabs : /\ Unsaved(c)[x].user = tab[x].user
                              /\ Unsaved(c)[x].event = tab[x].event
<1>1. PICK t \in Tabs : t = call[c].tab
  OBVIOUS
<1>2. PICK settled : /\ settled = Settled(tab, c) /\ settled \in [Tabs -> TabType]
                     /\ \A x \in Tabs : /\ settled[x].user = tab[x].user
                                        /\ settled[x].event = tab[x].event
  BY SettledTyped
<1>3. PICK logout : /\ logout = (IF "logout" \in call[c].subs THEN "no" ELSE settled[t].logout)
                    /\ logout \in {"no", "refreshing", "posted", "revoked", "refused"}
  BY <1>2 DEF TabType
<1>4. PICK new : new = [settled[t] EXCEPT !.logout = logout]
  OBVIOUS
<1>5. new \in TabType /\ new.user = tab[t].user /\ new.event = tab[t].event
  BY <1>2, <1>3, <1>4 DEF TabType
<1>6. Unsaved(c) = [settled EXCEPT ![t] = new]
  BY <1>1, <1>2, <1>3, <1>4 DEF Unsaved
<1> QED BY <1>2, <1>5, <1>6

\* An answer that is lost, or a call that nobody waits for.
LEMMA LoseIsClient ==
    ASSUME SessionInv, NEW c \in Calls, Lose(c) \/ OrphanEnds(c)
    PROVE  ClientStep
<1>0. UNCHANGED <<tokens, stamp, alarm, cookie>>
  BY DEF Lose, OrphanEnds
<1>1. CASE Lose(c)
  <2>0. call[c].tab \in Tabs
    BY <1>1, PartsAreTyped DEF Lose, OnTheWire, OwnedCall
  <2>1. /\ used' \in [logouts : 0..MaxLogouts, expiries : 0..MaxExpiries, lost : 0..MaxLost]
        /\ used'.lost >= used.lost /\ used'.lost > 0
    BY <1>1, SpendTyped DEF Lose
  <2>2. PICK t \in Tabs : t = call[c].tab
    BY <2>0
  <2>4. PICK after : /\ after = Unsaved(c) /\ after \in [Tabs -> TabType]
                     /\ \A x \in Tabs : after[x].user = tab[x].user /\ after[x].event = tab[x].event
    BY <2>0, UnsavedTyped
  <2>5. PICK left : /\ left = Abandoned(call, c) /\ left \in [Calls -> OwnedCall]
                    /\ \A d \in Calls : left[d].pc = call[d].pc /\ left[d].token = call[d].token
    BY AbandonedTyped
  <2>6. CASE call[c].subs # {}
    <3>1. PICK cancel \in BOOLEAN : EndSession(after, left, t, cancel)
      BY <1>1, <2>2, <2>4, <2>5, <2>6 DEF Lose
    <3>2. /\ tab' \in [Tabs -> TabType] /\ call' \in [Calls -> OwnedCall]
          /\ persisted' \in BOOLEAN /\ SameWire(left)
          /\ (\A x \in Tabs \ {t} : after[x].user => persisted \/ after[x].event)
                 => SignedTabIsTold'
      <4>1. persisted \in BOOLEAN
        BY PartsAreTyped
      <4> QED BY <2>4, <2>5, <3>1, <4>1, EndSessionTyped
    <3>3. SignedTabIsTold => SignedTabIsTold'
      BY <2>4, <3>2 DEF SignedTabIsTold
    <3>4. \A d \in Calls : \/ call'[d].pc = call[d].pc /\ call'[d].token = call[d].token
                           \/ call'[d].pc \in {"idle", "waiting"}
      BY <2>5, <3>2 DEF SameWire
    <3> QED BY <1>0, <2>1, <3>2, <3>3, <3>4 DEF ClientStep
  <2>7. CASE call[c].subs = {}
    <3>1. tab' = after /\ call' = left /\ UNCHANGED persisted
      BY <1>1, <2>2, <2>4, <2>5, <2>7 DEF Lose
    <3>2. SignedTabIsTold => SignedTabIsTold'
      BY <2>4, <3>1 DEF SignedTabIsTold
    <3> QED BY <1>0, <2>1, <2>4, <2>5, <3>1, <3>2, PartsAreTyped DEF ClientStep
  <2> QED BY <2>6, <2>7
<1>2. CASE OrphanEnds(c)
  <2>1. call' = [call EXCEPT ![c] = NoCall] /\ UNCHANGED <<tab, persisted, used>>
        /\ call[c].orphan
    BY <1>2 DEF OrphanEnds, Freed
  <2>2. call' \in [Calls -> OwnedCall]
        /\ \A d \in Calls : \/ call'[d].pc = call[d].pc /\ call'[d].token = call[d].token
                            \/ call'[d].pc \in {"idle", "waiting"}
    BY <2>1, ConstantTypes, PartsAreTyped
  <2>3. SignedTabIsTold => SignedTabIsTold'
    BY <2>1 DEF SignedTabIsTold
  <2> QED BY <1>0, <2>1, <2>2, <2>3, PartsAreTyped DEF ClientStep
<1> QED BY <1>1, <1>2

\* What such a step preserves.
LEMMA ClientKeepsInv == ASSUME SessionInv, ClientStep PROVE SessionInv'
<1>1. SessionTypeOK' /\ call' \in [Calls -> OwnedCall]
  <2>1. cookie' \in 0..MaxTokens
    BY ConstantTypes DEF SessionInv, SessionTypeOK, ClientStep
  <2>2. call' \in [Calls -> CallType]
    BY DEF ClientStep, OwnedCall
  <2> QED BY <2>1, <2>2 DEF SessionInv, SessionTypeOK, ClientStep
<1>2. IssuedInOrder'
  BY DEF SessionInv, IssuedInOrder, ClientStep
<1>3. CarriedWereIssued'
  BY DEF SessionInv, CarriedWereIssued, ClientStep
<1> QED BY <1>1, <1>2, <1>3 DEF SessionInv

LEMMA ClientSendsNothingRotated ==
    ASSUME SessionInv, NothingRotatedIsSent, ClientStep
    PROVE  NothingRotatedIsSent'
<1> SUFFICES ASSUME used'.lost = 0 PROVE NothingRotatedIsSent'
  BY DEF NothingRotatedIsSent
<1>1. used.lost = 0
  BY PartsAreTyped DEF ClientStep
<1>2. SameWire(call)
  BY <1>1 DEF ClientStep, NothingRotatedIsSent
<1>3. \A c \in Calls : /\ ~call'[c].orphan
                       /\ OnTheWire(c)' => OnTheWire(c)
  BY <1>1, <1>2 DEF SameWire, NothingRotatedIsSent, OnTheWire
<1>4. \A c, d \in Calls : OnTheWire(c)' /\ OnTheWire(d)' => c = d
  BY <1>1, <1>3 DEF NothingRotatedIsSent
<1>5. \A c \in Calls :
         call'[c].pc \in {"sent", "rotate", "ok"} => tokens'[call'[c].token] # "revoked"
  BY <1>1, <1>2 DEF SameWire, NothingRotatedIsSent, ClientStep
<1>6. cookie' # 0 /\ tokens'[cookie'] = "revoked" => \E c \in Calls : call'[c].pc = "ok"
  BY <1>1, <1>2 DEF SameWire, NothingRotatedIsSent, ClientStep
<1> QED BY <1>1, <1>3, <1>4, <1>5, <1>6 DEF NothingRotatedIsSent, ClientStep

----------------------------------------------------------------------------
(* The steps in which the server takes part. *)

\* Whether a row exists is all that the order of issue depends on.
LEMMA SameRowsInOrder ==
    ASSUME IssuedInOrder, \A t \in Tokens : tokens'[t] = "none" <=> tokens[t] = "none"
    PROVE  IssuedInOrder'
BY DEF IssuedInOrder

\* The next token is the first that has no row.
LEMMA NextIsNew ==
    ASSUME SessionInv, NextToken \in Tokens
    PROVE  /\ tokens[NextToken] = "none" /\ NextToken \in 0..MaxTokens /\ NextToken # 0
           /\ \A t \in Tokens : tokens[t] # "none" <=> t <= NextToken - 1
           /\ NextToken - 1 \in 0..MaxTokens
<1>1. MaxTokens \in Nat
  BY SessionAssumption DEF SessionAssumption
<1>2. PICK n \in 0..MaxTokens : \A t \in Tokens : tokens[t] # "none" <=> t <= n
  BY DEF SessionInv, IssuedInOrder
<1>3. {t \in Tokens : tokens[t] # "none"} = 1..n
  BY <1>1, <1>2 DEF Tokens
<1>4. Cardinality(1..n) = n
  BY <1>2, FS_Interval
<1>5. NextToken = n + 1
  BY <1>3, <1>4 DEF NextToken
<1> QED BY <1>1, <1>2, <1>5 DEF Tokens

\* A new row is the last in the order of issue.
LEMMA IssueInOrder ==
    ASSUME SessionInv, NextToken \in Tokens, tokens'[NextToken] # "none",
           \A t \in Tokens : t # NextToken => (tokens'[t] = "none" <=> tokens[t] = "none")
    PROVE  IssuedInOrder'
<1>1. PICK new \in Tokens : new = NextToken
  OBVIOUS
<1>2. \A t \in Tokens : tokens'[t] # "none" <=> t <= new
  BY <1>1, NextIsNew, SessionAssumption DEF Tokens, SessionAssumption
<1> QED BY <1>1, <1>2, NextIsNew DEF IssuedInOrder

\* A revocation leaves nothing active and nothing rotated.
LEMMA RevokeAllTyped ==
    ASSUME SessionInv, RevokeAll
    PROVE  /\ tokens' \in [Tokens -> {"none", "active", "revoked", "deleted"}]
           /\ stamp' \in Stamps
           /\ \A t \in Tokens : /\ tokens'[t] = "none" <=> tokens[t] = "none"
                                /\ tokens'[t] # "revoked"
           /\ IssuedInOrder'
<1>1. /\ tokens' \in [Tokens -> {"none", "active", "revoked", "deleted"}]
      /\ \A t \in Tokens : /\ tokens'[t] = "none" <=> tokens[t] = "none"
                           /\ tokens'[t] # "revoked"
  BY DEF RevokeAll, Revoked
<1>2. stamp' \in Stamps
  BY DEF RevokeAll, SessionInv, SessionTypeOK, Stamps
<1>3. IssuedInOrder'
  BY <1>1, SameRowsInOrder DEF SessionInv
<1> QED BY <1>1, <1>2, <1>3

\* Tokens that were issued stay so, under calls that carry what they carried.
LEMMA IssuedStays ==
    ASSUME SessionInv, call' = call, cookie' = cookie,
           \A t \in Tokens : tokens[t] # "none" => tokens'[t] # "none"
    PROVE  CarriedWereIssued'
<1>1. \A c \in Calls : call[c].token \in 0..MaxTokens
  BY DEF SessionInv, OwnedCall, CallType
<1>2. cookie \in 0..MaxTokens
  BY DEF SessionInv, SessionTypeOK
<1>3. \A t \in 0..MaxTokens : t # 0 => t \in Tokens
  BY SessionAssumption DEF SessionAssumption, Tokens
<1> QED BY <1>1, <1>2, <1>3 DEF SessionInv, CarriedWereIssued

\* What is carried is a token that has a row.
LEMMA CarriedAreTokens ==
    ASSUME SessionInv
    PROVE  /\ \A c \in Calls : call[c].pc \in {"sent", "rotate", "ok"} =>
                 call[c].token \in Tokens /\ tokens[call[c].token] # "none"
           /\ cookie # 0 => cookie \in Tokens /\ tokens[cookie] # "none"
<1>1. \A t \in 0..MaxTokens : t # 0 => t \in Tokens
  BY SessionAssumption DEF SessionAssumption, Tokens
<1>2. cookie \in 0..MaxTokens /\ \A c \in Calls : call[c].token \in 0..MaxTokens
  BY DEF SessionInv, SessionTypeOK, OwnedCall, CallType
<1> QED BY <1>1, <1>2 DEF SessionInv, CarriedWereIssued

\* A request leaves with the cookie of that moment.
LEMMA AcquireKeeps ==
    ASSUME SessionInv, NEW c \in Calls, Acquire(c)
    PROVE  /\ SessionInv'
           /\ Locks /\ NothingRotatedIsSent => NothingRotatedIsSent'
<1>0. UNCHANGED <<tokens, stamp, alarm, cookie, persisted, tab, used>>
  BY DEF Acquire
<1>1. PICK new : new = [call[c] EXCEPT !.pc = IF cookie = 0 THEN "denied" ELSE "sent",
                                    !.token = cookie, !.live = TRUE]
  OBVIOUS
<1>2. /\ new \in OwnedCall /\ new.token = cookie /\ new.orphan = call[c].orphan
      /\ new.pc = (IF cookie = 0 THEN "denied" ELSE "sent")
  <2>1. call[c] \in OwnedCall /\ call[c].pc = "waiting" /\ cookie \in 0..MaxTokens
    BY DEF SessionInv, SessionTypeOK, Acquire
  <2> QED BY <1>1, <2>1 DEF OwnedCall, CallType
<1>3. call' = [call EXCEPT ![c] = new]
  BY <1>1 DEF Acquire, SessionInv
<1>4. /\ call' \in [Calls -> OwnedCall] /\ call'[c] = new
      /\ \A d \in Calls \ {c} : call'[d] = call[d]
  BY <1>2, <1>3 DEF SessionInv
<1>5. SessionTypeOK'
  <2>1. call' \in [Calls -> CallType]
    BY <1>4 DEF OwnedCall
  <2> QED BY <1>0, <2>1 DEF SessionInv, SessionTypeOK
<1>6. IssuedInOrder' /\ CarriedWereIssued'
  BY <1>0, <1>2, <1>4 DEF SessionInv, IssuedInOrder, CarriedWereIssued
<1>7. ASSUME Locks, NothingRotatedIsSent, used'.lost = 0
      PROVE  NothingRotatedIsSent'
  <2>1. /\ used.lost = 0 /\ ~alarm'
        /\ \A d \in Calls : ~call[d].orphan /\ ~OnTheWire(d)
    BY <1>0, <1>7 DEF NothingRotatedIsSent, Acquire, LockFree
  <2>2. \A d \in Calls : call[d].pc \notin {"sent", "rotate", "ok", "denied"}
    BY <2>1 DEF OnTheWire
  <2>3. cookie # 0 => tokens[cookie] # "revoked"
    BY <1>7, <2>1, <2>2 DEF NothingRotatedIsSent
  <2>4. \A d \in Calls : ~call'[d].orphan
    BY <1>2, <1>4, <2>1
  <2>5. \A d \in Calls : OnTheWire(d)' => d = c
    BY <1>4, <2>2 DEF OnTheWire
  <2>6. \A d \in Calls :
           call'[d].pc \in {"sent", "rotate", "ok"} => tokens'[call'[d].token] # "revoked"
    BY <1>0, <1>2, <1>4, <2>2, <2>3
  <2> QED BY <1>0, <2>1, <2>3, <2>4, <2>5, <2>6 DEF NothingRotatedIsSent
<1> QED BY <1>4, <1>5, <1>6, <1>7 DEF SessionInv, NothingRotatedIsSent

\* A presented token is looked up.
LEMMA ReadTokenKeeps ==
    ASSUME SessionInv, NEW c \in Calls, ReadToken(c)
    PROVE  SessionInv' /\ (NothingRotatedIsSent => NothingRotatedIsSent')
<1>0. UNCHANGED <<cookie, persisted, tab, used>> /\ call[c].pc = "sent"
  BY DEF ReadToken
<1>1. call[c] \in OwnedCall /\ stamp \in Stamps
  BY DEF SessionInv, SessionTypeOK
<1>2. PICK old : old = call[c].token /\ old \in Tokens /\ tokens[old] # "none"
  <2>1. call[c].token \in 0..MaxTokens /\ call[c].token # 0 /\ tokens[call[c].token] # "none"
    BY <1>0, <1>1 DEF SessionInv, CarriedWereIssued, OwnedCall, CallType
  <2> QED BY <2>1, SessionAssumption DEF SessionAssumption, Tokens
<1>3. \/ /\ tokens[old] = "active"
         /\ call' = [call EXCEPT ![c].pc = "rotate", ![c].born = stamp]
         /\ UNCHANGED serverVars
      \/ /\ tokens[old] = "revoked" /\ RevokeAll /\ alarm' = TRUE
         /\ call' = [call EXCEPT ![c].pc = "denied"]
      \/ /\ tokens[old] = "deleted"
         /\ call' = [call EXCEPT ![c].pc = "denied"]
         /\ UNCHANGED serverVars
  BY <1>2 DEF ReadToken
<1>4. /\ call' \in [Calls -> OwnedCall]
      /\ call'[c].pc \in {"rotate", "denied"} /\ call'[c].token = old
      /\ call'[c].orphan = call[c].orphan
      /\ \A d \in Calls \ {c} : call'[d] = call[d]
  <2>1. PICK new : /\ call' = [call EXCEPT ![c] = new]
                   /\ \/ new = [call[c] EXCEPT !.pc = "rotate", !.born = stamp]
                      \/ new = [call[c] EXCEPT !.pc = "denied"]
    <3>1. CASE call' = [call EXCEPT ![c].pc = "rotate", ![c].born = stamp]
      <4>1. call' = [call EXCEPT ![c] = [call[c] EXCEPT !.pc = "rotate", !.born = stamp]]
        BY <3>1 DEF SessionInv
      <4> QED BY <4>1
    <3>2. CASE call' = [call EXCEPT ![c].pc = "denied"]
      <4>1. call' = [call EXCEPT ![c] = [call[c] EXCEPT !.pc = "denied"]]
        BY <3>2 DEF SessionInv
      <4> QED BY <4>1
    <3> QED BY <1>3, <3>1, <3>2
  <2>2. /\ new \in OwnedCall /\ new.pc \in {"rotate", "denied"}
        /\ new.token = call[c].token /\ new.orphan = call[c].orphan
    BY <1>0, <1>1, <2>1 DEF OwnedCall, CallType
  <2> QED BY <1>2, <2>1, <2>2 DEF SessionInv
<1>5. /\ tokens' \in [Tokens -> {"none", "active", "revoked", "deleted"}]
      /\ stamp' \in Stamps /\ alarm' \in BOOLEAN /\ IssuedInOrder'
      /\ \A t \in Tokens : /\ tokens'[t] = "none" <=> tokens[t] = "none"
                           /\ tokens'[t] = "revoked" => tokens[t] = "revoked"
  <2>1. CASE RevokeAll /\ alarm' = TRUE
    BY <2>1, RevokeAllTyped
  <2>2. CASE UNCHANGED serverVars
    BY <2>2 DEF serverVars, SessionInv, SessionTypeOK, IssuedInOrder
  <2> QED BY <1>3, <2>1, <2>2
<1>6. SessionTypeOK'
  <2>1. call' \in [Calls -> CallType]
    BY <1>4 DEF OwnedCall
  <2> QED BY <1>0, <1>5, <2>1 DEF SessionInv, SessionTypeOK
<1>7. \A d \in Calls : /\ call'[d].pc \in {"sent", "rotate", "ok"}
                             => call[d].pc \in {"sent", "rotate", "ok"}
                       /\ call'[d].token = call[d].token
                       /\ call'[d].orphan = call[d].orphan
                       /\ OnTheWire(d)' => OnTheWire(d)
  BY <1>0, <1>2, <1>4 DEF OnTheWire
<1>8. /\ \A d \in Calls : call[d].pc \in {"sent", "rotate", "ok"} => call[d].token \in Tokens
      /\ cookie # 0 => cookie \in Tokens
  BY CarriedAreTokens
<1>9. CarriedWereIssued'
  BY <1>0, <1>5, <1>7, <1>8 DEF SessionInv, CarriedWereIssued
<1>10. ASSUME NothingRotatedIsSent, used'.lost = 0
       PROVE  NothingRotatedIsSent'
  <2>1. used.lost = 0 /\ tokens[old] # "revoked"
    BY <1>0, <1>2, <1>10 DEF NothingRotatedIsSent
  <2>2. UNCHANGED serverVars
    BY <1>3, <2>1
  <2>3. \A d \in Calls : call[d].pc = "ok" => call'[d].pc = "ok"
    BY <1>0, <1>4
  <2>4. ~alarm' /\ \A d \in Calls : ~call'[d].orphan
    BY <1>7, <1>10, <2>1, <2>2 DEF NothingRotatedIsSent, serverVars
  <2>5. \A d, e \in Calls : OnTheWire(d)' /\ OnTheWire(e)' => d = e
    BY <1>7, <1>10, <2>1 DEF NothingRotatedIsSent
  <2>6. \A d \in Calls :
           call'[d].pc \in {"sent", "rotate", "ok"} => tokens'[call'[d].token] # "revoked"
    BY <1>5, <1>7, <1>8, <1>10, <2>1 DEF NothingRotatedIsSent
  <2>7. cookie' # 0 /\ tokens'[cookie'] = "revoked" => \E d \in Calls : call'[d].pc = "ok"
    BY <1>0, <1>10, <2>1, <2>2, <2>3 DEF NothingRotatedIsSent, serverVars
  <2> QED BY <2>4, <2>5, <2>6, <2>7 DEF NothingRotatedIsSent
<1> QED BY <1>4, <1>5, <1>6, <1>9, <1>10 DEF SessionInv, NothingRotatedIsSent

\* A token is rotated.
LEMMA RotateKeeps ==
    ASSUME SessionInv, NEW c \in Calls, Rotate(c)
    PROVE  SessionInv' /\ (NothingRotatedIsSent => NothingRotatedIsSent')
<1>0. /\ UNCHANGED <<stamp, alarm, cookie, persisted, tab, used>>
      /\ call[c].pc = "rotate" /\ NextToken \in Tokens
  BY DEF Rotate
<1>1. call[c] \in OwnedCall /\ stamp \in Stamps
  BY DEF SessionInv, SessionTypeOK
<1>2. PICK old \in Tokens : old = call[c].token /\ tokens[old] # "none"
  BY <1>0, CarriedAreTokens
<1>3. PICK new \in Tokens : /\ new = NextToken /\ tokens[new] = "none"
                            /\ new \in 0..MaxTokens /\ new # 0
  BY <1>0, NextIsNew
<1>4. /\ tokens' \in [Tokens -> {"none", "active", "revoked", "deleted"}]
      /\ tokens'[new] = "active"
      /\ \A t \in Tokens \ {new} : /\ tokens'[t] = "none" <=> tokens[t] = "none"
                                   /\ t # old => tokens'[t] = tokens[t]
  <2>1. tokens' = [tokens EXCEPT ![new] = "active",
                        ![old] = IF tokens[old] = "deleted" THEN "deleted" ELSE "revoked"]
    BY <1>2, <1>3 DEF Rotate, Rotated
  <2>2. new # old /\ tokens \in [Tokens -> {"none", "active", "revoked", "deleted"}]
    BY <1>2, <1>3 DEF SessionInv, SessionTypeOK
  <2> QED BY <1>2, <2>1, <2>2
<1>5. PICK mine : /\ call' = [call EXCEPT ![c] = mine] /\ mine \in OwnedCall
                  /\ mine.pc = "ok" /\ mine.token = new /\ mine.orphan = call[c].orphan
  <2>1. PICK b \in call[c].born..stamp :
           call' = [call EXCEPT ![c].pc = "ok", ![c].token = new, ![c].born = b]
    BY <1>3 DEF Rotate
  <2>2. b \in Stamps
    BY <1>1, <2>1 DEF OwnedCall, CallType, Stamps
  <2>3. PICK mine : mine = [call[c] EXCEPT !.pc = "ok", !.token = new, !.born = b]
    OBVIOUS
  <2>4. /\ mine \in OwnedCall /\ mine.pc = "ok" /\ mine.token = new
        /\ mine.orphan = call[c].orphan
    BY <1>0, <1>1, <1>3, <2>2, <2>3 DEF OwnedCall, CallType
  <2>5. call' = [call EXCEPT ![c] = mine]
    BY <2>1, <2>3 DEF SessionInv
  <2> QED BY <2>4, <2>5
<1>6. /\ call' \in [Calls -> OwnedCall] /\ call'[c] = mine
      /\ \A d \in Calls \ {c} : call'[d] = call[d]
  BY <1>5 DEF SessionInv
<1>7. SessionTypeOK'
  <2>1. call' \in [Calls -> CallType]
    BY <1>6 DEF OwnedCall
  <2> QED BY <1>0, <1>4, <2>1 DEF SessionInv, SessionTypeOK
<1>8. IssuedInOrder'
  <2>1. tokens'[NextToken] # "none"
    BY <1>3, <1>4
  <2>2. \A t \in Tokens : t # NextToken => (tokens'[t] = "none" <=> tokens[t] = "none")
    BY <1>3, <1>4
  <2> QED BY <1>0, <2>1, <2>2, IssueInOrder
<1>9. CarriedWereIssued'
  <2>1. cookie' # 0 => tokens'[cookie'] # "none"
    BY <1>0, <1>3, <1>4, CarriedAreTokens
  <2>2. \A d \in Calls \ {c} : call'[d].pc \in {"sent", "rotate", "ok"} =>
             call'[d].token # 0 /\ tokens'[call'[d].token] # "none"
    <3> SUFFICES ASSUME NEW d \in Calls \ {c}, call'[d].pc \in {"sent", "rotate", "ok"}
                 PROVE  call'[d].token # 0 /\ tokens'[call'[d].token] # "none"
      OBVIOUS
    <3>1. call'[d] = call[d]
      BY <1>6
    <3>2. call[d].token \in Tokens /\ tokens[call[d].token] # "none" /\ call[d].token # 0
      BY <3>1, CarriedAreTokens DEF SessionInv, CarriedWereIssued
    <3> QED BY <1>3, <1>4, <3>1, <3>2
  <2>3. call'[c].token # 0 /\ tokens'[call'[c].token] # "none"
    BY <1>3, <1>4, <1>5, <1>6
  <2> QED BY <2>1, <2>2, <2>3 DEF CarriedWereIssued
<1>10. ASSUME NothingRotatedIsSent, used'.lost = 0
       PROVE  NothingRotatedIsSent'
  <2>1. used.lost = 0 /\ ~alarm' /\ \A d \in Calls : ~call[d].orphan
    BY <1>0, <1>10 DEF NothingRotatedIsSent
  <2>2. \A d \in Calls : call[d].pc \in {"sent", "rotate", "ok", "denied"} => d = c
    BY <1>0, <1>10, <2>1 DEF NothingRotatedIsSent, OnTheWire
  <2>3. \A d \in Calls : ~call'[d].orphan /\ (OnTheWire(d)' => d = c)
    BY <1>5, <1>6, <2>1, <2>2 DEF OnTheWire
  <2>4. \A d \in Calls :
           call'[d].pc \in {"sent", "rotate", "ok"} => tokens'[call'[d].token] # "revoked"
    BY <1>4, <1>5, <1>6, <2>2
  <2>5. \E d \in Calls : call'[d].pc = "ok"
    BY <1>5, <1>6
  <2> QED BY <2>1, <2>3, <2>4, <2>5 DEF NothingRotatedIsSent
<1> QED BY <1>6, <1>7, <1>8, <1>9, <1>10 DEF SessionInv, NothingRotatedIsSent

\* The logout route.
LEMMA LogoutKeeps ==
    ASSUME SessionInv, NEW t \in Tabs, Logout(t)
    PROVE  /\ SessionInv' /\ (NothingRotatedIsSent => NothingRotatedIsSent')
           /\ SignedTabIsTold => SignedTabIsTold'
<1>0. UNCHANGED <<alarm, cookie, persisted, call, used>>
  BY DEF Logout
<1>1. PICK answer \in {"revoked", "refused"} : tab' = [tab EXCEPT ![t].logout = answer]
  BY DEF Logout
<1>2. /\ tab' \in [Tabs -> TabType]
      /\ \A x \in Tabs : tab'[x].user = tab[x].user /\ tab'[x].event = tab[x].event
  BY <1>1 DEF SessionInv, SessionTypeOK, TabType
<1>3. /\ tokens' \in [Tokens -> {"none", "active", "revoked", "deleted"}]
      /\ stamp' \in Stamps /\ IssuedInOrder'
      /\ \A r \in Tokens : /\ tokens'[r] = "none" <=> tokens[r] = "none"
                           /\ tokens'[r] = "revoked" => tokens[r] = "revoked"
  <2>1. CASE RevokeAll
    BY <2>1, RevokeAllTyped
  <2>2. CASE UNCHANGED <<tokens, stamp>>
    BY <2>2 DEF SessionInv, SessionTypeOK, IssuedInOrder
  <2> QED BY <2>1, <2>2 DEF Logout
<1>4. SessionTypeOK'
  BY <1>0, <1>2, <1>3 DEF SessionInv, SessionTypeOK
<1>5. CarriedWereIssued'
  BY <1>0, <1>3, IssuedStays
<1>6. NothingRotatedIsSent => NothingRotatedIsSent'
  BY <1>0, <1>3, CarriedAreTokens DEF NothingRotatedIsSent, OnTheWire
<1>7. SignedTabIsTold => SignedTabIsTold'
  BY <1>0, <1>2 DEF SignedTabIsTold
<1> QED BY <1>0, <1>3, <1>4, <1>5, <1>6, <1>7 DEF SessionInv

\* A login.
LEMMA LoginKeeps ==
    ASSUME SessionInv, NEW t \in Tabs, Login(t)
    PROVE  /\ SessionInv' /\ (NothingRotatedIsSent => NothingRotatedIsSent')
           /\ SignedTabIsTold'
<1>0. UNCHANGED <<stamp, alarm, call, used>> /\ NextToken \in Tokens /\ persisted'
  BY DEF Login
<1>1. PICK new \in Tokens : /\ new = NextToken /\ tokens[new] = "none"
                            /\ new \in 0..MaxTokens /\ new # 0
  BY <1>0, NextIsNew
<1>2. tokens' = [tokens EXCEPT ![new] = "active"] /\ cookie' = new
  BY <1>1 DEF Login
<1>3. /\ tokens' \in [Tokens -> {"none", "active", "revoked", "deleted"}]
      /\ tokens'[new] = "active" /\ \A r \in Tokens \ {new} : tokens'[r] = tokens[r]
  BY <1>2 DEF SessionInv, SessionTypeOK
<1>4. tab' \in [Tabs -> TabType]
  <2>1. tab[t] \in TabType /\ stamp \in Stamps /\ tab \in [Tabs -> TabType]
    BY DEF SessionInv, SessionTypeOK
  <2>2. PICK mine : mine = [tab[t] EXCEPT !.signed = TRUE, !.user = TRUE, !.born = stamp,
                                       !.expired = FALSE]
    OBVIOUS
  <2>3. mine \in TabType
    BY <2>1, <2>2 DEF TabType
  <2>4. tab' = [tab EXCEPT ![t] = mine]
    BY <2>1, <2>2 DEF Login
  <2> QED BY <2>1, <2>3, <2>4
<1>5. SessionTypeOK'
  BY <1>0, <1>1, <1>2, <1>3, <1>4 DEF SessionInv, SessionTypeOK, Login
<1>6. IssuedInOrder'
  <2>1. tokens'[NextToken] # "none"
    BY <1>1, <1>3
  <2>2. \A r \in Tokens : r # NextToken => (tokens'[r] = "none" <=> tokens[r] = "none")
    BY <1>1, <1>3
  <2> QED BY <1>0, <2>1, <2>2, IssueInOrder
<1>7. \A c \in Calls : call[c].pc \in {"sent", "rotate", "ok"} =>
         /\ call[c].token # 0 /\ tokens[call[c].token] # "none"
         /\ tokens'[call[c].token] = tokens[call[c].token]
  BY <1>1, <1>3, CarriedAreTokens DEF SessionInv, CarriedWereIssued
<1>8. CarriedWereIssued'
  BY <1>0, <1>2, <1>3, <1>7 DEF CarriedWereIssued
<1>9. NothingRotatedIsSent => NothingRotatedIsSent'
  BY <1>0, <1>2, <1>3, <1>7 DEF NothingRotatedIsSent, OnTheWire
<1>10. SignedTabIsTold'
  BY <1>0 DEF SignedTabIsTold
<1> QED BY <1>0, <1>5, <1>6, <1>8, <1>9, <1>10 DEF SessionInv

\* A call that is over frees its place.
LEMMA FreedTyped ==
    ASSUME SessionInv, NEW c \in Calls
    PROVE  /\ Freed(call, c) \in [Calls -> OwnedCall] /\ Freed(call, c)[c] = NoCall
           /\ \A d \in Calls \ {c} : Freed(call, c)[d] = call[d]
BY ConstantTypes DEF Freed, SessionInv

\* An answer without tokens.
LEMMA NoTokensTyped ==
    ASSUME SessionInv, NEW c \in Calls, NEW error \in BOOLEAN, call[c].tab \in Tabs,
           NoTokens(c, error)
    PROVE  /\ tab' \in [Tabs -> TabType] /\ call' \in [Calls -> OwnedCall]
           /\ persisted' \in BOOLEAN /\ SameWire(Freed(call, c))
           /\ SignedTabIsTold => SignedTabIsTold'
<1>1. PICK t \in Tabs : t = call[c].tab
  OBVIOUS
<1>3. PICK after : /\ after = Unsaved(c) /\ after \in [Tabs -> TabType]
                   /\ \A x \in Tabs : after[x].user = tab[x].user /\ after[x].event = tab[x].event
  BY UnsavedTyped
<1>4. PICK left : left = Freed(call, c) /\ left \in [Calls -> OwnedCall]
  BY FreedTyped
<1>5. persisted \in BOOLEAN
  BY PartsAreTyped
<1>6. \/ \E cancel \in BOOLEAN : EndSession(after, left, t, cancel)
      \/ tab' = after /\ call' = left /\ UNCHANGED persisted
  BY <1>1, <1>3, <1>4 DEF NoTokens
<1>7. CASE \E cancel \in BOOLEAN : EndSession(after, left, t, cancel)
  <2>1. PICK cancel \in BOOLEAN : EndSession(after, left, t, cancel)
    BY <1>7
  <2>2. /\ tab' \in [Tabs -> TabType] /\ call' \in [Calls -> OwnedCall]
        /\ persisted' \in BOOLEAN /\ SameWire(left)
        /\ (\A x \in Tabs \ {t} : after[x].user => persisted \/ after[x].event)
               => SignedTabIsTold'
    BY <1>3, <1>4, <1>5, <2>1, EndSessionTyped
  <2>3. SignedTabIsTold => SignedTabIsTold'
    BY <1>3, <2>2 DEF SignedTabIsTold
  <2> QED BY <1>4, <2>2, <2>3
<1>8. CASE tab' = after /\ call' = left /\ UNCHANGED persisted
  <2>1. SignedTabIsTold => SignedTabIsTold'
    BY <1>3, <1>8 DEF SignedTabIsTold
  <2>2. SameWire(left)
    BY <1>8 DEF SameWire
  <2> QED BY <1>3, <1>4, <1>5, <1>8, <2>1, <2>2
<1> QED BY <1>6, <1>7, <1>8

\* An answer with tokens.
LEMMA SavedTyped ==
    ASSUME SessionInv, NEW c \in Calls, call[c].tab \in Tabs
    PROVE  Saved(c) \in [Tabs -> TabType]
<1>1. PICK t \in Tabs : t = call[c].tab
  OBVIOUS
<1>2. PICK settled : settled = Settled(tab, c) /\ settled \in [Tabs -> TabType]
  BY SettledTyped
<1>3. PICK logout : /\ logout = (IF "logout" \in call[c].subs THEN "posted" ELSE settled[t].logout)
                    /\ logout \in {"no", "refreshing", "posted", "revoked", "refused"}
  BY <1>2 DEF TabType
<1>4. PICK bearer : /\ bearer = (IF "logout" \in call[c].subs THEN call[c].born
                                  ELSE settled[t].bearer)
                    /\ bearer \in Stamps
  BY <1>2 DEF TabType, SessionInv, OwnedCall, CallType
<1>5. PICK new : new = [settled[t] EXCEPT !.signed = TRUE, !.user = TRUE, !.expired = FALSE,
                           !.born = call[c].born, !.bearer = bearer, !.logout = logout]
  OBVIOUS
<1>6. call[c].born \in Stamps
  BY DEF SessionInv, OwnedCall, CallType
<1>7. new \in TabType
  <2>1. settled[t] \in TabType
    BY <1>2
  <2> QED BY <1>3, <1>4, <1>5, <1>6, <2>1 DEF TabType
<1>8. Saved(c) = [settled EXCEPT ![t] = new]
  BY <1>1, <1>2, <1>3, <1>4, <1>5 DEF Saved
<1> QED BY <1>2, <1>7, <1>8

\* The answer of a call arrives.
LEMMA ReceiveKeeps ==
    ASSUME SessionInv, NEW c \in Calls, Receive(c)
    PROVE  /\ SessionInv' /\ (NothingRotatedIsSent => NothingRotatedIsSent')
           /\ SignedTabIsTold => SignedTabIsTold'
<1>0. UNCHANGED <<tokens, stamp, alarm, used>> /\ ~call[c].orphan /\ call[c].pc \in {"ok", "denied"}
  BY DEF Receive
<1>1. call[c].tab \in Tabs
  BY <1>0 DEF SessionInv, OwnedCall
<1>2. PICK left : /\ left = Freed(call, c) /\ left \in [Calls -> OwnedCall] /\ left[c] = NoCall
                  /\ \A d \in Calls \ {c} : left[d] = call[d]
  BY FreedTyped
<1>3. /\ tab' \in [Tabs -> TabType] /\ call' \in [Calls -> OwnedCall]
      /\ persisted' \in BOOLEAN /\ SameWire(left)
      /\ SignedTabIsTold => SignedTabIsTold'
  <2>1. CASE tab' = Saved(c) /\ call' = left /\ persisted' = TRUE
    <3>1. SignedTabIsTold' /\ SameWire(left)
      BY <2>1 DEF SignedTabIsTold, SameWire
    <3> QED BY <1>1, <1>2, <2>1, <3>1, SavedTyped
  <2>2. CASE \E error \in BOOLEAN : NoTokens(c, error)
    BY <1>1, <1>2, <2>2, NoTokensTyped
  <2> QED BY <1>2, <2>1, <2>2 DEF Receive
<1>4. \A d \in Calls :
         \/ d # c /\ call'[d].pc = call[d].pc /\ call'[d].token = call[d].token
            /\ call'[d].orphan = call[d].orphan
         \/ call'[d].pc \in {"idle", "waiting"} /\ ~call'[d].orphan
            /\ (d = c \/ call[d].pc \in {"idle", "waiting"})
  BY <1>2, <1>3, ConstantTypes DEF SameWire
<1>5. \/ cookie' = cookie /\ call[c].pc = "denied"
      \/ cookie' = call[c].token /\ call[c].pc = "ok"
  BY DEF Receive
<1>6. cookie' \in 0..MaxTokens /\ (cookie' # 0 => tokens[cookie'] # "none")
  BY <1>5, CarriedAreTokens DEF SessionInv, SessionTypeOK, OwnedCall, CallType
<1>7. SessionTypeOK'
  <2>1. call' \in [Calls -> CallType]
    BY <1>3 DEF OwnedCall
  <2> QED BY <1>0, <1>3, <1>6, <2>1 DEF SessionInv, SessionTypeOK
<1>8. IssuedInOrder' /\ CarriedWereIssued'
  BY <1>0, <1>4, <1>6 DEF SessionInv, IssuedInOrder, CarriedWereIssued
<1>9. ASSUME NothingRotatedIsSent, used'.lost = 0
      PROVE  NothingRotatedIsSent'
  <2>1. used.lost = 0 /\ ~alarm' /\ \A d \in Calls : ~call'[d].orphan
    BY <1>0, <1>4, <1>9 DEF NothingRotatedIsSent
  <2>2. \A d \in Calls : OnTheWire(d)' => OnTheWire(d)
    BY <1>4, <2>1 DEF OnTheWire
  <2>3. \A d, e \in Calls : OnTheWire(d)' /\ OnTheWire(e)' => d = e
    BY <1>9, <2>1, <2>2 DEF NothingRotatedIsSent
  <2>4. \A d \in Calls :
           call'[d].pc \in {"sent", "rotate", "ok"} => tokens'[call'[d].token] # "revoked"
    BY <1>0, <1>4, <1>9, <2>1 DEF NothingRotatedIsSent
  <2>5. \A d \in Calls : call[d].pc = "ok" => d = c
    BY <1>0, <1>9, <2>1 DEF NothingRotatedIsSent, OnTheWire
  <2>6. ~(cookie' # 0 /\ tokens'[cookie'] = "revoked")
    BY <1>0, <1>5, <1>9, <2>1, <2>5 DEF NothingRotatedIsSent
  <2> QED BY <2>1, <2>3, <2>4, <2>6 DEF NothingRotatedIsSent
<1> QED BY <1>3, <1>7, <1>8, <1>9 DEF SessionInv, NothingRotatedIsSent

----------------------------------------------------------------------------
(* The theorems. *)

LEMMA InitialSession ==
    Init => SessionInv /\ SignedTabIsTold /\ NothingRotatedIsSent
<1> SUFFICES ASSUME Init PROVE SessionInv /\ SignedTabIsTold /\ NothingRotatedIsSent
  OBVIOUS
<1>0. MaxTokens \in Nat /\ MaxLogouts \in Nat /\ MaxExpiries \in Nat /\ MaxLost \in Nat
  BY SessionAssumption DEF SessionAssumption
<1>1. \A c \in Calls : call[c] = NoCall /\ call[c].pc = "idle" /\ ~call[c].orphan
  BY ConstantTypes DEF Init
<1>2. call \in [Calls -> OwnedCall] /\ tab \in [Tabs -> TabType]
  BY ConstantTypes DEF Init
<1>3. SessionTypeOK
  <2>1. call \in [Calls -> CallType]
    BY <1>2 DEF OwnedCall
  <2>2. used \in [logouts : 0..MaxLogouts, expiries : 0..MaxExpiries, lost : 0..MaxLost]
    BY <1>0 DEF Init
  <2>3. tokens \in [Tokens -> {"none", "active", "revoked", "deleted"}]
    BY DEF Init
  <2>4. stamp \in Stamps /\ cookie \in 0..MaxTokens
    <3>1. stamp = 0 /\ cookie = 0
      BY DEF Init
    <3> QED BY <1>0, <3>1 DEF Stamps
  <2>5. alarm \in BOOLEAN /\ persisted \in BOOLEAN
    BY DEF Init
  <2> QED BY <1>2, <2>1, <2>2, <2>3, <2>4, <2>5 DEF SessionTypeOK
<1>4. IssuedInOrder
  <2>1. 0 \in 0..MaxTokens /\ \A t \in Tokens : tokens[t] # "none" <=> t <= 0
    BY <1>0 DEF Init, Tokens
  <2> QED BY <2>1 DEF IssuedInOrder
<1>5. CarriedWereIssued
  BY <1>1 DEF Init, CarriedWereIssued
<1>6. SignedTabIsTold
  BY DEF Init, SignedTabIsTold, SignedOut
<1>7. NothingRotatedIsSent
  BY <1>1 DEF Init, NothingRotatedIsSent, OnTheWire
<1> QED BY <1>2, <1>3, <1>4, <1>5, <1>6, <1>7 DEF SessionInv

LEMMA StepKeeps ==
    ASSUME SessionInv, [Next]_vars
    PROVE  /\ SessionInv'
           /\ SignedTabIsTold => SignedTabIsTold'
           /\ Locks /\ NothingRotatedIsSent => NothingRotatedIsSent'
<1>1. CASE ClientStep
  BY <1>1, ClientKeepsInv, ClientSendsNothingRotated DEF ClientStep
<1>2. ASSUME NEW c \in Calls, CallStep(c) \/ Lose(c)
      PROVE  /\ SessionInv'
             /\ SignedTabIsTold => SignedTabIsTold'
             /\ Locks /\ NothingRotatedIsSent => NothingRotatedIsSent'
  <2>1. CASE Acquire(c)
    <3>1. SignedTabIsTold => SignedTabIsTold'
      BY <2>1 DEF Acquire, SignedTabIsTold
    <3> QED BY <2>1, <3>1, AcquireKeeps
  <2>2. CASE ReadToken(c)
    <3>1. SignedTabIsTold => SignedTabIsTold'
      BY <2>2 DEF ReadToken, SignedTabIsTold
    <3> QED BY <2>2, <3>1, ReadTokenKeeps
  <2>3. CASE Rotate(c)
    <3>1. SignedTabIsTold => SignedTabIsTold'
      BY <2>3 DEF Rotate, SignedTabIsTold
    <3> QED BY <2>3, <3>1, RotateKeeps
  <2>4. CASE Receive(c)
    BY <2>4, ReceiveKeeps
  <2>5. CASE OrphanEnds(c) \/ Lose(c)
    BY <1>1, <2>5, LoseIsClient
  <2> QED BY <1>2, <2>1, <2>2, <2>3, <2>4, <2>5 DEF CallStep
<1>3. ASSUME NEW t \in Tabs, TabStep(t)
      PROVE  /\ SessionInv'
             /\ SignedTabIsTold => SignedTabIsTold'
             /\ Locks /\ NothingRotatedIsSent => NothingRotatedIsSent'
  <2>1. CASE Login(t)
    BY <2>1, LoginKeeps
  <2>2. CASE Logout(t)
    BY <2>2, LogoutKeeps
  <2>3. CASE TimerFires(t) \/ RequestRefused(t) \/ Navigate(t)
    BY <1>1, <2>3, RefreshIsClient
  <2>4. CASE \/ NavigateAnonymous(t) \/ StorageEvent(t) \/ LogoutAnswered(t)
             \/ LogoutLost(t) \/ AccessExpires(t)
    BY <1>1, <2>4, EndsAreClient
  <2>5. CASE ClickLogout(t)
    BY <1>1, <2>5, ClickIsClient
  <2>6. CASE Reload(t)
    BY <1>1, <2>6, ReloadIsClient
  <2> QED BY <1>3, <2>1, <2>2, <2>3, <2>4, <2>5, <2>6 DEF TabStep
<1>4. CASE UNCHANGED vars
  <2>1. SameWire(call)
    BY <1>4 DEF vars, SameWire
  <2>2. SignedTabIsTold => SignedTabIsTold'
    BY <1>4 DEF vars, SignedTabIsTold
  <2>3. ClientStep
    BY <1>4, <2>1, <2>2, PartsAreTyped DEF vars, ClientStep
  <2> QED BY <1>1, <2>3
<1> QED BY <1>2, <1>3, <1>4 DEF Next

LEMMA SessionInductive == Spec => []SessionInv
<1>1. Init => SessionInv
  BY InitialSession
<1>2. SessionInv /\ [Next]_vars => SessionInv'
  BY StepKeeps
<1> QED BY <1>1, <1>2, PTL DEF Spec

(* Every reachable state of the session is well typed, for any tabs and    *)
(* bounds.                                                                 *)
THEOREM SessionTypeCorrect == Spec => []SessionTypeOK
<1>1. SessionInv => SessionTypeOK
  BY DEF SessionInv
<1> QED BY <1>1, SessionInductive, PTL

(* A page that still shows a session has it in localStorage or is about to *)
(* hear that it was removed, whatever the tabs do at once                  *)
(* (auth.service.ts, listenForCrossTabLogout).                             *)
THEOREM SignedInTabsAreTold == Spec => []SignedTabIsTold
<1>1. Init => SignedTabIsTold
  BY InitialSession
<1>2. SessionInv /\ SignedTabIsTold /\ [Next]_vars => SignedTabIsTold'
  BY StepKeeps
<1> QED BY <1>1, <1>2, SessionInductive, PTL DEF Spec

(* In a browser with Web Locks no refresh presents a rotated token unless  *)
(* an answer was lost: however many tabs refresh, log in, log out and      *)
(* reload against each other, the lock leaves one request between the      *)
(* cookie and its replacement (token.service.ts, acquireRefreshLock).      *)
THEOREM LockedIsNotAlarmed == Locks => (Spec => []NoFalseAlarm)
<1> SUFFICES ASSUME Locks PROVE Spec => []NoFalseAlarm
  OBVIOUS
<1>1. Init => NothingRotatedIsSent
  BY InitialSession
<1>2. SessionInv /\ NothingRotatedIsSent /\ [Next]_vars => NothingRotatedIsSent'
  BY StepKeeps
<1>3. SessionInv /\ NothingRotatedIsSent => NoFalseAlarm
  BY PartsAreTyped DEF NothingRotatedIsSent, NoFalseAlarm
<1> QED BY <1>1, <1>2, <1>3, SessionInductive, PTL DEF Spec

----------------------------------------------------------------------------
(* Orders of a finite set: the list page's order of its rows.              *)

\* A finite set has an element that a transitive, irreflexive relation puts last.
LEMMA HasLast ==
    ASSUME NEW S, IsFiniteSet(S), S # {}, NEW R,
           \A x \in S : <<x, x>> \notin R,
           \A x, y, z \in S : <<x, y>> \in R /\ <<y, z>> \in R => <<x, z>> \in R
    PROVE  \E m \in S : \A x \in S : <<m, x>> \notin R
<1> DEFINE less == OpToRel(<, Nat)
           Above(x) == {y \in S : <<x, y>> \in R}
           counts == {Cardinality(Above(x)) : x \in S}
<1>1. IsWellFoundedOn(less, Nat)
  BY NatLessThanWellFounded
<1>2. \A a, b \in Nat : a < b => <<a, b>> \in less
  BY DEF OpToRel
<1> HIDE DEF less
<1>3. \A x \in S : IsFiniteSet(Above(x)) /\ Cardinality(Above(x)) \in Nat
  <2>1. \A x \in S : Above(x) \in SUBSET S
    OBVIOUS
  <2> HIDE DEF Above
  <2> QED BY <2>1, FS_Subset, FS_CardinalityType
<1>4. counts \subseteq Nat /\ counts # {}
  <2>1. PICK x \in S : TRUE
    OBVIOUS
  <2>2. Cardinality(Above(x)) \in counts
    OBVIOUS
  <2> HIDE DEF Above
  <2> QED BY <1>3, <2>2
<1>5. PICK n \in counts : \A k \in counts : ~(<<k, n>> \in less)
  BY <1>1, <1>4, WFMin
<1>6. PICK m \in S : n = Cardinality(Above(m))
  BY <1>5
<1>7. ASSUME NEW x \in S, <<m, x>> \in R
      PROVE  FALSE
  <2>1. Above(x) \subseteq Above(m) /\ x \in Above(m) /\ x \notin Above(x)
    BY <1>7
  <2>2. /\ Cardinality(Above(x)) <= Cardinality(Above(m))
        /\ Cardinality(Above(x)) # Cardinality(Above(m))
    <3> HIDE DEF Above
    <3> QED BY <1>3, <2>1, FS_Subset
  <2>3. Cardinality(Above(x)) \in counts
    OBVIOUS
  <2>4. Cardinality(Above(x)) < n
    <3> HIDE DEF Above
    <3> QED BY <1>3, <1>6, <2>2
  <2> HIDE DEF Above, counts
  <2> QED BY <1>2, <1>4, <1>5, <2>3, <2>4
<1> QED BY <1>7

\* ... and one it puts first.
LEMMA HasFirst ==
    ASSUME NEW S, IsFiniteSet(S), S # {}, NEW R,
           \A x \in S : <<x, x>> \notin R,
           \A x, y, z \in S : <<x, y>> \in R /\ <<y, z>> \in R => <<x, z>> \in R
    PROVE  \E m \in S : \A x \in S : <<x, m>> \notin R
<1> DEFINE Back == {p \in S \X S : <<p[2], p[1]>> \in R}
<1>1. \A x, y \in S : <<x, y>> \in Back <=> <<y, x>> \in R
  OBVIOUS
<1> HIDE DEF Back
<1>2. \A x \in S : <<x, x>> \notin Back
  BY <1>1
<1>3. \A x, y, z \in S : <<x, y>> \in Back /\ <<y, z>> \in Back => <<x, z>> \in Back
  BY <1>1
<1>4. PICK m \in S : \A x \in S : <<m, x>> \notin Back
  BY <1>2, <1>3, HasLast
<1> QED BY <1>1, <1>4

(* The rows of S that fewer than n of its rows come before, by R.          *)
FirstOf(R, S, n) == {r \in S : Cardinality({x \in S : <<x, r>> \in R}) < n}

\* What is left out comes after all that is taken; nothing is left out unless
\* one more could be taken; and something is taken if there is something.
LEMMA TakenFirst ==
    ASSUME NEW S, IsFiniteSet(S), NEW n \in Nat \ {0}, NEW R,
           \A x \in S : <<x, x>> \notin R,
           \A x, y, z \in S : <<x, y>> \in R /\ <<y, z>> \in R => <<x, z>> \in R,
           \A x, y \in S : x # y => <<x, y>> \in R \/ <<y, x>> \in R
    PROVE  /\ \A r \in S \ FirstOf(R, S, n), s \in FirstOf(R, S, n) : <<s, r>> \in R
           /\ Cardinality(FirstOf(R, S, n + 1)) <= n => FirstOf(R, S, n) = S
           /\ S # {} => FirstOf(R, S, n) # {}
<1> DEFINE Under(r) == {x \in S : <<x, r>> \in R}
<1>1. \A r \in S : IsFiniteSet(Under(r)) /\ Cardinality(Under(r)) \in Nat
  <2>1. \A r \in S : Under(r) \in SUBSET S
    OBVIOUS
  <2> HIDE DEF Under
  <2> QED BY <2>1, FS_Subset, FS_CardinalityType
<1>2. \A r, k : r \in FirstOf(R, S, k) <=> r \in S /\ Cardinality(Under(r)) < k
  BY DEF FirstOf
<1>3. ASSUME NEW r \in S \ FirstOf(R, S, n), NEW s \in FirstOf(R, S, n)
      PROVE  <<s, r>> \in R
  <2> SUFFICES ASSUME <<s, r>> \notin R PROVE FALSE
    OBVIOUS
  <2>1. s \in S /\ r \in S /\ <<r, s>> \in R
    BY <1>2, <1>3
  <2>2. Under(r) \in SUBSET Under(s)
    BY <2>1
  <2>3. Cardinality(Under(r)) <= Cardinality(Under(s))
    BY <1>1, <2>1, <2>2, FS_Subset
  <2> HIDE DEF Under
  <2> QED BY <1>1, <1>2, <1>3, <2>1, <2>3
<1>4. ASSUME Cardinality(FirstOf(R, S, n + 1)) <= n, S \ FirstOf(R, S, n) # {}
      PROVE  FALSE
  <2> DEFINE rest == S \ FirstOf(R, S, n)
             next == FirstOf(R, S, n + 1)
  <2>1. rest \in SUBSET S /\ IsFiniteSet(rest)
    BY FS_Subset
  <2>2. PICK r \in rest : \A x \in rest : <<x, r>> \notin R
    <3>1. \A x \in rest : <<x, x>> \notin R
      BY <2>1
    <3>2. \A x, y, z \in rest : <<x, y>> \in R /\ <<y, z>> \in R => <<x, z>> \in R
      BY <2>1
    <3>3. rest # {}
      BY <1>4
    <3> HIDE DEF rest
    <3> QED BY <2>1, <3>1, <3>2, <3>3, HasFirst
  <2>3. Under(r) \subseteq FirstOf(R, S, n)
    BY <2>2
  <2>4. FirstOf(R, S, n) \subseteq next
    <3> HIDE DEF Under
    <3> QED BY <1>1, <1>2
  <2>5. next \in SUBSET S /\ IsFiniteSet(next) /\ Cardinality(next) \in Nat
    <3>1. next \in SUBSET S
      BY DEF FirstOf
    <3> HIDE DEF next
    <3> QED BY <3>1, FS_Subset, FS_CardinalityType
  <2>6. r \in S /\ Cardinality(Under(r)) >= n /\ r \notin FirstOf(R, S, n)
    <3> HIDE DEF Under
    <3> QED BY <1>1, <1>2, <2>2
  <2>7. Under(r) \in SUBSET next
    BY <2>3, <2>4
  <2>8. r \notin Under(r)
    BY <2>6
  <2>9. Cardinality(next) <= n
    BY <1>4
  <2>10. Cardinality(Under(r)) < n + 1 => r \in next
    <3> HIDE DEF Under
    <3> QED BY <1>2, <2>6
  <2> HIDE DEF Under, next
  <2>11. Cardinality(Under(r)) <= Cardinality(next)
    BY <2>5, <2>7, FS_Subset
  <2>12. Cardinality(Under(r)) = n /\ Cardinality(next) = n
    BY <1>1, <2>5, <2>6, <2>9, <2>11
  <2>13. Under(r) = next
    BY <2>5, <2>7, <2>12, FS_Subset
  <2> QED BY <2>8, <2>10, <2>12, <2>13
<1>5. ASSUME S # {} PROVE FirstOf(R, S, n) # {}
  <2>1. PICK m \in S : \A x \in S : <<x, m>> \notin R
    BY <1>5, HasFirst
  <2>2. Under(m) = {}
    BY <2>1
  <2>3. Cardinality(Under(m)) = 0
    BY <2>2, FS_EmptySet
  <2> HIDE DEF Under
  <2> QED BY <1>2, <2>3
<1>6. FirstOf(R, S, n) \subseteq S
  BY DEF FirstOf
<1> QED BY <1>3, <1>4, <1>5, <1>6

----------------------------------------------------------------------------
(* A page of the server. *)

RowType == [exists : BOOLEAN, deleted : BOOLEAN, name : Int]
QueryTyped(q) == q.sortBy \in {"createdAt", "name"} /\ q.sortOrder \in {"asc", "desc"}
CursorTyped(c) == c.value \in Int /\ c.id \in Int

OrderOf(q) ==
    {p \in Rows \X Rows : Precedes(q, Value(q, p[1]), p[1], Value(q, p[2]), p[2])}

\* The order of a query is total: ids break ties.
LEMMA RowsOrdered ==
    ASSUME CursorListAssumption, table \in [Rows -> RowType], NEW q, QueryTyped(q)
    PROVE  /\ \A r \in Rows : Value(q, r) \in Int
           /\ \A x, y \in Rows :
                <<x, y>> \in OrderOf(q) <=> Precedes(q, Value(q, x), x, Value(q, y), y)
           /\ \A x \in Rows : <<x, x>> \notin OrderOf(q)
           /\ \A x, y, z \in Rows :
                <<x, y>> \in OrderOf(q) /\ <<y, z>> \in OrderOf(q) => <<x, z>> \in OrderOf(q)
           /\ \A x, y \in Rows : x # y => <<x, y>> \in OrderOf(q) \/ <<y, x>> \in OrderOf(q)
<1>1. \A r \in Rows : Value(q, r) \in Int /\ r \in Int
  BY DEF Value, CursorListAssumption, RowType
<1>2. \A x, y \in Rows :
         <<x, y>> \in OrderOf(q) <=> Precedes(q, Value(q, x), x, Value(q, y), y)
  BY DEF OrderOf
<1>3. \A v, i, w, j \in Int :
         Precedes(q, v, i, w, j) <=>
            IF q.sortOrder = "asc" THEN v < w \/ (v = w /\ i < j) ELSE w < v \/ (w = v /\ j < i)
  BY DEF Precedes
<1>4. \A x, y \in Rows :
         <<x, y>> \in OrderOf(q) <=>
            IF q.sortOrder = "asc"
              THEN Value(q, x) < Value(q, y) \/ (Value(q, x) = Value(q, y) /\ x < y)
              ELSE Value(q, y) < Value(q, x) \/ (Value(q, y) = Value(q, x) /\ y < x)
  BY <1>1, <1>2, <1>3
<1> QED BY <1>1, <1>2, <1>4

LEMMA TakenOf ==
    ASSUME CursorListAssumption, table \in [Rows -> RowType], NEW q, QueryTyped(q),
           NEW cursor, NEW n
    PROVE  /\ Taken(q, cursor, n) = FirstOf(OrderOf(q), After(q, cursor), n)
           /\ After(q, cursor) \in SUBSET Rows /\ IsFiniteSet(After(q, cursor))
<1>1. After(q, cursor) \in SUBSET Rows
  BY DEF After, Matching
<1>2. IsFiniteSet(After(q, cursor))
  BY <1>1, FS_Subset DEF CursorListAssumption
<1>3. \A r \in After(q, cursor) :
         {x \in After(q, cursor) : Precedes(q, Value(q, x), x, Value(q, r), r)}
           = {x \in After(q, cursor) : <<x, r>> \in OrderOf(q)}
  BY <1>1, RowsOrdered
<1>4. Taken(q, cursor, n) = FirstOf(OrderOf(q), After(q, cursor), n)
  BY <1>3 DEF Taken, FirstOf
<1> QED BY <1>1, <1>2, <1>4

\* A page holds rows that match, and those it leaves out come after its cursor:
\* what is after the cursor that was asked for is in the page or after its own.
LEMMA PageCovers ==
    ASSUME CursorListAssumption, table \in [Rows -> RowType], NEW q, QueryTyped(q), NEW cursor
    PROVE  LET a == Page(q, cursor) IN
           /\ a.data \subseteq After(q, cursor) /\ a.data \subseteq Matching(q)
           /\ a.ready = TRUE /\ a.hasMore \in BOOLEAN /\ CursorTyped(a.nextCursor)
           /\ a.hasMore <=> a.nextCursor # NoCursor
           /\ \A r \in After(q, cursor) :
                \/ r \in a.data
                \/ /\ a.hasMore
                   /\ Precedes(q, a.nextCursor.value, a.nextCursor.id, Value(q, r), r)
<1> DEFINE rest == After(q, cursor)
           R == OrderOf(q)
           data == Taken(q, cursor, Limit)
           next == Taken(q, cursor, Limit + 1)
           more == Cardinality(next) > Limit
           last == CHOOSE r \in data :
                     \A x \in data \ {r} : Precedes(q, Value(q, x), x, Value(q, r), r)
<1>0. Limit \in Nat \ {0}
  BY DEF CursorListAssumption
<1>1. /\ data = FirstOf(R, rest, Limit) /\ next = FirstOf(R, rest, Limit + 1)
      /\ rest \in SUBSET Rows /\ IsFiniteSet(rest)
  BY TakenOf
<1>2. /\ \A x \in Rows : <<x, x>> \notin R
      /\ \A x, y, z \in Rows : <<x, y>> \in R /\ <<y, z>> \in R => <<x, z>> \in R
      /\ \A x, y \in Rows : x # y => <<x, y>> \in R \/ <<y, x>> \in R
      /\ \A x, y \in Rows : <<x, y>> \in R <=> Precedes(q, Value(q, x), x, Value(q, y), y)
      /\ \A r \in Rows : Value(q, r) \in Int
  BY RowsOrdered
<1>3. Page(q, cursor) =
        [data |-> data, hasMore |-> more, ready |-> TRUE,
         nextCursor |-> IF more THEN [value |-> Value(q, last), id |-> last, none |-> FALSE]
                        ELSE NoCursor]
  BY DEF Page, CursorOf
<1> HIDE DEF data, next, R
<1>4. data \in SUBSET rest /\ next \in SUBSET rest
  BY <1>1 DEF FirstOf
<1>5. /\ \A r \in rest \ data, s \in data : <<s, r>> \in R
      /\ Cardinality(next) <= Limit => data = rest
      /\ rest # {} => data # {}
  <2>1. /\ \A x \in rest : <<x, x>> \notin R
        /\ \A x, y, z \in rest : <<x, y>> \in R /\ <<y, z>> \in R => <<x, z>> \in R
        /\ \A x, y \in rest : x # y => <<x, y>> \in R \/ <<y, x>> \in R
    BY <1>1, <1>2
  <2> HIDE DEF rest
  <2> QED BY <1>0, <1>1, <2>1, TakenFirst
<1> HIDE DEF rest
<1>6. Cardinality(next) \in Nat /\ IsFiniteSet(data)
  BY <1>1, <1>4, FS_Subset, FS_CardinalityType
<1>7. ASSUME more
      PROVE  /\ last \in data
             /\ \A x \in data \ {last} : <<x, last>> \in R
  <2>1. next # {} /\ rest # {}
    BY <1>0, <1>4, <1>6, <1>7, FS_EmptySet
  <2>2. data # {}
    BY <1>5, <2>1
  <2>3. PICK m \in data : \A x \in data : <<m, x>> \notin R
    <3>1. \A x \in data : <<x, x>> \notin R
      BY <1>1, <1>2, <1>4
    <3>2. \A x, y, z \in data : <<x, y>> \in R /\ <<y, z>> \in R => <<x, z>> \in R
      BY <1>1, <1>2, <1>4
    <3> QED BY <1>6, <2>2, <3>1, <3>2, HasLast
  <2>4. \A x \in data \ {m} : Precedes(q, Value(q, x), x, Value(q, m), m)
    BY <1>1, <1>2, <1>4, <2>3
  <2>5. last \in data /\ \A x \in data \ {last} : Precedes(q, Value(q, x), x, Value(q, last), last)
    BY <2>4
  <2> HIDE DEF last
  <2> QED BY <1>1, <1>2, <1>4, <2>5
<1> HIDE DEF last
<1>8. /\ Page(q, cursor).data = data /\ Page(q, cursor).ready = TRUE
       /\ data \subseteq rest /\ data \subseteq Matching(q)
  BY <1>3, <1>4 DEF rest, After
<1>9. CASE more
  <2>1. last \in data /\ last \in Int /\ Value(q, last) \in Int
    BY <1>1, <1>2, <1>4, <1>7, <1>9 DEF CursorListAssumption
  <2>2. \A r \in rest : r \in data \/ Precedes(q, Value(q, last), last, Value(q, r), r)
    BY <1>1, <1>2, <1>4, <1>5, <2>1
  <2>3. [value |-> Value(q, last), id |-> last, none |-> FALSE] # NoCursor
    BY DEF NoCursor
  <2>4. /\ Page(q, cursor).hasMore = TRUE
        /\ Page(q, cursor).nextCursor = [value |-> Value(q, last), id |-> last, none |-> FALSE]
    <3>1. more = TRUE
      BY <1>6, <1>9 DEF CursorListAssumption
    <3> HIDE DEF more
    <3> QED BY <1>3, <3>1
  <2>5. CursorTyped(Page(q, cursor).nextCursor)
    BY <2>1, <2>4 DEF CursorTyped
  <2>6. Page(q, cursor).nextCursor # NoCursor
    BY <2>3, <2>4
  <2>7. \A r \in rest : r \in data
           \/ Precedes(q, Page(q, cursor).nextCursor.value, Page(q, cursor).nextCursor.id,
                       Value(q, r), r)
    BY <2>2, <2>4
  <2> QED BY <1>8, <2>4, <2>5, <2>6, <2>7 DEF rest
<1>10. CASE ~more
  <2>1. data = rest
    BY <1>0, <1>5, <1>6, <1>10
  <2>2. CursorTyped(NoCursor)
    BY DEF CursorTyped, NoCursor
  <2>3. Page(q, cursor).hasMore = FALSE /\ Page(q, cursor).nextCursor = NoCursor
    <3>1. more = FALSE
      BY <1>6, <1>10 DEF CursorListAssumption
    <3> HIDE DEF more
    <3> QED BY <1>3, <3>1
  <2> QED BY <1>8, <2>1, <2>2, <2>3 DEF rest
<1> QED BY <1>9, <1>10

----------------------------------------------------------------------------
(* The list as it is paged.                                                *)

CursorType == [value : Int, id : Int, none : BOOLEAN]
AnswerType == [data : SUBSET Rows, nextCursor : CursorType, hasMore : BOOLEAN, ready : BOOLEAN]
RequestType == [kind : {"first", "next"}, query : Queries, cursor : CursorType, token : Nat,
                answer : AnswerType]

ListTyped ==
    /\ table \in [Rows -> RowType] /\ query \in Queries /\ shown \subseteq Rows /\ steady \subseteq Rows
    /\ nextCursor \in CursorType /\ (hasMore <=> nextCursor # NoCursor)
    /\ nextCursor # NoCursor => sequence > 0
    /\ sequence \in Nat /\ loading \in BOOLEAN /\ isLoadingMore \in BOOLEAN /\ fresh \in BOOLEAN
    /\ hasMore \in BOOLEAN
    /\ \A m \in pages : /\ m \in RequestType /\ m.token \in 1 .. sequence
                        /\ m.answer.hasMore <=> m.answer.nextCursor # NoCursor
    /\ \A w \in writes : w.row \in Rows
    /\ others => store = "settings"

(* At most one request is current, and it asks for what the page shows.    *)
OneIsCurrent ==
    store # "settings" =>
      /\ \A m, n \in pages : Current(m) /\ Current(n) => m = n
      /\ \A m \in pages : Current(m) =>
           /\ m.query = query
           /\ m.kind = "first" => m.cursor = NoCursor /\ loading /\ ~fresh
           /\ m.kind = "next" => m.cursor = nextCursor /\ isLoadingMore

Beyond(q, c, r) == c # NoCursor /\ Precedes(q, c.value, c.id, Value(q, r), r)

(* A steady row the request asked for is in its answer or past its cursor. *)
AnswersCover ==
    store # "settings" => \A m \in pages : Current(m) /\ m.answer.ready =>
      \A r \in steady :
        /\ r \in After(query, m.cursor) => r \in m.answer.data \/ Beyond(query, m.answer.nextCursor, r)
        /\ r \in m.answer.data => r \in Matching(query)

(* A steady row that matches is on screen or past the page's cursor.       *)
ShownCovers ==
    (store # "settings" /\ fresh) => \A r \in steady :
      /\ r \in Matching(query) => r \in shown \/ Beyond(query, nextCursor, r)
      /\ r \in shown => r \in Matching(query)

ListInv == ListTyped /\ OneIsCurrent /\ AnswersCover /\ ShownCovers

----------------------------------------------------------------------------
LEMMA NothingTyped == NoCursor \in CursorType /\ NoAnswer \in AnswerType
<1>1. NoCursor \in CursorType
  BY DEF NoCursor, CursorType
<1> QED BY <1>1 DEF NoAnswer, AnswerType

\* A request starts without an answer.
LEMMA Unanswered ==
    /\ NoAnswer \in AnswerType
    /\ NoAnswer.ready = FALSE /\ NoAnswer.hasMore = FALSE /\ NoAnswer.nextCursor = NoCursor
<1>1. NoAnswer.ready = FALSE /\ NoAnswer.hasMore = FALSE /\ NoAnswer.nextCursor = NoCursor
  BY DEF NoAnswer
<1> QED BY <1>1, NothingTyped

LEMMA ListInvInit == ASSUME CursorListAssumption PROVE ListInit => ListInv
<1> SUFFICES ASSUME ListInit PROVE ListInv
  OBVIOUS
<1>1. ListTyped
  <2>1. table \in [Rows -> RowType]
    <3>1. \A r \in Rows : NamedAs[r] \in Int
      BY DEF CursorListAssumption
    <3>2. \A r \in Rows :
            [exists |-> r \in Initial, deleted |-> FALSE, name |-> NamedAs[r]] \in RowType
      <4> TAKE r \in Rows
      <4>1. (r \in Initial) = TRUE \/ (r \in Initial) = FALSE
        OBVIOUS
      <4> QED BY <3>1, <4>1 DEF RowType
    <3> QED BY <3>2 DEF ListInit
  <2>2. query \in Queries
    BY DEF ListInit, Queries
  <2>3. nextCursor \in CursorType
    BY NothingTyped DEF ListInit
  <2> QED BY <2>1, <2>2, <2>3 DEF ListInit, ListTyped
<1> QED BY <1>1 DEF ListInit, ListInv, OneIsCurrent, AnswersCover, ShownCovers

\* A first-page load makes every request in flight stale.
LEMMA FirstPageAsked ==
    ASSUME ListInv, StartFirstPage(query'), query' \in Queries, nextCursor' \in CursorType,
           hasMore' \in BOOLEAN, hasMore' <=> nextCursor' # NoCursor,
           UNCHANGED <<store, table, shown, steady, isLoadingMore, writes>>,
           others' => store = "settings"
    PROVE  ListInv'
<1> DEFINE new == Request("first", query', NoCursor, sequence + 1)
<1>1. /\ pages' = pages \cup {new} /\ sequence' = sequence + 1 /\ loading' = TRUE /\ fresh' = FALSE
      /\ sequence \in Nat /\ \A m \in pages : m \in RequestType /\ m.token \in 1 .. sequence
      /\ \A m \in pages : m.answer.hasMore <=> m.answer.nextCursor # NoCursor
  BY DEF StartFirstPage, ListInv, ListTyped
<1>2. /\ new \in RequestType /\ new.token = sequence + 1 /\ new.kind = "first" /\ new.query = query'
      /\ new.cursor = NoCursor /\ new.answer = NoAnswer
      /\ new.answer.ready = FALSE /\ new.answer.hasMore = FALSE /\ new.answer.nextCursor = NoCursor
  <2>1. "first" \in {"first", "next"} /\ query' \in Queries /\ NoCursor \in CursorType /\ sequence + 1 \in Nat
    BY <1>1, NothingTyped
  <2>2. new = [kind |-> "first", query |-> query', cursor |-> NoCursor, token |-> sequence + 1,
               answer |-> NoAnswer]
    BY DEF Request
  <2> HIDE DEF new
  <2> QED BY <2>1, <2>2, Unanswered DEF RequestType
<1> HIDE DEF new
<1>3. \A m \in pages' : m \in pages \/ m = new
  BY <1>1
<1>4. \A m \in pages' : m.token = sequence' => m = new
  BY <1>1, <1>3
<1>5. ListTyped'
  <2>1. \A m \in pages' : m \in RequestType /\ m.token \in 1 .. sequence'
                          /\ (m.answer.hasMore <=> m.answer.nextCursor # NoCursor)
    BY <1>1, <1>2, <1>3
  <2>2. sequence' \in Nat /\ sequence' > 0
    BY <1>1
  <2>3. /\ table' \in [Rows -> RowType] /\ shown' \subseteq Rows /\ steady' \subseteq Rows
        /\ isLoadingMore' \in BOOLEAN /\ \A w \in writes' : w.row \in Rows
        /\ others' => store' = "settings"
    BY DEF ListInv, ListTyped
  <2>4. loading' \in BOOLEAN /\ fresh' \in BOOLEAN
    BY <1>1
  <2> QED BY <2>1, <2>2, <2>3, <2>4 DEF ListTyped
<1>6. OneIsCurrent'
  BY <1>1, <1>2, <1>4 DEF OneIsCurrent, Current
<1>7. AnswersCover'
  BY <1>2, <1>4 DEF AnswersCover, Current
<1>8. ShownCovers'
  BY <1>1 DEF ShownCovers
<1> QED BY <1>5, <1>6, <1>7, <1>8 DEF ListInv

LEMMA PageKeepsListInv ==
    ASSUME CursorListAssumption, ListInv,
           Open \/ (\E s \in Sorts : Sort(s[1], s[2]))
             \/ (\E named \in Names \cup {AnyName}, deleted \in BOOLEAN : Filter(named, deleted))
             \/ ReloadPage
    PROVE  ListInv'
<1>1. CASE Open
  BY <1>1, FirstPageAsked DEF Open, ListInv, ListTyped, tableVars
<1>2. ASSUME NEW s \in Sorts, Sort(s[1], s[2]) PROVE ListInv'
  <2>1. s[1] \in {"createdAt", "name"} /\ s[2] \in {"asc", "desc"}
    BY DEF CursorListAssumption
  <2>2. query' \in Queries
    BY <1>2, <2>1 DEF Sort, ListInv, ListTyped, Queries
  <2>3. nextCursor' \in CursorType /\ hasMore' \in BOOLEAN /\ (hasMore' <=> nextCursor' # NoCursor)
    BY <1>2, NothingTyped DEF Sort
  <2> QED BY <1>2, <2>2, <2>3, FirstPageAsked DEF Sort, tableVars, ListInv, ListTyped
<1>3. ASSUME NEW named \in Names \cup {AnyName}, NEW deleted \in BOOLEAN, Filter(named, deleted)
      PROVE  ListInv'
  <2>1. query' \in Queries
    BY <1>3 DEF Filter, ListInv, ListTyped, Queries
  <2> QED BY <1>3, <2>1, FirstPageAsked DEF Filter, tableVars, ListInv, ListTyped
<1>4. CASE ReloadPage
  BY <1>4, FirstPageAsked DEF ReloadPage, ListInv, ListTyped, tableVars
<1> QED BY <1>1, <1>2, <1>3, <1>4

LEMMA LoadMoreKeepsListInv == ASSUME ListInv, LoadMore PROVE ListInv'
<1> DEFINE new == Request("next", query, nextCursor, sequence)
<1>1. /\ pages' = pages \cup {new} /\ isLoadingMore' = TRUE /\ nextCursor # NoCursor
      /\ ~loading /\ ~isLoadingMore /\ sequence \in Nat /\ query \in Queries /\ nextCursor \in CursorType
      /\ sequence > 0
      /\ UNCHANGED <<store, table, query, shown, loading, nextCursor, hasMore, sequence, writes,
                     others, fresh, steady>>
  BY DEF LoadMore, ListInv, ListTyped, tableVars, listGhosts
<1>2. /\ new \in RequestType /\ new.token = sequence /\ new.kind = "next" /\ new.query = query
      /\ new.cursor = nextCursor /\ new.answer = NoAnswer
      /\ new.answer.ready = FALSE /\ new.answer.hasMore = FALSE /\ new.answer.nextCursor = NoCursor
  <2>1. "next" \in {"first", "next"} /\ query \in Queries /\ nextCursor \in CursorType /\ sequence \in Nat
    BY <1>1
  <2>2. new = [kind |-> "next", query |-> query, cursor |-> nextCursor, token |-> sequence,
               answer |-> NoAnswer]
    BY DEF Request
  <2> HIDE DEF new
  <2> QED BY <2>1, <2>2, Unanswered DEF RequestType
<1> HIDE DEF new
<1>3. \A m \in pages' : m \in pages \/ m = new
  BY <1>1
<1>4. store # "settings" => \A m \in pages : m.token # sequence
  <2>1. \A m \in pages : m.kind = "first" \/ m.kind = "next"
    BY DEF ListInv, ListTyped, RequestType
  <2> QED BY <1>1, <2>1 DEF ListInv, OneIsCurrent, Current
<1>5. ListTyped'
  <2>1. \A m \in pages' : m \in RequestType /\ m.token \in 1 .. sequence'
                          /\ (m.answer.hasMore <=> m.answer.nextCursor # NoCursor)
    BY <1>1, <1>2, <1>3 DEF ListInv, ListTyped
  <2> QED BY <1>1, <2>1 DEF ListInv, ListTyped
<1>6. OneIsCurrent'
  BY <1>1, <1>2, <1>3, <1>4 DEF OneIsCurrent, Current
<1>7. AnswersCover'
  BY <1>1, <1>2, <1>3, <1>4 DEF AnswersCover, Current
<1>8. ShownCovers'
  BY <1>1 DEF ListInv, ShownCovers, Beyond, Value, Matching, UserFilters
<1> QED BY <1>5, <1>6, <1>7, <1>8 DEF ListInv

\* The server answers one request; the others are left.
LEMMA AnswerKeepsListInv ==
    ASSUME CursorListAssumption, ListInv, NEW m \in pages, Answer(m)
    PROVE  ListInv'
<1> DEFINE a == Page(m.query, m.cursor)
           done == [m EXCEPT !.answer = a]
<1>1. /\ pages' = (pages \ {m}) \cup {done}
      /\ steady' = IF m.kind = "first" /\ m.token = sequence THEN Rows ELSE steady
      /\ UNCHANGED <<store, table, query, shown, loading, isLoadingMore, nextCursor, hasMore,
                     sequence, writes, others, fresh>>
  BY DEF Answer, tableVars, pagingVars
<1>2. /\ m \in RequestType /\ m.token \in 1 .. sequence /\ table \in [Rows -> RowType]
      /\ QueryTyped(m.query)
  BY DEF ListInv, ListTyped, RequestType, Queries, QueryTyped
<1>3. /\ a.data \subseteq After(m.query, m.cursor) /\ a.data \subseteq Matching(m.query)
      /\ a.ready = TRUE /\ a.hasMore \in BOOLEAN /\ CursorTyped(a.nextCursor)
      /\ a.hasMore <=> a.nextCursor # NoCursor
      /\ \A r \in After(m.query, m.cursor) :
           \/ r \in a.data
           \/ /\ a.hasMore
              /\ Precedes(m.query, a.nextCursor.value, a.nextCursor.id, Value(m.query, r), r)
  BY <1>2, PageCovers
<1>4. a \in AnswerType
  <2>1. a.nextCursor \in CursorType /\ a.data \in SUBSET Rows
    <3>1. a.nextCursor = NoCursor \/ \E v, i : a.nextCursor = [value |-> v, id |-> i, none |-> FALSE]
      BY DEF Page, CursorOf
    <3>2. NoCursor \in CursorType
      BY DEF NoCursor, CursorType
    <3> HIDE DEF a
    <3>3. ASSUME NEW v, NEW i, a.nextCursor = [value |-> v, id |-> i, none |-> FALSE]
          PROVE  a.nextCursor \in CursorType
      BY <1>3, <3>3 DEF CursorTyped, CursorType
    <3>4. a.data \in SUBSET Rows
      BY <1>3 DEF Matching
    <3> QED BY <3>1, <3>2, <3>3, <3>4
  <2>2. a = [data |-> a.data, hasMore |-> a.hasMore, ready |-> a.ready, nextCursor |-> a.nextCursor]
    BY DEF Page
  <2> HIDE DEF a
  <2> QED BY <1>3, <2>1, <2>2 DEF AnswerType
<1> HIDE DEF a
<1>5. /\ done \in RequestType /\ done.answer = a /\ done.token = m.token /\ done.kind = m.kind
      /\ done.query = m.query /\ done.cursor = m.cursor
  BY <1>2, <1>4 DEF RequestType
<1> HIDE DEF done
<1>6. \A n \in pages' : n = done \/ (n \in pages /\ n # m)
  BY <1>1
<1>7. ListTyped'
  <2>1. \A n \in pages' : n \in RequestType /\ n.token \in 1 .. sequence'
                          /\ (n.answer.hasMore <=> n.answer.nextCursor # NoCursor)
    BY <1>1, <1>2, <1>3, <1>5, <1>6 DEF ListInv, ListTyped
  <2> QED BY <1>1, <2>1 DEF ListInv, ListTyped
<1>8. OneIsCurrent'
  BY <1>1, <1>5, <1>6 DEF ListInv, OneIsCurrent, Current
<1>9. AnswersCover'
  <2> SUFFICES ASSUME store # "settings", NEW n \in pages', n.token = sequence, n.answer.ready,
                      NEW r \in steady'
               PROVE  /\ r \in After(query, n.cursor) =>
                           r \in n.answer.data \/ Beyond(query, n.answer.nextCursor, r)
                      /\ r \in n.answer.data => r \in Matching(query)
    BY <1>1 DEF AnswersCover, Current, Beyond, After, Value, Matching, UserFilters
  <2>1. CASE n = done
    BY <1>3, <1>5, <2>1 DEF ListInv, OneIsCurrent, Current, Beyond
  <2>2. CASE n \in pages /\ n # m
    <3>1. m.token # sequence
      BY <2>2 DEF ListInv, OneIsCurrent, Current
    <3> QED BY <1>1, <2>2, <3>1 DEF ListInv, AnswersCover, Current
  <2> QED BY <1>6, <2>1, <2>2
<1>10. ShownCovers'
  <2>1. CASE m.kind = "first" /\ m.token = sequence
    BY <1>1, <2>1 DEF ListInv, OneIsCurrent, Current, ShownCovers
  <2>2. CASE ~(m.kind = "first" /\ m.token = sequence)
    BY <1>1, <2>2 DEF ListInv, ShownCovers, Beyond, Value, Matching, UserFilters
  <2> QED BY <2>1, <2>2
<1> QED BY <1>7, <1>8, <1>9, <1>10 DEF ListInv

\* A request leaves: its answer is written, or it failed.
LEMMA DeliverKeepsListInv == ASSUME ListInv, NEW m \in pages, Deliver(m) PROVE ListInv'
<1>1. /\ pages' = pages \ {m} /\ m.answer.ready /\ m \in RequestType /\ m.token \in 1 .. sequence
      /\ m.answer.hasMore <=> m.answer.nextCursor # NoCursor
      /\ UNCHANGED <<store, table, query, sequence, writes, others, steady>>
      /\ loading' = (loading /\ ~(Current(m) /\ m.kind = "first"))
      /\ isLoadingMore' = (isLoadingMore /\ ~(Current(m) /\ m.kind = "next"))
  BY DEF Deliver, tableVars, ListInv, ListTyped, Settle
<1>2. CASE Current(m)
  <2>1. /\ shown' = IF m.kind = "first" THEN m.answer.data ELSE shown \cup m.answer.data
        /\ nextCursor' = m.answer.nextCursor /\ hasMore' = m.answer.hasMore
        /\ fresh' = (fresh \/ m.kind = "first")
    BY <1>2 DEF Deliver, WritePage
  <2>2. /\ m.kind \in {"first", "next"} /\ m.answer.data \subseteq Rows
        /\ m.answer.nextCursor \in CursorType /\ m.answer.hasMore \in BOOLEAN
    BY <1>1 DEF RequestType, AnswerType
  <2>3. ListTyped'
    BY <1>1, <2>1, <2>2 DEF ListInv, ListTyped
  <2>4. store # "settings" => \A n \in pages' : n.token # sequence
    BY <1>1, <1>2 DEF ListInv, OneIsCurrent, Current
  <2>5. OneIsCurrent' /\ AnswersCover'
    BY <1>1, <2>4 DEF OneIsCurrent, AnswersCover, Current
  <2>6. ShownCovers'
    <3> SUFFICES ASSUME store # "settings", fresh', NEW r \in steady
                 PROVE  /\ r \in Matching(query) => r \in shown' \/ Beyond(query, m.answer.nextCursor, r)
                        /\ r \in shown' => r \in Matching(query)
      BY <1>1, <2>1 DEF ShownCovers, Beyond, Value, Matching, UserFilters
    <3>1. /\ r \in After(query, m.cursor) => r \in m.answer.data \/ Beyond(query, m.answer.nextCursor, r)
          /\ r \in m.answer.data => r \in Matching(query)
      BY <1>1, <1>2 DEF ListInv, AnswersCover
    <3>2. CASE m.kind = "first"
      <4>1. m.cursor = NoCursor
        BY <1>2, <3>2 DEF ListInv, OneIsCurrent
      <4>2. r \in Matching(query) => r \in After(query, m.cursor)
        BY <4>1 DEF After
      <4> QED BY <2>1, <3>1, <3>2, <4>2
    <3>3. CASE m.kind = "next"
      <4>1. m.cursor = nextCursor /\ fresh
        BY <1>2, <2>1, <3>3 DEF ListInv, OneIsCurrent
      <4>2. r \in Matching(query) /\ Beyond(query, nextCursor, r) => r \in After(query, m.cursor)
        BY <4>1 DEF After, Beyond
      <4>3. /\ r \in Matching(query) => r \in shown \/ Beyond(query, nextCursor, r)
            /\ r \in shown => r \in Matching(query)
        BY <4>1 DEF ListInv, ShownCovers
      <4> QED BY <2>1, <3>1, <3>3, <4>2, <4>3
    <3> QED BY <2>2, <3>2, <3>3
  <2> QED BY <2>3, <2>5, <2>6 DEF ListInv
<1>3. CASE ~Current(m)
  <2>1. UNCHANGED <<shown, nextCursor, hasMore, fresh, loading, isLoadingMore>>
    BY <1>1, <1>3 DEF Deliver, ListInv, ListTyped
  <2>2. ListTyped'
    BY <1>1, <2>1 DEF ListInv, ListTyped
  <2>3. OneIsCurrent'
    BY <1>1, <2>1 DEF ListInv, OneIsCurrent, Current
  <2>4. AnswersCover' /\ ShownCovers'
    BY <1>1, <2>1 DEF ListInv, AnswersCover, ShownCovers, Current, Beyond, After, Value, Matching, UserFilters
  <2> QED BY <2>2, <2>3, <2>4 DEF ListInv
<1> QED BY <1>2, <1>3

LEMMA FailKeepsListInv == ASSUME ListInv, NEW m \in pages, Fail(m) PROVE ListInv'
<1>1. /\ pages' = pages \ {m}
      /\ UNCHANGED <<store, table, query, shown, nextCursor, hasMore, sequence, writes, others,
                     fresh, steady>>
      /\ loading' = (loading /\ ~(Current(m) /\ m.kind = "first"))
      /\ isLoadingMore' = (isLoadingMore /\ ~(Current(m) /\ m.kind = "next"))
  BY DEF Fail, tableVars, listGhosts, Settle
<1>2. ListTyped'
  BY <1>1 DEF ListInv, ListTyped
<1>3. OneIsCurrent'
  BY <1>1 DEF ListInv, OneIsCurrent, Current
<1>4. AnswersCover' /\ ShownCovers'
  BY <1>1 DEF ListInv, AnswersCover, ShownCovers, Current, Beyond, After, Value, Matching, UserFilters
<1> QED BY <1>2, <1>3, <1>4 DEF ListInv

\* A step that leaves the pages and the collection alone.
LEMMA OtherKeepsListInv ==
    ASSUME ListInv,
           Leave \/ SettingsSettle \/ (\E op \in DOMAIN StoreWrites[store], r \in Rows : StartWrite(op, r))
             \/ (\E w \in writes : Refuse(w)) \/ UNCHANGED listVars
    PROVE  ListInv'
<1>1. /\ UNCHANGED <<store, table, query, shown, nextCursor, hasMore, sequence, pages, fresh, steady,
                     isLoadingMore>>
      /\ others' => store = "settings"
      /\ loading' \in BOOLEAN /\ (store # "settings" => loading' = loading)
      /\ \A w \in writes' : w.row \in Rows
  <2>1. CASE Leave
    BY <2>1 DEF Leave, ListInv, ListTyped, tableVars, pagingVars, listGhosts
  <2>2. CASE SettingsSettle
    BY <2>2 DEF SettingsSettle, ListInv, ListTyped, tableVars, listGhosts
  <2>3. CASE \E op \in DOMAIN StoreWrites[store], r \in Rows : StartWrite(op, r)
    <3>1. PICK op \in DOMAIN StoreWrites[store], r \in Rows : StartWrite(op, r)
      BY <2>3
    <3> QED BY <3>1 DEF StartWrite, ListInv, ListTyped, tableVars, pagingVars, listGhosts
  <2>4. CASE \E w \in writes : Refuse(w)
    BY <2>4 DEF Refuse, ListInv, ListTyped, tableVars, pagingVars, listGhosts
  <2>5. CASE UNCHANGED listVars
    BY <2>5 DEF listVars, ListInv, ListTyped
  <2> QED BY <2>1, <2>2, <2>3, <2>4, <2>5
<1>2. ListTyped'
  BY <1>1 DEF ListInv, ListTyped
<1>3. OneIsCurrent'
  BY <1>1 DEF ListInv, OneIsCurrent, Current
<1>4. AnswersCover' /\ ShownCovers'
  BY <1>1 DEF ListInv, AnswersCover, ShownCovers, Current, Beyond, After, Value, Matching, UserFilters
<1> QED BY <1>2, <1>3, <1>4 DEF ListInv

----------------------------------------------------------------------------
\* The table changes in one row, which is steady no more: what is known of the
\* others stays true.
LEMMA ChangeKeepsListInv ==
    ASSUME CursorListAssumption, ListInv, NEW op, NEW r \in Rows, NEW name \in GivenNames(op, r),
           Change(op, r, name), \A w \in writes' : w.row \in Rows,
           UNCHANGED <<store, query, shown, loading, isLoadingMore, nextCursor, hasMore, sequence,
                       pages, others, fresh>>
    PROVE  ListInv'
<1>1. /\ table \in [Rows -> RowType] /\ steady \subseteq Rows
      /\ table' = [table EXCEPT ![r] = Applied(op, r, name)]
      /\ steady' = IF op = "read" THEN steady ELSE steady \ {r}
  BY DEF Change, ListInv, ListTyped
<1>2. Applied(op, r, name) \in RowType
  <2>1. table[r] \in RowType
    BY <1>1
  <2>2. CASE op = "create"
    <3>1. name \in Int
      BY <2>2 DEF GivenNames, CursorListAssumption
    <3> QED BY <2>2, <3>1 DEF Applied, RowType
  <2>3. CASE op = "update"
    <3>1. name \in Int
      BY <2>3 DEF GivenNames, CursorListAssumption
    <3> QED BY <2>1, <2>3, <3>1 DEF Applied, RowType
  <2>4. CASE op = "restore"
    BY <2>1, <2>4 DEF Applied, RowType
  <2>5. CASE op = "delete"
    BY <2>1, <2>5 DEF Applied, RowType
  <2>6. CASE op \notin {"create", "update", "restore", "delete"}
    BY <2>1, <2>6 DEF Applied
  <2> QED BY <2>2, <2>3, <2>4, <2>5, <2>6
<1>3. /\ table' \in [Rows -> RowType] /\ steady' \subseteq steady
      /\ \A x \in steady' : x \in Rows /\ table'[x] = table[x]
  <2>1. op = "read" => Applied(op, r, name) = table[r]
    BY DEF Applied
  <2> HIDE DEF Applied
  <2> QED BY <1>1, <1>2, <2>1
<1>4. ListTyped'
  BY <1>1, <1>3 DEF ListInv, ListTyped
<1>5. OneIsCurrent'
  BY DEF ListInv, OneIsCurrent, Current
<1>6. \A x \in steady' : /\ x \in Matching(query)' <=> x \in Matching(query)
                         /\ Value(query, x)' = Value(query, x)
                         /\ \A c : Beyond(query, c, x)' <=> Beyond(query, c, x)
                         /\ \A c : x \in After(query, c)' <=> x \in After(query, c)
  BY <1>3 DEF Matching, UserFilters, Value, Beyond, After, Precedes
<1>7. AnswersCover'
  BY <1>3, <1>6 DEF ListInv, AnswersCover, Current
<1>8. ShownCovers'
  BY <1>3, <1>6 DEF ListInv, ShownCovers
<1> QED BY <1>4, <1>5, <1>7, <1>8 DEF ListInv

LEMMA ExecuteKeepsListInv ==
    ASSUME CursorListAssumption, ListInv, NEW w \in writes,
           NEW name \in GivenNames(w.op, w.row), Execute(w, name)
    PROVE  ListInv'
<1>1. w.row \in Rows
  BY DEF ListInv, ListTyped
<1>2. \A v \in writes' : v.row \in Rows
  <2>1. [w EXCEPT !.done = TRUE].row = w.row
    OBVIOUS
  <2> QED BY <1>1, <2>1 DEF Execute, ListInv, ListTyped
<1>3. UNCHANGED <<store, query, shown, loading, isLoadingMore, nextCursor, hasMore, sequence,
                  pages, others, fresh>>
  BY DEF Execute, pagingVars
<1> QED BY <1>1, <1>2, <1>3, ChangeKeepsListInv DEF Execute

LEMMA ElsewhereKeepsListInv ==
    ASSUME CursorListAssumption, ListInv, NEW op, NEW r \in Rows,
           NEW name \in GivenNames(op, r), Elsewhere(op, r, name)
    PROVE  ListInv'
<1>1. /\ \A v \in writes' : v.row \in Rows
      /\ UNCHANGED <<store, query, shown, loading, isLoadingMore, nextCursor, hasMore, sequence,
                     pages, others, fresh>>
  BY DEF Elsewhere, pagingVars, ListInv, ListTyped
<1> QED BY <1>1, ChangeKeepsListInv DEF Elsewhere

\* An operation's answer touches the collection in one row, which is steady no more.
LEMMA LandKeepsListInv == ASSUME ListInv, NEW w \in writes, Land(w) PROVE ListInv'
<1>1. /\ shown' = Patched(StoreWrites[store][w.op], w.row) /\ steady' = steady \ {w.row}
      /\ writes' = writes \ {w} /\ w.row \in Rows
      /\ UNCHANGED <<store, table, query, loading, isLoadingMore, nextCursor, hasMore, sequence,
                     pages, others, fresh>>
  BY DEF Land, tableVars, pagingVars, ListInv, ListTyped
<1>2. /\ shown' \subseteq shown \cup {w.row} /\ shown \ {w.row} \subseteq shown'
  <2>1. \A patch : /\ Patched(patch, w.row) \subseteq shown \cup {w.row}
                   /\ shown \ {w.row} \subseteq Patched(patch, w.row)
    BY DEF Patched
  <2> QED BY <1>1, <2>1
<1>3. ListTyped'
  BY <1>1, <1>2 DEF ListInv, ListTyped
<1>4. OneIsCurrent'
  BY <1>1 DEF ListInv, OneIsCurrent, Current
<1>5. AnswersCover' /\ ShownCovers'
  BY <1>1, <1>2 DEF ListInv, AnswersCover, ShownCovers, Current, Beyond, After, Value, Matching, UserFilters
<1> QED BY <1>3, <1>4, <1>5 DEF ListInv

----------------------------------------------------------------------------
LEMMA ListInvStep == ASSUME CursorListAssumption PROVE ListInv /\ [ListNext]_listVars => ListInv'
<1> SUFFICES ASSUME ListInv, [ListNext]_listVars PROVE ListInv'
  OBVIOUS
<1>1. CASE ListNext
  <2>1. CASE Open \/ (\E s \in Sorts : Sort(s[1], s[2]))
               \/ (\E named \in Names \cup {AnyName}, deleted \in BOOLEAN : Filter(named, deleted))
               \/ ReloadPage
    BY <2>1, PageKeepsListInv
  <2>2. CASE LoadMore
    BY <2>2, LoadMoreKeepsListInv
  <2>3. CASE \E m \in pages : Answer(m)
    BY <2>3, AnswerKeepsListInv
  <2>4. CASE \E m \in pages : Deliver(m)
    BY <2>4, DeliverKeepsListInv
  <2>5. CASE \E m \in pages : Fail(m)
    BY <2>5, FailKeepsListInv
  <2>6. CASE Leave \/ SettingsSettle
               \/ (\E op \in DOMAIN StoreWrites[store], r \in Rows : StartWrite(op, r))
               \/ (\E w \in writes : Refuse(w))
    BY <2>6, OtherKeepsListInv
  <2>7. CASE \E w \in writes : \E name \in GivenNames(w.op, w.row) : Execute(w, name)
    BY <2>7, ExecuteKeepsListInv
  <2>8. CASE \E w \in writes : Land(w)
    BY <2>8, LandKeepsListInv
  <2>9. CASE \E op \in {"create", "update", "delete"}, r \in Rows :
               \E name \in GivenNames(op, r) : Elsewhere(op, r, name)
    BY <2>9, ElsewhereKeepsListInv
  <2> QED BY <1>1, <2>1, <2>2, <2>3, <2>4, <2>5, <2>6, <2>7, <2>8, <2>9 DEF ListNext
<1>2. CASE UNCHANGED listVars
  BY <1>2, OtherKeepsListInv
<1> QED BY <1>1, <1>2

LEMMA ListInvAlways == ListSpec => []ListInv
<1>1. ListInit => ListInv
  BY CursorListAssumption, ListInvInit
<1>2. ListInv /\ [ListNext]_listVars => ListInv'
  BY CursorListAssumption, ListInvStep
<1> QED BY <1>1, <1>2, PTL DEF ListSpec

(* The list, its cursor and its requests keep their types.                 *)
THEOREM ListTypeCorrect == ListSpec => []ListTypeOK
<1>1. ListInv => ListTypeOK
  BY DEF ListInv, ListTyped, ListTypeOK
<1> QED BY <1>1, ListInvAlways, PTL

(* However rows come, go and move and whatever requests overlap, a list    *)
(* read to its end shows every row that matched and stayed as it was       *)
(* (applyKeysetPagination, loadFirstPage, loadNextPage).                   *)
THEOREM ReadsSkipNothing == ListSpec => []NothingSkipped
<1>1. ListInv => NothingSkipped
  BY DEF ListInv, ListTyped, ShownCovers, NothingSkipped, ReadToItsEnd, Complete, Beyond
<1> QED BY <1>1, ListInvAlways, PTL

(* The answer to an abandoned sort or filter is never written over a later *)
(* one: a row on screen that stayed as it was matches what is asked for    *)
(* now.                                                                    *)
THEOREM ShowsWhatIsAsked == ListSpec => []OnlyAskedFor
<1>1. ListInv => OnlyAskedFor
  BY DEF ListInv, ShownCovers, OnlyAskedFor
<1> QED BY <1>1, ListInvAlways, PTL

----------------------------------------------------------------------------
(* The permission dialog.                                                  *)

Values == Texts \cup {Absent, "deny"}
ConditionType == [ConditionParts \cup {"effect"} -> Values]
WellShaped(c) == c \in ConditionType /\ c["ownership"] \in Shaped \cup {Absent}

(* The server holds and is sent conditions of the right shape.             *)
GrantsTyped ==
    /\ DOMAIN stored \subseteq Perms /\ \A p \in DOMAIN stored : WellShaped(stored[p])
    /\ \A items \in requests :
         DOMAIN items \subseteq Perms /\ \A p \in DOMAIN items : WellShaped(items[p])

EditorTyped ==
    /\ selectedIds \subseteq Perms /\ expandedIds \subseteq selectedIds \cap Listed
    /\ conditionsMap \in [Perms -> ConditionType]
    /\ texts \in [JsonEditors -> [Perms -> Values]]
    /\ jsonErrors \subseteq Perms \X ConditionParts
    /\ dialog = "loading" => jsonErrors = {} /\ expandedIds = {} /\ requests = {}

(* An error marks an editor that is shown ...                              *)
ErrorsAreShown ==
    \A p \in Perms, b \in ConditionParts :
      <<p, b>> \in jsonErrors => p \in selectedIds /\ conditionsMap[p][b] # Absent

(* ... and an editor without one shows the branch as it will be sent.      *)
BranchesShown(p) ==
    /\ <<p, "ownership">> \notin jsonErrors => conditionsMap[p]["ownership"] \in Shaped \cup {Absent}
    /\ \A e \in JsonEditors : <<p, e>> \notin jsonErrors =>
         \/ conditionsMap[p][e] # Absent /\ texts[e][p] = conditionsMap[p][e]
         \/ conditionsMap[p][e] = Absent /\ texts[e][p] \in {Absent, ""}

UnmarkedAreShown == \A p \in Perms : BranchesShown(p)

(* What the matrix hides is as it was loaded, in the dialog and in a save. *)
HiddenIsKept ==
    /\ \A p \in Hidden \cap DOMAIN original :
         p \in selectedIds /\ conditionsMap[p] = original[p]
    /\ HiddenIsSent

EditorInv == GrantsTyped /\ EditorTyped /\ ErrorsAreShown /\ UnmarkedAreShown /\ HiddenIsKept

----------------------------------------------------------------------------
LEMMA UnrestrictedTyped ==
    /\ WellShaped(Unrestricted)
    /\ \A b \in ConditionParts \cup {"effect"} : Unrestricted[b] = Absent
<1>1. Unrestricted \in ConditionType
  BY DEF Unrestricted, ConditionType, Values
<1>2. \A b \in ConditionParts \cup {"effect"} : Unrestricted[b] = Absent
  BY DEF Unrestricted
<1> QED BY <1>1, <1>2 DEF WellShaped, ConditionParts

LEMMA EditorInvInit == EditorInit => EditorInv
<1> SUFFICES ASSUME EditorInit PROVE EditorInv
  OBVIOUS
<1>1. DOMAIN stored \subseteq Perms /\ \A p \in DOMAIN stored : WellShaped(stored[p])
  <2>1. PICK held \in SUBSET Perms :
          stored \in [held -> {Unrestricted, [Unrestricted EXCEPT !.fieldMatch = "typed"],
                               [Unrestricted EXCEPT !.effect = "deny", !.ownership = "typed"]}]
    BY DEF EditorInit, Grants
  <2>2. WellShaped([Unrestricted EXCEPT !["fieldMatch"] = "typed"])
    BY UnrestrictedTyped DEF WellShaped, ConditionType, Values, Texts, ConditionParts, JsonEditors
  <2>3. WellShaped([Unrestricted EXCEPT !["effect"] = "deny", !["ownership"] = "typed"])
    BY UnrestrictedTyped DEF WellShaped, ConditionType, Values, Texts, ConditionParts, JsonEditors, Shaped
  <2> QED BY <2>1, <2>2, <2>3, UnrestrictedTyped
<1>2. /\ conditionsMap \in [Perms -> ConditionType] /\ texts \in [JsonEditors -> [Perms -> Values]]
      /\ \A p \in Perms : conditionsMap[p] = Unrestricted /\ \A e \in JsonEditors : texts[e][p] = Absent
  BY UnrestrictedTyped DEF EditorInit, NoTexts, Values, WellShaped
<1>3. GrantsTyped
  BY <1>1 DEF EditorInit, GrantsTyped
<1>4. EditorTyped
  BY <1>2 DEF EditorInit, EditorTyped
<1>5. ErrorsAreShown
  BY DEF EditorInit, ErrorsAreShown
<1>6. UnmarkedAreShown
  BY <1>2, UnrestrictedTyped DEF UnmarkedAreShown, BranchesShown, ConditionParts
<1>7. HiddenIsKept
  BY DEF EditorInit, HiddenIsKept, HiddenIsSent
<1> QED BY <1>3, <1>4, <1>5, <1>6, <1>7 DEF EditorInv

LEMMA LoadKeepsEditor == ASSUME EditorInv, Load PROVE EditorInv'
<1>1. /\ original' = stored /\ selectedIds' = DOMAIN stored /\ dialog' = "open"
      /\ conditionsMap' = [p \in Perms |-> IF p \in DOMAIN stored THEN stored[p] ELSE Unrestricted]
      /\ texts' = [e \in JsonEditors |->
                     [p \in Perms |-> IF p \in DOMAIN stored THEN stored[p][e] ELSE Absent]]
      /\ UNCHANGED <<stored, expandedIds, jsonErrors, requests>>
      /\ jsonErrors = {} /\ expandedIds = {} /\ requests = {}
  BY DEF Load, EditorInv, EditorTyped
<1>2. \A p \in Perms : WellShaped(conditionsMap'[p])
  BY <1>1, UnrestrictedTyped DEF EditorInv, GrantsTyped
<1>3. \A e \in JsonEditors, p \in Perms :
         texts'[e][p] = conditionsMap'[p][e] /\ conditionsMap'[p][e] \in Values
  <2> TAKE e \in JsonEditors, p \in Perms
  <2>1. e \in ConditionParts \cup {"effect"}
    BY DEF ConditionParts
  <2>2. conditionsMap'[p][e] \in Values
    BY <1>2, <2>1 DEF WellShaped, ConditionType
  <2> QED BY <1>1, <2>1, <2>2, UnrestrictedTyped
<1>4. GrantsTyped'
  BY <1>1 DEF EditorInv, GrantsTyped
<1>5. EditorTyped'
  <2>1. conditionsMap' \in [Perms -> ConditionType]
    BY <1>1, <1>2 DEF WellShaped
  <2>2. texts' \in [JsonEditors -> [Perms -> Values]]
    BY <1>1, <1>3
  <2> QED BY <1>1, <2>1, <2>2 DEF EditorInv, EditorTyped, GrantsTyped
<1>6. ErrorsAreShown'
  BY <1>1 DEF ErrorsAreShown
<1>7. UnmarkedAreShown'
  BY <1>2, <1>3 DEF UnmarkedAreShown, BranchesShown, WellShaped
<1>8. HiddenIsKept'
  BY <1>1 DEF HiddenIsKept, HiddenIsSent, EditorInv, GrantsTyped
<1> QED BY <1>4, <1>5, <1>6, <1>7, <1>8 DEF EditorInv

\* A step that leaves the editors alone.
LEMMA QuietKeepsEditor ==
    ASSUME EditorInv, UNCHANGED <<editors, original>>, GrantsTyped', HiddenIsSent',
           dialog' = "loading" => dialog = "loading" /\ requests' = requests
    PROVE  EditorInv'
<1>1. UNCHANGED <<selectedIds, conditionsMap, expandedIds, texts, jsonErrors, original>>
  BY DEF editors
<1>2. EditorTyped' /\ ErrorsAreShown' /\ UnmarkedAreShown' /\ HiddenIsKept'
  BY <1>1 DEF EditorInv, EditorTyped, ErrorsAreShown, UnmarkedAreShown, BranchesShown, HiddenIsKept
<1> QED BY <1>2 DEF EditorInv

LEMMA SaveKeepsEditor == ASSUME EditorInv, Save PROVE EditorInv'
<1> DEFINE items == [p \in selectedIds |-> conditionsMap[p]]
<1>1. /\ jsonErrors = {} /\ requests' = requests \cup {items} /\ dialog = "open"
      /\ UNCHANGED <<stored, dialog, editors, original>>
  BY DEF Save, CanSave
<1>2. DOMAIN items \subseteq Perms /\ \A p \in DOMAIN items : WellShaped(items[p])
  BY <1>1 DEF EditorInv, EditorTyped, UnmarkedAreShown, BranchesShown, WellShaped
<1>3. \A p \in Hidden \cap DOMAIN original : p \in DOMAIN items /\ items[p] = original[p]
  BY DEF EditorInv, HiddenIsKept
<1> HIDE DEF items
<1>4. GrantsTyped'
  BY <1>1, <1>2 DEF EditorInv, GrantsTyped
<1>5. HiddenIsSent'
  BY <1>1, <1>3 DEF EditorInv, HiddenIsKept, HiddenIsSent
<1> QED BY <1>1, <1>4, <1>5, QuietKeepsEditor

LEMMA AnswerKeepsEditor ==
    ASSUME EditorInv, NEW items \in requests, SetPermissionsForRole(items) PROVE EditorInv'
<1>1. /\ requests' = requests \ {items} /\ (stored' = stored \/ stored' = items)
      /\ (dialog' = dialog \/ dialog' = "closed") /\ UNCHANGED <<editors, original>>
  BY DEF SetPermissionsForRole
<1>2. dialog # "loading"
  BY DEF EditorInv, EditorTyped
<1>3. GrantsTyped' /\ HiddenIsSent'
  BY <1>1 DEF EditorInv, GrantsTyped, HiddenIsKept, HiddenIsSent
<1> QED BY <1>1, <1>2, <1>3, QuietKeepsEditor

LEMMA OthersKeepEditor ==
    ASSUME EditorInv, LoadFails \/ Cancel \/ OtherAdmin \/ UNCHANGED editorVars PROVE EditorInv'
<1>1. /\ UNCHANGED <<editors, original, requests>>
      /\ dialog' = "loading" => dialog = "loading"
      /\ DOMAIN stored' \subseteq DOMAIN stored /\ \A p \in DOMAIN stored' : stored'[p] = stored[p]
  <2>1. CASE LoadFails
    BY <2>1 DEF LoadFails
  <2>2. CASE Cancel
    BY <2>2 DEF Cancel
  <2>3. CASE OtherAdmin
    BY <2>3 DEF OtherAdmin
  <2>4. CASE UNCHANGED editorVars
    BY <2>4 DEF editorVars, editors
  <2> QED BY <2>1, <2>2, <2>3, <2>4
<1>2. GrantsTyped' /\ HiddenIsSent'
  BY <1>1 DEF EditorInv, GrantsTyped, HiddenIsKept, HiddenIsSent
<1> QED BY <1>1, <1>2, QuietKeepsEditor

\* Selecting and unselecting permissions the matrix shows.
LEMMA SelectKeepsEditor ==
    ASSUME EditorInv, GrantEditorAssumption, NEW ps \in SUBSET Listed, Select(ps)
    PROVE  EditorInv'
<1>1. /\ dialog = "open" /\ UNCHANGED <<stored, dialog, original, requests>>
      /\ Perms = Listed \cup Hidden /\ ps \subseteq Perms /\ ps \cap Hidden = {}
  BY DEF Select, Edit, Perms, GrantEditorAssumption
<1>2. CASE ps \subseteq selectedIds
  <2>1. /\ selectedIds' = selectedIds \ ps /\ expandedIds' = expandedIds \ ps
        /\ conditionsMap' = [p \in Perms |-> IF p \in ps THEN Unrestricted ELSE conditionsMap[p]]
        /\ texts' = [e \in JsonEditors |-> [p \in Perms |-> IF p \in ps THEN Absent ELSE texts[e][p]]]
        /\ jsonErrors' = {x \in jsonErrors : x[1] \notin ps}
    BY <1>2 DEF Select, CollapseAndClear
  <2>2. \A p \in Perms : /\ p \in ps => conditionsMap'[p] = Unrestricted
                         /\ p \notin ps => conditionsMap'[p] = conditionsMap[p]
                         /\ \A e \in JsonEditors : texts'[e][p] = IF p \in ps THEN Absent ELSE texts[e][p]
    BY <2>1
  <2>3. \A p, b : <<p, b>> \in jsonErrors' <=> <<p, b>> \in jsonErrors /\ p \notin ps
    BY <2>1
  <2>4. conditionsMap' \in [Perms -> ConditionType]
    BY <2>1, UnrestrictedTyped DEF EditorInv, EditorTyped, WellShaped
  <2>5. texts' \in [JsonEditors -> [Perms -> Values]]
    BY <2>1 DEF EditorInv, EditorTyped, Values
  <2>6. EditorTyped'
    BY <1>1, <2>1, <2>4, <2>5 DEF EditorInv, EditorTyped
  <2>7. ErrorsAreShown'
    BY <1>1, <2>1, <2>2, <2>3 DEF EditorInv, ErrorsAreShown
  <2>8. UnmarkedAreShown'
    <3> SUFFICES ASSUME NEW p \in Perms PROVE BranchesShown(p)'
      BY DEF UnmarkedAreShown
    <3>1. CASE p \in ps
      BY <2>2, <3>1, UnrestrictedTyped DEF BranchesShown, ConditionParts
    <3>2. CASE p \notin ps
      <4>1. conditionsMap'[p] = conditionsMap[p] /\ \A e \in JsonEditors : texts'[e][p] = texts[e][p]
        BY <2>2, <3>2
      <4>2. \A b : <<p, b>> \in jsonErrors' <=> <<p, b>> \in jsonErrors
        BY <2>3, <3>2
      <4> QED BY <4>1, <4>2 DEF EditorInv, UnmarkedAreShown, BranchesShown
    <3> QED BY <3>1, <3>2
  <2>9. GrantsTyped' /\ HiddenIsKept'
    BY <1>1, <2>1, <2>2 DEF EditorInv, GrantsTyped, HiddenIsKept, HiddenIsSent, Perms
  <2> QED BY <2>6, <2>7, <2>8, <2>9 DEF EditorInv
<1>3. CASE ~(ps \subseteq selectedIds)
  <2>1. selectedIds' = selectedIds \cup ps /\ UNCHANGED <<conditionsMap, expandedIds, texts, jsonErrors>>
    BY <1>3 DEF Select
  <2>2. EditorTyped' /\ GrantsTyped'
    BY <1>1, <2>1 DEF EditorInv, EditorTyped, GrantsTyped
  <2>3. ErrorsAreShown' /\ UnmarkedAreShown' /\ HiddenIsKept'
    BY <1>1, <2>1 DEF EditorInv, ErrorsAreShown, UnmarkedAreShown, BranchesShown, HiddenIsKept, HiddenIsSent
  <2> QED BY <2>2, <2>3 DEF EditorInv
<1> QED BY <1>2, <1>3

----------------------------------------------------------------------------
(* The editors of one permission.                                          *)

\* An edit of one shown permission that leaves its branches as its editors
\* show them, or marks them.
LEMMA OneEdited ==
    ASSUME EditorInv, GrantEditorAssumption, NEW p \in expandedIds, Edit,
           UNCHANGED <<selectedIds, expandedIds>>,
           conditionsMap' \in [Perms -> ConditionType], texts' \in [JsonEditors -> [Perms -> Values]],
           jsonErrors' \subseteq Perms \X ConditionParts,
           \A q \in Perms \ {p} : conditionsMap'[q] = conditionsMap[q],
           \A q \in Perms \ {p}, e \in JsonEditors : texts'[e][q] = texts[e][q],
           \A q \in Perms \ {p}, b \in ConditionParts :
             <<q, b>> \in jsonErrors' <=> <<q, b>> \in jsonErrors,
           \A b \in ConditionParts : <<p, b>> \in jsonErrors' => conditionsMap'[p][b] # Absent,
           BranchesShown(p)'
    PROVE  EditorInv'
<1>1. /\ dialog = "open" /\ UNCHANGED <<stored, dialog, original, requests>>
      /\ p \in selectedIds /\ p \in Listed /\ p \in Perms /\ p \notin Hidden
  BY DEF Edit, EditorInv, EditorTyped, Perms, GrantEditorAssumption
<1>2. EditorTyped' /\ GrantsTyped'
  BY <1>1 DEF EditorInv, EditorTyped, GrantsTyped
<1>3. ErrorsAreShown'
  <2> SUFFICES ASSUME NEW q \in Perms, NEW b \in ConditionParts, <<q, b>> \in jsonErrors'
               PROVE  q \in selectedIds /\ conditionsMap'[q][b] # Absent
    BY DEF ErrorsAreShown
  <2>1. CASE q = p
    BY <1>1, <2>1
  <2>2. CASE q # p
    BY <2>2 DEF EditorInv, ErrorsAreShown
  <2> QED BY <2>1, <2>2
<1>4. UnmarkedAreShown'
  <2> SUFFICES ASSUME NEW q \in Perms PROVE BranchesShown(q)'
    BY DEF UnmarkedAreShown
  <2>1. CASE q = p
    BY <2>1
  <2>2. CASE q # p
    <3>1. "ownership" \in ConditionParts /\ JsonEditors \subseteq ConditionParts
      BY DEF ConditionParts
    <3>2. conditionsMap'[q] = conditionsMap[q] /\ \A e \in JsonEditors : texts'[e][q] = texts[e][q]
      BY <2>2
    <3>3. \A b \in ConditionParts : <<q, b>> \in jsonErrors' <=> <<q, b>> \in jsonErrors
      BY <2>2
    <3>4. BranchesShown(q)
      BY DEF EditorInv, UnmarkedAreShown
    <3> QED BY <3>1, <3>2, <3>3, <3>4 DEF BranchesShown
  <2> QED BY <2>1, <2>2
<1>5. HiddenIsKept'
  BY <1>1 DEF EditorInv, HiddenIsKept, HiddenIsSent, Perms
<1> QED BY <1>2, <1>3, <1>4, <1>5 DEF EditorInv

LEMMA ExpandKeepsEditor == ASSUME EditorInv, NEW p, ToggleExpand(p) PROVE EditorInv'
<1>1. /\ dialog = "open" /\ UNCHANGED <<stored, dialog, original, requests>>
      /\ UNCHANGED <<selectedIds, conditionsMap, texts, jsonErrors>>
      /\ expandedIds' \subseteq selectedIds \cap Listed
  BY DEF ToggleExpand, Edit, EditorInv, EditorTyped
<1>2. EditorTyped' /\ GrantsTyped'
  BY <1>1 DEF EditorInv, EditorTyped, GrantsTyped
<1>3. ErrorsAreShown' /\ UnmarkedAreShown' /\ HiddenIsKept'
  BY <1>1 DEF EditorInv, ErrorsAreShown, UnmarkedAreShown, BranchesShown, HiddenIsKept, HiddenIsSent
<1> QED BY <1>2, <1>3 DEF EditorInv

\* What is known before an edit.
LEMMA BeforeEdit ==
    ASSUME EditorInv, NEW p \in expandedIds
    PROVE  /\ p \in Perms /\ conditionsMap \in [Perms -> ConditionType]
           /\ texts \in [JsonEditors -> [Perms -> Values]]
           /\ jsonErrors \subseteq Perms \X ConditionParts
           /\ \A b \in ConditionParts : <<p, b>> \in jsonErrors => conditionsMap[p][b] # Absent
           /\ BranchesShown(p)
BY DEF EditorInv, EditorTyped, ErrorsAreShown, UnmarkedAreShown, Perms

LEMMA PartNames ==
    /\ JsonEditors = {"fieldMatch", "userAttr"}
    /\ ConditionParts = {"fieldMatch", "userAttr", "ownership", "custom"}
    /\ Absent \in Values /\ Absent \notin Texts /\ Texts \subseteq Values /\ Shaped \subseteq Texts
    /\ "seed" \in Shaped /\ "typed" \in Shaped /\ "" \notin Shaped /\ "wrongShape" \notin Shaped
    /\ "deny" \in Values /\ "wrongShape" \in Texts /\ "" # Absent
BY DEF JsonEditors, ConditionParts, Absent, Values, Texts, Shaped

\* One branch, or the effect, of one permission.
LEMMA PatchOf ==
    ASSUME EditorInv, NEW p \in expandedIds, NEW b \in ConditionParts \cup {"effect"}, NEW v \in Values,
           Patch(p, b, v)
    PROVE  /\ conditionsMap' \in [Perms -> ConditionType]
           /\ \A q \in Perms \ {p} : conditionsMap'[q] = conditionsMap[q]
           /\ conditionsMap'[p][b] = v
           /\ \A c \in ConditionParts \ {b} : conditionsMap'[p][c] = conditionsMap[p][c]
<1>1. p \in Perms /\ conditionsMap \in [Perms -> ConditionType]
  BY BeforeEdit
<1>2. conditionsMap[p] \in [ConditionParts \cup {"effect"} -> Values]
  BY <1>1 DEF ConditionType
<1>3. conditionsMap' = [conditionsMap EXCEPT ![p] = [conditionsMap[p] EXCEPT ![b] = v]]
  BY <1>1 DEF Patch
<1>4. [conditionsMap[p] EXCEPT ![b] = v] \in ConditionType
  BY <1>2 DEF ConditionType
<1>5. conditionsMap'[p] = [conditionsMap[p] EXCEPT ![b] = v]
  BY <1>1, <1>3
<1>6. conditionsMap'[p][b] = v /\ \A c \in ConditionParts \ {b} : conditionsMap'[p][c] = conditionsMap[p][c]
  BY <1>2, <1>5
<1> QED BY <1>1, <1>3, <1>4, <1>6

LEMMA EffectKeepsEditor ==
    ASSUME EditorInv, GrantEditorAssumption, NEW p, SetEffect(p) PROVE EditorInv'
<1>1. PICK v \in {"deny", Absent} : Patch(p, "effect", v)
  BY DEF SetEffect
<1>2. /\ p \in expandedIds /\ Edit /\ UNCHANGED <<selectedIds, expandedIds, texts, jsonErrors>>
  BY DEF SetEffect, Editing
<1>3. "effect" \in ConditionParts \cup {"effect"} /\ v \in Values /\ "effect" \notin ConditionParts
  BY PartNames
<1>4. /\ conditionsMap' \in [Perms -> ConditionType]
      /\ \A q \in Perms \ {p} : conditionsMap'[q] = conditionsMap[q]
      /\ \A c \in ConditionParts : conditionsMap'[p][c] = conditionsMap[p][c]
  BY <1>1, <1>2, <1>3, PatchOf
<1>5. /\ texts \in [JsonEditors -> [Perms -> Values]] /\ jsonErrors \subseteq Perms \X ConditionParts
      /\ \A b \in ConditionParts : <<p, b>> \in jsonErrors => conditionsMap'[p][b] # Absent
  BY <1>2, <1>4, BeforeEdit
<1>6. BranchesShown(p)'
  BY <1>2, <1>4, BeforeEdit, PartNames DEF BranchesShown
<1> QED BY <1>2, <1>4, <1>5, <1>6, OneEdited

\* An edit of the branch b, with an error or without.
LEMMA BranchEdited ==
    ASSUME EditorInv, GrantEditorAssumption, NEW p, NEW b \in ConditionParts, NEW v \in Values,
           Editing(p), UNCHANGED <<selectedIds, expandedIds>>,
           Patch(p, b, v) \/ (v = conditionsMap[p][b] /\ UNCHANGED conditionsMap),
           (SetError(p, b) /\ v # Absent) \/ ClearError(p, b)
             \/ (conditionsMap[p][b] = Absent /\ UNCHANGED jsonErrors),
           <<p, b>> \in jsonErrors' \/ b # "ownership" \/ v \in Shaped \cup {Absent},
           texts' \in [JsonEditors -> [Perms -> Values]],
           \A q \in Perms, e \in JsonEditors : q # p \/ e # b => texts'[e][q] = texts[e][q],
           b \in JsonEditors =>
             \/ <<p, b>> \in jsonErrors'
             \/ v # Absent /\ texts'[b][p] = v
             \/ v = Absent /\ texts'[b][p] \in {Absent, ""}
    PROVE  EditorInv'
<1>1. p \in expandedIds /\ Edit
  BY DEF Editing
<1>2. /\ conditionsMap' \in [Perms -> ConditionType]
      /\ \A q \in Perms \ {p} : conditionsMap'[q] = conditionsMap[q]
      /\ conditionsMap'[p][b] = v
      /\ \A c \in ConditionParts \ {b} : conditionsMap'[p][c] = conditionsMap[p][c]
  <2>1. CASE Patch(p, b, v)
    BY <1>1, <2>1, PatchOf
  <2>2. CASE v = conditionsMap[p][b] /\ UNCHANGED conditionsMap
    BY <1>1, <2>2, BeforeEdit
  <2> QED BY <2>1, <2>2
<1>3. /\ p \in Perms /\ jsonErrors \subseteq Perms \X ConditionParts
      /\ \A c \in ConditionParts : <<p, c>> \in jsonErrors => conditionsMap[p][c] # Absent
      /\ BranchesShown(p)
  BY <1>1, BeforeEdit
<1>4. /\ jsonErrors' \subseteq Perms \X ConditionParts
      /\ \A q, c : <<q, c>> # <<p, b>> => (<<q, c>> \in jsonErrors' <=> <<q, c>> \in jsonErrors)
      /\ <<p, b>> \in jsonErrors' => v # Absent
  <2>1. CASE SetError(p, b) /\ v # Absent
    BY <1>3, <2>1 DEF SetError
  <2>2. CASE ClearError(p, b)
    BY <1>3, <2>2 DEF ClearError
  <2>3. CASE conditionsMap[p][b] = Absent /\ UNCHANGED jsonErrors
    BY <1>3, <2>3
  <2> QED BY <2>1, <2>2, <2>3
<1>5. \A q \in Perms \ {p}, c \in ConditionParts : <<q, c>> \in jsonErrors' <=> <<q, c>> \in jsonErrors
  BY <1>4
<1>6. \A c \in ConditionParts : <<p, c>> \in jsonErrors' => conditionsMap'[p][c] # Absent
  <2> TAKE c \in ConditionParts
  <2>1. CASE c = b
    BY <1>2, <1>4, <2>1
  <2>2. CASE c # b
    BY <1>2, <1>3, <1>4, <2>2
  <2> QED BY <2>1, <2>2
<1>7. BranchesShown(p)'
  <2>1. <<p, "ownership">> \notin jsonErrors' => conditionsMap'[p]["ownership"] \in Shaped \cup {Absent}
    <3>1. CASE b = "ownership"
      BY <1>2, <3>1
    <3>2. CASE b # "ownership"
      BY <1>2, <1>3, <1>4, <3>2, PartNames DEF BranchesShown
    <3> QED BY <3>1, <3>2
  <2>2. ASSUME NEW e \in JsonEditors, <<p, e>> \notin jsonErrors'
        PROVE  \/ conditionsMap'[p][e] # Absent /\ texts'[e][p] = conditionsMap'[p][e]
               \/ conditionsMap'[p][e] = Absent /\ texts'[e][p] \in {Absent, ""}
    <3>1. CASE e = b
      BY <1>2, <2>2, <3>1
    <3>2. CASE e # b
      <4>1. e \in ConditionParts \ {b} /\ <<p, e>> \notin jsonErrors /\ texts'[e][p] = texts[e][p]
        BY <1>3, <1>4, <2>2, <3>2 DEF ConditionParts
      <4> QED BY <1>2, <1>3, <4>1 DEF BranchesShown
    <3> QED BY <3>1, <3>2
  <2> QED BY <2>1, <2>2 DEF BranchesShown
<1>8. \A q \in Perms \ {p}, e \in JsonEditors : texts'[e][q] = texts[e][q]
  OBVIOUS
<1> QED BY <1>1, <1>2, <1>4, <1>5, <1>6, <1>7, <1>8, OneEdited

LEMMA OwnershipKeepsEditor ==
    ASSUME EditorInv, GrantEditorAssumption, NEW p,
           ToggleOwnership(p) \/ (\E f \in {"typed", "wrongShape"} : SetOwnershipField(p, f))
    PROVE  EditorInv'
<1>1. "ownership" \in ConditionParts /\ "ownership" \notin JsonEditors
  BY PartNames
<1>2. CASE ToggleOwnership(p)
  <2>1. Editing(p) /\ UNCHANGED <<selectedIds, expandedIds, texts>>
    BY <1>2 DEF ToggleOwnership
  <2>2. texts' \in [JsonEditors -> [Perms -> Values]]
    BY <2>1, BeforeEdit DEF Editing
  <2>3. CASE Has(p, "ownership")
    <3>1. Patch(p, "ownership", Absent) /\ ClearError(p, "ownership")
      BY <1>2, <2>3 DEF ToggleOwnership, RemovePart
    <3> QED BY <1>1, <2>1, <2>2, <3>1, BranchEdited, PartNames
  <2>4. CASE ~Has(p, "ownership")
    <3>1. /\ Patch(p, "ownership", "seed") /\ UNCHANGED jsonErrors
          /\ conditionsMap[p]["ownership"] = Absent
      BY <1>2, <2>4 DEF ToggleOwnership, Has
    <3>2. "seed" \in Values
      BY PartNames
    <3> QED BY <1>1, <2>1, <2>2, <3>1, <3>2, BranchEdited, PartNames
  <2> QED BY <2>3, <2>4
<1>3. ASSUME NEW f \in {"typed", "wrongShape"}, SetOwnershipField(p, f) PROVE EditorInv'
  <2>1. /\ Editing(p) /\ UNCHANGED <<selectedIds, expandedIds, texts>> /\ Patch(p, "ownership", f)
        /\ IF f \in Shaped THEN ClearError(p, "ownership") ELSE SetError(p, "ownership")
    BY <1>3 DEF SetOwnershipField
  <2>2. texts' \in [JsonEditors -> [Perms -> Values]]
    BY <2>1, BeforeEdit DEF Editing
  <2>3. f \in Values /\ f # Absent
    BY PartNames
  <2>4. SetError(p, "ownership") => <<p, "ownership">> \in jsonErrors'
    BY DEF SetError
  <2> QED BY <1>1, <2>1, <2>2, <2>3, <2>4, BranchEdited
<1> QED BY <1>2, <1>3

LEMMA JsonKeepsEditor ==
    ASSUME EditorInv, GrantEditorAssumption, NEW p, NEW e \in JsonEditors,
           ToggleJsonEditor(p, e) \/ (\E t \in Texts : ApplyJsonEditor(p, e, t))
    PROVE  EditorInv'
<1>1. e \in ConditionParts /\ e # "ownership"
  BY PartNames
<1>2. ASSUME NEW t \in Values, Editing(p), texts' = [texts EXCEPT ![e][p] = t]
      PROVE  /\ texts' \in [JsonEditors -> [Perms -> Values]] /\ texts'[e][p] = t
             /\ \A q \in Perms, d \in JsonEditors : q # p \/ d # e => texts'[d][q] = texts[d][q]
  <2>1. p \in Perms /\ texts \in [JsonEditors -> [Perms -> Values]]
    BY <1>2, BeforeEdit DEF Editing
  <2>2. texts[e] \in [Perms -> Values]
    BY <2>1
  <2>3. texts' = [texts EXCEPT ![e] = [texts[e] EXCEPT ![p] = t]]
    BY <1>2, <2>1
  <2>4. [texts[e] EXCEPT ![p] = t] \in [Perms -> Values]
    BY <2>2
  <2>5. texts'[e] = [texts[e] EXCEPT ![p] = t] /\ \A d \in JsonEditors \ {e} : texts'[d] = texts[d]
    BY <2>1, <2>3
  <2>6. texts'[e][p] = t /\ \A q \in Perms \ {p} : texts'[e][q] = texts[e][q]
    BY <2>1, <2>2, <2>5
  <2> QED BY <2>1, <2>3, <2>4, <2>5, <2>6
<1>3. CASE ToggleJsonEditor(p, e)
  <2>1. Editing(p) /\ UNCHANGED <<selectedIds, expandedIds>>
    BY <1>3 DEF ToggleJsonEditor
  <2>2. CASE Has(p, e)
    <3>1. Patch(p, e, Absent) /\ ClearError(p, e) /\ texts' = [texts EXCEPT ![e][p] = Absent]
      BY <1>3, <2>2 DEF ToggleJsonEditor, RemovePart
    <3>2. Absent \in Values
      BY PartNames
    <3> QED BY <1>1, <1>2, <2>1, <3>1, <3>2, BranchEdited
  <2>3. CASE ~Has(p, e)
    <3>1. /\ Patch(p, e, "seed") /\ UNCHANGED jsonErrors /\ texts' = [texts EXCEPT ![e][p] = "seed"]
          /\ conditionsMap[p][e] = Absent
      BY <1>3, <2>3 DEF ToggleJsonEditor, Has
    <3>2. "seed" \in Values /\ "seed" # Absent
      BY PartNames
    <3> QED BY <1>1, <1>2, <2>1, <3>1, <3>2, BranchEdited
  <2> QED BY <2>2, <2>3
<1>4. ASSUME NEW t \in Texts, ApplyJsonEditor(p, e, t) PROVE EditorInv'
  <2>1. /\ Editing(p) /\ UNCHANGED <<selectedIds, expandedIds>> /\ conditionsMap[p][e] # Absent
        /\ texts' = [texts EXCEPT ![e][p] = t] /\ t \in Values /\ t # Absent
    BY <1>4, PartNames DEF ApplyJsonEditor, Has
  <2>2. CASE t = ""
    <3>1. Patch(p, e, Absent) /\ ClearError(p, e) /\ Absent \in Values
      BY <1>4, <2>2, PartNames DEF ApplyJsonEditor, RemovePart
    <3> QED BY <1>1, <1>2, <2>1, <2>2, <3>1, BranchEdited
  <2>3. CASE t # "" /\ t \in Shaped
    <3>1. Patch(p, e, t) /\ ClearError(p, e)
      BY <1>4, <2>3 DEF ApplyJsonEditor
    <3> QED BY <1>1, <1>2, <2>1, <3>1, BranchEdited
  <2>4. CASE t # "" /\ t \notin Shaped
    <3>1. SetError(p, e) /\ UNCHANGED conditionsMap /\ <<p, e>> \in jsonErrors'
      BY <1>4, <2>4 DEF ApplyJsonEditor, SetError
    <3>2. conditionsMap[p][e] \in Values
      BY <1>1, <2>1, BeforeEdit DEF Editing, ConditionType
    <3> QED BY <1>1, <1>2, <2>1, <3>1, <3>2, BranchEdited
  <2> QED BY <2>2, <2>3, <2>4
<1> QED BY <1>3, <1>4

LEMMA CustomKeepsEditor ==
    ASSUME EditorInv, GrantEditorAssumption, NEW p,
           ToggleCustom(p) \/ (\E t \in {"", "typed"} : OnCustomChange(p, t))
    PROVE  EditorInv'
<1>1. "custom" \in ConditionParts /\ "custom" \notin JsonEditors /\ Absent \in Values
  BY PartNames
<1>2. Editing(p) /\ UNCHANGED <<selectedIds, expandedIds, texts>>
  BY DEF ToggleCustom, OnCustomChange
<1>3. texts' \in [JsonEditors -> [Perms -> Values]]
  BY <1>2, BeforeEdit DEF Editing
<1>4. PICK v \in Values :
        /\ Patch(p, "custom", v)
        /\ ClearError(p, "custom") \/ (conditionsMap[p]["custom"] = Absent /\ UNCHANGED jsonErrors)
  <2>1. CASE ToggleCustom(p)
    BY <1>1, <2>1, PartNames DEF ToggleCustom, RemovePart, Has
  <2>2. ASSUME NEW t \in {"", "typed"}, OnCustomChange(p, t)
        PROVE \E v \in Values :
                /\ Patch(p, "custom", v)
                /\ ClearError(p, "custom") \/ (conditionsMap[p]["custom"] = Absent /\ UNCHANGED jsonErrors)
    BY <1>1, <2>2, PartNames DEF OnCustomChange, RemovePart
  <2> QED BY <2>1, <2>2
<1> QED BY <1>1, <1>2, <1>3, <1>4, BranchEdited, PartNames

----------------------------------------------------------------------------
LEMMA EditorInvStep ==
    ASSUME GrantEditorAssumption PROVE EditorInv /\ [EditorNext]_editorVars => EditorInv'
<1> SUFFICES ASSUME EditorInv, [EditorNext]_editorVars PROVE EditorInv'
  OBVIOUS
<1>1. CASE Load
  BY <1>1, LoadKeepsEditor
<1>2. CASE LoadFails \/ Cancel \/ OtherAdmin \/ UNCHANGED editorVars
  BY <1>2, OthersKeepEditor
<1>3. CASE ToggleGroup \/ (\E p \in Listed : TogglePermission(p))
  <2>1. PICK ps \in SUBSET Listed : Select(ps)
    BY <1>3 DEF ToggleGroup, TogglePermission
  <2> QED BY <2>1, SelectKeepsEditor
<1>4. CASE Save
  BY <1>4, SaveKeepsEditor
<1>5. CASE \E items \in requests : SetPermissionsForRole(items)
  BY <1>5, AnswerKeepsEditor
<1>6. ASSUME NEW p \in Listed, EditorsNext(p), ~TogglePermission(p) PROVE EditorInv'
  <2>1. CASE ToggleExpand(p)
    BY <2>1, ExpandKeepsEditor
  <2>2. CASE SetEffect(p)
    BY <2>2, EffectKeepsEditor
  <2>3. CASE ToggleOwnership(p) \/ \E f \in {"typed", "wrongShape"} : SetOwnershipField(p, f)
    BY <2>3, OwnershipKeepsEditor
  <2>4. CASE ToggleCustom(p) \/ \E t \in {"", "typed"} : OnCustomChange(p, t)
    BY <2>4, CustomKeepsEditor
  <2>5. ASSUME NEW e \in JsonEditors, ToggleJsonEditor(p, e) \/ \E t \in Texts : ApplyJsonEditor(p, e, t)
        PROVE  EditorInv'
    BY <2>5, JsonKeepsEditor
  <2> QED BY <1>6, <2>1, <2>2, <2>3, <2>4, <2>5 DEF EditorsNext
<1> QED BY <1>1, <1>2, <1>3, <1>4, <1>5, <1>6 DEF EditorNext

LEMMA EditorInvAlways == EditorSpec => []EditorInv
<1>1. EditorInv /\ [EditorNext]_editorVars => EditorInv'
  BY GrantEditorAssumption, EditorInvStep
<1> QED BY <1>1, EditorInvInit, PTL DEF EditorSpec

(* For any permissions, edits and administrators, a save of the permission *)
(* dialog sends what its editors show, in the shape the server asks for,   *)
(* and no error outlives its editor (togglePermission, #collapseAndClear,  *)
(* #applyJsonEditor).                                                      *)
THEOREM EditorSendsWhatIsShown == EditorSpec => []SendsWhatIsShown
<1>1. EditorInv => SendsWhatIsShown
  <2> SUFFICES ASSUME EditorInv PROVE SendsWhatIsShown
    OBVIOUS
  <2>1. ASSUME NEW x \in jsonErrors PROVE x[1] \in selectedIds /\ Has(x[1], x[2])
    <3>1. x[1] \in Perms /\ x[2] \in ConditionParts /\ <<x[1], x[2]>> \in jsonErrors
      BY DEF EditorInv, EditorTyped
    <3> QED BY <3>1 DEF EditorInv, ErrorsAreShown, Has
  <2>2. ASSUME CanSave, NEW p \in selectedIds
        PROVE  /\ conditionsMap[p].ownership \in Shaped \cup {Absent}
               /\ \A e \in JsonEditors :
                    IF Has(p, e) THEN texts[e][p] = conditionsMap[p][e] ELSE texts[e][p] \in {Absent, ""}
    <3>1. BranchesShown(p) /\ jsonErrors = {}
      BY <2>2 DEF EditorInv, EditorTyped, UnmarkedAreShown, CanSave
    <3> QED BY <3>1 DEF BranchesShown, Has
  <2> QED BY <2>1, <2>2 DEF SendsWhatIsShown
<1> QED BY <1>1, EditorInvAlways, PTL

(* A grant the matrix does not show is in every save as it was loaded.     *)
THEOREM HiddenGrantsAreSent == EditorSpec => []HiddenIsSent
<1>1. EditorInv => HiddenIsSent
  BY DEF EditorInv, HiddenIsKept
<1> QED BY <1>1, EditorInvAlways, PTL

----------------------------------------------------------------------------
(* The conditions of a grant, in the check and in the list.                *)

\* SQL says true or false of a test only where the matcher agrees; it may say
\* neither.
LEMMA FieldAgrees ==
    ASSUME NEW v, NEW t, ~Untranslatable(t)
    PROVE  /\ TranslateField(v, t) \in {"true", "false", "null"}
           /\ TranslateField(v, t) = "true" => Holds(v, t)
           /\ TranslateField(v, t) = "false" => ~Holds(v, t)
<1>1. /\ t[1] \in {"$eq", "$ne", "$gt", "$in", "$nin"}
      /\ t[1] \in {"$eq", "$ne", "$gt"} => t[2].kind = "scalar"
  BY DEF Untranslatable, Operators, Comparisons, Lists
<1>2. CASE t[1] = "$eq"
  BY <1>1, <1>2 DEF TranslateField, Holds
<1>3. CASE t[1] = "$ne"
  BY <1>1, <1>3 DEF TranslateField, Holds
<1>4. CASE t[1] = "$gt"
  BY <1>1, <1>4 DEF TranslateField, Holds
<1>5. CASE t[1] = "$in"
  BY <1>1, <1>5 DEF TranslateField, Holds
<1>6. CASE t[1] = "$nin"
  BY <1>1, <1>6 DEF TranslateField, Holds
<1> QED BY <1>1, <1>2, <1>3, <1>4, <1>5, <1>6

LEMMA AndOf ==
    ASSUME NEW values
    PROVE  /\ And(values) \in {"true", "false", "null"}
           /\ And(values) = "true" => "false" \notin values /\ "null" \notin values
           /\ And(values) = "false" => "false" \in values
BY DEF And

LEMMA OrOf ==
    ASSUME NEW values
    PROVE  /\ Or(values) = "true" => "true" \in values
           /\ Or(values) = "false" => "true" \notin values /\ "null" \notin values
BY DEF Or

\* So it is with a query that can be translated as a whole.
LEMMA QueryAgrees ==
    ASSUME NEW record, NEW q, ~Skipped(q)
    PROVE  /\ Translate(record, q) \in {"true", "false", "null"}
           /\ Translate(record, q) = "true" => Matches(record, q)
           /\ Translate(record, q) = "false" => ~Matches(record, q)
<1> DEFINE Tests(k) == {TranslateField(record[k], t) : t \in q[k]}
           fields == {And(Tests(k)) : k \in DOMAIN q}
<1>1. Translate(record, q) = And(fields)
  BY DEF Translate
<1>2. \A k \in DOMAIN q : ValueOf(record, k) = record[k] /\ \A t \in q[k] : ~Untranslatable(t)
  BY DEF Skipped, ValueOf
<1>3. \A k \in DOMAIN q : \A t \in q[k] :
         /\ TranslateField(record[k], t) \in {"true", "false", "null"}
         /\ TranslateField(record[k], t) = "true" => Holds(ValueOf(record, k), t)
         /\ TranslateField(record[k], t) = "false" => ~Holds(ValueOf(record, k), t)
  BY <1>2, FieldAgrees
<1>4. ASSUME And(fields) = "true", NEW k \in DOMAIN q, NEW t \in q[k]
      PROVE  Holds(ValueOf(record, k), t)
  <2>1. And(Tests(k)) \in fields
    OBVIOUS
  <2> HIDE DEF fields
  <2>2. And(Tests(k)) = "true"
    BY <1>4, <2>1, AndOf
  <2>3. TranslateField(record[k], t) \in Tests(k)
    OBVIOUS
  <2> HIDE DEF Tests
  <2>4. TranslateField(record[k], t) = "true"
    BY <1>3, <2>2, <2>3, AndOf
  <2> QED BY <1>3, <2>4
<1>5. ASSUME And(fields) = "false"
      PROVE  \E k \in DOMAIN q : \E t \in q[k] : ~Holds(ValueOf(record, k), t)
  <2>1. "false" \in fields
    <3> HIDE DEF fields
    <3> QED BY <1>5, AndOf
  <2>2. PICK k \in DOMAIN q : And(Tests(k)) = "false"
    BY <2>1
  <2>3. "false" \in Tests(k)
    <3> HIDE DEF Tests
    <3> QED BY <2>2, AndOf
  <2>4. PICK t \in q[k] : TranslateField(record[k], t) = "false"
    BY <2>3
  <2> QED BY <1>3, <2>4
<1>6. And(fields) \in {"true", "false", "null"}
  <2> HIDE DEF fields
  <2> QED BY AndOf
<1> HIDE DEF fields
<1> QED BY <1>1, <1>4, <1>5, <1>6 DEF Matches

(* Whatever the rules are: a record the list shows passes the check.       *)
LEMMA ListWithinRules ==
    ASSUME NEW rules, NEW u, ApplyAbilityToUserQuery(rules, u)
    PROVE  Can(rules, u)
<1> DEFINE allows == {r \in Range(rules) : ~r.inverted}
           denies == {r \in Range(rules) : r.inverted}
           Translatable(s) == {r \in s : ~Unconditional(r) /\ ~Skipped(r.query)}
           Shows(s) == Or({Translate(u, r.query) : r \in Translatable(s)})
<1>1. /\ \E r \in allows : TRUE
      /\ \A r \in denies : ~Unconditional(r)
      /\ \A r \in denies : ~Skipped(r.query)
      /\ (\E r \in allows : Unconditional(r)) \/ Shows(allows) = "true"
      /\ Shows(denies) = "false"
  BY DEF ApplyAbilityToUserQuery, TranslateRuleSet
<1>2. ASSUME NEW r \in denies PROVE ~Matches(u, r.query)
  <2>1. r \in Translatable(denies)
    BY <1>1
  <2>2. Translate(u, r.query) \in {Translate(u, x.query) : x \in Translatable(denies)}
    BY <2>1
  <2>3. Translate(u, r.query) \notin {"true", "null"}
    <3> DEFINE values == {Translate(u, x.query) : x \in Translatable(denies)}
    <3>1. Translate(u, r.query) \in values /\ Or(values) = "false"
      BY <1>1, <2>2
    <3> HIDE DEF values
    <3> QED BY <3>1, OrOf
  <2> QED BY <1>1, <2>3, QueryAgrees
<1>3. \E r \in allows : Matches(u, r.query)
  <2>1. CASE \E r \in allows : Unconditional(r)
    BY <2>1 DEF Unconditional, Matches
  <2>2. CASE Shows(allows) = "true"
    <3> DEFINE values == {Translate(u, x.query) : x \in Translatable(allows)}
    <3>1. Or(values) = "true"
      BY <2>2
    <3>2. "true" \in values
      <4> HIDE DEF values
      <4> QED BY <3>1, OrOf
    <3>3. PICK r \in Translatable(allows) : Translate(u, r.query) = "true"
      BY <3>2
    <3> QED BY <3>3, QueryAgrees
  <2> QED BY <1>1, <2>1, <2>2
<1>4. \A r : r \in Range(rules) <=> \E i \in DOMAIN rules : r = rules[i]
  BY DEF Range
<1> QED BY <1>2, <1>3, <1>4 DEF Can

(* For any grants, rows and records, stored through the check or past it,  *)
(* the list of users shows no record that the check of that record would   *)
(* refuse (applyAbilityToUserQuery beside the library's can()).            *)
THEOREM ListStaysWithinCheck == GrantSpec => []ListWithinCheck
<1>1. ListWithinCheck
  BY ListWithinRules DEF ListWithinCheck
<1> QED BY <1>1, PTL

----------------------------------------------------------------------------
(* The tabs that sign in with a provider or connect one.                   *)

TabFields == {"at", "user", "asker", "provider", "flow", "answer", "sent", "to"}

FlowTyped ==
    /\ DOMAIN jar = Cookies
    /\ DOMAIN signing = FlowTabs
    /\ \A t \in FlowTabs :
          /\ DOMAIN signing[t] = TabFields
          /\ signing[t].at # "page" => signing[t].provider \in Providers

(* An attempt is asked for by the user of its tab.                         *)
AskedByUser ==
    \A t \in FlowTabs :
        signing[t].at = "init" => signing[t].asker = signing[t].user /\ signing[t].asker # NoOne

(* Until another tab ends it, the cookie of an attempt names who asked,    *)
(* in the browser and then in the callback.                                *)
CookieNamesAsker ==
    \A t \in FlowTabs \ robbed :
        signing[t].asker # NoOne =>
            /\ signing[t].at \in {"departing", "consent"} => jar["link"] = signing[t].asker
            /\ signing[t].at = "returning" => signing[t].sent["link"] = signing[t].asker

(* A tab whose callback brings, or will bring, the cookie of an attempt.   *)
BringsCookie(t) ==
    /\ signing[t].asker # NoOne
    /\ \/ signing[t].at \in {"departing", "consent"}
       \/ signing[t].at = "returning" /\ signing[t].sent["link"] # NoOne

CookieIsBrought ==
    jar["link"] # NoOne => abandoned \/ \E t \in FlowTabs : BringsCookie(t)

FlowInv ==
    FlowTyped /\ AskedByUser /\ CookieNamesAsker /\ AttemptIsItsOwn /\ CookieIsBrought

LEMMA CookieNames ==
    /\ {"link", "data", "session"} \subseteq Cookies /\ Providers \subseteq Cookies
    /\ "link" \notin Providers /\ "data" \notin Providers /\ "session" \notin Providers
BY OAuthFlowAssumption DEF OAuthFlowAssumption, Cookies

\* A tab that starts anew.
LEMMA NewTabIs ==
    /\ DOMAIN NewTab = TabFields
    /\ NewTab.at = "page" /\ NewTab.asker = NoOne /\ NewTab.to = NoOne
BY DEF NewTab, TabFields

LEMMA LandsIs ==
    ASSUME NEW t, NEW user
    PROVE  /\ DOMAIN Lands(t, user) = TabFields
           /\ Lands(t, user).at = "page"
           /\ Lands(t, user).asker = signing[t].asker
           /\ Lands(t, user).to = signing[t].to
BY DEF Lands, NewTab, TabFields

LEMMA FlowInvInit == FlowInit => FlowInv
<1> SUFFICES ASSUME FlowInit PROVE FlowInv
  OBVIOUS
<1>1. DOMAIN jar = Cookies /\ jar["link"] = NoOne
  BY CookieNames DEF FlowInit, NoCookies
<1>2. DOMAIN signing = FlowTabs /\ \A t \in FlowTabs : signing[t] = NewTab
  BY DEF FlowInit
<1> QED BY <1>1, <1>2, NewTabIs DEF FlowInv, FlowTyped, AskedByUser, CookieNamesAsker,
             AttemptIsItsOwn, CookieIsBrought

\* A tab moves and the cookie of attempts stays: what is asked of the tab.
LEMMA MoveKeeps ==
    ASSUME FlowInv, NEW t \in FlowTabs, NEW x, Move(t, x),
           DOMAIN x = TabFields,
           x.at # "page" => x.provider \in Providers,
           x.at = "init" => x.asker = x.user /\ x.asker # NoOne,
           DOMAIN jar' = Cookies, jar'["link"] = jar["link"], 
           robbed \ {t} \subseteq robbed', abandoned => abandoned',
           t \notin robbed' /\ x.asker # NoOne =>
              /\ x.at \in {"departing", "consent"} => jar["link"] = x.asker
              /\ x.at = "returning" => x.sent["link"] = x.asker
              /\ x.at \notin {"landed", "exchange"}
              /\ x.to \in {NoOne, x.asker},
           BringsCookie(t) /\ jar["link"] # NoOne =>
              \/ abandoned'
              \/ /\ x.asker # NoOne
                 /\ \/ x.at \in {"departing", "consent"}
                    \/ x.at = "returning" /\ x.sent["link"] # NoOne
    PROVE  FlowInv'
<1>1. /\ DOMAIN signing' = FlowTabs /\ signing'[t] = x
      /\ \A s \in FlowTabs \ {t} : signing'[s] = signing[s]
  BY DEF Move, FlowInv, FlowTyped
<1>2. FlowTyped'
  BY <1>1 DEF FlowInv, FlowTyped
<1>3. AskedByUser'
  BY <1>1 DEF FlowInv, AskedByUser
<1>4. CookieNamesAsker'
  BY <1>1 DEF FlowInv, CookieNamesAsker
<1>5. AttemptIsItsOwn'
  BY <1>1 DEF FlowInv, AttemptIsItsOwn
<1>6. CookieIsBrought'
  BY <1>1 DEF FlowInv, CookieIsBrought, BringsCookie
<1> QED BY <1>2, <1>3, <1>4, <1>5, <1>6 DEF FlowInv

\* The pages.
LEMMA OAuthLoginKeeps ==
    ASSUME FlowInv, NEW t \in FlowTabs, NEW p \in Providers, onOAuthLogin(t, p)
    PROVE  FlowInv'
<1> DEFINE x == [Started(t, NoOne, p) EXCEPT !.at = "departing", !.sent = Carried({p}, jar)]
<1>1. /\ Move(t, x) /\ jar' = jar /\ robbed' = robbed \ {t} /\ abandoned' = abandoned
      /\ signing[t].at = "page"
  BY DEF onOAuthLogin
<1>2. /\ DOMAIN x = TabFields /\ x.at = "departing" /\ x.provider = p /\ x.asker = NoOne
  BY DEF Started, NewTab, TabFields
<1>3. ~BringsCookie(t)
  BY <1>1 DEF BringsCookie
<1> HIDE DEF x
<1> QED BY <1>1, <1>2, <1>3, MoveKeeps DEF FlowInv, FlowTyped

LEMMA ConnectKeeps ==
    ASSUME FlowInv, NEW t \in FlowTabs, NEW p \in Providers, connectProvider(t, p)
    PROVE  FlowInv'
<1> DEFINE x == [Started(t, signing[t].user, p) EXCEPT !.at = "init"]
<1>1. /\ Move(t, x) /\ jar' = jar /\ robbed' = robbed \ {t} /\ abandoned' = abandoned
      /\ signing[t].at = "page" /\ signing[t].user # NoOne
  BY DEF connectProvider
<1>2. /\ DOMAIN x = TabFields /\ x.at = "init" /\ x.provider = p
      /\ x.asker = signing[t].user /\ x.user = signing[t].user /\ x.to = NoOne
  BY DEF Started, NewTab, TabFields
<1>3. ~BringsCookie(t)
  BY <1>1 DEF BringsCookie
<1> HIDE DEF x
<1> QED BY <1>1, <1>2, <1>3, MoveKeeps DEF FlowInv, FlowTyped

\* The attempts of other users lose the cookie to this one.
LEMMA InitLinkKeeps ==
    ASSUME FlowInv, NEW t \in FlowTabs, initOAuthLink(t)
    PROVE  FlowInv'
<1> DEFINE x == [signing[t] EXCEPT !.at = "departing", !.sent = Carried({signing[t].provider}, jar)]
<1>1. /\ Move(t, x) /\ signing[t].at = "init" /\ abandoned' = abandoned
      /\ jar' = [jar EXCEPT !["link"] = signing[t].user]
      /\ robbed' = robbed \cup {s \in Connecting \ {t} : signing[s].asker # signing[t].user}
  BY DEF initOAuthLink
<1>2. DOMAIN jar' = Cookies /\ jar'["link"] = signing[t].user
  BY <1>1, CookieNames DEF FlowInv, FlowTyped
<1>3. /\ DOMAIN x = TabFields /\ x.at = "departing" /\ x.provider = signing[t].provider
      /\ x.asker = signing[t].asker /\ x.to = signing[t].to
  BY DEF FlowInv, FlowTyped, TabFields
<1>4. signing[t].asker = signing[t].user /\ signing[t].asker # NoOne
  BY <1>1 DEF FlowInv, AskedByUser
<1> HIDE DEF x
<1>5. /\ DOMAIN signing' = FlowTabs /\ signing'[t] = x
      /\ \A s \in FlowTabs \ {t} : signing'[s] = signing[s]
  BY <1>1 DEF Move, FlowInv, FlowTyped
<1>6. FlowTyped'
  BY <1>1, <1>2, <1>3, <1>5 DEF FlowInv, FlowTyped
<1>7. AskedByUser'
  BY <1>3, <1>5 DEF FlowInv, AskedByUser
<1>8. ASSUME NEW s \in FlowTabs \ robbed', s # t, signing[s].asker # NoOne, signing[s].at # "page"
      PROVE  signing[s].asker = signing[t].user
  BY <1>1, <1>8 DEF Connecting
<1>9. CookieNamesAsker'
  BY <1>1, <1>2, <1>3, <1>4, <1>5, <1>8 DEF FlowInv, CookieNamesAsker
<1>10. AttemptIsItsOwn'
  BY <1>1, <1>3, <1>5 DEF FlowInv, AttemptIsItsOwn
<1>11. CookieIsBrought'
  BY <1>3, <1>4, <1>5 DEF CookieIsBrought, BringsCookie
<1> QED BY <1>6, <1>7, <1>9, <1>10, <1>11 DEF FlowInv

LEMMA InitLinkFailsKeeps ==
    ASSUME FlowInv, NEW t \in FlowTabs, initOAuthLinkFails(t)
    PROVE  FlowInv'
<1> DEFINE x == [NewTab EXCEPT !.user = jar["session"]]
<1>1. /\ Move(t, x) /\ jar' = jar /\ robbed' = robbed /\ abandoned' = abandoned
      /\ signing[t].at = "init"
  BY DEF initOAuthLinkFails, ghosts
<1>2. DOMAIN x = TabFields /\ x.at = "page" /\ x.asker = NoOne
  BY DEF NewTab, TabFields
<1>3. ~BringsCookie(t)
  BY <1>1 DEF BringsCookie
<1> HIDE DEF x
<1> QED BY <1>1, <1>2, <1>3, MoveKeeps DEF FlowInv, FlowTyped

LEMMA SignOutKeeps ==
    ASSUME FlowInv, NEW t \in FlowTabs, SignOut(t)
    PROVE  FlowInv'
<1>1. /\ DOMAIN jar' = Cookies /\ jar'["link"] = jar["link"]
      /\ robbed' = robbed /\ abandoned' = abandoned
  BY CookieNames DEF SignOut, ghosts, FlowInv, FlowTyped
<1>2. /\ DOMAIN signing' = FlowTabs
      /\ \A s \in FlowTabs : \/ signing'[s] = signing[s]
                             \/ signing'[s] = NewTab /\ signing[s].at = "page"
  BY DEF SignOut
<1>3. FlowTyped'
  BY <1>1, <1>2, NewTabIs DEF FlowInv, FlowTyped
<1>4. AskedByUser'
  BY <1>2, NewTabIs DEF FlowInv, AskedByUser
<1>5. CookieNamesAsker'
  BY <1>1, <1>2, NewTabIs DEF FlowInv, CookieNamesAsker
<1>6. AttemptIsItsOwn'
  BY <1>1, <1>2, NewTabIs DEF FlowInv, AttemptIsItsOwn
<1>7. CookieIsBrought'
  BY <1>1, <1>2 DEF FlowInv, CookieIsBrought, BringsCookie
<1> QED BY <1>3, <1>4, <1>5, <1>6, <1>7 DEF FlowInv

LEMMA SignInKeeps ==
    ASSUME FlowInv, NEW t \in FlowTabs, NEW user, SignIn(t, user)
    PROVE  FlowInv'
<1> DEFINE x == [NewTab EXCEPT !.user = user]
<1>1. /\ Move(t, x) /\ robbed' = robbed /\ abandoned' = abandoned /\ signing[t].at = "page"
  BY DEF SignIn, ghosts
<1>2. DOMAIN jar' = Cookies /\ jar'["link"] = jar["link"]
  BY CookieNames DEF SignIn, FlowInv, FlowTyped
<1>3. DOMAIN x = TabFields /\ x.at = "page" /\ x.asker = NoOne
  BY DEF NewTab, TabFields
<1>4. ~BringsCookie(t)
  BY <1>1 DEF BringsCookie
<1> HIDE DEF x
<1> QED BY <1>1, <1>2, <1>3, <1>4, MoveKeeps

\* To the provider and back.
LEMMA StoreKeeps ==
    ASSUME FlowInv, NEW t \in FlowTabs, Store(t)
    PROVE  FlowInv'
<1> DEFINE x == [signing[t] EXCEPT !.at = "consent", !.flow = Len(begun'), !.sent = <<>>]
<1>1. /\ Move(t, x) /\ robbed' = robbed /\ abandoned' = abandoned /\ signing[t].at = "departing"
  BY DEF Store
<1>2. signing[t].provider \in Providers /\ DOMAIN signing[t] = TabFields
  BY <1>1 DEF FlowInv, FlowTyped
<1>3. DOMAIN jar' = Cookies /\ jar'["link"] = jar["link"]
  BY <1>2, CookieNames DEF Store, FlowInv, FlowTyped
<1>4. /\ DOMAIN x = TabFields /\ x.at = "consent" /\ x.provider = signing[t].provider
      /\ x.asker = signing[t].asker /\ x.to = signing[t].to
  BY <1>2 DEF TabFields
<1>5. t \notin robbed /\ signing[t].asker # NoOne =>
        jar["link"] = signing[t].asker /\ signing[t].to \in {NoOne, signing[t].asker}
  BY <1>1 DEF FlowInv, CookieNamesAsker, AttemptIsItsOwn
<1> HIDE DEF x
<1> QED BY <1>1, <1>2, <1>3, <1>4, <1>5, MoveKeeps DEF BringsCookie

LEMMA ConsentKeeps ==
    ASSUME FlowInv, NEW t \in FlowTabs, NEW answer, Consent(t, answer)
    PROVE  FlowInv'
<1> DEFINE x == [signing[t] EXCEPT !.at = "returning", !.answer = answer,
                                   !.sent = Carried({signing[t].provider, "link"}, jar)]
<1>1. /\ Move(t, x) /\ jar' = jar /\ robbed' = robbed /\ abandoned' = abandoned
      /\ signing[t].at = "consent"
  BY DEF Consent, ghosts
<1>2. signing[t].provider \in Providers /\ DOMAIN signing[t] = TabFields
  BY <1>1 DEF FlowInv, FlowTyped
<1>3. /\ DOMAIN x = TabFields /\ x.at = "returning" /\ x.provider = signing[t].provider
      /\ x.asker = signing[t].asker /\ x.to = signing[t].to
      /\ x.sent = Carried({signing[t].provider, "link"}, jar)
  BY <1>2 DEF TabFields
<1>4. x.sent["link"] = jar["link"]
  BY <1>3 DEF Carried
<1>5. t \notin robbed /\ signing[t].asker # NoOne =>
        jar["link"] = signing[t].asker /\ signing[t].to \in {NoOne, signing[t].asker}
  BY <1>1 DEF FlowInv, CookieNamesAsker, AttemptIsItsOwn
<1> HIDE DEF x
<1>6. DOMAIN jar = Cookies
  BY DEF FlowInv, FlowTyped
<1> QED BY <1>1, <1>2, <1>3, <1>4, <1>5, <1>6, MoveKeeps DEF BringsCookie

LEMMA AbandonKeeps ==
    ASSUME FlowInv, NEW t \in FlowTabs, Abandon(t)
    PROVE  FlowInv'
<1>1. /\ Move(t, Lands(t, jar["session"])) /\ jar' = jar /\ robbed' = robbed
      /\ abandoned' = (abandoned \/ signing[t].asker # NoOne)
  BY DEF Abandon
<1>2. t \notin robbed /\ signing[t].asker # NoOne => signing[t].to \in {NoOne, signing[t].asker}
  BY DEF FlowInv, AttemptIsItsOwn
<1>3. DOMAIN jar = Cookies
  BY DEF FlowInv, FlowTyped
<1>4. BringsCookie(t) => abandoned'
  BY <1>1 DEF BringsCookie
<1>5. abandoned => abandoned'
  BY <1>1
<1> QED BY <1>1, <1>2, <1>3, <1>4, <1>5, LandsIs, MoveKeeps

\* What the answer of a callback does to the cookie of attempts.
LEMMA AnsweredIs ==
    ASSUME FlowInv, NEW t \in FlowTabs, NEW set, Answered(t, set), signing[t].at = "returning"
    PROVE  /\ DOMAIN jar' = Cookies /\ abandoned' = abandoned
           /\ "link" \in DOMAIN set =>
                 jar'["link"] = set["link"] /\ robbed' = robbed \cup (Connecting \ {t})
           /\ "link" \notin DOMAIN set => jar'["link"] = jar["link"] /\ robbed' = robbed
<1>1. "link" \notin DOMAIN Remaining(t)
  BY CookieNames DEF Remaining, FlowInv, FlowTyped
<1>2. /\ DOMAIN jar' = Cookies
      /\ jar'["link"] = IF "link" \in DOMAIN set THEN set["link"] ELSE jar["link"]
  BY <1>1, CookieNames DEF Answered
<1>3. /\ abandoned' = abandoned
      /\ IF "link" \in DOMAIN set THEN EndsLink(t) ELSE robbed' = robbed
  BY DEF Answered
<1> QED BY <1>2, <1>3 DEF EndsLink

\* A callback that brought the cookie ends it, for the other tabs too.
LEMMA SpentKeeps ==
    ASSUME FlowInv, NEW t \in FlowTabs, NEW x, Move(t, x), DOMAIN x = TabFields, x.at = "page",
           DOMAIN jar' = Cookies, jar'["link"] = NoOne, robbed' = robbed \cup (Connecting \ {t}),
           t \notin robbed /\ x.asker # NoOne => x.to \in {NoOne, x.asker}
    PROVE  FlowInv'
<1>1. /\ DOMAIN signing' = FlowTabs /\ signing'[t] = x
      /\ \A s \in FlowTabs \ {t} : signing'[s] = signing[s]
  BY DEF Move, FlowInv, FlowTyped
<1>2. FlowTyped'
  BY <1>1 DEF FlowInv, FlowTyped
<1>3. AskedByUser'
  BY <1>1 DEF FlowInv, AskedByUser
<1>4. \A s \in FlowTabs \ robbed' : s # t /\ signing[s].asker # NoOne => signing[s].at = "page"
  BY DEF Connecting
<1>5. CookieNamesAsker'
  BY <1>1, <1>4 DEF CookieNamesAsker
<1>6. AttemptIsItsOwn'
  BY <1>1 DEF FlowInv, AttemptIsItsOwn
<1>7. CookieIsBrought'
  BY DEF CookieIsBrought
<1> QED BY <1>2, <1>3, <1>5, <1>6, <1>7 DEF FlowInv

LEMMA CallbackFailsKeeps ==
    ASSUME FlowInv, NEW t \in FlowTabs, CallbackFails(t)
    PROVE  FlowInv'
<1>1. /\ signing[t].at = "returning" /\ Answered(t, Unset(SpentByFailure(t)))
      /\ Move(t, Lands(t, jar["session"]))
  BY DEF CallbackFails
<1>2. t \notin robbed /\ signing[t].asker # NoOne => signing[t].to \in {NoOne, signing[t].asker}
  BY DEF FlowInv, AttemptIsItsOwn
<1>3. CASE ForLink(t)
  <2>1. "link" \in DOMAIN Unset(SpentByFailure(t)) /\ Unset(SpentByFailure(t))["link"] = NoOne
    BY <1>3 DEF Unset, SpentByFailure
  <2> QED BY <1>1, <1>2, <2>1, AnsweredIs, SpentKeeps, LandsIs
<1>4. CASE ~ForLink(t)
  <2>1. "link" \notin DOMAIN Unset(SpentByFailure(t))
    BY <1>4 DEF Unset, SpentByFailure
  <2>2. ~BringsCookie(t)
    BY <1>1, <1>4 DEF BringsCookie, ForLink
  <2> QED BY <1>1, <1>2, <2>1, <2>2, AnsweredIs, MoveKeeps, LandsIs
<1> QED BY <1>3, <1>4

LEMMA HandleLinkKeeps ==
    ASSUME FlowInv, NEW t \in FlowTabs, handleOAuthLink(t)
    PROVE  FlowInv'
<1> DEFINE user == signing[t].sent["link"]
           x == [Lands(t, jar["session"]) EXCEPT !.to = user]
<1>1. /\ signing[t].at = "returning" /\ Answered(t, Unset({"link"}))
      /\ Move(t, x) \/ Move(t, Lands(t, jar["session"]))
  BY DEF handleOAuthLink
<1>2. t \notin robbed /\ signing[t].asker # NoOne =>
        user = signing[t].asker /\ signing[t].to \in {NoOne, signing[t].asker}
  BY <1>1 DEF FlowInv, CookieNamesAsker, AttemptIsItsOwn
<1>3. "link" \in DOMAIN Unset({"link"}) /\ Unset({"link"})["link"] = NoOne
  BY DEF Unset
<1>4. /\ DOMAIN x = TabFields /\ x.at = "page"
      /\ x.asker = signing[t].asker /\ x.to = user
  BY LandsIs DEF TabFields
<1> HIDE DEF user, x
<1>5. CASE Move(t, x)
  BY <1>1, <1>2, <1>3, <1>4, <1>5, AnsweredIs, SpentKeeps
<1>6. CASE Move(t, Lands(t, jar["session"]))
  BY <1>1, <1>2, <1>3, <1>6, AnsweredIs, SpentKeeps, LandsIs
<1> QED BY <1>1, <1>5, <1>6

LEMMA HandleCallbackKeeps ==
    ASSUME FlowInv, NEW t \in FlowTabs, handleOAuthCallback(t)
    PROVE  FlowInv'
<1> DEFINE x == [signing[t] EXCEPT !.at = "landed", !.sent = <<>>]
<1>1. /\ signing[t].at = "returning" /\ ~ForLink(t)
      /\ \/ (\E user : Answered(t, [c \in {"data"} |-> user])) /\ Move(t, x)
         \/ Answered(t, Unset({})) /\ Move(t, Lands(t, jar["session"]))
  BY DEF handleOAuthCallback
<1>2. t \in robbed \/ signing[t].asker = NoOne
  BY <1>1 DEF FlowInv, CookieNamesAsker, ForLink
<1>3. ~BringsCookie(t)
  BY <1>1 DEF BringsCookie, ForLink
<1>4. signing[t].provider \in Providers /\ DOMAIN signing[t] = TabFields
  BY <1>1 DEF FlowInv, FlowTyped
<1>5. /\ DOMAIN x = TabFields /\ x.at = "landed" /\ x.provider = signing[t].provider
      /\ x.asker = signing[t].asker
  BY <1>4 DEF TabFields
<1> HIDE DEF x
<1>6. CASE (\E user : Answered(t, [c \in {"data"} |-> user])) /\ Move(t, x)
  <2>1. PICK user : Answered(t, [c \in {"data"} |-> user])
    BY <1>6
  <2>2. "link" \notin DOMAIN [c \in {"data"} |-> user]
    OBVIOUS
  <2> QED BY <1>1, <1>2, <1>3, <1>4, <1>5, <1>6, <2>1, <2>2, AnsweredIs, MoveKeeps
<1>7. CASE Answered(t, Unset({})) /\ Move(t, Lands(t, jar["session"]))
  <2>1. "link" \notin DOMAIN Unset({})
    BY DEF Unset
  <2> QED BY <1>1, <1>2, <1>3, <1>7, <2>1, AnsweredIs, MoveKeeps, LandsIs
<1> QED BY <1>1, <1>6, <1>7

LEMMA ExchangeKeeps ==
    ASSUME FlowInv, NEW t \in FlowTabs, exchangeOAuthData(t)
    PROVE  FlowInv'
<1> DEFINE x == [signing[t] EXCEPT !.at = "exchange", !.sent = Carried({"data"}, jar)]
<1>1. /\ Move(t, x) /\ jar' = jar /\ robbed' = robbed /\ abandoned' = abandoned
      /\ signing[t].at = "landed"
  BY DEF exchangeOAuthData, ghosts
<1>2. signing[t].provider \in Providers /\ DOMAIN signing[t] = TabFields /\ DOMAIN jar = Cookies
  BY <1>1 DEF FlowInv, FlowTyped
<1>3. /\ DOMAIN x = TabFields /\ x.at = "exchange" /\ x.provider = signing[t].provider
      /\ x.asker = signing[t].asker
  BY <1>2 DEF TabFields
<1>4. t \in robbed \/ signing[t].asker = NoOne
  BY <1>1 DEF FlowInv, AttemptIsItsOwn
<1>5. ~BringsCookie(t)
  BY <1>1 DEF BringsCookie
<1> HIDE DEF x
<1> QED BY <1>1, <1>2, <1>3, <1>4, <1>5, MoveKeeps

LEMMA ExchangedKeeps ==
    ASSUME FlowInv, NEW t \in FlowTabs, Exchanged(t)
    PROVE  FlowInv'
<1>1. PICK user : Move(t, Lands(t, user))
  BY DEF Exchanged
<1>2. /\ signing[t].at = "exchange" /\ robbed' = robbed /\ abandoned' = abandoned
  BY DEF Exchanged, ghosts
<1>3. DOMAIN jar' = Cookies /\ jar'["link"] = jar["link"]
  BY CookieNames DEF Exchanged, FlowInv, FlowTyped
<1>4. t \notin robbed /\ signing[t].asker # NoOne => signing[t].to \in {NoOne, signing[t].asker}
  BY DEF FlowInv, AttemptIsItsOwn
<1>5. ~BringsCookie(t)
  BY <1>2 DEF BringsCookie
<1> QED BY <1>1, <1>2, <1>3, <1>4, <1>5, MoveKeeps, LandsIs

\* The tabs stay as they are.
LEMMA StillKeeps ==
    ASSUME FlowInv, UNCHANGED <<signing, abandoned>>, robbed \subseteq robbed',
           DOMAIN jar' = Cookies, jar'["link"] = jar["link"] \/ jar'["link"] = NoOne,
           jar'["link"] # jar["link"] => Connecting \subseteq robbed'
    PROVE  FlowInv'
<1>1. FlowTyped'
  BY DEF FlowInv, FlowTyped
<1>2. AskedByUser'
  BY DEF FlowInv, AskedByUser
<1>3. CookieNamesAsker'
  BY DEF FlowInv, CookieNamesAsker, Connecting
<1>4. AttemptIsItsOwn'
  BY DEF FlowInv, AttemptIsItsOwn
<1>5. CookieIsBrought'
  BY DEF FlowInv, CookieIsBrought, BringsCookie
<1> QED BY <1>1, <1>2, <1>3, <1>4, <1>5 DEF FlowInv

LEMMA FlowInvStep == FlowInv /\ [FlowNext]_flowVars => FlowInv'
<1> SUFFICES ASSUME FlowInv, [FlowNext]_flowVars PROVE FlowInv'
  OBVIOUS
<1>1. DOMAIN jar = Cookies
  BY DEF FlowInv, FlowTyped
<1>2. ASSUME NEW t \in FlowTabs, NEW p \in Providers, disconnectProvider(t, p) PROVE FlowInv'
  BY <1>1, <1>2, StillKeeps DEF disconnectProvider, ghosts
<1>3. CASE ExpireState
  BY <1>1, <1>3, StillKeeps DEF ExpireState, ghosts
<1>4. CASE ExpireLink
  <2>1. DOMAIN jar' = Cookies /\ jar'["link"] = NoOne
    BY <1>1, <1>4, CookieNames DEF ExpireLink
  <2> QED BY <1>4, <2>1, StillKeeps DEF ExpireLink
<1>5. CASE ExpireData
  <2>1. DOMAIN jar' = Cookies /\ jar'["link"] = jar["link"]
    BY <1>1, <1>5, CookieNames DEF ExpireData
  <2> QED BY <1>5, <2>1, StillKeeps DEF ExpireData, ghosts
<1>6. CASE UNCHANGED flowVars
  BY <1>1, <1>6, StillKeeps DEF flowVars
<1>7. ASSUME NEW t \in FlowTabs, NEW p \in Providers, onOAuthLogin(t, p) \/ connectProvider(t, p)
      PROVE  FlowInv'
  BY <1>7, OAuthLoginKeeps, ConnectKeeps
<1>8. ASSUME NEW t \in FlowTabs,
             \/ initOAuthLink(t) \/ initOAuthLinkFails(t) \/ SignOut(t)
             \/ \E user \in Users : SignIn(t, user)
      PROVE  FlowInv'
  BY <1>8, InitLinkKeeps, InitLinkFailsKeeps, SignOutKeeps, SignInKeeps
<1>9. ASSUME NEW t \in FlowTabs,
             \/ Store(t) \/ Abandon(t)
             \/ \E answer \in {"code", "cancelled", "refused"} : Consent(t, answer)
      PROVE  FlowInv'
  BY <1>9, StoreKeeps, AbandonKeeps, ConsentKeeps
<1>10. ASSUME NEW t \in FlowTabs,
              CallbackFails(t) \/ handleOAuthLink(t) \/ handleOAuthCallback(t)
       PROVE  FlowInv'
  BY <1>10, CallbackFailsKeeps, HandleLinkKeeps, HandleCallbackKeeps
<1>11. ASSUME NEW t \in FlowTabs, exchangeOAuthData(t) \/ Exchanged(t) PROVE FlowInv'
  BY <1>11, ExchangeKeeps, ExchangedKeeps
<1> QED BY <1>2, <1>3, <1>4, <1>5, <1>6, <1>7, <1>8, <1>9, <1>10, <1>11 DEF FlowNext

LEMMA FlowInvAlways == FlowSpec => []FlowInv
<1> QED BY FlowInvInit, FlowInvStep, PTL DEF FlowSpec

(* While no other tab ended its cookie, an attempt to connect a provider   *)
(* neither signs in nor connects anybody but the user who asked, whatever  *)
(* the other tabs of the browser do (handleOAuthCallback, handleOAuthLink, *)
(* initOAuthLink).                                                         *)
THEOREM AttemptsStayTheirOwn == FlowSpec => []AttemptIsItsOwn
<1>1. FlowInv => AttemptIsItsOwn
  BY DEF FlowInv
<1> QED BY <1>1, FlowInvAlways, PTL

(* The oauth_link cookie outlives the attempts only when the user walked   *)
(* away from one: no finished attempt turns a later sign-in into a         *)
(* connection (resolveRedirectPath, OAuthAuthenticationExceptionFilter,    *)
(* handleOAuthLink).                                                       *)
THEOREM AttemptsEndWithTheirCookie == FlowSpec => []AttemptEndsWithItsCookie
<1>1. FlowInv => AttemptEndsWithItsCookie
  BY DEF FlowInv, CookieIsBrought, BringsCookie, AttemptEndsWithItsCookie, Connecting
<1> QED BY <1>1, FlowInvAlways, PTL

=============================================================================
