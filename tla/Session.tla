------------------------------ MODULE Session ------------------------------
(***************************************************************************)
(* One browser's session with the server.  The client's half is            *)
(* TokenService, AuthService, the auth store, the jwt interceptor and the  *)
(* guards, running in several tabs that share the refresh cookie,          *)
(* localStorage and the Web Lock; the server's half is the rotation of     *)
(* refresh tokens and the revocation of sessions in AuthService, whose     *)
(* statements interleave.  Answers are lost, pages reload, access tokens   *)
(* expire.                                                                 *)
(*                                                                         *)
(* Refresh tokens are numbered as they are issued.  An access token is the *)
(* number of revocations that preceded its signing: the server accepts it  *)
(* while no later one has been stamped on the user.                        *)
(***************************************************************************)
EXTENDS Naturals, FiniteSets

CONSTANTS
    Tabs,          \* browser tabs of the application
    NoTab,         \* none of them
    Locks,         \* whether the browser has the Web Locks API
    MaxTokens,     \* bound: refresh tokens issued
    MaxCalls,      \* bound: refresh calls under way at once
    MaxLogouts,    \* bound: clicks on logout
    MaxExpiries,   \* bound: access tokens that expire
    MaxLost,       \* bound: answers lost, also by reloading a page that waits for one
    MaxUsed        \* bound: the sum of these three

ASSUME SessionAssumption ==
    /\ IsFiniteSet(Tabs) /\ NoTab \notin Tabs /\ Locks \in BOOLEAN
    /\ MaxTokens \in Nat \ {0} /\ MaxCalls \in Nat \ {0}
    /\ MaxLogouts \in Nat /\ MaxExpiries \in Nat /\ MaxLost \in Nat
    /\ MaxUsed \in Nat

VARIABLES
    tokens,      \* the refresh_tokens rows: none yet, active, revoked, deleted
    stamp,       \* revocations stamped on the user (token_revoked_at)
    alarm,       \* whether reuse of a rotated token was ever detected
    cookie,      \* the browser's refresh cookie, 0 when there is none
    persisted,   \* whether localStorage holds the signed-in user
    tab,         \* the state of each tab's page
    call,        \* the refresh calls, in the client and on the server
    used         \* how much of each bound is spent

vars == <<tokens, stamp, alarm, cookie, persisted, tab, call, used>>
serverVars == <<tokens, stamp, alarm>>

Tokens == 1..MaxTokens
Calls == 1..MaxCalls
Stamps == Nat

(* Who waits for the answer of a refresh call: the scheduled refresh, the  *)
(* interceptor of a refused request, a guard, the bootstrap, a logout.     *)
Subscribers == {"timer", "interceptor", "guard", "boot", "logout"}

TabType ==
    [signed : BOOLEAN, user : BOOLEAN, born : Stamps, expired : BOOLEAN,
     slot : 0..MaxCalls, event : BOOLEAN, bearer : Stamps,
     logout : {"no", "refreshing", "posted", "revoked", "refused"}]

(* live: the session epoch is still the one the call started under.        *)
(* orphan: the page that made the call no longer waits for it.             *)
CallType ==
    [pc : {"idle", "waiting", "sent", "rotate", "ok", "denied"},
     tab : Tabs \cup {NoTab}, subs : SUBSET Subscribers, live : BOOLEAN, orphan : BOOLEAN,
     token : 0..MaxTokens, born : Stamps]

SessionTypeOK ==
    /\ tokens \in [Tokens -> {"none", "active", "revoked", "deleted"}]
    /\ stamp \in Stamps
    /\ alarm \in BOOLEAN
    /\ cookie \in 0..MaxTokens
    /\ persisted \in BOOLEAN
    /\ tab \in [Tabs -> TabType]
    /\ call \in [Calls -> CallType]
    /\ used \in [logouts : 0..MaxLogouts, expiries : 0..MaxExpiries, lost : 0..MaxLost]

NoCall == [pc |-> "idle", tab |-> NoTab, subs |-> {},
           live |-> FALSE, orphan |-> FALSE, token |-> 0, born |-> 0]

SignedOut == [signed |-> FALSE, user |-> FALSE, born |-> 0, expired |-> FALSE,
              slot |-> 0, event |-> FALSE, bearer |-> 0, logout |-> "no"]

Init ==
    /\ tokens = [t \in Tokens |-> "none"]
    /\ stamp = 0 /\ alarm = FALSE
    /\ cookie = 0 /\ persisted = FALSE
    /\ tab = [t \in Tabs |-> SignedOut]
    /\ call = [c \in Calls |-> NoCall]
    /\ used = [logouts |-> 0, expiries |-> 0, lost |-> 0]

Spend(what, max) ==
    /\ used[what] < max
    /\ used.logouts + used.expiries + used.lost < MaxUsed
    /\ used' = [used EXCEPT ![what] = @ + 1]

----------------------------------------------------------------------------
(* The server. *)

NextToken == Cardinality({t \in Tokens : tokens[t] # "none"}) + 1

(* invalidateAllSessions: the rows go and the user is stamped. *)
Revoked == [t \in Tokens |-> IF tokens[t] = "none" THEN "none" ELSE "deleted"]

RevokeAll == tokens' = Revoked /\ stamp' = stamp + 1

(* refreshTokens up to the signing of the new access token. *)
ReadToken(c) ==
    /\ call[c].pc = "sent"
    /\ LET status == tokens[call[c].token]
       IN  \/ /\ status = "active"
              /\ call' = [call EXCEPT ![c].pc = "rotate", ![c].born = stamp]
              /\ UNCHANGED serverVars
           \/ /\ status = "revoked"
              /\ RevokeAll
              /\ alarm' = TRUE
              /\ call' = [call EXCEPT ![c].pc = "denied"]
           \/ /\ status = "deleted"
              /\ call' = [call EXCEPT ![c].pc = "denied"]
              /\ UNCHANGED serverVars
    /\ UNCHANGED <<cookie, persisted, tab, used>>

(* The rotation: the old row is revoked by its id, if it is still there,   *)
(* and the new row inserted, in one transaction.  The access token was     *)
(* signed at some moment since the read.                                   *)
Rotated(old, new) ==
    [tokens EXCEPT ![new] = "active",
                   ![old] = IF tokens[old] = "deleted" THEN "deleted" ELSE "revoked"]

Rotate(c) ==
    /\ call[c].pc = "rotate"
    /\ NextToken \in Tokens
    /\ tokens' = Rotated(call[c].token, NextToken)
    /\ \E b \in call[c].born..stamp :
          call' = [call EXCEPT ![c].pc = "ok", ![c].token = NextToken, ![c].born = b]
    /\ UNCHANGED <<stamp, alarm, cookie, persisted, tab, used>>

(* The logout route: its JWT guard, then the revocation. *)
Logout(t) ==
    /\ tab[t].logout = "posted"
    /\ \/ /\ tab[t].bearer = stamp
          /\ RevokeAll
          /\ tab' = [tab EXCEPT ![t].logout = "revoked"]
       \/ /\ tab[t].bearer # stamp
          /\ tab' = [tab EXCEPT ![t].logout = "refused"]
          /\ UNCHANGED <<tokens, stamp>>
    /\ UNCHANGED <<alarm, cookie, persisted, call, used>>

----------------------------------------------------------------------------
(* The client: ending a session. *)

\* Mutant: no other tab hears of the removal.
ClearedHere(tabs, t) ==
    [tabs EXCEPT ![t] = [SignedOut EXCEPT !.slot = tabs[t].slot, !.event = tabs[t].event,
                             !.bearer = tabs[t].bearer, !.logout = tabs[t].logout]]

(* clearSession: the store is emptied and the key removed, which every      *)
(* other tab learns by a storage event if the key was there.                *)
Cleared(tabs, t) ==
    [x \in Tabs |->
        IF x = t THEN [SignedOut EXCEPT !.slot = tabs[t].slot, !.event = tabs[t].event,
                                      !.bearer = tabs[t].bearer, !.logout = tabs[t].logout]
        ELSE [tabs[x] EXCEPT !.event = @ \/ persisted]]

(* cancelRefresh: the schedule is dropped, the slot freed, and a call       *)
(* already on the wire belongs to a past epoch.                             *)
Inert(calls, t) ==
    [c \in Calls |->
        IF calls[c].tab = t
        THEN [calls[c] EXCEPT !.live = FALSE, !.subs = @ \ {"timer"}]
        ELSE calls[c]]

Unslotted(tabs, t) == [tabs EXCEPT ![t].slot = 0]
NoLogout(tabs, t) == [tabs EXCEPT ![t].logout = "no", ![t].bearer = 0]

(* Ends the session of t, with the refresh canceled or not, after the       *)
(* changes tabs and calls.                                                  *)
EndSession(tabs, calls, t, cancel) ==
    /\ tab' = Cleared(IF cancel THEN Unslotted(tabs, t) ELSE tabs, t)
    /\ call' = IF cancel THEN Inert(calls, t) ELSE calls
    /\ persisted' = FALSE

----------------------------------------------------------------------------
(* The client: a refresh. *)

FreeCalls == {c \in Calls : call[c].pc = "idle"}

(* refreshTokens: join the call in the slot, or start one; tabs is the      *)
(* state of the tabs before it.                                             *)
Refresh(tabs, calls, t, subscriber) ==
    LET s == tabs[t].slot
    IN  IF s # 0
        THEN /\ call' = [calls EXCEPT ![s].subs = @ \cup {subscriber}]
             /\ tab' = tabs
        ELSE \E c \in FreeCalls :
                /\ \A d \in FreeCalls : c <= d
                /\ call' = [calls EXCEPT ![c] =
                       [NoCall EXCEPT !.pc = "waiting", !.tab = t, !.subs = {subscriber}]]
                /\ tab' = [tabs EXCEPT ![t].slot = c]

OnTheWire(c) == call[c].pc \in {"sent", "rotate", "ok", "denied"} /\ ~call[c].orphan

\* Mutant: every tab refreshes when it wants to.
LockIgnored == TRUE

(* The Web Lock serialises the refreshes of all tabs. *)
LockFree == Locks => \A c \in Calls : ~OnTheWire(c)

(* doRefresh: the epoch is read and the request leaves with the cookie of   *)
(* that moment; without a cookie the server refuses it unread.              *)
Acquire(c) ==
    /\ call[c].pc = "waiting"
    /\ LockFree
    /\ call' = [call EXCEPT ![c].pc = IF cookie = 0 THEN "denied" ELSE "sent",
                            ![c].token = cookie, ![c].live = TRUE]
    /\ UNCHANGED <<tokens, stamp, alarm, cookie, persisted, tab, used>>

Freed(calls, c) == [calls EXCEPT ![c] = NoCall]

Settled(tabs, c) ==
    LET t == call[c].tab
    IN  [tabs EXCEPT ![t].slot = IF @ = c THEN 0 ELSE @]

(* The answer brings tokens: they are saved, and a logout that waited for   *)
(* them posts.                                                              *)
Saved(c) ==
    LET t == call[c].tab
    IN  [Settled(tab, c) EXCEPT
            ![t].signed = TRUE, ![t].user = TRUE, ![t].expired = FALSE,
            ![t].born = call[c].born,
            ![t].bearer = IF "logout" \in call[c].subs THEN call[c].born ELSE @,
            ![t].logout = IF "logout" \in call[c].subs THEN "posted" ELSE @]

(* A logout that waited for them goes on without.                           *)
Unsaved(c) ==
    LET t == call[c].tab
    IN  [Settled(tab, c) EXCEPT
            ![t].logout = IF "logout" \in call[c].subs THEN "no" ELSE @]

(* The answer brings none, because it is of a past epoch or an error: what  *)
(* each subscriber does with it ends the session, except that the bootstrap *)
(* only reacts to an error.                                                 *)
NoTokens(c, error) ==
    LET t      == call[c].tab
        subs   == call[c].subs
        forces == subs \cap {"timer", "interceptor", "logout"} # {}
        clears == "guard" \in subs \/ (error /\ "boot" \in subs)
    IN  IF forces \/ clears
        THEN EndSession(Unsaved(c), Freed(call, c), t, forces)
        ELSE /\ tab' = Unsaved(c)
             /\ call' = Freed(call, c)
             /\ UNCHANGED persisted

Receive(c) ==
    /\ ~call[c].orphan
    /\ \/ /\ call[c].pc = "ok"
          /\ cookie' = call[c].token
          /\ \/ /\ call[c].live
                /\ tab' = Saved(c)
                /\ call' = Freed(call, c)
                /\ persisted' = TRUE
             \/ ~call[c].live /\ NoTokens(c, FALSE)
       \/ /\ call[c].pc = "denied"
          /\ NoTokens(c, TRUE)
          /\ UNCHANGED cookie
    /\ UNCHANGED <<tokens, stamp, alarm, used>>

(* The request or its answer is lost: the client sees an error while the    *)
(* server may go on.                                                        *)
Abandoned(calls, c) ==
    [calls EXCEPT ![c] = [@ EXCEPT !.orphan = TRUE, !.subs = {}, !.live = FALSE]]

Lose(c) ==
    /\ OnTheWire(c)
    /\ Spend("lost", MaxLost)
    /\ LET t      == call[c].tab
           subs   == call[c].subs
           forces == subs \cap {"timer", "interceptor", "logout"} # {}
       IN  IF subs # {}
           THEN EndSession(Unsaved(c), Abandoned(call, c), t, forces)
           ELSE /\ tab' = Unsaved(c)
                /\ call' = Abandoned(call, c)
                /\ UNCHANGED persisted
    /\ UNCHANGED <<tokens, stamp, alarm, cookie>>

(* What nobody waits for ends with its answer, or never reached the server, *)
(* or failed there.                                                         *)
OrphanEnds(c) ==
    /\ call[c].pc # "idle" /\ call[c].orphan
    /\ call' = Freed(call, c)
    /\ UNCHANGED <<tokens, stamp, alarm, cookie, persisted, tab, used>>

----------------------------------------------------------------------------
(* The client: what starts a refresh. *)

Usable(t) == tab[t].signed /\ ~tab[t].expired

TimerFires(t) ==
    /\ Usable(t) /\ tab[t].logout = "no"
    /\ Refresh(tab, call, t, "timer")
    /\ UNCHANGED <<tokens, stamp, alarm, cookie, persisted, used>>

(* A request is refused with 401: its token expired or was revoked. *)
RequestRefused(t) ==
    /\ tab[t].signed
    /\ tab[t].expired \/ tab[t].born # stamp
    /\ Refresh(tab, call, t, "interceptor")
    /\ UNCHANGED <<tokens, stamp, alarm, cookie, persisted, used>>

(* A navigation to a guarded route: ensureAuthenticated. *)
Navigate(t) ==
    /\ ~Usable(t)
    /\ tab[t].signed \/ tab[t].user
    /\ Refresh(tab, call, t, "guard")
    /\ UNCHANGED <<tokens, stamp, alarm, cookie, persisted, used>>

(* The same from a tab that holds no user in memory. *)
NavigateAnonymous(t) ==
    /\ ~tab[t].signed /\ ~tab[t].user
    /\ EndSession(tab, call, t, FALSE)
    /\ UNCHANGED <<tokens, stamp, alarm, cookie, used>>

AccessExpires(t) ==
    /\ Usable(t)
    /\ Spend("expiries", MaxExpiries)
    /\ tab' = [tab EXCEPT ![t].expired = TRUE]
    /\ UNCHANGED <<tokens, stamp, alarm, cookie, persisted, call>>

(* A page is loaded again, or a new one takes its place: its memory is      *)
(* forgotten with the answers it waits for, and a persisted user makes the  *)
(* bootstrap refresh.                                                       *)
Reload(t) ==
    /\ IF tab[t].logout # "no" \/ \E c \in Calls : call[c].tab = t /\ OnTheWire(c)
       THEN Spend("lost", MaxLost)
       ELSE UNCHANGED used
    /\ LET fresh == [tab EXCEPT ![t] = [SignedOut EXCEPT !.user = persisted]]
           left  == [c \in Calls |->
                       IF call[c].tab # t \/ call[c].pc = "idle" \/ call[c].orphan THEN call[c]
                       ELSE IF call[c].pc = "waiting" THEN NoCall
                       ELSE Abandoned(call, c)[c]]
       IN  \/ persisted /\ Refresh(fresh, left, t, "boot")
           \/ ~persisted /\ tab' = fresh /\ call' = left
    /\ UNCHANGED <<tokens, stamp, alarm, cookie, persisted>>

----------------------------------------------------------------------------
(* The client: login and logout. *)

(* issueSession and its answer; the prune finds no more than the allowance. *)
Login(t) ==
    /\ ~tab[t].signed /\ tab[t].logout = "no"
    /\ NextToken \in Tokens
    /\ tokens' = [tokens EXCEPT ![NextToken] = "active"]
    /\ cookie' = NextToken
    /\ tab' = [tab EXCEPT ![t].signed = TRUE, ![t].user = TRUE,
                          ![t].born = stamp, ![t].expired = FALSE]
    /\ persisted' = TRUE
    /\ UNCHANGED <<stamp, alarm, call, used>>

(* A click on logout: nothing to revoke, or the route is posted, behind a   *)
(* refresh if the access token has expired.                                 *)
ClickLogout(t) ==
    /\ tab[t].logout = "no"
    /\ Spend("logouts", MaxLogouts)
    /\ \/ /\ ~tab[t].signed
          /\ EndSession(tab, call, t, TRUE)
       \/ /\ Usable(t)
          /\ tab' = [Unslotted(tab, t) EXCEPT ![t].logout = "posted", ![t].bearer = tab[t].born]
          /\ call' = Inert(call, t)
          /\ UNCHANGED persisted
       \/ /\ tab[t].signed /\ tab[t].expired
          /\ Refresh([Unslotted(tab, t) EXCEPT ![t].logout = "refreshing"],
                     Inert(call, t), t, "logout")
          /\ UNCHANGED persisted
    /\ UNCHANGED <<tokens, stamp, alarm, cookie>>

(* The answer of the logout route: 200 clears the cookie; the session of    *)
(* the page ends either way.                                                *)
LogoutAnswered(t) ==
    /\ tab[t].logout \in {"revoked", "refused"}
    /\ IF tab[t].logout = "revoked"
       THEN cookie' = 0
       ELSE UNCHANGED cookie
    /\ EndSession(NoLogout(tab, t), call, t, TRUE)
    /\ UNCHANGED <<tokens, stamp, alarm, used>>

LogoutLost(t) ==
    /\ tab[t].logout \in {"posted", "revoked", "refused"}
    /\ Spend("lost", MaxLost)
    /\ EndSession(NoLogout(tab, t), call, t, TRUE)
    /\ UNCHANGED <<tokens, stamp, alarm, cookie>>

(* The storage event of a removal made in another tab. *)
StorageEvent(t) ==
    /\ tab[t].event
    /\ LET seen == [tab EXCEPT ![t].event = FALSE]
       IN  IF tab[t].signed \/ tab[t].user
           THEN EndSession(seen, call, t, TRUE)
           ELSE tab' = seen /\ UNCHANGED <<call, persisted>>
    /\ UNCHANGED <<tokens, stamp, alarm, cookie, used>>

----------------------------------------------------------------------------
CallStep(c) ==
    \/ Acquire(c) \/ ReadToken(c) \/ Rotate(c) \/ Receive(c) \/ OrphanEnds(c)

TabStep(t) ==
    \/ TimerFires(t) \/ RequestRefused(t) \/ Navigate(t) \/ NavigateAnonymous(t)
    \/ AccessExpires(t) \/ Reload(t) \/ Login(t)
    \/ ClickLogout(t) \/ Logout(t) \/ LogoutAnswered(t) \/ LogoutLost(t)
    \/ StorageEvent(t)

Next ==
    \/ \E c \in Calls : CallStep(c) \/ Lose(c)
    \/ \E t \in Tabs : TabStep(t)

Spec == Init /\ [][Next]_vars

----------------------------------------------------------------------------
(* Properties. *)

(* Rotation never sounds a false alarm: with the Web Lock, tabs that        *)
(* refresh, log in and log out against each other present a rotated token   *)
(* only after an answer was lost (token.service.ts, acquireRefreshLock).    *)
NoFalseAlarm == alarm => used.lost > 0

(* No tab misses a sign-out: a page that still shows a session either has   *)
(* it in localStorage or is about to hear that it was removed               *)
(* (auth.service.ts, listenForCrossTabLogout).                              *)
SignedTabIsTold == \A t \in Tabs : tab[t].user => persisted \/ tab[t].event

============================================================================
