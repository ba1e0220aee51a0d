------------------------------ MODULE OAuthFlow ------------------------------
(***************************************************************************)
(* Signing in with a provider, and connecting one to an account, as the    *)
(* tabs of one browser do it: the redirects, the cookies the server keeps  *)
(* between them, and the page the browser comes back to.                   *)
(*                                                                         *)
(* The tabs share the cookies.  A request carries the cookies of the       *)
(* moment it is sent and its answer sets some of them, so two requests     *)
(* under way overwrite each other's; what the server does in between is    *)
(* one step, taken when the answer arrives.  A flow is named by its        *)
(* number, which stands for its random state; the oldest runs out first.   *)
(*                                                                         *)
(* The browser is signed in to one account at each provider.  "page" is    *)
(* the login page of a tab nobody is signed in to and the profile page of  *)
(* the others, which is where the guards of the routes lead.               *)
(***************************************************************************)
EXTENDS Integers, SequencesExt

CONSTANTS
    FlowTabs,           \* the tabs of the browser
    Users,
    Providers,          \* those the server is configured for
    AddressOf,          \* whose address each provider reports, or NoOne
    WithPassword,       \* the users registered at first, with a password
    MaxPendingStates,   \* MAX_PENDING_STATES
    MaxFlows,           \* bound: flows begun
    NoOne

(* The cookies of the states are named after their providers.              *)
ASSUME OAuthFlowAssumption == Providers \cap {"link", "data", "session"} = {}

VARIABLES
    accounts,           \* the users there are
    linked,             \* oauth_accounts: the user of each provider's account
    jar,                \* the cookies of the browser
    signing,            \* what each of its tabs is at
    begun,              \* the provider of each flow begun
    expired,            \* flows up to this one have run out
    robbed,             \* ghost: tabs whose oauth_link cookie another ended
    abandoned,          \* ghost: an attempt to connect was left without an end
    overwritten         \* ghost: states an overlapping answer may have removed

flowVars ==
    <<accounts, linked, jar, signing, begun, expired, robbed, abandoned, overwritten>>

Flows == 1..MaxFlows
Cookies == Providers \cup {"link", "data", "session"}
NoCookies == [c \in Cookies |-> IF c \in Providers THEN <<>> ELSE NoOne]
Stages == {"page", "init", "departing", "consent", "returning", "landed", "exchange"}

(* asker: the user who pressed `connect', NoOne for a sign-in.  to: the    *)
(* user the flow connected the provider to.                                *)
NewTab ==
    [at |-> "page", user |-> NoOne, asker |-> NoOne, provider |-> NoOne, flow |-> 0,
     answer |-> "none", sent |-> <<>>, to |-> NoOne]

FlowTypeOK ==
    /\ accounts \in SUBSET Users
    /\ linked \in [Providers -> Users \cup {NoOne}]
    /\ \A p \in Providers : Range(jar[p]) \subseteq Flows
    /\ \A c \in {"link", "data", "session"} : jar[c] \in Users \cup {NoOne}
    /\ \A t \in FlowTabs :
          /\ signing[t].at \in Stages /\ signing[t].flow \in 0..MaxFlows
          /\ {signing[t].user, signing[t].asker, signing[t].to} \subseteq Users \cup {NoOne}
    /\ begun \in Seq(Providers) /\ Len(begun) <= MaxFlows /\ expired \in 0..Len(begun)

FlowInit ==
    /\ accounts = WithPassword
    /\ linked = [p \in Providers |-> NoOne]
    /\ jar = NoCookies
    /\ signing = [t \in FlowTabs |-> NewTab]
    /\ begun = <<>> /\ expired = 0
    /\ robbed = {} /\ abandoned = FALSE /\ overwritten = {}

-----------------------------------------------------------------------------
(* Cookies.                                                                *)

database == <<accounts, linked>>
ghosts == <<robbed, abandoned, overwritten>>

(* The states of one provider that have not run out.                       *)
readPendingStates(cookies, p) == SelectSeq(cookies[p], LAMBDA f : f > expired)

Lasts(pending) ==
    LET surplus == Len(pending) - MaxPendingStates
    IN  IF surplus > 0 THEN SubSeq(pending, surplus + 1, Len(pending)) ELSE pending

(* Writing the cookie of p from what a request carried drops the states    *)
(* that were stored since.                                                 *)
Overwrites(t, p) ==
    overwritten' = overwritten \cup (Range(jar[p]) \ Range(signing[t].sent[p]))

Connecting == {t \in FlowTabs : signing[t].asker # NoOne /\ signing[t].at # "page"}

(* The oauth_link cookie ends, for all tabs but t.                         *)
EndsLink(t) == robbed' = robbed \cup (Connecting \ {t})

Move(t, changed) == signing' = [signing EXCEPT ![t] = changed]
Carried(names, cookies) == [c \in names |-> cookies[c]]

(* The application starts anew in the tab: the guards find the session.    *)
Lands(t, user) ==
    [NewTab EXCEPT !.user = user, !.asker = signing[t].asker, !.to = signing[t].to]

-----------------------------------------------------------------------------
(* The pages.                                                              *)

Started(t, user, p) ==
    [NewTab EXCEPT !.user = signing[t].user, !.asker = user, !.provider = p]

onOAuthLogin(t, p) ==
    /\ signing[t].at = "page" /\ signing[t].user = NoOne
    /\ Move(t, [Started(t, NoOne, p) EXCEPT !.at = "departing", !.sent = Carried({p}, jar)])
    /\ robbed' = robbed \ {t}
    /\ UNCHANGED <<database, jar, begun, expired, abandoned, overwritten>>

connectProvider(t, p) ==
    /\ signing[t].at = "page" /\ signing[t].user # NoOne
    /\ Move(t, [Started(t, signing[t].user, p) EXCEPT !.at = "init"])
    /\ robbed' = robbed \ {t}
    /\ UNCHANGED <<database, jar, begun, expired, abandoned, overwritten>>

(* initOAuthLink; the page then leaves for the provider.                   *)
initOAuthLink(t) ==
    /\ signing[t].at = "init"
    /\ jar' = [jar EXCEPT !["link"] = signing[t].user]
    /\ Move(t, [signing[t] EXCEPT !.at = "departing", !.sent = Carried({signing[t].provider}, jar)])
    /\ robbed' = robbed \cup {s \in Connecting \ {t} : signing[s].asker # signing[t].user}
    /\ UNCHANGED <<database, begun, expired, abandoned, overwritten>>

initOAuthLinkFails(t) ==
    /\ signing[t].at = "init"
    /\ Move(t, [NewTab EXCEPT !.user = jar["session"]])
    /\ UNCHANGED <<database, jar, begun, expired, ghosts>>

(* unlinkProvider: not the last way in of a user without a password.       *)
disconnectProvider(t, p) ==
    /\ signing[t].at = "page" /\ signing[t].user # NoOne /\ linked[p] = signing[t].user
    /\ \/ signing[t].user \in WithPassword
       \/ \E q \in Providers \ {p} : linked[q] = signing[t].user
    /\ linked' = [linked EXCEPT ![p] = NoOne]
    /\ UNCHANGED <<accounts, jar, signing, begun, expired, ghosts>>

(* A tab that shows a page hears of the others' sign-out.                  *)
SignOut(t) ==
    /\ signing[t].at = "page" /\ signing[t].user # NoOne
    /\ signing' = [s \in FlowTabs |-> IF signing[s].at = "page" THEN NewTab ELSE signing[s]]
    /\ jar' = [jar EXCEPT !["session"] = NoOne]
    /\ UNCHANGED <<database, begun, expired, ghosts>>

(* With a password, past the providers.                                    *)
SignIn(t, user) ==
    /\ signing[t].at = "page" /\ signing[t].user = NoOne /\ user \in WithPassword
    /\ Move(t, [NewTab EXCEPT !.user = user])
    /\ jar' = [jar EXCEPT !["session"] = user]
    /\ UNCHANGED <<database, begun, expired, ghosts>>

-----------------------------------------------------------------------------
(* To the provider and back.                                               *)

(* The guard redirects; the state store appends the state of this flow.    *)
Store(t) ==
    LET p == signing[t].provider IN
    /\ signing[t].at = "departing" /\ Len(begun) < MaxFlows
    /\ begun' = Append(begun, p)
    /\ jar' = [jar EXCEPT ![p] =
                  Lasts(Append(readPendingStates(signing[t].sent, p), Len(begun')))]
    /\ Overwrites(t, p)
    /\ Move(t, [signing[t] EXCEPT !.at = "consent", !.flow = Len(begun'), !.sent = <<>>])
    /\ UNCHANGED <<database, expired, robbed, abandoned>>

(* The provider sends the browser back: with a code, with a refusal of the *)
(* user, or with a code it will not exchange.                              *)
Consent(t, answer) ==
    /\ signing[t].at = "consent"
    /\ Move(t, [signing[t] EXCEPT !.at = "returning", !.answer = answer,
                               !.sent = Carried({signing[t].provider, "link"}, jar)])
    /\ UNCHANGED <<database, jar, begun, expired, ghosts>>

(* The user leaves the provider's page without an answer, or the answer of *)
(* the callback is lost.                                                   *)
Abandon(t) ==
    /\ signing[t].at \in {"consent", "returning"}
    /\ Move(t, Lands(t, jar["session"]))
    /\ abandoned' = (abandoned \/ signing[t].asker # NoOne)
    /\ UNCHANGED <<database, jar, begun, expired, robbed, overwritten>>

(* CookieStateStore.verify: a refusal is turned away before it.            *)
Verified(t) ==
    /\ signing[t].answer # "cancelled"
    /\ signing[t].flow \in Range(readPendingStates(signing[t].sent, signing[t].provider))

(* The cookie of the states after it: an unmatched callback leaves it.     *)
Remaining(t) ==
    [c \in {p \in {signing[t].provider} : Verified(t)} |->
        SelectSeq(readPendingStates(signing[t].sent, c), LAMBDA f : f # signing[t].flow)]

Authenticated(t) == Verified(t) /\ signing[t].answer = "code"

(* The answer of a callback sets the cookies `set' beside the states.      *)
Answered(t, set) ==
    /\ jar' = [c \in Cookies |-> IF c \in DOMAIN set THEN set[c]
                                 ELSE IF c \in DOMAIN Remaining(t) THEN Remaining(t)[c]
                                 ELSE jar[c]]
    /\ IF Verified(t) THEN Overwrites(t, signing[t].provider) ELSE UNCHANGED overwritten
    /\ IF "link" \in DOMAIN set THEN EndsLink(t) ELSE UNCHANGED robbed
    /\ UNCHANGED <<begun, expired, abandoned>>

Unset(names) == [c \in names |-> NoOne]

(* What was the callback of an attempt to connect, by its cookie?          *)
ForLink(t) == signing[t].sent["link"] # NoOne

SpentByFailure(t) == IF ForLink(t) THEN {"link"} ELSE {}

(* handleRequest and OAuthAuthenticationExceptionFilter.                   *)
CallbackFails(t) ==
    /\ signing[t].at = "returning" /\ ~Authenticated(t)
    /\ Answered(t, Unset(SpentByFailure(t)))
    /\ Move(t, Lands(t, jar["session"]))
    /\ UNCHANGED database

(* handleOAuthLink; it fails for an account of somebody else, and when the *)
(* token of the cookie has run out on the way.                             *)
handleOAuthLink(t) ==
    LET p == signing[t].provider  user == signing[t].sent["link"] IN
    /\ signing[t].at = "returning" /\ Authenticated(t) /\ ForLink(t)
    /\ Answered(t, Unset({"link"}))
    /\ \/ /\ linked[p] \in {NoOne, user}
          /\ linked' = [linked EXCEPT ![p] = user]
          /\ Move(t, [Lands(t, jar["session"]) EXCEPT !.to = user])
       \/ UNCHANGED linked /\ Move(t, Lands(t, jar["session"]))
    /\ UNCHANGED accounts

(* loginWithOAuth: the user of the provider's account, or a new one whose  *)
(* address nobody has.                                                     *)
SignsIn(p) ==
    IF linked[p] # NoOne THEN {linked[p]} ELSE {AddressOf[p]} \ accounts

handleOAuthCallback(t) ==
    LET p == signing[t].provider IN
    /\ signing[t].at = "returning" /\ Authenticated(t) /\ ~ForLink(t)
    /\ IF AddressOf[p] # NoOne /\ SignsIn(p) # {}
       THEN \E user \in SignsIn(p) :
              /\ Answered(t, [c \in {"data"} |-> user])
              /\ linked' = [linked EXCEPT ![p] = user]
              /\ accounts' = accounts \cup {user}
              /\ Move(t, [signing[t] EXCEPT !.at = "landed", !.sent = <<>>])
       ELSE /\ Answered(t, Unset({}))
            /\ Move(t, Lands(t, jar["session"]))
            /\ UNCHANGED database

(* OAuthCallbackComponent.                                                 *)
exchangeOAuthData(t) ==
    /\ signing[t].at = "landed"
    /\ Move(t, [signing[t] EXCEPT !.at = "exchange", !.sent = Carried({"data"}, jar)])
    /\ UNCHANGED <<database, jar, begun, expired, ghosts>>

(* The exchange, once: with the cookie of whichever tab came back last.    *)
Exchanged(t) ==
    LET user == signing[t].sent["data"] IN
    /\ signing[t].at = "exchange"
    /\ IF user # NoOne
       THEN jar' = [jar EXCEPT !["data"] = NoOne, !["session"] = user]
       ELSE jar' = [jar EXCEPT !["data"] = NoOne]
    /\ Move(t, Lands(t, IF user # NoOne THEN user ELSE jar["session"]))
    /\ UNCHANGED <<database, begun, expired, ghosts>>

-----------------------------------------------------------------------------
(* Time: five minutes for a state and an attempt to connect, one for the   *)
(* data of a sign-in.                                                      *)

ExpireState ==
    /\ expired < Len(begun) /\ expired' = expired + 1
    /\ UNCHANGED <<database, jar, signing, begun, ghosts>>

ExpireLink ==
    /\ jar["link"] # NoOne
    /\ jar' = [jar EXCEPT !["link"] = NoOne]
    /\ robbed' = robbed \cup Connecting
    /\ UNCHANGED <<database, signing, begun, expired, abandoned, overwritten>>

ExpireData ==
    /\ jar["data"] # NoOne
    /\ jar' = [jar EXCEPT !["data"] = NoOne]
    /\ UNCHANGED <<database, signing, begun, expired, ghosts>>

FlowNext ==
    \/ \E t \in FlowTabs :
         \/ \E p \in Providers :
              onOAuthLogin(t, p) \/ connectProvider(t, p) \/ disconnectProvider(t, p)
         \/ initOAuthLink(t) \/ initOAuthLinkFails(t)
         \/ SignOut(t) \/ \E user \in Users : SignIn(t, user)
         \/ Store(t) \/ \E answer \in {"code", "cancelled", "refused"} : Consent(t, answer)
         \/ Abandon(t)
         \/ CallbackFails(t) \/ handleOAuthLink(t) \/ handleOAuthCallback(t)
         \/ exchangeOAuthData(t) \/ Exchanged(t)
    \/ ExpireState \/ ExpireLink \/ ExpireData

FlowSpec == FlowInit /\ [][FlowNext]_flowVars

-----------------------------------------------------------------------------

(* A tab's flow survives what the other tabs do: its state is there when   *)
(* it comes back, unless it ran out, MaxPendingStates others began after   *)
(* it, or the answer of an overlapping request removed it.                 *)
StatesSurvive ==
    \A t \in FlowTabs :
        LET f == signing[t].flow  p == signing[t].provider IN
        /\ signing[t].at = "consent" /\ f > expired /\ f \notin overwritten
        /\ Cardinality({g \in DOMAIN begun : g > f /\ begun[g] = p}) < MaxPendingStates
        => f \in Range(jar[p])

(* The oauth_link cookie of an attempt that came to an end does not        *)
(* survive to turn the next plain sign-in into another attempt; only one   *)
(* the user walked away from leaves it.                                    *)
AttemptEndsWithItsCookie ==
    jar["link"] # NoOne => Connecting # {} \/ abandoned

(* While no other tab ended its cookie, an attempt to connect neither      *)
(* signs in nor connects the provider to anybody but the user who asked.   *)
AttemptIsItsOwn ==
    \A t \in FlowTabs \ robbed :
        signing[t].asker # NoOne =>
            /\ signing[t].at \notin {"landed", "exchange"}
            /\ signing[t].to \in {NoOne, signing[t].asker}

=============================================================================
