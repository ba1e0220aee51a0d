---------------------------- MODULE Entitlements --------------------------
(***************************************************************************)
(* What a plan grants, from the billing tables to the browser: the commit  *)
(* of a billing change, the event behind it, the cached entitlements it    *)
(* drops, the push, and the client's EntitlementsStore.                    *)
(*                                                                         *)
(* One user is enough: keys of different users never meet.  The version    *)
(* in the key is left out, for nothing in the server raises it.            *)
(***************************************************************************)
EXTENDS Naturals, FiniteSets, Sequences

CONSTANTS
    Plans, FreePlan,
    Capabilities,       \* what each plan grants
    Bought,             \* the capability a one-time purchase grants
    MaxChanges,         \* bound on committed billing changes
    MaxLost,            \* bound on lost events, failed calls and sign-outs
    MaxFetches,         \* bound on fetches of the store under way at once
    Nothing

ASSUME EntitlementsAssumption ==
    /\ FreePlan \in Plans /\ DOMAIN Capabilities = Plans
    /\ {MaxChanges, MaxLost, MaxFetches} \subseteq Nat

VARIABLES
    subscription,   \* status and plan of the newest subscription
    grant,          \* the one-time grant: "none", "active" or "ended"
    events,         \* committed changes: what is left of their handling
    cached,         \* entitlements:user:<id> in the cache, or Nothing
    lookups,        \* lookups under way: what they read
    fetches,        \* requests of the store: their epoch, and their answer
    store,          \* EntitlementsStore: what it shows, loaded, epoch, inFlight
    changes, lost,  \* ghost: changes so far, faults so far
    stale           \* ghost: a lookup crossed a change, or its event was lost

entitlementVars == <<subscription, grant, events, cached, lookups, fetches, store,
                     changes, lost, stale>>

-----------------------------------------------------------------------------
Entitled == {"trialing", "active", "past_due"}

SubscriptionEntitlements ==
    IF subscription.status \in Entitled THEN Capabilities[subscription.plan]
    ELSE Capabilities[FreePlan]

ActiveGrants == IF grant = "active" THEN {Bought} ELSE {}

Resolve == SubscriptionEntitlements \cup ActiveGrants

Empty == [shows |-> Nothing, epoch |-> 0, inFlight |-> FALSE]

EntitlementsInit ==
    /\ subscription = [status |-> "canceled", plan |-> FreePlan]
    /\ grant = "none"
    /\ events = {} /\ cached = Nothing /\ lookups = {} /\ fetches = {}
    /\ store = Empty
    /\ changes = 0 /\ lost = 0 /\ stale = FALSE

billing == <<subscription, grant, changes>>
entitlementCache == <<cached, lookups>>
browser == <<fetches, store>>

-----------------------------------------------------------------------------
(* A billing change commits; what follows it is told apart by its source:  *)
(* the events invalidate, then push; a full refund only invalidates.       *)
AfterCommit(told) == IF told THEN <<"drop", "push">> ELSE <<"drop">>

Commit(told) ==
    /\ changes < MaxChanges
    /\ changes' = changes + 1
    /\ events' = events \cup {[id |-> changes, todo |-> AfterCommit(told)]}
    /\ stale' = (stale \/ lookups # {})
    /\ UNCHANGED <<entitlementCache, browser, lost>>

Activate(p) ==
    /\ Commit(TRUE)
    /\ subscription' = [status |-> "active", plan |-> p]
    /\ UNCHANGED grant

FallDue ==
    /\ subscription.status = "active"
    /\ Commit(TRUE)
    /\ subscription' = [subscription EXCEPT !.status = "past_due"]
    /\ UNCHANGED grant

Cancel ==
    /\ subscription.status \in Entitled
    /\ Commit(TRUE)
    /\ subscription' = [subscription EXCEPT !.status = "canceled"]
    /\ UNCHANGED grant

Purchase ==
    /\ grant = "none"
    /\ Commit(TRUE)
    /\ grant' = "active"
    /\ UNCHANGED subscription

RefundPurchase ==
    /\ grant = "active"
    /\ Commit(FALSE)
    /\ grant' = "ended"
    /\ UNCHANGED subscription

-----------------------------------------------------------------------------
After(e) ==
    events' = (events \ {e}) \cup
        (IF Len(e.todo) = 1 THEN {} ELSE {[e EXCEPT !.todo = Tail(@)]})

InvalidateUser(e) ==
    /\ Head(e.todo) = "drop"
    /\ cached' = Nothing
    /\ After(e)
    /\ UNCHANGED <<billing, lookups, browser, lost, stale>>

(* A new fetch; the store counts its epochs, so that only the answer of    *)
(* the last one is taken.                                                  *)
Fetch(epoch) ==
    /\ Cardinality(fetches) < MaxFetches
    /\ fetches' = fetches \cup {[epoch |-> epoch, at |-> "sent", answer |-> Nothing]}
    /\ store' = [store EXCEPT !.epoch = epoch, !.inFlight = TRUE]

(* entitlements_updated makes the store reload.                            *)
Push(e) ==
    /\ Head(e.todo) = "push"
    /\ Fetch(store.epoch + 1)
    /\ After(e)
    /\ UNCHANGED <<billing, entitlementCache, lost, stale>>

(* The process dies between the commit and its listener.                   *)
LoseEvent(e) ==
    /\ lost < MaxLost
    /\ lost' = lost + 1
    /\ events' = events \ {e}
    /\ stale' = TRUE
    /\ UNCHANGED <<billing, entitlementCache, browser>>

-----------------------------------------------------------------------------
(* load() on the way to a gated page joins a fetch under way.              *)
Load ==
    /\ ~store.inFlight /\ store.shows = Nothing
    /\ Fetch(store.epoch + 1)
    /\ UNCHANGED <<billing, events, entitlementCache, lost, stale>>

(* Sign-out clears the store.                                              *)
Clear ==
    /\ lost < MaxLost
    /\ lost' = lost + 1
    /\ store' = [Empty EXCEPT !.epoch = store.epoch + 1]
    /\ UNCHANGED <<billing, events, entitlementCache, fetches, stale>>

(* capabilitiesFor: the cached value, or a lookup that stores later.       *)
Hit(f) ==
    /\ f.at = "sent" /\ cached # Nothing
    /\ fetches' = (fetches \ {f}) \cup {[f EXCEPT !.at = "answered", !.answer = cached]}
    /\ UNCHANGED <<billing, events, entitlementCache, store, lost, stale>>

Miss(f) ==
    /\ f.at = "sent" /\ cached = Nothing
    /\ lookups' = lookups \cup {f.epoch}
    /\ fetches' = (fetches \ {f}) \cup {[f EXCEPT !.at = "looking", !.answer = Resolve]}
    /\ UNCHANGED <<billing, events, cached, store, lost, stale>>

StoreLookup(f) ==
    /\ f.at = "looking"
    /\ cached' = f.answer
    /\ lookups' = lookups \ {f.epoch}
    /\ fetches' = (fetches \ {f}) \cup {[f EXCEPT !.at = "answered"]}
    /\ UNCHANGED <<billing, events, store, lost, stale>>

DropCached ==
    /\ cached # Nothing
    /\ cached' = Nothing
    /\ UNCHANGED <<billing, events, lookups, browser, lost, stale>>

AnyAnswer(f) == TRUE                            \* a mutant
Latest(f) == f.epoch = store.epoch

Receive(f) ==
    /\ f.at = "answered"
    /\ fetches' = fetches \ {f}
    /\ store' = IF Latest(f) THEN [store EXCEPT !.shows = f.answer, !.inFlight = FALSE]
                ELSE store
    /\ UNCHANGED <<billing, events, entitlementCache, lost, stale>>

(* A failed fetch leaves what was shown.                                   *)
FailFetch(f) ==
    /\ f.at # "looking" /\ lost < MaxLost
    /\ lost' = lost + 1
    /\ fetches' = fetches \ {f}
    /\ store' = IF Latest(f) THEN [store EXCEPT !.inFlight = FALSE] ELSE store
    /\ stale' = (stale \/ store.shows # Nothing)
    /\ UNCHANGED <<billing, events, entitlementCache>>

EntitlementsNext ==
    \/ \E p \in Plans \ {FreePlan} : Activate(p)
    \/ FallDue \/ Cancel \/ Purchase \/ RefundPurchase
    \/ \E e \in events : InvalidateUser(e) \/ Push(e) \/ LoseEvent(e)
    \/ Load \/ Clear \/ DropCached
    \/ \E f \in fetches :
         Hit(f) \/ Miss(f) \/ StoreLookup(f) \/ Receive(f) \/ FailFetch(f)

EntitlementsSpec == EntitlementsInit /\ [][EntitlementsNext]_entitlementVars

-----------------------------------------------------------------------------
Settled == events = {} /\ fetches = {} /\ lookups = {} /\ ~stale

(* When nothing is under way, no event was lost and no lookup crossed a    *)
(* change, the cache holds what the billing tables grant, and so does the  *)
(* browser: each change drops the cache before it tells the browser to     *)
(* read again.  A full refund of a purchase tells nobody.                  *)
ShownIsGranted ==
    Settled =>
        /\ cached \in {Nothing, Resolve}
        /\ grant # "ended" => store.shows \in {Nothing, Resolve}

(* After a sign-out nothing of the last session comes back: an answer      *)
(* changes the store only while it waits for one.                          *)
ClearedStaysClear ==
    [][store.shows # store'.shows => store.inFlight \/ store'.shows = Nothing]_entitlementVars

(* Both; EntitlementService, the listener behind a billing change and the  *)
(* store of the client are what could break either.                        *)
EntitlementsAreSound == ClearedStaysClear /\ []ShownIsGranted
=============================================================================
