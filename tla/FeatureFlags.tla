---------------------------- MODULE FeatureFlags ----------------------------
(***************************************************************************)
(* A change of the feature flags on its way to a browser: the write, the   *)
(* invalidation of two cache levels, the broadcast over server-sent        *)
(* events, and the refetch, on one or more server instances that share     *)
(* the database and Redis.                                                 *)
(*                                                                         *)
(* The content of the flags is the number of changes committed so far, so  *)
(* that a copy is compared by its age.  One user is enough: the per-user   *)
(* keys of different users never meet.  Every cache or database call is a  *)
(* step; what runs between two awaits is one step.  A write to Redis is    *)
(* issued without waiting, and one instance's commands keep their order.   *)
(***************************************************************************)
EXTENDS Integers, FiniteSets, FiniteSetsExt

CONSTANTS
    Servers,        \* server instances
    Requests,       \* bound: evaluations at work at once
    Loads,          \* bound: reloads of the flag list at work at once
    MaxChanges,     \* bound: changes an administrator commits
    MaxFaults       \* bound: failed calls, dropped streams, crashes

ASSUME FlagsAssumption ==
    /\ MaxChanges \in Nat /\ MaxFaults \in Nat
    /\ IsFiniteSet(Servers) /\ "none" \notin Servers /\ "none" \notin Loads

VARIABLES
    content,        \* of the flags in the database
    handler,        \* FeatureFlagChangedListener, for each change
    all,            \* featureflags:all
    counter,        \* the version counter: the Redis one and the fallback
    user,           \* featureflags:user:{id}:v{version}
    server,         \* per instance: generation, reload in flight, broadcast timer
    load,           \* loadAllFlagsFromDb, as it runs
    request,        \* evaluations, as they run
    client,         \* a signed-in browser: its stream and its FeatureFlagsStore
    faults          \* faults so far

vars == <<content, handler, all, counter, user, server, load, request, client, faults>>

Contents == 0..MaxChanges
Changes == 1..MaxChanges
Absent == -1
Keys == {"redis", "fallback"} \X Contents

IdleHandler == [pc |-> "idle", server |-> "none"]
HandlerType == [pc : {"idle", "committed", "del", "bump", "done", "lost"},
                server : Servers \cup {"none"}]

FreshServer == [generation |-> 0, inFlight |-> "none", timer |-> FALSE]
ServerType == [generation : Contents, inFlight : Loads \cup {"none"}, timer : BOOLEAN]

IdleLoad == [pc |-> "idle", server |-> "none", generation |-> 0, content |-> 0]
LoadType == [pc : {"idle", "find", "rules"}, server : Servers \cup {"none"},
             generation : Contents, content : Contents]

(* live: the fetch of the current epoch of the browser's store, whose      *)
(* answer the store takes.                                                 *)
IdleRequest == [pc |-> "idle", live |-> FALSE, server |-> "none",
                key |-> <<"redis", 0>>, load |-> "none", content |-> 0]
RequestType == [pc : {"idle", "user", "all", "wait", "store", "answer"},
                live : BOOLEAN, server : Servers \cup {"none"}, key : Keys,
                load : Loads \cup {"none"}, content : Contents]

FlagsTypeOK ==
    /\ content \in Contents
    /\ handler \in [Changes -> HandlerType]
    /\ all \in Contents \cup {Absent}
    /\ counter \in [{"redis", "fallback"} -> Contents]
    /\ user \in [Keys -> Contents \cup {Absent}]
    /\ server \in [Servers -> ServerType]
    /\ load \in [Loads -> LoadType]
    /\ request \in [Requests -> RequestType]
    /\ client \in [stream : Servers \cup {"none"}, pushed : BOOLEAN, flags : Contents]
    /\ faults \in 0..MaxFaults

Init ==
    /\ content = 0
    /\ handler = [n \in Changes |-> IdleHandler]
    /\ all = Absent
    /\ counter = [c \in {"redis", "fallback"} |-> 0]
    /\ user = [k \in Keys |-> Absent]
    /\ server = [s \in Servers |-> FreshServer]
    /\ load = [l \in Loads |-> IdleLoad]
    /\ request = [q \in Requests |-> IdleRequest]
    /\ \E s \in Servers : client = [stream |-> s, pushed |-> FALSE, flags |-> 0]
    /\ faults = 0

Fault == faults < MaxFaults /\ faults' = faults + 1

cachesUnchanged == UNCHANGED <<all, counter, user>>
adminUnchanged == UNCHANGED <<content, handler>>
readersUnchanged == UNCHANGED <<load, request>>

----------------------------------------------------------------------------
(* A request of the administrator commits once, on some instance s. *)
Commits(s) ==
    /\ content < MaxChanges
    /\ content' = content + 1
    /\ handler' = [handler EXCEPT ![content + 1] = [pc |-> "committed", server |-> s]]
    /\ UNCHANGED <<server, client, faults>> /\ cachesUnchanged /\ readersUnchanged

(* create (the key is unique), update (a compare-and-swap on the version   *)
(* of If-Match; one that loses it changes nothing), toggle and delete.     *)
EditFlag(s) == Commits(s)

(* Delete, insert and version + 1 in one transaction. *)
ReplaceRules(s) == Commits(s)

----------------------------------------------------------------------------
(* The listener: FeatureFlagResolverService.invalidateAll, then one        *)
(* coalesced broadcast.                                                    *)

Detach(sv) == [sv EXCEPT !.generation = @ + 1, !.inFlight = "none"]

(* The controller emits the event when the row has been read back; the     *)
(* part of invalidateAll before its first await runs with it.              *)
Emit(n) ==
    /\ handler[n].pc = "committed"
    /\ handler' = [handler EXCEPT ![n].pc = "del"]
    /\ server' = [server EXCEPT ![handler[n].server] = Detach(@)]
    /\ UNCHANGED <<content, client, faults>> /\ cachesUnchanged /\ readersUnchanged

DropAll(n) ==
    /\ handler[n].pc = "del"
    /\ all' = Absent
    /\ handler' = [handler EXCEPT ![n].pc = "bump"]
    /\ UNCHANGED <<content, counter, user, server, client, faults>> /\ readersUnchanged

(* CacheVersionCounter.bump: the fallback counter when Redis fails.        *)
BumpOf(which) == counter' = [counter EXCEPT ![which] = @ + 1]

(* Then the broadcast timer, which a burst of changes shares. *)
Bump(n) ==
    /\ handler[n].pc = "bump"
    /\ \/ BumpOf("redis") /\ UNCHANGED faults
       \/ BumpOf("fallback") /\ Fault
    /\ server' = [server EXCEPT ![handler[n].server].timer = TRUE]
    /\ handler' = [handler EXCEPT ![n].pc = "done"]
    /\ UNCHANGED <<content, all, user, client>> /\ readersUnchanged

(* pushToAll: the streams this instance holds. *)
Broadcast(s) ==
    /\ server[s].timer
    /\ server' = [server EXCEPT ![s].timer = FALSE]
    /\ client' = IF client.stream = s THEN [client EXCEPT !.pushed = TRUE] ELSE client
    /\ UNCHANGED faults /\ adminUnchanged /\ cachesUnchanged /\ readersUnchanged

----------------------------------------------------------------------------
(* Evaluation: FeatureFlagResolverService. *)

(* A request reaches instance s and reads the version: from Redis, or from *)
(* the fallback when Redis fails.                                          *)
Begins(s, which) ==
    [IdleRequest EXCEPT !.pc = "user", !.live = TRUE, !.server = s,
                        !.key = <<which, counter[which]>>]

GetUser(q) ==
    /\ request[q].pc = "user"
    /\ LET hit == user[request[q].key] IN
       request' = [request EXCEPT ![q] =
          IF hit # Absent THEN [@ EXCEPT !.pc = "answer", !.content = hit]
                          ELSE [@ EXCEPT !.pc = "all"]]
    /\ UNCHANGED <<server, load, client, faults>> /\ adminUnchanged /\ cachesUnchanged

Received(r, list) ==
    [r EXCEPT !.pc = "store", !.content = list, !.load = "none"]

GetAll(q) ==
    LET s == request[q].server IN
    /\ request[q].pc = "all"
    /\ \/ /\ all # Absent
          /\ request' = [request EXCEPT ![q] = Received(@, all)]
          /\ UNCHANGED <<server, load>>
       \/ /\ all = Absent /\ server[s].inFlight # "none"
          /\ request' = [request EXCEPT ![q].pc = "wait", ![q].load = server[s].inFlight]
          /\ UNCHANGED <<server, load>>
       \/ /\ all = Absent /\ server[s].inFlight = "none"
          /\ \E l \in Loads :
                /\ load[l].pc = "idle"
                /\ load' = [load EXCEPT ![l] =
                      [pc |-> "find", server |-> s, generation |-> server[s].generation,
                       content |-> 0]]
                /\ server' = [server EXCEPT ![s].inFlight = l]
                /\ request' = [request EXCEPT ![q].pc = "wait", ![q].load = l]
    /\ UNCHANGED <<client, faults>> /\ adminUnchanged /\ cachesUnchanged

(* The flags, then their rules: the pair is as old as the flags. *)
LoadFind(l) ==
    /\ load[l].pc = "find"
    /\ load' = [load EXCEPT ![l].pc = "rules", ![l].content = content]
    /\ UNCHANGED <<server, request, client, faults>> /\ adminUnchanged /\ cachesUnchanged

\* Mutant: every load writes the list it has read.
AnyGeneration(l) == TRUE
SameGeneration(l) == load[l].generation = server[load[l].server].generation

LoadDone(l) ==
    LET s == load[l].server IN
    /\ load[l].pc = "rules"
    /\ all' = IF SameGeneration(l) THEN load[l].content ELSE all
    /\ server' = IF server[s].inFlight = l
                 THEN [server EXCEPT ![s].inFlight = "none"] ELSE server
    /\ request' = [q \in Requests |->
          IF request[q].load = l THEN Received(request[q], load[l].content) ELSE request[q]]
    /\ load' = [load EXCEPT ![l] = IdleLoad]
    /\ UNCHANGED <<counter, user, client, faults>> /\ adminUnchanged

Store(q) ==
    /\ request[q].pc = "store"
    /\ user' = [user EXCEPT ![request[q].key] = request[q].content]
    /\ request' = [request EXCEPT ![q].pc = "answer"]
    /\ UNCHANGED <<all, counter, server, load, client, faults>> /\ adminUnchanged

ExpireAll ==
    /\ all # Absent /\ all' = Absent
    /\ UNCHANGED <<counter, user, server, client, faults>> /\ adminUnchanged /\ readersUnchanged

ExpireUser(k) ==
    /\ user[k] # Absent /\ user' = [user EXCEPT ![k] = Absent]
    /\ UNCHANGED <<all, counter, server, client, faults>> /\ adminUnchanged /\ readersUnchanged

----------------------------------------------------------------------------
(* The browser: FeatureFlagsStore and the notification stream. *)

Outdated == [q \in Requests |-> [request[q] EXCEPT !.live = FALSE]]

(* fetchFlags: the fetch takes the next epoch, older ones become inert.    *)
Fetch ==
    \E q \in Requests, s \in Servers :
        /\ request[q].pc = "idle"
        /\ \/ /\ request' = [Outdated EXCEPT ![q] = Begins(s, "redis")]
              /\ UNCHANGED faults
           \/ /\ request' = [Outdated EXCEPT ![q] = Begins(s, "fallback")]
              /\ Fault

(* permissionsUpdated$, and another device of the user: at any time. *)
Refetch ==
    /\ Fetch
    /\ UNCHANGED <<server, load, client>> /\ adminUnchanged /\ cachesUnchanged

(* featureFlagsUpdated$: reload. *)
Pushed ==
    /\ client.pushed
    /\ Fetch
    /\ client' = [client EXCEPT !.pushed = FALSE]
    /\ UNCHANGED <<server, load>> /\ adminUnchanged /\ cachesUnchanged

(* handleStreamEnd: what was pushed and not yet read is gone. *)
DropStream ==
    /\ client.stream # "none" /\ Fault
    /\ client' = [client EXCEPT !.stream = "none", !.pushed = FALSE]
    /\ UNCHANGED server /\ adminUnchanged /\ cachesUnchanged /\ readersUnchanged

(* connect, by the reconnect timer: the flags are not fetched again. *)
Connect(s) ==
    /\ client.stream = "none"
    /\ client' = [client EXCEPT !.stream = s]
    /\ UNCHANGED <<server, faults>> /\ adminUnchanged /\ cachesUnchanged /\ readersUnchanged

\* Mutant: every answer writes the store.
AnyEpoch(q) == TRUE
CurrentEpoch(q) == request[q].live

(* The answer of a fetch: only the current epoch writes the store. *)
Answer(q) ==
    /\ request[q].pc = "answer"
    /\ client' = IF CurrentEpoch(q) THEN [client EXCEPT !.flags = request[q].content] ELSE client
    /\ request' = [request EXCEPT ![q] = IdleRequest]
    /\ UNCHANGED <<server, load, faults>> /\ adminUnchanged /\ cachesUnchanged

(* The answer is lost: the store keeps what it has. *)
FetchFails(q) ==
    /\ request[q].pc = "answer" /\ CurrentEpoch(q) /\ Fault
    /\ request' = [request EXCEPT ![q] = IdleRequest]
    /\ UNCHANGED <<server, load, client>> /\ adminUnchanged /\ cachesUnchanged

(* An instance stops with everything it had under way. *)
Crash(s) ==
    /\ Fault
    /\ handler' = [n \in Changes |->
          IF handler[n].server = s /\ handler[n].pc # "done"
          THEN [handler[n] EXCEPT !.pc = "lost"] ELSE handler[n]]
    /\ load' = [l \in Loads |-> IF load[l].server = s THEN IdleLoad ELSE load[l]]
    /\ request' = [q \in Requests |->
          IF request[q].server = s THEN IdleRequest ELSE request[q]]
    /\ server' = [server EXCEPT ![s] = FreshServer]
    /\ client' = IF client.stream = s
                 THEN [client EXCEPT !.stream = "none", !.pushed = FALSE] ELSE client
    /\ UNCHANGED content /\ cachesUnchanged

----------------------------------------------------------------------------

Handle(n) == Emit(n) \/ DropAll(n) \/ Bump(n)
Evaluate(q) == GetUser(q) \/ GetAll(q) \/ Store(q) \/ Answer(q)
Reload(l) == LoadFind(l) \/ LoadDone(l)

Next ==
    \/ \E s \in Servers : EditFlag(s) \/ ReplaceRules(s) \/ Broadcast(s) \/ Connect(s) \/ Crash(s)
    \/ \E n \in Changes : Handle(n)
    \/ \E q \in Requests : Evaluate(q) \/ FetchFails(q)
    \/ \E l \in Loads : Reload(l)
    \/ ExpireAll \/ \E k \in Keys : ExpireUser(k)
    \/ Pushed \/ Refetch \/ DropStream

Spec == Init /\ [][Next]_vars

----------------------------------------------------------------------------
(* Properties. *)

(* Once the invalidation of a change is over, neither cache level serves   *)
(* the flags without it: a load that began before the change does not put  *)
(* its list back, and no entry under the new version was computed from it. *)
(* invalidateAll, loadAllFlagsFromDb; for one instance and a Redis that    *)
(* takes the increment.                                                    *)
SettledIsVisible ==
    \A n \in Changes :
        /\ handler[n].pc \in {"bump", "done"} /\ all # Absent => all >= n
        /\ handler[n].pc = "done" /\ counter["fallback"] = 0 =>
              LET entry == user[<<"redis", counter["redis"]>>] IN
              entry # Absent => entry >= n

(* A browser that has stayed connected shows every change once nothing is  *)
(* under way, although a burst of changes is announced once, a fetch may   *)
(* have begun at any time and answers overtake each other.  The listener   *)
(* arms the broadcast after its invalidation; fetchFlags counts epochs.    *)
ConnectedIsCurrent ==
    /\ faults = 0
    /\ \A n \in Changes : handler[n].pc \in {"idle", "done"}
    /\ \A s \in Servers : ~server[s].timer
    /\ ~client.pushed /\ \A q \in Requests : request[q].pc = "idle"
    => client.flags = content

============================================================================
