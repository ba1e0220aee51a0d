------------------------- MODULE FeatureFlagsProofs -------------------------
(***************************************************************************)
(* What holds of a change of the flags on its way to a browser, for any    *)
(* number of changes, evaluations, reloads and faults, on one instance;    *)
(* and of administrators who edit one flag, for any number of them.        *)
(***************************************************************************)
EXTENDS FeatureFlags, FlagEditor, FiniteSetTheorems, TLAPS

(* The setting of the properties: an invalidation drops the reload of the  *)
(* instance it runs on, and no other.                                      *)
OneServer == \A s, t \in Servers : s = t

----------------------------------------------------------------------------
(* The inductive invariant. *)

(* A change has a handler from its commit on, and every copy of the flags  *)
(* is of a content that has been committed.                                *)
AgesSound ==
    /\ \A n \in Changes :
          /\ handler[n].pc = "idle" <=> n > content
          /\ handler[n].server = "none" <=> handler[n].pc = "idle"
    /\ all <= content
    /\ \A k \in Keys : user[k] <= content
    /\ \A l \in Loads : load[l].content <= content
    /\ \A q \in Requests : request[q].content <= content
    /\ client.flags <= content

(* A version is counted by a handler that is done, a generation by one     *)
(* that has begun.                                                         *)
Done == {n \in Changes : handler[n].pc = "done"}
Begun == {n \in Changes : handler[n].pc \notin {"idle", "committed"}}

CountsSound ==
    /\ counter["redis"] + counter["fallback"] <= Cardinality(Done)
    /\ \A s \in Servers : server[s].generation <= Cardinality(Begun)

(* The reload an instance or an evaluation waits for is at work, and no    *)
(* reload is younger than its instance's generation.                       *)
ReadersSound ==
    /\ \A l \in Loads : load[l].pc # "idle" =>
          /\ load[l].server \in Servers
          /\ load[l].generation <= server[load[l].server].generation
    /\ \A s \in Servers : server[s].inFlight # "none" =>
          LET l == server[s].inFlight IN
          /\ load[l].pc # "idle" /\ load[l].server = s
          /\ load[l].generation = server[s].generation
    /\ \A q \in Requests :
          /\ request[q].pc = "idle" <=> request[q].server = "none"
          /\ request[q].live => request[q].pc # "idle"
          /\ request[q].pc = "wait" <=> request[q].load # "none"
          /\ request[q].load # "none" =>
                /\ load[request[q].load].pc # "idle"
                /\ load[request[q].load].server = request[q].server

(* A list that was read before a change is not put where its invalidation  *)
(* has been: a reload of the current generation began after it.            *)
ListsSound ==
    \A n \in Changes :
        /\ handler[n].pc \in {"bump", "done"} /\ all # Absent => all >= n
        /\ handler[n].pc \in {"del", "bump", "done"} =>
              \A l \in Loads : load[l].pc = "rules" /\ SameGeneration(l) =>
                  load[l].content >= n

(* Nothing under key k, in the cache or on its way there, is older than    *)
(* change n.                                                               *)
KeyGood(k, n) ==
    /\ user[k] # Absent => user[k] >= n
    /\ \A q \in Requests : request[q].key = k =>
          /\ request[q].pc \in {"store", "answer"} => request[q].content >= n
          /\ request[q].pc = "wait" /\ load[request[q].load].pc = "rules" =>
                load[request[q].load].content >= n

Key == <<"redis", counter["redis"]>>

KeysSound ==
    /\ \A k \in Keys : k[1] = "redis" /\ k[2] > counter["redis"] =>
          /\ user[k] = Absent
          /\ \A q \in Requests : request[q].key # k
    /\ counter["fallback"] = 0 =>
          \A n \in Changes : handler[n].pc = "done" => KeyGood(Key, n)

LiveGood(n) == \A q \in Requests : request[q].live => KeyGood(request[q].key, n)

(* A change whose handler is done is shown by the browser, or on its way.  *)
OnItsWay(n) ==
    \/ \E s \in Servers : server[s].timer
    \/ client.pushed
    \/ /\ LiveGood(n)
       /\ client.flags >= n \/ \E q \in Requests : request[q].live

ConnectedSound ==
    faults = 0 =>
        /\ client.stream # "none" /\ counter["fallback"] = 0
        /\ \A q \in Requests : request[q].key[1] = "redis"
        /\ \A n \in Changes : handler[n].pc = "done" => OnItsWay(n)

FlagsInv ==
    /\ FlagsTypeOK /\ AgesSound /\ CountsSound /\ ReadersSound
    /\ ListsSound /\ KeysSound /\ ConnectedSound

----------------------------------------------------------------------------
(* Counting. *)

\* There are as many changes as MaxChanges says, and their sets are finite.
LEMMA ChangesFinite ==
    ASSUME NEW S \in SUBSET Changes
    PROVE  IsFiniteSet(S) /\ Cardinality(S) \in Nat /\ Cardinality(S) <= MaxChanges
<1>1. IsFiniteSet(Changes) /\ Cardinality(Changes) = MaxChanges
  BY FlagsAssumption, FS_Interval DEF FlagsAssumption, Changes
<1> QED BY <1>1, FS_Subset, FS_CardinalityType

\* A set of changes that another one joins.
LEMMA OneMore ==
    ASSUME NEW S \in SUBSET Changes, NEW n \in Changes, n \notin S
    PROVE  /\ Cardinality(S \cup {n}) = Cardinality(S) + 1
           /\ Cardinality(S) + 1 <= MaxChanges
<1>1. Cardinality(S \cup {n}) = Cardinality(S) + 1
  BY ChangesFinite, FS_AddElement
<1>2. S \cup {n} \in SUBSET Changes
  OBVIOUS
<1> QED BY <1>1, <1>2, ChangesFinite

\* A set of changes within another.
LEMMA NoFewer ==
    ASSUME NEW S \in SUBSET Changes, NEW T \in SUBSET Changes, S \subseteq T
    PROVE  Cardinality(S) <= Cardinality(T)
BY ChangesFinite, FS_Subset

----------------------------------------------------------------------------
(* Type correctness, the ages of copies, and who waits for whom: for any   *)
(* number of instances.                                                    *)

BaseInv == FlagsTypeOK /\ AgesSound /\ CountsSound /\ ReadersSound

\* A handler's server is one of the servers.
LEMMA HandlerServer ==
    ASSUME FlagsTypeOK, AgesSound, NEW n \in Changes, handler[n].pc # "idle"
    PROVE  handler[n].server \in Servers
BY DEF FlagsTypeOK, AgesSound, HandlerType

\* The names of the constants' sets.
LEMMA Constants ==
    /\ MaxChanges \in Nat /\ MaxFaults \in Nat
    /\ "none" \notin Servers /\ "none" \notin Loads
BY FlagsAssumption DEF FlagsAssumption

\* Every copy of the flags has an age.
LEMMA Copies ==
    ASSUME FlagsTypeOK
    PROVE  /\ content \in Nat /\ content <= MaxChanges /\ all \in Int /\ client.flags \in Nat
           /\ \A k \in Keys : user[k] \in Int
           /\ \A l \in Loads : load[l].content \in Nat /\ load[l].generation \in Nat
           /\ \A q \in Requests : request[q].content \in Nat /\ request[q].key \in Keys
           /\ \A s \in Servers : server[s].generation \in Nat
           /\ counter["redis"] \in Nat /\ counter["fallback"] \in Nat
<1> USE Constants DEF FlagsTypeOK, Contents, Absent
<1>1. content \in Nat /\ content <= MaxChanges /\ all \in Int /\ client.flags \in Nat
  OBVIOUS
<1>2. \A k \in Keys : user[k] \in Int
  OBVIOUS
<1>3. \A l \in Loads : load[l].content \in Nat /\ load[l].generation \in Nat
  BY DEF LoadType
<1>4. \A q \in Requests : request[q].content \in Nat /\ request[q].key \in Keys
  BY DEF RequestType
<1>5. \A s \in Servers : server[s].generation \in Nat
  BY DEF ServerType
<1>6. counter["redis"] \in Nat /\ counter["fallback"] \in Nat
  OBVIOUS
<1> QED BY <1>1, <1>2, <1>3, <1>4, <1>5, <1>6

LEMMA BaseInit == Init => BaseInv
<1> SUFFICES ASSUME Init PROVE BaseInv
  OBVIOUS
<1>1. FlagsTypeOK
  BY Constants DEF Init, FlagsTypeOK, Contents, Changes, Absent, Keys, IdleHandler, HandlerType,
     FreshServer, ServerType, IdleLoad, LoadType, IdleRequest, RequestType
<1>2. AgesSound
  BY Constants DEF Init, AgesSound, Changes, Absent, IdleHandler, IdleLoad, IdleRequest
<1>3. CountsSound
  <2>1. Cardinality(Done) \in Nat /\ Cardinality(Begun) \in Nat
    BY ChangesFinite DEF Done, Begun
  <2> QED BY <2>1 DEF Init, CountsSound, FreshServer
<1>4. ReadersSound
  BY DEF Init, ReadersSound, FreshServer, IdleLoad, IdleRequest
<1> QED BY <1>1, <1>2, <1>3, <1>4 DEF BaseInv

\* A commit.
LEMMA CommitsBase ==
    ASSUME BaseInv, NEW s \in Servers, Commits(s)
    PROVE  BaseInv'
<1> USE Constants DEF Contents, Changes
<1>1. content \in Nat /\ content + 1 \in Changes /\ content + 1 \in Contents
  BY DEF BaseInv, FlagsTypeOK, Commits
<1>2. FlagsTypeOK'
  BY <1>1 DEF BaseInv, FlagsTypeOK, Commits, HandlerType, cachesUnchanged, readersUnchanged
<1>3. AgesSound'
  <2>1. \A n \in Changes : /\ handler'[n].pc = "idle" <=> n > content'
                           /\ handler'[n].server = "none" <=> handler'[n].pc = "idle"
    BY <1>1 DEF BaseInv, FlagsTypeOK, AgesSound, Commits
  <2>2. /\ content' = content + 1
        /\ UNCHANGED <<all, user, load, request, client>>
    BY DEF Commits, cachesUnchanged, readersUnchanged
  <2>3. /\ all' <= content' /\ client'.flags <= content'
        /\ \A k \in Keys : user'[k] <= content'
        /\ \A l \in Loads : load'[l].content <= content'
        /\ \A q \in Requests : request'[q].content <= content'
    BY <2>2, Copies DEF BaseInv, AgesSound
  <2> QED BY <2>1, <2>3 DEF AgesSound
<1>4. CountsSound'
  <2>1. handler[content + 1].pc = "idle"
    BY <1>1 DEF BaseInv, AgesSound
  <2>2. Done' = Done /\ Begun' = Begun
    BY <1>1, <2>1 DEF BaseInv, FlagsTypeOK, Commits, Done, Begun, HandlerType
  <2> QED BY <2>2 DEF BaseInv, CountsSound, Commits, cachesUnchanged
<1>5. ReadersSound'
  BY DEF BaseInv, ReadersSound, Commits, readersUnchanged
<1> QED BY <1>2, <1>3, <1>4, <1>5 DEF BaseInv

LEMMA EmitBase ==
    ASSUME BaseInv, NEW n \in Changes, Emit(n)
    PROVE  BaseInv'
<1>0. handler[n].server \in Servers /\ handler[n].pc = "committed"
  BY HandlerServer DEF BaseInv, Emit
<1>1. /\ handler' \in [Changes -> HandlerType]
      /\ \A m \in Changes : /\ handler'[m].server = handler[m].server
                            /\ m # n => handler'[m] = handler[m]
      /\ handler'[n].pc = "del"
  BY DEF BaseInv, FlagsTypeOK, Emit, HandlerType
<1>2. /\ Done' = Done /\ Begun' = Begun \cup {n} /\ n \notin Begun
      /\ Begun \in SUBSET Changes
  BY <1>0, <1>1 DEF Done, Begun
<1>3. /\ Cardinality(Begun') = Cardinality(Begun) + 1
      /\ Cardinality(Begun) + 1 <= MaxChanges
      /\ Cardinality(Begun) \in Nat
  BY <1>2, OneMore, ChangesFinite
<1>4. /\ \A s \in Servers : server[s].generation \in Nat /\ server[s].generation <= Cardinality(Begun)
  BY DEF BaseInv, FlagsTypeOK, ServerType, CountsSound, Contents
<1>5. FlagsTypeOK'
  <2>1. server[handler[n].server].generation + 1 \in Contents
    BY <1>0, <1>3, <1>4, Constants DEF Contents
  <2>2. server' \in [Servers -> ServerType]
    BY <1>0, <2>1 DEF BaseInv, FlagsTypeOK, Emit, Detach, ServerType
  <2> QED BY <1>1, <2>2 DEF BaseInv, FlagsTypeOK, Emit, cachesUnchanged, readersUnchanged
<1>6. AgesSound'
  BY <1>0, <1>1 DEF BaseInv, AgesSound, Emit, cachesUnchanged, readersUnchanged
<1>7. CountsSound'
  BY <1>0, <1>2, <1>3, <1>4 DEF BaseInv, FlagsTypeOK, CountsSound, Emit, Detach, ServerType, cachesUnchanged
<1>8. ReadersSound'
  BY <1>0, <1>4 DEF BaseInv, FlagsTypeOK, ReadersSound, Emit, Detach, ServerType, LoadType, Contents, readersUnchanged
<1> QED BY <1>5, <1>6, <1>7, <1>8 DEF BaseInv

LEMMA DropAllBase ==
    ASSUME BaseInv, NEW n \in Changes, DropAll(n)
    PROVE  BaseInv'
<1>1. /\ handler' \in [Changes -> HandlerType]
      /\ \A m \in Changes : /\ handler'[m].server = handler[m].server
                            /\ m # n => handler'[m] = handler[m]
      /\ handler[n].pc = "del" /\ handler'[n].pc = "bump"
  BY DEF BaseInv, FlagsTypeOK, DropAll, HandlerType
<1>2. Done' = Done /\ Begun' = Begun
  BY <1>1 DEF Done, Begun
<1>3. FlagsTypeOK'
  BY <1>1 DEF BaseInv, FlagsTypeOK, DropAll, readersUnchanged
<1>4. AgesSound'
  BY <1>1, Copies DEF BaseInv, AgesSound, DropAll, Absent, readersUnchanged
<1>5. CountsSound'
  BY <1>2 DEF BaseInv, CountsSound, DropAll
<1>6. ReadersSound'
  BY DEF BaseInv, ReadersSound, DropAll, readersUnchanged
<1> QED BY <1>3, <1>4, <1>5, <1>6 DEF BaseInv

\* A step of an instance that leaves its reload and its generation alone.
LEMMA SameReloads ==
    ASSUME ReadersSound, UNCHANGED <<load, request>>,
           \A s \in Servers : /\ server'[s].inFlight = server[s].inFlight
                              /\ server'[s].generation = server[s].generation
    PROVE  ReadersSound'
BY DEF ReadersSound

LEMMA BumpBase ==
    ASSUME BaseInv, NEW n \in Changes, Bump(n)
    PROVE  BaseInv'
<1>0. handler[n].server \in Servers
  BY HandlerServer DEF BaseInv, Bump
<1>1. /\ handler' \in [Changes -> HandlerType]
      /\ \A m \in Changes : /\ handler'[m].server = handler[m].server
                            /\ m # n => handler'[m] = handler[m]
      /\ handler[n].pc = "bump" /\ handler'[n].pc = "done"
  BY DEF BaseInv, FlagsTypeOK, Bump, HandlerType
<1>2. Done' = Done \cup {n} /\ n \notin Done /\ Begun' = Begun /\ Done \in SUBSET Changes
  BY <1>1 DEF Done, Begun
<1>3. /\ Cardinality(Done') = Cardinality(Done) + 1
      /\ Cardinality(Done) + 1 <= MaxChanges /\ Cardinality(Done) \in Nat
  BY <1>2, OneMore, ChangesFinite
<1>4. /\ server' \in [Servers -> ServerType]
      /\ \A s \in Servers : /\ server'[s].inFlight = server[s].inFlight
                            /\ server'[s].generation = server[s].generation
  BY <1>0 DEF BaseInv, FlagsTypeOK, Bump, ServerType
<1>5. PICK c \in {"redis", "fallback"} : counter' = [counter EXCEPT ![c] = @ + 1]
  BY DEF Bump, BumpOf
<1>6. /\ counter["redis"] \in Nat /\ counter["fallback"] \in Nat
      /\ counter["redis"] + counter["fallback"] <= Cardinality(Done)
      /\ counter["redis"] + counter["fallback"] + 1 <= MaxChanges
  BY <1>3, Copies, Constants DEF BaseInv, CountsSound
<1>7. /\ counter' \in [{"redis", "fallback"} -> Contents]
      /\ counter'["redis"] + counter'["fallback"] = counter["redis"] + counter["fallback"] + 1
  BY <1>5, <1>6, Constants DEF BaseInv, FlagsTypeOK, Contents
<1>8. faults' \in 0..MaxFaults
  BY Constants DEF BaseInv, FlagsTypeOK, Bump, Fault
<1>9. FlagsTypeOK'
  BY <1>1, <1>4, <1>7, <1>8 DEF BaseInv, FlagsTypeOK, Bump, readersUnchanged
<1>10. AgesSound'
  BY <1>1 DEF BaseInv, AgesSound, Bump, readersUnchanged
<1>11. CountsSound'
  BY <1>2, <1>3, <1>4, <1>6, <1>7 DEF BaseInv, CountsSound
<1>12. ReadersSound'
  BY <1>4, SameReloads DEF BaseInv, Bump, readersUnchanged
<1> QED BY <1>9, <1>10, <1>11, <1>12 DEF BaseInv

LEMMA BroadcastBase ==
    ASSUME BaseInv, NEW s \in Servers, Broadcast(s)
    PROVE  BaseInv'
<1>1. /\ server' \in [Servers -> ServerType]
      /\ \A t \in Servers : /\ server'[t].inFlight = server[t].inFlight
                            /\ server'[t].generation = server[t].generation
  BY DEF BaseInv, FlagsTypeOK, Broadcast, ServerType
<1>2. /\ client' \in [stream : Servers \cup {"none"}, pushed : BOOLEAN, flags : Contents]
      /\ client'.flags = client.flags
  BY DEF BaseInv, FlagsTypeOK, Broadcast
<1>3. FlagsTypeOK'
  BY <1>1, <1>2 DEF BaseInv, FlagsTypeOK, Broadcast, adminUnchanged, cachesUnchanged, readersUnchanged
<1>4. AgesSound'
  BY <1>2 DEF BaseInv, AgesSound, Broadcast, adminUnchanged, cachesUnchanged, readersUnchanged
<1>5. CountsSound'
  BY <1>1 DEF BaseInv, CountsSound, Broadcast, Done, Begun, adminUnchanged, cachesUnchanged
<1>6. ReadersSound'
  BY <1>1, SameReloads DEF BaseInv, Broadcast, readersUnchanged
<1> QED BY <1>3, <1>4, <1>5, <1>6 DEF BaseInv

\* A step of one evaluation that starts no wait.
LEMMA RequestBase ==
    ASSUME BaseInv, NEW q \in Requests, NEW r \in RequestType,
           request' = [request EXCEPT ![q] = r],
           r.content <= content, r.load = "none", r.pc # "wait",
           r.pc = "idle" <=> r.server = "none", r.live => r.pc # "idle",
           UNCHANGED <<content, handler, all, counter, server, load>>,
           user' \in [Keys -> Contents \cup {Absent}], \A k \in Keys : user'[k] <= content,
           client' \in [stream : Servers \cup {"none"}, pushed : BOOLEAN, flags : Contents],
           client'.flags <= content, faults' \in 0..MaxFaults
    PROVE  BaseInv'
<1>1. FlagsTypeOK'
  BY DEF BaseInv, FlagsTypeOK
<1>2. \A p \in Requests : request'[p] = IF p = q THEN r ELSE request[p]
  BY DEF BaseInv, FlagsTypeOK
<1>3. AgesSound'
  BY <1>2 DEF BaseInv, AgesSound
<1>4. CountsSound'
  BY DEF BaseInv, CountsSound, Done, Begun
<1>5. ReadersSound'
  BY <1>2 DEF BaseInv, ReadersSound
<1> QED BY <1>1, <1>3, <1>4, <1>5 DEF BaseInv

\* What an evaluation, the browser and the faults are between steps.
LEMMA RequestFacts ==
    ASSUME BaseInv, NEW q \in Requests
    PROVE  /\ request[q] \in RequestType /\ request[q].content <= content
           /\ request[q].pc # "idle" => request[q].server \in Servers
           /\ request[q].pc # "wait" <=> request[q].load = "none"
           /\ user \in [Keys -> Contents \cup {Absent}] /\ \A k \in Keys : user[k] <= content
           /\ client \in [stream : Servers \cup {"none"}, pushed : BOOLEAN, flags : Contents]
           /\ client.flags <= content /\ faults \in 0..MaxFaults
BY DEF BaseInv, FlagsTypeOK, AgesSound, ReadersSound, RequestType

LEMMA GetUserBase ==
    ASSUME BaseInv, NEW q \in Requests, GetUser(q)
    PROVE  BaseInv'
<1> DEFINE hit == user[request[q].key]
           r == IF hit # Absent THEN [request[q] EXCEPT !.pc = "answer", !.content = hit]
                                ELSE [request[q] EXCEPT !.pc = "all"]
<1>1. request[q].pc = "user" /\ request' = [request EXCEPT ![q] = r]
  BY DEF GetUser, BaseInv, FlagsTypeOK
<1>2. hit \in Contents \cup {Absent} /\ hit <= content
  BY Copies DEF BaseInv, FlagsTypeOK, AgesSound
<1>3. r \in RequestType
  BY <1>2, RequestFacts DEF RequestType
<1>4. /\ r.content <= content /\ r.load = "none" /\ r.pc \notin {"wait", "idle"}
      /\ r.server \in Servers
  BY <1>1, <1>2, RequestFacts DEF RequestType
<1> HIDE DEF r
<1>5. r.server # "none"
  BY <1>4, Constants
<1> QED BY <1>1, <1>3, <1>4, <1>5, RequestFacts, RequestBase DEF GetUser, adminUnchanged, cachesUnchanged

\* A list that an evaluation has received.
LEMMA ReceivedFacts ==
    ASSUME BaseInv, NEW q \in Requests, request[q].pc # "idle", NEW list \in Contents,
           list <= content
    PROVE  /\ Received(request[q], list) \in RequestType
           /\ Received(request[q], list).content = list
           /\ Received(request[q], list).pc = "store"
           /\ Received(request[q], list).load = "none"
           /\ Received(request[q], list).server \in Servers
           /\ Received(request[q], list).server # "none"
           /\ Received(request[q], list).key = request[q].key
           /\ Received(request[q], list).live = request[q].live
           /\ Received(request[q], list).server = request[q].server
BY RequestFacts, Constants DEF Received, RequestType

LEMMA GetAllBase ==
    ASSUME BaseInv, NEW q \in Requests, GetAll(q)
    PROVE  BaseInv'
<1> DEFINE s == request[q].server
<1>0. /\ request[q] \in RequestType /\ s \in Servers /\ s # "none" /\ request[q].pc = "all"
      /\ request[q].load = "none" /\ request[q].content <= content
  BY RequestFacts, Constants DEF GetAll
<1>1. CASE all # Absent /\ request' = [request EXCEPT ![q] = Received(@, all)] /\ UNCHANGED <<server, load>>
  <2>1. all \in Contents /\ all <= content
    BY <1>1 DEF BaseInv, FlagsTypeOK, AgesSound
  <2>2. request' = [request EXCEPT ![q] = Received(request[q], all)]
    BY <1>1 DEF BaseInv, FlagsTypeOK
  <2> DEFINE r == Received(request[q], all)
  <2>3. /\ r \in RequestType /\ r.content = all /\ r.pc = "store" /\ r.load = "none"
        /\ r.server # "none"
    BY <1>0, <2>1, ReceivedFacts
  <2>4. UNCHANGED <<content, handler, all, counter, user, client, faults>>
    BY DEF GetAll, adminUnchanged, cachesUnchanged
  <2> HIDE DEF r
  <2> QED BY <1>1, <2>1, <2>2, <2>3, <2>4, RequestFacts, RequestBase DEF r
<1>2. CASE /\ all = Absent /\ server[s].inFlight # "none"
           /\ request' = [request EXCEPT ![q].pc = "wait", ![q].load = server[s].inFlight]
           /\ UNCHANGED <<server, load>>
  <2>1. server[s].inFlight \in Loads /\ load[server[s].inFlight].pc # "idle" /\ load[server[s].inFlight].server = s
    BY <1>0, <1>2 DEF BaseInv, FlagsTypeOK, ServerType, ReadersSound
  <2>2. /\ \A p \in Requests : p # q => request'[p] = request[p]
        /\ request'[q] = [request[q] EXCEPT !.pc = "wait", !.load = server[s].inFlight]
        /\ request' \in [Requests -> RequestType]
    BY <1>0, <1>2, <2>1 DEF BaseInv, FlagsTypeOK, RequestType
  <2>3. /\ request'[q].pc = "wait" /\ request'[q].load = server[s].inFlight /\ request'[q].server = s
        /\ request'[q].content = request[q].content
    BY <1>0, <2>2 DEF RequestType
  <2>4. FlagsTypeOK'
    BY <1>2, <2>2 DEF BaseInv, FlagsTypeOK, GetAll, adminUnchanged, cachesUnchanged
  <2>5. AgesSound'
    BY <1>0, <1>2, <2>2, <2>3 DEF BaseInv, AgesSound, GetAll, adminUnchanged, cachesUnchanged
  <2>6. CountsSound'
    BY <1>2 DEF BaseInv, CountsSound, Done, Begun, GetAll, adminUnchanged, cachesUnchanged
  <2>7. ReadersSound'
    BY <1>0, <1>2, <2>1, <2>2, <2>3, Constants DEF BaseInv, ReadersSound
  <2> QED BY <2>4, <2>5, <2>6, <2>7 DEF BaseInv
<1>3. ASSUME all = Absent, server[s].inFlight = "none", NEW l \in Loads, load[l].pc = "idle",
             load' = [load EXCEPT ![l] = [pc |-> "find", server |-> s,
                          generation |-> server[s].generation, content |-> 0]],
             server' = [server EXCEPT ![s].inFlight = l],
             request' = [request EXCEPT ![q].pc = "wait", ![q].load = l]
      PROVE  BaseInv'
  <2>0. l # "none"
    BY Constants
  <2>1. /\ \A m \in Loads : m # l => load'[m] = load[m]
        /\ load'[l].pc = "find" /\ load'[l].server = s /\ load'[l].content = 0
        /\ load'[l].generation = server[s].generation
        /\ load' \in [Loads -> LoadType]
    BY <1>0, <1>3, Constants DEF BaseInv, FlagsTypeOK, LoadType, ServerType, Contents
  <2>2. /\ \A t \in Servers : /\ t # s => server'[t] = server[t]
                              /\ server'[t].generation = server[t].generation
        /\ server'[s].inFlight = l
        /\ server' \in [Servers -> ServerType]
    BY <1>0, <1>3 DEF BaseInv, FlagsTypeOK, ServerType
  <2>3. /\ \A p \in Requests : p # q => request'[p] = request[p]
        /\ request'[q] = [request[q] EXCEPT !.pc = "wait", !.load = l]
        /\ request' \in [Requests -> RequestType]
    BY <1>0, <1>3 DEF BaseInv, FlagsTypeOK, RequestType
  <2>4. /\ request'[q].pc = "wait" /\ request'[q].load = l /\ request'[q].server = s
        /\ request'[q].content = request[q].content
    BY <1>0, <2>3 DEF RequestType
  <2>5. FlagsTypeOK'
    BY <2>1, <2>2, <2>3 DEF BaseInv, FlagsTypeOK, GetAll, adminUnchanged, cachesUnchanged
  <2>6. AgesSound'
    <3>1. UNCHANGED <<content, handler, all, user, client>>
      BY DEF GetAll, adminUnchanged, cachesUnchanged
    <3>2. \A m \in Loads : load'[m].content <= content
      BY <2>1, Copies DEF BaseInv, AgesSound
    <3>3. \A p \in Requests : request'[p].content <= content
      BY <1>0, <2>3, <2>4 DEF BaseInv, AgesSound
    <3> QED BY <3>1, <3>2, <3>3 DEF BaseInv, AgesSound
  <2>7. CountsSound'
    BY <2>2 DEF BaseInv, CountsSound, Done, Begun, GetAll, adminUnchanged, cachesUnchanged
  <2>8. ReadersSound'
    <3>1. \A m \in Loads : load'[m].pc # "idle" =>
              /\ load'[m].server \in Servers
              /\ load'[m].generation <= server'[load'[m].server].generation
      BY <1>0, <2>1, <2>2, Copies DEF BaseInv, ReadersSound
    <3>2. \A t \in Servers : server'[t].inFlight # "none" =>
              /\ load'[server'[t].inFlight].pc # "idle" /\ load'[server'[t].inFlight].server = t
              /\ load'[server'[t].inFlight].generation = server'[t].generation
      <4> SUFFICES ASSUME NEW t \in Servers, server'[t].inFlight # "none"
                   PROVE  /\ load'[server'[t].inFlight].pc # "idle"
                          /\ load'[server'[t].inFlight].server = t
                          /\ load'[server'[t].inFlight].generation = server'[t].generation
        OBVIOUS
      <4>1. CASE t = s
        BY <4>1, <2>1, <2>2
      <4>2. CASE t # s
        <5>1. server'[t] = server[t] /\ server[t].inFlight \in Loads /\ server[t].inFlight # l
          BY <1>3, <4>2, <2>2 DEF BaseInv, FlagsTypeOK, ServerType, ReadersSound
        <5> QED BY <5>1, <2>1 DEF BaseInv, ReadersSound
      <4> QED BY <4>1, <4>2
    <3>3. \A p \in Requests : request[p].load # l
      BY <1>3, <2>0 DEF BaseInv, ReadersSound
    <3>4. \A p \in Requests :
              /\ request'[p].pc = "idle" <=> request'[p].server = "none"
              /\ request'[p].live => request'[p].pc # "idle"
              /\ request'[p].pc = "wait" <=> request'[p].load # "none"
      <4>1. request'[q].server # "none" /\ request'[q].pc = "wait" /\ request'[q].load # "none"
        BY <1>0, <2>0, <2>4
      <4>2. \A p \in Requests : p # q => request'[p] = request[p]
        BY <2>3
      <4> QED BY <4>1, <4>2 DEF BaseInv, ReadersSound
    <3>5. \A p \in Requests : request'[p].load # "none" =>
              /\ load'[request'[p].load].pc # "idle"
              /\ load'[request'[p].load].server = request'[p].server
      <4> SUFFICES ASSUME NEW p \in Requests, request'[p].load # "none"
                   PROVE  /\ load'[request'[p].load].pc # "idle"
                          /\ load'[request'[p].load].server = request'[p].server
        OBVIOUS
      <4>1. CASE p = q
        BY <4>1, <2>1, <2>4
      <4>2. CASE p # q
        <5>1. request'[p] = request[p] /\ request[p].load \in Loads /\ request[p].load # l
          BY <4>2, <2>3, <3>3 DEF BaseInv, FlagsTypeOK, RequestType
        <5> QED BY <5>1, <2>1 DEF BaseInv, ReadersSound
      <4> QED BY <4>1, <4>2
    <3> QED BY <3>1, <3>2, <3>4, <3>5 DEF ReadersSound
  <2> QED BY <2>5, <2>6, <2>7, <2>8 DEF BaseInv
<1> QED BY <1>1, <1>2, <1>3 DEF GetAll

LEMMA LoadFindBase ==
    ASSUME BaseInv, NEW l \in Loads, LoadFind(l)
    PROVE  BaseInv'
<1>1. /\ load' \in [Loads -> LoadType] /\ load[l].pc = "find"
      /\ \A m \in Loads : /\ load'[m].server = load[m].server
                          /\ load'[m].generation = load[m].generation
                          /\ m # l => load'[m] = load[m]
      /\ load'[l].pc = "rules" /\ load'[l].content = content
  BY DEF BaseInv, FlagsTypeOK, LoadFind, LoadType
<1>2. UNCHANGED <<content, handler, all, counter, user, server, request, client, faults>>
  BY DEF LoadFind, adminUnchanged, cachesUnchanged
<1>3. FlagsTypeOK'
  BY <1>1, <1>2 DEF BaseInv, FlagsTypeOK
<1>4. AgesSound'
  BY <1>1, <1>2, Copies DEF BaseInv, AgesSound
<1>5. CountsSound'
  BY <1>2 DEF BaseInv, CountsSound, Done, Begun
<1>6. \A m \in Loads : load'[m].pc = "idle" <=> load[m].pc = "idle"
  BY <1>1
<1>7. \A s \in Servers : server[s].inFlight \in Loads \cup {"none"}
  BY DEF BaseInv, FlagsTypeOK, ServerType
<1>8. \A q \in Requests : request[q].load \in Loads \cup {"none"}
  BY DEF BaseInv, FlagsTypeOK, RequestType
<1>9. ReadersSound'
  BY <1>1, <1>2, <1>6, <1>7, <1>8 DEF BaseInv, ReadersSound
<1> QED BY <1>3, <1>4, <1>5, <1>9 DEF BaseInv

LEMMA LoadDoneBase ==
    ASSUME BaseInv, NEW l \in Loads, LoadDone(l)
    PROVE  BaseInv'
<1> DEFINE s == load[l].server
<1>0. /\ load[l].pc = "rules" /\ s \in Servers /\ l # "none"
      /\ load[l].content \in Contents /\ load[l].content <= content
  BY Constants DEF BaseInv, FlagsTypeOK, AgesSound, ReadersSound, LoadDone, LoadType
<1>1. /\ load' \in [Loads -> LoadType]
      /\ load'[l] = IdleLoad /\ \A m \in Loads : m # l => load'[m] = load[m]
  BY Constants DEF BaseInv, FlagsTypeOK, LoadDone, LoadType, IdleLoad, Contents
<1>2. /\ server' \in [Servers -> ServerType]
      /\ \A t \in Servers : /\ server'[t].generation = server[t].generation
                            /\ server'[t].inFlight # l
                            /\ server'[t].inFlight # "none" => server'[t].inFlight = server[t].inFlight
  <2>1. \A t \in Servers : server[t].inFlight = l => t = s
    BY <1>0 DEF BaseInv, ReadersSound
  <2> QED BY <1>0, <2>1 DEF BaseInv, FlagsTypeOK, LoadDone, ServerType
<1>3. /\ all' \in Contents \cup {Absent} /\ all' <= content
  BY <1>0 DEF BaseInv, FlagsTypeOK, AgesSound, LoadDone
<1>4. UNCHANGED <<content, handler, counter, user, client, faults>>
  BY DEF LoadDone, adminUnchanged
<1>5. \A q \in Requests : request'[q] = IF request[q].load = l
                                        THEN Received(request[q], load[l].content) ELSE request[q]
  BY DEF LoadDone
<1>6. \A q \in Requests : request[q].load = l => request[q].pc = "wait"
  BY <1>0 DEF BaseInv, ReadersSound
<1>7. \A q \in Requests :
          /\ request'[q] \in RequestType /\ request'[q].content <= content
          /\ request'[q].pc = "idle" <=> request'[q].server = "none"
          /\ request'[q].live => request'[q].pc # "idle"
          /\ request'[q].pc = "wait" <=> request'[q].load # "none"
          /\ request'[q].load # "none" => /\ request'[q] = request[q]
                                          /\ request[q].load \in Loads /\ request[q].load # l
  <2> SUFFICES ASSUME NEW q \in Requests
               PROVE  /\ request'[q] \in RequestType /\ request'[q].content <= content
                      /\ request'[q].pc = "idle" <=> request'[q].server = "none"
                      /\ request'[q].live => request'[q].pc # "idle"
                      /\ request'[q].pc = "wait" <=> request'[q].load # "none"
                      /\ request'[q].load # "none" => /\ request'[q] = request[q]
                                                      /\ request[q].load \in Loads
                                                      /\ request[q].load # l
    OBVIOUS
  <2>1. CASE request[q].load = l
    BY <1>0, <1>5, <1>6, <2>1, ReceivedFacts
  <2>2. CASE request[q].load # l
    BY <1>5, <2>2 DEF BaseInv, FlagsTypeOK, AgesSound, ReadersSound, RequestType
  <2> QED BY <2>1, <2>2
<1>8. request' \in [Requests -> RequestType]
  BY <1>7 DEF LoadDone
<1>9. FlagsTypeOK'
  BY <1>1, <1>2, <1>3, <1>4, <1>8 DEF BaseInv, FlagsTypeOK
<1>10. AgesSound'
  <2>1. \A m \in Loads : load'[m].content <= content
    BY <1>1, Copies DEF BaseInv, AgesSound, IdleLoad
  <2> QED BY <1>3, <1>4, <1>7, <2>1 DEF BaseInv, AgesSound
<1>11. CountsSound'
  BY <1>2, <1>4 DEF BaseInv, CountsSound, Done, Begun
<1>12. ReadersSound'
  <2>1. \A m \in Loads : load'[m].pc # "idle" => m # l /\ load'[m] = load[m]
    BY <1>1 DEF IdleLoad
  <2>2. \A m \in Loads : load'[m].pc # "idle" =>
            /\ load'[m].server \in Servers
            /\ load'[m].generation <= server'[load'[m].server].generation
    BY <1>2, <2>1 DEF BaseInv, ReadersSound
  <2>3. \A t \in Servers : server'[t].inFlight # "none" =>
            /\ server[t].inFlight = server'[t].inFlight
            /\ load'[server'[t].inFlight] = load[server[t].inFlight]
    BY <1>1, <1>2 DEF BaseInv, FlagsTypeOK, ServerType
  <2>4. \A t \in Servers : server'[t].inFlight # "none" =>
            /\ load'[server'[t].inFlight].pc # "idle" /\ load'[server'[t].inFlight].server = t
            /\ load'[server'[t].inFlight].generation = server'[t].generation
    BY <1>2, <2>3 DEF BaseInv, ReadersSound
  <2>5. \A q \in Requests : request'[q].load # "none" =>
            /\ load'[request'[q].load].pc # "idle"
            /\ load'[request'[q].load].server = request'[q].server
    BY <1>1, <1>7 DEF BaseInv, ReadersSound
  <2> QED BY <1>7, <2>2, <2>4, <2>5 DEF ReadersSound
<1> QED BY <1>9, <1>10, <1>11, <1>12 DEF BaseInv

LEMMA StoreBase ==
    ASSUME BaseInv, NEW q \in Requests, Store(q)
    PROVE  BaseInv'
<1> DEFINE r == [request[q] EXCEPT !.pc = "answer"]
<1>1. /\ request[q].pc = "store" /\ request[q] \in RequestType /\ request[q].content <= content
      /\ request[q].server \in Servers /\ request[q].load = "none"
  BY RequestFacts DEF Store
<1>2. request' = [request EXCEPT ![q] = r]
  BY DEF Store
<1>3. /\ r \in RequestType /\ r.content <= content /\ r.load = "none" /\ r.pc = "answer"
      /\ r.server # "none"
  BY <1>1, Constants DEF RequestType
<1>4. /\ user' \in [Keys -> Contents \cup {Absent}] /\ \A k \in Keys : user'[k] <= content
  <2>1. request[q].key \in Keys /\ request[q].content \in Contents
    BY <1>1 DEF RequestType
  <2> QED BY <1>1, <2>1, RequestFacts DEF Store
<1>5. UNCHANGED <<content, handler, all, counter, server, load, client, faults>>
  BY DEF Store, adminUnchanged
<1> HIDE DEF r
<1> QED BY <1>2, <1>3, <1>4, <1>5, RequestFacts, RequestBase

LEMMA AnswerBase ==
    ASSUME BaseInv, NEW q \in Requests, Answer(q) \/ FetchFails(q)
    PROVE  BaseInv'
<1>1. request' = [request EXCEPT ![q] = IdleRequest]
  BY DEF Answer, FetchFails
<1>2. /\ IdleRequest \in RequestType /\ IdleRequest.content <= content /\ IdleRequest.load = "none"
      /\ IdleRequest.pc = "idle" /\ IdleRequest.server = "none" /\ ~IdleRequest.live
  BY Copies, Constants DEF IdleRequest, RequestType, Keys, Contents, BaseInv
<1>3. UNCHANGED <<content, handler, all, counter, server, load, user>>
  BY DEF Answer, FetchFails, adminUnchanged, cachesUnchanged
<1>4. /\ client' \in [stream : Servers \cup {"none"}, pushed : BOOLEAN, flags : Contents]
      /\ client'.flags <= content
  <2>1. request[q].content \in Contents /\ request[q].content <= content
    BY RequestFacts DEF RequestType
  <2>2. client' = client \/ client' = [client EXCEPT !.flags = request[q].content]
    BY DEF Answer, FetchFails
  <2> QED BY <2>1, <2>2, RequestFacts
<1>5. faults' \in 0..MaxFaults
  BY RequestFacts, Constants DEF Answer, FetchFails, Fault
<1> QED BY <1>1, <1>2, <1>3, <1>4, <1>5, RequestFacts, RequestBase

\* What a fetch leaves of the requests.
LEMMA FetchFacts ==
    ASSUME BaseInv, Fetch
    PROVE  \E q \in Requests, s \in Servers, which \in {"redis", "fallback"} :
              /\ request[q].pc = "idle"
              /\ request' = [Outdated EXCEPT ![q] = Begins(s, which)]
              /\ request' \in [Requests -> RequestType]
              /\ request'[q] = Begins(s, which)
              /\ \A p \in Requests : p # q => request'[p] = [request[p] EXCEPT !.live = FALSE]
              /\ IF which = "redis" THEN faults' = faults ELSE faults' = faults + 1
              /\ faults' \in 0..MaxFaults
<1>1. PICK q \in Requests, s \in Servers, which \in {"redis", "fallback"} :
          /\ request[q].pc = "idle"
          /\ request' = [Outdated EXCEPT ![q] = Begins(s, which)]
          /\ IF which = "redis" THEN faults' = faults ELSE Fault
  BY DEF Fetch
<1>2. Begins(s, which) \in RequestType
  <2>1. counter[which] \in Contents
    BY DEF BaseInv, FlagsTypeOK
  <2>2. <<which, counter[which]>> \in Keys /\ 0 \in Contents
    BY <2>1, Constants DEF Keys, Contents
  <2>3. ASSUME NEW k \in Keys
        PROVE  [IdleRequest EXCEPT !.pc = "user", !.live = TRUE, !.server = s, !.key = k]
                   \in RequestType
    BY <2>2, <2>3 DEF IdleRequest, RequestType
  <2> QED BY <2>2, <2>3 DEF Begins
<1>3. \A p \in Requests : [request[p] EXCEPT !.live = FALSE] \in RequestType
  BY DEF BaseInv, FlagsTypeOK, RequestType
<1>4. Outdated \in [Requests -> RequestType]
  BY <1>3 DEF Outdated
<1>5. faults' \in 0..MaxFaults
  BY <1>1, Constants DEF BaseInv, FlagsTypeOK, Fault
<1>6. /\ request' \in [Requests -> RequestType]
      /\ request'[q] = Begins(s, which)
      /\ \A p \in Requests : p # q => request'[p] = [request[p] EXCEPT !.live = FALSE]
  BY <1>1, <1>2, <1>4 DEF Outdated
<1> QED BY <1>1, <1>5, <1>6 DEF Fault

LEMMA FetchBase ==
    ASSUME BaseInv, Refetch \/ Pushed
    PROVE  BaseInv'
<1>1. UNCHANGED <<content, handler, all, counter, server, load, user>>
  BY DEF Refetch, Pushed, adminUnchanged, cachesUnchanged
<1>2. /\ client' \in [stream : Servers \cup {"none"}, pushed : BOOLEAN, flags : Contents]
      /\ client'.flags = client.flags
  BY DEF Refetch, Pushed, BaseInv, FlagsTypeOK
<1> Fetch
  BY DEF Refetch, Pushed
<1>3. PICK q \in Requests, s \in Servers, which \in {"redis", "fallback"} :
          /\ request[q].pc = "idle"
          /\ request' = [Outdated EXCEPT ![q] = Begins(s, which)]
          /\ request' \in [Requests -> RequestType]
          /\ request'[q] = Begins(s, which)
          /\ \A p \in Requests : p # q => request'[p] = [request[p] EXCEPT !.live = FALSE]
          /\ IF which = "redis" THEN faults' = faults ELSE faults' = faults + 1
          /\ faults' \in 0..MaxFaults
  BY FetchFacts
<1>4. /\ request'[q].content = 0 /\ request'[q].load = "none" /\ request'[q].server = s /\ s # "none"
      /\ request'[q].pc = "user"
  BY <1>3, Constants DEF Begins, IdleRequest
<1>5. \A p \in Requests : p # q =>
          /\ request'[p].content = request[p].content /\ request'[p].load = request[p].load
          /\ request'[p].server = request[p].server /\ request'[p].pc = request[p].pc
          /\ ~request'[p].live
  BY <1>3 DEF BaseInv, FlagsTypeOK, RequestType
<1>6. FlagsTypeOK'
  BY <1>1, <1>2, <1>3 DEF BaseInv, FlagsTypeOK
<1>7. AgesSound'
  <2>1. \A p \in Requests : request'[p].content <= content
    BY <1>4, <1>5, Copies DEF BaseInv, AgesSound
  <2> QED BY <1>1, <1>2, <2>1 DEF BaseInv, AgesSound
<1>8. CountsSound'
  BY <1>1 DEF BaseInv, CountsSound, Done, Begun
<1>9. ReadersSound'
  <2>1. \A p \in Requests :
            /\ request'[p].pc = "idle" <=> request'[p].server = "none"
            /\ request'[p].live => request'[p].pc # "idle"
            /\ request'[p].pc = "wait" <=> request'[p].load # "none"
            /\ request'[p].load # "none" =>
                  /\ load[request'[p].load].pc # "idle"
                  /\ load[request'[p].load].server = request'[p].server
    <3> SUFFICES ASSUME NEW p \in Requests
                 PROVE  /\ request'[p].pc = "idle" <=> request'[p].server = "none"
                        /\ request'[p].live => request'[p].pc # "idle"
                        /\ request'[p].pc = "wait" <=> request'[p].load # "none"
                        /\ request'[p].load # "none" =>
                              /\ load[request'[p].load].pc # "idle"
                              /\ load[request'[p].load].server = request'[p].server
      OBVIOUS
    <3>1. CASE p = q
      BY <1>4, <3>1
    <3>2. CASE p # q
      BY <1>5, <3>2 DEF BaseInv, ReadersSound
    <3> QED BY <3>1, <3>2
  <2> QED BY <1>1, <2>1 DEF BaseInv, ReadersSound
<1> QED BY <1>6, <1>7, <1>8, <1>9 DEF BaseInv

\* Steps of the stream and of expiring entries.
LEMMA QuietBase ==
    ASSUME BaseInv,
           \/ ExpireAll \/ (\E k \in Keys : ExpireUser(k))
           \/ DropStream \/ (\E s \in Servers : Connect(s)) \/ UNCHANGED vars
    PROVE  BaseInv'
<1>1. UNCHANGED <<content, handler, counter, server, load, request>>
  BY DEF ExpireAll, ExpireUser, DropStream, Connect, vars, adminUnchanged, cachesUnchanged, readersUnchanged
<1>2. all' \in Contents \cup {Absent} /\ all' <= content
  <2>1. all' = all \/ all' = Absent
    BY DEF ExpireAll, ExpireUser, DropStream, Connect, vars, cachesUnchanged
  <2> QED BY <2>1, Copies DEF BaseInv, FlagsTypeOK, AgesSound, Absent
<1>3. user' \in [Keys -> Contents \cup {Absent}] /\ \A k \in Keys : user'[k] <= content
  <2>1. user' = user \/ \E k \in Keys : user' = [user EXCEPT ![k] = Absent]
    BY DEF ExpireAll, ExpireUser, DropStream, Connect, vars, cachesUnchanged
  <2>2. Absent <= content
    BY Copies DEF BaseInv, Absent
  <2> QED BY <2>1, <2>2 DEF BaseInv, FlagsTypeOK, AgesSound
<1>4. /\ client' \in [stream : Servers \cup {"none"}, pushed : BOOLEAN, flags : Contents]
      /\ client'.flags = client.flags
  BY DEF ExpireAll, ExpireUser, DropStream, Connect, vars, BaseInv, FlagsTypeOK
<1>5. faults' \in 0..MaxFaults
  BY Constants DEF ExpireAll, ExpireUser, DropStream, Connect, vars, BaseInv, FlagsTypeOK, Fault
<1>6. FlagsTypeOK'
  BY <1>1, <1>2, <1>3, <1>4, <1>5 DEF BaseInv, FlagsTypeOK
<1>7. AgesSound'
  BY <1>1, <1>2, <1>3, <1>4 DEF BaseInv, AgesSound
<1>8. CountsSound'
  BY <1>1 DEF BaseInv, CountsSound, Done, Begun
<1>9. ReadersSound'
  BY <1>1 DEF BaseInv, ReadersSound
<1> QED BY <1>6, <1>7, <1>8, <1>9 DEF BaseInv

LEMMA CrashBase ==
    ASSUME BaseInv, NEW s \in Servers, Crash(s)
    PROVE  BaseInv'
<1>1. /\ handler' \in [Changes -> HandlerType]
      /\ \A n \in Changes : /\ handler'[n].server = handler[n].server
                            /\ handler'[n].pc = handler[n].pc \/ handler'[n].pc = "lost"
                            /\ handler'[n].pc = "idle" <=> handler[n].pc = "idle"
                            /\ handler'[n].pc = "done" <=> handler[n].pc = "done"
  <2>0. s # "none"
    BY Constants
  <2> QED BY <2>0 DEF BaseInv, FlagsTypeOK, AgesSound, Crash, HandlerType
<1>2. Done' = Done /\ Begun \in SUBSET Changes /\ Begun' \in SUBSET Changes /\ Begun \subseteq Begun'
  BY <1>1 DEF Done, Begun
<1>3. /\ Cardinality(Begun) <= Cardinality(Begun')
      /\ Cardinality(Begun) \in Nat /\ Cardinality(Begun') \in Nat
  BY <1>2, NoFewer, ChangesFinite
<1>4. /\ server' \in [Servers -> ServerType]
      /\ server'[s] = FreshServer
      /\ \A t \in Servers : t # s => server'[t] = server[t]
  BY Constants DEF BaseInv, FlagsTypeOK, Crash, ServerType, FreshServer, Contents
<1>5. \A l \in Loads : load'[l] = IF load[l].server = s THEN IdleLoad ELSE load[l]
  BY DEF Crash
<1>6. IdleLoad \in LoadType /\ IdleRequest \in RequestType
  BY Constants DEF IdleLoad, IdleRequest, LoadType, RequestType, Keys, Contents
<1>7. load' \in [Loads -> LoadType]
  BY <1>5, <1>6 DEF BaseInv, FlagsTypeOK, Crash
<1>8. \A q \in Requests : request'[q] = IF request[q].server = s THEN IdleRequest ELSE request[q]
  BY DEF Crash
<1>9. request' \in [Requests -> RequestType]
  BY <1>6, <1>8 DEF BaseInv, FlagsTypeOK, Crash
<1>10. /\ client' \in [stream : Servers \cup {"none"}, pushed : BOOLEAN, flags : Contents]
       /\ client'.flags = client.flags
  BY DEF BaseInv, FlagsTypeOK, Crash
<1>11. faults' \in 0..MaxFaults
  BY Constants DEF BaseInv, FlagsTypeOK, Crash, Fault
<1>12. UNCHANGED <<content, all, counter, user>>
  BY DEF Crash, cachesUnchanged
<1>13. FlagsTypeOK'
  BY <1>1, <1>4, <1>7, <1>9, <1>10, <1>11, <1>12 DEF BaseInv, FlagsTypeOK
<1>14. AgesSound'
  <2>1. \A l \in Loads : load'[l].content <= content
    BY <1>5, Copies DEF BaseInv, AgesSound, IdleLoad
  <2>2. \A q \in Requests : request'[q].content <= content
    BY <1>8, Copies DEF BaseInv, AgesSound, IdleRequest
  <2> QED BY <1>1, <1>10, <1>12, <2>1, <2>2 DEF BaseInv, AgesSound
<1>15. CountsSound'
  <2>1. \A t \in Servers : server'[t].generation <= Cardinality(Begun')
    <3>1. server'[s].generation = 0
      BY <1>4 DEF FreshServer
    <3> QED BY <1>3, <1>4, <3>1, Copies DEF BaseInv, CountsSound
  <2> QED BY <1>2, <1>12, <2>1 DEF BaseInv, CountsSound
<1>16. ReadersSound'
  <2>1. \A l \in Loads : load'[l].pc # "idle" => load[l].server # s /\ load'[l] = load[l]
    BY <1>5 DEF IdleLoad
  <2>2. \A l \in Loads : load'[l].pc # "idle" =>
            /\ load'[l].server \in Servers
            /\ load'[l].generation <= server'[load'[l].server].generation
    BY <1>4, <2>1 DEF BaseInv, ReadersSound
  <2>3. \A t \in Servers : server'[t].inFlight # "none" =>
            /\ t # s /\ server'[t] = server[t] /\ server[t].inFlight \in Loads
            /\ load'[server[t].inFlight] = load[server[t].inFlight]
    <3> SUFFICES ASSUME NEW t \in Servers, server'[t].inFlight # "none"
                 PROVE  /\ t # s /\ server'[t] = server[t] /\ server[t].inFlight \in Loads
                        /\ load'[server[t].inFlight] = load[server[t].inFlight]
      OBVIOUS
    <3>1. t # s /\ server'[t] = server[t]
      BY <1>4 DEF FreshServer
    <3>2. server[t].inFlight \in Loads /\ load[server[t].inFlight].server = t
      BY <3>1 DEF BaseInv, FlagsTypeOK, ServerType, ReadersSound
    <3> QED BY <1>5, <3>1, <3>2
  <2>4. \A t \in Servers : server'[t].inFlight # "none" =>
            /\ load'[server'[t].inFlight].pc # "idle" /\ load'[server'[t].inFlight].server = t
            /\ load'[server'[t].inFlight].generation = server'[t].generation
    BY <2>3 DEF BaseInv, ReadersSound
  <2>5. \A q \in Requests :
            /\ request'[q].pc = "idle" <=> request'[q].server = "none"
            /\ request'[q].live => request'[q].pc # "idle"
            /\ request'[q].pc = "wait" <=> request'[q].load # "none"
            /\ request'[q].load # "none" =>
                  /\ load'[request'[q].load].pc # "idle"
                  /\ load'[request'[q].load].server = request'[q].server
    <3> SUFFICES ASSUME NEW q \in Requests
                 PROVE  /\ request'[q].pc = "idle" <=> request'[q].server = "none"
                        /\ request'[q].live => request'[q].pc # "idle"
                        /\ request'[q].pc = "wait" <=> request'[q].load # "none"
                        /\ request'[q].load # "none" =>
                              /\ load'[request'[q].load].pc # "idle"
                              /\ load'[request'[q].load].server = request'[q].server
      OBVIOUS
    <3>1. CASE request[q].server = s
      BY <1>8, <3>1 DEF IdleRequest
    <3>2. CASE request[q].server # s
      <4>1. request'[q] = request[q] /\ request[q].load \in Loads \cup {"none"}
        BY <1>8, <3>2 DEF BaseInv, FlagsTypeOK, RequestType
      <4>2. request[q].load # "none" => load'[request[q].load] = load[request[q].load]
        BY <1>5, <3>2, <4>1 DEF BaseInv, ReadersSound
      <4> QED BY <4>1, <4>2 DEF BaseInv, ReadersSound
    <3> QED BY <3>1, <3>2
  <2> QED BY <2>2, <2>4, <2>5 DEF ReadersSound
<1> QED BY <1>13, <1>14, <1>15, <1>16 DEF BaseInv

----------------------------------------------------------------------------
LEMMA BaseStep ==
    ASSUME BaseInv, [Next]_vars
    PROVE  BaseInv'
<1>1. ASSUME NEW s \in Servers, EditFlag(s) \/ ReplaceRules(s) \/ Broadcast(s) \/ Connect(s) \/ Crash(s)
      PROVE  BaseInv'
  BY <1>1, CommitsBase, BroadcastBase, QuietBase, CrashBase DEF EditFlag, ReplaceRules
<1>2. ASSUME NEW n \in Changes, Handle(n)
      PROVE  BaseInv'
  BY <1>2, EmitBase, DropAllBase, BumpBase DEF Handle
<1>3. ASSUME NEW q \in Requests, Evaluate(q) \/ FetchFails(q)
      PROVE  BaseInv'
  BY <1>3, GetUserBase, GetAllBase, StoreBase, AnswerBase DEF Evaluate
<1>4. ASSUME NEW l \in Loads, Reload(l)
      PROVE  BaseInv'
  BY <1>4, LoadFindBase, LoadDoneBase DEF Reload
<1>5. CASE ExpireAll \/ (\E k \in Keys : ExpireUser(k)) \/ DropStream \/ UNCHANGED vars
  BY <1>5, QuietBase
<1>6. CASE Pushed \/ Refetch
  BY <1>6, FetchBase
<1> QED BY <1>1, <1>2, <1>3, <1>4, <1>5, <1>6 DEF Next

\* Type correctness of a change's way to the browser, for any number of
\* instances: no handler, reload or evaluation refers to one that is not at
\* work, and neither a version nor a generation outgrows the changes.
THEOREM FlagsTypeCorrect == Spec => []FlagsTypeOK
<1>1. Init => BaseInv
  BY BaseInit
<1>2. BaseInv /\ [Next]_vars => BaseInv'
  BY BaseStep
<1>3. BaseInv => FlagsTypeOK
  BY DEF BaseInv
<1> QED BY <1>1, <1>2, <1>3, PTL DEF Spec

----------------------------------------------------------------------------
(* The shared list, on one instance. *)

\* What a step does to the handlers: they only move on.
LEMMA HandlersMove ==
    ASSUME BaseInv, [Next]_vars, NEW m \in Changes
    PROVE  /\ handler'[m].pc \in {"bump", "done"} => \/ handler[m].pc \in {"bump", "done"}
                                                     \/ DropAll(m)
           /\ handler'[m].pc \in {"del", "bump", "done"} =>
                  \/ handler[m].pc \in {"del", "bump", "done"}
                  \/ Emit(m)
           /\ handler'[m].pc = "done" => \/ handler[m].pc = "done"
                                         \/ Bump(m)
           /\ handler[m].pc \in {"bump", "done"} /\ ~(\E s \in Servers : Crash(s)) =>
                  handler'[m].pc \in {"bump", "done"}
<1> DEFINE Moves ==
           /\ handler'[m].pc \in {"bump", "done"} => \/ handler[m].pc \in {"bump", "done"}
                                                     \/ DropAll(m)
           /\ handler'[m].pc \in {"del", "bump", "done"} =>
                  \/ handler[m].pc \in {"del", "bump", "done"}
                  \/ Emit(m)
           /\ handler'[m].pc = "done" => \/ handler[m].pc = "done"
                                         \/ Bump(m)
           /\ handler[m].pc \in {"bump", "done"} /\ ~(\E s \in Servers : Crash(s)) =>
                  handler'[m].pc \in {"bump", "done"}
<1> SUFFICES Moves
  OBVIOUS
<1>0. handler \in [Changes -> HandlerType]
  BY DEF BaseInv, FlagsTypeOK
<1>1. ASSUME NEW s \in Servers, Commits(s) PROVE Moves
  <2>1. content + 1 \in Changes
    BY <1>1, Copies, Constants DEF BaseInv, FlagsTypeOK, Commits, Changes, Contents
  <2>2. handler[content + 1].pc = "idle"
    BY <2>1, Copies DEF BaseInv, AgesSound
  <2>3. /\ handler'[content + 1].pc = "committed"
        /\ m # content + 1 => handler'[m] = handler[m]
    BY <1>0, <1>1, <2>1 DEF Commits
  <2> QED BY <2>2, <2>3
<1>2. ASSUME NEW n \in Changes, Emit(n) PROVE Moves
  BY <1>0, <1>2 DEF Emit, HandlerType
<1>3. ASSUME NEW n \in Changes, DropAll(n) PROVE Moves
  BY <1>0, <1>3 DEF DropAll, HandlerType
<1>4. ASSUME NEW n \in Changes, Bump(n) PROVE Moves
  BY <1>0, <1>4 DEF Bump, HandlerType
<1>5. ASSUME NEW s \in Servers, Crash(s) PROVE Moves
  BY <1>0, <1>5 DEF Crash, HandlerType
<1>6. CASE handler' = handler
  BY <1>6
<1>7. ASSUME NEW s \in Servers, Broadcast(s) \/ Connect(s) PROVE Moves
  BY <1>6, <1>7 DEF Broadcast, Connect, adminUnchanged
<1>8. ASSUME NEW q \in Requests, Evaluate(q) \/ FetchFails(q) PROVE Moves
  BY <1>6, <1>8 DEF Evaluate, GetUser, GetAll, Store, Answer, FetchFails, adminUnchanged
<1>9. ASSUME NEW l \in Loads, Reload(l) PROVE Moves
  BY <1>6, <1>9 DEF Reload, LoadFind, LoadDone, adminUnchanged
<1>10. CASE ExpireAll \/ (\E k \in Keys : ExpireUser(k)) \/ DropStream \/ Pushed \/ Refetch \/ UNCHANGED vars
  BY <1>6, <1>10 DEF ExpireAll, ExpireUser, DropStream, Pushed, Refetch, vars, adminUnchanged
<1> HIDE DEF Moves
<1>11. ASSUME NEW s \in Servers, EditFlag(s) \/ ReplaceRules(s) \/ Broadcast(s) \/ Connect(s) \/ Crash(s)
       PROVE  Moves
  BY <1>1, <1>5, <1>7, <1>11 DEF EditFlag, ReplaceRules
<1>12. ASSUME NEW n \in Changes, Handle(n) PROVE Moves
  BY <1>2, <1>3, <1>4, <1>12 DEF Handle
<1> QED BY <1>8, <1>9, <1>10, <1>11, <1>12 DEF Next

\* A step that leaves the reloads and the generations alone, and puts
\* nothing in the shared list.
LEMMA ListsKept ==
    ASSUME BaseInv, ListsSound, [Next]_vars, UNCHANGED load,
           \A s \in Servers : server'[s].generation = server[s].generation,
           all' \in {all, Absent}, \A n \in Changes : DropAll(n) => all' = Absent
    PROVE  ListsSound'
<1> SUFFICES ASSUME NEW n \in Changes
             PROVE  /\ handler'[n].pc \in {"bump", "done"} /\ all' # Absent => all' >= n
                    /\ handler'[n].pc \in {"del", "bump", "done"} =>
                          \A l \in Loads : load'[l].pc = "rules" /\ SameGeneration(l)' =>
                              load'[l].content >= n
  BY DEF ListsSound
<1>1. handler'[n].pc \in {"bump", "done"} /\ all' # Absent => all' >= n
  BY HandlersMove DEF ListsSound, Absent
<1>2. ASSUME handler'[n].pc \in {"del", "bump", "done"}, NEW l \in Loads, load'[l].pc = "rules",
             SameGeneration(l)'
      PROVE  load'[l].content >= n
  <2>1. load[l].pc = "rules" /\ load[l].server \in Servers /\ SameGeneration(l)
    BY <1>2 DEF BaseInv, ReadersSound, SameGeneration
  <2>2. ~Emit(n)
    <3> SUFFICES ASSUME Emit(n) PROVE FALSE
      OBVIOUS
    <3>1. handler[n].server \in Servers
      BY HandlerServer DEF BaseInv, Emit
    <3>2. server'[handler[n].server].generation = server[handler[n].server].generation + 1
      BY <3>1 DEF BaseInv, FlagsTypeOK, Emit, Detach, ServerType
    <3> QED BY <3>1, <3>2, Copies DEF BaseInv
  <2>3. handler[n].pc \in {"del", "bump", "done"}
    BY <1>2, <2>2, HandlersMove
  <2> QED BY <2>1, <2>3 DEF ListsSound
<1> QED BY <1>1, <1>2

\* The list a shared cache or a reload holds stays no older than the
\* invalidations that are over.
LEMMA ListsStep ==
    ASSUME OneServer, FlagsInv, BaseInv', [Next]_vars
    PROVE  ListsSound'
<1> BaseInv /\ ListsSound
  BY DEF FlagsInv, BaseInv
<1>1. ASSUME NEW n \in Changes, Emit(n) PROVE ListsSound'
  <2>1. handler[n].server \in Servers
    BY <1>1, HandlerServer DEF BaseInv, Emit
  <2>2. \A s \in Servers : server'[s].generation = server[s].generation + 1
    BY <1>1, <2>1 DEF BaseInv, FlagsTypeOK, Emit, Detach, ServerType, OneServer
  <2>3. ASSUME NEW l \in Loads, load[l].pc = "rules" PROVE ~SameGeneration(l)'
    <3>1. load[l].server \in Servers /\ load[l].generation <= server[load[l].server].generation
      BY <2>3 DEF BaseInv, ReadersSound
    <3> QED BY <1>1, <2>2, <3>1, Copies DEF BaseInv, SameGeneration, Emit, readersUnchanged
  <2>4. UNCHANGED <<all, load>>
    BY <1>1 DEF Emit, cachesUnchanged, readersUnchanged
  <2>5. \A m \in Changes : handler'[m].pc \in {"bump", "done"} => handler[m].pc \in {"bump", "done"}
    BY <1>1 DEF BaseInv, FlagsTypeOK, Emit, HandlerType
  <2> QED BY <2>3, <2>4, <2>5 DEF ListsSound
<1>2. ASSUME NEW s \in Servers, Crash(s) PROVE ListsSound'
  <2>1. \A l \in Loads : load'[l].pc # "rules"
    BY <1>2 DEF BaseInv, ReadersSound, Crash, IdleLoad, OneServer
  <2>2. \A m \in Changes : handler'[m].pc \in {"bump", "done"} => handler[m].pc \in {"bump", "done"}
    BY <1>2 DEF BaseInv, FlagsTypeOK, Crash, HandlerType
  <2> QED BY <1>2, <2>1, <2>2 DEF ListsSound, Crash, cachesUnchanged
<1>3. ASSUME NEW l \in Loads, LoadFind(l) PROVE ListsSound'
  <2>1. UNCHANGED <<content, handler, all, server>>
    BY <1>3 DEF LoadFind, adminUnchanged, cachesUnchanged
  <2>2. /\ load'[l].content = content
        /\ \A m \in Loads : m # l => load'[m] = load[m]
    BY <1>3 DEF BaseInv, FlagsTypeOK, LoadFind, LoadType
  <2>3. \A n \in Changes : handler[n].pc # "idle" => content >= n
    BY Copies DEF BaseInv, AgesSound, Changes
  <2>4. \A m \in Loads : m # l /\ SameGeneration(m)' => SameGeneration(m)
    BY <2>1, <2>2 DEF SameGeneration
  <2> QED BY <2>1, <2>2, <2>3, <2>4 DEF ListsSound
<1>4. ASSUME NEW l \in Loads, LoadDone(l) PROVE ListsSound'
  <2>1. load[l].pc = "rules" /\ UNCHANGED handler
    BY <1>4 DEF LoadDone, adminUnchanged
  <2>2. load'[l].pc = "idle" /\ \A m \in Loads : m # l => load'[m] = load[m]
    BY <1>4 DEF BaseInv, FlagsTypeOK, LoadDone, IdleLoad
  <2>3. \A s \in Servers : server'[s].generation = server[s].generation
    BY <1>4 DEF BaseInv, FlagsTypeOK, LoadDone, ServerType
  <2>4. \A m \in Loads : m # l /\ load'[m].pc = "rules" /\ SameGeneration(m)' => SameGeneration(m)
    BY <2>2, <2>3 DEF BaseInv, ReadersSound, SameGeneration
  <2>5. \A n \in Changes : handler'[n].pc \in {"bump", "done"} /\ all' # Absent => all' >= n
    BY <1>4, <2>1 DEF ListsSound, LoadDone
  <2> QED BY <2>1, <2>2, <2>4, <2>5 DEF ListsSound
<1>5. ASSUME NEW n \in Changes, DropAll(n) \/ Bump(n) PROVE ListsSound'
  <2>1. UNCHANGED load /\ all' \in {all, Absent}
    BY <1>5 DEF DropAll, Bump, readersUnchanged
  <2>2. \A s \in Servers : server'[s].generation = server[s].generation
    BY <1>5 DEF DropAll, Bump, BaseInv, FlagsTypeOK, ServerType
  <2>3. \A m \in Changes : DropAll(m) => all' = Absent
    BY DEF DropAll
  <2> QED BY <2>1, <2>2, <2>3, ListsKept
<1>6. ASSUME NEW s \in Servers, Commits(s) \/ Broadcast(s) \/ Connect(s) PROVE ListsSound'
  <2>1. UNCHANGED <<load, all>>
    BY <1>6 DEF Commits, Broadcast, Connect, cachesUnchanged, readersUnchanged
  <2>2. \A t \in Servers : server'[t].generation = server[t].generation
    BY <1>6 DEF Commits, Broadcast, Connect, BaseInv, FlagsTypeOK, ServerType
  <2>3. \A m \in Changes : DropAll(m) => all' = Absent
    BY DEF DropAll
  <2> QED BY <2>1, <2>2, <2>3, ListsKept
<1>7. ASSUME NEW q \in Requests, GetAll(q) PROVE ListsSound'
  <2>1. UNCHANGED <<all, handler>>
    BY <1>7 DEF GetAll, cachesUnchanged, adminUnchanged
  <2>0. \/ UNCHANGED <<server, load>>
        \/ \E l \in Loads, s \in Servers, g \in Nat :
              /\ load' = [load EXCEPT ![l] = [pc |-> "find", server |-> s,
                                              generation |-> g, content |-> 0]]
              /\ server' = [server EXCEPT ![s].inFlight = l]
    <3>1. request[q].server \in Servers /\ server[request[q].server].generation \in Nat
      BY <1>7, RequestFacts, Copies DEF GetAll, BaseInv
    <3> QED BY <1>7, <3>1 DEF GetAll
  <2>2. \A m \in Loads : load'[m].pc = "rules" => load'[m] = load[m]
    BY <2>0 DEF BaseInv, FlagsTypeOK
  <2>3. \A t \in Servers : server'[t].generation = server[t].generation
    BY <2>0 DEF BaseInv, FlagsTypeOK, ServerType
  <2>4. \A m \in Loads : load'[m].pc = "rules" /\ SameGeneration(m)' => SameGeneration(m)
    BY <2>2, <2>3 DEF BaseInv, ReadersSound, SameGeneration
  <2> QED BY <2>1, <2>2, <2>4 DEF ListsSound
<1>8. ASSUME UNCHANGED <<load, server>>, all' \in {all, Absent} PROVE ListsSound'
  <2>1. \A m \in Changes : DropAll(m) => all' = Absent
    BY DEF DropAll
  <2> QED BY <1>8, <2>1, ListsKept
<1>9. ASSUME NEW q \in Requests, GetUser(q) \/ Store(q) \/ Answer(q) \/ FetchFails(q)
      PROVE  ListsSound'
  BY <1>8, <1>9 DEF GetUser, Store, Answer, FetchFails, cachesUnchanged
<1>10. CASE ExpireAll \/ (\E k \in Keys : ExpireUser(k)) \/ DropStream \/ Pushed \/ Refetch \/ UNCHANGED vars
  BY <1>8, <1>10 DEF ExpireAll, ExpireUser, DropStream, Pushed, Refetch, vars, cachesUnchanged, readersUnchanged
<1> QED
  BY <1>1, <1>2, <1>3, <1>4, <1>5, <1>6, <1>7, <1>9, <1>10
  DEF Next, Handle, Evaluate, Reload, EditFlag, ReplaceRules

----------------------------------------------------------------------------
(* The keys. *)

\* The current key, and the one an idle evaluation has.
LEMMA KeyFacts ==
    ASSUME BaseInv
    PROVE  /\ Key \in Keys /\ Key[1] = "redis" /\ Key[2] = counter["redis"]
           /\ IdleRequest.key \in Keys /\ IdleRequest.key[1] = "redis" /\ IdleRequest.key[2] = 0
           /\ IdleRequest.pc = "idle" /\ ~IdleRequest.live
<1>1. counter["redis"] \in Contents /\ 0 \in Contents
  BY Constants DEF BaseInv, FlagsTypeOK, Contents
<1>2. Key \in Keys /\ Key[1] = "redis" /\ Key[2] = counter["redis"]
  BY <1>1 DEF Key, Keys
<1>3. IdleRequest.key = <<"redis", 0>> /\ IdleRequest.pc = "idle" /\ ~IdleRequest.live
  BY DEF IdleRequest
<1>4. <<"redis", 0>> \in Keys /\ <<"redis", 0>>[1] = "redis" /\ <<"redis", 0>>[2] = 0
  BY <1>1 DEF Keys
<1> QED BY <1>2, <1>3, <1>4

\* The key an evaluation begins with.
LEMMA BeginsFacts ==
    ASSUME BaseInv, NEW s, NEW which \in {"redis", "fallback"}
    PROVE  /\ Begins(s, which).key \in Keys
           /\ Begins(s, which).key[1] = which /\ Begins(s, which).key[2] = counter[which]
           /\ which = "redis" => Begins(s, which).key = Key
           /\ Begins(s, which).pc = "user" /\ Begins(s, which).live
           /\ Begins(s, which).load = "none"
<1> DEFINE k == <<which, counter[which]>>
<1>1. k \in Keys /\ k[1] = which /\ k[2] = counter[which] /\ (which = "redis" => k = Key)
  BY DEF BaseInv, FlagsTypeOK, Keys, Key
<1> HIDE DEF k
<1>2. ASSUME NEW r, r = [IdleRequest EXCEPT !.pc = "user", !.live = TRUE, !.server = s, !.key = k]
      PROVE  r.key = k /\ r.pc = "user" /\ r.live /\ r.load = "none"
  BY <1>2 DEF IdleRequest
<1>3. Begins(s, which) = [IdleRequest EXCEPT !.pc = "user", !.live = TRUE, !.server = s, !.key = k]
  BY DEF Begins, k
<1> QED BY <1>1, <1>2, <1>3

(* Nothing older than an invalidation that is over comes under a key that  *)
(* had nothing older.                                                      *)
KeysStay ==
    \A k \in Keys, n \in Changes :
        handler[n].pc \in {"bump", "done"} /\ KeyGood(k, n) => KeyGood(k, n)'

\* A step that leaves evaluations and reloads alone.
LEMMA QuietKeys ==
    ASSUME BaseInv, UNCHANGED <<request, load>>,
           user' = user \/ \E k \in Keys : user' = [user EXCEPT ![k] = Absent]
    PROVE  KeysStay
<1>1. \A k \in Keys : user'[k] \in {user[k], Absent}
  BY DEF BaseInv, FlagsTypeOK
<1> QED BY <1>1 DEF KeysStay, KeyGood

\* A step of one evaluation that starts no wait.
LEMMA RequestKeys ==
    ASSUME BaseInv, NEW q \in Requests, UNCHANGED <<load, user>>,
           \A p \in Requests : p # q => request'[p] = request[p],
           request'[q].pc # "wait",
           \A n \in Changes : handler[n].pc \in {"bump", "done"} /\ KeyGood(request'[q].key, n) =>
               (request'[q].pc \in {"store", "answer"} => request'[q].content >= n)
    PROVE  KeysStay
BY DEF KeysStay, KeyGood

LEMMA KeysStayStep ==
    ASSUME OneServer, FlagsInv, BaseInv', [Next]_vars
    PROVE  KeysStay
<1> BaseInv /\ ListsSound
  BY DEF FlagsInv, BaseInv
<1>1. ASSUME NEW q \in Requests, GetUser(q) PROVE KeysStay
  <2>1. /\ UNCHANGED <<load, user>>
        /\ \A p \in Requests : p # q => request'[p] = request[p]
    BY <1>1 DEF GetUser, cachesUnchanged, BaseInv, FlagsTypeOK
  <2>2. /\ request'[q].key = request[q].key /\ request[q].key \in Keys
        /\ \/ request'[q].pc = "all"
           \/ /\ request'[q].pc = "answer" /\ request'[q].content = user[request[q].key]
              /\ user[request[q].key] # Absent
    BY <1>1 DEF GetUser, BaseInv, FlagsTypeOK, RequestType
  <2> QED BY <2>1, <2>2, RequestKeys DEF KeyGood
<1>2. ASSUME NEW q \in Requests, GetAll(q) PROVE KeysStay
  <2>0. request[q].pc = "all" /\ request[q] \in RequestType /\ request[q].server \in Servers
    BY <1>2, RequestFacts DEF GetAll
  <2>1. UNCHANGED user
    BY <1>2 DEF GetAll, cachesUnchanged
  <2>2. CASE all # Absent /\ request' = [request EXCEPT ![q] = Received(@, all)] /\ UNCHANGED load
    <3>1. /\ request'[q] = Received(request[q], all)
          /\ \A p \in Requests : p # q => request'[p] = request[p]
      BY <2>2 DEF BaseInv, FlagsTypeOK
    <3>2. all \in Contents /\ all <= content
      BY <2>2 DEF BaseInv, FlagsTypeOK, AgesSound
    <3>3. request'[q].content = all /\ request'[q].pc = "store"
      BY <2>0, <3>1, <3>2, ReceivedFacts
    <3>4. \A n \in Changes : handler[n].pc \in {"bump", "done"} => all >= n
      BY <2>2 DEF ListsSound
    <3> QED BY <2>1, <2>2, <3>1, <3>3, <3>4, RequestKeys
  <2>3. ASSUME NEW l \in Loads,
               request' = [request EXCEPT ![q].pc = "wait", ![q].load = l],
               \A m \in Loads : m # l => load'[m] = load[m],
               \A p \in Requests : p # q /\ request[p].pc = "wait" => 
                   load'[request[p].load] = load[request[p].load],
               \A n \in Changes : handler[n].pc \in {"bump", "done"} /\ load'[l].pc = "rules" =>
                   load'[l].content >= n
        PROVE  KeysStay
    <3>1. /\ request'[q].key = request[q].key /\ request'[q].pc = "wait" /\ request'[q].load = l
          /\ \A p \in Requests : p # q => request'[p] = request[p]
      BY <2>0, <2>3 DEF BaseInv, FlagsTypeOK, RequestType
    <3>2. SUFFICES ASSUME NEW k \in Keys, NEW n \in Changes, handler[n].pc \in {"bump", "done"},
                          KeyGood(k, n)
                   PROVE  KeyGood(k, n)'
      BY DEF KeysStay
    <3>3. ASSUME NEW p \in Requests, request'[p].key = k
          PROVE  /\ request'[p].pc \in {"store", "answer"} => request'[p].content >= n
                 /\ request'[p].pc = "wait" /\ load'[request'[p].load].pc = "rules" =>
                       load'[request'[p].load].content >= n
      <4>1. CASE p = q
        BY <2>3, <3>1, <3>2, <4>1
      <4>2. CASE p # q
        BY <2>3, <3>1, <3>2, <3>3, <4>2 DEF KeyGood
      <4> QED BY <4>1, <4>2
    <3> QED BY <2>1, <3>2, <3>3 DEF KeyGood
  <2>4. CASE /\ server[request[q].server].inFlight # "none"
             /\ request' = [request EXCEPT ![q].pc = "wait",
                                           ![q].load = server[request[q].server].inFlight]
             /\ UNCHANGED load
    <3> DEFINE l == server[request[q].server].inFlight
    <3>1. /\ l \in Loads /\ load[l].server = request[q].server
          /\ load[l].generation = server[request[q].server].generation
      BY <2>0, <2>4 DEF BaseInv, FlagsTypeOK, ServerType, ReadersSound
    <3>2. \A n \in Changes : handler[n].pc \in {"bump", "done"} /\ load[l].pc = "rules" =>
              load[l].content >= n
      BY <3>1 DEF ListsSound, SameGeneration
    <3> HIDE DEF l
    <3>3. request' = [request EXCEPT ![q].pc = "wait", ![q].load = l] /\ load' = load
      BY <2>4 DEF l
    <3> QED BY <2>3, <3>1, <3>2, <3>3
  <2>5. ASSUME NEW l \in Loads, load[l].pc = "idle",
               load' = [load EXCEPT ![l] =
                  [pc |-> "find", server |-> request[q].server,
                   generation |-> server[request[q].server].generation, content |-> 0]],
               request' = [request EXCEPT ![q].pc = "wait", ![q].load = l]
        PROVE  KeysStay
    <3>1. load'[l].pc = "find" /\ \A m \in Loads : m # l => load'[m] = load[m]
      BY <2>5 DEF BaseInv, FlagsTypeOK
    <3>2. \A p \in Requests : request[p].pc = "wait" => request[p].load \in Loads /\ request[p].load # l
      BY <2>5 DEF BaseInv, FlagsTypeOK, RequestType, ReadersSound
    <3> QED BY <2>3, <2>5, <3>1, <3>2
  <2> QED BY <1>2, <2>2, <2>4, <2>5 DEF GetAll
<1>3. ASSUME NEW l \in Loads, LoadFind(l) PROVE KeysStay
  <2>1. UNCHANGED <<user, request>>
    BY <1>3 DEF LoadFind, cachesUnchanged
  <2>2. load'[l].content = content /\ \A m \in Loads : m # l => load'[m] = load[m]
    BY <1>3 DEF BaseInv, FlagsTypeOK, LoadFind, LoadType
  <2>3. \A n \in Changes : handler[n].pc \in {"bump", "done"} => content >= n
    BY Copies DEF BaseInv, AgesSound, Changes
  <2>4. \A q \in Requests : request[q].pc = "wait" => request[q].load \in Loads
    BY DEF BaseInv, FlagsTypeOK, RequestType, ReadersSound
  <2> QED BY <2>1, <2>2, <2>3, <2>4 DEF KeysStay, KeyGood
<1>4. ASSUME NEW l \in Loads, LoadDone(l) PROVE KeysStay
  <2>0. UNCHANGED user /\ load[l].pc = "rules"
    BY <1>4 DEF LoadDone
  <2>1. \A m \in Loads : m # l => load'[m] = load[m]
    BY <1>4 DEF BaseInv, FlagsTypeOK, LoadDone
  <2>2. load[l].content \in Contents /\ load[l].content <= content /\ l # "none"
    BY Constants DEF BaseInv, FlagsTypeOK, LoadType, AgesSound
  <2>3. ASSUME NEW p \in Requests, request[p].load = l
        PROVE  /\ request[p].pc = "wait" /\ request'[p].key = request[p].key
               /\ request'[p].pc = "store" /\ request'[p].content = load[l].content
    <3>1. request[p].pc = "wait" /\ request'[p] = Received(request[p], load[l].content)
      BY <1>4, <2>2, <2>3 DEF LoadDone, BaseInv, ReadersSound
    <3> QED BY <2>2, <3>1, ReceivedFacts
  <2>4. \A p \in Requests : request[p].load # l => request'[p] = request[p]
    BY <1>4 DEF LoadDone
  <2>5. \A p \in Requests : request[p].pc = "wait" => request[p].load \in Loads
    BY DEF BaseInv, FlagsTypeOK, RequestType, ReadersSound
  <2>6. SUFFICES ASSUME NEW k \in Keys, NEW n \in Changes, handler[n].pc \in {"bump", "done"},
                        KeyGood(k, n)
                 PROVE  KeyGood(k, n)'
    BY DEF KeysStay
  <2>7. ASSUME NEW p \in Requests, request'[p].key = k
        PROVE  /\ request'[p].pc \in {"store", "answer"} => request'[p].content >= n
               /\ request'[p].pc = "wait" /\ load'[request'[p].load].pc = "rules" =>
                     load'[request'[p].load].content >= n
    <3>1. CASE request[p].load = l
      BY <2>0, <2>3, <2>6, <2>7, <3>1 DEF KeyGood
    <3>2. CASE request[p].load # l
      BY <2>1, <2>4, <2>5, <2>6, <2>7, <3>2 DEF KeyGood
    <3> QED BY <3>1, <3>2
  <2> QED BY <2>0, <2>6, <2>7 DEF KeyGood
<1>5. ASSUME NEW q \in Requests, Store(q) PROVE KeysStay
  <2>1. /\ UNCHANGED load /\ request[q].pc = "store"
        /\ \A p \in Requests : p # q => request'[p] = request[p]
        /\ request'[q].pc = "answer" /\ request'[q].key = request[q].key
        /\ request'[q].content = request[q].content
    BY <1>5 DEF Store, BaseInv, FlagsTypeOK, RequestType
  <2>2. \A k \in Keys : user'[k] = IF k = request[q].key THEN request[q].content ELSE user[k]
    BY <1>5 DEF Store, BaseInv, FlagsTypeOK
  <2>3. SUFFICES ASSUME NEW k \in Keys, NEW n \in Changes, KeyGood(k, n)
                 PROVE  KeyGood(k, n)'
    BY DEF KeysStay
  <2>4. user'[k] # Absent => user'[k] >= n
    BY <2>1, <2>2, <2>3 DEF KeyGood
  <2>5. ASSUME NEW p \in Requests, request'[p].key = k
        PROVE  /\ request'[p].pc \in {"store", "answer"} => request'[p].content >= n
               /\ request'[p].pc = "wait" /\ load'[request'[p].load].pc = "rules" =>
                     load'[request'[p].load].content >= n
    BY <2>1, <2>3, <2>5 DEF KeyGood
  <2> QED BY <2>4, <2>5 DEF KeyGood
<1>6. ASSUME NEW q \in Requests, Answer(q) \/ FetchFails(q) PROVE KeysStay
  <2>1. /\ UNCHANGED <<load, user>>
        /\ \A p \in Requests : p # q => request'[p] = request[p]
        /\ request'[q].pc = "idle"
    BY <1>6 DEF Answer, FetchFails, cachesUnchanged, BaseInv, FlagsTypeOK, IdleRequest
  <2> QED BY <2>1, RequestKeys
<1>7. ASSUME Refetch \/ Pushed PROVE KeysStay
  <2>0. Fetch /\ UNCHANGED <<load, user>>
    BY <1>7 DEF Refetch, Pushed, cachesUnchanged
  <2>1. PICK q \in Requests, s \in Servers, which \in {"redis", "fallback"} :
          /\ request[q].pc = "idle"
          /\ request' = [Outdated EXCEPT ![q] = Begins(s, which)]
          /\ request' \in [Requests -> RequestType]
          /\ request'[q] = Begins(s, which)
          /\ \A p \in Requests : p # q => request'[p] = [request[p] EXCEPT !.live = FALSE]
          /\ IF which = "redis" THEN faults' = faults ELSE faults' = faults + 1
          /\ faults' \in 0..MaxFaults
    BY <2>0, FetchFacts
  <2>2. request'[q].pc = "user"
    BY <2>1, BeginsFacts
  <2>3. \A p \in Requests : p # q =>
            /\ request'[p].pc = request[p].pc /\ request'[p].key = request[p].key
            /\ request'[p].content = request[p].content /\ request'[p].load = request[p].load
    BY <2>1 DEF BaseInv, FlagsTypeOK, RequestType
  <2>4. SUFFICES ASSUME NEW k \in Keys, NEW n \in Changes, KeyGood(k, n)
                 PROVE  KeyGood(k, n)'
    BY DEF KeysStay
  <2>5. ASSUME NEW p \in Requests, request'[p].key = k
        PROVE  /\ request'[p].pc \in {"store", "answer"} => request'[p].content >= n
               /\ request'[p].pc = "wait" /\ load'[request'[p].load].pc = "rules" =>
                     load'[request'[p].load].content >= n
    BY <2>0, <2>2, <2>3, <2>4, <2>5 DEF KeyGood
  <2> QED BY <2>0, <2>4, <2>5 DEF KeyGood
<1>8. ASSUME NEW s \in Servers, Crash(s) PROVE KeysStay
  <2>1. \A q \in Requests : request'[q].pc = "idle"
    BY <1>8 DEF Crash, BaseInv, ReadersSound, IdleRequest, OneServer, FlagsTypeOK, RequestType
  <2>2. UNCHANGED user
    BY <1>8 DEF Crash, cachesUnchanged
  <2> QED BY <2>1, <2>2 DEF KeysStay, KeyGood
<1>9. ASSUME NEW s \in Servers, Commits(s) \/ Broadcast(s) \/ Connect(s) PROVE KeysStay
  BY <1>9, QuietKeys DEF Commits, Broadcast, Connect, cachesUnchanged, readersUnchanged
<1>10. ASSUME NEW n \in Changes, Emit(n) \/ DropAll(n) \/ Bump(n) PROVE KeysStay
  BY <1>10, QuietKeys DEF Emit, DropAll, Bump, cachesUnchanged, readersUnchanged
<1>11. CASE ExpireAll \/ (\E k \in Keys : ExpireUser(k)) \/ DropStream \/ UNCHANGED vars
  BY <1>11, QuietKeys DEF ExpireAll, ExpireUser, DropStream, vars, cachesUnchanged, readersUnchanged
<1> QED
  BY <1>1, <1>2, <1>3, <1>4, <1>5, <1>6, <1>7, <1>8, <1>9, <1>10, <1>11
  DEF Next, Handle, Evaluate, Reload, EditFlag, ReplaceRules

----------------------------------------------------------------------------
(* The version, the browser, and the theorems. *)

\* Only an increment changes the counters.
LEMMA CountersKept ==
    ASSUME BaseInv, [Next]_vars, ~(\E n \in Changes : Bump(n))
    PROVE  UNCHANGED counter
<1>1. ASSUME NEW s \in Servers, EditFlag(s) \/ ReplaceRules(s) \/ Broadcast(s) \/ Connect(s) \/ Crash(s)
      PROVE  UNCHANGED counter
  BY <1>1 DEF EditFlag, ReplaceRules, Commits, Broadcast, Connect, Crash, cachesUnchanged
<1>2. ASSUME NEW n \in Changes, Emit(n) \/ DropAll(n) PROVE UNCHANGED counter
  BY <1>2 DEF Emit, DropAll, cachesUnchanged
<1>3. ASSUME NEW q \in Requests, Evaluate(q) \/ FetchFails(q) PROVE UNCHANGED counter
  BY <1>3 DEF Evaluate, GetUser, GetAll, Store, Answer, FetchFails, cachesUnchanged
<1>4. ASSUME NEW l \in Loads, Reload(l) PROVE UNCHANGED counter
  BY <1>4 DEF Reload, LoadFind, LoadDone, cachesUnchanged
<1>5. CASE ExpireAll \/ (\E k \in Keys : ExpireUser(k)) \/ DropStream \/ Pushed \/ Refetch \/ UNCHANGED vars
  BY <1>5 DEF ExpireAll, ExpireUser, DropStream, Pushed, Refetch, vars, cachesUnchanged
<1> QED BY <1>1, <1>2, <1>3, <1>4, <1>5 DEF Next, Handle

\* An evaluation keeps its key and its epoch until it is answered.
LEMMA EvaluationKept ==
    ASSUME BaseInv, NEW p \in Requests,
           \/ \E q \in Requests : GetUser(q) \/ GetAll(q) \/ Store(q)
           \/ \E l \in Loads : LoadDone(l)
    PROVE  request'[p].key = request[p].key /\ request'[p].live = request[p].live
<1> DEFINE Same == request'[p].key = request[p].key /\ request'[p].live = request[p].live
<1> SUFFICES Same
  OBVIOUS
<1>0. request \in [Requests -> RequestType] /\ request[p] \in RequestType
  BY DEF BaseInv, FlagsTypeOK
<1>1. ASSUME NEW q \in Requests, GetUser(q) PROVE Same
  BY <1>0, <1>1 DEF GetUser, RequestType
<1>2. ASSUME NEW q \in Requests, GetAll(q) PROVE Same
  <2>1. \/ request' = [request EXCEPT ![q] = Received(request[q], all)]
        \/ \E l : request' = [request EXCEPT ![q].pc = "wait", ![q].load = l]
    BY <1>0, <1>2 DEF GetAll
  <2>2. CASE request' = [request EXCEPT ![q] = Received(request[q], all)]
    BY <1>0, <2>2 DEF RequestType, Received
  <2>3. ASSUME NEW l, request' = [request EXCEPT ![q].pc = "wait", ![q].load = l] PROVE Same
    BY <1>0, <2>3 DEF RequestType
  <2> QED BY <2>1, <2>2, <2>3
<1>3. ASSUME NEW q \in Requests, Store(q) PROVE Same
  BY <1>0, <1>3 DEF Store, RequestType
<1>4. ASSUME NEW l \in Loads, LoadDone(l) PROVE Same
  <2>1. request'[p] = request[p] \/ request'[p] = Received(request[p], load[l].content)
    BY <1>4 DEF LoadDone
  <2>2. CASE request'[p] = Received(request[p], load[l].content)
    BY <1>0, <2>2 DEF RequestType, Received
  <2> QED BY <2>1, <2>2
<1> HIDE DEF Same
<1> QED BY <1>1, <1>2, <1>3, <1>4

\* The keys of evaluations: kept, those of the counters, or that of an idle
\* one; who is the store's fetch is kept or ends.
LEMMA RequestKeysKept ==
    ASSUME BaseInv, [Next]_vars, NEW p \in Requests
    PROVE  \/ request'[p].key = request[p].key /\ (request'[p].live => request[p].live)
           \/ request'[p] = IdleRequest
           \/ \E s \in Servers, which \in {"redis", "fallback"} :
                 /\ request'[p] = Begins(s, which)
                 /\ which = "redis" \/ faults' = faults + 1
<1> DEFINE Kept == \/ request'[p].key = request[p].key /\ (request'[p].live => request[p].live)
                   \/ request'[p] = IdleRequest
                   \/ \E s \in Servers, which \in {"redis", "fallback"} :
                         /\ request'[p] = Begins(s, which)
                         /\ which = "redis" \/ faults' = faults + 1
<1> SUFFICES Kept
  OBVIOUS
<1>0. request \in [Requests -> RequestType]
  BY DEF BaseInv, FlagsTypeOK
<1>1. CASE UNCHANGED request
  BY <1>1
<1>2. ASSUME NEW q \in Requests, GetUser(q) \/ GetAll(q) \/ Store(q) PROVE Kept
  BY <1>2, EvaluationKept
<1>5. ASSUME NEW q \in Requests, Answer(q) \/ FetchFails(q) PROVE Kept
  BY <1>0, <1>5 DEF Answer, FetchFails
<1>6. ASSUME NEW l \in Loads, LoadDone(l) PROVE Kept
  BY <1>6, EvaluationKept
<1>7. CASE Refetch \/ Pushed
  <2>0. Fetch
    BY <1>7 DEF Refetch, Pushed
  <2>1. PICK q \in Requests, s \in Servers, which \in {"redis", "fallback"} :
          /\ request[q].pc = "idle"
          /\ request' = [Outdated EXCEPT ![q] = Begins(s, which)]
          /\ request' \in [Requests -> RequestType]
          /\ request'[q] = Begins(s, which)
          /\ \A r \in Requests : r # q => request'[r] = [request[r] EXCEPT !.live = FALSE]
          /\ IF which = "redis" THEN faults' = faults ELSE faults' = faults + 1
          /\ faults' \in 0..MaxFaults
    BY <2>0, FetchFacts
  <2>2. p # q => request'[p].key = request[p].key /\ ~request'[p].live
    BY <1>0, <2>1 DEF RequestType
  <2> QED BY <2>1, <2>2
<1>8. ASSUME NEW s \in Servers, Crash(s) PROVE Kept
  BY <1>8 DEF Crash
<1>9. ASSUME NEW s \in Servers, EditFlag(s) \/ ReplaceRules(s) \/ Broadcast(s) \/ Connect(s) PROVE Kept
  BY <1>1, <1>9 DEF EditFlag, ReplaceRules, Commits, Broadcast, Connect, readersUnchanged
<1>10. ASSUME NEW n \in Changes, Handle(n) PROVE Kept
  BY <1>1, <1>10 DEF Handle, Emit, DropAll, Bump, readersUnchanged
<1>11. ASSUME NEW l \in Loads, LoadFind(l) PROVE Kept
  BY <1>1, <1>11 DEF LoadFind
<1>12. CASE ExpireAll \/ (\E k \in Keys : ExpireUser(k)) \/ DropStream \/ UNCHANGED vars
  BY <1>1, <1>12 DEF ExpireAll, ExpireUser, DropStream, vars, readersUnchanged
<1> HIDE DEF Kept
<1> QED
  BY <1>2, <1>5, <1>6, <1>7, <1>8, <1>9, <1>10, <1>11, <1>12
  DEF Next, Evaluate, Reload

\* An entry is written under the key of an evaluation.
LEMMA UserKept ==
    ASSUME BaseInv, [Next]_vars, NEW k \in Keys
    PROVE  \/ user'[k] \in {user[k], Absent}
           \/ \E q \in Requests : request[q].key = k
<1> DEFINE Kept == user'[k] \in {user[k], Absent} \/ \E q \in Requests : request[q].key = k
<1> SUFFICES Kept
  OBVIOUS
<1>0. user \in [Keys -> Contents \cup {Absent}]
  BY DEF BaseInv, FlagsTypeOK
<1>1. CASE UNCHANGED user
  BY <1>1
<1>2. ASSUME NEW q \in Requests, Store(q) PROVE Kept
  BY <1>0, <1>2 DEF Store
<1>3. ASSUME NEW j \in Keys, ExpireUser(j) PROVE Kept
  BY <1>0, <1>3 DEF ExpireUser
<1>4. ASSUME NEW q \in Requests, GetUser(q) \/ GetAll(q) \/ Answer(q) \/ FetchFails(q) PROVE Kept
  BY <1>1, <1>4 DEF GetUser, GetAll, Answer, FetchFails, cachesUnchanged
<1>5. ASSUME NEW l \in Loads, Reload(l) PROVE Kept
  BY <1>1, <1>5 DEF Reload, LoadFind, LoadDone, cachesUnchanged
<1>6. ASSUME NEW s \in Servers, EditFlag(s) \/ ReplaceRules(s) \/ Broadcast(s) \/ Connect(s) \/ Crash(s)
      PROVE  Kept
  BY <1>1, <1>6 DEF EditFlag, ReplaceRules, Commits, Broadcast, Connect, Crash, cachesUnchanged
<1>7. ASSUME NEW n \in Changes, Handle(n) PROVE Kept
  BY <1>1, <1>7 DEF Handle, Emit, DropAll, Bump, cachesUnchanged
<1>8. CASE ExpireAll \/ DropStream \/ Pushed \/ Refetch \/ UNCHANGED vars
  BY <1>1, <1>8 DEF ExpireAll, DropStream, Pushed, Refetch, vars, cachesUnchanged
<1> HIDE DEF Kept
<1> QED BY <1>2, <1>3, <1>4, <1>5, <1>6, <1>7, <1>8 DEF Next, Evaluate

\* No entry and no evaluation is under a version that has not been counted,
\* and none under the current one is older than a change that is done.
LEMMA KeysStep ==
    ASSUME OneServer, FlagsInv, BaseInv', [Next]_vars
    PROVE  KeysSound'
<1> BaseInv /\ KeysSound
  BY DEF FlagsInv, BaseInv
<1>0. counter["redis"] \in Nat /\ counter["fallback"] \in Nat
  BY Copies DEF BaseInv
<1>1. counter'["redis"] \in Nat /\ counter'["redis"] >= counter["redis"]
  <2>1. CASE UNCHANGED counter
    BY <1>0, <2>1
  <2>2. ASSUME NEW n \in Changes, Bump(n)
        PROVE  counter'["redis"] \in Nat /\ counter'["redis"] >= counter["redis"]
    BY <1>0, <2>2 DEF Bump, BumpOf, BaseInv, FlagsTypeOK
  <2> QED BY <2>1, <2>2, CountersKept
<1>2. ASSUME NEW k \in Keys, k[1] = "redis", k[2] > counter'["redis"]
      PROVE  user'[k] = Absent /\ \A q \in Requests : request'[q].key # k
  <2>0. k[2] \in Nat /\ k[2] > counter["redis"] /\ k[2] > 0
    BY <1>0, <1>1, <1>2, Constants DEF Keys, Contents
  <2>1. user[k] = Absent /\ \A q \in Requests : request[q].key # k
    BY <1>2, <2>0 DEF KeysSound
  <2>2. user'[k] = Absent
    BY <2>1, UserKept
  <2>3. ASSUME NEW q \in Requests PROVE request'[q].key # k
    <3>1. CASE request'[q].key = request[q].key
      BY <2>1, <3>1
    <3>2. CASE request'[q] = IdleRequest
      BY <2>0, <3>2, KeyFacts
    <3>3. ASSUME NEW s \in Servers, NEW which \in {"redis", "fallback"}, request'[q] = Begins(s, which)
          PROVE  request'[q].key # k
      BY <1>0, <1>2, <2>0, <3>3, BeginsFacts
    <3> QED BY <3>1, <3>2, <3>3, RequestKeysKept
  <2> QED BY <2>2, <2>3
<1>3. ASSUME counter'["fallback"] = 0, NEW n \in Changes, handler'[n].pc = "done"
      PROVE  KeyGood(Key, n)'
  <2>1. ASSUME NEW m \in Changes, Bump(m) PROVE KeyGood(Key, n)'
    <3>1. counter' = [counter EXCEPT !["redis"] = @ + 1]
      BY <1>0, <1>3, <2>1 DEF Bump, BumpOf, BaseInv, FlagsTypeOK
    <3>2. counter'["redis"] = counter["redis"] + 1
      BY <3>1 DEF BaseInv, FlagsTypeOK
    <3>3. Key' \in Keys /\ Key'[1] = "redis" /\ Key'[2] > counter["redis"]
      <4>1. counter'["redis"] \in Contents
        BY DEF BaseInv, FlagsTypeOK
      <4> QED BY <1>0, <3>2, <4>1 DEF Key, Keys
    <3>4. user[Key'] = Absent /\ \A q \in Requests : request[q].key # Key'
      BY <3>3 DEF KeysSound
    <3>5. UNCHANGED <<user, request>>
      BY <2>1 DEF Bump, readersUnchanged
    <3> QED BY <3>4, <3>5 DEF KeyGood
  <2>2. CASE ~(\E m \in Changes : Bump(m))
    <3>1. counter' = counter
      BY <2>2, CountersKept
    <3>2. Key' = Key /\ Key \in Keys
      BY <3>1, KeyFacts DEF Key
    <3>3. handler[n].pc = "done"
      BY <1>3, <2>2, HandlersMove
    <3>4. KeyGood(Key, n)
      BY <1>3, <3>1, <3>3 DEF KeysSound
    <3>5. KeysStay
      BY KeysStayStep
    <3> DEFINE k == Key
    <3>6. KeyGood(k, n) /\ k \in Keys
      BY <3>2, <3>4
    <3>7. Key' = k
      BY <3>2
    <3> QED BY <3>2, <3>3, <3>4, <3>5 DEF KeysStay, KeyGood
  <2> QED BY <2>1, <2>2
<1> QED BY <1>2, <1>3 DEF KeysSound

\* Every change whose handler is done is shown, announced, or in the answer
\* the store takes.
LEMMA ConnectedStep ==
    ASSUME OneServer, FlagsInv, BaseInv', KeysSound', [Next]_vars
    PROVE  ConnectedSound'
<1> BaseInv /\ ConnectedSound
  BY DEF FlagsInv, BaseInv
<1> SUFFICES ASSUME faults' = 0
             PROVE  /\ client'.stream # "none" /\ counter'["fallback"] = 0
                    /\ \A q \in Requests : request'[q].key[1] = "redis"
                    /\ \A n \in Changes : handler'[n].pc = "done" => OnItsWay(n)'
  BY DEF ConnectedSound
<1> DEFINE Good == /\ client'.stream # "none" /\ counter'["fallback"] = 0
                   /\ \A n \in Changes : handler'[n].pc = "done" => OnItsWay(n)'
                   /\ \A q \in Requests : request'[q].key[1] = "redis"
<1> SUFFICES Good
  OBVIOUS
<1>0. faults \in Nat /\ faults # -1
  BY Constants DEF BaseInv, FlagsTypeOK
<1>1. faults = 0
  <2>1. ASSUME NEW s \in Servers, EditFlag(s) \/ ReplaceRules(s) \/ Broadcast(s) \/ Connect(s) \/ Crash(s)
        PROVE  faults' \in {faults, faults + 1}
    BY <2>1 DEF EditFlag, ReplaceRules, Commits, Broadcast, Connect, Crash, Fault
  <2>2. ASSUME NEW n \in Changes, Handle(n) PROVE faults' \in {faults, faults + 1}
    BY <2>2 DEF Handle, Emit, DropAll, Bump, Fault
  <2>3. ASSUME NEW q \in Requests, Evaluate(q) \/ FetchFails(q) PROVE faults' \in {faults, faults + 1}
    BY <2>3 DEF Evaluate, GetUser, GetAll, Store, Answer, FetchFails, Fault
  <2>4. ASSUME NEW l \in Loads, Reload(l) PROVE faults' \in {faults, faults + 1}
    BY <2>4 DEF Reload, LoadFind, LoadDone
  <2>5. ASSUME ExpireAll \/ (\E k \in Keys : ExpireUser(k)) \/ DropStream \/ Pushed \/ Refetch \/ UNCHANGED vars
        PROVE  faults' \in {faults, faults + 1}
    BY <2>5 DEF ExpireAll, ExpireUser, DropStream, Pushed, Refetch, Fetch, vars, Fault
  <2>6. faults' \in {faults, faults + 1}
    BY <2>1, <2>2, <2>3, <2>4, <2>5 DEF Next
  <2> QED BY <1>0, <2>6
<1>2. /\ client.stream # "none" /\ counter["fallback"] = 0
      /\ \A q \in Requests : request[q].key[1] = "redis"
      /\ \A n \in Changes : handler[n].pc = "done" => OnItsWay(n)
  BY <1>1 DEF ConnectedSound
<1>3. \A q \in Requests : request'[q].key[1] = "redis"
  <2> SUFFICES ASSUME NEW q \in Requests PROVE request'[q].key[1] = "redis"
    OBVIOUS
  <2>1. CASE request'[q].key = request[q].key
    BY <1>2, <2>1
  <2>2. CASE request'[q] = IdleRequest
    BY <2>2, KeyFacts
  <2>3. ASSUME NEW s \in Servers, request'[q] = Begins(s, "redis") PROVE request'[q].key[1] = "redis"
    BY <2>3, BeginsFacts
  <2> QED BY <1>1, <2>1, <2>2, <2>3, RequestKeysKept
<1>4. KeysStay
  BY KeysStayStep
\* What a key had that a done change is under stays so.
<1>5. ASSUME NEW n \in Changes, handler[n].pc = "done", NEW k \in Keys, KeyGood(k, n)
      PROVE  KeyGood(k, n)'
  BY <1>4, <1>5 DEF KeysStay
\* A step that takes no fetch from the store and leaves the browser alone.
<1> DEFINE Aside == /\ UNCHANGED <<counter, client>>
                    /\ \A s \in Servers : server'[s].timer = server[s].timer
                    /\ \A q \in Requests : /\ request'[q].live = request[q].live
                                            /\ request'[q].key = request[q].key
                    /\ \A n \in Changes : handler'[n].pc = "done" => handler[n].pc = "done"
<1>a. ASSUME Aside PROVE Good
  <2>1. ASSUME NEW n \in Changes, handler'[n].pc = "done" PROVE OnItsWay(n)'
    <3>1. handler[n].pc = "done" /\ OnItsWay(n)
      BY <1>2, <1>a, <2>1
    <3>2. ASSUME LiveGood(n), NEW q \in Requests, request'[q].live
          PROVE  (KeyGood(request[q].key, n))'
      <4>0. request[q].live /\ request'[q].key = request[q].key /\ request[q].key \in Keys
        BY <1>a, <3>2, Copies DEF BaseInv
      <4>1. PICK k \in Keys : k = request[q].key /\ KeyGood(k, n) /\ request'[q].key = k
        BY <3>2, <4>0 DEF LiveGood
      <4>2. KeyGood(k, n)'
        BY <1>5, <3>1, <4>1
      <4> QED BY <4>1, <4>2 DEF KeyGood
    <3>3. LiveGood(n) => LiveGood(n)'
      BY <3>2 DEF LiveGood
    <3> QED BY <1>a, <3>1, <3>3 DEF OnItsWay
  <2> QED BY <1>2, <1>3, <1>a, <2>1
<1>6. ASSUME NEW n \in Changes, Bump(n) PROVE Good
  <2>1. counter' = [counter EXCEPT !["redis"] = @ + 1]
    BY <1>0, <1>1, <1>6 DEF Bump, BumpOf, Fault
  <2>2. handler[n].server \in Servers /\ server'[handler[n].server].timer
    BY <1>6, HandlerServer DEF Bump, BaseInv, FlagsTypeOK, ServerType
  <2>3. UNCHANGED client /\ counter'["fallback"] = counter["fallback"]
    BY <1>6, <2>1 DEF Bump, BaseInv, FlagsTypeOK
  <2> QED BY <1>2, <1>3, <2>2, <2>3 DEF OnItsWay
<1>7. ASSUME NEW s \in Servers, Broadcast(s) PROVE Good
  <2>1. client.stream = s
    BY <1>2 DEF OneServer, BaseInv, FlagsTypeOK
  <2>2. client'.pushed /\ client'.stream = s /\ s # "none" /\ UNCHANGED counter
    BY <1>7, <2>1, Constants DEF Broadcast, BaseInv, FlagsTypeOK, cachesUnchanged
  <2> QED BY <1>2, <1>3, <2>2 DEF OnItsWay
<1>8. CASE Refetch \/ Pushed
  <2>0. Fetch /\ UNCHANGED <<handler, counter>> /\ client'.stream = client.stream
    BY <1>8 DEF Refetch, Pushed, adminUnchanged, cachesUnchanged, BaseInv, FlagsTypeOK
  <2>1. PICK q \in Requests, s \in Servers, which \in {"redis", "fallback"} :
          /\ request[q].pc = "idle"
          /\ request' = [Outdated EXCEPT ![q] = Begins(s, which)]
          /\ request' \in [Requests -> RequestType]
          /\ request'[q] = Begins(s, which)
          /\ \A p \in Requests : p # q => request'[p] = [request[p] EXCEPT !.live = FALSE]
          /\ IF which = "redis" THEN faults' = faults ELSE faults' = faults + 1
          /\ faults' \in 0..MaxFaults
    BY <2>0, FetchFacts
  <2>2. which = "redis"
    BY <1>1, <2>1
  <2>3. request'[q].live /\ request'[q].key = Key
    BY <2>1, <2>2, BeginsFacts
  <2>4. \A p \in Requests : p # q => ~request'[p].live
    BY <2>1 DEF BaseInv, FlagsTypeOK, RequestType
  <2>5. Key' = Key
    BY <2>0 DEF Key
  <2>6. ASSUME NEW n \in Changes, handler'[n].pc = "done" PROVE OnItsWay(n)'
    <3>1. KeyGood(Key, n)'
      BY <1>2, <2>0, <2>6 DEF KeysSound
    <3>2. (KeyGood(request[q].key, n))'
      BY <2>3, <2>5, <3>1 DEF KeyGood
    <3>3. LiveGood(n)'
      BY <2>4, <3>2 DEF LiveGood
    <3> QED BY <2>3, <3>3 DEF OnItsWay
  <2> QED BY <1>2, <1>3, <2>0, <2>6
<1>9. ASSUME NEW q \in Requests, Answer(q) PROVE Good
  <2>0. UNCHANGED <<handler, counter, server>> /\ request[q].pc = "answer"
    BY <1>9 DEF Answer, adminUnchanged, cachesUnchanged
  <2>1. /\ \A p \in Requests : p # q => request'[p] = request[p]
        /\ ~request'[q].live
    BY <1>9, KeyFacts DEF Answer, BaseInv, FlagsTypeOK
  <2>2. /\ client'.stream = client.stream /\ client'.pushed = client.pushed
        /\ client'.flags = IF request[q].live THEN request[q].content ELSE client.flags
    BY <1>9 DEF Answer, CurrentEpoch, BaseInv, FlagsTypeOK
  <2>3. ASSUME NEW n \in Changes, handler'[n].pc = "done" PROVE OnItsWay(n)'
    <3>1. handler[n].pc = "done" /\ OnItsWay(n)
      BY <1>2, <2>0, <2>3
    <3>2. CASE (\E s \in Servers : server[s].timer) \/ client.pushed
      BY <2>0, <2>2, <3>2 DEF OnItsWay
    <3>3. CASE LiveGood(n) /\ (client.flags >= n \/ \E p \in Requests : request[p].live)
      <4>1. ASSUME NEW p \in Requests, request'[p].live PROVE (KeyGood(request[p].key, n))'
        <5>1. p # q /\ request'[p] = request[p] /\ request[p].key \in Keys
          BY <2>1, <4>1, Copies DEF BaseInv
        <5>2. PICK k \in Keys : k = request[p].key /\ KeyGood(k, n) /\ request'[p].key = k
          BY <3>3, <4>1, <5>1 DEF LiveGood
        <5>3. KeyGood(k, n)'
          BY <1>5, <3>1, <5>2
        <5> QED BY <5>2, <5>3 DEF KeyGood
      <4>0. LiveGood(n)'
        BY <4>1 DEF LiveGood
      <4>2. request[q].live => client'.flags >= n
        BY <2>0, <2>2, <3>3 DEF KeyGood, LiveGood
      <4>3. ~request[q].live => client'.flags >= n \/ \E p \in Requests : request'[p].live
        BY <2>1, <2>2, <3>3
      <4> QED BY <4>0, <4>2, <4>3 DEF OnItsWay
    <3> QED BY <3>1, <3>2, <3>3 DEF OnItsWay
  <2> QED BY <1>2, <1>3, <2>0, <2>2, <2>3
<1>10. ASSUME NEW q \in Requests, FetchFails(q) PROVE FALSE
  BY <1>0, <1>1, <1>10 DEF FetchFails, Fault
<1>11. ASSUME NEW s \in Servers, Crash(s) PROVE FALSE
  BY <1>0, <1>1, <1>11 DEF Crash, Fault
<1>12. ASSUME NEW s \in Servers, Connect(s) PROVE FALSE
  BY <1>2, <1>12 DEF Connect
<1>13. ~DropStream
  BY <1>0, <1>1 DEF DropStream, Fault
\* The other steps leave the browser, the announcement and the keys alone.
<1> DEFINE Same == UNCHANGED <<counter, client>> /\ \A s \in Servers : server'[s].timer = server[s].timer
<1>14. CASE UNCHANGED request /\ Same /\ \A n \in Changes : handler'[n].pc = "done" => handler[n].pc = "done"
  BY <1>a, <1>14
<1>15. ASSUME NEW s \in Servers, EditFlag(s) \/ ReplaceRules(s) PROVE Good
  BY <1>14, <1>15 DEF EditFlag, ReplaceRules, Commits, BaseInv, FlagsTypeOK, cachesUnchanged, readersUnchanged
<1>16. ASSUME NEW n \in Changes, Emit(n) \/ DropAll(n) PROVE Good
  <2>0. server \in [Servers -> ServerType]
    BY DEF BaseInv, FlagsTypeOK
  <2>1. \A s \in Servers : server'[s].timer = server[s].timer
    <3>1. CASE Emit(n)
      <4>1. handler[n].server \in Servers
        BY <3>1, HandlerServer DEF BaseInv, Emit
      <4> QED BY <2>0, <3>1, <4>1 DEF Emit, Detach, ServerType
    <3>2. CASE DropAll(n)
      BY <3>2 DEF DropAll
    <3> QED BY <1>16, <3>1, <3>2
  <2>2. \A m \in Changes : handler'[m].pc = "done" => handler[m].pc = "done"
    BY <1>16 DEF Emit, DropAll, BaseInv, FlagsTypeOK, HandlerType
  <2> QED BY <1>14, <1>16, <2>1, <2>2 DEF Emit, DropAll, cachesUnchanged, readersUnchanged
<1>17. ASSUME NEW q \in Requests, GetUser(q) \/ GetAll(q) \/ Store(q) PROVE Good
  <2>1. \A p \in Requests : request'[p].key = request[p].key /\ request'[p].live = request[p].live
    BY <1>17, EvaluationKept
  <2>0. server \in [Servers -> ServerType]
    BY DEF BaseInv, FlagsTypeOK
  <2>2. \A s \in Servers : server'[s].timer = server[s].timer
    <3>1. UNCHANGED server \/ \E t \in Servers : \E l : server' = [server EXCEPT ![t].inFlight = l]
      <4>1. GetAll(q) => request[q].server \in Servers
        BY RequestFacts DEF GetAll
      <4> QED BY <1>17, <4>1 DEF GetUser, GetAll, Store
    <3> QED BY <2>0, <3>1 DEF ServerType
  <2> QED BY <1>17, <1>a, <2>1, <2>2 DEF GetUser, GetAll, Store, adminUnchanged, cachesUnchanged
<1>18. ASSUME NEW l \in Loads, LoadDone(l) PROVE Good
  <2>1. \A p \in Requests : request'[p].key = request[p].key /\ request'[p].live = request[p].live
    BY <1>18, EvaluationKept
  <2>2. \A s \in Servers : server'[s].timer = server[s].timer
    BY <1>18 DEF LoadDone, BaseInv, FlagsTypeOK, ServerType
  <2> QED BY <1>18, <1>a, <2>1, <2>2 DEF LoadDone, adminUnchanged
<1>19. ASSUME NEW l \in Loads, LoadFind(l) PROVE Good
  BY <1>14, <1>19 DEF LoadFind, adminUnchanged, cachesUnchanged
<1>20. CASE ExpireAll \/ (\E k \in Keys : ExpireUser(k)) \/ UNCHANGED vars
  BY <1>14, <1>20 DEF ExpireAll, ExpireUser, vars, adminUnchanged, readersUnchanged
<1> HIDE DEF Good, Aside, Same
<1>21. ASSUME NEW s \in Servers, EditFlag(s) \/ ReplaceRules(s) \/ Broadcast(s) \/ Connect(s) \/ Crash(s)
       PROVE  Good
  BY <1>7, <1>11, <1>12, <1>15, <1>21
<1>22. ASSUME NEW n \in Changes, Handle(n) PROVE Good
  BY <1>6, <1>16, <1>22 DEF Handle
<1>23. ASSUME NEW q \in Requests, Evaluate(q) \/ FetchFails(q) PROVE Good
  BY <1>9, <1>10, <1>17, <1>23 DEF Evaluate
<1>24. ASSUME NEW l \in Loads, Reload(l) PROVE Good
  BY <1>18, <1>19, <1>24 DEF Reload
<1>25. Good
  BY <1>8, <1>13, <1>20, <1>21, <1>22, <1>23, <1>24 DEF Next
<1> QED BY <1>25

LEMMA FlagsInvInit == Init => FlagsInv
<1> SUFFICES ASSUME Init PROVE FlagsInv
  OBVIOUS
<1>1. BaseInv
  BY BaseInit
<1>2. ListsSound
  BY DEF Init, ListsSound, IdleHandler, IdleLoad
<1>3. KeysSound
  <2>1. ASSUME NEW k \in Keys, k[2] > counter["redis"] PROVE \A q \in Requests : request[q].key # k
    <3>1. k[2] # 0
      BY <2>1 DEF Init
    <3> QED BY <1>1, <3>1, KeyFacts DEF Init
  <2> QED BY <2>1 DEF Init, KeysSound, IdleHandler
<1>4. ConnectedSound
  <2>1. client.stream # "none"
    BY Constants DEF Init
  <2>2. \A q \in Requests : request[q].key[1] = "redis"
    BY <1>1, KeyFacts DEF Init
  <2> QED BY <2>1, <2>2 DEF Init, ConnectedSound, IdleHandler
<1> QED BY <1>1, <1>2, <1>3, <1>4 DEF BaseInv, FlagsInv

LEMMA FlagsInvStep ==
    ASSUME OneServer, FlagsInv, [Next]_vars
    PROVE  FlagsInv'
<1>1. BaseInv'
  BY BaseStep DEF FlagsInv, BaseInv
<1>2. ListsSound' /\ KeysSound'
  BY <1>1, ListsStep, KeysStep
<1>3. ConnectedSound'
  BY <1>1, <1>2, ConnectedStep
<1> QED BY <1>1, <1>2, <1>3 DEF BaseInv, FlagsInv

\* Once the invalidation of a change is over, neither cache level serves the
\* flags without it, on one instance, however many reloads and evaluations
\* were under way when it began.
THEOREM SettledVisible ==
    ASSUME OneServer
    PROVE  Spec => []SettledIsVisible
<1>1. FlagsInv => SettledIsVisible
  <2> SUFFICES ASSUME FlagsInv PROVE SettledIsVisible
    OBVIOUS
  <2>1. ListsSound /\ KeysSound
    BY DEF FlagsInv
  <2>2. \A n \in Changes : handler[n].pc = "done" /\ counter["fallback"] = 0 =>
            (user[Key] # Absent => user[Key] >= n)
    BY <2>1 DEF KeysSound, KeyGood
  <2> QED BY <2>1, <2>2 DEF SettledIsVisible, ListsSound, Key
<1> QED BY <1>1, FlagsInvInit, FlagsInvStep, PTL DEF Spec

\* A browser that stayed connected shows every change once nothing is under
\* way: the broadcast is armed after the invalidation, and the answer the
\* store takes was computed after the announcement.
THEOREM ConnectedCurrent ==
    ASSUME OneServer
    PROVE  Spec => []ConnectedIsCurrent
<1>1. FlagsInv => ConnectedIsCurrent
  <2> SUFFICES ASSUME FlagsInv, faults = 0,
                      \A n \in Changes : handler[n].pc \in {"idle", "done"},
                      \A s \in Servers : ~server[s].timer,
                      ~client.pushed, \A q \in Requests : request[q].pc = "idle"
               PROVE  client.flags = content
    BY DEF ConnectedIsCurrent
  <2>0. BaseInv /\ ConnectedSound
    BY DEF FlagsInv, BaseInv
  <2>1. content \in Nat /\ content <= MaxChanges /\ client.flags \in Nat /\ client.flags <= content
    BY <2>0, Copies DEF BaseInv, AgesSound
  <2>2. \A q \in Requests : ~request[q].live
    BY <2>0 DEF BaseInv, ReadersSound
  <2>3. CASE content = 0
    BY <2>1, <2>3
  <2>4. CASE content # 0
    <3>1. content \in Changes /\ handler[content].pc = "done"
      BY <2>0, <2>1, <2>4, Constants DEF BaseInv, AgesSound, Changes
    <3>2. OnItsWay(content)
      BY <2>0, <3>1 DEF ConnectedSound
    <3>3. client.flags >= content
      BY <2>2, <3>2 DEF OnItsWay
    <3> QED BY <2>1, <3>3
  <2> QED BY <2>3, <2>4
<1> QED BY <1>1, FlagsInvInit, FlagsInvStep, PTL DEF Spec

----------------------------------------------------------------------------
(* The editors of a flag: what a page has been shown, and what is under    *)
(* way.                                                                    *)

Shown == [version : Int, enabled : BOOLEAN, text : Texts, rules : Rules]
PageType ==
    [row : Shown, dialog : {"closed", "create", "edit"}, existing : Shown,
     marked : BOOLEAN, asked : Rules \cup {"any"}]
SaveType ==
    [pc : {"idle", "create", "update", "reply", "failed", "rules", "rulesReply", "rulesFailed"},
     existing : Shown, new : Body, changed : BOOLEAN, confirmed : BOOLEAN, left : BOOLEAN]
OpType ==
    [pc : {"idle", "toggle", "delete", "reply", "gone", "failed"}, confirmed : BOOLEAN]

EditorsTyped ==
    /\ flag \in Shown /\ flag.version >= -1 /\ (flag.version = 0 => flag = NoFlag)
    /\ page \in [Admins -> PageType] /\ save \in [Admins -> SaveType]
    /\ op \in [Admins -> OpType]

(* What was shown of the flag is not younger than the flag, and the        *)
(* version tells whether it is the flag.                                   *)
ShownOf(x) ==
    flag.version >= 0 => x.version <= flag.version /\ (x.version = flag.version => x = flag)

VersionsTell(a) ==
    /\ ShownOf(page[a].row) /\ ShownOf(page[a].existing) /\ ShownOf(save[a].existing)
    /\ save[a].changed <=> save[a].new.rules # save[a].existing.rules
    /\ page[a].dialog # "edit" => page[a].existing.rules = "none"
    /\ page[a].dialog = "edit" => page[a].existing.version > 0
    /\ save[a].existing.version = 0 => save[a].existing.rules = "none"

(* The rules a page has put, until somebody else changes them: on their    *)
(* way, stored, or marked as failed.                                       *)
AskedIsStored(a) == page[a].asked \in {"any", flag.rules}

RulesFollowed(a) ==
    /\ save[a].left => page[a].asked = "any" /\ save[a].pc \in {"create", "update", "rules"}
    /\ save[a].pc = "rules" => page[a].asked \in {"any", save[a].new.rules}
    /\ save[a].pc = "rulesReply" => AskedIsStored(a)
    /\ save[a].pc \notin {"rules", "rulesFailed"} /\ ~page[a].marked => AskedIsStored(a)

EditorsInv == EditorsTyped /\ \A a \in Admins : VersionsTell(a) /\ RulesFollowed(a)

----------------------------------------------------------------------------
(* The flag, and what a step leaves of it. *)

(* f may be the flag after a step.                                         *)
MayFollow(f) ==
    /\ f \in Shown /\ f.version >= -1 /\ (f.version = 0 => f = NoFlag)
    /\ f = flag \/ f.version = -1 \/ (flag.version >= 0 /\ f.version = flag.version + 1)

\* The flag nobody has created yet, and the one that is deleted.
LEMMA FirstFlags ==
    /\ NoFlag \in Shown /\ NoFlag.version = 0 /\ NoFlag.rules = "none"
    /\ Deleted \in Shown /\ Deleted.version = -1
<1>1. NoFlag \in Shown /\ NoFlag.version = 0 /\ NoFlag.rules = "none"
  BY DEF NoFlag, Shown, Texts, Rules
<1>2. ASSUME NEW n \in Int
      PROVE  [NoFlag EXCEPT !.version = n] \in Shown /\ [NoFlag EXCEPT !.version = n].version = n
  BY <1>1 DEF Shown
<1>3. Deleted \in Shown /\ Deleted.version = -1
  <2>1. -1 \in Int
    OBVIOUS
  <2> QED BY <1>2, <2>1 DEF Deleted
<1> QED BY <1>1, <1>3

\* What was shown stays what was shown.
LEMMA ShownKept ==
    ASSUME EditorsTyped, MayFollow(flag'), NEW x \in Shown, ShownOf(x)
    PROVE  ShownOf(x)'
<1>1. flag.version \in Int /\ x.version \in Int /\ flag'.version \in Int /\ flag.version >= -1
  BY DEF EditorsTyped, MayFollow, Shown
<1>2. CASE flag' = flag
  BY <1>2 DEF ShownOf
<1>3. CASE flag'.version = -1
  BY <1>3 DEF ShownOf
<1>4. CASE flag.version >= 0 /\ flag'.version = flag.version + 1
  BY <1>1, <1>4 DEF ShownOf
<1> QED BY <1>2, <1>3, <1>4 DEF MayFollow

\* The flag itself and the one nobody has created are as they were shown.
LEMMA ShownNow ==
    ASSUME MayFollow(flag')
    PROVE  ShownOf(flag)' /\ ShownOf(NoFlag)'
<1>1. flag' \in Shown /\ (flag'.version = 0 => flag' = NoFlag) /\ flag'.version \in Int
  BY DEF MayFollow, Shown
<1>2. ShownOf(flag)'
  BY <1>1 DEF ShownOf
<1>3. ShownOf(NoFlag)'
  BY <1>1, FirstFlags DEF ShownOf, NoFlag
<1> QED BY <1>2, <1>3

\* The flag may stay as it is.
LEMMA FlagNow ==
    ASSUME EditorsTyped
    PROVE  /\ flag \in Shown /\ flag.version \in Int /\ flag.version >= -1
           /\ (flag.version = 0 => flag = NoFlag) /\ MayFollow(flag)
BY DEF EditorsTyped, Shown, MayFollow

\* What the service answers: a refusal changes nothing, and nothing but the
\* rules' own call and a deletion changes the rules.
LEMMA CreateAnswers ==
    ASSUME EditorsTyped, NEW body \in Body
    PROVE  /\ MayFollow(Create(body).flag) /\ Create(body).flag.rules = flag.rules
           /\ Create(body).ok \in BOOLEAN
<1>0. /\ flag \in Shown /\ flag.version \in Int /\ flag.version >= -1 /\ MayFollow(flag)
      /\ (flag.version = 0 => flag = NoFlag)
      /\ body.enabled \in BOOLEAN /\ body.text \in Texts
  BY FlagNow DEF Body
<1>1. CASE flag.version # 0
  BY <1>0, <1>1 DEF Create, Refused
<1>2. CASE flag.version = 0
  <2> DEFINE f == [version |-> 1, enabled |-> body.enabled, text |-> body.text, rules |-> "none"]
  <2>1. Create(body).flag = f /\ Create(body).ok
    BY <1>2 DEF Create, Ok
  <2>2. f \in Shown /\ f.version = 1 /\ f.rules = "none"
    BY <1>0 DEF Shown, Rules
  <2> HIDE DEF f
  <2> QED BY <1>0, <1>2, <2>1, <2>2, FirstFlags DEF MayFollow, Create, Ok
<1> QED BY <1>1, <1>2

LEMMA UpdateAnswers ==
    ASSUME EditorsTyped, NEW body \in Body, NEW v \in Int
    PROVE  /\ MayFollow(Update(body, v).flag) /\ Update(body, v).flag.rules = flag.rules
           /\ Update(body, v).ok \in BOOLEAN
           /\ Update(body, v).ok => flag.version >= 1 /\ flag.version = v
<1>0. /\ flag \in Shown /\ flag.version \in Int /\ flag.version >= -1 /\ MayFollow(flag)
      /\ (flag.version = 0 => flag = NoFlag)
      /\ body.enabled \in BOOLEAN /\ body.text \in Texts
  BY FlagNow DEF Body
<1>1. CASE flag.version < 1 \/ flag.version # v
  BY <1>0, <1>1 DEF Update, Refused
<1>2. CASE ~(flag.version < 1 \/ flag.version # v)
  <2> DEFINE f == [flag EXCEPT !.enabled = body.enabled, !.text = body.text, !.version = @ + 1]
  <2>1. Update(body, v).flag = f /\ Update(body, v).ok = TRUE
    BY <1>2 DEF Update, Ok
  <2>2. flag.version + 1 \in Int
    BY <1>0
  <2>3. f \in Shown /\ f.version = flag.version + 1 /\ f.rules = flag.rules
    BY <1>0, <2>2 DEF Shown
  <2> HIDE DEF f
  <2>4. MayFollow(f)
    BY <1>0, <1>2, <2>3 DEF MayFollow
  <2>5. flag.version >= 1 /\ flag.version = v
    BY <1>0, <1>2
  <2>6. MayFollow(Update(body, v).flag) /\ Update(body, v).flag.rules = flag.rules
    BY <2>1, <2>3, <2>4
  <2> QED BY <2>1, <2>5, <2>6
<1> QED BY <1>1, <1>2

LEMMA ToggleAnswers ==
    ASSUME EditorsTyped
    PROVE  MayFollow(Toggle.flag) /\ Toggle.flag.rules = flag.rules /\ Toggle.ok \in BOOLEAN
<1>0. /\ flag \in Shown /\ flag.version \in Int /\ flag.version >= -1 /\ MayFollow(flag)
      /\ (flag.version = 0 => flag = NoFlag)
  BY FlagNow
<1>1. CASE flag.version < 1
  BY <1>0, <1>1 DEF Toggle, Refused
<1>2. CASE ~(flag.version < 1)
  <2> DEFINE f == [flag EXCEPT !.enabled = ~@, !.version = @ + 1]
  <2>1. Toggle.flag = f /\ Toggle.ok = TRUE
    BY <1>2 DEF Toggle, Ok
  <2>2. flag.version + 1 \in Int
    BY <1>0
  <2>3. (~flag.enabled) \in BOOLEAN
    OBVIOUS
  <2>4. f \in Shown /\ f.version = flag.version + 1 /\ f.rules = flag.rules
    BY <1>0, <2>2, <2>3 DEF Shown
  <2> HIDE DEF f
  <2>5. MayFollow(f)
    BY <1>0, <1>2, <2>4 DEF MayFollow
  <2> QED BY <1>0, <1>2, <2>1, <2>4, <2>5
<1> QED BY <1>1, <1>2

LEMMA RulesAnswers ==
    ASSUME EditorsTyped, NEW rules \in Rules
    PROVE  LET answer == ReplaceStoredRules(rules) IN
           /\ MayFollow(answer.flag) /\ answer.ok \in BOOLEAN
           /\ answer.ok => answer.flag.rules = rules /\ answer.flag # flag
           /\ ~answer.ok => answer.flag = flag
<1>0. /\ flag \in Shown /\ flag.version \in Int /\ flag.version >= -1 /\ MayFollow(flag)
      /\ (flag.version = 0 => flag = NoFlag)
  BY FlagNow
<1>1. CASE flag.version < 1 \/ rules \in Broken
  BY <1>0, <1>1 DEF ReplaceStoredRules, Refused
<1>2. CASE ~(flag.version < 1 \/ rules \in Broken)
  <2> DEFINE f == [flag EXCEPT !.rules = rules, !.version = @ + 1]
  <2>1. ReplaceStoredRules(rules).flag = f /\ ReplaceStoredRules(rules).ok = TRUE
    BY <1>2 DEF ReplaceStoredRules, Ok
  <2>2. flag.version + 1 \in Int
    BY <1>0
  <2>3. f \in Shown /\ f.version = flag.version + 1 /\ f.rules = rules
    BY <1>0, <2>2 DEF Shown
  <2> HIDE DEF f
  <2>4. MayFollow(f) /\ f # flag
    BY <1>0, <1>2, <2>3 DEF MayFollow
  <2> QED BY <1>0, <1>2, <2>1, <2>3, <2>4
<1> QED BY <1>1, <1>2

LEMMA DeleteAnswers ==
    ASSUME EditorsTyped
    PROVE  MayFollow(Delete.flag) /\ Delete.ok \in BOOLEAN
<1>1. MayFollow(flag)
  BY FlagNow
<1> QED BY <1>1, FirstFlags DEF Delete, Refused, Ok, MayFollow

----------------------------------------------------------------------------
(* The steps of the page. *)

(* Page and save of b are as they were, but that another's change of the   *)
(* rules ends what b expects of them.                                      *)
OtherPage(b) ==
    /\ save'[b] = save[b] /\ page'[b].row = page[b].row
    /\ page'[b].existing = page[b].existing /\ page'[b].marked = page[b].marked
    /\ page'[b].dialog = page[b].dialog
    /\ \/ page'[b].asked = "any"
       \/ page'[b].asked = page[b].asked /\ flag'.rules = flag.rules

\* A step at the page of a, or of the server on its behalf.
LEMMA EditorStep ==
    ASSUME EditorsInv, NEW a \in Admins, MayFollow(flag'),
           page' \in [Admins -> PageType], save' \in [Admins -> SaveType],
           op' \in [Admins -> OpType],
           \A b \in Admins : b # a => OtherPage(b),
           VersionsTell(a)', RulesFollowed(a)'
    PROVE  EditorsInv'
<1>0. EditorsTyped
  BY DEF EditorsInv
<1>1. EditorsTyped'
  BY DEF EditorsTyped, MayFollow
<1>2. ASSUME NEW b \in Admins, b # a
      PROVE  VersionsTell(b)' /\ RulesFollowed(b)'
  <2>1. VersionsTell(b) /\ RulesFollowed(b) /\ OtherPage(b)
    BY <1>2 DEF EditorsInv
  <2>2. page[b].row \in Shown /\ page[b].existing \in Shown /\ save[b].existing \in Shown
    BY <1>0 DEF EditorsTyped, PageType, SaveType
  <2>3. ShownOf(page[b].row)' /\ ShownOf(page[b].existing)' /\ ShownOf(save[b].existing)'
    <3>1. \A x \in Shown : ShownOf(x) => (flag'.version >= 0 =>
             x.version <= flag'.version /\ (x.version = flag'.version => x = flag'))
      BY <1>0, ShownKept DEF ShownOf
    <3> QED BY <2>1, <2>2, <3>1 DEF VersionsTell, OtherPage, ShownOf
  <2>4. VersionsTell(b)'
    BY <2>1, <2>3 DEF VersionsTell, OtherPage
  <2>5. RulesFollowed(b)'
    BY <2>1 DEF RulesFollowed, OtherPage, AskedIsStored
  <2> QED BY <2>4, <2>5
<1> QED BY <1>1, <1>2 DEF EditorsInv

\* What is known before a step.
LEMMA EditorFacts ==
    ASSUME EditorsInv, NEW a \in Admins
    PROVE  /\ EditorsTyped /\ VersionsTell(a) /\ RulesFollowed(a)
           /\ page[a] \in PageType /\ save[a] \in SaveType /\ op[a] \in OpType
           /\ flag \in Shown /\ MayFollow(flag)
           /\ page[a].row \in Shown /\ page[a].existing \in Shown
           /\ save[a].existing \in Shown /\ save[a].existing.version \in Int
           /\ save[a].new \in Body /\ save[a].new.rules \in Rules
BY DEF EditorsInv, EditorsTyped, PageType, SaveType, MayFollow, Shown, Body

\* What a fresh page and an idle save are made of.
LEMMA Fresh ==
    /\ FreshPage \in PageType /\ FreshPage.row = NoFlag /\ FreshPage.existing = NoFlag
    /\ FreshPage.dialog = "closed" /\ ~FreshPage.marked /\ FreshPage.asked = "any"
    /\ IdleSave \in SaveType /\ IdleSave.pc = "idle" /\ IdleSave.existing = NoFlag
    /\ IdleSave.changed = FALSE /\ IdleSave.new.rules = "none" /\ IdleSave.left = FALSE
    /\ IdleOp \in OpType
<1>1. NoFlag \in Shown /\ NoFlag.rules = "none"
  BY FirstFlags
<1>2. BodyOf(NoFlag) \in Body /\ BodyOf(NoFlag).rules = "none"
  BY <1>1 DEF BodyOf, Body, Shown
<1> QED BY <1>1, <1>2 DEF FreshPage, IdleSave, IdleOp, PageType, SaveType, OpType

\* A step of the page alone: it shows the flag or keeps what it has shown.
LEMMA PageStep ==
    ASSUME EditorsInv, NEW a \in Admins, NEW p \in PageType, NEW s \in SaveType,
           page' = [page EXCEPT ![a] = p], save' = [save EXCEPT ![a] = s], flag' = flag,
           op' \in [Admins -> OpType],
           p.row \in {page[a].row, flag, NoFlag},
           p.existing \in {page[a].existing, page[a].row, NoFlag},
           s.existing \in {save[a].existing, page[a].existing, NoFlag},
           s.changed <=> s.new.rules # s.existing.rules,
           p.dialog # "edit" => p.existing.rules = "none",
           p.dialog = "edit" => p.existing.version > 0,
           s.existing.version = 0 => s.existing.rules = "none",
           s.left => p.asked = "any" /\ s.pc \in {"create", "update", "rules"},
           s.pc = "rules" => p.asked \in {"any", s.new.rules},
           s.pc = "rulesReply" => p.asked \in {"any", flag.rules},
           s.pc \notin {"rules", "rulesFailed"} /\ ~p.marked => p.asked \in {"any", flag.rules}
    PROVE  EditorsInv'
<1>0. EditorsTyped /\ VersionsTell(a) /\ MayFollow(flag')
  BY EditorFacts
<1>1. /\ page'[a] = p /\ save'[a] = s
      /\ page' \in [Admins -> PageType] /\ save' \in [Admins -> SaveType]
      /\ \A b \in Admins : b # a => page'[b] = page[b] /\ save'[b] = save[b]
  BY <1>0 DEF EditorsTyped
<1>2. \A b \in Admins : b # a => OtherPage(b)
  BY <1>1 DEF OtherPage
<1>3. ShownOf(flag) /\ ShownOf(NoFlag)
  BY <1>0, ShownNow DEF ShownOf
<1>4. ShownOf(p.row) /\ ShownOf(p.existing) /\ ShownOf(s.existing)
  BY <1>0, <1>3 DEF VersionsTell
<1>5. VersionsTell(a)'
  BY <1>1, <1>4 DEF VersionsTell, ShownOf
<1>6. RulesFollowed(a)'
  BY <1>1 DEF RulesFollowed, AskedIsStored
<1> QED BY <1>0, <1>1, <1>2, <1>5, <1>6, EditorStep

\* The page that is loaded, and the dialog that is opened, submitted or left.
LEMMA LoadKeeps ==
    ASSUME EditorsInv, NEW a \in Admins, Load(a)
    PROVE  EditorsInv'
<1> DEFINE p == [page[a] EXCEPT !.row = flag]
<1>0. /\ page[a] \in PageType /\ flag \in Shown /\ save[a] \in SaveType
      /\ EditorsTyped /\ VersionsTell(a) /\ RulesFollowed(a)
  BY EditorFacts
<1>1. /\ p \in PageType /\ p.row = flag /\ p.existing = page[a].existing
      /\ p.dialog = page[a].dialog /\ p.marked = page[a].marked /\ p.asked = page[a].asked
  BY <1>0 DEF PageType
<1>2. /\ page' = [page EXCEPT ![a] = p] /\ save' = [save EXCEPT ![a] = save[a]]
      /\ flag' = flag /\ op' \in [Admins -> OpType]
  BY <1>0 DEF Load, EditorsTyped
<1> HIDE DEF p
<1> QED BY <1>0, <1>1, <1>2, PageStep DEF VersionsTell, RulesFollowed, AskedIsStored

LEMMA OpenDialogKeeps ==
    ASSUME EditorsInv, NEW a \in Admins, OpenDialog(a)
    PROVE  EditorsInv'
<1>0. /\ page[a] \in PageType /\ flag \in Shown /\ save[a] \in SaveType
      /\ EditorsTyped /\ VersionsTell(a) /\ RulesFollowed(a)
      /\ page[a].row \in Shown /\ NoFlag \in Shown /\ NoFlag.rules = "none"
  BY EditorFacts, FirstFlags
<1>1. CASE page' = [page EXCEPT ![a].dialog = "create", ![a].existing = NoFlag]
  <2> DEFINE p == [page[a] EXCEPT !.dialog = "create", !.existing = NoFlag]
  <2>1. /\ p \in PageType /\ p.row = page[a].row /\ p.existing = NoFlag
        /\ p.dialog = "create" /\ p.marked = page[a].marked /\ p.asked = page[a].asked
    BY <1>0 DEF PageType
  <2>2. /\ page' = [page EXCEPT ![a] = p] /\ save' = [save EXCEPT ![a] = save[a]]
        /\ flag' = flag /\ op' \in [Admins -> OpType]
    BY <1>0, <1>1 DEF OpenDialog, EditorsTyped
  <2> HIDE DEF p
  <2> QED BY <1>0, <2>1, <2>2, PageStep DEF VersionsTell, RulesFollowed, AskedIsStored
<1>2. CASE page[a].row.version > 0
           /\ page' = [page EXCEPT ![a].dialog = "edit", ![a].existing = page[a].row]
  <2> DEFINE p == [page[a] EXCEPT !.dialog = "edit", !.existing = page[a].row]
  <2>1. /\ p \in PageType /\ p.row = page[a].row /\ p.existing = page[a].row
        /\ p.dialog = "edit" /\ p.marked = page[a].marked /\ p.asked = page[a].asked
    BY <1>0 DEF PageType
  <2>2. /\ page' = [page EXCEPT ![a] = p] /\ save' = [save EXCEPT ![a] = save[a]]
        /\ flag' = flag /\ op' \in [Admins -> OpType]
    BY <1>0, <1>2 DEF OpenDialog, EditorsTyped
  <2> HIDE DEF p
  <2>3. p.existing.version > 0
    BY <1>2, <2>1
  <2>4. /\ save[a].changed <=> save[a].new.rules # save[a].existing.rules
        /\ save[a].existing.version = 0 => save[a].existing.rules = "none"
    BY <1>0 DEF VersionsTell
  <2>5. /\ save[a].left => p.asked = "any" /\ save[a].pc \in {"create", "update", "rules"}
        /\ save[a].pc = "rules" => p.asked \in {"any", save[a].new.rules}
        /\ save[a].pc = "rulesReply" => p.asked \in {"any", flag.rules}
        /\ save[a].pc \notin {"rules", "rulesFailed"} /\ ~p.marked
              => p.asked \in {"any", flag.rules}
    BY <1>0, <2>1 DEF RulesFollowed, AskedIsStored
  <2> QED BY <1>0, <2>1, <2>2, <2>3, <2>4, <2>5, PageStep
<1> QED BY <1>1, <1>2 DEF OpenDialog

LEMMA CancelKeeps ==
    ASSUME EditorsInv, NEW a \in Admins, Cancel(a)
    PROVE  EditorsInv'
<1> DEFINE p == [page[a] EXCEPT !.dialog = "closed", !.existing = NoFlag]
<1>0. /\ page[a] \in PageType /\ flag \in Shown /\ save[a] \in SaveType
      /\ EditorsTyped /\ VersionsTell(a) /\ RulesFollowed(a)
      /\ NoFlag \in Shown /\ NoFlag.rules = "none"
  BY EditorFacts, FirstFlags
<1>1. /\ p \in PageType /\ p.row = page[a].row /\ p.existing = NoFlag
      /\ p.dialog = "closed" /\ p.marked = page[a].marked /\ p.asked = page[a].asked
  BY <1>0 DEF PageType
<1>2. /\ page' = [page EXCEPT ![a] = p] /\ save' = [save EXCEPT ![a] = save[a]]
      /\ flag' = flag /\ op' \in [Admins -> OpType]
  BY <1>0 DEF Cancel, EditorsTyped
<1> HIDE DEF p
<1> QED BY <1>0, <1>1, <1>2, PageStep DEF VersionsTell, RulesFollowed, AskedIsStored

\* A new dialog overwrites nothing, and the rules it starts from are none.
LEMMA SubmitKeeps ==
    ASSUME EditorsInv, NEW a \in Admins, Submit(a)
    PROVE  EditorsInv'
<1> DEFINE p == [page[a] EXCEPT !.dialog = "closed", !.existing = NoFlag]
<1>0. /\ page[a] \in PageType /\ flag \in Shown /\ save[a] \in SaveType
      /\ EditorsTyped /\ VersionsTell(a) /\ RulesFollowed(a)
      /\ page[a].existing \in Shown /\ NoFlag \in Shown /\ NoFlag.rules = "none"
  BY EditorFacts, FirstFlags
<1>1. /\ p \in PageType /\ p.row = page[a].row /\ p.existing = NoFlag
      /\ p.dialog = "closed" /\ p.marked = page[a].marked /\ p.asked = page[a].asked
  BY <1>0 DEF PageType
<1>2. PICK enabled \in BOOLEAN, rules \in Rules :
         save' = [save EXCEPT ![a] =
             [IdleSave EXCEPT
                !.pc = IF page[a].dialog = "create" THEN "create" ELSE "update",
                !.existing = page[a].existing,
                !.new = [enabled |-> enabled, text |-> a, rules |-> rules],
                !.changed = RulesChanged(page[a].existing, rules),
                !.confirmed = enabled /\ ~HasIncludeRules(rules)]]
  BY DEF Submit
<1> DEFINE s == save'[a]
<1>3. /\ s.pc \in {"create", "update"} /\ s.existing = page[a].existing
      /\ s.new.rules = rules /\ s.left = FALSE
  BY <1>0, <1>2 DEF EditorsTyped, IdleSave
<1>4. s.changed <=> rules # page[a].existing.rules
  BY <1>0, <1>2 DEF EditorsTyped, IdleSave, RulesChanged
<1>5. s \in SaveType
  <2>1. [enabled |-> enabled, text |-> a, rules |-> rules] \in Body
    BY DEF Body, Texts
  <2>2. /\ (enabled /\ ~HasIncludeRules(rules)) \in BOOLEAN
        /\ RulesChanged(page[a].existing, rules) \in BOOLEAN
    BY DEF RulesChanged
  <2>3. IdleSave \in SaveType
    BY Fresh
  <2>4. s = [IdleSave EXCEPT
                !.pc = IF page[a].dialog = "create" THEN "create" ELSE "update",
                !.existing = page[a].existing,
                !.new = [enabled |-> enabled, text |-> a, rules |-> rules],
                !.changed = RulesChanged(page[a].existing, rules),
                !.confirmed = enabled /\ ~HasIncludeRules(rules)]
    BY <1>0, <1>2 DEF EditorsTyped
  <2> QED BY <1>0, <2>1, <2>2, <2>3, <2>4 DEF SaveType
<1>6. /\ page' = [page EXCEPT ![a] = p] /\ save' = [save EXCEPT ![a] = s]
      /\ flag' = flag /\ op' \in [Admins -> OpType]
  BY <1>0, <1>2 DEF Submit, EditorsTyped
<1>7. page[a].existing.version = 0 => page[a].existing.rules = "none"
  BY <1>0 DEF VersionsTell, PageType
<1>8. ~p.marked => p.asked \in {"any", flag.rules} \/ save[a].pc \in {"rules", "rulesFailed"}
  BY <1>0, <1>1 DEF RulesFollowed, AskedIsStored
<1>9. save[a].pc = "idle"
  BY DEF Submit
<1> HIDE DEF p, s
<1> QED BY <1>0, <1>1, <1>3, <1>4, <1>5, <1>6, <1>7, <1>8, <1>9, PageStep

\* A toggle or a deletion that is only asked for.
LEMMA AskingKeeps ==
    ASSUME EditorsInv, NEW a \in Admins, flag' = flag, page' = page, save' = save,
           op' \in [Admins -> OpType]
    PROVE  EditorsInv'
<1>0. /\ EditorsTyped /\ VersionsTell(a) /\ RulesFollowed(a)
      /\ page[a] \in PageType /\ save[a] \in SaveType
  BY EditorFacts
<1>1. MayFollow(flag') /\ \A b \in Admins : OtherPage(b)
  BY <1>0, EditorFacts DEF OtherPage
<1>2. page' \in [Admins -> PageType] /\ save' \in [Admins -> SaveType]
  BY <1>0 DEF EditorsTyped
<1>3. VersionsTell(a)' /\ RulesFollowed(a)'
  BY <1>0 DEF VersionsTell, RulesFollowed, ShownOf, AskedIsStored
<1> QED BY <1>1, <1>2, <1>3, EditorStep

\* The two that ask.
LEMMA AskToggleKeeps ==
    ASSUME EditorsInv, NEW a \in Admins, AskToggle(a)
    PROVE  EditorsInv'
<1>1. op \in [Admins -> OpType]
  BY DEF EditorsInv, EditorsTyped
<1>2. ASSUME NEW c \in BOOLEAN
      PROVE  [IdleOp EXCEPT !.pc = "toggle", !.confirmed = c] \in OpType
  BY DEF IdleOp, OpType
<1>3. op' \in [Admins -> OpType]
  BY <1>1, <1>2 DEF AskToggle
<1> QED BY <1>3, AskingKeeps DEF AskToggle

LEMMA AskDeleteKeeps ==
    ASSUME EditorsInv, NEW a \in Admins, AskDelete(a)
    PROVE  EditorsInv'
<1>1. op \in [Admins -> OpType] /\ [IdleOp EXCEPT !.pc = "delete"] \in OpType
  BY DEF EditorsInv, EditorsTyped, IdleOp, OpType
<1>2. op' \in [Admins -> OpType]
  BY <1>1 DEF AskDelete
<1> QED BY <1>2, AskingKeeps DEF AskDelete

\* A page that is left expects nothing; what its save has sent may be served.
LEMMA LeaveKeeps ==
    ASSUME EditorsInv, NEW a \in Admins, Leave(a)
    PROVE  EditorsInv'
<1> DEFINE s == IF save[a].pc \in {"create", "update", "rules"}
                  THEN [save[a] EXCEPT !.left = TRUE] ELSE IdleSave
           o == IF op[a].pc \in {"toggle", "delete"} THEN op[a] ELSE IdleOp
<1>0. /\ EditorsTyped /\ VersionsTell(a)
      /\ save[a] \in SaveType /\ op[a] \in OpType
  BY EditorFacts
<1>1. /\ s \in SaveType
      /\ \/ s = IdleSave
         \/ /\ s.pc = save[a].pc /\ s.existing = save[a].existing /\ s.new = save[a].new
            /\ s.changed = save[a].changed
            /\ s.pc \in {"create", "update", "rules"}
  BY <1>0, Fresh DEF SaveType
<1>2. /\ page' = [page EXCEPT ![a] = FreshPage] /\ save' = [save EXCEPT ![a] = s] /\ flag' = flag
  BY DEF Leave
<1>3. op' \in [Admins -> OpType]
  BY <1>0, Fresh DEF Leave, EditorsTyped
<1>4. s.changed <=> s.new.rules # s.existing.rules
  BY <1>0, <1>1, Fresh, FirstFlags DEF VersionsTell
<1>5. s.existing.version = 0 => s.existing.rules = "none"
  BY <1>0, <1>1, Fresh, FirstFlags DEF VersionsTell
<1>6. s.existing \in {save[a].existing, NoFlag}
      /\ (s.left => s.pc \in {"create", "update", "rules"})
  BY <1>1, Fresh
<1> HIDE DEF s, o
<1> QED BY <1>1, <1>2, <1>3, <1>4, <1>5, <1>6, Fresh, FirstFlags, PageStep

----------------------------------------------------------------------------
(* The answers, at the page. *)

\* A save that only moves on, or is over.
LEMMA SaveStep ==
    ASSUME EditorsInv, NEW a \in Admins, NEW s \in SaveType,
           page' = page, save' = [save EXCEPT ![a] = s], flag' = flag,
           op' \in [Admins -> OpType], save[a].pc \notin {"rules", "rulesFailed"},
           ~save[a].left,
           \/ s = IdleSave
           \/ /\ s.existing = save[a].existing /\ s.new = save[a].new /\ s.left = FALSE
              /\ s.changed = save[a].changed /\ s.pc \in {"failed", "rulesFailed"}
    PROVE  EditorsInv'
<1>0. /\ EditorsTyped /\ VersionsTell(a) /\ RulesFollowed(a) /\ page[a] \in PageType
  BY EditorFacts
<1>1. page' = [page EXCEPT ![a] = page[a]]
  BY <1>0 DEF EditorsTyped
<1>2. /\ s.changed <=> s.new.rules # s.existing.rules
      /\ s.existing.version = 0 => s.existing.rules = "none"
      /\ s.left = FALSE /\ s.existing \in {save[a].existing, NoFlag}
      /\ s.pc \in {"idle", "failed", "rulesFailed"}
  BY <1>0, Fresh, FirstFlags DEF VersionsTell
<1>3. /\ page[a].dialog # "edit" => page[a].existing.rules = "none"
      /\ page[a].dialog = "edit" => page[a].existing.version > 0
  BY <1>0 DEF VersionsTell
<1>4. ~page[a].marked => page[a].asked \in {"any", flag.rules}
  BY <1>0 DEF RulesFollowed, AskedIsStored
<1> QED BY <1>0, <1>1, <1>2, <1>3, <1>4, PageStep

LEMMA LoseAnswerKeeps ==
    ASSUME EditorsInv, NEW a \in Admins, LoseAnswer(a)
    PROVE  EditorsInv'
<1>0. /\ EditorsTyped /\ RulesFollowed(a) /\ save[a] \in SaveType /\ op[a] \in OpType
  BY EditorFacts
<1>1. CASE /\ save[a].pc \in {"reply", "rulesReply"}
           /\ save' = [save EXCEPT ![a].pc = IF @ = "reply" THEN "failed" ELSE "rulesFailed"]
           /\ op' = op
  <2> DEFINE s == [save[a] EXCEPT !.pc = IF save[a].pc = "reply" THEN "failed" ELSE "rulesFailed"]
  <2>1. ~save[a].left
    BY <1>0, <1>1 DEF RulesFollowed
  <2>2. /\ s \in SaveType /\ s.existing = save[a].existing /\ s.new = save[a].new
        /\ s.changed = save[a].changed /\ s.pc \in {"failed", "rulesFailed"} /\ s.left = save[a].left
    BY <1>0 DEF SaveType
  <2>3. s.left = FALSE
    BY <1>0, <2>1, <2>2 DEF SaveType
  <2>4. page' = page /\ save' = [save EXCEPT ![a] = s] /\ flag' = flag /\ op' \in [Admins -> OpType]
    BY <1>0, <1>1 DEF LoseAnswer, EditorsTyped
  <2> HIDE DEF s
  <2> QED BY <1>1, <2>1, <2>2, <2>3, <2>4, SaveStep
<1>2. CASE /\ op' = [op EXCEPT ![a].pc = "failed"] /\ save' = save
  <2>1. op' \in [Admins -> OpType]
    BY <1>0, <1>2 DEF EditorsTyped, OpType
  <2> QED BY <1>2, <2>1, AskingKeeps DEF LoseAnswer
<1> QED BY <1>1, <1>2 DEF LoseAnswer

LEMMA FlagNotSavedKeeps ==
    ASSUME EditorsInv, NEW a \in Admins, FlagNotSaved(a)
    PROVE  EditorsInv'
<1>0. /\ EditorsTyped /\ RulesFollowed(a)
  BY EditorFacts
<1>1. ~save[a].left /\ save[a].pc \in {"failed", "reply"}
  BY <1>0 DEF RulesFollowed, FlagNotSaved
<1>2. page' = page /\ save' = [save EXCEPT ![a] = IdleSave] /\ flag' = flag /\ op' \in [Admins -> OpType]
  BY <1>0 DEF FlagNotSaved, EditorsTyped
<1> QED BY <1>1, <1>2, Fresh, SaveStep

\* The rules are put next, or they were left alone.
LEMMA FlagSavedKeeps ==
    ASSUME EditorsInv, NEW a \in Admins, FlagSaved(a)
    PROVE  EditorsInv'
<1> DEFINE q == IF save[a].changed THEN save[a].new.rules ELSE page[a].asked
           p == [page[a] EXCEPT !.row = flag, !.asked = q]
           s == IF NeedsRules(save[a]) THEN [save[a] EXCEPT !.pc = "rules"] ELSE IdleSave
<1>0. /\ EditorsTyped /\ VersionsTell(a) /\ RulesFollowed(a)
      /\ page[a] \in PageType /\ save[a] \in SaveType /\ flag \in Shown
      /\ save[a].new.rules \in Rules
  BY EditorFacts
<1>1. save[a].pc = "reply" /\ save[a].left = FALSE
  BY <1>0 DEF FlagSaved, RulesFollowed, SaveType
<1>2. q \in Rules \cup {"any"}
  BY <1>0 DEF PageType
<1>3. /\ p \in PageType /\ p.row = flag /\ p.existing = page[a].existing
      /\ p.dialog = page[a].dialog /\ p.marked = page[a].marked /\ p.asked = q
  BY <1>0, <1>2 DEF PageType
<1>4. /\ s \in SaveType /\ s.left = FALSE
      /\ \/ s = IdleSave /\ ~NeedsRules(save[a])
         \/ /\ NeedsRules(save[a]) /\ s.pc = "rules"
            /\ s.existing = save[a].existing /\ s.new = save[a].new
            /\ s.changed = save[a].changed
  BY <1>0, <1>1, Fresh DEF SaveType
<1>5. /\ page' = [page EXCEPT ![a] = p] /\ save' = [save EXCEPT ![a] = s]
      /\ flag' = flag /\ op' \in [Admins -> OpType]
  BY <1>0 DEF FlagSaved, EditorsTyped
<1>6. save[a].changed <=> NeedsRules(save[a])
  BY <1>0 DEF VersionsTell, NeedsRules
<1>7. ~page[a].marked => page[a].asked \in {"any", flag.rules}
  BY <1>0, <1>1 DEF RulesFollowed, AskedIsStored
<1>8. /\ s.pc = "rules" => p.asked = s.new.rules
      /\ s.pc # "rules" => s = IdleSave /\ p.asked = page[a].asked
  BY <1>3, <1>4, <1>6, Fresh
<1>9. /\ s.changed <=> s.new.rules # s.existing.rules
      /\ s.existing.version = 0 => s.existing.rules = "none"
      /\ s.existing \in {save[a].existing, NoFlag}
  BY <1>0, <1>4, Fresh, FirstFlags DEF VersionsTell
<1>10. /\ page[a].dialog # "edit" => page[a].existing.rules = "none"
       /\ page[a].dialog = "edit" => page[a].existing.version > 0
  BY <1>0 DEF VersionsTell
<1> HIDE DEF p, q, s
<1> QED BY <1>3, <1>4, <1>5, <1>7, <1>8, <1>9, <1>10, Fresh, PageStep

\* The second call is answered: the rules are stored, or the row is marked.
LEMMA RulesAnswered ==
    ASSUME EditorsInv, NEW a \in Admins, NEW p \in PageType,
           page' = [page EXCEPT ![a] = p], save' = [save EXCEPT ![a] = IdleSave],
           flag' = flag, op' = op,
           p.row \in {page[a].row, flag}, p.existing = page[a].existing,
           p.dialog = page[a].dialog, p.asked = page[a].asked,
           p.marked \/ save[a].pc = "rulesReply"
    PROVE  EditorsInv'
<1>0. /\ EditorsTyped /\ VersionsTell(a) /\ RulesFollowed(a)
  BY EditorFacts
<1>1. ~p.marked => p.asked \in {"any", flag.rules}
  BY <1>0 DEF RulesFollowed, AskedIsStored
<1>2. /\ page[a].dialog # "edit" => page[a].existing.rules = "none"
      /\ page[a].dialog = "edit" => page[a].existing.version > 0
  BY <1>0 DEF VersionsTell
<1>3. op' \in [Admins -> OpType]
  BY <1>0 DEF EditorsTyped
<1> QED BY <1>1, <1>2, <1>3, Fresh, FirstFlags, PageStep

LEMMA RulesSavedKeeps ==
    ASSUME EditorsInv, NEW a \in Admins, RulesSaved(a)
    PROVE  EditorsInv'
<1> DEFINE p == [page[a] EXCEPT !.row = flag, !.marked = FALSE]
<1>0. EditorsTyped /\ page[a] \in PageType /\ flag \in Shown
  BY EditorFacts
<1>1. /\ p \in PageType /\ p.row = flag /\ p.existing = page[a].existing
      /\ p.dialog = page[a].dialog /\ p.asked = page[a].asked
  BY <1>0 DEF PageType
<1>2. page' = [page EXCEPT ![a] = p]
  BY <1>0 DEF RulesSaved, EditorsTyped
<1> HIDE DEF p
<1> QED BY <1>1, <1>2, RulesAnswered DEF RulesSaved

LEMMA RulesNotSavedKeeps ==
    ASSUME EditorsInv, NEW a \in Admins, RulesNotSaved(a)
    PROVE  EditorsInv'
<1> DEFINE p == Marked(page[a])
<1>0. EditorsTyped /\ page[a] \in PageType
  BY EditorFacts
<1>1. /\ p \in PageType /\ p.row = page[a].row /\ p.existing = page[a].existing
      /\ p.dialog = page[a].dialog /\ p.asked = page[a].asked /\ p.marked
  BY <1>0 DEF PageType, Marked
<1>2. page' = [page EXCEPT ![a] = p]
  BY DEF RulesNotSaved
<1>3. save' = [save EXCEPT ![a] = IdleSave] /\ flag' = flag /\ op' = op
  BY DEF RulesNotSaved
<1>4. p.row \in {page[a].row, flag} /\ (p.marked \/ save[a].pc = "rulesReply")
  BY <1>1
<1> HIDE DEF p
<1> QED BY <1>1, <1>2, <1>3, <1>4, RulesAnswered

LEMMA OpDoneKeeps ==
    ASSUME EditorsInv, NEW a \in Admins, OpDone(a)
    PROVE  EditorsInv'
<1>0. /\ EditorsTyped /\ VersionsTell(a) /\ RulesFollowed(a) /\ op[a] \in OpType
      /\ page[a] \in PageType /\ save[a] \in SaveType /\ flag \in Shown
      /\ NoFlag \in Shown
  BY EditorFacts, FirstFlags
<1>1. op' \in [Admins -> OpType] /\ flag' = flag /\ save' = save
  BY <1>0, Fresh DEF OpDone, EditorsTyped
<1>2. ASSUME NEW row \in {flag, NoFlag}, page' = [page EXCEPT ![a].row = row]
      PROVE  EditorsInv'
  <2> DEFINE p == [page[a] EXCEPT !.row = row]
  <2>1. /\ p \in PageType /\ p.row = row /\ p.existing = page[a].existing
        /\ p.dialog = page[a].dialog /\ p.marked = page[a].marked /\ p.asked = page[a].asked
    BY <1>0 DEF PageType
  <2>2. page' = [page EXCEPT ![a] = p] /\ save' = [save EXCEPT ![a] = save[a]]
    BY <1>0, <1>1, <1>2 DEF EditorsTyped
  <2> HIDE DEF p
  <2>3. /\ save[a].changed <=> save[a].new.rules # save[a].existing.rules
        /\ save[a].existing.version = 0 => save[a].existing.rules = "none"
        /\ page[a].dialog # "edit" => page[a].existing.rules = "none"
        /\ page[a].dialog = "edit" => page[a].existing.version > 0
    BY <1>0 DEF VersionsTell
  <2>4. /\ save[a].left => p.asked = "any" /\ save[a].pc \in {"create", "update", "rules"}
        /\ save[a].pc = "rules" => p.asked \in {"any", save[a].new.rules}
        /\ save[a].pc = "rulesReply" => p.asked \in {"any", flag.rules}
        /\ save[a].pc \notin {"rules", "rulesFailed"} /\ ~p.marked
              => p.asked \in {"any", flag.rules}
    BY <1>0, <2>1 DEF RulesFollowed, AskedIsStored
  <2>5. /\ p.row \in {page[a].row, flag, NoFlag}
        /\ p.existing \in {page[a].existing, page[a].row, NoFlag}
    BY <2>1
  <2> QED BY <1>0, <1>1, <2>1, <2>2, <2>3, <2>4, <2>5, PageStep
<1>3. CASE page' = page
  BY <1>1, <1>3, AskingKeeps
<1>4. CASE op[a].pc = "reply" /\ Found
  <2>1. page' = [page EXCEPT ![a].row = flag]
    BY <1>4 DEF OpDone
  <2> QED BY <1>2, <2>1
<1>5. CASE op[a].pc = "gone"
  <2>1. page' = [page EXCEPT ![a].row = NoFlag]
    BY <1>5 DEF OpDone
  <2> QED BY <1>2, <2>1
<1>6. CASE ~(op[a].pc = "reply" /\ Found) /\ op[a].pc # "gone"
  <2>1. page' = page
    BY <1>6 DEF OpDone
  <2> QED BY <1>3, <2>1
<1> QED BY <1>4, <1>5, <1>6

----------------------------------------------------------------------------
(* The server at work. *)

(* What a step of the server leaves of the page of a, and of its save.     *)
Served(a) ==
    /\ page'[a].row = page[a].row /\ page'[a].existing = page[a].existing
    /\ page'[a].dialog = page[a].dialog
    /\ \/ save'[a] = IdleSave
       \/ save'[a].existing = save[a].existing /\ save'[a].new = save[a].new
          /\ save'[a].changed = save[a].changed

LEMMA ServerStep ==
    ASSUME EditorsInv, NEW a \in Admins, MayFollow(flag'),
           page' \in [Admins -> PageType], save' \in [Admins -> SaveType],
           op' \in [Admins -> OpType], \A b \in Admins : b # a => OtherPage(b),
           Served(a), RulesFollowed(a)'
    PROVE  EditorsInv'
<1>0. EditorsTyped /\ VersionsTell(a)
  BY EditorFacts
<1>1. page[a].row \in Shown /\ page[a].existing \in Shown /\ save[a].existing \in Shown
  BY EditorFacts
<1>2. \A x \in Shown : ShownOf(x) => (flag'.version >= 0 =>
         x.version <= flag'.version /\ (x.version = flag'.version => x = flag'))
  BY <1>0, ShownKept DEF ShownOf
<1>3. flag'.version >= 0 =>
         NoFlag.version <= flag'.version /\ (NoFlag.version = flag'.version => NoFlag = flag')
  BY ShownNow DEF ShownOf
<1>4. save'[a].existing \in {save[a].existing, NoFlag}
  BY Fresh DEF Served
<1>5. ShownOf(page[a].row)' /\ ShownOf(page[a].existing)' /\ ShownOf(save[a].existing)'
  BY <1>0, <1>1, <1>2, <1>3, <1>4 DEF VersionsTell, Served, ShownOf
<1>6. /\ save'[a].changed <=> save'[a].new.rules # save'[a].existing.rules
      /\ save'[a].existing.version = 0 => save'[a].existing.rules = "none"
  BY <1>0, Fresh, FirstFlags DEF VersionsTell, Served
<1>7. /\ page'[a].dialog # "edit" => page'[a].existing.rules = "none"
      /\ page'[a].dialog = "edit" => page'[a].existing.version > 0
  BY <1>0 DEF VersionsTell, Served
<1>8. VersionsTell(a)'
  BY <1>5, <1>6, <1>7 DEF VersionsTell
<1> QED BY <1>8, EditorStep

\* A call of a save that is answered: the save goes on, or nobody waits for it.
LEMMA HandledSave ==
    ASSUME EditorsInv, NEW a \in Admins, NEW call, NEW answer,
           NEW next \in {"reply", "rulesReply"}, NEW failed \in {"failed", "rulesFailed"},
           Handled(a, call, answer, next, failed), answer.ok \in BOOLEAN
    PROVE  /\ save' \in [Admins -> SaveType] /\ op' \in [Admins -> OpType]
           /\ \A b \in Admins : b # a => save'[b] = save[b]
           /\ \/ save[a].left /\ save'[a] = IdleSave
              \/ /\ save'[a].existing = save[a].existing /\ save'[a].new = save[a].new
                 /\ save'[a].changed = save[a].changed /\ ~save[a].left /\ save'[a].left = FALSE
                 /\ save'[a].pc = IF answer.ok THEN next ELSE failed
<1> DEFINE s == IF save[a].left THEN IdleSave
                ELSE [save[a] EXCEPT !.pc = IF answer.ok THEN next ELSE failed]
<1>0. EditorsTyped /\ save[a] \in SaveType
  BY EditorFacts
<1>1. save' = [save EXCEPT ![a] = s] /\ op' = op
  BY DEF Handled
<1>2. CASE save[a].left
  <2>1. s = IdleSave
    BY <1>2
  <2> HIDE DEF s
  <2> QED BY <1>0, <1>1, <1>2, <2>1, Fresh DEF EditorsTyped
<1>3. CASE ~save[a].left
  <2>1. s = [save[a] EXCEPT !.pc = IF answer.ok THEN next ELSE failed]
    BY <1>3
  <2>2. /\ s \in SaveType /\ s.existing = save[a].existing /\ s.new = save[a].new
        /\ s.changed = save[a].changed /\ s.left = save[a].left
        /\ s.pc = IF answer.ok THEN next ELSE failed
    BY <1>0, <2>1 DEF SaveType
  <2>3. save[a].left = FALSE
    BY <1>0, <1>3 DEF SaveType
  <2> HIDE DEF s
  <2> QED BY <1>0, <1>1, <1>3, <2>2, <2>3 DEF EditorsTyped
<1> QED BY <1>2, <1>3

\* The flag is created or updated: its rules are as they were.
LEMMA FlagServed ==
    ASSUME EditorsInv, NEW a \in Admins, NEW call \in {"create", "update"}, NEW answer,
           Handled(a, call, answer, "reply", "failed"), answer.ok \in BOOLEAN,
           MayFollow(answer.flag), answer.flag.rules = flag.rules, page' = page
    PROVE  EditorsInv'
<1>0. EditorsTyped /\ RulesFollowed(a) /\ page' \in [Admins -> PageType]
  BY EditorFacts DEF EditorsTyped
<1>1. save[a].pc \in {"create", "update"} /\ MayFollow(flag') /\ flag'.rules = flag.rules
  BY DEF Handled, MayFollow
<1>2. /\ save' \in [Admins -> SaveType] /\ op' \in [Admins -> OpType]
      /\ \A b \in Admins : b # a => save'[b] = save[b]
      /\ \/ save[a].left /\ save'[a] = IdleSave
         \/ /\ save'[a].existing = save[a].existing /\ save'[a].new = save[a].new
            /\ save'[a].changed = save[a].changed /\ ~save[a].left /\ save'[a].left = FALSE
            /\ save'[a].pc = IF answer.ok THEN "reply" ELSE "failed"
  BY HandledSave
<1>3. Served(a) /\ \A b \in Admins : b # a => OtherPage(b)
  BY <1>1, <1>2 DEF Served, OtherPage
<1>4. save'[a].pc \in {"idle", "reply", "failed"} /\ save'[a].left = FALSE
  BY <1>2, Fresh
<1>5. ~page[a].marked => page[a].asked \in {"any", flag.rules}
  BY <1>0, <1>1 DEF RulesFollowed, AskedIsStored
<1>6. RulesFollowed(a)'
  BY <1>1, <1>4, <1>5 DEF RulesFollowed, AskedIsStored
<1> QED BY <1>0, <1>1, <1>2, <1>3, <1>6, ServerStep

LEMMA ServeCreateKeeps ==
    ASSUME EditorsInv, NEW a \in Admins, ServeCreate(a)
    PROVE  EditorsInv'
<1>1. EditorsTyped /\ save[a].new \in Body
  BY EditorFacts
<1>2. LET answer == Create(save[a].new) IN
      answer.ok \in BOOLEAN /\ MayFollow(answer.flag) /\ answer.flag.rules = flag.rules
  BY <1>1, CreateAnswers
<1> QED BY <1>2, FlagServed DEF ServeCreate

LEMMA ServeUpdateKeeps ==
    ASSUME EditorsInv, NEW a \in Admins, ServeUpdate(a)
    PROVE  EditorsInv'
<1>1. EditorsTyped /\ save[a].new \in Body /\ save[a].existing.version \in Int
  BY EditorFacts
<1>2. LET answer == Update(save[a].new, save[a].existing.version) IN
      answer.ok \in BOOLEAN /\ MayFollow(answer.flag) /\ answer.flag.rules = flag.rules
  BY <1>1, UpdateAnswers
<1> QED BY <1>2, FlagServed DEF ServeUpdate

\* The rules are stored, as asked, and nobody else expects anything of them.
LEMMA ServeRulesKeeps ==
    ASSUME EditorsInv, NEW a \in Admins, ServeRules(a)
    PROVE  EditorsInv'
<1> DEFINE answer == ReplaceStoredRules(save[a].new.rules)
<1>0. /\ EditorsTyped /\ RulesFollowed(a) /\ save[a].new.rules \in Rules
      /\ page[a] \in PageType
  BY EditorFacts
<1>1. /\ MayFollow(answer.flag) /\ answer.ok \in BOOLEAN
      /\ answer.ok => answer.flag.rules = save[a].new.rules /\ answer.flag # flag
      /\ ~answer.ok => answer.flag = flag
  BY <1>0, RulesAnswers
<1>2. Handled(a, "rules", answer, "rulesReply", "rulesFailed")
  BY DEF ServeRules
<1>3. page' = IF flag' = flag THEN page ELSE Expecting(a)
  BY DEF ServeRules
<1> HIDE DEF answer
<1>4. save[a].pc = "rules" /\ flag' = answer.flag /\ MayFollow(flag')
  BY <1>1, <1>2 DEF Handled, MayFollow
<1>5. /\ save' \in [Admins -> SaveType] /\ op' \in [Admins -> OpType]
      /\ \A b \in Admins : b # a => save'[b] = save[b]
      /\ \/ save[a].left /\ save'[a] = IdleSave
         \/ /\ save'[a].existing = save[a].existing /\ save'[a].new = save[a].new
            /\ save'[a].changed = save[a].changed /\ ~save[a].left /\ save'[a].left = FALSE
            /\ save'[a].pc = IF answer.ok THEN "rulesReply" ELSE "rulesFailed"
  BY <1>1, <1>2, HandledSave
<1>6. /\ page' \in [Admins -> PageType] /\ page'[a] = page[a]
      /\ \A b \in Admins : b # a => OtherPage(b)
  <2>1. CASE flag' = flag
    BY <1>0, <1>3, <1>5, <2>1 DEF EditorsTyped, OtherPage
  <2>2. CASE flag' # flag
    <3>1. page' = [b \in Admins |-> IF b = a THEN page[b] ELSE [page[b] EXCEPT !.asked = "any"]]
      BY <1>3, <2>2 DEF Expecting
    <3>2. \A b \in Admins : page[b] \in PageType
      BY <1>0 DEF EditorsTyped
    <3>3. \A b \in Admins : [page[b] EXCEPT !.asked = "any"] \in PageType
      BY <3>2 DEF PageType
    <3>4. page' \in [Admins -> PageType] /\ page'[a] = page[a]
      BY <3>1, <3>2, <3>3
    <3>5. ASSUME NEW b \in Admins, b # a
          PROVE  OtherPage(b)
      <4>1. page'[b] = [page[b] EXCEPT !.asked = "any"] /\ save'[b] = save[b]
        BY <1>5, <3>1, <3>5
      <4>2. page[b] \in PageType
        BY <3>2
      <4> QED BY <4>1, <4>2 DEF OtherPage, PageType
    <3> QED BY <3>4, <3>5
  <2> QED BY <2>1, <2>2
<1>7. Served(a)
  BY <1>5, <1>6 DEF Served
<1>8. page[a].asked \in {"any", save[a].new.rules} /\ (save[a].left => page[a].asked = "any")
  BY <1>0, <1>4 DEF RulesFollowed
<1>9. RulesFollowed(a)'
  <2>1. CASE save[a].left /\ save'[a] = IdleSave
    BY <1>6, <1>8, <2>1, Fresh DEF RulesFollowed, AskedIsStored
  <2>2. CASE answer.ok /\ save'[a].pc = "rulesReply" /\ save'[a].left = FALSE
    BY <1>1, <1>4, <1>6, <1>8, <2>2 DEF RulesFollowed, AskedIsStored
  <2>3. CASE save'[a].pc = "rulesFailed" /\ save'[a].left = FALSE
    BY <2>3 DEF RulesFollowed
  <2> QED BY <1>5, <2>1, <2>2, <2>3
<1> QED BY <1>4, <1>5, <1>6, <1>7, <1>9, ServerStep

\* A toggle leaves the rules; a deletion ends what anybody expects of them.
LEMMA ServeOpKeeps ==
    ASSUME EditorsInv, NEW a \in Admins, ServeOp(a)
    PROVE  EditorsInv'
<1>0. /\ EditorsTyped /\ RulesFollowed(a) /\ page \in [Admins -> PageType]
      /\ save \in [Admins -> SaveType] /\ op \in [Admins -> OpType]
      /\ \A b \in Admins : page[b] \in PageType /\ op[b] \in OpType
  BY EditorFacts DEF EditorsTyped
<1>1. save' = save /\ op' \in [Admins -> OpType]
  <2>1. \E n \in {"failed", "reply", "gone"} : op' = [op EXCEPT ![a].pc = n]
    BY DEF ServeOp
  <2> QED BY <1>0, <2>1 DEF ServeOp, OpType
<1>2. CASE op[a].pc = "toggle"
  <2>1. flag' = Toggle.flag /\ page' = page
    BY <1>2 DEF ServeOp
  <2>2. MayFollow(flag') /\ flag'.rules = flag.rules
    BY <1>0, <2>1, ToggleAnswers DEF MayFollow
  <2>3. RulesFollowed(a)' /\ Served(a) /\ \A b \in Admins : b # a => OtherPage(b)
    BY <1>0, <1>1, <2>1, <2>2 DEF RulesFollowed, AskedIsStored, Served, OtherPage
  <2> QED BY <1>0, <1>1, <2>1, <2>2, <2>3, ServerStep
<1>3. CASE op[a].pc = "delete"
  <2>1. flag' = Delete.flag /\ page' = [b \in Admins |-> [page[b] EXCEPT !.asked = "any"]]
    BY <1>3 DEF ServeOp
  <2>2. MayFollow(flag')
    BY <1>0, <2>1, DeleteAnswers DEF MayFollow
  <2>3. \A b \in Admins : /\ page'[b] \in PageType /\ page'[b].asked = "any"
                          /\ page'[b].row = page[b].row /\ page'[b].existing = page[b].existing
                          /\ page'[b].marked = page[b].marked /\ page'[b].dialog = page[b].dialog
    BY <1>0, <2>1 DEF PageType
  <2>4. RulesFollowed(a)' /\ Served(a) /\ \A b \in Admins : b # a => OtherPage(b)
    BY <1>0, <1>1, <2>3 DEF RulesFollowed, AskedIsStored, Served, OtherPage
  <2>5. page' \in [Admins -> PageType]
    BY <2>1, <2>3
  <2> QED BY <1>0, <1>1, <2>2, <2>4, <2>5, ServerStep
<1> QED BY <1>2, <1>3 DEF ServeOp

----------------------------------------------------------------------------
(* The theorem. *)

\* The invariant holds at first, and every step keeps it.
LEMMA EditorsStart == EditInit => EditorsInv
<1> SUFFICES ASSUME EditInit PROVE EditorsInv
  OBVIOUS
<1>1. /\ page = [a \in Admins |-> FreshPage] /\ save = [a \in Admins |-> IdleSave]
      /\ op = [a \in Admins |-> IdleOp]
  BY DEF EditInit
<1>2. /\ flag \in Shown /\ flag.version \in {0, 1}
      /\ (flag.version = 0 => flag = NoFlag)
  BY FirstFlags DEF EditInit, Shown, Texts, Rules
<1>3. EditorsTyped
  BY <1>1, <1>2, Fresh DEF EditorsTyped
<1>4. ShownOf(NoFlag)
  BY <1>2, FirstFlags DEF ShownOf
<1>5. ASSUME NEW a \in Admins
      PROVE  VersionsTell(a) /\ RulesFollowed(a)
  <2>1. page[a] = FreshPage /\ save[a] = IdleSave
    BY <1>1
  <2>2. VersionsTell(a)
    BY <1>4, <2>1, Fresh, FirstFlags DEF VersionsTell
  <2>3. RulesFollowed(a)
    BY <2>1, Fresh DEF RulesFollowed, AskedIsStored
  <2> QED BY <2>2, <2>3
<1> QED BY <1>3, <1>5 DEF EditorsInv

LEMMA EditorsKeep == EditorsInv /\ [EditNext]_editVars => EditorsInv'
<1> SUFFICES ASSUME EditorsInv, [EditNext]_editVars PROVE EditorsInv'
  OBVIOUS
<1>1. CASE UNCHANGED editVars
  BY <1>1 DEF editVars, EditorsInv, EditorsTyped, VersionsTell, RulesFollowed, ShownOf,
     AskedIsStored
<1>2. ASSUME NEW a \in Admins,
             \/ Load(a) \/ OpenDialog(a) \/ Submit(a) \/ Cancel(a)
             \/ AskToggle(a) \/ AskDelete(a) \/ Leave(a)
      PROVE  EditorsInv'
  BY <1>2, LoadKeeps, OpenDialogKeeps, SubmitKeeps, CancelKeeps, AskToggleKeeps,
     AskDeleteKeeps, LeaveKeeps
<1>3. ASSUME NEW a \in Admins,
             \/ ServeCreate(a) \/ ServeUpdate(a) \/ ServeRules(a)
             \/ ServeOp(a) \/ LoseAnswer(a)
      PROVE  EditorsInv'
  BY <1>3, ServeCreateKeeps, ServeUpdateKeeps, ServeRulesKeeps, ServeOpKeeps, LoseAnswerKeeps
<1>4. ASSUME NEW a \in Admins,
             \/ FlagSaved(a) \/ FlagNotSaved(a) \/ RulesSaved(a) \/ RulesNotSaved(a)
             \/ OpDone(a)
      PROVE  EditorsInv'
  BY <1>4, FlagSavedKeeps, FlagNotSavedKeeps, RulesSavedKeeps, RulesNotSavedKeeps, OpDoneKeeps
<1> QED BY <1>1, <1>2, <1>3, <1>4 DEF EditNext

\* A save is answered for its flag by nothing but the service's update.
LEMMA AnsweredByUpdate ==
    ASSUME EditorsInv, EditNext, NEW a \in Admins, save[a].pc = "update", save'[a].pc = "reply"
    PROVE  ServeUpdate(a)
<1>0. save \in [Admins -> SaveType] /\ save[a] \in SaveType
  BY DEF EditorsInv, EditorsTyped
<1>1. PICK b \in Admins :
       \/ Load(b) \/ OpenDialog(b) \/ Submit(b) \/ Cancel(b)
       \/ AskToggle(b) \/ AskDelete(b) \/ Leave(b)
       \/ ServeCreate(b) \/ ServeUpdate(b) \/ ServeRules(b)
       \/ ServeOp(b) \/ LoseAnswer(b)
       \/ FlagSaved(b) \/ FlagNotSaved(b) \/ RulesSaved(b) \/ RulesNotSaved(b) \/ OpDone(b)
  BY DEF EditNext
<1>2. ~(Load(b) \/ OpenDialog(b) \/ Cancel(b) \/ AskToggle(b) \/ AskDelete(b) \/ ServeOp(b)
        \/ OpDone(b))
  BY DEF Load, OpenDialog, Cancel, AskToggle, AskDelete, ServeOp, OpDone
<1>3. ~(FlagNotSaved(b) \/ RulesSaved(b) \/ RulesNotSaved(b))
  BY <1>0, Fresh DEF FlagNotSaved, RulesSaved, RulesNotSaved
<1>4. ~FlagSaved(b)
  BY <1>0 DEF FlagSaved
<1>5. ~Submit(b)
  BY <1>0 DEF Submit
<1>6. ~LoseAnswer(b)
  BY <1>0 DEF LoseAnswer
<1>7. ~Leave(b)
  <2> SUFFICES ASSUME Leave(b) PROVE FALSE
    OBVIOUS
  <2>1. b = a
    BY <1>0 DEF Leave
  <2>2. save'[a] = [save[a] EXCEPT !.left = TRUE]
    BY <1>0, <2>1 DEF Leave
  <2>3. save'[a].pc = save[a].pc
    BY <1>0, <2>2 DEF SaveType
  <2> QED BY <2>3
<1>8. ~(ServeCreate(b) \/ ServeRules(b))
  BY <1>0 DEF ServeCreate, ServeRules, Handled
<1>9. ServeUpdate(b) => b = a
  BY <1>0 DEF ServeUpdate, Handled
<1> QED BY <1>1, <1>2, <1>3, <1>4, <1>5, <1>6, <1>7, <1>8, <1>9

\* The update is made under the version the dialog showed, and the version
\* tells that nothing has changed since.
LEMMA ShownIsOverwritten ==
    ASSUME EditorsInv, EditNext, NEW a \in Admins, save[a].pc = "update", save'[a].pc = "reply"
    PROVE  /\ BodyOf(flag) = BodyOf(save[a].existing)
           /\ save[a].changed \/ flag'.rules = save[a].new.rules
<1> DEFINE answer == Update(save[a].new, save[a].existing.version)
<1>0. /\ EditorsTyped /\ VersionsTell(a) /\ save[a].new \in Body
      /\ save[a].existing.version \in Int
  BY EditorFacts
<1>1. /\ answer.ok \in BOOLEAN /\ answer.flag.rules = flag.rules
      /\ answer.ok => flag.version >= 1 /\ flag.version = save[a].existing.version
  BY <1>0, UpdateAnswers
<1>2. Handled(a, "update", answer, "reply", "failed")
  BY AnsweredByUpdate DEF ServeUpdate
<1> HIDE DEF answer
<1>3. /\ \/ save[a].left /\ save'[a] = IdleSave
         \/ save'[a].pc = IF answer.ok THEN "reply" ELSE "failed"
  BY <1>1, <1>2, HandledSave
<1>4. answer.ok
  BY <1>1, <1>3, Fresh
<1>5. save[a].existing = flag
  BY <1>0, <1>1, <1>4 DEF VersionsTell, ShownOf
<1>6. flag'.rules = flag.rules
  BY <1>1, <1>2 DEF Handled
<1>7. save[a].changed \/ save[a].new.rules = save[a].existing.rules
  BY <1>0 DEF VersionsTell
<1> QED BY <1>5, <1>6, <1>7

\* What a page that shows no marker has asked for is stored.
LEMMA MarkedOrStored == EditorsInv => UnmarkedIsStored
<1> SUFFICES ASSUME EditorsInv, NEW a \in Admins,
                    save[a].pc = "idle", ~page[a].marked, page[a].asked # "any"
             PROVE  flag.rules = page[a].asked
  BY DEF UnmarkedIsStored
<1>1. RulesFollowed(a)
  BY EditorFacts
<1> QED BY <1>1 DEF RulesFollowed, AskedIsStored

\* A save overwrites the flag its dialog showed, rules included, and rules
\* that are not the stored ones are marked or still under way, whoever else
\* edits, toggles or deletes the flag and whichever answers are lost.
\* [feature-flag.service.ts:195; feature-flag-list.component.ts:303-306]
THEOREM EditorsSound == EditSpec => EditsAreSound
<1>1. EditSpec => []EditorsInv
  BY EditorsStart, EditorsKeep, PTL DEF EditSpec
<1>2. EditorsInv /\ [EditNext]_editVars =>
        [\A a \in Admins :
            LET s == save[a] IN
            (s.pc = "update" /\ save'[a].pc = "reply") =>
                /\ BodyOf(flag) = BodyOf(s.existing)
                /\ s.changed \/ flag'.rules = s.new.rules]_editVars
  BY ShownIsOverwritten
<1>3. EditSpec => OverwritesWhatWasShown
  BY <1>1, <1>2, PTL DEF EditSpec, OverwritesWhatWasShown
<1>4. EditSpec => []UnmarkedIsStored
  BY <1>1, MarkedOrStored, PTL
<1> QED BY <1>3, <1>4 DEF EditsAreSound

=============================================================================
