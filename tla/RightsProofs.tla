---------------------------- MODULE RightsProofs ----------------------------
(***************************************************************************)
(* Roles and permissions: nobody gives away what no user had, and answers  *)
(* settle on the current permissions, for any users, roles, permissions    *)
(* and number of requests that cross each other.  The registry: a boot     *)
(* completes the matrix, orphans are found, and the cached map is the      *)
(* table's, for any processes, releases and actions.  Entitlements: cache  *)
(* and browser settle on what the billing tables grant, for any plans and  *)
(* any number of changes and fetches.  The accounts of the mock server:    *)
(* addresses stay distinct, sessions end with the password they were       *)
(* opened under, and no user holds more of them than the plan allows.      *)
(***************************************************************************)
EXTENDS Access, Registry, Entitlements, MockAccounts, SequenceTheorems,
        FiniteSetTheorems, WellFoundedInduction, TLAPS

----------------------------------------------------------------------------
(* Roles and permissions: the inductive invariant. *)

Ops == {"set", "grant", "revoke", "assign", "unassign", "delete"}

(* What may be left of a request's steps.                                  *)
Stages(op) ==
    CASE op \in {"assign", "unassign"} ->
            {<<"check", "write", "announce">>, <<"write", "announce">>, <<"announce">>}
      [] op = "delete" ->
            {<<"check", "query", "announce", "write">>, <<"query", "announce", "write">>,
             <<"announce", "write">>, <<"write">>}
      [] OTHER ->
            {<<"check", "write", "query", "announce">>, <<"write", "query", "announce">>,
             <<"query", "announce">>, <<"announce">>}

RequestType ==
    {q \in [id : Nat, actor : Members \cup {Root}, ability : SUBSET Permissions, op : Ops,
            role : Roles, perms : SUBSET Permissions, users : SUBSET Members,
            todo : UNION {Stages(op) : op \in Ops}] : q.todo \in Stages(q.op)}

LookupType == [read : SUBSET Permissions, client : BOOLEAN]

AccessTypeOK ==
    /\ roles \subseteq Roles /\ held \subseteq Members \X Roles
    /\ granted \subseteq Roles \X Permissions
    /\ cache \in [Members -> (SUBSET Permissions) \cup {Unset}]
    /\ lookup \in [Members -> LookupType \cup {Unset}]
    /\ notice \subseteq Members /\ shown \in [Members -> SUBSET Permissions]
    /\ requests \subseteq RequestType /\ started \in Nat
    /\ outdated \subseteq Members

(* What a user is known to have, now or by an answer on its way.           *)
KnownIsBlessed ==
    \A u \in Members :
        /\ Current(u) \subseteq blessed
        /\ cache[u] # Unset => cache[u] \subseteq blessed
        /\ lookup[u] # Unset => lookup[u].read \subseteq blessed

(* A request is checked against abilities that may be outdated, and writes *)
(* when its role may have gained what it had not when it was checked.      *)
RequestsAreBlessed ==
    \A q \in requests : q.actor # Root =>
        /\ q.ability \subseteq blessed
        /\ Head(q.todo) # "check" => Given(q) \subseteq blessed

(* A write that u has still to be told of: the request will find him among *)
(* the holders, or has found him.                                          *)
ToBeTold(u) ==
    \E q \in requests :
        \/ q.op \in {"set", "grant", "revoke"} /\ Head(q.todo) = "query" /\ u \in HoldersOf(q.role)
        \/ q.op # "delete" /\ Head(q.todo) = "announce" /\ u \in q.users

AnswersAreCurrent ==
    \A u \in Members \ outdated :
        /\ lookup[u] # Unset => lookup[u].read = Current(u)
        /\ ToBeTold(u) \/ cache[u] \in {Unset, Current(u)}
        /\ \/ ToBeTold(u) \/ u \in notice \/ shown[u] = Current(u)
           \/ lookup[u] # Unset /\ lookup[u].client

AccessInv == AccessTypeOK /\ KnownIsBlessed /\ RequestsAreBlessed /\ AnswersAreCurrent

----------------------------------------------------------------------------
(* The steps of a request. *)

\* What may be left after a step is not empty, and what comes first in it.
LEMMA Left ==
    /\ <<"write", "announce">> # <<>> /\ Head(<<"write", "announce">>) = "write"
    /\ <<"announce">> # <<>> /\ Head(<<"announce">>) = "announce"
    /\ <<"query", "announce", "write">> # <<>> /\ Head(<<"query", "announce", "write">>) = "query"
    /\ <<"announce", "write">> # <<>> /\ Head(<<"announce", "write">>) = "announce"
    /\ <<"write">> # <<>> /\ Head(<<"write">>) = "write"
    /\ <<"write", "query", "announce">> # <<>> /\ Head(<<"write", "query", "announce">>) = "write"
    /\ <<"query", "announce">> # <<>> /\ Head(<<"query", "announce">>) = "query"
OBVIOUS

(* What is known of a request, by the step it is at.                       *)
Staged(q) ==
    /\ q.op \in Ops /\ q.role \in Roles /\ q.todo \in Stages(q.op)
    /\ Tail(q.todo) # <<>> => Tail(q.todo) \in Stages(q.op)
    /\ Head(q.todo) = "check" => /\ Tail(q.todo) # <<>>
                                 /\ Head(Tail(q.todo)) \in {"write", "query"}
                                 /\ Head(Tail(q.todo)) = "query" => q.op = "delete"
    /\ Head(q.todo) = "write" =>
           /\ q.op \in {"assign", "unassign"} => /\ Tail(q.todo) # <<>>
                                                 /\ Head(Tail(q.todo)) = "announce"
           /\ q.op \in {"set", "grant", "revoke"} => /\ Tail(q.todo) # <<>>
                                                     /\ Head(Tail(q.todo)) = "query"
           /\ q.op = "delete" => Tail(q.todo) = <<>>
    /\ Head(q.todo) = "query" => /\ Tail(q.todo) # <<>>
                                 /\ Head(Tail(q.todo)) = "announce"
                                 /\ q.op \notin {"assign", "unassign"}
    /\ Head(q.todo) = "announce" => \/ Tail(q.todo) = <<>>
                                    \/ q.op = "delete" /\ Head(Tail(q.todo)) = "write"

\* What is left of a request's steps follows from its kind.
LEMMA StageFacts ==
    ASSUME NEW q \in RequestType
    PROVE  Staged(q)
<1> USE DEF Staged
<1>1. q.op \in Ops /\ q.role \in Roles /\ q.todo \in Stages(q.op)
  BY DEF RequestType
<1>2. CASE q.op \in {"assign", "unassign"}
  <2>0. q.op \in {"assign", "unassign"} /\ Stages(q.op) = {<<"check", "write", "announce">>, <<"write", "announce">>, <<"announce">>}
    BY <1>2 DEF Stages
  <2>1. CASE q.todo = <<"check", "write", "announce">>
    <3>1. Head(q.todo) = "check" /\ Tail(q.todo) = <<"write", "announce">>
      BY <2>1
    <3>2. Tail(q.todo) # <<>> /\ Head(Tail(q.todo)) = "write"
      BY <3>1, Left
    <3> QED BY <1>1, <2>0, <3>1, <3>2
  <2>2. CASE q.todo = <<"write", "announce">>
    <3>1. Head(q.todo) = "write" /\ Tail(q.todo) = <<"announce">>
      BY <2>2
    <3>2. Tail(q.todo) # <<>> /\ Head(Tail(q.todo)) = "announce"
      BY <3>1, Left
    <3> QED BY <1>1, <2>0, <3>1, <3>2
  <2>3. CASE q.todo = <<"announce">>
    <3>1. Head(q.todo) = "announce" /\ Tail(q.todo) = <<>>
      BY <2>3
    <3> QED BY <1>1, <2>0, <3>1
  <2> QED BY <1>1, <2>0, <2>1, <2>2, <2>3
<1>3. CASE q.op = "delete"
  <2>0. q.op = "delete" /\ Stages(q.op) = {<<"check", "query", "announce", "write">>, <<"query", "announce", "write">>, <<"announce", "write">>, <<"write">>}
    BY <1>3 DEF Stages
  <2>1. CASE q.todo = <<"check", "query", "announce", "write">>
    <3>1. Head(q.todo) = "check" /\ Tail(q.todo) = <<"query", "announce", "write">>
      BY <2>1
    <3>2. Tail(q.todo) # <<>> /\ Head(Tail(q.todo)) = "query"
      BY <3>1, Left
    <3> QED BY <1>1, <2>0, <3>1, <3>2
  <2>2. CASE q.todo = <<"query", "announce", "write">>
    <3>1. Head(q.todo) = "query" /\ Tail(q.todo) = <<"announce", "write">>
      BY <2>2
    <3>2. Tail(q.todo) # <<>> /\ Head(Tail(q.todo)) = "announce"
      BY <3>1, Left
    <3> QED BY <1>1, <2>0, <3>1, <3>2
  <2>3. CASE q.todo = <<"announce", "write">>
    <3>1. Head(q.todo) = "announce" /\ Tail(q.todo) = <<"write">>
      BY <2>3
    <3>2. Tail(q.todo) # <<>> /\ Head(Tail(q.todo)) = "write"
      BY <3>1, Left
    <3> QED BY <1>1, <2>0, <3>1, <3>2
  <2>4. CASE q.todo = <<"write">>
    <3>1. Head(q.todo) = "write" /\ Tail(q.todo) = <<>>
      BY <2>4
    <3> QED BY <1>1, <2>0, <3>1
  <2> QED BY <1>1, <2>0, <2>1, <2>2, <2>3, <2>4
<1>4. CASE q.op \in {"set", "grant", "revoke"}
  <2>0. q.op \in {"set", "grant", "revoke"} /\ Stages(q.op) = {<<"check", "write", "query", "announce">>, <<"write", "query", "announce">>, <<"query", "announce">>, <<"announce">>}
    BY <1>4 DEF Stages
  <2>1. CASE q.todo = <<"check", "write", "query", "announce">>
    <3>1. Head(q.todo) = "check" /\ Tail(q.todo) = <<"write", "query", "announce">>
      BY <2>1
    <3>2. Tail(q.todo) # <<>> /\ Head(Tail(q.todo)) = "write"
      BY <3>1, Left
    <3> QED BY <1>1, <2>0, <3>1, <3>2
  <2>2. CASE q.todo = <<"write", "query", "announce">>
    <3>1. Head(q.todo) = "write" /\ Tail(q.todo) = <<"query", "announce">>
      BY <2>2
    <3>2. Tail(q.todo) # <<>> /\ Head(Tail(q.todo)) = "query"
      BY <3>1, Left
    <3> QED BY <1>1, <2>0, <3>1, <3>2
  <2>3. CASE q.todo = <<"query", "announce">>
    <3>1. Head(q.todo) = "query" /\ Tail(q.todo) = <<"announce">>
      BY <2>3
    <3>2. Tail(q.todo) # <<>> /\ Head(Tail(q.todo)) = "announce"
      BY <3>1, Left
    <3> QED BY <1>1, <2>0, <3>1, <3>2
  <2>4. CASE q.todo = <<"announce">>
    <3>1. Head(q.todo) = "announce" /\ Tail(q.todo) = <<>>
      BY <2>4
    <3> QED BY <1>1, <2>0, <3>1
  <2> QED BY <1>1, <2>0, <2>1, <2>2, <2>3, <2>4
<1> QED BY <1>1, <1>2, <1>3, <1>4 DEF Ops

(* p is q after a step that left it the users us.                          *)
Follows(p, q, us) ==
    /\ p.todo = Tail(q.todo) /\ p.users = us
    /\ p.op = q.op /\ p.role = q.role /\ p.perms = q.perms
    /\ p.actor = q.actor /\ p.ability = q.ability

\* A request that has taken a step is a request, with the rest of its steps.
LEMMA Advanced ==
    ASSUME NEW q \in RequestType, NEW us \in SUBSET Members, Tail(q.todo) # <<>>,
           NEW c, c = [q EXCEPT !.users = us] \/ (us = q.users /\ c = q),
           NEW p, p = [c EXCEPT !.todo = Tail(@)]
    PROVE  p \in RequestType /\ Follows(p, q, us)
<1> DEFINE Fields == [id : Nat, actor : Members \cup {Root}, ability : SUBSET Permissions,
                      op : Ops, role : Roles, perms : SUBSET Permissions, users : SUBSET Members,
                      todo : UNION {Stages(op) : op \in Ops}]
           t == Tail(q.todo)
<1>1. q \in Fields /\ t \in Stages(q.op) /\ q.op \in Ops
  BY StageFacts DEF RequestType, Staged
<1>2. t \in UNION {Stages(op) : op \in Ops}
  BY <1>1
<1>3. /\ c \in Fields /\ c.todo = q.todo /\ c.users = us
      /\ c.op = q.op /\ c.role = q.role /\ c.perms = q.perms
      /\ c.actor = q.actor /\ c.ability = q.ability
  BY <1>1
<1>4. p = [c EXCEPT !.todo = t]
  BY <1>3
<1> HIDE DEF t
<1>5. /\ p \in Fields /\ p.todo = t /\ p.users = us
      /\ p.op = q.op /\ p.role = q.role /\ p.perms = q.perms
      /\ p.actor = q.actor /\ p.ability = q.ability
  BY <1>2, <1>3, <1>4
<1> QED BY <1>1, <1>5 DEF t, RequestType, Follows

\* What Advance does to the requests.
LEMMA AdvanceFacts ==
    ASSUME AccessTypeOK, NEW q \in requests, NEW us \in SUBSET Members,
           NEW c, c = [q EXCEPT !.users = us] \/ (us = q.users /\ c = q), Advance(q, c)
    PROVE  /\ requests' \subseteq RequestType
           /\ \A p \in requests : p # q => p \in requests'
           /\ \A p \in requests' : \/ p \in requests /\ p # q
                                   \/ Tail(q.todo) # <<>> /\ Follows(p, q, us)
           /\ Tail(q.todo) # <<>> => \E p \in requests' : Follows(p, q, us)
<1>1. q \in RequestType /\ requests \subseteq RequestType
  BY DEF AccessTypeOK
<1>2. CASE Tail(q.todo) = <<>>
  BY <1>1, <1>2 DEF Advance
<1>3. CASE Tail(q.todo) # <<>>
  <2> DEFINE p == [c EXCEPT !.todo = Tail(@)]
  <2>1. requests' = (requests \ {q}) \cup {p}
    BY <1>3 DEF Advance
  <2>2. p = [c EXCEPT !.todo = Tail(@)]
    OBVIOUS
  <2> HIDE DEF p
  <2>3. p \in RequestType /\ Follows(p, q, us)
    BY <1>1, <1>3, <2>2, Advanced
  <2> QED BY <1>1, <1>3, <2>1, <2>3
<1> QED BY <1>2, <1>3

\* A request that follows another gives away the same.
LEMMA SameGiven ==
    ASSUME NEW p, NEW q, p.op = q.op, p.role = q.role, p.perms = q.perms
    PROVE  Given(p) = Given(q)
BY DEF Given

\* While the tables stay, so does what they say.
LEMMA TablesKept ==
    ASSUME UNCHANGED tables
    PROVE  /\ \A u : HeldBy(u)' = HeldBy(u)
           /\ \A r : HoldersOf(r)' = HoldersOf(r) /\ PermissionsOf(r)' = PermissionsOf(r)
           /\ \A u : Current(u)' = Current(u)
           /\ \A q : Given(q)' = Given(q)
BY DEF tables, HeldBy, HoldersOf, PermissionsOf, Current, Given

----------------------------------------------------------------------------
(* Requests that do not write. *)

\* A step that leaves the tables, the answers and the ghosts alone, and takes
\* nobody from the requests that have still to tell him.
LEMMA OnlyRequests ==
    ASSUME AccessInv, UNCHANGED <<tables, caching, started, blessed, outdated>>,
           requests' \subseteq RequestType,
           \A u \in Members : ToBeTold(u) => ToBeTold(u)',
           \A p \in requests' : p.actor # Root =>
               /\ p.ability \subseteq blessed
               /\ Head(p.todo) # "check" => Given(p) \subseteq blessed
    PROVE  AccessInv'
<1>0. UNCHANGED <<roles, held, granted, cache, lookup, notice, shown>>
  BY DEF tables, caching
<1>1. AccessTypeOK'
  BY <1>0 DEF AccessInv, AccessTypeOK
<1>2. KnownIsBlessed'
  BY <1>0, TablesKept DEF AccessInv, KnownIsBlessed
<1>3. RequestsAreBlessed'
  BY TablesKept DEF AccessInv, RequestsAreBlessed
<1>4. AnswersAreCurrent'
  BY <1>0, TablesKept DEF AccessInv, AnswersAreCurrent
<1> QED BY <1>1, <1>2, <1>3, <1>4 DEF AccessInv

\* A request that tells nobody may go.
LEMMA Gone ==
    ASSUME NEW q \in requests, Head(q.todo) \in {"check", "write"}, UNCHANGED tables,
           \A p \in requests : p # q => p \in requests'
    PROVE  \A u \in Members : ToBeTold(u) => ToBeTold(u)'
BY TablesKept DEF ToBeTold

LEMMA CheckStep ==
    ASSUME AccessInv, NEW q \in requests, Check(q)
    PROVE  AccessInv'
<1>0. /\ AccessTypeOK /\ RequestsAreBlessed /\ q \in RequestType /\ Head(q.todo) = "check"
      /\ UNCHANGED <<tables, caching, started, blessed, outdated>>
  BY DEF AccessInv, AccessTypeOK, Check
<1>1. CASE requests' = requests \ {q}
  <2>1. requests' \subseteq RequestType /\ \A p \in requests : p # q => p \in requests'
    BY <1>0, <1>1 DEF AccessTypeOK
  <2> QED BY <1>0, <1>1, <2>1, Gone, OnlyRequests DEF RequestsAreBlessed
<1>2. CASE CanGrant(q.ability, Given(q)) /\ Advance(q, q)
  <2>0. q.users \in SUBSET Members
    BY <1>0 DEF RequestType
  <2>1. /\ requests' \subseteq RequestType
        /\ \A p \in requests : p # q => p \in requests'
        /\ \A p \in requests' : p \in requests \/ Follows(p, q, q.users)
    BY <1>0, <1>2, <2>0, AdvanceFacts
  <2>2. ASSUME NEW p \in requests', p.actor # Root
        PROVE  /\ p.ability \subseteq blessed
               /\ Head(p.todo) # "check" => Given(p) \subseteq blessed
    <3>1. CASE p \in requests
      BY <1>0, <2>2, <3>1 DEF RequestsAreBlessed
    <3>2. CASE Follows(p, q, q.users)
      <4>1. q.actor # Root /\ Given(p) = Given(q) /\ p.ability = q.ability
        BY <2>2, <3>2, SameGiven DEF Follows
      <4> QED BY <1>0, <1>2, <4>1 DEF RequestsAreBlessed, CanGrant
    <3> QED BY <2>1, <3>1, <3>2
  <2> QED BY <1>0, <2>1, <2>2, Gone, OnlyRequests
<1> QED BY <1>1, <1>2 DEF Check

LEMMA RefuseStep ==
    ASSUME AccessInv, NEW q \in requests, Refuse(q)
    PROVE  AccessInv'
<1>0. /\ AccessTypeOK /\ RequestsAreBlessed /\ Head(q.todo) = "write"
      /\ UNCHANGED <<tables, caching, started, blessed, outdated>>
      /\ requests' = requests \ {q}
  BY DEF AccessInv, Refuse
<1>1. requests' \subseteq RequestType /\ \A p \in requests : p # q => p \in requests'
  BY <1>0 DEF AccessTypeOK
<1> QED BY <1>0, <1>1, Gone, OnlyRequests DEF RequestsAreBlessed

\* A request past its check that goes on stays within what was checked.
LEMMA StillBlessed ==
    ASSUME RequestsAreBlessed, NEW q \in requests, Head(q.todo) # "check", NEW us,
           NEW p, p \in requests \/ Follows(p, q, us), p.actor # Root
    PROVE  /\ p.ability \subseteq blessed
           /\ Head(p.todo) # "check" => Given(p) \subseteq blessed
<1>1. CASE p \in requests
  BY <1>1 DEF RequestsAreBlessed
<1>2. CASE Follows(p, q, us)
  BY <1>2, SameGiven DEF RequestsAreBlessed, Follows
<1> QED BY <1>1, <1>2

LEMMA QueryStep ==
    ASSUME AccessInv, NEW q \in requests, Query(q)
    PROVE  AccessInv'
<1>0. /\ AccessTypeOK /\ RequestsAreBlessed /\ q \in RequestType /\ Head(q.todo) = "query"
      /\ UNCHANGED <<tables, caching, started, blessed, outdated>>
  BY DEF AccessInv, AccessTypeOK, Query
<1> DEFINE us == HoldersOf(q.role)
<1>1. us \in SUBSET Members
  BY DEF HoldersOf
<1>2. Advance(q, [q EXCEPT !.users = us])
  BY DEF Query
<1> HIDE DEF us
<1>3. /\ Tail(q.todo) # <<>> /\ Head(Tail(q.todo)) = "announce"
      /\ q.op \in {"set", "grant", "revoke", "delete"}
  BY <1>0, StageFacts DEF Staged, Ops
<1>4. /\ requests' \subseteq RequestType
      /\ \A p \in requests : p # q => p \in requests'
      /\ \A p \in requests' : p \in requests \/ Follows(p, q, us)
      /\ \E p \in requests' : Follows(p, q, us)
  BY <1>0, <1>1, <1>2, <1>3, AdvanceFacts
<1>5. ASSUME NEW u \in Members, ToBeTold(u) PROVE ToBeTold(u)'
  <2>1. PICK p \in requests :
            \/ p.op \in {"set", "grant", "revoke"} /\ Head(p.todo) = "query" /\ u \in HoldersOf(p.role)
            \/ p.op # "delete" /\ Head(p.todo) = "announce" /\ u \in p.users
    BY <1>5 DEF ToBeTold
  <2>2. CASE p # q
    BY <1>0, <1>4, <2>1, <2>2, TablesKept DEF ToBeTold
  <2>3. CASE p = q
    <3>1. PICK n \in requests' : Follows(n, q, us)
      BY <1>4
    <3>2. n.op # "delete" /\ Head(n.todo) = "announce" /\ u \in n.users
      BY <1>0, <1>3, <2>1, <2>3, <3>1 DEF Follows, us
    <3> QED BY <3>2 DEF ToBeTold
  <2> QED BY <2>2, <2>3
<1>6. \A p \in requests' : p.actor # Root =>
          /\ p.ability \subseteq blessed
          /\ Head(p.todo) # "check" => Given(p) \subseteq blessed
  BY <1>0, <1>4, StillBlessed
<1> QED BY <1>0, <1>4, <1>5, <1>6, OnlyRequests

LEMMA AdmitStep ==
    ASSUME AccessInv, NEW a \in Members \cup {Root}, NEW op \in Ops, NEW r \in Roles,
           NEW perms \in SUBSET Permissions, NEW us \in SUBSET Members, Admit(a, op, r, perms, us)
    PROVE  AccessInv'
<1> DEFINE q == [id |-> started, actor |-> a, ability |-> Ability(a), op |-> op,
                 role |-> r, perms |-> perms, users |-> us, todo |-> Steps(op)]
<1>0. /\ UNCHANGED <<roles, held, granted, cache, lookup, notice, shown, blessed, outdated>>
      /\ requests' = requests \cup {q} /\ started' = started + 1
  BY DEF Admit, tables, caching
<1>1. Steps(op) \in Stages(op) /\ Head(Steps(op)) = "check"
  <2>1. CASE op \in {"assign", "unassign"}
    BY <2>1 DEF Steps, Stages
  <2>2. CASE op = "delete"
    BY <2>2 DEF Steps, Stages
  <2>3. CASE op \in {"set", "grant", "revoke"}
    BY <2>3 DEF Steps, Stages
  <2> QED BY <2>1, <2>2, <2>3 DEF Ops
<1>2. Ability(a) \in SUBSET Permissions /\ (a # Root => Ability(a) \subseteq blessed)
  <2>1. Current(a) \subseteq Permissions
    BY DEF Current, PermissionsOf
  <2>2. CASE a = Root
    BY <2>2 DEF Ability
  <2>3. CASE a # Root
    BY <2>1, <2>3 DEF Ability, Resolved, AccessInv, AccessTypeOK, KnownIsBlessed
  <2> QED BY <2>2, <2>3
<1>3. q \in RequestType
  BY <1>1, <1>2 DEF RequestType, AccessInv, AccessTypeOK
<1>4. q.actor = a /\ q.ability = Ability(a) /\ q.todo = Steps(op)
  OBVIOUS
<1> HIDE DEF q
<1>5. AccessTypeOK'
  BY <1>0, <1>3 DEF AccessInv, AccessTypeOK
<1>6. KnownIsBlessed'
  BY <1>0, TablesKept DEF AccessInv, KnownIsBlessed, tables
<1>7. RequestsAreBlessed'
  <2>1. \A p : Given(p)' = Given(p)
    BY <1>0, TablesKept DEF tables
  <2> QED BY <1>0, <1>1, <1>2, <1>4, <2>1 DEF AccessInv, RequestsAreBlessed
<1>8. AnswersAreCurrent'
  <2>1. \A u \in Members : Current(u)' = Current(u)
    BY <1>0, TablesKept DEF tables
  <2>2. \A u \in Members : ToBeTold(u) => ToBeTold(u)'
    BY <1>0, TablesKept DEF ToBeTold, tables
  <2> QED BY <1>0, <2>1, <2>2 DEF AccessInv, AnswersAreCurrent
<1> QED BY <1>5, <1>6, <1>7, <1>8 DEF AccessInv

----------------------------------------------------------------------------
(* The write. *)

\* What the tables are after a write.
LEMMA WriteTables ==
    ASSUME AccessTypeOK, NEW q \in requests, WriteRows(q)
    PROVE  /\ q.op \in {"set", "grant"} => granted' \subseteq granted \cup Rows(q)
           /\ q.op \notin {"set", "grant"} => granted' \subseteq granted
           /\ q.op = "assign" => held' = held \cup Memberships(q)
           /\ q.op = "unassign" => held' = held \ Memberships(q)
           /\ q.op = "delete" => held' = {h \in held : h[2] # q.role}
           /\ q.op \notin {"assign", "unassign", "delete"} => held' = held
           /\ q.op = "delete" => roles' = roles \ {q.role}
           /\ q.op # "delete" => roles' = roles
           /\ \A g \in granted : g[1] # q.role => g \in granted'
           /\ q.op \in {"assign", "unassign"} => granted' = granted
<1>0. q.op \in Ops /\ q \in RequestType
  BY DEF AccessTypeOK, RequestType
<1>1. CASE q.op = "set"
  BY <1>1 DEF WriteRows, SetPermissionsForRole, RowsOfOthers
<1>2. CASE q.op = "grant"
  BY <1>2 DEF WriteRows, AssignPermissionsToRole
<1>3. CASE q.op = "revoke"
  BY <1>3 DEF WriteRows, RemovePermissionFromRole, Rows
<1>4. CASE q.op = "assign"
  BY <1>4 DEF WriteRows, AssignRoleToUser
<1>5. CASE q.op = "unassign"
  BY <1>5 DEF WriteRows, RemoveRoleFromUser
<1>6. CASE q.op = "delete"
  BY <1>6 DEF WriteRows, DeleteRole, RowsOfOthers
<1> QED BY <1>0, <1>1, <1>2, <1>3, <1>4, <1>5, <1>6 DEF Ops

\* The rows and memberships of a request are of its role.
LEMMA OfItsRole ==
    ASSUME AccessTypeOK, NEW q \in requests
    PROVE  /\ q.role \in Roles /\ q.perms \subseteq Permissions /\ q.users \subseteq Members
           /\ \A r, p : <<r, p>> \in Rows(q) => r = q.role /\ p \in q.perms
           /\ \A u, r : <<u, r>> \in Memberships(q) => u \in q.users /\ r = q.role
BY DEF AccessTypeOK, RequestType, Rows, Memberships

LEMMA WriteTypes ==
    ASSUME AccessTypeOK, NEW q \in requests, WriteRows(q)
    PROVE  AccessTypeOK'
<1>1. roles' \subseteq Roles /\ held' \subseteq Members \X Roles /\ granted' \subseteq Roles \X Permissions
  <2>1. Rows(q) \subseteq Roles \X Permissions /\ Memberships(q) \subseteq Members \X Roles
    BY OfItsRole DEF Rows, Memberships
  <2> QED BY <2>1, WriteTables DEF AccessTypeOK
<1>2. requests' \subseteq RequestType
  <2>1. q.users \in SUBSET Members /\ Advance(q, q)
    BY OfItsRole DEF WriteRows
  <2> QED BY <2>1, AdvanceFacts
<1>3. UNCHANGED <<cache, lookup, notice, shown, started>> /\ outdated' \subseteq Members
  BY DEF WriteRows, caching, AccessTypeOK, HoldersOf
<1> QED BY <1>1, <1>2, <1>3 DEF AccessTypeOK

\* What a write gives away was blessed, or is by Root: nobody has more.
LEMMA WriteBlesses ==
    ASSUME AccessInv, NEW q \in requests, WriteRows(q)
    PROVE  /\ blessed \subseteq blessed'
           /\ \A r : PermissionsOf(r)' \subseteq PermissionsOf(r) \cup blessed'
           /\ \A u \in Members : Current(u)' \subseteq blessed'
           /\ q.actor # Root => blessed' = blessed
<1>0. AccessTypeOK /\ KnownIsBlessed /\ RequestsAreBlessed /\ Head(q.todo) = "write"
  BY DEF AccessInv, WriteRows
<1>1. q.actor # Root => Given(q) \subseteq blessed
  BY <1>0 DEF RequestsAreBlessed
<1>2. /\ blessed \subseteq blessed'
      /\ q.actor # Root => blessed' = blessed
      /\ q.actor = Root => /\ q.perms \subseteq blessed'
                           /\ q.op = "assign" => PermissionsOf(q.role) \subseteq blessed'
  BY DEF WriteRows
<1>3. q.op \in {"set", "grant"} => q.perms \subseteq blessed'
  BY <1>1, <1>2 DEF Given
<1>4. q.op = "assign" => PermissionsOf(q.role) \subseteq blessed'
  BY <1>1, <1>2 DEF Given
<1>5. ASSUME NEW r, NEW p, p \in PermissionsOf(r)' PROVE p \in PermissionsOf(r) \cup blessed'
  <2>1. <<r, p>> \in granted' /\ p \in Permissions
    BY <1>5 DEF PermissionsOf
  <2>2. CASE <<r, p>> \in granted
    BY <2>1, <2>2 DEF PermissionsOf
  <2>3. CASE <<r, p>> \notin granted
    BY <1>0, <1>3, <2>1, <2>3, WriteTables, OfItsRole
  <2> QED BY <2>2, <2>3
<1>6. ASSUME NEW u \in Members, NEW p, p \in Current(u)' PROVE p \in blessed'
  <2>1. PICK r : r \in roles' /\ <<u, r>> \in held' /\ p \in PermissionsOf(r)'
    BY <1>6 DEF Current, HeldBy
  <2>2. p \in PermissionsOf(r) \cup blessed'
    BY <1>5, <2>1
  <2>3. r \in roles
    BY <1>0, <2>1, WriteTables
  <2>4. CASE <<u, r>> \in held
    <3>1. p \in PermissionsOf(r) => p \in Current(u)
      BY <2>3, <2>4 DEF Current, HeldBy
    <3> QED BY <1>0, <1>2, <2>2, <3>1 DEF KnownIsBlessed
  <2>5. CASE <<u, r>> \notin held
    <3>1. q.op = "assign" /\ <<u, r>> \in Memberships(q)
      BY <1>0, <2>1, <2>5, WriteTables
    <3>2. r = q.role
      BY <1>0, <3>1, OfItsRole
    <3> QED BY <1>4, <2>2, <3>1, <3>2
  <2> QED BY <2>4, <2>5
<1> QED BY <1>2, <1>5, <1>6

\* Whose permissions a write touches: the holders of its role, or its users.
LEMMA WriteReaches ==
    ASSUME AccessTypeOK, NEW q \in requests, WriteRows(q), NEW u \in Members, u \notin outdated'
    PROVE  /\ u \notin outdated /\ lookup[u] = Unset
           /\ \A r : u \in HoldersOf(r) =>
                  u \in HoldersOf(r)' \/ (q.op \in {"assign", "unassign"} /\ u \in q.users)
           /\ \/ Current(u)' = Current(u)
              \/ q.op \in {"set", "grant", "revoke"} /\ u \in HoldersOf(q.role)'
              \/ q.op \in {"assign", "unassign"} /\ u \in q.users
<1>0. q.op \in Ops
  BY DEF AccessTypeOK, RequestType
<1>1. u \notin outdated /\ lookup[u] = Unset /\ (q.op = "delete" => u \notin HoldersOf(q.role))
  BY DEF WriteRows
<1>2. CASE q.op \in {"assign", "unassign"} /\ u \in q.users
  BY <1>1, <1>2
<1>3. CASE ~(q.op \in {"assign", "unassign"} /\ u \in q.users)
  <2>1. \A r : <<u, r>> \in held' <=> <<u, r>> \in held
    <3>1. CASE q.op \in {"assign", "unassign"}
      BY <1>3, <3>1, WriteTables, OfItsRole
    <3>2. CASE q.op = "delete"
      <4>1. \A r : <<u, r>> \in held => r # q.role
        BY <1>1, <3>2 DEF HoldersOf
      <4>2. held' = {h \in held : h[2] # q.role}
        BY <3>2, WriteTables
      <4> QED BY <4>1, <4>2
    <3>3. CASE q.op \in {"set", "grant", "revoke"}
      BY <3>3, WriteTables
    <3> QED BY <1>0, <3>1, <3>2, <3>3 DEF Ops
  <2>2. \A r : u \in HoldersOf(r) <=> u \in HoldersOf(r)'
    BY <2>1 DEF HoldersOf
  <2>3. HeldBy(u)' = HeldBy(u)
    <3>1. CASE q.op = "delete"
      <4>1. \A r : <<u, r>> \in held => r # q.role
        BY <1>1, <3>1 DEF HoldersOf
      <4>2. roles' = roles \ {q.role}
        BY <3>1, WriteTables
      <4> QED BY <2>1, <4>1, <4>2 DEF HeldBy
    <3>2. CASE q.op # "delete"
      BY <2>1, <3>2, WriteTables DEF HeldBy
    <3> QED BY <3>1, <3>2
  <2>4. \A r : r # q.role => PermissionsOf(r)' = PermissionsOf(r)
    <3> SUFFICES ASSUME NEW r, r # q.role, NEW p PROVE <<r, p>> \in granted' <=> <<r, p>> \in granted
      BY DEF PermissionsOf
    <3>1. <<r, p>> \in granted => <<r, p>> \in granted'
      BY WriteTables
    <3>2. <<r, p>> \in granted' => <<r, p>> \in granted
      BY WriteTables, OfItsRole
    <3> QED BY <3>1, <3>2
  <2>5. CASE q.role \notin HeldBy(u)
    <3>1. \A r \in HeldBy(u) : PermissionsOf(r)' = PermissionsOf(r)
      BY <2>4, <2>5
    <3> QED BY <1>1, <2>2, <2>3, <3>1 DEF Current
  <2>6. CASE q.role \in HeldBy(u)
    <3>1. u \in HoldersOf(q.role)
      BY <2>6 DEF HeldBy, HoldersOf
    <3>2. CASE q.op \in {"assign", "unassign"}
      <4>1. \A r : PermissionsOf(r)' = PermissionsOf(r)
        BY <3>2, WriteTables DEF PermissionsOf
      <4> QED BY <1>1, <2>2, <2>3, <4>1 DEF Current
    <3> QED BY <1>0, <1>1, <2>2, <3>1, <3>2 DEF Ops
  <2> QED BY <2>5, <2>6
<1> QED BY <1>2, <1>3

LEMMA WriteStep ==
    ASSUME AccessInv, NEW q \in requests, WriteRows(q)
    PROVE  AccessInv'
<1>0. /\ AccessTypeOK /\ KnownIsBlessed /\ RequestsAreBlessed /\ AnswersAreCurrent
      /\ q \in RequestType /\ Head(q.todo) = "write" /\ Advance(q, q)
      /\ UNCHANGED <<cache, lookup, notice, shown>>
      /\ q.users \in SUBSET Members
  BY DEF AccessInv, AccessTypeOK, RequestType, WriteRows, caching
<1>1. AccessTypeOK'
  BY <1>0, WriteTypes
<1>2. KnownIsBlessed'
  BY <1>0, WriteBlesses DEF KnownIsBlessed
<1>3. /\ \A p \in requests : p # q => p \in requests'
      /\ \A p \in requests' : \/ p \in requests /\ p # q
                              \/ Tail(q.todo) # <<>> /\ Follows(p, q, q.users)
      /\ Tail(q.todo) # <<>> => \E p \in requests' : Follows(p, q, q.users)
  BY <1>0, AdvanceFacts
<1>4. RequestsAreBlessed'
  <2> SUFFICES ASSUME NEW p \in requests', p.actor # Root
               PROVE  /\ p.ability \subseteq blessed'
                      /\ Head(p.todo) # "check" => Given(p)' \subseteq blessed'
    BY DEF RequestsAreBlessed
  <2>1. /\ p.ability \subseteq blessed
        /\ Head(p.todo) # "check" => Given(p) \subseteq blessed
    BY <1>0, <1>3, StillBlessed
  <2>2. Given(p)' \subseteq Given(p) \cup blessed'
    BY WriteBlesses DEF Given
  <2> QED BY <2>1, <2>2, WriteBlesses
<1>5. AnswersAreCurrent'
  <2> SUFFICES ASSUME NEW u \in Members, u \notin outdated'
               PROVE  /\ lookup'[u] # Unset => lookup'[u].read = Current(u)'
                      /\ ToBeTold(u)' \/ cache'[u] \in {Unset, Current(u)'}
                      /\ \/ ToBeTold(u)' \/ u \in notice' \/ shown'[u] = Current(u)'
                         \/ lookup'[u] # Unset /\ lookup'[u].client
    BY DEF AnswersAreCurrent
  <2>1. /\ u \notin outdated /\ lookup[u] = Unset
        /\ \A r : u \in HoldersOf(r) =>
               u \in HoldersOf(r)' \/ (q.op \in {"assign", "unassign"} /\ u \in q.users)
        /\ \/ Current(u)' = Current(u)
           \/ q.op \in {"set", "grant", "revoke"} /\ u \in HoldersOf(q.role)'
           \/ q.op \in {"assign", "unassign"} /\ u \in q.users
    BY <1>0, WriteReaches
  <2>2. /\ q.op \in {"assign", "unassign"} => /\ Tail(q.todo) # <<>>
                                              /\ Head(Tail(q.todo)) = "announce"
        /\ q.op \in {"set", "grant", "revoke"} => /\ Tail(q.todo) # <<>>
                                                  /\ Head(Tail(q.todo)) = "query"
    BY <1>0, StageFacts DEF Staged
  <2>3. ASSUME q.op \in {"assign", "unassign"}, u \in q.users PROVE ToBeTold(u)'
    <3>1. PICK p \in requests' : Follows(p, q, q.users)
      BY <1>3, <2>2, <2>3
    <3>2. p.op # "delete" /\ Head(p.todo) = "announce" /\ u \in p.users
      BY <2>2, <2>3, <3>1 DEF Follows
    <3> QED BY <3>2 DEF ToBeTold
  <2>4. ASSUME q.op \in {"set", "grant", "revoke"}, u \in HoldersOf(q.role)' PROVE ToBeTold(u)'
    <3>1. PICK p \in requests' : Follows(p, q, q.users)
      BY <1>3, <2>2, <2>4
    <3>2. p.op \in {"set", "grant", "revoke"} /\ Head(p.todo) = "query" /\ u \in HoldersOf(p.role)'
      BY <2>2, <2>4, <3>1 DEF Follows
    <3> QED BY <3>2 DEF ToBeTold
  <2>5. ASSUME ToBeTold(u) PROVE ToBeTold(u)'
    <3>1. PICK p \in requests :
              \/ p.op \in {"set", "grant", "revoke"} /\ Head(p.todo) = "query" /\ u \in HoldersOf(p.role)
              \/ p.op # "delete" /\ Head(p.todo) = "announce" /\ u \in p.users
      BY <2>5 DEF ToBeTold
    <3>2. p \in requests'
      BY <1>0, <1>3, <3>1
    <3> QED BY <2>1, <2>3, <3>1, <3>2 DEF ToBeTold
  <2>6. ToBeTold(u)' \/ (Current(u)' = Current(u) /\ ~ToBeTold(u))
    BY <2>1, <2>3, <2>4, <2>5
  <2> QED BY <1>0, <2>1, <2>6 DEF AnswersAreCurrent
<1> QED BY <1>1, <1>2, <1>4, <1>5 DEF AccessInv

----------------------------------------------------------------------------
(* The announcement, the lookups, and the theorems. *)

\* While requests stay, so does who is still to be told.
LEMMA ToldKept ==
    ASSUME UNCHANGED <<tables, requests>>
    PROVE  \A u : ToBeTold(u)' <=> ToBeTold(u)
BY TablesKept DEF ToBeTold

LEMMA AnnounceStep ==
    ASSUME AccessInv, NEW q \in requests, Announce(q)
    PROVE  AccessInv'
<1>0. /\ AccessTypeOK /\ KnownIsBlessed /\ RequestsAreBlessed /\ AnswersAreCurrent
      /\ Head(q.todo) = "announce" /\ Advance(q, q) /\ q.users \in SUBSET Members
      /\ UNCHANGED <<tables, lookup, shown, started, blessed, outdated>>
      /\ notice' = notice \cup q.users
      /\ cache' = [u \in Members |-> IF u \in q.users THEN Unset ELSE cache[u]]
  BY DEF AccessInv, AccessTypeOK, RequestType, Announce, InvalidateUserCache, PermissionsUpdated
<1>1. /\ requests' \subseteq RequestType
      /\ \A p \in requests : p # q => p \in requests'
      /\ \A p \in requests' : p \in requests \/ Follows(p, q, q.users)
  BY <1>0, AdvanceFacts
<1>2. AccessTypeOK'
  <2>1. UNCHANGED <<roles, held, granted>>
    BY <1>0 DEF tables
  <2> QED BY <1>0, <1>1, <2>1 DEF AccessTypeOK
<1>3. KnownIsBlessed'
  BY <1>0, TablesKept DEF KnownIsBlessed
<1>4. RequestsAreBlessed'
  <2>1. \A p \in requests' : p.actor # Root =>
            /\ p.ability \subseteq blessed
            /\ Head(p.todo) # "check" => Given(p) \subseteq blessed
    BY <1>0, <1>1, StillBlessed
  <2> QED BY <1>0, <2>1, TablesKept DEF RequestsAreBlessed
<1>5. AnswersAreCurrent'
  <2> SUFFICES ASSUME NEW u \in Members, u \notin outdated
               PROVE  /\ lookup'[u] # Unset => lookup'[u].read = Current(u)'
                      /\ ToBeTold(u)' \/ cache'[u] \in {Unset, Current(u)'}
                      /\ \/ ToBeTold(u)' \/ u \in notice' \/ shown'[u] = Current(u)'
                         \/ lookup'[u] # Unset /\ lookup'[u].client
    BY <1>0 DEF AnswersAreCurrent
  <2>1. Current(u)' = Current(u)
    BY <1>0, TablesKept
  <2>2. CASE u \in q.users
    BY <1>0, <2>1, <2>2 DEF AnswersAreCurrent
  <2>3. CASE u \notin q.users
    <3>1. ToBeTold(u) => ToBeTold(u)'
      BY <1>0, <1>1, <2>3, TablesKept DEF ToBeTold
    <3> QED BY <1>0, <2>1, <2>3, <3>1 DEF AnswersAreCurrent
  <2> QED BY <2>2, <2>3
<1> QED BY <1>2, <1>3, <1>4, <1>5 DEF AccessInv

\* A step of the cache that leaves tables and requests alone.
LEMMA OnlyAnswers ==
    ASSUME AccessInv, UNCHANGED <<tables, requests, started, blessed, outdated>>,
           NEW u \in Members,
           cache' \in [Members -> (SUBSET Permissions) \cup {Unset}],
           lookup' \in [Members -> LookupType \cup {Unset}],
           shown' \in [Members -> SUBSET Permissions], notice' \subseteq Members,
           \A v \in Members : v # u => /\ cache'[v] = cache[v] /\ lookup'[v] = lookup[v]
                                       /\ shown'[v] = shown[v] /\ (v \in notice' <=> v \in notice),
           cache'[u] # Unset => cache'[u] \subseteq blessed,
           lookup'[u] # Unset => lookup'[u].read \subseteq blessed,
           u \notin outdated =>
               /\ lookup'[u] # Unset => lookup'[u].read = Current(u)
               /\ ToBeTold(u) \/ cache'[u] \in {Unset, Current(u)}
               /\ \/ ToBeTold(u) \/ u \in notice' \/ shown'[u] = Current(u)
                  \/ lookup'[u] # Unset /\ lookup'[u].client
    PROVE  AccessInv'
<1>0. UNCHANGED <<roles, held, granted>>
  BY DEF tables
<1>1. AccessTypeOK'
  BY <1>0 DEF AccessInv, AccessTypeOK
<1>2. \A v \in Members : Current(v)' = Current(v) /\ (ToBeTold(v)' <=> ToBeTold(v))
  BY TablesKept, ToldKept
<1>3. KnownIsBlessed'
  <2>1. ASSUME NEW v \in Members
        PROVE  /\ Current(v)' \subseteq blessed'
               /\ cache'[v] # Unset => cache'[v] \subseteq blessed'
               /\ lookup'[v] # Unset => lookup'[v].read \subseteq blessed'
    BY <1>2 DEF AccessInv, KnownIsBlessed
  <2> QED BY <2>1 DEF KnownIsBlessed
<1>4. RequestsAreBlessed'
  BY TablesKept DEF AccessInv, RequestsAreBlessed
<1>5. AnswersAreCurrent'
  <2>1. ASSUME NEW v \in Members, v \notin outdated
        PROVE  /\ lookup'[v] # Unset => lookup'[v].read = Current(v)'
               /\ ToBeTold(v)' \/ cache'[v] \in {Unset, Current(v)'}
               /\ \/ ToBeTold(v)' \/ v \in notice' \/ shown'[v] = Current(v)'
                  \/ lookup'[v] # Unset /\ lookup'[v].client
    <3>1. CASE v = u
      BY <1>2, <2>1, <3>1
    <3>2. CASE v # u
      BY <1>2, <2>1, <3>2 DEF AccessInv, AnswersAreCurrent
    <3> QED BY <3>1, <3>2
  <2> QED BY <2>1 DEF AnswersAreCurrent
<1> QED BY <1>1, <1>3, <1>4, <1>5 DEF AccessInv

LEMMA LookupStep ==
    ASSUME AccessInv, NEW u \in Members, NEW client \in BOOLEAN, Lookup(u, client)
    PROVE  AccessInv'
<1>0. /\ AccessTypeOK /\ KnownIsBlessed /\ AnswersAreCurrent /\ lookup[u] = Unset
      /\ UNCHANGED <<tables, cache, requests, started, blessed, outdated>>
      /\ notice' = IF client THEN notice \ {u} ELSE notice
  BY DEF AccessInv, Lookup
<1>1. Current(u) \in SUBSET Permissions
  BY DEF Current, PermissionsOf
<1>2. CASE cache[u] # Unset /\ client /\ shown' = [shown EXCEPT ![u] = cache[u]] /\ UNCHANGED lookup
  <2>1. /\ shown' \in [Members -> SUBSET Permissions] /\ shown'[u] = cache[u]
        /\ \A v \in Members : v # u => shown'[v] = shown[v]
    BY <1>0, <1>2 DEF AccessTypeOK
  <2>2. u \notin outdated => ToBeTold(u) \/ shown'[u] = Current(u)
    BY <1>0, <1>2, <2>1 DEF AnswersAreCurrent
  <2>3. /\ cache' \in [Members -> (SUBSET Permissions) \cup {Unset}]
        /\ lookup' \in [Members -> LookupType \cup {Unset}] /\ notice' \subseteq Members
        /\ \A v \in Members : v # u => (v \in notice' <=> v \in notice)
    BY <1>0, <1>2 DEF AccessTypeOK
  <2>4. u \notin outdated => ToBeTold(u) \/ cache'[u] \in {Unset, Current(u)}
    BY <1>0 DEF AnswersAreCurrent
  <2>5. cache'[u] # Unset => cache'[u] \subseteq blessed
    BY <1>0 DEF KnownIsBlessed
  <2> QED BY <1>0, <1>2, <2>1, <2>2, <2>3, <2>4, <2>5, OnlyAnswers
<1>3. CASE /\ lookup' = [lookup EXCEPT ![u] = [read |-> Current(u), client |-> client]]
           /\ UNCHANGED shown
  <2>1. /\ lookup' \in [Members -> LookupType \cup {Unset}]
        /\ lookup'[u] = [read |-> Current(u), client |-> client]
        /\ \A v \in Members : v # u => lookup'[v] = lookup[v]
    BY <1>0, <1>1, <1>3 DEF AccessTypeOK, LookupType
  <2>2. lookup'[u] # Unset /\ lookup'[u].read = Current(u) /\ lookup'[u].client = client
    BY <1>1, <2>1, AccessAssumption DEF AccessAssumption
  <2>3. /\ cache' \in [Members -> (SUBSET Permissions) \cup {Unset}]
        /\ shown' \in [Members -> SUBSET Permissions] /\ notice' \subseteq Members
        /\ \A v \in Members : v # u => (v \in notice' <=> v \in notice)
    BY <1>0, <1>3 DEF AccessTypeOK
  <2>4. u \notin outdated =>
            /\ ToBeTold(u) \/ cache'[u] \in {Unset, Current(u)}
            /\ ToBeTold(u) \/ u \in notice \/ shown[u] = Current(u)
    BY <1>0 DEF AnswersAreCurrent
  <2>5. /\ cache'[u] # Unset => cache'[u] \subseteq blessed
        /\ lookup'[u].read \subseteq blessed
    BY <1>0, <2>2 DEF KnownIsBlessed
  <2>6. u \notin outdated => \/ ToBeTold(u) \/ u \in notice' \/ shown'[u] = Current(u)
                             \/ lookup'[u] # Unset /\ lookup'[u].client
    BY <1>0, <1>3, <2>2, <2>4
  <2> QED BY <1>0, <1>3, <2>1, <2>2, <2>3, <2>4, <2>5, <2>6, OnlyAnswers
<1> QED BY <1>2, <1>3 DEF Lookup

LEMMA StoreStep ==
    ASSUME AccessInv, NEW u \in Members, Store(u)
    PROVE  AccessInv'
<1>0. /\ AccessTypeOK /\ KnownIsBlessed /\ AnswersAreCurrent /\ lookup[u] # Unset
      /\ UNCHANGED <<tables, notice, requests, started, blessed, outdated>>
      /\ cache' = [cache EXCEPT ![u] = lookup[u].read]
      /\ shown' = IF lookup[u].client THEN [shown EXCEPT ![u] = lookup[u].read] ELSE shown
      /\ lookup' = [lookup EXCEPT ![u] = Unset]
  BY DEF AccessInv, Store
<1>1. lookup[u].read \in SUBSET Permissions /\ lookup[u].read \subseteq blessed
  BY <1>0 DEF AccessTypeOK, LookupType, KnownIsBlessed
<1>2. /\ cache' \in [Members -> (SUBSET Permissions) \cup {Unset}]
      /\ lookup' \in [Members -> LookupType \cup {Unset}]
      /\ shown' \in [Members -> SUBSET Permissions] /\ notice' \subseteq Members
      /\ \A v \in Members : v # u => /\ cache'[v] = cache[v] /\ lookup'[v] = lookup[v]
                                     /\ shown'[v] = shown[v] /\ (v \in notice' <=> v \in notice)
      /\ cache'[u] = lookup[u].read /\ lookup'[u] = Unset
      /\ shown'[u] = IF lookup[u].client THEN lookup[u].read ELSE shown[u]
  BY <1>0, <1>1 DEF AccessTypeOK
<1>3. u \notin outdated =>
          /\ lookup[u].read = Current(u)
          /\ \/ ToBeTold(u) \/ u \in notice \/ shown[u] = Current(u)
             \/ lookup[u].client
  BY <1>0 DEF AnswersAreCurrent
<1> QED BY <1>0, <1>1, <1>2, <1>3, OnlyAnswers

LEMMA ExpireStep ==
    ASSUME AccessInv, NEW u \in Members, Expire(u)
    PROVE  AccessInv'
<1>0. /\ AccessTypeOK /\ KnownIsBlessed /\ AnswersAreCurrent
      /\ UNCHANGED <<tables, lookup, notice, shown, requests, started, blessed, outdated>>
      /\ cache' = [cache EXCEPT ![u] = Unset]
  BY DEF AccessInv, Expire
<1>1. /\ cache' \in [Members -> (SUBSET Permissions) \cup {Unset}] /\ cache'[u] = Unset
      /\ \A v \in Members : v # u => cache'[v] = cache[v]
      /\ lookup' \in [Members -> LookupType \cup {Unset}]
      /\ shown' \in [Members -> SUBSET Permissions] /\ notice' \subseteq Members
  BY <1>0 DEF AccessTypeOK
<1>2. /\ lookup[u] # Unset => lookup[u].read \subseteq blessed
      /\ u \notin outdated =>
            /\ lookup[u] # Unset => lookup[u].read = Current(u)
            /\ \/ ToBeTold(u) \/ u \in notice \/ shown[u] = Current(u)
               \/ lookup[u] # Unset /\ lookup[u].client
  BY <1>0 DEF KnownIsBlessed, AnswersAreCurrent
<1> QED BY <1>0, <1>1, <1>2, OnlyAnswers

LEMMA AccessInvInit == AccessInit => AccessInv
<1> SUFFICES ASSUME AccessInit PROVE AccessInv
  OBVIOUS
<1>1. \A u \in Members : Current(u) \in SUBSET Permissions
  BY DEF Current, PermissionsOf
<1>2. AccessTypeOK
  BY <1>1, AccessAssumption DEF AccessInit, Seeded, AccessTypeOK, AccessAssumption
<1>3. KnownIsBlessed
  BY DEF AccessInit, KnownIsBlessed
<1>4. RequestsAreBlessed
  BY DEF AccessInit, RequestsAreBlessed
<1>5. AnswersAreCurrent
  BY DEF AccessInit, AnswersAreCurrent
<1> QED BY <1>2, <1>3, <1>4, <1>5 DEF AccessInv

LEMMA AccessInvStep ==
    ASSUME AccessInv, [AccessNext]_accessVars
    PROVE  AccessInv'
<1>1. ASSUME NEW a \in Members \cup {Root}, NEW r \in Roles, NEW perms \in SUBSET Permissions,
             SetPermissions(a, r, perms)
      PROVE  AccessInv'
  BY <1>1, AdmitStep DEF SetPermissions, Ops
<1>2. ASSUME NEW a \in Members \cup {Root}, NEW r \in Roles, NEW p \in Permissions,
             AssignPermissions(a, r, p) \/ RemovePermission(a, r, p)
      PROVE  AccessInv'
  <2>1. {p} \in SUBSET Permissions
    OBVIOUS
  <2> QED BY <1>2, <2>1, AdmitStep DEF AssignPermissions, RemovePermission, Ops
<1>3. ASSUME NEW a \in Members \cup {Root}, NEW r \in Roles, NEW u \in Members,
             AssignRole(a, u, r) \/ UnassignRole(a, u, r)
      PROVE  AccessInv'
  <2>1. {u} \in SUBSET Members
    OBVIOUS
  <2> QED BY <1>3, <2>1, AdmitStep DEF AssignRole, UnassignRole, Ops
<1>4. ASSUME NEW a \in Members \cup {Root}, NEW r \in Roles, RemoveRole(a, r)
      PROVE  AccessInv'
  BY <1>4, AdmitStep DEF RemoveRole, Ops
<1>5. ASSUME NEW q \in requests,
             Check(q) \/ WriteRows(q) \/ Refuse(q) \/ Query(q) \/ Announce(q)
      PROVE  AccessInv'
  BY <1>5, CheckStep, WriteStep, RefuseStep, QueryStep, AnnounceStep
<1>6. ASSUME NEW u \in Members, (\E client \in BOOLEAN : Lookup(u, client)) \/ Store(u) \/ Expire(u)
      PROVE  AccessInv'
  BY <1>6, LookupStep, StoreStep, ExpireStep
<1>7. CASE UNCHANGED accessVars
  <2>1. UNCHANGED <<tables, caching, started, blessed, outdated>> /\ requests' = requests
    BY <1>7 DEF accessVars, tables, caching
  <2>2. \A u \in Members : ToBeTold(u) => ToBeTold(u)'
    BY <2>1, ToldKept
  <2> QED BY <2>1, <2>2, OnlyRequests DEF AccessInv, AccessTypeOK, RequestsAreBlessed
<1> QED BY <1>1, <1>2, <1>3, <1>4, <1>5, <1>6, <1>7 DEF AccessNext

\* Every reachable state of the roles and their permissions is well typed.
THEOREM AccessTypeCorrect == AccessSpec => []AccessTypeOK
<1>1. AccessInv => AccessTypeOK
  BY DEF AccessInv
<1> QED BY <1>1, AccessInvInit, AccessInvStep, PTL DEF AccessSpec

\* Nobody gains by the requests of users what no user had and Root never gave
\* away: a request is checked against abilities that may be outdated, but not
\* beyond what was blessed, and what its role gains meanwhile was checked too.
THEOREM GrantsWhatIsHeld == AccessSpec => []OnlyGrantsWhatIsHeld
<1>1. AccessInv => OnlyGrantsWhatIsHeld
  BY DEF AccessInv, KnownIsBlessed, OnlyGrantsWhatIsHeld
<1> QED BY <1>1, AccessInvInit, AccessInvStep, PTL DEF AccessSpec

\* Besides, the server answers from current permissions once its requests are
\* done, and a client that has fetched shows them: a user whose rights a
\* write touches is told by the request that wrote, or by the one that made
\* or unmade him a holder.
THEOREM AccessSound == AccessSpec => []AccessIsSound
<1>1. AccessInv => SettledIsCurrent
  <2> SUFFICES ASSUME AccessInv, requests = {}, NEW u \in Members, u \notin outdated
               PROVE  /\ cache[u] \in {Unset, Current(u)}
                      /\ u \notin notice /\ lookup[u] = Unset => shown[u] = Current(u)
    BY DEF SettledIsCurrent
  <2>1. ~ToBeTold(u)
    BY DEF ToBeTold
  <2> QED BY <2>1 DEF AccessInv, AnswersAreCurrent
<1>2. AccessInv => OnlyGrantsWhatIsHeld
  BY DEF AccessInv, KnownIsBlessed, OnlyGrantsWhatIsHeld
<1> QED BY <1>1, <1>2, AccessInvInit, AccessInvStep, PTL DEF AccessSpec, AccessIsSound

----------------------------------------------------------------------------
(* The registry: the inductive invariant. *)

ProcessType ==
    [release : Releases, registry : SUBSET STRING, boot : BootType \cup {Absent}]

RegistryTypeOK ==
    /\ rows \subseteq STRING /\ orphaned \subseteq STRING /\ actions \subseteq Actions
    /\ process \in [Processes -> ProcessType]
    /\ crossed \subseteq Processes \cup {"lookup"}

(* A process that boots has no registry yet; what it has still to sync are *)
(* controllers of its release.                                             *)
BootsAreSound ==
    \A i \in Processes :
        /\ process[i].registry \in {{}, Names(process[i].release)}
        /\ i \in Booting =>
             /\ process[i].registry = {}
             /\ Range(process[i].boot.todo) \subseteq Names(process[i].release)
             /\ process[i].boot.at \in {"upsert", "permissions", "insert"} =>
                  process[i].boot.todo # <<>>
             /\ process[i].boot.at = "orphan" => process[i].boot.todo = <<>>

(* A boot that nothing crossed knows the actions there are, and has every  *)
(* permission of the controllers behind it; of the one in hand it is about *)
(* to insert what is missing.                                              *)
MatrixGrows ==
    \A i \in Booting \ crossed :
        /\ deletion = Absent /\ process[i].boot.actions = actions
        /\ \A r \in Names(process[i].release) :
             r \in Range(process[i].boot.todo) \/ {r} \X actions \subseteq permissions
        /\ process[i].boot.at = "insert" =>
             {ThisResource(i)} \X (actions \ process[i].boot.found) \subseteq permissions

(* An active resource has a process of a release with its controller, or   *)
(* one whose boot has still to look for orphans, or to mark this one: it   *)
(* may have given up, and will boot again before it serves the registry.   *)
WillLookAt(i, r) ==
    process[i].registry = {} /\ (At(i, "orphan") => r \in process[i].boot.orphans)

ActiveIsKept ==
    \A r \in rows \ orphaned : \E i \in Processes :
        r \in Names(process[i].release) \/ WillLookAt(i, r)

(* The cached map is the table's, or a boot will drop it, or has given up; *)
(* a lookup that no write crossed has read the table as it is.             *)
MapIsKept ==
    /\ \/ subjectMap \in {Absent, SubjectMaps}
       \/ "lookup" \in crossed
       \/ \E i \in Processes : i \in Booting \/ i \in crossed
    /\ "lookup" \in crossed \/ read \in {Absent, SubjectMaps}

RegistryInv ==
    /\ RegistryTypeOK /\ BootsAreSound /\ MatrixGrows /\ ActiveIsKept /\ MapIsKept

----------------------------------------------------------------------------
(* Sequences of controllers, and what is known of a process. *)

\* The controllers of a sequence are its first and those of its rest.
LEMMA HeadOrTail ==
    ASSUME NEW s \in Seq(STRING), s # <<>>
    PROVE  /\ Head(s) \in STRING /\ Tail(s) \in Seq(STRING)
           /\ Head(s) \in Range(s) /\ Range(Tail(s)) \subseteq Range(s)
           /\ \A r \in Range(s) : r = Head(s) \/ r \in Range(Tail(s))
<1>1. Len(s) \in Nat /\ Len(s) >= 1 /\ DOMAIN s = 1 .. Len(s) /\ Head(s) = s[1]
  OBVIOUS
<1>2. /\ Tail(s) \in Seq(STRING) /\ DOMAIN Tail(s) = 1 .. (Len(s) - 1)
      /\ \A k \in 1 .. (Len(s) - 1) : Tail(s)[k] = s[k + 1]
  OBVIOUS
<1>3. Head(s) \in STRING /\ Head(s) \in Range(s)
  BY <1>1 DEF Range
<1>4. ASSUME NEW r \in Range(Tail(s))
      PROVE  r \in Range(s)
  <2>1. PICK k \in 1 .. (Len(s) - 1) : r = s[k + 1]
    BY <1>2 DEF Range
  <2>2. k + 1 \in 1 .. Len(s)
    BY <1>1
  <2> QED BY <1>1, <2>1, <2>2 DEF Range
<1>5. ASSUME NEW r \in Range(s), r # Head(s)
      PROVE  r \in Range(Tail(s))
  <2>1. PICK k \in 1 .. Len(s) : r = s[k]
    BY <1>1 DEF Range
  <2>2. k # 1
    BY <1>1, <1>5, <2>1
  <2>3. k - 1 \in 1 .. (Len(s) - 1) /\ (k - 1) + 1 = k
    BY <1>1, <2>2
  <2>4. Tail(s)[k - 1] = s[k]
    BY <1>2, <2>3
  <2> QED BY <1>2, <2>1, <2>3, <2>4 DEF Range
<1> QED BY <1>2, <1>3, <1>4, <1>5

\* A release names its controllers.
LEMMA ReleaseFacts ==
    ASSUME NEW rel \in Releases
    PROVE  Registered[rel] \in Seq(STRING) /\ Names(rel) \subseteq STRING
<1>1. Registered[rel] \in Seq(STRING)
  BY RegistryAssumption
<1>2. \A k \in DOMAIN Registered[rel] : Registered[rel][k] \in STRING
  BY <1>1
<1> QED BY <1>1, <1>2 DEF Names, Range

\* A process that boots has a boot, which is not Absent.
LEMMA BootFacts ==
    ASSUME RegistryTypeOK
    PROVE  /\ \A i \in Processes : process[i] \in ProcessType
           /\ \A i \in Booting : i \in Processes /\ process[i].boot \in BootType
           /\ \A b \in BootType : b # Absent
<1>1. \A i \in Processes : process[i] \in ProcessType
  BY DEF RegistryTypeOK
<1>2. \A i \in Booting : i \in Processes /\ process[i].boot # Absent
  BY DEF Booting
<1>3. \A b \in BootType : b # Absent
  BY RegistryAssumption
<1> QED BY <1>1, <1>2, <1>3 DEF ProcessType

\* A process that goes on with boot b; the others stay.
LEMMA GoesFacts ==
    ASSUME RegistryTypeOK, NEW i \in Processes, NEW b \in BootType \cup {Absent}, Goes(i, b)
    PROVE  /\ process' \in [Processes -> ProcessType]
           /\ process'[i].boot = b
           /\ process'[i].release = process[i].release
           /\ process'[i].registry = process[i].registry
           /\ \A j \in Processes : j # i => process'[j] = process[j]
BY DEF RegistryTypeOK, Goes, ProcessType

----------------------------------------------------------------------------
(* The steps of a boot. *)

(* b is the boot of i after a step: what is left of it, and of the matrix. *)
BootGoesOn(i, b) ==
    /\ b \in BootType /\ Range(b.todo) \subseteq Names(process[i].release)
    /\ b.at \in {"upsert", "permissions", "insert"} => b.todo # <<>>
    /\ b.at = "orphan" => b.todo = <<>>
    /\ i \notin crossed =>
         /\ b.actions = actions
         /\ \A r \in Names(process[i].release) :
              r \in Range(b.todo) \/ {r} \X actions \subseteq permissions'
         /\ b.at = "insert" => {Head(b.todo)} \X (actions \ b.found) \subseteq permissions'

\* A boot that goes on keeps the invariant.
LEMMA BootStep ==
    ASSUME RegistryInv, NEW i \in Booting, NEW b, Goes(i, b), BootGoesOn(i, b),
           rows' \subseteq STRING, orphaned' \subseteq STRING,
           UNCHANGED <<actions, deletion, subjectMap, read>>,
           permissions \subseteq permissions',
           crossed \subseteq crossed', crossed' \subseteq Processes \cup {"lookup"},
           SubjectMaps' = SubjectMaps \/ Reader \subseteq crossed',
           \A r \in rows' \ orphaned' :
               /\ r \in rows \ orphaned \/ r \in Names(process[i].release)
               /\ WillLookAt(i, r) =>
                    r \in Names(process[i].release) \/ (b.at = "orphan" => r \in b.orphans)
    PROVE  RegistryInv'
<1>0. /\ RegistryTypeOK /\ BootsAreSound /\ MatrixGrows /\ ActiveIsKept /\ MapIsKept
      /\ i \in Processes /\ b \in BootType /\ process[i].boot # Absent
  BY BootFacts DEF RegistryInv, BootGoesOn
<1>1. /\ process' \in [Processes -> ProcessType] /\ process'[i].boot = b
      /\ process'[i].release = process[i].release
      /\ process'[i].registry = process[i].registry
      /\ \A j \in Processes : j # i => process'[j] = process[j]
  BY <1>0, GoesFacts
<1>2. Booting' = Booting
  <2>1. b # Absent
    BY <1>0, BootFacts
  <2>2. \A j \in Processes : process'[j].boot # Absent <=> process[j].boot # Absent
    BY <1>0, <1>1, <2>1
  <2> QED BY <2>2 DEF Booting
<1>3. RegistryTypeOK'
  BY <1>0, <1>1 DEF RegistryTypeOK
<1>4. BootsAreSound'
  <2>1. SUFFICES ASSUME NEW j \in Processes
        PROVE  /\ process'[j].registry \in {{}, Names(process'[j].release)}
               /\ j \in Booting =>
                    /\ process'[j].registry = {}
                    /\ Range(process'[j].boot.todo) \subseteq Names(process'[j].release)
                    /\ process'[j].boot.at \in {"upsert", "permissions", "insert"} =>
                         process'[j].boot.todo # <<>>
                    /\ process'[j].boot.at = "orphan" => process'[j].boot.todo = <<>>
    BY <1>2 DEF BootsAreSound, Names
  <2>2. CASE j = i
    BY <1>0, <1>1, <2>2 DEF BootsAreSound, BootGoesOn
  <2>3. CASE j # i
    BY <1>0, <1>1, <2>3 DEF BootsAreSound
  <2> QED BY <2>2, <2>3
<1>5. MatrixGrows'
  <2>1. SUFFICES ASSUME NEW j \in Booting, j \notin crossed'
        PROVE  /\ deletion' = Absent /\ process'[j].boot.actions = actions'
               /\ \A r \in Names(process'[j].release) :
                    \/ r \in Range(process'[j].boot.todo)
                    \/ {r} \X actions' \subseteq permissions'
               /\ process'[j].boot.at = "insert" =>
                    {Head(process'[j].boot.todo)} \X (actions' \ process'[j].boot.found)
                      \subseteq permissions'
    BY <1>2 DEF MatrixGrows, Names, ThisResource
  <2>2. j \in Processes /\ j \notin crossed /\ deletion = Absent
    BY <1>0, <2>1 DEF MatrixGrows, Booting
  <2>3. CASE j = i
    BY <1>1, <2>2, <2>3 DEF BootGoesOn
  <2>4. CASE j # i
    <3>1. process'[j] = process[j]
      BY <1>1, <2>2, <2>4
    <3>2. /\ process[j].boot.actions = actions
          /\ \A r \in Names(process[j].release) :
               r \in Range(process[j].boot.todo) \/ {r} \X actions \subseteq permissions
          /\ process[j].boot.at = "insert" =>
               {Head(process[j].boot.todo)} \X (actions \ process[j].boot.found) \subseteq permissions
      BY <1>0, <2>2 DEF MatrixGrows, ThisResource
    <3> QED BY <2>2, <3>1, <3>2
  <2> QED BY <2>3, <2>4
<1>6. ActiveIsKept'
  <2>1. SUFFICES ASSUME NEW r \in rows' \ orphaned'
        PROVE  \E j \in Processes : r \in Names(process'[j].release) \/ WillLookAt(j, r)'
    BY DEF ActiveIsKept, Names
  <2>2. CASE r \in Names(process[i].release)
    BY <1>0, <1>1, <2>2
  <2>3. CASE r \in rows \ orphaned /\ r \notin Names(process[i].release)
    <3>1. PICK j \in Processes : r \in Names(process[j].release) \/ WillLookAt(j, r)
      BY <1>0, <2>3 DEF ActiveIsKept
    <3>2. CASE j = i
      <4>1. process[i].registry = {} /\ (b.at = "orphan" => r \in b.orphans)
        BY <2>1, <2>3, <3>1, <3>2 DEF WillLookAt
      <4> QED BY <1>0, <1>1, <4>1 DEF WillLookAt, At
    <3>3. CASE j # i
      BY <1>1, <1>2, <3>1, <3>3 DEF WillLookAt, At
    <3> QED BY <3>2, <3>3
  <2> QED BY <2>1, <2>2, <2>3
<1>7. MapIsKept'
  <2>1. i \in Processes /\ i \in Booting'
    BY <1>0, <1>2
  <2>2. "lookup" \in crossed' \/ read' \in {Absent, SubjectMaps'}
    BY <1>0 DEF MapIsKept, Reader
  <2> QED BY <2>1, <2>2 DEF MapIsKept
<1> QED BY <1>3, <1>4, <1>5, <1>6, <1>7 DEF RegistryInv

\* What the invariant says of a process that boots.
LEMMA BootingFacts ==
    ASSUME RegistryInv, NEW i \in Booting
    PROVE  /\ i \in Processes /\ process[i].boot \in BootType
           /\ process[i].registry = {} /\ process[i].release \in Releases
           /\ Range(process[i].boot.todo) \subseteq Names(process[i].release)
           /\ process[i].boot.at \in {"upsert", "permissions", "insert"} =>
                process[i].boot.todo # <<>>
           /\ process[i].boot.at = "orphan" => process[i].boot.todo = <<>>
           /\ process[i].boot.todo \in Seq(STRING)
           /\ i \notin crossed =>
                /\ process[i].boot.actions = actions
                /\ \A r \in Names(process[i].release) :
                     r \in Range(process[i].boot.todo) \/ {r} \X actions \subseteq permissions
<1>1. i \in Processes /\ process[i].boot \in BootType /\ process[i] \in ProcessType
  BY BootFacts DEF RegistryInv
<1>2. process[i].boot.todo \in Seq(STRING) /\ process[i].release \in Releases
  BY <1>1 DEF BootType, ProcessType
<1> QED BY <1>1, <1>2 DEF RegistryInv, BootsAreSound, MatrixGrows

LEMMA FindResourceStep ==
    ASSUME RegistryInv, NEW i \in Processes, FindResource(i)
    PROVE  RegistryInv'
<1> DEFINE boot == process[i].boot
           b == [boot EXCEPT !.at = "upsert",
                             !.found = [there |-> ThisResource(i) \in rows,
                                        orphan |-> ThisResource(i) \in orphaned]]
<1>0. /\ i \in Booting /\ boot.at = "find" /\ boot.todo # <<>> /\ Goes(i, b)
      /\ UNCHANGED <<rows, orphaned, actions, permissions, deletion, subjectMap, read, crossed>>
  BY DEF FindResource, At, registryTables, editing, mapping
<1>1. boot \in BootType
  BY <1>0, BootingFacts
<1>2. [there |-> ThisResource(i) \in rows, orphan |-> ThisResource(i) \in orphaned] \in Finding
  BY DEF Finding
<1>3. /\ b \in BootType /\ b.at = "upsert" /\ b.todo = boot.todo /\ b.actions = boot.actions
      /\ b.orphans = boot.orphans
  BY <1>1, <1>2 DEF BootType
<1> HIDE DEF b
<1>4. BootGoesOn(i, b)
  BY <1>0, <1>3, BootingFacts DEF BootGoesOn
<1>5. /\ rows \subseteq STRING /\ orphaned \subseteq STRING /\ crossed \subseteq Processes \cup {"lookup"}
      /\ SubjectMaps' = SubjectMaps
  BY <1>0 DEF RegistryInv, RegistryTypeOK, SubjectMaps
<1> QED BY <1>0, <1>3, <1>4, <1>5, BootStep

LEMMA ListOrphansStep ==
    ASSUME RegistryInv, NEW i \in Processes, ListOrphans(i)
    PROVE  RegistryInv'
<1> DEFINE boot == process[i].boot
           b == [boot EXCEPT !.at = "orphan", !.orphans = Unregistered(i)]
<1>0. /\ i \in Booting /\ boot.at = "find" /\ boot.todo = <<>> /\ Goes(i, b)
      /\ UNCHANGED <<rows, orphaned, actions, permissions, deletion, subjectMap, read, crossed>>
  BY DEF ListOrphans, At, registryTables, editing, mapping
<1>1. /\ boot \in BootType
      /\ rows \subseteq STRING /\ orphaned \subseteq STRING /\ crossed \subseteq Processes \cup {"lookup"}
      /\ SubjectMaps' = SubjectMaps
  BY <1>0, BootingFacts DEF RegistryInv, RegistryTypeOK, SubjectMaps
<1>2. Unregistered(i) \in SUBSET STRING
  BY <1>1 DEF Unregistered
<1>3. /\ b \in BootType /\ b.at = "orphan" /\ b.todo = boot.todo /\ b.actions = boot.actions
      /\ b.orphans = Unregistered(i)
  BY <1>1, <1>2 DEF BootType
<1> HIDE DEF b
<1>4. BootGoesOn(i, b)
  BY <1>0, <1>3, BootingFacts DEF BootGoesOn
<1>5. \A r \in rows' \ orphaned' : r \in Names(process[i].release) \/ r \in b.orphans
  BY <1>0, <1>3 DEF Unregistered
<1> QED BY <1>0, <1>1, <1>3, <1>4, <1>5, BootStep

LEMMA FindPermissionsStep ==
    ASSUME RegistryInv, NEW i \in Processes, FindPermissions(i)
    PROVE  RegistryInv'
<1> DEFINE boot == process[i].boot
           there == {a \in actions : <<ThisResource(i), a>> \in permissions}
           b == [boot EXCEPT !.at = "insert", !.found = Missing(boot, there, ThisResource(i))]
<1>0. /\ i \in Booting /\ boot.at = "permissions" /\ Goes(i, b)
      /\ UNCHANGED <<rows, orphaned, actions, permissions, deletion, subjectMap, read, crossed>>
  BY DEF FindPermissions, At, registryTables, editing, mapping
<1>1. /\ boot \in BootType /\ boot.todo # <<>>
      /\ rows \subseteq STRING /\ orphaned \subseteq STRING /\ crossed \subseteq Processes \cup {"lookup"}
      /\ SubjectMaps' = SubjectMaps
  BY <1>0, BootingFacts DEF RegistryInv, RegistryTypeOK, SubjectMaps
<1>2. Missing(boot, there, ThisResource(i)) = boot.actions \ there
  BY DEF Missing
<1>3. boot.actions \ there \in Finding
  BY <1>1 DEF BootType, Finding
<1>4. /\ b \in BootType /\ b.at = "insert" /\ b.todo = boot.todo /\ b.actions = boot.actions
      /\ b.found = boot.actions \ there
  BY <1>1, <1>2, <1>3 DEF BootType
<1>5. i \notin crossed => {Head(b.todo)} \X (actions \ b.found) \subseteq permissions
  <2>1. SUFFICES ASSUME i \notin crossed, NEW a \in actions, a \notin b.found
                 PROVE  <<Head(b.todo), a>> \in permissions
    OBVIOUS
  <2>2. a \in there
    BY <1>0, <1>4, <2>1, BootingFacts
  <2> QED BY <1>4, <2>2 DEF ThisResource
<1> HIDE DEF b
<1>6. BootGoesOn(i, b)
  BY <1>0, <1>1, <1>4, <1>5, BootingFacts DEF BootGoesOn
<1> QED BY <1>0, <1>1, <1>4, <1>6, BootStep

\* A boot that gives up has no registry, and its process is marked.
LEMMA GiveUpStep ==
    ASSUME RegistryInv, NEW i \in Booting, GiveUp(i)
    PROVE  RegistryInv'
<1>0. /\ RegistryTypeOK /\ BootsAreSound /\ MatrixGrows /\ ActiveIsKept /\ MapIsKept
      /\ i \in Processes /\ process[i].registry = {}
      /\ Goes(i, Absent) /\ crossed' = crossed \cup {i}
      /\ UNCHANGED <<rows, orphaned, actions, permissions, deletion, subjectMap, read>>
      /\ SubjectMaps' = SubjectMaps
  BY BootingFacts DEF RegistryInv, GiveUp, Booted, Cross, registryTables, editing, mapping, SubjectMaps
<1>1. /\ process' \in [Processes -> ProcessType] /\ process'[i].boot = Absent
      /\ process'[i].release = process[i].release
      /\ process'[i].registry = process[i].registry
      /\ \A j \in Processes : j # i => process'[j] = process[j]
  BY <1>0, GoesFacts
<1>2. Booting' = Booting \ {i}
  <2>1. \A j \in Processes : process'[j].boot # Absent <=> process[j].boot # Absent /\ j # i
    BY <1>0, <1>1
  <2> QED BY <2>1 DEF Booting
<1>3. RegistryTypeOK'
  BY <1>0, <1>1 DEF RegistryTypeOK
<1>4. BootsAreSound'
  BY <1>0, <1>1, <1>2 DEF BootsAreSound, Names
<1>5. MatrixGrows'
  <2>1. \A j \in (Booting \ crossed)' : j \in Booting \ crossed /\ process'[j] = process[j]
    BY <1>0, <1>1, <1>2 DEF Booting
  <2> QED BY <1>0, <2>1 DEF MatrixGrows, Names, ThisResource
<1>6. ActiveIsKept'
  <2>1. \A r : WillLookAt(i, r)'
    BY <1>0, <1>1, <1>2 DEF WillLookAt, At
  <2> QED BY <1>0, <2>1 DEF ActiveIsKept
<1>7. MapIsKept'
  BY <1>0 DEF MapIsKept
<1> QED BY <1>3, <1>4, <1>5, <1>6, <1>7 DEF RegistryInv

LEMMA UpsertResourceStep ==
    ASSUME RegistryInv, NEW i \in Processes, UpsertResource(i)
    PROVE  RegistryInv'
<1> DEFINE boot == process[i].boot
           r == ThisResource(i)
           b == [boot EXCEPT !.at = "permissions", !.found = Absent]
<1>0. i \in Booting /\ boot.at = "upsert"
  BY DEF UpsertResource, At
<1>1. CASE ~boot.found.there /\ r \in rows
  BY <1>0, <1>1, GiveUpStep DEF UpsertResource
<1>2. CASE ~(~boot.found.there /\ r \in rows)
  <2>1. /\ rows' = rows \cup {r} /\ Goes(i, b)
        /\ orphaned' \subseteq orphaned \cup {r} /\ orphaned \subseteq orphaned' \cup {r}
        /\ crossed' = crossed \cup Reader
        /\ UNCHANGED <<actions, permissions, deletion, subjectMap, read>>
    BY <1>2 DEF UpsertResource, Cross, editing, mapping
  <2>2. /\ boot \in BootType /\ boot.todo # <<>> /\ r \in STRING
        /\ r \in Names(process[i].release)
    BY <1>0, BootingFacts, HeadOrTail DEF ThisResource
  <2>3. /\ rows' \subseteq STRING /\ orphaned' \subseteq STRING
        /\ Reader \subseteq {"lookup"} /\ crossed' \subseteq Processes \cup {"lookup"}
    BY <2>1, <2>2 DEF RegistryInv, RegistryTypeOK, Reader
  <2>4. Absent \in Finding
    BY DEF Finding
  <2>5. b \in BootType /\ b.at = "permissions" /\ b.todo = boot.todo /\ b.actions = boot.actions
    BY <2>2, <2>4 DEF BootType
  <2> HIDE DEF b
  <2>6. BootGoesOn(i, b)
    BY <1>0, <2>1, <2>2, <2>5, BootingFacts DEF BootGoesOn
  <2> HIDE DEF r
  <2>7. \A x \in rows' \ orphaned' : x \in rows \ orphaned \/ x \in Names(process[i].release)
    BY <2>1, <2>2
  <2> QED BY <1>0, <2>1, <2>3, <2>5, <2>6, <2>7, BootStep
<1> QED BY <1>1, <1>2

LEMMA InsertPermissionsStep ==
    ASSUME RegistryInv, NEW i \in Processes, InsertPermissions(i)
    PROVE  RegistryInv'
<1> DEFINE boot == process[i].boot
           new == {ThisResource(i)} \X boot.found
           b == [boot EXCEPT !.at = "find", !.todo = Tail(@), !.found = Absent]
<1>0. i \in Booting /\ boot.at = "insert"
  BY DEF InsertPermissions, At
<1>1. CASE new \cap permissions # {} \/ ~(boot.found \subseteq actions)
  BY <1>0, <1>1, GiveUpStep DEF InsertPermissions
<1>2. CASE ~(new \cap permissions # {} \/ ~(boot.found \subseteq actions))
  <2>1. /\ permissions' = permissions \cup new /\ Goes(i, b)
        /\ UNCHANGED <<rows, orphaned, actions, deletion, subjectMap, read, crossed>>
    BY <1>2 DEF InsertPermissions, editing, mapping
  <2>2. /\ boot \in BootType /\ boot.todo # <<>> /\ Tail(boot.todo) \in Seq(STRING)
        /\ Range(Tail(boot.todo)) \subseteq Range(boot.todo)
        /\ \A x \in Range(boot.todo) : x = Head(boot.todo) \/ x \in Range(Tail(boot.todo))
    BY <1>0, BootingFacts, HeadOrTail
  <2>3. /\ rows \subseteq STRING /\ orphaned \subseteq STRING /\ crossed \subseteq Processes \cup {"lookup"}
        /\ SubjectMaps' = SubjectMaps
    BY <2>1 DEF RegistryInv, RegistryTypeOK, SubjectMaps
  <2>4. Absent \in Finding
    BY DEF Finding
  <2>5. b \in BootType /\ b.at = "find" /\ b.todo = Tail(boot.todo) /\ b.actions = boot.actions
    BY <2>2, <2>4 DEF BootType
  <2>6. i \notin crossed => {Head(boot.todo)} \X actions \subseteq permissions'
    <3>1. SUFFICES ASSUME i \notin crossed, NEW a \in actions
                   PROVE  <<Head(boot.todo), a>> \in permissions'
      OBVIOUS
    <3>2. {Head(boot.todo)} \X (actions \ boot.found) \subseteq permissions
      BY <1>0, <3>1 DEF RegistryInv, MatrixGrows, ThisResource
    <3> QED BY <2>1, <3>2 DEF ThisResource
  <2> HIDE DEF b
  <2>7. BootGoesOn(i, b)
    BY <1>0, <2>1, <2>2, <2>5, <2>6, BootingFacts DEF BootGoesOn
  <2> QED BY <1>0, <2>1, <2>3, <2>5, <2>7, BootStep
<1> QED BY <1>1, <1>2

LEMMA MarkOrphanStep ==
    ASSUME RegistryInv, NEW i \in Processes, NEW r \in rows, MarkOrphan(i, r)
    PROVE  RegistryInv'
<1> DEFINE boot == process[i].boot
           b == [boot EXCEPT !.orphans = @ \ {r}]
<1>0. /\ i \in Booting /\ boot.at = "orphan" /\ Goes(i, b)
      /\ orphaned' = orphaned \cup {r} /\ crossed' = crossed \cup Reader
      /\ UNCHANGED <<rows, actions, permissions, deletion, subjectMap, read>>
  BY DEF MarkOrphan, At, Cross, editing, mapping
<1>1. /\ boot \in BootType
      /\ rows' \subseteq STRING /\ orphaned' \subseteq STRING
      /\ Reader \subseteq {"lookup"} /\ crossed' \subseteq Processes \cup {"lookup"}
  BY <1>0, BootingFacts DEF RegistryInv, RegistryTypeOK, Reader
<1>2. /\ b \in BootType /\ b.at = "orphan" /\ b.todo = boot.todo /\ b.actions = boot.actions
      /\ b.orphans = boot.orphans \ {r}
  BY <1>0, <1>1 DEF BootType
<1> HIDE DEF b
<1>3. BootGoesOn(i, b)
  BY <1>0, <1>2, BootingFacts DEF BootGoesOn
<1>4. \A x \in rows' \ orphaned' : x \in rows \ orphaned /\ (WillLookAt(i, x) => x \in b.orphans)
  BY <1>0, <1>2 DEF WillLookAt, At
<1> QED BY <1>0, <1>1, <1>2, <1>3, <1>4, BootStep

LEMMA FinishSyncStep ==
    ASSUME RegistryInv, NEW i \in Processes, FinishSync(i)
    PROVE  RegistryInv'
<1>0. /\ RegistryTypeOK /\ BootsAreSound /\ MatrixGrows /\ ActiveIsKept /\ MapIsKept
      /\ i \in Booting /\ At(i, "orphan") /\ process[i].boot.orphans = {}
      /\ process' = [process EXCEPT ![i].boot = Absent,
                                    ![i].registry = Names(process[i].release)]
      /\ subjectMap' = Absent
      /\ UNCHANGED <<rows, orphaned, actions, permissions, deletion, read, crossed>>
      /\ SubjectMaps' = SubjectMaps /\ Names(process[i].release) \subseteq STRING
  BY BootFacts, ReleaseFacts
  DEF RegistryInv, FinishSync, At, Booted, DroppedMap, registryTables, editing, SubjectMaps,
      ProcessType
<1>1. /\ process' \in [Processes -> ProcessType] /\ process'[i].boot = Absent
      /\ process'[i].release = process[i].release
      /\ process'[i].registry = Names(process[i].release)
      /\ \A j \in Processes : j # i => process'[j] = process[j]
  BY <1>0 DEF RegistryTypeOK, ProcessType
<1>2. Booting' = Booting \ {i}
  <2>1. \A j \in Processes : process'[j].boot # Absent <=> process[j].boot # Absent /\ j # i
    BY <1>1
  <2> QED BY <2>1 DEF Booting
<1>3. RegistryTypeOK'
  BY <1>0, <1>1 DEF RegistryTypeOK
<1>4. BootsAreSound'
  BY <1>0, <1>1, <1>2 DEF BootsAreSound, Names
<1>5. MatrixGrows'
  <2>1. \A j \in (Booting \ crossed)' : j \in Booting \ crossed /\ process'[j] = process[j]
    BY <1>0, <1>1, <1>2 DEF Booting
  <2> QED BY <1>0, <2>1 DEF MatrixGrows, Names, ThisResource
<1>6. ActiveIsKept'
  <2>1. SUFFICES ASSUME NEW r \in rows \ orphaned
        PROVE  \E j \in Processes : r \in Names(process'[j].release) \/ WillLookAt(j, r)'
    BY <1>0 DEF ActiveIsKept, Names
  <2>2. PICK j \in Processes : r \in Names(process[j].release) \/ WillLookAt(j, r)
    BY <1>0 DEF ActiveIsKept
  <2>3. CASE j = i
    BY <1>0, <1>1, <2>2, <2>3 DEF WillLookAt
  <2>4. CASE j # i
    BY <1>1, <1>2, <2>2, <2>4 DEF WillLookAt, At
  <2> QED BY <2>3, <2>4
<1>7. MapIsKept'
  BY <1>0 DEF MapIsKept
<1> QED BY <1>3, <1>4, <1>5, <1>6, <1>7 DEF RegistryInv

LEMMA StartProcessStep ==
    ASSUME RegistryInv, NEW i \in Processes, NEW rel \in Releases, StartProcess(i, rel)
    PROVE  RegistryInv'
<1> DEFINE b == Boot(rel)
<1>0. /\ RegistryTypeOK /\ BootsAreSound /\ MatrixGrows /\ ActiveIsKept /\ MapIsKept
      /\ i \notin Booting
      /\ process' = [process EXCEPT ![i] = [release |-> rel, registry |-> {}, boot |-> b]]
      /\ crossed' = (crossed \ {i}) \cup
           (IF creation = Absent /\ deletion = Absent THEN {} ELSE {i})
      /\ UNCHANGED <<rows, orphaned, actions, permissions, deletion, subjectMap, read>>
      /\ SubjectMaps' = SubjectMaps /\ i # "lookup"
  BY RegistryAssumption DEF RegistryInv, StartProcess, registryTables, editing, mapping, SubjectMaps
<1>1. /\ b \in BootType /\ b # Absent /\ b.at = "find" /\ b.actions = actions
      /\ b.todo = Registered[rel] /\ Range(b.todo) = Names(rel)
  <2>1. Registered[rel] \in Seq(STRING) /\ Absent \in Finding /\ actions \in SUBSET Actions
    BY <1>0, ReleaseFacts DEF Finding, RegistryTypeOK
  <2>2. b = [actions |-> actions, todo |-> Registered[rel], at |-> "find",
             found |-> Absent, orphans |-> {}]
    BY DEF Boot
  <2> QED BY <1>0, <2>1, <2>2, BootFacts DEF BootType, Names
<1> HIDE DEF b
<1>2. /\ process' \in [Processes -> ProcessType]
      /\ process'[i].boot = b /\ process'[i].release = rel /\ process'[i].registry = {}
      /\ \A j \in Processes : j # i => process'[j] = process[j]
  BY <1>0, <1>1 DEF RegistryTypeOK, ProcessType
<1>3. Booting' = Booting \cup {i}
  <2>1. \A j \in Processes : process'[j].boot # Absent <=> process[j].boot # Absent \/ j = i
    BY <1>1, <1>2
  <2> QED BY <2>1 DEF Booting
<1>4. RegistryTypeOK'
  BY <1>0, <1>2 DEF RegistryTypeOK
<1>5. BootsAreSound'
  <2>1. SUFFICES ASSUME NEW j \in Processes
        PROVE  /\ process'[j].registry \in {{}, Names(process'[j].release)}
               /\ j \in Booting' =>
                    /\ process'[j].registry = {}
                    /\ Range(process'[j].boot.todo) \subseteq Names(process'[j].release)
                    /\ process'[j].boot.at \in {"upsert", "permissions", "insert"} =>
                         process'[j].boot.todo # <<>>
                    /\ process'[j].boot.at = "orphan" => process'[j].boot.todo = <<>>
    BY DEF BootsAreSound, Names
  <2>2. CASE j = i
    BY <1>1, <1>2, <2>2
  <2>3. CASE j # i
    BY <1>0, <1>2, <1>3, <2>3 DEF BootsAreSound
  <2> QED BY <2>2, <2>3
<1>6. MatrixGrows'
  <2>1. SUFFICES ASSUME NEW j \in Booting \cup {i}, j \notin crossed'
        PROVE  /\ deletion' = Absent /\ process'[j].boot.actions = actions'
               /\ \A r \in Names(process'[j].release) :
                    \/ r \in Range(process'[j].boot.todo)
                    \/ {r} \X actions' \subseteq permissions'
               /\ process'[j].boot.at = "insert" =>
                    {Head(process'[j].boot.todo)} \X (actions' \ process'[j].boot.found)
                      \subseteq permissions'
    BY <1>3 DEF MatrixGrows, Names, ThisResource
  <2>2. CASE j = i
    BY <1>0, <1>1, <1>2, <2>1, <2>2
  <2>3. CASE j # i
    <3>1. process'[j] = process[j] /\ j \in Booting \ crossed
      BY <1>0, <1>2, <2>1, <2>3 DEF Booting
    <3> QED BY <1>0, <3>1 DEF MatrixGrows, ThisResource
  <2> QED BY <2>2, <2>3
<1>7. ActiveIsKept'
  <2>1. \A r : WillLookAt(i, r)'
    BY <1>1, <1>2 DEF WillLookAt, At
  <2> QED BY <2>1 DEF ActiveIsKept
<1>8. MapIsKept'
  BY <1>0, <1>3 DEF MapIsKept
<1> QED BY <1>4, <1>5, <1>6, <1>7, <1>8 DEF RegistryInv

----------------------------------------------------------------------------
(* The steps of administrators and of the cache. *)

LEMMA RestoreResourceStep ==
    ASSUME RegistryInv, NEW i \in Processes, NEW r \in rows, RestoreResource(i, r)
    PROVE  RegistryInv'
<1>0. /\ RegistryTypeOK /\ BootsAreSound /\ MatrixGrows /\ ActiveIsKept /\ MapIsKept
      /\ r \in process[i].registry
      /\ orphaned' = orphaned \ {r} /\ subjectMap' = Absent
      /\ crossed' = crossed \cup Reader /\ Reader \subseteq {"lookup"}
      /\ UNCHANGED <<rows, actions, permissions, process, deletion, read>>
  BY DEF RegistryInv, RestoreResource, DroppedMap, Cross, editing, Reader
<1>1. RegistryTypeOK'
  BY <1>0 DEF RegistryTypeOK
<1>2. Booting' = Booting /\ BootsAreSound'
  BY <1>0 DEF BootsAreSound, Booting, Names
<1>3. MatrixGrows'
  BY <1>0, <1>2 DEF MatrixGrows, Names, ThisResource
<1>4. ActiveIsKept'
  <2>1. r \in Names(process[i].release)
    BY <1>0 DEF BootsAreSound
  <2>2. \A j \in Processes : \A x : WillLookAt(j, x)' = WillLookAt(j, x)
    BY <1>0, <1>2 DEF WillLookAt, At
  <2> QED BY <1>0, <2>1, <2>2 DEF ActiveIsKept, Names
<1>5. MapIsKept'
  BY <1>0 DEF MapIsKept, Reader
<1> QED BY <1>1, <1>2, <1>3, <1>4, <1>5 DEF RegistryInv

\* A step that leaves the resources, the processes and the map alone, and
\* crosses every boot or takes no permission.
LEMMA OnlyActions ==
    ASSUME RegistryInv, UNCHANGED <<rows, orphaned, process, subjectMap, read>>,
           actions' \subseteq Actions,
           crossed \subseteq crossed', crossed' \subseteq Processes \cup {"lookup"},
           \/ Booting \subseteq crossed'
           \/ permissions \subseteq permissions' /\ UNCHANGED <<actions, deletion>>
    PROVE  RegistryInv'
<1>0. /\ RegistryTypeOK /\ BootsAreSound /\ MatrixGrows /\ ActiveIsKept /\ MapIsKept
      /\ SubjectMaps' = SubjectMaps
  BY DEF RegistryInv, SubjectMaps
<1>1. RegistryTypeOK'
  BY <1>0 DEF RegistryTypeOK
<1>2. Booting' = Booting /\ BootsAreSound'
  BY <1>0 DEF BootsAreSound, Booting, Names
<1>3. MatrixGrows'
  <2>1. CASE Booting \subseteq crossed'
    BY <1>2, <2>1 DEF MatrixGrows
  <2>2. CASE permissions \subseteq permissions' /\ UNCHANGED <<actions, deletion>>
    <3>1. SUFFICES ASSUME NEW j \in Booting, j \notin crossed'
          PROVE  /\ deletion = Absent /\ process[j].boot.actions = actions
                 /\ \A r \in Names(process[j].release) :
                      \/ r \in Range(process[j].boot.todo)
                      \/ {r} \X actions \subseteq permissions'
                 /\ process[j].boot.at = "insert" =>
                      {Head(process[j].boot.todo)} \X (actions \ process[j].boot.found)
                        \subseteq permissions'
      BY <1>2, <2>2 DEF MatrixGrows, Names, ThisResource
    <3>2. j \in Booting \ crossed
      BY <3>1
    <3> QED BY <1>0, <2>2, <3>2 DEF MatrixGrows, ThisResource
  <2> QED BY <2>1, <2>2
<1>4. ActiveIsKept'
  BY <1>0, <1>2 DEF ActiveIsKept, WillLookAt, At, Names
<1>5. MapIsKept'
  BY <1>0, <1>2 DEF MapIsKept
<1> QED BY <1>1, <1>2, <1>3, <1>4, <1>5 DEF RegistryInv

LEMMA ActionStep ==
    ASSUME RegistryInv,
           \/ \E a \in Custom : CreateAction(a) \/ DeleteAction(a)
           \/ ReadResources \/ CreatePermissions \/ DeletePermissions \/ RemoveAction
           \/ \E p \in permissions : Assign(p)
    PROVE  RegistryInv'
<1>0. /\ actions \subseteq Actions /\ Custom \subseteq Actions
      /\ crossed \subseteq Processes \cup {"lookup"} /\ Booting \subseteq Processes
  BY DEF RegistryInv, RegistryTypeOK, Actions, Booting
<1>1. ASSUME NEW a \in Custom, CreateAction(a) \/ DeleteAction(a)
      PROVE  RegistryInv'
  <2>1. /\ UNCHANGED <<rows, orphaned, process, subjectMap, read>>
        /\ actions' \subseteq Actions /\ crossed' = crossed \cup Booting
    BY <1>0, <1>1 DEF CreateAction, DeleteAction, Cross, registryTables, mapping
  <2> QED BY <1>0, <2>1, OnlyActions
<1>2. CASE ReadResources \/ CreatePermissions \/ \E p \in permissions : Assign(p)
  <2>1. /\ UNCHANGED <<rows, orphaned, process, subjectMap, read, actions, deletion, crossed>>
        /\ permissions \subseteq permissions'
    BY <1>2 DEF ReadResources, CreatePermissions, Assign, registryTables, mapping, editing
  <2> QED BY <1>0, <2>1, OnlyActions
<1>3. CASE DeletePermissions \/ RemoveAction
  <2>1. /\ UNCHANGED <<rows, orphaned, process, subjectMap, read, crossed>>
        /\ actions' \subseteq actions /\ deletion # Absent
    BY <1>3 DEF DeletePermissions, RemoveAction, mapping
  <2>2. Booting \subseteq crossed
    BY <2>1 DEF RegistryInv, MatrixGrows
  <2> QED BY <1>0, <2>1, <2>2, OnlyActions
<1> QED BY <1>1, <1>2, <1>3

LEMMA MapStep ==
    ASSUME RegistryInv, ReadMap \/ StoreMap \/ ExpireMap
    PROVE  RegistryInv'
<1>0. /\ RegistryTypeOK /\ BootsAreSound /\ MatrixGrows /\ ActiveIsKept /\ MapIsKept
      /\ UNCHANGED <<rows, orphaned, process, actions, permissions, deletion>>
      /\ SubjectMaps' = SubjectMaps /\ "lookup" \notin Processes
      /\ crossed' \subseteq crossed /\ \A i \in Processes : i \in crossed <=> i \in crossed'
  BY RegistryAssumption
  DEF RegistryInv, ReadMap, StoreMap, ExpireMap, registryTables, editing, SubjectMaps
<1>1. RegistryTypeOK'
  BY <1>0 DEF RegistryTypeOK
<1>2. Booting' = Booting /\ BootsAreSound'
  BY <1>0 DEF BootsAreSound, Booting, Names
<1>3. MatrixGrows'
  BY <1>0, <1>2 DEF MatrixGrows, Names, ThisResource, Booting
<1>4. ActiveIsKept'
  BY <1>0, <1>2 DEF ActiveIsKept, WillLookAt, At, Names
<1>5. MapIsKept'
  <2>1. CASE ReadMap
    BY <1>0, <1>2, <2>1 DEF ReadMap, MapIsKept
  <2>2. CASE StoreMap
    BY <1>0, <1>2, <2>2 DEF StoreMap, MapIsKept
  <2>3. CASE ExpireMap
    BY <1>0, <1>2, <2>3 DEF ExpireMap, MapIsKept
  <2> QED BY <2>1, <2>2, <2>3
<1> QED BY <1>1, <1>2, <1>3, <1>4, <1>5 DEF RegistryInv

----------------------------------------------------------------------------
(* The theorem about the registry. *)

LEMMA RegistryStart ==
    ASSUME RegistryInit
    PROVE  RegistryInv
<1>1. FirstRelease \in Releases /\ Names(FirstRelease) \subseteq STRING
  BY RegistryAssumption, ReleaseFacts
<1>2. /\ process = [i \in Processes |-> [release |-> FirstRelease,
                                         registry |-> Names(FirstRelease), boot |-> Absent]]
      /\ rows = Names(FirstRelease) /\ orphaned = {} /\ actions = Defaults
      /\ subjectMap = Absent /\ read = Absent /\ crossed = {}
  BY DEF RegistryInit, Booted
<1>3. Booting = {}
  BY <1>2 DEF Booting
<1>4. RegistryTypeOK
  BY <1>1, <1>2 DEF RegistryTypeOK, ProcessType, Actions
<1>5. BootsAreSound /\ MatrixGrows /\ MapIsKept
  BY <1>2, <1>3 DEF BootsAreSound, MatrixGrows, MapIsKept
<1>6. ActiveIsKept
  BY <1>2, RegistryAssumption DEF ActiveIsKept
<1> QED BY <1>4, <1>5, <1>6 DEF RegistryInv

LEMMA RegistryStep ==
    ASSUME RegistryInv, [RegistryNext]_registryVars
    PROVE  RegistryInv'
<1>1. CASE UNCHANGED registryVars
  BY <1>1, OnlyActions DEF registryVars, RegistryInv, RegistryTypeOK
<1>2. CASE RegistryNext
  <2>1. ASSUME NEW i \in Processes,
               \/ \E rel \in Releases : StartProcess(i, rel)
               \/ FindResource(i) \/ UpsertResource(i)
               \/ FindPermissions(i) \/ InsertPermissions(i)
               \/ ListOrphans(i) \/ FinishSync(i)
               \/ \E r \in rows : MarkOrphan(i, r) \/ RestoreResource(i, r)
        PROVE  RegistryInv'
    BY <2>1, StartProcessStep, FindResourceStep, UpsertResourceStep, FindPermissionsStep,
       InsertPermissionsStep, ListOrphansStep, FinishSyncStep, MarkOrphanStep,
       RestoreResourceStep
  <2> QED BY <1>2, <2>1, ActionStep, MapStep DEF RegistryNext
<1> QED BY <1>1, <1>2

\* Only the end of a boot gives a process a registry, and then the matrix of a
\* boot that nothing crossed is complete.
LEMMA MatrixStep ==
    ASSUME RegistryInv, [RegistryNext]_registryVars, NEW i \in Processes,
           process[i].registry = {}, process'[i].registry # {}, i \notin crossed
    PROVE  process'[i].registry \X actions' \subseteq permissions'
<1>0. RegistryTypeOK
  BY DEF RegistryInv
<1>1. process' # process
  OBVIOUS
<1>2. ASSUME NEW j \in Processes, NEW b, Goes(j, b)
      PROVE  FALSE
  BY <1>0, <1>2 DEF Goes, RegistryTypeOK, ProcessType
<1>3. ASSUME NEW j \in Processes, NEW rel \in Releases, StartProcess(j, rel)
      PROVE  FALSE
  BY <1>0, <1>3 DEF StartProcess, RegistryTypeOK
<1>4. ASSUME NEW j \in Processes, FinishSync(j), j # i
      PROVE  FALSE
  BY <1>0, <1>4 DEF FinishSync, RegistryTypeOK
<1>5. CASE FinishSync(i)
  <2>1. /\ i \in Booting /\ process[i].boot.at = "orphan"
        /\ UNCHANGED <<actions, permissions>>
        /\ process'[i].registry = Names(process[i].release)
    BY <1>0, <1>5 DEF FinishSync, At, registryTables, RegistryTypeOK, ProcessType
  <2>2. process[i].boot.todo = <<>>
    BY <2>1, BootingFacts
  <2>3. Range(process[i].boot.todo) = {}
    BY <2>2 DEF Range
  <2>4. \A r \in Names(process[i].release) : {r} \X actions \subseteq permissions
    BY <2>1, <2>3, BootingFacts
  <2> QED BY <2>1, <2>4
<1>6. ASSUME NEW j \in Processes,
             \/ FindResource(j) \/ UpsertResource(j) \/ FindPermissions(j)
             \/ InsertPermissions(j) \/ ListOrphans(j) \/ \E r \in rows : MarkOrphan(j, r)
      PROVE  FALSE
  BY <1>2, <1>6
  DEF FindResource, UpsertResource, FindPermissions, InsertPermissions, ListOrphans,
      MarkOrphan, GiveUp
<1>7. CASE \/ \E j \in Processes, r \in rows : RestoreResource(j, r)
           \/ \E a \in Custom : CreateAction(a) \/ DeleteAction(a)
           \/ ReadResources \/ CreatePermissions \/ DeletePermissions \/ RemoveAction
           \/ \E p \in permissions : Assign(p)
           \/ ReadMap \/ StoreMap \/ ExpireMap
  BY <1>1, <1>7
  DEF RestoreResource, CreateAction, DeleteAction, ReadResources, CreatePermissions,
      DeletePermissions, RemoveAction, Assign, ReadMap, StoreMap, ExpireMap
<1>8. CASE UNCHANGED registryVars
  BY <1>1, <1>8 DEF registryVars
<1> QED BY <1>3, <1>4, <1>5, <1>6, <1>7, <1>8 DEF RegistryNext

\* Every reachable state of the registry and of its boots is well typed.
THEOREM RegistryTypeCorrect == RegistrySpec => []RegistryTypeOK
<1>1. RegistryInv => RegistryTypeOK
  BY DEF RegistryInv
<1> QED BY <1>1, RegistryStart, RegistryStep, PTL DEF RegistrySpec

(* A boot that no creation or deletion of an action crossed leaves the     *)
(* matrix of its controllers complete; with every process up, an active    *)
(* resource has a controller; and the cached map settles on the table's    *)
(* (RegistryIsSound), for any processes, releases and actions.             *)
THEOREM RegistrySound == RegistrySpec => RegistryIsSound
<1>1. RegistryInv => ActiveHasController
  <2>1. SUFFICES ASSUME RegistryInv, Booting = {},
                        \A i \in Processes : process[i].registry # {},
                        NEW r \in rows \ orphaned
                 PROVE  \E i \in Processes : r \in process[i].registry
    BY DEF ActiveHasController
  <2>2. PICK i \in Processes : r \in Names(process[i].release) \/ WillLookAt(i, r)
    BY <2>1 DEF RegistryInv, ActiveIsKept
  <2>3. process[i].registry = Names(process[i].release)
    BY <2>1 DEF RegistryInv, BootsAreSound
  <2> QED BY <2>1, <2>2, <2>3 DEF WillLookAt
<1>2. RegistryInv => SettledMapIsCurrent
  BY DEF RegistryInv, SettledMapIsCurrent, MapIsKept
<1>3. RegistryInv /\ [RegistryNext]_registryVars =>
        [\A i \in Processes :
           process[i].registry = {} /\ process'[i].registry # {} /\ i \notin crossed =>
             process'[i].registry \X actions' \subseteq permissions']_registryVars
  BY MatrixStep
<1> QED BY <1>1, <1>2, <1>3, RegistryStart, RegistryStep, PTL
        DEF RegistrySpec, RegistryIsSound, SyncCompletesMatrix

----------------------------------------------------------------------------
(* Entitlements: the inductive invariant. *)

Known == {Bought} \cup UNION {Capabilities[p] : p \in Plans}
Answers == (SUBSET Known) \cup {Nothing}

(* What may be left of the handling of a change.                           *)
ToDo == {<<"drop", "push">>, <<"push">>, <<"drop">>}

EventType == [id : Nat, todo : ToDo]
FetchType == [epoch : Nat, at : {"sent", "looking", "answered"}, answer : Answers]
StoreType == [shows : Answers, epoch : Nat, inFlight : BOOLEAN]

EntitlementsTypeOK ==
    /\ subscription \in [status : {"active", "past_due", "canceled"}, plan : Plans]
    /\ grant \in {"none", "active", "ended"}
    /\ events \subseteq EventType /\ fetches \subseteq FetchType
    /\ cached \in Answers /\ store \in StoreType
    /\ changes \in Nat /\ lost \in Nat /\ stale \in BOOLEAN

(* No two fetches have the same epoch, and the store waits while its last  *)
(* one is under way; whoever looks up is counted.                          *)
FetchesAreSound ==
    /\ \A f \in fetches : f.epoch <= store.epoch
    /\ \A f, g \in fetches : f.epoch = g.epoch => f = g
    /\ \A f \in fetches : Latest(f) => store.inFlight
    /\ \A f \in fetches : f.at = "looking" => f.epoch \in lookups

(* Only the refund of a purchase tells nobody.                             *)
ToldUnlessRefunded == \A e \in events : e.todo = <<"drop">> => grant = "ended"

DropPending == \E e \in events : Head(e.todo) = "drop"

(* Unless a lookup crossed a change: the cache is current or about to be   *)
(* dropped, a lookup has read what is granted, and once the browser has    *)
(* been told of every change, what it shows or waits for is granted.       *)
CacheIsGranted ==
    ~stale =>
        /\ DropPending \/ cached \in {Nothing, Resolve}
        /\ \A f \in fetches : f.at = "looking" => f.answer = Resolve

BrowserIsTold ==
    ~stale /\ events = {} /\ grant # "ended" =>
        /\ \A f \in fetches : Latest(f) /\ f.at = "answered" => f.answer = Resolve
        /\ store.shows \in {Nothing, Resolve} \/ \E f \in fetches : Latest(f)

EntitlementsInv ==
    /\ EntitlementsTypeOK /\ FetchesAreSound /\ ToldUnlessRefunded
    /\ CacheIsGranted /\ BrowserIsTold

----------------------------------------------------------------------------
(* What is granted. *)

\* What a plan and a purchase grant is known.
LEMMA ResolveKnown ==
    ASSUME EntitlementsTypeOK
    PROVE  Resolve \in Answers
<1>1. subscription.plan \in Plans /\ FreePlan \in Plans
  BY EntitlementsAssumption DEF EntitlementsTypeOK
<1>2. \A p \in Plans : Capabilities[p] \subseteq Known
  BY DEF Known
<1>3. SubscriptionEntitlements \subseteq Known
  BY <1>1, <1>2 DEF SubscriptionEntitlements
<1>4. ActiveGrants \subseteq Known
  BY DEF ActiveGrants, Known
<1> QED BY <1>3, <1>4 DEF Resolve, Answers

\* While the billing tables stay, so does what they grant.
LEMMA ResolveKept ==
    ASSUME UNCHANGED billing
    PROVE  Resolve' = Resolve /\ UNCHANGED <<subscription, grant, changes>>
BY DEF billing, Resolve, SubscriptionEntitlements, ActiveGrants

\* The handling of a change: what comes first, and what is left.
LEMMA ToDoFacts ==
    /\ <<"drop", "push">> \in ToDo /\ <<"drop">> \in ToDo /\ <<"push">> \in ToDo
    /\ Head(<<"drop", "push">>) = "drop" /\ Head(<<"drop">>) = "drop" /\ Head(<<"push">>) = "push"
    /\ Len(<<"drop", "push">>) = 2 /\ Len(<<"drop">>) = 1 /\ Len(<<"push">>) = 1
    /\ Tail(<<"drop", "push">>) = <<"push">>
    /\ <<"drop", "push">> # <<"drop">> /\ <<"push">> # <<"drop">>
BY DEF ToDo

\* A step of the handling of e leaves the other events and, of e, what follows.
LEMMA AfterFacts ==
    ASSUME EntitlementsTypeOK, ToldUnlessRefunded, NEW e \in events, After(e), grant' = grant
    PROVE  /\ events' \subseteq EventType /\ ToldUnlessRefunded'
           /\ \A x \in events : x # e => x \in events'
           /\ Head(e.todo) = "drop" /\ grant # "ended" => events' # {}
<1>1. e \in EventType /\ events \subseteq EventType
  BY DEF EntitlementsTypeOK
<1>2. CASE e.todo = <<"drop", "push">>
  <2> DEFINE x == [e EXCEPT !.todo = <<"push">>]
  <2>1. events' = (events \ {e}) \cup {x}
    BY <1>2, ToDoFacts DEF After
  <2>2. x \in EventType /\ x.todo = <<"push">>
    BY <1>1, ToDoFacts DEF EventType
  <2> HIDE DEF x
  <2>3. x.todo # <<"drop">>
    BY <2>2, ToDoFacts
  <2> QED BY <1>1, <2>1, <2>2, <2>3 DEF ToldUnlessRefunded
<1>3. CASE Len(e.todo) = 1 /\ (e.todo = <<"drop">> => grant = "ended")
           /\ (Head(e.todo) = "drop" => e.todo = <<"drop">>)
  <2>1. events' = events \ {e}
    BY <1>3 DEF After
  <2> QED BY <1>1, <1>3, <2>1 DEF ToldUnlessRefunded
<1>4. e.todo = <<"drop", "push">> \/ e.todo = <<"push">> \/ e.todo = <<"drop">>
  BY <1>1 DEF EventType, ToDo
<1>5. e.todo = <<"drop">> => grant = "ended"
  BY DEF ToldUnlessRefunded
<1> QED BY <1>2, <1>3, <1>4, <1>5, ToDoFacts

----------------------------------------------------------------------------
(* The changes. *)

LEMMA CommitStep ==
    ASSUME EntitlementsInv, NEW told \in BOOLEAN, Commit(told),
           subscription' \in [status : {"active", "past_due", "canceled"}, plan : Plans],
           grant' \in {"none", "active", "ended"},
           grant = "ended" \/ ~told => grant' = "ended"
    PROVE  EntitlementsInv'
<1> DEFINE x == [id |-> changes, todo |-> AfterCommit(told)]
<1>0. /\ EntitlementsTypeOK /\ FetchesAreSound /\ ToldUnlessRefunded
      /\ UNCHANGED <<cached, lookups, fetches, store, lost>>
      /\ events' = events \cup {x} /\ changes' = changes + 1
      /\ stale' = (stale \/ lookups # {})
  BY DEF EntitlementsInv, Commit, entitlementCache, browser
<1>1. /\ x \in EventType /\ Head(x.todo) = "drop"
      /\ x.todo = <<"drop">> => ~told
  BY <1>0, ToDoFacts DEF AfterCommit, EventType, EntitlementsTypeOK
<1> HIDE DEF x
<1>2. EntitlementsTypeOK'
  BY <1>0, <1>1 DEF EntitlementsTypeOK
<1>3. FetchesAreSound'
  BY <1>0 DEF FetchesAreSound, Latest
<1>4. ToldUnlessRefunded'
  BY <1>0, <1>1 DEF ToldUnlessRefunded
<1>5. CacheIsGranted'
  <2>1. DropPending'
    BY <1>0, <1>1 DEF DropPending
  <2>2. stale' \/ \A f \in fetches' : f.at # "looking"
    BY <1>0 DEF FetchesAreSound
  <2> QED BY <2>1, <2>2 DEF CacheIsGranted
<1>6. BrowserIsTold'
  BY <1>0 DEF BrowserIsTold
<1> QED BY <1>2, <1>3, <1>4, <1>5, <1>6 DEF EntitlementsInv

LEMMA ChangeStep ==
    ASSUME EntitlementsInv,
           \/ \E p \in Plans \ {FreePlan} : Activate(p)
           \/ FallDue \/ Cancel \/ Purchase \/ RefundPurchase
    PROVE  EntitlementsInv'
<1>0. /\ subscription \in [status : {"active", "past_due", "canceled"}, plan : Plans]
      /\ grant \in {"none", "active", "ended"}
  BY DEF EntitlementsInv, EntitlementsTypeOK
<1>1. CASE \E p \in Plans \ {FreePlan} : Activate(p)
  <2>1. PICK p \in Plans : Activate(p)
    BY <1>1
  <2>2. /\ Commit(TRUE) /\ grant' = grant
        /\ subscription' \in [status : {"active", "past_due", "canceled"}, plan : Plans]
    BY <2>1 DEF Activate
  <2> QED BY <1>0, <2>2, CommitStep
<1>2. CASE FallDue \/ Cancel
  <2>1. /\ Commit(TRUE) /\ grant' = grant
        /\ subscription' \in [status : {"active", "past_due", "canceled"}, plan : Plans]
    BY <1>0, <1>2 DEF FallDue, Cancel
  <2> QED BY <1>0, <2>1, CommitStep
<1>3. CASE Purchase
  <2>1. Commit(TRUE) /\ grant' = "active" /\ grant = "none" /\ subscription' = subscription
    BY <1>3 DEF Purchase
  <2> QED BY <1>0, <2>1, CommitStep
<1>4. CASE RefundPurchase
  <2>1. Commit(FALSE) /\ grant' = "ended" /\ subscription' = subscription
    BY <1>4 DEF RefundPurchase
  <2> QED BY <1>0, <2>1, CommitStep
<1> QED BY <1>1, <1>2, <1>3, <1>4

----------------------------------------------------------------------------
(* What follows a change. *)

LEMMA InvalidateStep ==
    ASSUME EntitlementsInv, NEW e \in events, InvalidateUser(e)
    PROVE  EntitlementsInv'
<1>0. /\ EntitlementsTypeOK /\ FetchesAreSound /\ ToldUnlessRefunded /\ CacheIsGranted
      /\ Head(e.todo) = "drop" /\ cached' = Nothing /\ After(e)
      /\ UNCHANGED <<subscription, grant, changes, lookups, fetches, store, lost, stale>>
      /\ Resolve' = Resolve
  BY ResolveKept DEF EntitlementsInv, InvalidateUser, browser
<1>1. /\ events' \subseteq EventType /\ ToldUnlessRefunded'
      /\ grant # "ended" => events' # {}
  BY <1>0, AfterFacts
<1>2. EntitlementsTypeOK'
  BY <1>0, <1>1 DEF EntitlementsTypeOK, Answers, Known
<1>3. FetchesAreSound'
  BY <1>0 DEF FetchesAreSound, Latest
<1>4. CacheIsGranted'
  BY <1>0 DEF CacheIsGranted
<1>5. BrowserIsTold'
  BY <1>0, <1>1 DEF BrowserIsTold
<1> QED BY <1>1, <1>2, <1>3, <1>4, <1>5 DEF EntitlementsInv

\* A fetch under a new epoch: it is the last one, and nobody has answered it.
LEMMA FetchFacts ==
    ASSUME EntitlementsTypeOK, FetchesAreSound, Fetch(store.epoch + 1), UNCHANGED lookups
    PROVE  /\ fetches' \subseteq FetchType /\ store' \in StoreType /\ FetchesAreSound'
           /\ \A f \in fetches' : f.at = "looking" => f \in fetches
           /\ \A f \in fetches' : Latest(f)' => f.at = "sent"
           /\ \E f \in fetches' : Latest(f)'
<1> DEFINE x == [epoch |-> store.epoch + 1, at |-> "sent", answer |-> Nothing]
<1>0. /\ fetches' = fetches \cup {x} /\ store.epoch \in Nat /\ store \in StoreType
      /\ store' = [store EXCEPT !.epoch = store.epoch + 1, !.inFlight = TRUE]
      /\ fetches \subseteq FetchType
  BY DEF Fetch, EntitlementsTypeOK, StoreType
<1>1. x \in FetchType /\ x.epoch = store.epoch + 1 /\ x.at = "sent"
  BY <1>0 DEF FetchType, Answers
<1> HIDE DEF x
<1>2. store' \in StoreType /\ store'.epoch = store.epoch + 1 /\ store'.inFlight
  <2>1. store.epoch + 1 \in Nat
    BY <1>0
  <2> QED BY <1>0, <2>1 DEF StoreType
<1>3. \A f \in fetches : f.epoch \in Nat /\ f.epoch <= store.epoch
  BY <1>0 DEF FetchesAreSound, FetchType
<1>4. FetchesAreSound'
  <2>1. \A f \in fetches' : f.epoch <= store'.epoch
    BY <1>0, <1>1, <1>2, <1>3
  <2>2. \A f, g \in fetches' : f.epoch = g.epoch => f = g
    BY <1>0, <1>1, <1>3 DEF FetchesAreSound
  <2>3. \A f \in fetches' : f.at = "looking" => f.epoch \in lookups'
    BY <1>0, <1>1 DEF FetchesAreSound
  <2> QED BY <1>2, <2>1, <2>2, <2>3 DEF FetchesAreSound
<1> QED BY <1>0, <1>1, <1>2, <1>3, <1>4 DEF Latest

LEMMA FetchStep ==
    ASSUME EntitlementsInv, Load \/ \E e \in events : Push(e)
    PROVE  EntitlementsInv'
<1>0. /\ EntitlementsTypeOK /\ FetchesAreSound /\ CacheIsGranted
      /\ Fetch(store.epoch + 1)
      /\ UNCHANGED <<subscription, grant, changes, cached, lookups, lost, stale>>
      /\ Resolve' = Resolve
  BY ResolveKept DEF EntitlementsInv, Load, Push, entitlementCache
<1>1. /\ events' \subseteq EventType /\ ToldUnlessRefunded'
      /\ DropPending => DropPending'
  <2>1. CASE Load
    BY <1>0, <2>1 DEF Load, EntitlementsInv, EntitlementsTypeOK, ToldUnlessRefunded, DropPending
  <2>2. ASSUME NEW e \in events, Push(e)
        PROVE  /\ events' \subseteq EventType /\ ToldUnlessRefunded'
               /\ DropPending => DropPending'
    <3>1. Head(e.todo) = "push" /\ After(e)
      BY <2>2 DEF Push
    <3>2. /\ events' \subseteq EventType /\ ToldUnlessRefunded'
          /\ \A x \in events : x # e => x \in events'
      BY <1>0, <3>1, AfterFacts DEF EntitlementsInv
    <3> QED BY <3>1, <3>2 DEF DropPending
  <2> QED BY <2>1, <2>2
<1>2. /\ fetches' \subseteq FetchType /\ store' \in StoreType /\ FetchesAreSound'
      /\ \A f \in fetches' : f.at = "looking" => f \in fetches
      /\ \A f \in fetches' : Latest(f)' => f.at = "sent"
      /\ \E f \in fetches' : Latest(f)'
  BY <1>0, FetchFacts
<1>3. EntitlementsTypeOK'
  BY <1>0, <1>1, <1>2 DEF EntitlementsTypeOK
<1>4. CacheIsGranted'
  BY <1>0, <1>1, <1>2 DEF CacheIsGranted
<1>5. BrowserIsTold'
  BY <1>2 DEF BrowserIsTold
<1> QED BY <1>1, <1>2, <1>3, <1>4, <1>5 DEF EntitlementsInv

LEMMA LoseStep ==
    ASSUME EntitlementsInv, NEW e \in events, LoseEvent(e)
    PROVE  EntitlementsInv'
<1>0. /\ EntitlementsTypeOK /\ FetchesAreSound /\ ToldUnlessRefunded
      /\ UNCHANGED <<subscription, grant, changes, cached, lookups, fetches, store>>
      /\ events' = events \ {e} /\ lost' = lost + 1 /\ stale' = TRUE
  BY ResolveKept DEF EntitlementsInv, LoseEvent, entitlementCache, browser
<1>1. EntitlementsTypeOK'
  BY <1>0 DEF EntitlementsTypeOK
<1>2. FetchesAreSound'
  BY <1>0 DEF FetchesAreSound, Latest
<1>3. ToldUnlessRefunded' /\ CacheIsGranted' /\ BrowserIsTold'
  BY <1>0 DEF ToldUnlessRefunded, CacheIsGranted, BrowserIsTold
<1> QED BY <1>1, <1>2, <1>3 DEF EntitlementsInv

----------------------------------------------------------------------------
(* The store and the lookups. *)

LEMMA ClearStep ==
    ASSUME EntitlementsInv, Clear
    PROVE  EntitlementsInv'
<1>0. /\ EntitlementsTypeOK /\ FetchesAreSound /\ ToldUnlessRefunded /\ CacheIsGranted
      /\ UNCHANGED <<subscription, grant, changes, events, cached, lookups, fetches, stale>>
      /\ Resolve' = Resolve
      /\ store' = [Empty EXCEPT !.epoch = store.epoch + 1] /\ lost' = lost + 1
      /\ store.epoch \in Nat
  BY ResolveKept DEF EntitlementsInv, Clear, entitlementCache, EntitlementsTypeOK, StoreType
<1>1. store' \in StoreType /\ store'.epoch = store.epoch + 1 /\ store'.shows = Nothing
  <2>1. store.epoch + 1 \in Nat /\ Nothing \in Answers
    BY <1>0 DEF Answers
  <2>2. store' = [shows |-> Nothing, epoch |-> store.epoch + 1, inFlight |-> FALSE]
    BY <1>0 DEF Empty
  <2> QED BY <2>1, <2>2 DEF StoreType
<1>2. EntitlementsTypeOK'
  BY <1>0, <1>1 DEF EntitlementsTypeOK
<1>3. \A f \in fetches : f.epoch \in Nat /\ f.epoch <= store.epoch
  BY <1>0 DEF FetchesAreSound, EntitlementsTypeOK, FetchType
<1>4. \A f \in fetches' : ~Latest(f)' /\ f.epoch <= store'.epoch
  BY <1>0, <1>1, <1>3 DEF Latest
<1>5. FetchesAreSound'
  BY <1>0, <1>4 DEF FetchesAreSound
<1>6. ToldUnlessRefunded' /\ CacheIsGranted'
  BY <1>0 DEF ToldUnlessRefunded, CacheIsGranted, DropPending
<1>7. BrowserIsTold'
  BY <1>1, <1>4 DEF BrowserIsTold
<1> QED BY <1>2, <1>5, <1>6, <1>7 DEF EntitlementsInv

LEMMA DropCachedStep ==
    ASSUME EntitlementsInv, DropCached
    PROVE  EntitlementsInv'
<1>0. /\ EntitlementsTypeOK /\ FetchesAreSound /\ ToldUnlessRefunded
      /\ CacheIsGranted /\ BrowserIsTold
      /\ UNCHANGED <<subscription, grant, changes, events, lookups, fetches, store, lost, stale>>
      /\ Resolve' = Resolve /\ cached' = Nothing
  BY ResolveKept DEF EntitlementsInv, DropCached, browser
<1>1. EntitlementsTypeOK'
  BY <1>0 DEF EntitlementsTypeOK, Answers
<1>2. FetchesAreSound' /\ BrowserIsTold'
  BY <1>0 DEF FetchesAreSound, BrowserIsTold, Latest
<1>3. ToldUnlessRefunded' /\ CacheIsGranted'
  BY <1>0 DEF ToldUnlessRefunded, CacheIsGranted
<1> QED BY <1>1, <1>2, <1>3 DEF EntitlementsInv

(* The fetch f has gone on to g, of the same epoch; the store waits.       *)
Moves(f, g) ==
    /\ fetches' = (fetches \ {f}) \cup {g}
    /\ g \in FetchType /\ g.epoch = f.epoch

\* A fetch that goes on: who looks up stays counted, and the answer is current.
LEMMA MoveStep ==
    ASSUME EntitlementsInv, NEW f \in fetches, NEW g, Moves(f, g),
           UNCHANGED <<subscription, grant, changes, events, store, lost, stale>>,
           cached' \in Answers,
           g.at = "looking" => g.epoch \in lookups' /\ (~stale => g.answer = Resolve),
           \A x \in fetches : x # f /\ x.epoch \in lookups => x.epoch \in lookups',
           ~stale => DropPending \/ cached' \in {Nothing, Resolve},
           g.at = "answered" /\ ~stale /\ events = {} => g.answer = Resolve
    PROVE  EntitlementsInv'
<1>0. /\ EntitlementsTypeOK /\ FetchesAreSound /\ ToldUnlessRefunded
      /\ CacheIsGranted /\ BrowserIsTold
      /\ Resolve' = Resolve
  BY ResolveKept DEF EntitlementsInv, billing
<1>1. EntitlementsTypeOK'
  BY <1>0 DEF EntitlementsTypeOK, Moves
<1>2. FetchesAreSound'
  <2>1. \A x \in fetches' : x.epoch <= store'.epoch
    BY <1>0 DEF FetchesAreSound, Moves
  <2>2. \A x, y \in fetches' : x.epoch = y.epoch => x = y
    BY <1>0 DEF FetchesAreSound, Moves
  <2>3. \A x \in fetches' : Latest(x)' => store'.inFlight
    BY <1>0 DEF FetchesAreSound, Moves, Latest
  <2>4. \A x \in fetches' : x.at = "looking" => x.epoch \in lookups'
    BY <1>0 DEF FetchesAreSound, Moves
  <2> QED BY <2>1, <2>2, <2>3, <2>4 DEF FetchesAreSound
<1>3. ToldUnlessRefunded'
  BY <1>0 DEF ToldUnlessRefunded
<1>4. CacheIsGranted'
  BY <1>0 DEF CacheIsGranted, DropPending, Moves
<1>5. BrowserIsTold'
  <2>1. ASSUME ~stale, events = {}, grant # "ended"
        PROVE  /\ \A x \in fetches' : Latest(x)' /\ x.at = "answered" => x.answer = Resolve
               /\ store.shows \in {Nothing, Resolve} \/ \E x \in fetches' : Latest(x)'
    BY <1>0, <2>1 DEF BrowserIsTold, Moves, Latest
  <2> QED BY <1>0, <2>1 DEF BrowserIsTold
<1> QED BY <1>1, <1>2, <1>3, <1>4, <1>5 DEF EntitlementsInv

LEMMA HitStep ==
    ASSUME EntitlementsInv, NEW f \in fetches, Hit(f)
    PROVE  EntitlementsInv'
<1> DEFINE g == [f EXCEPT !.at = "answered", !.answer = cached]
<1>0. /\ EntitlementsTypeOK /\ CacheIsGranted /\ cached # Nothing
      /\ fetches' = (fetches \ {f}) \cup {g} /\ f \in FetchType
      /\ UNCHANGED <<subscription, grant, changes, events, cached, lookups, store, lost, stale>>
  BY ResolveKept DEF EntitlementsInv, Hit, entitlementCache, EntitlementsTypeOK
<1>1. /\ g \in FetchType /\ g.epoch = f.epoch /\ g.at = "answered" /\ g.answer = cached
      /\ cached' \in Answers
  BY <1>0 DEF FetchType, EntitlementsTypeOK
<1> HIDE DEF g
<1>2. ~stale => DropPending \/ cached \in {Nothing, Resolve}
  BY <1>0 DEF CacheIsGranted
<1>3. ~stale /\ events = {} => g.answer = Resolve
  BY <1>0, <1>1, <1>2 DEF DropPending
<1> QED BY <1>0, <1>1, <1>2, <1>3, MoveStep DEF Moves

LEMMA MissStep ==
    ASSUME EntitlementsInv, NEW f \in fetches, Miss(f)
    PROVE  EntitlementsInv'
<1> DEFINE g == [f EXCEPT !.at = "looking", !.answer = Resolve]
<1>0. /\ EntitlementsTypeOK /\ cached = Nothing
      /\ fetches' = (fetches \ {f}) \cup {g} /\ f \in FetchType
      /\ lookups' = lookups \cup {f.epoch}
      /\ UNCHANGED <<subscription, grant, changes, events, cached, store, lost, stale>>
  BY ResolveKept DEF EntitlementsInv, Miss, EntitlementsTypeOK
<1>1. /\ g \in FetchType /\ g.epoch = f.epoch /\ g.at = "looking" /\ g.answer = Resolve
      /\ cached' \in Answers
  BY <1>0, ResolveKnown DEF FetchType, EntitlementsTypeOK
<1> HIDE DEF g
<1> QED BY <1>0, <1>1, MoveStep DEF Moves

LEMMA StoreLookupStep ==
    ASSUME EntitlementsInv, NEW f \in fetches, StoreLookup(f)
    PROVE  EntitlementsInv'
<1> DEFINE g == [f EXCEPT !.at = "answered"]
<1>0. /\ EntitlementsTypeOK /\ CacheIsGranted /\ FetchesAreSound
      /\ f.at = "looking" /\ cached' = f.answer
      /\ fetches' = (fetches \ {f}) \cup {g} /\ f \in FetchType
      /\ lookups' = lookups \ {f.epoch}
      /\ UNCHANGED <<subscription, grant, changes, events, store, lost, stale>>
  BY ResolveKept DEF EntitlementsInv, StoreLookup, EntitlementsTypeOK
<1>1. /\ g \in FetchType /\ g.epoch = f.epoch /\ g.at = "answered" /\ g.answer = f.answer
      /\ cached' \in Answers
  BY <1>0 DEF FetchType
<1> HIDE DEF g
<1>2. ~stale => f.answer = Resolve
  BY <1>0 DEF CacheIsGranted
<1>3. \A x \in fetches : x # f /\ x.epoch \in lookups => x.epoch \in lookups'
  BY <1>0 DEF FetchesAreSound
<1> QED BY <1>0, <1>1, <1>2, <1>3, MoveStep DEF Moves

\* A fetch that goes, and with it what the store waited for.
LEMMA LeaveStep ==
    ASSUME EntitlementsInv, NEW f \in fetches, f.at # "looking",
           fetches' = fetches \ {f}, store' \in StoreType, store'.epoch = store.epoch,
           ~Latest(f) => store' = store,
           UNCHANGED <<subscription, grant, changes, events, cached, lookups>>,
           lost' \in Nat, stale' \in BOOLEAN, stale => stale',
           ~stale' /\ events = {} /\ grant # "ended" =>
               store'.shows \in {Nothing, Resolve} \/ ~Latest(f)
    PROVE  EntitlementsInv'
<1>0. /\ EntitlementsTypeOK /\ FetchesAreSound /\ ToldUnlessRefunded
      /\ CacheIsGranted /\ BrowserIsTold
      /\ Resolve' = Resolve
  BY ResolveKept DEF EntitlementsInv, billing
<1>1. EntitlementsTypeOK'
  BY <1>0 DEF EntitlementsTypeOK
<1>2. \A x \in fetches' : Latest(x)' => Latest(x) /\ ~Latest(f) /\ x \in fetches
  BY <1>0 DEF FetchesAreSound, Latest
<1>3. FetchesAreSound'
  <2>1. \A x \in fetches' : x \in fetches /\ x # f
    OBVIOUS
  <2>2. \A x \in fetches' : x.epoch <= store'.epoch
    BY <1>0, <2>1 DEF FetchesAreSound
  <2>3. \A x, y \in fetches' : x.epoch = y.epoch => x = y
    BY <1>0, <2>1 DEF FetchesAreSound
  <2>4. \A x \in fetches' : Latest(x)' => store'.inFlight
    BY <1>0, <1>2 DEF FetchesAreSound
  <2>5. \A x \in fetches' : x.at = "looking" => x.epoch \in lookups'
    BY <1>0, <2>1 DEF FetchesAreSound
  <2> QED BY <2>2, <2>3, <2>4, <2>5 DEF FetchesAreSound
<1>4. ToldUnlessRefunded'
  BY <1>0 DEF ToldUnlessRefunded
<1>5. CacheIsGranted'
  BY <1>0 DEF CacheIsGranted, DropPending
<1>6. BrowserIsTold'
  <2>1. SUFFICES ASSUME ~stale', events = {}, grant # "ended"
                 PROVE  /\ \A x \in fetches' : Latest(x)' /\ x.at = "answered" => x.answer = Resolve
                        /\ store'.shows \in {Nothing, Resolve} \/ \E x \in fetches' : Latest(x)'
    BY <1>0 DEF BrowserIsTold
  <2>2. /\ \A x \in fetches : Latest(x) /\ x.at = "answered" => x.answer = Resolve
        /\ store.shows \in {Nothing, Resolve} \/ \E x \in fetches : Latest(x)
    BY <1>0, <2>1 DEF BrowserIsTold
  <2>3. CASE Latest(f)
    BY <1>2, <2>1, <2>2, <2>3
  <2>4. CASE ~Latest(f)
    BY <1>2, <2>2, <2>4 DEF Latest
  <2> QED BY <2>3, <2>4
<1> QED BY <1>1, <1>3, <1>4, <1>5, <1>6 DEF EntitlementsInv

LEMMA ReceiveStep ==
    ASSUME EntitlementsInv, NEW f \in fetches, Receive(f)
    PROVE  EntitlementsInv'
<1>0. /\ EntitlementsTypeOK /\ BrowserIsTold
      /\ f.at = "answered" /\ fetches' = fetches \ {f} /\ f \in FetchType
      /\ store' = IF Latest(f) THEN [store EXCEPT !.shows = f.answer, !.inFlight = FALSE]
                  ELSE store
      /\ UNCHANGED <<subscription, grant, changes, events, cached, lookups, lost, stale>>
      /\ store \in StoreType /\ lost \in Nat /\ stale \in BOOLEAN
  BY ResolveKept DEF EntitlementsInv, Receive, entitlementCache, EntitlementsTypeOK
<1>1. /\ store' \in StoreType /\ store'.epoch = store.epoch
      /\ Latest(f) => store'.shows = f.answer
  BY <1>0 DEF StoreType, FetchType
<1>2. ~stale /\ events = {} /\ grant # "ended" =>
        store'.shows \in {Nothing, Resolve} \/ ~Latest(f)
  BY <1>0, <1>1 DEF BrowserIsTold
<1> QED BY <1>0, <1>1, <1>2, LeaveStep

LEMMA FailStep ==
    ASSUME EntitlementsInv, NEW f \in fetches, FailFetch(f)
    PROVE  EntitlementsInv'
<1>0. /\ EntitlementsTypeOK
      /\ f.at # "looking" /\ fetches' = fetches \ {f}
      /\ store' = IF Latest(f) THEN [store EXCEPT !.inFlight = FALSE] ELSE store
      /\ lost' = lost + 1 /\ stale' = (stale \/ store.shows # Nothing)
      /\ UNCHANGED <<subscription, grant, changes, events, cached, lookups>>
      /\ store \in StoreType /\ lost \in Nat /\ stale \in BOOLEAN
  BY ResolveKept DEF EntitlementsInv, FailFetch, entitlementCache, EntitlementsTypeOK
<1>1. store' \in StoreType /\ store'.epoch = store.epoch /\ store'.shows = store.shows
  BY <1>0 DEF StoreType
<1>2. lost' \in Nat
  BY <1>0
<1>3. stale' \in BOOLEAN
  BY <1>0, Zenon
<1>4. (stale => stale') /\ (~stale' => store'.shows = Nothing)
  BY <1>0, <1>1, Zenon
<1> QED BY <1>0, <1>1, <1>2, <1>3, <1>4, LeaveStep

----------------------------------------------------------------------------
(* The theorem about entitlements. *)

LEMMA EntitlementsStart ==
    ASSUME EntitlementsInit
    PROVE  EntitlementsInv
<1>1. EntitlementsTypeOK
  BY EntitlementsAssumption
  DEF EntitlementsInit, EntitlementsTypeOK, Empty, StoreType, Answers
<1>2. FetchesAreSound /\ ToldUnlessRefunded /\ CacheIsGranted /\ BrowserIsTold
  BY DEF EntitlementsInit, FetchesAreSound, ToldUnlessRefunded, CacheIsGranted,
         BrowserIsTold, Empty
<1> QED BY <1>1, <1>2 DEF EntitlementsInv

LEMMA EntitlementsStep ==
    ASSUME EntitlementsInv, [EntitlementsNext]_entitlementVars
    PROVE  EntitlementsInv'
<1>1. CASE UNCHANGED entitlementVars
  BY <1>1 DEF entitlementVars, EntitlementsInv, EntitlementsTypeOK, FetchesAreSound, Latest,
              ToldUnlessRefunded, CacheIsGranted, DropPending, BrowserIsTold, Resolve,
              SubscriptionEntitlements, ActiveGrants
<1>2. CASE EntitlementsNext
  <2>1. ASSUME NEW e \in events, InvalidateUser(e) \/ Push(e) \/ LoseEvent(e)
        PROVE  EntitlementsInv'
    BY <2>1, InvalidateStep, FetchStep, LoseStep
  <2>2. ASSUME NEW f \in fetches,
               Hit(f) \/ Miss(f) \/ StoreLookup(f) \/ Receive(f) \/ FailFetch(f)
        PROVE  EntitlementsInv'
    BY <2>2, HitStep, MissStep, StoreLookupStep, ReceiveStep, FailStep
  <2> QED BY <1>2, <2>1, <2>2, ChangeStep, FetchStep, ClearStep, DropCachedStep
          DEF EntitlementsNext
<1> QED BY <1>1, <1>2

\* The store shows something else only by an answer it waits for, or when it is
\* cleared.
LEMMA ShowsStep ==
    ASSUME EntitlementsInv, [EntitlementsNext]_entitlementVars, store.shows # store'.shows
    PROVE  store.inFlight \/ store'.shows = Nothing
<1>0. FetchesAreSound /\ store \in StoreType
  BY DEF EntitlementsInv, EntitlementsTypeOK
<1>1. ASSUME NEW f \in fetches, Receive(f)
      PROVE  store.inFlight
  BY <1>0, <1>1 DEF Receive, FetchesAreSound
<1>2. ASSUME NEW f \in fetches, FailFetch(f)
      PROVE  FALSE
  BY <1>0, <1>2 DEF FailFetch, StoreType
<1>3. ASSUME Fetch(store.epoch + 1)
      PROVE  FALSE
  BY <1>0, <1>3 DEF Fetch, StoreType
<1>4. ASSUME Clear
      PROVE  store'.shows = Nothing
  BY <1>4 DEF Clear, Empty
<1>5. store' # store
  OBVIOUS
<1> QED
  BY <1>1, <1>2, <1>3, <1>4, <1>5
  DEF EntitlementsNext, entitlementVars, Activate, FallDue, Cancel, Purchase, RefundPurchase,
      Commit, browser, InvalidateUser, Push, LoseEvent, Load, DropCached, Hit, Miss, StoreLookup

\* Every reachable state of the entitlements is well typed.
THEOREM EntitlementsTypeCorrect == EntitlementsSpec => []EntitlementsTypeOK
<1>1. EntitlementsInv => EntitlementsTypeOK
  BY DEF EntitlementsInv
<1> QED BY <1>1, EntitlementsStart, EntitlementsStep, PTL DEF EntitlementsSpec

(* Once nothing is under way the cache and the browser have what the       *)
(* billing tables grant, unless an event was lost, a lookup crossed a      *)
(* change or a purchase was refunded; and what was cleared stays cleared   *)
(* (EntitlementsAreSound).                                                 *)
THEOREM EntitlementsSound == EntitlementsSpec => EntitlementsAreSound
<1>1. EntitlementsInv => ShownIsGranted
  BY DEF EntitlementsInv, ShownIsGranted, Settled, CacheIsGranted, DropPending, BrowserIsTold
<1>2. EntitlementsInv /\ [EntitlementsNext]_entitlementVars =>
        [store.shows # store'.shows => store.inFlight \/ store'.shows = Nothing]_entitlementVars
  BY ShowsStep
<1> QED BY <1>1, <1>2, EntitlementsStart, EntitlementsStep, PTL
        DEF EntitlementsSpec, EntitlementsAreSound, ClearedStaysClear

----------------------------------------------------------------------------
(* The accounts of the mock server: the inductive invariant.               *)

(* A deletion ends the change of address in flight.                        *)
DeletedMoveNowhere ==
    \A u \in Users : user[u] # None /\ user[u].deleted => user[u].pending = None

(* A session is some user's, and while either of its tokens works it was   *)
(* opened under the password he has.                                       *)
OpenedUnder(toks) ==
    \A t \in DOMAIN toks :
        LET u == toks[t].user
        IN  /\ user[u] # None
            /\ toks[t].refresh = "active" \/ toks[t].access => toks[t].pw = user[u].pw

MockInv ==
    /\ MockAccountsTypeOK /\ ClaimsAreDistinct /\ PendingAgrees
    /\ DeletedMoveNowhere /\ OpenedUnder(tokens)

----------------------------------------------------------------------------
(* What happens to sessions. *)

(* No session opens; the tokens of some may stop working.                  *)
OnlyEnds(old, new) ==
    /\ new \in Seq(SessionRow) /\ DOMAIN new = DOMAIN old
    /\ \A t \in DOMAIN old :
          /\ new[t].user = old[t].user /\ new[t].pw = old[t].pw
          /\ new[t].refresh = "active" => old[t].refresh = "active"
          /\ new[t].access => old[t].access

(* And none of u's works any longer.                                       *)
EndsAllOf(u, old, new) ==
    /\ OnlyEnds(old, new)
    /\ \A t \in DOMAIN old :
          old[t].user = u => new[t].refresh # "active" /\ ~new[t].access

\* Sessions that are changed one by one.
LEMMA Mapped ==
    ASSUME NEW toks \in Seq(SessionRow), NEW f,
           f = [t \in DOMAIN toks |-> f[t]], \A t \in DOMAIN toks : f[t] \in SessionRow
    PROVE  f \in Seq(SessionRow) /\ DOMAIN f = DOMAIN toks
<1>1. Len(toks) \in Nat /\ DOMAIN toks = 1..Len(toks)
  OBVIOUS
<1>2. f \in [1..Len(toks) -> SessionRow]
  BY <1>1
<1> QED BY <1>1, <1>2, SeqDef

LEMMA SessionsAre ==
    ASSUME NEW toks \in Seq(SessionRow), NEW t \in DOMAIN toks
    PROVE  toks[t] \in SessionRow
BY ElementOfSeq

LEMMA GoneIs ==
    ASSUME NEW s \in SessionRow
    PROVE  LET x == [s EXCEPT !.refresh = "gone"]
           IN  /\ x \in SessionRow /\ x.user = s.user /\ x.pw = s.pw
               /\ x.refresh = "gone" /\ x.access = s.access
BY DEF SessionRow

LEMMA EveryAccess ==
    ASSUME NEW s \in SessionRow
    PROVE  LET x == [s EXCEPT !.access = FALSE]
           IN  /\ x \in SessionRow /\ x.user = s.user /\ x.pw = s.pw
               /\ x.refresh = s.refresh /\ x.access = FALSE
BY DEF SessionRow

LEMMA DropIs ==
    ASSUME NEW toks \in Seq(SessionRow), NEW u
    PROVE  /\ OnlyEnds(toks, DropRefresh(toks, u))
           /\ \A t \in DOMAIN toks : toks[t].user = u => DropRefresh(toks, u)[t].refresh = "gone"
<1> DEFINE f == DropRefresh(toks, u)
<1>1. f = [t \in DOMAIN toks |-> f[t]]
  BY DEF DropRefresh
<1>2. ASSUME NEW t \in DOMAIN toks
      PROVE  /\ f[t] \in SessionRow
             /\ f[t].user = toks[t].user /\ f[t].pw = toks[t].pw
             /\ f[t].refresh = "active" => toks[t].refresh = "active"
             /\ f[t].access => toks[t].access
             /\ toks[t].user = u => f[t].refresh = "gone"
  <2>1. toks[t] \in SessionRow
    BY SessionsAre
  <2>2. f[t] = IF toks[t].user = u THEN [toks[t] EXCEPT !.refresh = "gone"] ELSE toks[t]
    BY DEF DropRefresh
  <2> HIDE DEF f
  <2> QED BY <2>1, <2>2, GoneIs
<1> HIDE DEF f
<1>3. f \in Seq(SessionRow) /\ DOMAIN f = DOMAIN toks
  BY <1>1, <1>2, Mapped
<1>4. OnlyEnds(toks, f) /\ \A t \in DOMAIN toks : toks[t].user = u => f[t].refresh = "gone"
  BY <1>2, <1>3 DEF OnlyEnds
<1> QED BY <1>4 DEF f

LEMMA StampIs ==
    ASSUME NEW toks \in Seq(SessionRow), NEW u
    PROVE  /\ OnlyEnds(toks, Stamp(toks, u))
           /\ \A t \in DOMAIN toks : toks[t].user = u => ~Stamp(toks, u)[t].access
<1> DEFINE f == Stamp(toks, u)
<1>1. f = [t \in DOMAIN toks |-> f[t]]
  BY DEF Stamp
<1>2. ASSUME NEW t \in DOMAIN toks
      PROVE  /\ f[t] \in SessionRow
             /\ f[t].user = toks[t].user /\ f[t].pw = toks[t].pw
             /\ f[t].refresh = toks[t].refresh
             /\ f[t].access => toks[t].access
             /\ toks[t].user = u => ~f[t].access
  <2>1. toks[t] \in SessionRow
    BY SessionsAre
  <2>2. f[t] = IF toks[t].user = u THEN [toks[t] EXCEPT !.access = FALSE] ELSE toks[t]
    BY DEF Stamp
  <2> HIDE DEF f
  <2> QED BY <2>1, <2>2, EveryAccess
<1> HIDE DEF f
<1>3. f \in Seq(SessionRow) /\ DOMAIN f = DOMAIN toks
  BY <1>1, <1>2, Mapped
<1>4. OnlyEnds(toks, f) /\ \A t \in DOMAIN toks : toks[t].user = u => ~f[t].access
  BY <1>2, <1>3 DEF OnlyEnds
<1> QED BY <1>4 DEF f

LEMMA RevokeIs ==
    ASSUME NEW toks \in Seq(SessionRow), NEW u
    PROVE  EndsAllOf(u, toks, Revoke(toks, u))
<1> DEFINE d == DropRefresh(toks, u)
<1>1. OnlyEnds(toks, d) /\ \A t \in DOMAIN toks : toks[t].user = u => d[t].refresh = "gone"
  BY DropIs
<1>2. d \in Seq(SessionRow)
  BY <1>1 DEF OnlyEnds
<1>3. Revoke(toks, u) = Stamp(d, u)
  BY DEF Revoke
<1> HIDE DEF d
<1>4. OnlyEnds(d, Stamp(d, u)) /\ \A t \in DOMAIN d : d[t].user = u => ~Stamp(d, u)[t].access
  BY <1>2, StampIs
<1> QED BY <1>1, <1>3, <1>4 DEF OnlyEnds, EndsAllOf

LEMMA PruneIs ==
    ASSUME NEW toks \in Seq(SessionRow), NEW u
    PROVE  OnlyEnds(toks, pruneOldestUserTokens(toks, u))
<1> DEFINE f == pruneOldestUserTokens(toks, u)
<1>1. f = [t \in DOMAIN toks |-> f[t]]
  BY DEF pruneOldestUserTokens
<1>2. ASSUME NEW t \in DOMAIN toks
      PROVE  /\ f[t] \in SessionRow
             /\ f[t].user = toks[t].user /\ f[t].pw = toks[t].pw
             /\ f[t].refresh = "active" => toks[t].refresh = "active"
             /\ f[t].access => toks[t].access
  <2>1. toks[t] \in SessionRow
    BY SessionsAre
  <2>2. f[t] = [toks[t] EXCEPT !.refresh = "gone"] \/ f[t] = toks[t]
    BY DEF pruneOldestUserTokens
  <2> HIDE DEF f
  <2> QED BY <2>1, <2>2, GoneIs
<1> HIDE DEF f
<1>3. f \in Seq(SessionRow) /\ DOMAIN f = DOMAIN toks
  BY <1>1, <1>2, Mapped
<1>4. OnlyEnds(toks, f)
  BY <1>2, <1>3 DEF OnlyEnds
<1> QED BY <1>4 DEF f

LEMMA NothingEnds ==
    ASSUME NEW toks \in Seq(SessionRow)
    PROVE  OnlyEnds(toks, toks)
BY DEF OnlyEnds

\* A session is opened under the password its user has.
LEMMA IssueIs ==
    ASSUME MockAccountsTypeOK, NEW u \in Users, user[u] # None,
           NEW toks \in Seq(SessionRow), OpenedUnder(toks)
    PROVE  /\ Issue(toks, u) \in Seq(SessionRow) /\ OpenedUnder(Issue(toks, u))
           /\ DOMAIN Issue(toks, u) = DOMAIN toks \cup {Len(toks) + 1}
<1> DEFINE s == [user |-> u, refresh |-> "active", access |-> TRUE, pw |-> user[u].pw]
<1>1. user[u] \in UserRow
  BY DEF MockAccountsTypeOK
<1>2. s \in SessionRow /\ s.user = u /\ s.pw = user[u].pw
  BY <1>1 DEF UserRow, SessionRow
<1>3. Issue(toks, u) = Append(toks, s)
  BY DEF Issue
<1> HIDE DEF s
<1>4. /\ Append(toks, s) \in Seq(SessionRow)
      /\ DOMAIN Append(toks, s) = DOMAIN toks \cup {Len(toks) + 1}
      /\ \A t \in DOMAIN toks : Append(toks, s)[t] = toks[t]
      /\ Append(toks, s)[Len(toks) + 1] = s
  BY <1>2
<1> QED BY <1>2, <1>3, <1>4 DEF OpenedUnder

\* A password changes only when the sessions under it end.
LEMMA SessionsKeep ==
    ASSUME MockAccountsTypeOK, NEW toks \in Seq(SessionRow), OpenedUnder(toks), NEW u \in Users,
           OnlyEnds(toks, tokens'),
           EndsAllOf(u, toks, tokens') \/ user[u] = None \/ user'[u].pw = user[u].pw,
           user[u] # None => user'[u] # None,
           \A v \in Users \ {u} : user'[v] = user[v]
    PROVE  OpenedUnder(tokens)'
<1> SUFFICES ASSUME NEW t \in DOMAIN tokens'
             PROVE  /\ user'[tokens'[t].user] # None
                    /\ tokens'[t].refresh = "active" \/ tokens'[t].access
                          => tokens'[t].pw = user'[tokens'[t].user].pw
  BY DEF OpenedUnder
<1>1. /\ t \in DOMAIN toks /\ tokens'[t].user = toks[t].user /\ tokens'[t].pw = toks[t].pw
      /\ tokens'[t].refresh = "active" => toks[t].refresh = "active"
      /\ tokens'[t].access => toks[t].access
  BY DEF OnlyEnds
<1>2. toks[t].user \in Users
  BY <1>1, SessionsAre DEF SessionRow
<1>3. /\ user[toks[t].user] # None
      /\ toks[t].refresh = "active" \/ toks[t].access => toks[t].pw = user[toks[t].user].pw
  BY <1>1 DEF OpenedUnder
<1>4. CASE toks[t].user # u
  BY <1>1, <1>2, <1>3, <1>4
<1>5. CASE toks[t].user = u
  BY <1>1, <1>2, <1>3, <1>5 DEF EndsAllOf
<1> QED BY <1>4, <1>5

----------------------------------------------------------------------------
(* What happens to rows: one changes at a time. *)

RowIsSound(r) ==
    /\ r \in UserRow
    /\ r.pending # r.email /\ (r.locked <=> r.fails = MaxFailed)
    /\ r.deleted => r.pending = None

(* An address somebody else neither has nor moves to.                      *)
Free(u, a) == ByEmail(a) \cup ByPending(a) \subseteq {u}

(* The providers of the others stay linked.                                *)
OthersLinked(u) ==
    /\ linked' \in [Users -> SUBSET Providers]
    /\ \A v \in Users : v # u => linked'[v] = linked[v]

LEMMA RowKeeps ==
    ASSUME MockInv, NEW u \in Users, NEW r, RowIsSound(r),
           user' = [user EXCEPT ![u] = r],
           OthersLinked(u), r.pw = 0 => linked'[u] # {},
           NEW toks \in Seq(SessionRow), OpenedUnder(toks), OnlyEnds(toks, tokens'),
           EndsAllOf(u, toks, tokens') \/ user[u] = None \/ r.pw = user[u].pw,
           oauthData' \subseteq DOMAIN tokens',
           verifying' \cup resetting' \subseteq verifying \cup resetting \cup {u},
           restored \subseteq restored',
           u \notin restored' /\ ~r.deleted =>
              /\ Free(u, r.email) \/ (Live(u) /\ r.email \in {user[u].email, user[u].pending})
              /\ \/ r.pending = None \/ Free(u, r.pending)
                 \/ Live(u) /\ r.pending = user[u].pending,
           pendingTokens' = (IF user[u] = None THEN pendingTokens ELSE TokensWithoutPending(u))
                               \cup {x \in {<<u, r.pending>>} : ~r.deleted /\ r.pending # None}
    PROVE  MockInv'
<1>1. /\ user'[u] = r /\ \A v \in Users : v # u => user'[v] = user[v]
      /\ user' \in [Users -> UserRow \cup {None}]
  BY DEF MockInv, MockAccountsTypeOK, RowIsSound
<1>2. r # None /\ r.email # None
  BY MockAccountsAssumption DEF MockAccountsAssumption, RowIsSound, UserRow
<1>3. tokens' \in Seq(SessionRow)
  BY DEF OnlyEnds
<1>4. MockAccountsTypeOK'
  BY <1>1, <1>2, <1>3 DEF OthersLinked, MockInv, MockAccountsTypeOK, RowIsSound
<1>5. DeletedMoveNowhere'
  BY <1>1, <1>2 DEF MockInv, DeletedMoveNowhere, RowIsSound
<1>6. OpenedUnder(tokens)'
  BY <1>1, <1>2, SessionsKeep DEF MockInv
<1>7. /\ Live(u)' <=> ~r.deleted
      /\ \A v \in Users : v # u => (Live(v)' <=> Live(v))
  BY <1>1, <1>2 DEF Live
<1>8. ClaimsAreDistinct'
  <2>1. ASSUME NEW v \in Users, u # v, Live(u)', Live(v), {u, v} \cap restored' = {}
        PROVE  {r.email, r.pending} \cap {user[v].email, user[v].pending} \subseteq {None}
    <3>1. \A a : Free(u, a) => a \notin {user[v].email, user[v].pending}
      BY <2>1 DEF Free, ByEmail, ByPending
    <3>2. Live(u) => {user[u].email, user[u].pending} \cap {user[v].email, user[v].pending} \subseteq {None}
      BY <2>1 DEF MockInv, ClaimsAreDistinct
    <3> QED BY <1>7, <2>1, <3>1, <3>2
  <2>2. ASSUME NEW v \in Users, NEW w \in Users, v # w, v # u, w # u, Live(v), Live(w),
               {v, w} \cap restored' = {}
        PROVE  {user[v].email, user[v].pending} \cap {user[w].email, user[w].pending} \subseteq {None}
    BY <2>2 DEF MockInv, ClaimsAreDistinct
  <2> QED BY <1>1, <1>7, <2>1, <2>2 DEF ClaimsAreDistinct
<1>9. PendingAgrees'
  <2> DEFINE moving == {v \in Users : Live(v) /\ user[v].pending # None}
  <2>1. \A x : x \in pendingTokens <=> \E v \in moving : x = <<v, user[v].pending>>
    BY DEF MockInv, PendingAgrees
  <2>2. \A x : x \in pendingTokens' <=>
                  \/ \E v \in moving \ {u} : x = <<v, user[v].pending>>
                  \/ ~r.deleted /\ r.pending # None /\ x = <<u, r.pending>>
    <3>1. CASE user[u] = None
      BY <2>1, <3>1 DEF Live
    <3>2. CASE user[u] # None
      BY <2>1, <3>2 DEF TokensWithoutPending
    <3> QED BY <3>1, <3>2
  <2>3. {v \in Users : Live(v) /\ user[v].pending # None}' =
           (moving \ {u}) \cup {v \in {u} : ~r.deleted /\ r.pending # None}
    BY <1>1, <1>7
  <2>4. pendingTokens' =
           {<<v, user'[v].pending>> : v \in {v \in Users : Live(v) /\ user[v].pending # None}'}
    BY <1>1, <2>2, <2>3
  <2> QED BY <2>4 DEF PendingAgrees
<1> QED BY <1>4, <1>5, <1>6, <1>8, <1>9 DEF MockInv

\* No row changes.
LEMMA SameRowsKeep ==
    ASSUME MockInv, UNCHANGED <<user, pendingTokens, restored>>,
           linked' \in [Users -> SUBSET Providers],
           \A u \in Users : linked'[u] = linked[u] \/ linked'[u] # {} \/ user[u].pw > 0,
           NEW toks \in Seq(SessionRow), OpenedUnder(toks), OnlyEnds(toks, tokens'),
           oauthData' \subseteq DOMAIN tokens',
           verifying' \cup resetting' \subseteq {u \in Users : user[u] # None}
    PROVE  MockInv'
<1>1. tokens' \in Seq(SessionRow)
  BY DEF OnlyEnds
<1>2. MockAccountsTypeOK'
  BY <1>1 DEF MockInv, MockAccountsTypeOK, UserRow
<1>3. ClaimsAreDistinct' /\ PendingAgrees' /\ DeletedMoveNowhere'
  BY DEF MockInv, ClaimsAreDistinct, PendingAgrees, DeletedMoveNowhere, Live
<1>4. OpenedUnder(tokens)'
  BY SessionsAre DEF OpenedUnder, OnlyEnds
<1> QED BY <1>2, <1>3, <1>4 DEF MockInv

\* Of the row there is, and of a change that leaves its claims alone.
LEMMA RowIs ==
    ASSUME MockInv, NEW u \in Users, user[u] # None
    PROVE  RowIsSound(user[u]) /\ user[u].pw \in Nat /\ (user[u].pw = 0 => linked[u] # {})
BY DEF MockInv, MockAccountsTypeOK, DeletedMoveNowhere, RowIsSound, UserRow

LEMMA SamePending ==
    ASSUME MockInv, NEW u \in Users, NEW r, user[u] # None, r.pending = user[u].pending,
           (r.deleted <=> user[u].deleted) \/ r.pending = None
    PROVE  pendingTokens = TokensWithoutPending(u)
                              \cup {x \in {<<u, r.pending>>} : ~r.deleted /\ r.pending # None}
<1>1. user[u].deleted => user[u].pending = None
  BY DEF MockInv, DeletedMoveNowhere
<1>2. <<u, user[u].pending>> \in pendingTokens <=> Live(u) /\ user[u].pending # None
  BY DEF MockInv, PendingAgrees
<1> QED BY <1>1, <1>2 DEF TokensWithoutPending, Live

\* A row whose claims and sessions stay.
LEMMA QuietRowKeeps ==
    ASSUME MockInv, NEW u \in Users, NEW r, user[u] # None, RowIsSound(r),
           user' = [user EXCEPT ![u] = r], UNCHANGED <<linked, pendingTokens>>,
           r.pw = 0 => user[u].pw = 0,
           r.email = user[u].email, r.pending = user[u].pending,
           \/ (r.deleted <=> user[u].deleted) /\ restored' = restored
           \/ r.pending = None /\ restored' = restored \cup {u},
           NEW toks \in Seq(SessionRow), OpenedUnder(toks), OnlyEnds(toks, tokens'),
           EndsAllOf(u, toks, tokens') \/ r.pw = user[u].pw,
           oauthData' \subseteq DOMAIN tokens',
           verifying' \cup resetting' \subseteq verifying \cup resetting \cup {u}
    PROVE  MockInv'
<1>1. r.pw = 0 => linked[u] # {}
  BY RowIs
<1>2. pendingTokens' = TokensWithoutPending(u)
                          \cup {x \in {<<u, r.pending>>} : ~r.deleted /\ r.pending # None}
  BY SamePending
<1>3. u \notin restored' /\ ~r.deleted => Live(u)
  BY DEF Live
<1>4. OthersLinked(u)
  BY DEF OthersLinked, MockInv, MockAccountsTypeOK
<1> QED BY <1>1, <1>2, <1>3, <1>4, RowKeeps

\* A row that moves nowhere any longer.
LEMMA EndedMoveKeeps ==
    ASSUME MockInv, NEW u \in Users, NEW r, user[u] # None, RowIsSound(r),
           user' = [user EXCEPT ![u] = r], UNCHANGED <<linked, restored>>,
           r.pw = 0 => user[u].pw = 0, r.pending = None,
           ~r.deleted => Live(u) /\ (r.email = user[u].email \/ Free(u, r.email)
                                       \/ r.email = user[u].pending),
           pendingTokens' = TokensWithoutPending(u),
           OnlyEnds(tokens, tokens'),
           EndsAllOf(u, tokens, tokens') \/ r.pw = user[u].pw,
           oauthData' = oauthData,
           verifying' \cup resetting' \subseteq verifying \cup resetting \cup {u}
    PROVE  MockInv'
<1>1. r.pw = 0 => linked[u] # {}
  BY RowIs
<1>2. /\ OthersLinked(u)
      /\ tokens \in Seq(SessionRow) /\ OpenedUnder(tokens)
      /\ oauthData' \subseteq DOMAIN tokens'
  BY DEF OthersLinked, MockInv, MockAccountsTypeOK, OnlyEnds
<1>3. pendingTokens' = TokensWithoutPending(u)
                          \cup {x \in {<<u, r.pending>>} : ~r.deleted /\ r.pending # None}
  OBVIOUS
<1> QED BY <1>1, <1>2, <1>3, RowKeeps

----------------------------------------------------------------------------
(* One lemma for each kind of request. *)

\* A lock that is lifted.
LEMMA UnlockedIs ==
    ASSUME MockInv, NEW u \in Users, user[u] # None
    PROVE  LET r == Unlocked(u)
           IN  /\ RowIsSound(r) /\ r.fails = 0
               /\ r.email = user[u].email /\ r.pending = user[u].pending
               /\ r.pw = user[u].pw /\ r.deleted = user[u].deleted
<1> DEFINE r == Unlocked(u)
<1>1. 0 \in 0..MaxFailed /\ 0 # MaxFailed
  BY MockAccountsAssumption DEF MockAccountsAssumption
<1>2. user[u] \in UserRow /\ RowIsSound(user[u])
  BY RowIs DEF RowIsSound
<1>3. /\ r \in UserRow /\ r.fails = 0 /\ r.locked = FALSE
      /\ r.email = user[u].email /\ r.pending = user[u].pending
      /\ r.pw = user[u].pw /\ r.deleted = user[u].deleted
  BY <1>1, <1>2 DEF Unlocked, UserRow
<1> HIDE DEF r
<1>4. RowIsSound(r)
  BY <1>1, <1>2, <1>3 DEF RowIsSound
<1> QED BY <1>3, <1>4 DEF r

LEMMA NewRow ==
    ASSUME NEW a \in Addresses, NEW v \in BOOLEAN
    PROVE  LET r == buildMockUser(a, v)
           IN  /\ RowIsSound(r) /\ r.email = a /\ r.pending = None /\ r.pw = 1
               /\ ~r.deleted /\ r # None /\ [r EXCEPT !.pw = 0] \in UserRow
<1> DEFINE r == buildMockUser(a, v)
<1>1. 0 \in 0..MaxFailed /\ 0 # MaxFailed /\ None # a /\ None \notin UserRow
  BY MockAccountsAssumption DEF MockAccountsAssumption
<1>2. /\ r.email = a /\ r.pending = None /\ r.pw = 1 /\ r.fails = 0
      /\ r.locked = FALSE /\ r.deleted = FALSE
  BY DEF buildMockUser
<1>3. r \in UserRow /\ [r EXCEPT !.pw = 0] \in UserRow
  BY <1>1 DEF buildMockUser, UserRow
<1> HIDE DEF r
<1>4. RowIsSound(r) /\ ~r.deleted
  BY <1>1, <1>2, <1>3 DEF RowIsSound
<1> QED BY <1>1, <1>2, <1>3, <1>4 DEF r

LEMMA MockInvInit == AccountsInit => MockInv
<1> SUFFICES ASSUME AccountsInit PROVE MockInv
  OBVIOUS
<1>1. PICK home \in [Users -> Addresses \cup {None}] :
        /\ \A u, v \in Users : home[u] = home[v] => u = v \/ home[u] = None
        /\ user = [u \in Users |-> IF home[u] = None THEN None ELSE buildMockUser(home[u], TRUE)]
  BY DEF AccountsInit, SeedUsers
<1>2. \A u \in Users : user[u] # None =>
        /\ home[u] \in Addresses /\ user[u] = buildMockUser(home[u], TRUE)
  BY <1>1
<1>3. \A u \in Users : user[u] # None =>
        /\ RowIsSound(user[u]) /\ user[u].email = home[u] /\ user[u].pending = None
        /\ user[u].pw = 1
  <2> SUFFICES ASSUME NEW u \in Users, user[u] # None
               PROVE  /\ RowIsSound(user[u]) /\ user[u].email = home[u]
                      /\ user[u].pending = None /\ user[u].pw = 1
    OBVIOUS
  <2>1. home[u] \in Addresses /\ user[u] = buildMockUser(home[u], TRUE)
    BY <1>2
  <2> QED BY <2>1, NewRow
<1>4. tokens = <<>> /\ oauthData = {} /\ verifying = {} /\ resetting = {} /\ pendingTokens = {}
      /\ linked = [u \in Users |-> {}]
  BY DEF AccountsInit
<1>5. user \in [Users -> UserRow \cup {None}]
  BY <1>1, <1>3 DEF RowIsSound
<1>6. MockAccountsTypeOK
  BY <1>3, <1>4, <1>5 DEF MockAccountsTypeOK, RowIsSound
<1>7. ClaimsAreDistinct
  BY <1>1, <1>2, <1>3 DEF ClaimsAreDistinct, Live
<1>8. PendingAgrees
  BY <1>3, <1>4 DEF PendingAgrees, Live
<1>9. DeletedMoveNowhere
  BY <1>3 DEF DeletedMoveNowhere
<1>10. OpenedUnder(tokens)
  BY <1>4 DEF OpenedUnder
<1> QED BY <1>6, <1>7, <1>8, <1>9, <1>10 DEF MockInv

\* Register, CreateUser, SeedOAuthUser.
LEMMA NewUserKeeps ==
    ASSUME MockInv, NEW u \in Users, NEW a \in Addresses,
           \/ Register(u, a) \/ CreateUser(u, a)
           \/ \E p \in Providers : SeedOAuthUser(u, a, p)
    PROVE  MockInv'
<1>1. /\ user[u] = None /\ Free(u, a)
      /\ UNCHANGED <<resetting, pendingTokens, tokens, oauthData, restored>>
      /\ verifying' \subseteq verifying \cup {u}
  BY DEF Register, CreateUser, SeedOAuthUser, Free
<1>2. /\ linked \in [Users -> SUBSET Providers] /\ tokens \in Seq(SessionRow)
      /\ OpenedUnder(tokens) /\ oauthData \subseteq DOMAIN tokens
  BY DEF MockInv, MockAccountsTypeOK
<1>3. PICK r : /\ RowIsSound(r) /\ r.email = a /\ r.pending = None /\ ~r.deleted
               /\ user' = [user EXCEPT ![u] = r]
               /\ OthersLinked(u)
               /\ r.pw = 0 => linked'[u] # {}
  <2>1. CASE \E p \in Providers : SeedOAuthUser(u, a, p)
    <3>1. PICK p \in Providers :
            /\ user' = [user EXCEPT ![u] = [buildMockUser(a, TRUE) EXCEPT !.pw = 0]]
            /\ linked' = [linked EXCEPT ![u] = {p}]
      BY <2>1 DEF SeedOAuthUser
    <3> DEFINE r == [buildMockUser(a, TRUE) EXCEPT !.pw = 0]
    <3>2. RowIsSound(r) /\ r.email = a /\ r.pending = None /\ ~r.deleted
      <4> DEFINE b == buildMockUser(a, TRUE)
      <4>1. /\ RowIsSound(b) /\ b.email = a /\ b.pending = None /\ ~b.deleted
            /\ [b EXCEPT !.pw = 0] \in UserRow
        BY NewRow
      <4>2. r = [b EXCEPT !.pw = 0]
        OBVIOUS
      <4> HIDE DEF b, r
      <4> QED BY <4>1, <4>2 DEF RowIsSound, UserRow
    <3>3. OthersLinked(u) /\ linked'[u] = {p}
      BY <1>2, <3>1 DEF OthersLinked
    <3> HIDE DEF r
    <3> QED BY <3>1, <3>2, <3>3 DEF r
  <2>2. CASE Register(u, a)
    <3> DEFINE r == buildMockUser(a, FALSE)
    <3>1. user' = [user EXCEPT ![u] = r] /\ linked' = linked
      BY <2>2 DEF Register
    <3>2. RowIsSound(r) /\ r.email = a /\ r.pending = None /\ ~r.deleted /\ r.pw = 1
      BY NewRow
    <3> HIDE DEF r
    <3>3. OthersLinked(u) /\ r.pw # 0
      BY <1>2, <3>1, <3>2 DEF OthersLinked
    <3> QED BY <3>1, <3>2, <3>3
  <2>3. CASE CreateUser(u, a)
    <3> DEFINE r == buildMockUser(a, TRUE)
    <3>1. user' = [user EXCEPT ![u] = r] /\ linked' = linked
      BY <2>3 DEF CreateUser
    <3>2. RowIsSound(r) /\ r.email = a /\ r.pending = None /\ ~r.deleted /\ r.pw = 1
      BY NewRow
    <3> HIDE DEF r
    <3>3. OthersLinked(u) /\ r.pw # 0
      BY <1>2, <3>1, <3>2 DEF OthersLinked
    <3> QED BY <3>1, <3>2, <3>3
  <2> QED BY <2>1, <2>2, <2>3
<1>4. OnlyEnds(tokens, tokens')
  BY <1>1, <1>2, NothingEnds
<1>5. pendingTokens' = pendingTokens
                          \cup {x \in {<<u, r.pending>>} : ~r.deleted /\ r.pending # None}
  BY <1>1, <1>3
<1>6. /\ oauthData' \subseteq DOMAIN tokens' /\ restored \subseteq restored'
      /\ verifying' \cup resetting' \subseteq verifying \cup resetting \cup {u}
  BY <1>1, <1>2
<1>7. Free(u, r.email)
  BY <1>1, <1>3
<1>8. u \notin restored' /\ ~r.deleted =>
           /\ Free(u, r.email) \/ (Live(u) /\ r.email \in {user[u].email, user[u].pending})
           /\ \/ r.pending = None \/ Free(u, r.pending)
              \/ Live(u) /\ r.pending = user[u].pending
  BY <1>3, <1>7
<1>9. pendingTokens' = (IF user[u] = None THEN pendingTokens ELSE TokensWithoutPending(u))
                           \cup {x \in {<<u, r.pending>>} : ~r.deleted /\ r.pending # None}
  BY <1>1, <1>5
<1>10. EndsAllOf(u, tokens, tokens') \/ user[u] = None \/ r.pw = user[u].pw
  BY <1>1
<1> QED BY <1>2, <1>3, <1>4, <1>6, <1>8, <1>9, <1>10, RowKeeps

\* WrongPassword, VerifyEmail, AdminUnlock, AdminSetActive, RestoreUser.
LEMMA QuietRequestKeeps ==
    ASSUME MockInv, NEW u \in Users,
           \/ WrongPassword(u) \/ VerifyEmail(u) \/ AdminUnlock(u) \/ RestoreUser(u)
           \/ \E active \in BOOLEAN : AdminSetActive(u, active)
    PROVE  MockInv'
<1>1. /\ user[u] # None /\ UNCHANGED <<linked, pendingTokens, oauthData>>
      /\ verifying' \subseteq verifying /\ resetting' = resetting
      /\ tokens' = tokens \/ tokens' = Stamp(tokens, u)
  BY DEF WrongPassword, VerifyEmail, AdminUnlock, AdminSetActive, RestoreUser, Live
<1>2. /\ tokens \in Seq(SessionRow) /\ OpenedUnder(tokens) /\ oauthData \subseteq DOMAIN tokens
      /\ user \in [Users -> UserRow \cup {None}]
  BY DEF MockInv, MockAccountsTypeOK
<1>3. OnlyEnds(tokens, tokens')
  BY <1>1, <1>2, NothingEnds, StampIs
<1>4. oauthData' \subseteq DOMAIN tokens'
  BY <1>1, <1>2, <1>3 DEF OnlyEnds
<1>5. PICK r : /\ RowIsSound(r) /\ user' = [user EXCEPT ![u] = r]
               /\ r.email = user[u].email /\ r.pending = user[u].pending /\ r.pw = user[u].pw
               /\ \/ (r.deleted <=> user[u].deleted) /\ restored' = restored
                  \/ r.pending = None /\ restored' = restored \cup {u}
  <2>1. RowIsSound(user[u]) /\ user[u] \in UserRow
    BY <1>1, RowIs DEF RowIsSound
  <2>2. CASE WrongPassword(u)
    <3> DEFINE row == IF user[u].locked THEN Unlocked(u) ELSE user[u]
               r == [row EXCEPT !.fails = row.fails + 1, !.locked = row.fails + 1 >= MaxFailed]
    <3>1. /\ RowIsSound(row) /\ row \in UserRow /\ row.fails # MaxFailed
          /\ row.email = user[u].email /\ row.pending = user[u].pending
          /\ row.pw = user[u].pw /\ row.deleted = user[u].deleted
      <4>1. 0 # MaxFailed
        BY MockAccountsAssumption DEF MockAccountsAssumption
      <4>2. CASE user[u].locked
        <5>1. row = Unlocked(u)
          BY <4>2
        <5> HIDE DEF row
        <5> QED BY <1>1, <4>1, <5>1, UnlockedIs DEF RowIsSound
      <4>3. CASE ~user[u].locked
        <5>1. row = user[u]
          BY <4>3
        <5> HIDE DEF row
        <5> QED BY <2>1, <4>3, <5>1 DEF RowIsSound
      <4> QED BY <4>2, <4>3
    <3>2. user' = [user EXCEPT ![u] = r] /\ restored' = restored
      BY <2>2 DEF WrongPassword
    <3> HIDE DEF row
    <3>3. RowIsSound(r) /\ r.email = user[u].email /\ r.pending = user[u].pending
          /\ r.pw = user[u].pw /\ r.deleted = user[u].deleted
      <4> DEFINE n == row.fails + 1
      <4>1. n \in 0..MaxFailed /\ (n >= MaxFailed <=> n = MaxFailed)
        BY <3>1, MockAccountsAssumption DEF MockAccountsAssumption, UserRow
      <4> DEFINE full == n >= MaxFailed
      <4>2. r = [row EXCEPT !.fails = n, !.locked = full] /\ full \in BOOLEAN
        OBVIOUS
      <4>0. full <=> n = MaxFailed
        BY <4>1
      <4> HIDE DEF n, full
      <4>3. /\ r \in UserRow /\ r.fails = n /\ r.locked = full
            /\ r.email = row.email /\ r.pending = row.pending
            /\ r.pw = row.pw /\ r.deleted = row.deleted
        BY <3>1, <4>1, <4>2 DEF UserRow
      <4> HIDE DEF r
      <4>4. RowIsSound(r)
        BY <3>1, <4>0, <4>3 DEF RowIsSound
      <4> QED BY <3>1, <4>3, <4>4
    <3> QED BY <3>2, <3>3
  <2>3. CASE VerifyEmail(u)
    <3> DEFINE r == [user[u] EXCEPT !.verified = TRUE]
    <3>1. RowIsSound(r) /\ r.email = user[u].email /\ r.pending = user[u].pending
          /\ r.pw = user[u].pw /\ r.deleted = user[u].deleted
      BY <2>1 DEF UserRow, RowIsSound
    <3>2. user' = [user EXCEPT ![u] = r] /\ restored' = restored
      BY <1>2, <2>3 DEF VerifyEmail
    <3> QED BY <3>1, <3>2
  <2>4. CASE AdminUnlock(u)
    <3> DEFINE r == Unlocked(u)
    <3>1. RowIsSound(r) /\ r.email = user[u].email /\ r.pending = user[u].pending
          /\ r.pw = user[u].pw /\ r.deleted = user[u].deleted
      BY <1>1, UnlockedIs
    <3>2. user' = [user EXCEPT ![u] = r] /\ restored' = restored
      BY <2>4 DEF AdminUnlock
    <3> QED BY <3>1, <3>2
  <2>5. CASE \E active \in BOOLEAN : AdminSetActive(u, active)
    <3>1. PICK active \in BOOLEAN : AdminSetActive(u, active)
      BY <2>5
    <3> DEFINE r == [user[u] EXCEPT !.active = active]
    <3>2. RowIsSound(r) /\ r.email = user[u].email /\ r.pending = user[u].pending
          /\ r.pw = user[u].pw /\ r.deleted = user[u].deleted
      BY <2>1 DEF UserRow, RowIsSound
    <3>3. user' = [user EXCEPT ![u] = r] /\ restored' = restored
      BY <1>2, <3>1 DEF AdminSetActive
    <3> QED BY <3>2, <3>3
  <2>6. CASE RestoreUser(u)
    <3> DEFINE r == [user[u] EXCEPT !.deleted = FALSE]
    <3>1. RowIsSound(r) /\ r.email = user[u].email /\ r.pending = user[u].pending
          /\ r.pw = user[u].pw /\ r.deleted = FALSE
      BY <2>1 DEF UserRow, RowIsSound
    <3>2. user' = [user EXCEPT ![u] = r]
      BY <1>2, <2>6 DEF RestoreUser
    <3>3. CASE user[u].deleted
      BY <2>1, <2>6, <3>1, <3>2, <3>3 DEF RestoreUser, RowIsSound
    <3>4. CASE ~user[u].deleted
      BY <2>6, <3>1, <3>2, <3>4 DEF RestoreUser
    <3> QED BY <3>3, <3>4
  <2> QED BY <2>2, <2>3, <2>4, <2>5, <2>6
<1> QED BY <1>1, <1>2, <1>3, <1>4, <1>5, QuietRowKeeps

\* Login.
LEMMA LoginKeeps ==
    ASSUME MockInv, NEW u \in Users, Login(u)
    PROVE  MockInv'
<1> DEFINE r == Unlocked(u)
           x == IF user[u].verified THEN Issue(tokens, u) ELSE tokens
<1>1. /\ user[u] # None /\ user' = [user EXCEPT ![u] = r]
      /\ UNCHANGED <<linked, verifying, resetting, pendingTokens, oauthData, restored>>
  BY DEF Login, Live
<1>2. /\ tokens \in Seq(SessionRow) /\ OpenedUnder(tokens) /\ oauthData \subseteq DOMAIN tokens
  BY DEF MockInv, MockAccountsTypeOK
<1>3. RowIsSound(r) /\ r.email = user[u].email /\ r.pending = user[u].pending
      /\ r.pw = user[u].pw /\ r.deleted = user[u].deleted
  BY <1>1, UnlockedIs
<1>4. x \in Seq(SessionRow) /\ OpenedUnder(x) /\ DOMAIN tokens \subseteq DOMAIN x
  BY <1>1, <1>2, IssueIs DEF MockInv
<1>5. OnlyEnds(x, tokens')
  <2>1. CASE user[u].verified
    BY <1>4, <2>1, PruneIs DEF Login
  <2>2. CASE ~user[u].verified
    BY <1>2, <2>2, NothingEnds DEF Login
  <2> QED BY <2>1, <2>2
<1>6. oauthData' \subseteq DOMAIN tokens'
  BY <1>1, <1>2, <1>4, <1>5 DEF OnlyEnds
<1> HIDE DEF r, x
<1> QED BY <1>1, <1>3, <1>4, <1>5, <1>6, QuietRowKeeps

\* ChangePassword, AdminSetPassword.
LEMMA NewPasswordKeeps ==
    ASSUME MockInv, NEW u \in Users, ChangePassword(u) \/ AdminSetPassword(u)
    PROVE  MockInv'
<1> DEFINE r == [user[u] EXCEPT !.pw = @ + 1]
<1>1. /\ user[u] # None /\ tokens' = Revoke(tokens, u)
      /\ user' = [user EXCEPT ![u].pw = @ + 1]
      /\ UNCHANGED <<linked, verifying, resetting, pendingTokens, oauthData, restored>>
  BY DEF ChangePassword, AdminSetPassword, Authenticated, Live
<1>2. /\ tokens \in Seq(SessionRow) /\ OpenedUnder(tokens) /\ oauthData \subseteq DOMAIN tokens
      /\ user \in [Users -> UserRow \cup {None}]
  BY DEF MockInv, MockAccountsTypeOK
<1>3. RowIsSound(r) /\ r.email = user[u].email /\ r.pending = user[u].pending
      /\ r.pw # 0 /\ r.deleted = user[u].deleted
  BY <1>1, RowIs DEF UserRow, RowIsSound
<1>4. user' = [user EXCEPT ![u] = r]
  BY <1>1, <1>2
<1>5. EndsAllOf(u, tokens, tokens') /\ OnlyEnds(tokens, tokens')
  BY <1>1, <1>2, RevokeIs DEF EndsAllOf
<1>6. oauthData' \subseteq DOMAIN tokens'
  BY <1>1, <1>2, <1>5 DEF OnlyEnds
<1> HIDE DEF r
<1> QED BY <1>1, <1>2, <1>3, <1>4, <1>5, <1>6, QuietRowKeeps

LEMMA ResetPasswordKeeps ==
    ASSUME MockInv, NEW u \in Users, ResetPassword(u)
    PROVE  MockInv'
<1> DEFINE r == [user[u] EXCEPT !.pw = @ + 1, !.pending = None]
<1>1. /\ user[u] # None /\ Live(u) /\ tokens' = Revoke(tokens, u)
      /\ user' = [user EXCEPT ![u].pw = @ + 1, ![u].pending = None]
      /\ pendingTokens' = TokensWithoutPending(u)
      /\ verifying' = verifying /\ resetting' \subseteq resetting
      /\ UNCHANGED <<linked, oauthData, restored>>
  BY DEF ResetPassword, Live
<1>2. tokens \in Seq(SessionRow) /\ user \in [Users -> UserRow \cup {None}]
  BY DEF MockInv, MockAccountsTypeOK
<1>3. user[u] \in UserRow /\ None # user[u].email
  BY <1>1, <1>2, MockAccountsAssumption DEF MockAccountsAssumption, UserRow
<1>4. RowIsSound(r) /\ r.email = user[u].email /\ r.pending = None /\ r.pw # 0
  <2> DEFINE n == user[u].pw + 1
  <2>1. n \in Nat /\ n # 0 /\ RowIsSound(user[u])
    BY <1>1, RowIs
  <2>2. r = [user[u] EXCEPT !.pw = n, !.pending = None]
    OBVIOUS
  <2> HIDE DEF n, r
  <2>3. /\ r \in UserRow /\ r.email = user[u].email /\ r.pending = None
        /\ r.pw = n /\ r.fails = user[u].fails /\ r.locked = user[u].locked
    BY <1>3, <2>1, <2>2 DEF UserRow
  <2> QED BY <1>3, <2>1, <2>3 DEF RowIsSound
<1>5. user' = [user EXCEPT ![u] = r]
  BY <1>1, <1>2
<1>6. EndsAllOf(u, tokens, tokens') /\ OnlyEnds(tokens, tokens')
  BY <1>1, <1>2, RevokeIs DEF EndsAllOf
<1> HIDE DEF r
<1> QED BY <1>1, <1>4, <1>5, <1>6, EndedMoveKeeps

LEMMA DeleteUserKeeps ==
    ASSUME MockInv, NEW u \in Users, DeleteUser(u)
    PROVE  MockInv'
<1> DEFINE r == [user[u] EXCEPT !.deleted = TRUE, !.pending = None]
<1>1. /\ user[u] # None /\ tokens' = DropRefresh(tokens, u)
      /\ user' = [user EXCEPT ![u].deleted = TRUE, ![u].pending = None]
      /\ pendingTokens' = TokensWithoutPending(u)
      /\ UNCHANGED <<linked, oauthData, restored, verifying, resetting>>
  BY DEF DeleteUser, Live
<1>2. tokens \in Seq(SessionRow) /\ user \in [Users -> UserRow \cup {None}]
  BY DEF MockInv, MockAccountsTypeOK
<1>3. user[u] \in UserRow /\ None # user[u].email
  BY <1>1, <1>2, MockAccountsAssumption DEF MockAccountsAssumption, UserRow
<1>4. RowIsSound(r) /\ r.deleted /\ r.pending = None /\ r.pw = user[u].pw
  BY <1>1, <1>3, RowIs DEF UserRow, RowIsSound
<1>5. user' = [user EXCEPT ![u] = r]
  BY <1>1, <1>2
<1>6. OnlyEnds(tokens, tokens')
  BY <1>1, <1>2, DropIs
<1> HIDE DEF r
<1> QED BY <1>1, <1>4, <1>5, <1>6, EndedMoveKeeps

LEMMA AdminSetEmailKeeps ==
    ASSUME MockInv, NEW u \in Users, NEW a \in Addresses, AdminSetEmail(u, a)
    PROVE  MockInv'
<1> DEFINE r == [user[u] EXCEPT !.email = a, !.verified = FALSE, !.pending = None]
<1>1. /\ user[u] # None /\ Live(u) /\ Free(u, a) /\ tokens' = Revoke(tokens, u)
      /\ user' = [user EXCEPT ![u].email = a, ![u].verified = FALSE, ![u].pending = None]
      /\ pendingTokens' = TokensWithoutPending(u)
      /\ UNCHANGED <<linked, oauthData, restored, verifying, resetting>>
  BY DEF AdminSetEmail, Live, Free
<1>2. tokens \in Seq(SessionRow) /\ user \in [Users -> UserRow \cup {None}]
  BY DEF MockInv, MockAccountsTypeOK
<1>3. user[u] \in UserRow /\ None # a
  BY <1>1, <1>2, MockAccountsAssumption DEF MockAccountsAssumption
<1>4. RowIsSound(r) /\ r.email = a /\ r.pending = None /\ r.pw = user[u].pw
  BY <1>1, <1>3, RowIs DEF UserRow, RowIsSound
<1>5. user' = [user EXCEPT ![u] = r]
  BY <1>1, <1>2
<1>6. OnlyEnds(tokens, tokens')
  BY <1>1, <1>2, RevokeIs DEF EndsAllOf
<1> HIDE DEF r
<1> QED BY <1>1, <1>4, <1>5, <1>6, EndedMoveKeeps

LEMMA InitiateEmailChangeKeeps ==
    ASSUME MockInv, NEW u \in Users, NEW a \in Addresses, InitiateEmailChange(u, a)
    PROVE  MockInv'
<1> DEFINE r == [user[u] EXCEPT !.pending = a]
<1>1. /\ user[u] # None /\ Live(u) /\ ~user[u].deleted /\ Free(u, a) /\ a # user[u].email
      /\ user' = [user EXCEPT ![u].pending = a]
      /\ pendingTokens' = TokensWithoutPending(u) \cup {<<u, a>>}
      /\ UNCHANGED <<linked, tokens, oauthData, restored, verifying, resetting>>
  BY DEF InitiateEmailChange, Authenticated, Live, Free
<1>2. /\ tokens \in Seq(SessionRow) /\ user \in [Users -> UserRow \cup {None}]
      /\ OpenedUnder(tokens) /\ oauthData \subseteq DOMAIN tokens
      /\ linked \in [Users -> SUBSET Providers]
  BY DEF MockInv, MockAccountsTypeOK
<1>3. user[u] \in UserRow /\ None # a
  BY <1>1, <1>2, MockAccountsAssumption DEF MockAccountsAssumption
<1>4. /\ RowIsSound(r) /\ r.email = user[u].email /\ r.pending = a /\ r.pw = user[u].pw
      /\ ~r.deleted
  BY <1>1, <1>3, RowIs DEF UserRow, RowIsSound
<1>5. user' = [user EXCEPT ![u] = r]
  BY <1>1, <1>2
<1>6. OnlyEnds(tokens, tokens')
  BY <1>1, <1>2, NothingEnds
<1>7. user[u].pw = 0 => linked[u] # {}
  BY <1>1, RowIs
<1> HIDE DEF r
<1>8. pendingTokens' = TokensWithoutPending(u)
                          \cup {x \in {<<u, r.pending>>} : ~r.deleted /\ r.pending # None}
  BY <1>1, <1>3, <1>4
<1>9. /\ oauthData' \subseteq DOMAIN tokens' /\ restored \subseteq restored'
      /\ OthersLinked(u)
      /\ verifying' \cup resetting' \subseteq verifying \cup resetting \cup {u}
  BY <1>1, <1>2 DEF OthersLinked
<1>10. Free(u, r.pending) /\ r.email \in {user[u].email, user[u].pending}
  BY <1>1, <1>4
<1>11. r.pw = 0 => linked'[u] # {}
  BY <1>1, <1>4, <1>7
<1>12. u \notin restored' /\ ~r.deleted =>
           /\ Free(u, r.email) \/ (Live(u) /\ r.email \in {user[u].email, user[u].pending})
           /\ \/ r.pending = None \/ Free(u, r.pending)
              \/ Live(u) /\ r.pending = user[u].pending
  BY <1>1, <1>10
<1>13. pendingTokens' = (IF user[u] = None THEN pendingTokens ELSE TokensWithoutPending(u))
                           \cup {x \in {<<u, r.pending>>} : ~r.deleted /\ r.pending # None}
  BY <1>1, <1>8
<1>14. EndsAllOf(u, tokens, tokens') \/ user[u] = None \/ r.pw = user[u].pw
  BY <1>1, <1>4
<1> QED BY <1>2, <1>4, <1>5, <1>6, <1>9, <1>11, <1>12, <1>13, <1>14, RowKeeps

LEMMA ConfirmEmailChangeKeeps ==
    ASSUME MockInv, NEW u \in Users, NEW a \in Addresses, NEW expiry \in BOOLEAN,
           ConfirmEmailChange(u, a, expiry)
    PROVE  MockInv'
<1>1. Live(u) /\ user[u].pending = a /\ user[u] # None
  BY DEF ConfirmEmailChange, MockInv, PendingAgrees, Live
<1>2. /\ tokens \in Seq(SessionRow) /\ user \in [Users -> UserRow \cup {None}]
  BY DEF MockInv, MockAccountsTypeOK
<1>3. user[u] \in UserRow /\ None # a /\ None # user[u].email
  BY <1>1, <1>2, MockAccountsAssumption DEF MockAccountsAssumption, UserRow
<1> DEFINE moves == ~expiry /\ ByEmail(user[u].pending) \ {u} = {}
           r == [user[u] EXCEPT !.pending = None,
                                !.email = IF moves THEN user[u].pending ELSE @,
                                !.verified = @ \/ moves]
<1>4. /\ user' = [user EXCEPT ![u].pending = None,
                              ![u].email = IF moves THEN user[u].pending ELSE @,
                              ![u].verified = @ \/ moves]
      /\ tokens' = IF moves THEN Revoke(tokens, u) ELSE tokens
      /\ pendingTokens' = TokensWithoutPending(u)
      /\ UNCHANGED <<linked, oauthData, restored, verifying, resetting>>
  BY <1>1, <1>3 DEF ConfirmEmailChange, TokensWithoutPending
<1>5. /\ RowIsSound(r) /\ r.email \in {user[u].email, user[u].pending} /\ r.pending = None
      /\ r.pw = user[u].pw
  BY <1>1, <1>3, RowIs DEF UserRow, RowIsSound
<1>6. user' = [user EXCEPT ![u] = r]
  BY <1>2, <1>4
<1>7. OnlyEnds(tokens, tokens')
  BY <1>2, <1>4, RevokeIs, NothingEnds DEF EndsAllOf
<1> HIDE DEF r
<1> QED BY <1>1, <1>4, <1>5, <1>6, <1>7, EndedMoveKeeps

\* The requests that change no row.
LEMMA RowlessKeeps ==
    ASSUME MockInv, NEW u \in Users,
           \/ ResendVerification(u) \/ ForgotPassword(u) \/ Logout(u)
           \/ InvalidateAccess(u) \/ RevokeUserSessions(u)
           \/ \E p \in Providers : Unlink(u, p)
    PROVE  MockInv'
<1>1. /\ UNCHANGED <<user, pendingTokens, restored, oauthData>>
      /\ \/ tokens' = tokens \/ tokens' = Stamp(tokens, u) \/ tokens' = Revoke(tokens, u)
      /\ verifying' \cup resetting' \subseteq verifying \cup resetting \cup {u}
      /\ user[u] # None
  BY DEF ResendVerification, ForgotPassword, Logout, InvalidateAccess, RevokeUserSessions,
         Unlink, Authenticated, Live
<1>2. /\ tokens \in Seq(SessionRow) /\ OpenedUnder(tokens) /\ oauthData \subseteq DOMAIN tokens
      /\ linked \in [Users -> SUBSET Providers]
      /\ verifying \cup resetting \subseteq {v \in Users : user[v] # None}
  BY DEF MockInv, MockAccountsTypeOK
<1>3. OnlyEnds(tokens, tokens')
  BY <1>1, <1>2, NothingEnds, StampIs, RevokeIs DEF EndsAllOf
<1>4. oauthData' \subseteq DOMAIN tokens'
  BY <1>1, <1>2, <1>3 DEF OnlyEnds
<1>5. /\ linked' \in [Users -> SUBSET Providers]
      /\ \A v \in Users : linked'[v] = linked[v] \/ linked'[v] # {} \/ user[v].pw > 0
  <2>1. CASE linked' = linked
    BY <1>2, <2>1
  <2>2. CASE \E p \in Providers : Unlink(u, p)
    <3>1. PICK p \in Providers :
            /\ p \in linked[u] /\ (user[u].pw > 0 \/ linked[u] # {p})
            /\ linked' = [linked EXCEPT ![u] = @ \ {p}]
      BY <2>2 DEF Unlink
    <3> QED BY <1>2, <3>1, <2>2 DEF Unlink
  <2> QED BY <2>1, <2>2
          DEF ResendVerification, ForgotPassword, Logout, InvalidateAccess, RevokeUserSessions
<1> QED BY <1>1, <1>2, <1>3, <1>4, <1>5, SameRowsKeep

LEMMA MintKeeps ==
    ASSUME MockInv, NEW u \in Users, MintOAuthData(u)
    PROVE  MockInv'
<1> DEFINE x == Issue(tokens, u)
<1>1. /\ user[u] # None /\ tokens' = pruneOldestUserTokens(x, u)
      /\ oauthData' = oauthData \cup {Len(tokens) + 1}
      /\ UNCHANGED <<user, linked, verifying, resetting, pendingTokens, restored>>
  BY DEF MintOAuthData, Live
<1>2. /\ tokens \in Seq(SessionRow) /\ OpenedUnder(tokens) /\ oauthData \subseteq DOMAIN tokens
      /\ linked \in [Users -> SUBSET Providers]
      /\ verifying \cup resetting \subseteq {v \in Users : user[v] # None}
  BY DEF MockInv, MockAccountsTypeOK
<1>3. /\ x \in Seq(SessionRow) /\ OpenedUnder(x)
      /\ DOMAIN x = DOMAIN tokens \cup {Len(tokens) + 1}
  BY <1>1, <1>2, IssueIs DEF MockInv
<1> HIDE DEF x
<1>4. OnlyEnds(x, tokens')
  BY <1>1, <1>3, PruneIs
<1>5. oauthData' \subseteq DOMAIN tokens'
  BY <1>1, <1>2, <1>3, <1>4 DEF OnlyEnds
<1> QED BY <1>1, <1>2, <1>3, <1>4, <1>5, SameRowsKeep

LEMMA ExchangeKeeps ==
    ASSUME MockInv, NEW t, ExchangeOAuthData(t)
    PROVE  MockInv'
<1>1. /\ oauthData' \subseteq oauthData
      /\ UNCHANGED <<user, linked, verifying, resetting, pendingTokens, tokens, restored>>
  BY DEF ExchangeOAuthData
<1>2. /\ tokens \in Seq(SessionRow) /\ OpenedUnder(tokens) /\ oauthData \subseteq DOMAIN tokens
      /\ linked \in [Users -> SUBSET Providers]
      /\ verifying \cup resetting \subseteq {v \in Users : user[v] # None}
  BY DEF MockInv, MockAccountsTypeOK
<1>3. OnlyEnds(tokens, tokens')
  BY <1>1, <1>2, NothingEnds
<1> QED BY <1>1, <1>2, <1>3, SameRowsKeep

\* One session whose refresh token ends, or is rotated.
LEMMA EndedOne ==
    ASSUME NEW toks \in Seq(SessionRow), NEW t \in DOMAIN toks
    PROVE  OnlyEnds(toks, [toks EXCEPT ![t].refresh = "gone"])
<1> DEFINE gone == [toks EXCEPT ![t].refresh = "gone"]
           g == [toks[t] EXCEPT !.refresh = "gone"]
<1>1. toks[t] \in SessionRow
  BY SessionsAre
<1>2. /\ g \in SessionRow /\ g.user = toks[t].user /\ g.pw = toks[t].pw
      /\ g.refresh = "gone" /\ g.access = toks[t].access
  BY <1>1 DEF SessionRow
<1>3. gone = [toks EXCEPT ![t] = g]
  OBVIOUS
<1> HIDE DEF gone, g
<1>4. /\ gone \in Seq(SessionRow) /\ DOMAIN gone = DOMAIN toks
      /\ gone[t] = g /\ \A s \in DOMAIN toks : s # t => gone[s] = toks[s]
  BY <1>2, <1>3
<1>5. OnlyEnds(toks, gone)
  BY <1>1, <1>2, <1>4 DEF OnlyEnds
<1> QED BY <1>5 DEF gone

LEMMA RotatedOne ==
    ASSUME NEW toks \in Seq(SessionRow), NEW t \in DOMAIN toks
    PROVE  LET rotated == [toks EXCEPT ![t].refresh = "rotated"]
           IN  /\ rotated \in Seq(SessionRow) /\ DOMAIN rotated = DOMAIN toks
               /\ rotated[t].user = toks[t].user /\ rotated[t].pw = toks[t].pw
               /\ rotated[t].refresh = "rotated" /\ rotated[t].access = toks[t].access
               /\ \A s \in DOMAIN toks : s # t => rotated[s] = toks[s]
<1> DEFINE rotated == [toks EXCEPT ![t].refresh = "rotated"]
           r == [toks[t] EXCEPT !.refresh = "rotated"]
<1>1. toks[t] \in SessionRow
  BY SessionsAre
<1>2. /\ r \in SessionRow /\ r.user = toks[t].user /\ r.pw = toks[t].pw
      /\ r.refresh = "rotated" /\ r.access = toks[t].access
  BY <1>1 DEF SessionRow
<1>3. rotated = [toks EXCEPT ![t] = r]
  OBVIOUS
<1> HIDE DEF rotated, r
<1>4. /\ rotated \in Seq(SessionRow) /\ DOMAIN rotated = DOMAIN toks
      /\ rotated[t] = r /\ \A s \in DOMAIN toks : s # t => rotated[s] = toks[s]
  BY <1>2, <1>3
<1> QED BY <1>2, <1>4 DEF rotated

LEMMA RefreshKeeps ==
    ASSUME MockInv, NEW t \in DOMAIN tokens, Refresh(t)
    PROVE  MockInv'
<1> DEFINE u == tokens[t].user
           gone == [tokens EXCEPT ![t].refresh = "gone"]
           rotated == [tokens EXCEPT ![t].refresh = "rotated"]
<1>1. /\ UNCHANGED <<user, linked, verifying, resetting, pendingTokens, oauthData, restored>>
      /\ \/ tokens' = Revoke(tokens, u) \/ tokens' = DropRefresh(tokens, u)
         \/ tokens' = gone \/ (tokens' = Issue(rotated, u) /\ Live(u))
  BY DEF Refresh
<1>2. /\ tokens \in Seq(SessionRow) /\ OpenedUnder(tokens) /\ oauthData \subseteq DOMAIN tokens
      /\ linked \in [Users -> SUBSET Providers]
      /\ verifying \cup resetting \subseteq {v \in Users : user[v] # None}
  BY DEF MockInv, MockAccountsTypeOK
<1>3. tokens[t] \in SessionRow /\ u \in Users
  BY <1>2, SessionsAre DEF SessionRow
<1>5. OnlyEnds(tokens, gone)
  BY <1>2, EndedOne
<1>6. /\ rotated \in Seq(SessionRow) /\ DOMAIN rotated = DOMAIN tokens
      /\ rotated[t].user = tokens[t].user /\ rotated[t].pw = tokens[t].pw
      /\ rotated[t].refresh = "rotated" /\ rotated[t].access = tokens[t].access
      /\ \A s \in DOMAIN tokens : s # t => rotated[s] = tokens[s]
  BY <1>2, RotatedOne
<1> HIDE DEF gone, rotated
<1>7. OpenedUnder(rotated)
  BY <1>2, <1>6 DEF OpenedUnder
<1>8. CASE tokens' = Issue(rotated, u) /\ Live(u)
  <2>1. /\ tokens' \in Seq(SessionRow) /\ OpenedUnder(Issue(rotated, u))
        /\ DOMAIN tokens \subseteq DOMAIN tokens'
    BY <1>3, <1>6, <1>7, <1>8, IssueIs DEF Live, MockInv
  <2>2. OnlyEnds(Issue(rotated, u), tokens')
    BY <1>8, <2>1, NothingEnds
  <2>3. Issue(rotated, u) \in Seq(SessionRow) /\ oauthData' \subseteq DOMAIN tokens'
    BY <1>1, <1>2, <1>8, <2>1
  <2> QED BY <1>1, <1>2, <2>1, <2>2, <2>3, SameRowsKeep
<1>9. CASE OnlyEnds(tokens, tokens')
  <2>1. oauthData' \subseteq DOMAIN tokens'
    BY <1>1, <1>2, <1>9 DEF OnlyEnds
  <2> QED BY <1>1, <1>2, <1>9, <2>1, SameRowsKeep
<1> QED BY <1>1, <1>2, <1>5, <1>8, <1>9, RevokeIs, DropIs DEF EndsAllOf

LEMMA MockInvStep == MockInv /\ [AccountsNext]_accountVars => MockInv'
<1> SUFFICES ASSUME MockInv, [AccountsNext]_accountVars PROVE MockInv'
  OBVIOUS
<1>1. CASE UNCHANGED accountVars
  BY <1>1 DEF accountVars, MockInv, MockAccountsTypeOK, ClaimsAreDistinct, PendingAgrees,
              DeletedMoveNowhere, OpenedUnder, Live
<1>2. ASSUME NEW u \in Users, NEW a \in Addresses,
             \/ Register(u, a) \/ CreateUser(u, a)
             \/ \E p \in Providers : SeedOAuthUser(u, a, p)
             \/ InitiateEmailChange(u, a) \/ AdminSetEmail(u, a)
             \/ \E expiry \in BOOLEAN : ConfirmEmailChange(u, a, expiry)
      PROVE  MockInv'
  BY <1>2, NewUserKeeps, InitiateEmailChangeKeeps, AdminSetEmailKeeps, ConfirmEmailChangeKeeps
<1>3. ASSUME NEW u \in Users,
             \/ WrongPassword(u) \/ VerifyEmail(u) \/ AdminUnlock(u) \/ RestoreUser(u)
             \/ \E active \in BOOLEAN : AdminSetActive(u, active)
      PROVE  MockInv'
  BY <1>3, QuietRequestKeeps
<1>4. ASSUME NEW u \in Users,
             \/ Login(u) \/ ChangePassword(u) \/ AdminSetPassword(u) \/ ResetPassword(u)
             \/ DeleteUser(u) \/ MintOAuthData(u)
      PROVE  MockInv'
  BY <1>4, LoginKeeps, NewPasswordKeeps, ResetPasswordKeeps, DeleteUserKeeps, MintKeeps
<1>5. ASSUME NEW u \in Users,
             \/ ResendVerification(u) \/ ForgotPassword(u) \/ Logout(u)
             \/ InvalidateAccess(u) \/ RevokeUserSessions(u)
             \/ \E p \in Providers : Unlink(u, p)
      PROVE  MockInv'
  BY <1>5, RowlessKeeps
<1>6. ASSUME NEW t \in DOMAIN tokens, Refresh(t) \/ ExchangeOAuthData(t) PROVE MockInv'
  BY <1>6, RefreshKeeps, ExchangeKeeps
<1> QED BY <1>1, <1>2, <1>3, <1>4, <1>5, <1>6 DEF AccountsNext

LEMMA MockInvAlways == AccountsSpec => []MockInv
<1> QED BY MockInvInit, MockInvStep, PTL DEF AccountsSpec

\* Every reachable state of the mock server's accounts is well typed.
THEOREM MockAccountsTypeCorrect == AccountsSpec => []MockAccountsTypeOK
<1>1. MockInv => MockAccountsTypeOK
  BY DEF MockInv
<1> QED BY <1>1, MockInvAlways, PTL

(* In the mock server as in the server two live users never have, or move  *)
(* to, one address, unless one was restored (findUserByEmail and           *)
(* findUserByPendingEmail at every writer of an address).                  *)
THEOREM MockClaimsStayDistinct == AccountsSpec => []ClaimsAreDistinct
<1>1. MockInv => ClaimsAreDistinct
  BY DEF MockInv
<1> QED BY <1>1, MockInvAlways, PTL

(* The map of confirmation tokens and the rows never disagree about the    *)
(* changes of address in flight (pendingEmailTokens).                      *)
THEOREM MockPendingAgrees == AccountsSpec => []PendingAgrees
<1>1. MockInv => PendingAgrees
  BY DEF MockInv
<1> QED BY <1>1, MockInvAlways, PTL

(* No session of the mock server outlives the password it was opened under *)
(* (revokeUserSessions, tokenRevokedAt).                                   *)
THEOREM MockOldPasswordIsOut == AccountsSpec => []OldPasswordIsOut
<1>1. MockInv => OldPasswordIsOut
  BY DEF MockInv, OpenedUnder, OldPasswordIsOut
<1> QED BY <1>1, MockInvAlways, PTL

----------------------------------------------------------------------------
(* The allowance of sessions. *)

LEMMA ActiveAre ==
    ASSUME NEW toks \in Seq(SessionRow), NEW u
    PROVE  /\ IsFiniteSet(ActiveOf(toks, u)) /\ Cardinality(ActiveOf(toks, u)) \in Nat
           /\ ActiveOf(toks, u) \subseteq DOMAIN toks /\ DOMAIN toks \subseteq Nat
<1>1. DOMAIN toks = 1..Len(toks) /\ Len(toks) \in Nat
  OBVIOUS
<1>2. IsFiniteSet(DOMAIN toks)
  BY <1>1, FS_Interval
<1>3. ActiveOf(toks, u) \in SUBSET DOMAIN toks
  BY DEF ActiveOf
<1> QED BY <1>1, <1>2, <1>3, FS_Subset, FS_CardinalityType

LEMMA NoMoreActive ==
    ASSUME NEW old \in Seq(SessionRow), NEW new, OnlyEnds(old, new), NEW u
    PROVE  Cardinality(ActiveOf(new, u)) <= Cardinality(ActiveOf(old, u))
<1>1. ActiveOf(new, u) \in SUBSET ActiveOf(old, u)
  BY DEF ActiveOf, OnlyEnds
<1> QED BY <1>1, ActiveAre, FS_Subset

LEMMA OneMoreActive ==
    ASSUME NEW toks \in Seq(SessionRow), NEW u \in Users, NEW v
    PROVE  /\ v # u => ActiveOf(Issue(toks, u), v) = ActiveOf(toks, v)
           /\ Cardinality(ActiveOf(Issue(toks, u), u)) = Cardinality(ActiveOf(toks, u)) + 1
<1> DEFINE n == Len(toks) + 1
           s == [user |-> u, refresh |-> "active", access |-> TRUE, pw |-> user[u].pw]
<1>1. Issue(toks, u) = Append(toks, s) /\ s.user = u /\ s.refresh = "active"
  BY DEF Issue
<1> HIDE DEF s
<1>2. /\ DOMAIN Append(toks, s) = DOMAIN toks \cup {n} /\ n \notin DOMAIN toks
      /\ \A t \in DOMAIN toks : Append(toks, s)[t] = toks[t]
      /\ Append(toks, s)[n] = s
  OBVIOUS
<1> HIDE DEF n
<1>3. v # u => ActiveOf(Issue(toks, u), v) = ActiveOf(toks, v)
  BY <1>1, <1>2 DEF ActiveOf
<1>4. ActiveOf(Issue(toks, u), u) = ActiveOf(toks, u) \cup {n} /\ n \notin ActiveOf(toks, u)
  BY <1>1, <1>2 DEF ActiveOf
<1> QED BY <1>3, <1>4, ActiveAre, FS_AddElement

\* A set of session numbers has a first one.
LEMMA HasFirst ==
    ASSUME NEW S, S \subseteq Nat, S # {}
    PROVE  \E n \in S : {s \in S : s < n} = {}
<1> DEFINE less == OpToRel(<, Nat)
<1>1. IsWellFoundedOn(less, Nat)
  BY NatLessThanWellFounded
<1>2. \A a, b \in Nat : a < b => <<a, b>> \in less
  BY DEF OpToRel
<1> HIDE DEF less
<1>3. PICK n \in S : \A s \in S : ~(<<s, n>> \in less)
  BY <1>1, WFMin
<1>4. \A s \in S : ~(s < n)
  BY <1>2, <1>3
<1> QED BY <1>3, <1>4

\* Of one session too many the oldest goes.
LEMMA PrunedToAllowance ==
    ASSUME NEW toks \in Seq(SessionRow), NEW u,
           Cardinality(ActiveOf(toks, u)) <= MaxSessions + 1
    PROVE  Cardinality(ActiveOf(pruneOldestUserTokens(toks, u), u)) <= MaxSessions
<1> DEFINE mine == ActiveOf(toks, u)
           new == pruneOldestUserTokens(toks, u)
           kept == ActiveOf(new, u)
<1>1. /\ IsFiniteSet(mine) /\ Cardinality(mine) \in Nat /\ mine \subseteq Nat
      /\ MaxSessions \in Nat
  BY ActiveAre, MockAccountsAssumption DEF MockAccountsAssumption
<1>2. kept \in SUBSET mine
  BY PruneIs DEF ActiveOf, OnlyEnds
<1>3. Cardinality(mine) <= MaxSessions + 1
  OBVIOUS
<1>4. ASSUME NEW first \in mine, {s \in mine : s < first} = {},
             Cardinality(mine) = MaxSessions + 1
      PROVE  first \notin kept
  <2>1. Cardinality({s \in mine : s < first}) = 0
    BY <1>4, FS_EmptySet
  <2>2. Cardinality({s \in mine : s < first}) < Cardinality(mine) - MaxSessions
    <3> HIDE DEF mine
    <3> QED BY <1>1, <1>4, <2>1
  <2>3. new[first] = [toks[first] EXCEPT !.refresh = "gone"]
    BY <2>2 DEF pruneOldestUserTokens, ActiveOf
  <2>4. toks[first] \in SessionRow
    BY SessionsAre DEF ActiveOf
  <2>5. new[first].refresh = "gone"
    <3> HIDE DEF new
    <3> QED BY <2>3, <2>4, GoneIs
  <2> HIDE DEF new
  <2> QED BY <2>5 DEF ActiveOf
<1> HIDE DEF mine, kept
<1>5. IsFiniteSet(kept) /\ Cardinality(kept) \in Nat /\ Cardinality(kept) <= Cardinality(mine)
  BY <1>1, <1>2, FS_Subset, FS_CardinalityType
<1>6. ASSUME Cardinality(mine) = MaxSessions + 1
      PROVE  Cardinality(kept) <= MaxSessions
  <2>1. mine # {}
    BY <1>1, <1>6, FS_EmptySet
  <2>2. PICK first \in mine : {s \in mine : s < first} = {}
    BY <1>1, <2>1, HasFirst
  <2>3. first \notin kept
    BY <1>4, <1>6, <2>2
  <2>4. kept # mine
    BY <2>2, <2>3
  <2>5. Cardinality(kept) # Cardinality(mine)
    BY <1>1, <1>2, <2>4, FS_Subset
  <2> QED BY <1>1, <1>5, <1>6, <2>5
<1>7. Cardinality(kept) <= MaxSessions
  BY <1>1, <1>3, <1>5, <1>6
<1> QED BY <1>7 DEF kept

\* Sessions open at a login, by the exchange data of a provider, and by
\* rotation.
LEMMA SessionsStep ==
    ASSUME MockInv, [AccountsNext]_accountVars
    PROVE  \/ OnlyEnds(tokens, tokens')
           \/ \E u \in Users :
                 user[u] # None /\ tokens' = pruneOldestUserTokens(Issue(tokens, u), u)
           \/ \E t \in DOMAIN tokens :
                 /\ tokens[t].refresh = "active"
                 /\ tokens' = Issue([tokens EXCEPT ![t].refresh = "rotated"], tokens[t].user)
<1>1. tokens \in Seq(SessionRow)
  BY DEF MockInv, MockAccountsTypeOK
<1>2. /\ OnlyEnds(tokens, tokens)
      /\ \A u : /\ OnlyEnds(tokens, Revoke(tokens, u)) /\ OnlyEnds(tokens, Stamp(tokens, u))
                /\ OnlyEnds(tokens, DropRefresh(tokens, u))
  BY <1>1, NothingEnds, RevokeIs, StampIs, DropIs DEF EndsAllOf
<1>3. CASE UNCHANGED accountVars
  BY <1>2, <1>3 DEF accountVars
<1>4. ASSUME NEW u \in Users, NEW a \in Addresses,
             \/ Register(u, a) \/ CreateUser(u, a)
             \/ \E p \in Providers : SeedOAuthUser(u, a, p)
             \/ InitiateEmailChange(u, a) \/ AdminSetEmail(u, a)
             \/ \E expiry \in BOOLEAN : ConfirmEmailChange(u, a, expiry)
      PROVE  tokens' = tokens \/ tokens' = Revoke(tokens, u)
  BY <1>4 DEF Register, CreateUser, SeedOAuthUser, InitiateEmailChange, AdminSetEmail,
              ConfirmEmailChange
<1>5. ASSUME NEW u \in Users,
             \/ WrongPassword(u) \/ VerifyEmail(u) \/ ResendVerification(u)
             \/ ForgotPassword(u) \/ ResetPassword(u) \/ Logout(u) \/ ChangePassword(u)
             \/ AdminSetPassword(u) \/ AdminUnlock(u) \/ DeleteUser(u) \/ RestoreUser(u)
             \/ \E active \in BOOLEAN : AdminSetActive(u, active)
             \/ \E p \in Providers : Unlink(u, p)
             \/ InvalidateAccess(u) \/ RevokeUserSessions(u)
      PROVE  \/ tokens' = tokens \/ tokens' = Revoke(tokens, u)
             \/ tokens' = Stamp(tokens, u) \/ tokens' = DropRefresh(tokens, u)
  BY <1>5 DEF WrongPassword, VerifyEmail, ResendVerification, ForgotPassword, ResetPassword,
              Logout, ChangePassword, AdminSetPassword, AdminUnlock, DeleteUser, RestoreUser,
              AdminSetActive, Unlink, InvalidateAccess, RevokeUserSessions
<1>6. ASSUME NEW u \in Users, Login(u) \/ MintOAuthData(u)
      PROVE  \/ tokens' = tokens
             \/ user[u] # None /\ tokens' = pruneOldestUserTokens(Issue(tokens, u), u)
  BY <1>6 DEF Login, MintOAuthData, Live
<1>7. ASSUME NEW t \in DOMAIN tokens, ExchangeOAuthData(t)
      PROVE  tokens' = tokens
  BY <1>7 DEF ExchangeOAuthData
<1>8. ASSUME NEW t \in DOMAIN tokens, Refresh(t)
      PROVE  \/ OnlyEnds(tokens, tokens')
             \/ /\ tokens[t].refresh = "active"
                /\ tokens' = Issue([tokens EXCEPT ![t].refresh = "rotated"], tokens[t].user)
  <2> DEFINE gone == [tokens EXCEPT ![t].refresh = "gone"]
  <2>1. \/ tokens' = Revoke(tokens, tokens[t].user) \/ tokens' = DropRefresh(tokens, tokens[t].user)
        \/ tokens' = gone
        \/ /\ tokens[t].refresh = "active"
           /\ tokens' = Issue([tokens EXCEPT ![t].refresh = "rotated"], tokens[t].user)
    BY <1>8 DEF Refresh
  <2>2. OnlyEnds(tokens, gone)
    BY <1>1, EndedOne
  <2> HIDE DEF gone
  <2> QED BY <1>2, <2>1, <2>2
<1> QED BY <1>2, <1>3, <1>4, <1>5, <1>6, <1>7, <1>8 DEF AccountsNext

LEMMA AllowanceStep ==
    MockInv /\ SessionsWithinAllowance /\ [AccountsNext]_accountVars => SessionsWithinAllowance'
<1> SUFFICES ASSUME MockInv, SessionsWithinAllowance, [AccountsNext]_accountVars, NEW v \in Users
             PROVE  Cardinality(ActiveOf(tokens', v)) <= MaxSessions
  BY DEF SessionsWithinAllowance, ActiveOf
<1>1. tokens \in Seq(SessionRow) /\ MaxSessions \in Nat
  BY MockAccountsAssumption DEF MockAccountsAssumption, MockInv, MockAccountsTypeOK
<1>2. \A u \in Users : Cardinality(ActiveOf(tokens, u)) <= MaxSessions
  BY DEF SessionsWithinAllowance
<1>3. CASE OnlyEnds(tokens, tokens')
  <2>1. tokens' \in Seq(SessionRow)
    BY <1>3 DEF OnlyEnds
  <2> QED BY <1>1, <1>2, <1>3, <2>1, NoMoreActive, ActiveAre
<1>4. ASSUME NEW u \in Users, user[u] # None,
             tokens' = pruneOldestUserTokens(Issue(tokens, u), u)
      PROVE  Cardinality(ActiveOf(tokens', v)) <= MaxSessions
  <2> DEFINE x == Issue(tokens, u)
  <2>1. x \in Seq(SessionRow)
    BY <1>1, <1>4, IssueIs DEF MockInv
  <2>2. /\ Cardinality(ActiveOf(x, u)) = Cardinality(ActiveOf(tokens, u)) + 1
        /\ v # u => ActiveOf(x, v) = ActiveOf(tokens, v)
    BY <1>1, OneMoreActive
  <2> HIDE DEF x
  <2>3. OnlyEnds(x, tokens')
    BY <1>4, <2>1, PruneIs DEF x
  <2>4. tokens' \in Seq(SessionRow) /\ tokens' = pruneOldestUserTokens(x, u)
    BY <1>4, <2>3 DEF OnlyEnds, x
  <2>5. CASE v = u
    BY <1>1, <1>2, <2>1, <2>2, <2>4, <2>5, PrunedToAllowance, ActiveAre
  <2>6. CASE v # u
    BY <1>1, <1>2, <2>1, <2>2, <2>3, <2>4, <2>6, NoMoreActive, ActiveAre
  <2> QED BY <2>5, <2>6
<1>5. ASSUME NEW t \in DOMAIN tokens, tokens[t].refresh = "active",
             tokens' = Issue([tokens EXCEPT ![t].refresh = "rotated"], tokens[t].user)
      PROVE  Cardinality(ActiveOf(tokens', v)) <= MaxSessions
  <2> DEFINE rotated == [tokens EXCEPT ![t].refresh = "rotated"]
             u == tokens[t].user
  <2>1. tokens[t] \in SessionRow /\ u \in Users
    BY <1>1, SessionsAre DEF SessionRow
  <2>2. /\ rotated \in Seq(SessionRow) /\ DOMAIN rotated = DOMAIN tokens
        /\ rotated[t].user = u /\ rotated[t].refresh = "rotated"
        /\ \A s \in DOMAIN tokens : s # t => rotated[s] = tokens[s]
    BY <1>1, <2>1, RotatedOne
  <2> HIDE DEF rotated
  <2> HIDE DEF u
  <2>3. /\ ActiveOf(rotated, u) = ActiveOf(tokens, u) \ {t} /\ t \in ActiveOf(tokens, u)
        /\ v # u => ActiveOf(rotated, v) = ActiveOf(tokens, v)
    BY <1>5, <2>2 DEF ActiveOf, u
  <2> DEFINE old == ActiveOf(tokens, u)
  <2>4. Cardinality(ActiveOf(rotated, u)) = Cardinality(old) - 1
    <3>1. IsFiniteSet(old) /\ ActiveOf(rotated, u) = old \ {t} /\ t \in old
      BY <1>1, <2>3, ActiveAre
    <3> HIDE DEF old
    <3> QED BY <3>1, FS_RemoveElement
  <2>5. /\ Cardinality(ActiveOf(Issue(rotated, u), u)) = Cardinality(ActiveOf(rotated, u)) + 1
        /\ v # u => ActiveOf(Issue(rotated, u), v) = ActiveOf(rotated, v)
    BY <2>1, <2>2, OneMoreActive
  <2>6. tokens' = Issue(rotated, u)
    BY <1>5 DEF rotated, u
  <2>7. Cardinality(ActiveOf(tokens, u)) \in Nat
    BY <1>1, ActiveAre
  <2> QED BY <1>1, <1>2, <2>1, <2>3, <2>4, <2>5, <2>6, <2>7
<1> QED BY <1>3, <1>4, <1>5, SessionsStep

(* However sessions are opened, rotated and replayed, a user of the mock   *)
(* server holds no more than the plan allows (pruneOldestUserTokens).      *)
THEOREM MockSessionsAreBounded == AccountsSpec => []SessionsWithinAllowance
<1>1. AccountsInit => SessionsWithinAllowance
  <2> SUFFICES ASSUME AccountsInit, NEW u \in Users
               PROVE  Cardinality(ActiveOf(tokens, u)) <= MaxSessions
    BY DEF SessionsWithinAllowance
  <2>1. ActiveOf(tokens, u) = {} /\ MaxSessions \in Nat
    BY MockAccountsAssumption DEF MockAccountsAssumption, AccountsInit, ActiveOf
  <2> QED BY <2>1, FS_EmptySet
<1> QED BY <1>1, MockInvAlways, AllowanceStep, PTL DEF AccountsSpec
============================================================================
