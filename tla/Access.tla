------------------------------- MODULE Access -----------------------------
(***************************************************************************)
(* Roles, their permissions and who holds them on the server: the requests *)
(* that change them, the cache PermissionService keeps per user, and the   *)
(* abilities the client shows.                                             *)
(*                                                                         *)
(* A request is checked against the abilities its guard resolved, writes,  *)
(* drops the cached permissions of the users it concerns and tells them;   *)
(* between these steps anything may happen.  A lookup that misses the      *)
(* cache reads the tables and stores what it read later.  Conditions of a  *)
(* grant are left out.                                                     *)
(***************************************************************************)
EXTENDS Naturals, FiniteSets, Sequences

CONSTANTS
    Members,        \* users without a super role
    Root,           \* an administrator with one
    Roles,          \* roles that are not system roles
    Permissions,
    Administer,     \* the permission the endpoints below ask for
    HeldAtFirst, GrantedAtFirst,    \* the seeded rows
    MaxCalls, MaxAtOnce,            \* bounds: requests in all, and at a time
    Unset

ASSUME AccessAssumption ==
    /\ Root \notin Members /\ Administer \in Permissions
    /\ HeldAtFirst \subseteq Members \X Roles
    /\ GrantedAtFirst \subseteq Roles \X Permissions
    /\ MaxCalls \in Nat /\ MaxAtOnce \in Nat
    /\ Unset \notin [read : SUBSET Permissions, client : BOOLEAN]

VARIABLES
    roles,          \* table roles
    held,           \* table user_roles: <<user, role>>
    granted,        \* table role_permissions: <<role, permission>>
    cache,          \* permissions:<user> in the cache, or Unset
    lookup,         \* a lookup that missed: what it read, and for whom
    notice,         \* users told to fetch their permissions anew
    shown,          \* abilities the client of each user has fetched
    requests,       \* requests in flight
    started,        \* requests so far
    blessed,        \* ghost: permissions a user has had, or Root gave away
    outdated        \* ghost: users with a lookup under way during a write

accessVars ==
    <<roles, held, granted, cache, lookup, notice, shown, requests, started, blessed, outdated>>

-----------------------------------------------------------------------------
HeldBy(u) == {r \in roles : <<u, r>> \in held}
HoldersOf(r) == {u \in Members : <<u, r>> \in held}
PermissionsOf(r) == {p \in Permissions : <<r, p>> \in granted}

(* What the tables say.                                                    *)
Current(u) == UNION {PermissionsOf(r) : r \in HeldBy(u)}

(* What PermissionService answers without a lookup.                        *)
Resolved(u) == IF cache[u] # Unset THEN cache[u] ELSE Current(u)

(* The ability made of it; a super role may do everything.                 *)
Ability(a) == IF a = Root THEN Permissions ELSE Resolved(a)

(* assertCanGrantPermissions: nobody gives away what he does not hold.     *)
CanGrant(ability, perms) == perms \subseteq ability

(* What a request still has to do.  The permission endpoints write, find   *)
(* the holders and announce; the assignment endpoints know their user; the *)
(* removal of a role announces first.                                      *)
AnnounceFirst(op) ==                            \* a mutant
    IF op \in {"assign", "unassign"} THEN <<"check", "announce", "write">>
    ELSE <<"check", "query", "announce", "write">>
Steps(op) ==
    CASE op \in {"assign", "unassign"} -> <<"check", "write", "announce">>
      [] op = "delete" -> <<"check", "query", "announce", "write">>
      [] OTHER -> <<"check", "write", "query", "announce">>

-----------------------------------------------------------------------------
(* The rows the seeder leaves; it adds what is missing and nothing else.   *)
Seeded ==
    /\ roles = Roles /\ held = HeldAtFirst /\ granted = GrantedAtFirst

AccessInit ==
    /\ Seeded
    /\ cache = [u \in Members |-> Unset]
    /\ lookup = [u \in Members |-> Unset]
    /\ notice = {} /\ requests = {} /\ started = 0
    /\ shown = [u \in Members |-> Current(u)]
    /\ blessed = UNION {Current(u) : u \in Members}
    /\ outdated = {}

tables == <<roles, held, granted>>
caching == <<cache, lookup, notice, shown>>

(* PermissionsGuard: the actor may administer; the abilities resolved here *)
(* stay with the request.                                                  *)
Admit(a, op, r, perms, us) ==
    /\ started < MaxCalls /\ Cardinality(requests) < MaxAtOnce
    /\ Administer \in Ability(a)
    /\ started' = started + 1
    /\ requests' = requests \cup
         {[id |-> started, actor |-> a, ability |-> Ability(a), op |-> op,
           role |-> r, perms |-> perms, users |-> us, todo |-> Steps(op)]}
    /\ UNCHANGED <<tables, caching, blessed, outdated>>

SetPermissions(a, r, perms) == Admit(a, "set", r, perms, {})
AssignPermissions(a, r, p) == Admit(a, "grant", r, {p}, {})
RemovePermission(a, r, p) == Admit(a, "revoke", r, {p}, {})
AssignRole(a, u, r) == Admit(a, "assign", r, {}, {u})
UnassignRole(a, u, r) == Admit(a, "unassign", r, {}, {u})
RemoveRole(a, r) == Admit(a, "delete", r, {}, {})

Advance(q, changed) ==
    requests' = (requests \ {q}) \cup
        (IF Tail(q.todo) = <<>> THEN {} ELSE {[changed EXCEPT !.todo = Tail(@)]})

(* What the request would give away, as its check reads it.                *)
Given(q) ==
    CASE q.op \in {"set", "grant"} -> q.perms
      [] q.op = "assign" -> PermissionsOf(q.role)
      [] OTHER -> {}

(* The checks of the service: the role is there, and what is given away is *)
(* held by whoever gives it.                                               *)
Check(q) ==
    /\ Head(q.todo) = "check"
    /\ IF q.role \in roles /\ CanGrant(q.ability, Given(q)) THEN Advance(q, q)
       ELSE requests' = requests \ {q}
    /\ UNCHANGED <<tables, caching, started, blessed, outdated>>

(* The write itself.  A grant that is there already, or a role removed in  *)
(* the meantime, fails on a constraint and ends the request.               *)
Fails(q) ==
    \/ q.role \notin roles /\ q.op = "assign"
    \/ q.role \notin roles /\ q.op \in {"set", "grant"} /\ q.perms # {}
    \/ q.op = "grant" /\ q.perms \cap PermissionsOf(q.role) # {}
    \/ q.op = "assign" /\ q.users \X {q.role} \subseteq held

Rows(q) == {q.role} \X q.perms
RowsOfOthers(q) == {g \in granted : g[1] # q.role}
Memberships(q) == q.users \X {q.role}

SetPermissionsForRole(q) ==
    granted' = RowsOfOthers(q) \cup Rows(q) /\ UNCHANGED <<roles, held>>
AssignPermissionsToRole(q) ==
    granted' = granted \cup Rows(q) /\ UNCHANGED <<roles, held>>
RemovePermissionFromRole(q) ==
    granted' = granted \ Rows(q) /\ UNCHANGED <<roles, held>>
AssignRoleToUser(q) ==
    held' = held \cup Memberships(q) /\ UNCHANGED <<roles, granted>>
RemoveRoleFromUser(q) ==
    held' = held \ Memberships(q) /\ UNCHANGED <<roles, granted>>
DeleteRole(q) ==
    /\ roles' = roles \ {q.role}
    /\ granted' = RowsOfOthers(q)
    /\ held' = {h \in held : h[2] # q.role}

WriteRows(q) ==
    /\ Head(q.todo) = "write" /\ ~Fails(q)
    /\ CASE q.op = "set" -> SetPermissionsForRole(q)
         [] q.op = "grant" -> AssignPermissionsToRole(q)
         [] q.op = "revoke" -> RemovePermissionFromRole(q)
         [] q.op = "assign" -> AssignRoleToUser(q)
         [] q.op = "unassign" -> RemoveRoleFromUser(q)
         [] q.op = "delete" -> DeleteRole(q)
    /\ blessed' = IF q.actor # Root THEN blessed
                  ELSE blessed \cup q.perms
                       \cup (IF q.op = "assign" THEN PermissionsOf(q.role) ELSE {})
    /\ outdated' = outdated \cup {u \in Members : lookup[u] # Unset}
                      \cup (IF q.op = "delete" THEN HoldersOf(q.role) ELSE {})
    /\ Advance(q, q)
    /\ UNCHANGED <<caching, started>>

Refuse(q) ==
    /\ Head(q.todo) = "write" /\ Fails(q)
    /\ requests' = requests \ {q}
    /\ UNCHANGED <<tables, caching, started, blessed, outdated>>

(* invalidateUsersWithRole finds the holders.                              *)
Query(q) ==
    /\ Head(q.todo) = "query"
    /\ Advance(q, [q EXCEPT !.users = HoldersOf(q.role)])
    /\ UNCHANGED <<tables, caching, started, blessed, outdated>>

InvalidateUserCache(us) ==
    cache' = [u \in Members |-> IF u \in us THEN Unset ELSE cache[u]]

(* permissions_updated, to the connections of the users named.             *)
PermissionsUpdated(us) == notice' = notice \cup us

Announce(q) ==
    /\ Head(q.todo) = "announce"
    /\ InvalidateUserCache(q.users)
    /\ PermissionsUpdated(q.users)
    /\ Advance(q, q)
    /\ UNCHANGED <<tables, lookup, shown, started, blessed, outdated>>

(* getPermissionsForUser, for the guard of some request or for the client  *)
(* that was told.                                                          *)
Lookup(u, client) ==
    /\ lookup[u] = Unset /\ (client => u \in notice)
    /\ notice' = IF client THEN notice \ {u} ELSE notice
    /\ IF cache[u] # Unset
       THEN /\ client
            /\ shown' = [shown EXCEPT ![u] = cache[u]]
            /\ UNCHANGED lookup
       ELSE /\ lookup' = [lookup EXCEPT ![u] = [read |-> Current(u), client |-> client]]
            /\ UNCHANGED shown
    /\ UNCHANGED <<tables, cache, requests, started, blessed, outdated>>

Store(u) ==
    /\ lookup[u] # Unset
    /\ cache' = [cache EXCEPT ![u] = lookup[u].read]
    /\ shown' = IF lookup[u].client THEN [shown EXCEPT ![u] = lookup[u].read] ELSE shown
    /\ lookup' = [lookup EXCEPT ![u] = Unset]
    /\ UNCHANGED <<tables, notice, requests, started, blessed, outdated>>

Expire(u) ==
    /\ cache[u] # Unset
    /\ cache' = [cache EXCEPT ![u] = Unset]
    /\ UNCHANGED <<tables, lookup, notice, shown, requests, started, blessed, outdated>>

AccessNext ==
    \/ \E a \in Members \cup {Root}, r \in Roles :
         \/ \E perms \in SUBSET Permissions : SetPermissions(a, r, perms)
         \/ \E p \in Permissions :
              AssignPermissions(a, r, p) \/ RemovePermission(a, r, p)
         \/ \E u \in Members : AssignRole(a, u, r) \/ UnassignRole(a, u, r)
         \/ RemoveRole(a, r)
    \/ \E q \in requests :
         Check(q) \/ WriteRows(q) \/ Refuse(q) \/ Query(q) \/ Announce(q)
    \/ \E u \in Members : \/ \E client \in BOOLEAN : Lookup(u, client)
                        \/ Store(u) \/ Expire(u)

AccessSpec == AccessInit /\ [][AccessNext]_accessVars

-----------------------------------------------------------------------------
(* Nobody gains by the requests of users what no user had and Root never   *)
(* gave away, however the requests, checked against cached abilities,      *)
(* cross each other.                                                       *)
OnlyGrantsWhatIsHeld == \A u \in Members : Current(u) \subseteq blessed

(* Once its requests are done the server answers from current permissions, *)
(* and a client that has fetched shows them: a change is written before it *)
(* is announced.  A lookup that was under way during the write, and the    *)
(* removal of a role, are the exceptions.                                  *)
SettledIsCurrent ==
    requests = {} =>
      \A u \in Members \ outdated :
        /\ cache[u] \in {Unset, Current(u)}
        /\ u \notin notice /\ lookup[u] = Unset => shown[u] = Current(u)

(* Both; the handlers of roles.controller.ts and permission.service.ts are *)
(* what could break either.                                                *)
AccessIsSound == SettledIsCurrent /\ OnlyGrantsWhatIsHeld
=============================================================================
