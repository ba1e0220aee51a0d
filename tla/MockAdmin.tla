----------------------------- MODULE MockAdmin ----------------------------
(***************************************************************************)
(* The administration half of the mock server on top of its accounts:      *)
(* roles and their permissions, the action registry, one feature flag, and *)
(* what the connected clients have been told over the event stream.        *)
(*                                                                         *)
(* A user holds role NAMES while a grant refers to a role by its id, as in *)
(* the code.  The acting administrator is the seeded one, a super user who *)
(* is always signed in; the system role "user" is left out.                *)
(***************************************************************************)
EXTENDS MockAccounts

CONSTANTS
    RoleIds,        \* numbers in the order of insertion: 1 is admin, 2 editor
    Names,          \* role names, "admin" and "editor" among them
    Resources,
    ActionNames,    \* "read" is a default action
    Conditions      \* "any", "own", "deny"

ASSUME MockAdminAssumption ==
    /\ {1, 2} \subseteq RoleIds /\ RoleIds \subseteq Nat
    /\ {"admin", "editor"} \subseteq Names /\ "read" \in ActionNames

VARIABLES
    role,           \* roles: None or [name, system, super]
    holds,          \* user.roles: names
    actions,        \* the action registry
    permissions,    \* <<resource, action>>
    grants,         \* rolePermissions: [role, perm, cond]
    flag,           \* a feature flag: None or [enabled, rules, version]
    draft,          \* the flag as an administrator's edit form loaded it
    timer,          \* broadcastTimer is set
    connected,      \* users with an open event stream
    told,           \* abilities each client last fetched
    behind,         \* connected users not told of the last flag change
    renamed         \* ghost: names a rename took from their holders

roleVars == <<role, holds, actions, permissions, grants, connected, told, renamed>>
flagVars == <<flag, draft, timer, behind>>
adminVars == <<roleVars, flagVars>>

-----------------------------------------------------------------------------
Existing == {r \in RoleIds : role[r] # None}
RoleNames == {role[r].name : r \in Existing}
HeldBy(u) == {r \in Existing : role[r].name \in holds[u]}

(* getResolvedPermissionsForUser: per effect and permission the grant of   *)
(* the role inserted first wins.  getPackedRulesForUser: a super role is   *)
(* everything.                                                             *)
Effect(g) == IF g.cond = "deny" THEN "deny" ELSE "allow"
Resolved(u) ==
    LET mine == {g \in grants : g.role \in HeldBy(u) /\ g.perm \in permissions}
    IN  {g \in mine : ~\E h \in mine :
                         h.role < g.role /\ h.perm = g.perm /\ Effect(h) = Effect(g)}

Abilities(u) ==
    IF \E r \in HeldBy(u) : role[r].super THEN {<<<<"all", "all">>, "manage">>}
    ELSE {<<g.perm, g.cond>> : g \in Resolved(u)}

Holders(name) == {u \in Users : name \in holds[u]}

(* pushToUser: a client that is connected fetches its permissions anew.    *)
Push(us) ==
    told' = [u \in Users |-> IF u \in us \cap connected THEN Abilities(u)' ELSE told[u]]

(* broadcastFlagsUpdated: a burst of changes is one broadcast.             *)
broadcastFlagsUpdated == timer' = TRUE /\ behind' = connected

-----------------------------------------------------------------------------
(* The seed: the roles, every action on every resource, and all of it      *)
(* granted to admin.                                                       *)
Custom(n) == [name |-> n, system |-> FALSE, super |-> FALSE]
SeedRoles ==
    [r \in RoleIds |-> CASE r = 1 -> [name |-> "admin", system |-> TRUE, super |-> TRUE]
                         [] r = 2 -> Custom("editor")
                         [] OTHER -> None]
SeedActions == {"read"}
SeedPermissions == Resources \X SeedActions
SeedGrants == [role : {1}, perm : SeedPermissions, cond : {"any"}]

AdminInit ==
    /\ AccountsInit
    /\ role = SeedRoles
    /\ holds = [u \in Users |-> IF user[u] = None THEN {} ELSE {"editor"}]
    /\ actions = SeedActions
    /\ permissions = SeedPermissions
    /\ grants = SeedGrants
    /\ flag = None /\ draft = None /\ timer = FALSE
    /\ connected = {} /\ behind = {} /\ renamed = {}
    /\ told = [u \in Users |-> {}]

(* GET /notifications/stream, and its close; the client fetches its        *)
(* permissions and flags when it connects.                                 *)
Connect(u) ==
    /\ Authenticated(u) /\ u \notin connected
    /\ connected' = connected \cup {u}
    /\ told' = [told EXCEPT ![u] = Abilities(u)]
    /\ UNCHANGED <<accountVars, role, holds, actions, permissions, grants, renamed, flagVars>>

Disconnect(u) ==
    /\ u \in connected
    /\ connected' = connected \ {u} /\ behind' = behind \ {u}
    /\ UNCHANGED <<accountVars, role, holds, actions, permissions, grants, told, renamed,
                   flag, draft, timer>>

(* Every request of an administrator spends one call and leaves the        *)
(* accounts alone, but for the tokens.                                     *)
AdminCall ==
    /\ Call
    /\ UNCHANGED <<user, linked, verifying, resetting, pendingTokens, oauthData,
                   restored, connected>>

RoleCall ==
    /\ AdminCall
    /\ UNCHANGED flagVars

(* POST /roles: names are unique, and the new role is neither system nor   *)
(* super.                                                                  *)
CreateRole(r, n) ==
    /\ role[r] = None /\ n \notin RoleNames /\ \A s \in Existing : s < r
    /\ role' = [role EXCEPT ![r] = Custom(n)]
    /\ RoleCall
    /\ UNCHANGED <<tokens, holds, actions, permissions, grants, told, renamed>>

(* PATCH /roles/:id renames the role and leaves user.roles as they are.    *)
RenameRole(r, n) ==
    /\ r \in Existing /\ ~role[r].system /\ n \notin RoleNames
    /\ role' = [role EXCEPT ![r].name = n]
    /\ renamed' = renamed \cup {role[r].name, n}
    /\ RoleCall
    /\ UNCHANGED <<tokens, holds, actions, permissions, grants, told>>

(* DELETE /roles/:id: its grants go, the holders lose the name and are told. *)
GrantsKept(r) == grants                         \* a mutant
GrantsWithout(r) == {g \in grants : g.role # r}

DeleteRole(r) ==
    /\ r \in Existing /\ ~role[r].system
    /\ role' = [role EXCEPT ![r] = None]
    /\ grants' = GrantsWithout(r)
    /\ holds' = [u \in Users |-> holds[u] \ {role[r].name}]
    /\ RoleCall
    /\ UNCHANGED <<tokens, actions, permissions, renamed>>
    /\ Push(Holders(role[r].name))

(* PUT /roles/:id/permissions replaces the set; POST adds to it and        *)
(* refuses what is there already; DELETE takes one out.                    *)
SetPermissions(r, perms, c) ==
    /\ r \in Existing /\ perms \subseteq permissions
    /\ grants' = GrantsWithout(r) \cup [role : {r}, perm : perms, cond : {c}]
    /\ RoleCall
    /\ UNCHANGED <<tokens, role, holds, actions, permissions, renamed>>
    /\ Push(Holders(role[r].name))

AssignPermission(r, p, c) ==
    /\ r \in Existing /\ p \in permissions
    /\ ~\E g \in grants : g.role = r /\ g.perm = p
    /\ grants' = grants \cup {[role |-> r, perm |-> p, cond |-> c]}
    /\ RoleCall
    /\ UNCHANGED <<tokens, role, holds, actions, permissions, renamed>>
    /\ Push(Holders(role[r].name))

UnassignPermission(r, p) ==
    /\ r \in Existing
    /\ grants' = {g \in grants : ~(g.role = r /\ g.perm = p)}
    /\ RoleCall
    /\ UNCHANGED <<tokens, role, holds, actions, permissions, renamed>>
    /\ Push(Holders(role[r].name))

(* POST and DELETE /roles/assign: the access tokens issued so far are      *)
(* revoked and the user is told.                                           *)
AssignRole(u, r) ==
    /\ Live(u) /\ r \in Existing /\ role[r].name \notin holds[u]
    /\ holds' = [holds EXCEPT ![u] = @ \cup {role[r].name}]
    /\ tokens' = Stamp(tokens, u)
    /\ RoleCall
    /\ UNCHANGED <<role, actions, permissions, grants, renamed>>
    /\ Push({u})

UnassignRole(u, r) ==
    /\ Live(u) /\ r \in Existing
    /\ holds' = [holds EXCEPT ![u] = @ \ {role[r].name}]
    /\ tokens' = Stamp(tokens, u)
    /\ RoleCall
    /\ UNCHANGED <<role, actions, permissions, grants, renamed>>
    /\ Push({u})

(* POST /control/change-user-roles and /control/revoke-user-sessions.      *)
SwapRoles(u, names, revoke) ==
    /\ user[u] # None
    /\ holds' = [holds EXCEPT ![u] = names]
    /\ tokens' = IF revoke THEN Revoke(tokens, u) ELSE tokens
    /\ RoleCall
    /\ UNCHANGED <<role, actions, permissions, grants, renamed>>
    /\ Push({u})

(* POST /rbac/actions creates a permission on every resource; DELETE takes *)
(* them away again, unless the action is a default one or a role uses it.  *)
CreateAction(a) ==
    /\ a \notin actions
    /\ actions' = actions \cup {a}
    /\ permissions' = permissions \cup (Resources \X {a})
    /\ RoleCall
    /\ UNCHANGED <<tokens, role, holds, grants, told, renamed>>

Used(a) == \E g \in grants : g.perm[2] = a

DeleteAction(a) ==
    /\ a \in actions \ {"read"} /\ ~Used(a)
    /\ actions' = actions \ {a}
    /\ permissions' = permissions \ (Resources \X {a})
    /\ RoleCall
    /\ UNCHANGED <<tokens, role, holds, grants, told, renamed>>

-----------------------------------------------------------------------------
(* The admin router of the feature flags.  POST gives a flag a new id, so  *)
(* a form loaded before a deletion saves nothing.                          *)
FlagCall ==
    /\ AdminCall
    /\ broadcastFlagsUpdated
    /\ UNCHANGED <<tokens, role, holds, actions, permissions, grants, told, renamed>>

CreateFlag ==
    /\ flag = None
    /\ flag' = [enabled |-> FALSE, rules |-> 0, version |-> 1]
    /\ FlagCall /\ UNCHANGED draft

(* PATCH /:id saves the form under the version it was loaded with.         *)
PatchFlag ==
    /\ flag # None /\ draft # None /\ draft.version = flag.version
    /\ flag' = [flag EXCEPT !.enabled = ~draft.enabled, !.version = @ + 1]
    /\ FlagCall /\ UNCHANGED draft

Bumped == flag.version + 1

(* PUT /:id/rules and POST /:id/toggle ask for no version.                 *)
ReplaceRules ==
    /\ flag # None
    /\ flag' = [flag EXCEPT !.rules = 1 - @, !.version = Bumped]
    /\ FlagCall /\ UNCHANGED draft

ToggleFlag ==
    /\ flag # None
    /\ flag' = [flag EXCEPT !.enabled = ~@, !.version = Bumped]
    /\ FlagCall /\ UNCHANGED draft

DeleteFlag ==
    /\ flag # None
    /\ flag' = None /\ draft' = None
    /\ FlagCall

LoadFlag ==
    /\ flag # None /\ draft # flag
    /\ draft' = flag
    /\ UNCHANGED <<accountVars, roleVars, flag, timer, behind>>

Broadcast ==
    /\ timer
    /\ timer' = FALSE /\ behind' = {}
    /\ UNCHANGED <<accountVars, roleVars, flag, draft>>

-----------------------------------------------------------------------------
AdminNext ==
    \/ AccountsNext /\ UNCHANGED adminVars
    \/ \E u \in Users : Connect(u) \/ Disconnect(u)
    \/ \E r \in RoleIds :
         \/ \E n \in Names : CreateRole(r, n) \/ RenameRole(r, n)
         \/ DeleteRole(r)
         \/ \E perms \in SUBSET permissions, c \in Conditions : SetPermissions(r, perms, c)
         \/ \E p \in permissions : \/ UnassignPermission(r, p)
                                   \/ \E c \in Conditions : AssignPermission(r, p, c)
         \/ \E u \in Users : AssignRole(u, r) \/ UnassignRole(u, r)
    \/ \E u \in Users, n \in RoleNames, revoke \in BOOLEAN : SwapRoles(u, {n}, revoke)
    \/ \E a \in ActionNames : CreateAction(a) \/ DeleteAction(a)
    \/ CreateFlag \/ PatchFlag \/ ReplaceRules \/ ToggleFlag \/ DeleteFlag
    \/ LoadFlag \/ Broadcast

AdminSpec == AdminInit /\ [][AdminNext]_<<accountVars, adminVars>>

-----------------------------------------------------------------------------
(* Every grant names a role and a permission that exist, and every action  *)
(* has a permission on every resource, whatever roles and actions are      *)
(* deleted in between.                                                     *)
GrantsResolve ==
    /\ permissions = Resources \X actions
    /\ \A g \in grants : g.role \in Existing /\ g.perm \in permissions

(* A connected client shows the abilities its user has: every change of a  *)
(* role, a grant or a membership reaches its holders.  A rename is the     *)
(* exception: it takes the name from the role and tells nobody.            *)
AbilitiesAreShown ==
    \A u \in connected : holds[u] \cap renamed = {} => told[u] = Abilities(u)

(* The flag version tells contents apart: an edit form that still carries  *)
(* the current version shows the current flag, so a save undoes nothing    *)
(* its author has not seen.                                                *)
VersionTellsContents ==
    flag # None /\ draft # None /\ draft.version = flag.version => draft = flag

(* As long as a connected client has not heard of a flag change, a         *)
(* broadcast is on its way.                                                *)
FlagChangesAreTold == behind # {} => timer
=============================================================================
