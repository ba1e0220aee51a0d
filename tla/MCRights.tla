------------------------------ MODULE MCRights ------------------------------
(***************************************************************************)
(* Four chains by which a table becomes a right: accounts and the ways to  *)
(* log in to them, roles and permissions, the registry of resources, and   *)
(* entitlements.  They share no state here: a behaviour runs one of them.  *)
(***************************************************************************)
EXTENDS Accounts, Access, Registry, Entitlements, TLC

CONSTANTS p1, p2, q1, q2, u1, r1, r2

VARIABLE chain

(* Access: the role of an administrator to be, and one nobody holds.       *)
TheHolders == {<<u1, r1>>}
TheGrants == {<<r1, "roles">>, <<r2, "export">>}

(* Entitlements: a free and a paid plan, beside a purchase.                *)
TheCapabilities == [free |-> {}, pro |-> {"reports"}]

(* Registry: a rolling deploy of a release that drops one controller and   *)
(* brings another.                                                         *)
TheControllers == [old |-> <<"legacy">>, new |-> <<"beta">>]

ASSUME AccountsAssumption

RightsInit ==
    /\ Init /\ AccessInit /\ RegistryInit /\ EntitlementsInit
    /\ chain \in {"accounts", "access", "registry", "entitlements"}

RightsNext ==
    \/ /\ chain = "accounts" /\ Next
       /\ UNCHANGED <<chain, accessVars, registryVars, entitlementVars>>
    \/ /\ chain = "access" /\ AccessNext
       /\ UNCHANGED <<chain, vars, registryVars, entitlementVars>>
    \/ /\ chain = "registry" /\ RegistryNext
       /\ UNCHANGED <<chain, vars, accessVars, entitlementVars>>
    \/ /\ chain = "entitlements" /\ EntitlementsNext
       /\ UNCHANGED <<chain, vars, accessVars, registryVars>>

RightsSpec ==
    RightsInit /\ [][RightsNext]_<<chain, vars, accessVars, registryVars, entitlementVars>>

(* Two requests at a time on two users, two addresses, two providers; the  *)
(* model values of a pair carry no meaning, and are shared to keep the     *)
(* symmetry group small.                                                   *)
Alike == Permutations({p1, p2}) \cup Permutations({q1, q2})
=============================================================================
