---------------------------- MODULE MockAccounts ---------------------------
(***************************************************************************)
(* The account half of the mock server: registration, login and lockout,   *)
(* the mailed tokens, sessions with rotation and reuse detection, the      *)
(* change of an address in two steps, administration and social login.     *)
(*                                                                         *)
(* No handler awaits, so each is one action.  Request validation is left   *)
(* out: a request it refuses changes nothing.  A session is an index of    *)
(* "tokens", issued in that order; it stands for the refresh token and the *)
(* access token handed out with it.                                        *)
(***************************************************************************)
EXTENDS Integers, Sequences, FiniteSets, FiniteSetsExt

CONSTANTS
    Users,          \* user ids
    Addresses,      \* normalised e-mail addresses
    Providers,      \* OAuth providers
    MaxFailed,      \* MAX_FAILED_ATTEMPTS
    MaxSessions,    \* the concurrent-session allowance of the plan
    MaxRequests,    \* bound: requests in all
    None

(* pw counts the passwords the user has had, 0 for none; locked stands for *)
(* lockedUntil, in the future or already past.                             *)
UserRow ==
    [email : Addresses, verified : BOOLEAN, pw : Nat, fails : 0..MaxFailed,
     locked : BOOLEAN, pending : Addresses \cup {None}, active : BOOLEAN,
     deleted : BOOLEAN]

(* pw: the password of the user when the session was opened.               *)
SessionRow ==
    [user : Users, refresh : {"active", "rotated", "gone"}, access : BOOLEAN, pw : Nat]

ASSUME MockAccountsAssumption ==
    /\ MaxFailed \in Nat \ {0} /\ MaxSessions \in Nat \ {0} /\ MaxRequests \in Nat
    /\ None \notin Users \cup Addresses \cup UserRow

VARIABLES
    user,           \* users
    linked,         \* oauthAccounts: the providers linked to each user
    verifying,      \* emailVerificationTokens: users with a live token
    resetting,      \* passwordResetTokens: users with a live token
    pendingTokens,  \* pendingEmailTokens: <<user, address the mail went to>>
    tokens,         \* every session issued
    oauthData,      \* oauthDataTokens: sessions waiting to be exchanged
    left,           \* requests that may still arrive
    restored        \* ghost: users brought back from a deletion

accountVars ==
    <<user, linked, verifying, resetting, pendingTokens, tokens, oauthData, left, restored>>

-----------------------------------------------------------------------------
buildMockUser(a, verified) ==
    [email |-> a, verified |-> verified, pw |-> 1, fails |-> 0, locked |-> FALSE,
     pending |-> None, active |-> TRUE, deleted |-> FALSE]

Live(u) == user[u] # None /\ ~user[u].deleted

(* findUserByEmail, findUserByPendingEmail: live rows only. *)
PendingIgnored(a) == {}                          \* a mutant
ByEmail(a) == {u \in Users : Live(u) /\ user[u].email = a}
ByPending(a) == {u \in Users : Live(u) /\ user[u].pending = a}

(* authGuard: some access token of u is still accepted. *)
Authenticated(u) ==
    Live(u) /\ \E t \in DOMAIN tokens : tokens[t].user = u /\ tokens[t].access

ActiveOf(toks, u) ==
    {t \in DOMAIN toks : toks[t].user = u /\ toks[t].refresh = "active"}

(* Dropping a user's refresh tokens, rotated ones included; stamping       *)
(* tokenRevokedAt, which kills the access tokens issued so far.            *)
DropRefresh(toks, u) ==
    [t \in DOMAIN toks |->
        IF toks[t].user = u THEN [toks[t] EXCEPT !.refresh = "gone"] ELSE toks[t]]
Stamp(toks, u) ==
    [t \in DOMAIN toks |->
        IF toks[t].user = u THEN [toks[t] EXCEPT !.access = FALSE] ELSE toks[t]]

StampKeepingRefresh(toks, u) == Stamp(toks, u)     \* a mutant: one leg only
Revoke(toks, u) == Stamp(DropRefresh(toks, u), u)

(* generateTokens and the entry of the refresh map. *)
Issue(toks, u) ==
    Append(toks, [user |-> u, refresh |-> "active", access |-> TRUE,
                  pw |-> user[u].pw])

(* pruneOldestUserTokens: the excess goes, the first issued first. *)
pruneOldestUserTokens(toks, u) ==
    LET mine == ActiveOf(toks, u)
        older(t) == Cardinality({s \in mine : s < t})
    IN  [t \in DOMAIN toks |->
            IF t \in mine /\ older(t) < Cardinality(mine) - MaxSessions
            THEN [toks[t] EXCEPT !.refresh = "gone"] ELSE toks[t]]

(* Forgetting the change of address in flight: the map entry and the row.  *)
TokensWithoutPending(u) == pendingTokens \ {<<u, user[u].pending>>}

-----------------------------------------------------------------------------
(* resetState: the seeded users are verified, each at an address of its    *)
(* own.                                                                    *)
SeedUsers ==
    {[u \in Users |-> IF home[u] = None THEN None ELSE buildMockUser(home[u], TRUE)] :
        home \in {h \in [Users -> Addresses \cup {None}] :
                    \A u, v \in Users : h[u] = h[v] => u = v \/ h[u] = None}}

AccountsInit ==
    /\ user \in SeedUsers
    /\ linked = [u \in Users |-> {}]
    /\ verifying = {} /\ resetting = {} /\ pendingTokens = {}
    /\ tokens = <<>> /\ oauthData = {}
    /\ left = MaxRequests /\ restored = {}

Call == left > 0 /\ left' = left - 1

(* POST /auth/register and POST /users. *)
Register(u, a) ==
    /\ user[u] = None /\ ByEmail(a) \cup ByPending(a) = {}
    /\ user' = [user EXCEPT ![u] = buildMockUser(a, FALSE)]
    /\ verifying' = verifying \cup {u}
    /\ Call
    /\ UNCHANGED <<linked, resetting, pendingTokens, tokens, oauthData, restored>>

CreateUser(u, a) ==
    /\ user[u] = None /\ ByEmail(a) \cup ByPending(a) = {}
    /\ user' = [user EXCEPT ![u] = buildMockUser(a, TRUE)]
    /\ Call
    /\ UNCHANGED <<linked, verifying, resetting, pendingTokens, tokens, oauthData,
                   restored>>

(* POST /control/users and /control/oauth-accounts: a user without a       *)
(* password, who signs in through a provider.                              *)
SeedOAuthUser(u, a, p) ==
    /\ user[u] = None /\ ByEmail(a) \cup ByPending(a) = {}
    /\ user' = [user EXCEPT ![u] = [buildMockUser(a, TRUE) EXCEPT !.pw = 0]]
    /\ linked' = [linked EXCEPT ![u] = {p}]
    /\ Call
    /\ UNCHANGED <<verifying, resetting, pendingTokens, tokens, oauthData, restored>>

(* POST /auth/login.  A lock still running refuses before the password is  *)
(* compared; an expired one is cleared first, with the count.              *)
Unlocked(u) == [user[u] EXCEPT !.locked = FALSE, !.fails = 0]

WrongPassword(u) ==
    LET row == IF user[u].locked THEN Unlocked(u) ELSE user[u]
        fails == row.fails + 1
    IN  /\ Live(u) /\ user[u].active
        /\ user' = [user EXCEPT ![u] = [row EXCEPT !.fails = fails,
                                            !.locked = fails >= MaxFailed]]
        /\ Call
        /\ UNCHANGED <<linked, verifying, resetting, pendingTokens, tokens,
                       oauthData, restored>>

Login(u) ==
    /\ Live(u) /\ user[u].active /\ user[u].pw > 0
    /\ IF user[u].verified
       THEN /\ user' = [user EXCEPT ![u] = Unlocked(u)]
            /\ tokens' = pruneOldestUserTokens(Issue(tokens, u), u)
       ELSE /\ user[u].locked
            /\ user' = [user EXCEPT ![u] = Unlocked(u)]
            /\ UNCHANGED tokens
    /\ Call
    /\ UNCHANGED <<linked, verifying, resetting, pendingTokens, oauthData, restored>>

(* POST /auth/verify-email. *)
VerifyEmail(u) ==
    /\ u \in verifying /\ Live(u)
    /\ user' = [user EXCEPT ![u].verified = TRUE]
    /\ verifying' = verifying \ {u}
    /\ Call
    /\ UNCHANGED <<linked, resetting, pendingTokens, tokens, oauthData, restored>>

(* POST /auth/resend-verification: the new token replaces the old one.     *)
ResendVerification(u) ==
    /\ Live(u) /\ ~user[u].verified
    /\ verifying' = verifying \cup {u}
    /\ Call
    /\ UNCHANGED <<user, linked, resetting, pendingTokens, tokens, oauthData,
                   restored>>

(* POST /auth/forgot-password. *)
ForgotPassword(u) ==
    /\ Live(u) /\ user[u].active
    /\ resetting' = resetting \cup {u}
    /\ Call
    /\ UNCHANGED <<user, linked, verifying, pendingTokens, tokens, oauthData,
                   restored>>

(* POST /auth/reset-password: every session ends, and the change of        *)
(* address in flight with them.                                            *)
ResetPassword(u) ==
    /\ u \in resetting /\ Live(u)
    /\ user' = [user EXCEPT ![u].pw = @ + 1, ![u].pending = None]
    /\ resetting' = resetting \ {u}
    /\ pendingTokens' = TokensWithoutPending(u)
    /\ tokens' = Revoke(tokens, u)
    /\ Call
    /\ UNCHANGED <<linked, verifying, oauthData, restored>>

(* POST /auth/refresh-token: a rotated token that comes back ends every    *)
(* session of its user.                                                    *)
Refresh(t) ==
    LET u == tokens[t].user
        rotated == [tokens EXCEPT ![t].refresh = "rotated"]
    IN  /\ \/ /\ tokens[t].refresh = "rotated"
              /\ tokens' = IF Live(u) THEN Revoke(tokens, u) ELSE DropRefresh(tokens, u)
           \/ /\ tokens[t].refresh = "active"
              /\ tokens' = IF Live(u) /\ user[u].active THEN Issue(rotated, u)
                           ELSE [tokens EXCEPT ![t].refresh = "gone"]
        /\ Call
    /\ UNCHANGED <<user, linked, verifying, resetting, pendingTokens,
                       oauthData, restored>>

(* POST /auth/logout ends every session of the user. *)
Logout(u) ==
    /\ Authenticated(u)
    /\ tokens' = Revoke(tokens, u)
    /\ Call
    /\ UNCHANGED <<user, linked, verifying, resetting, pendingTokens, oauthData,
                   restored>>

(* PATCH /auth/profile with a password; the first one needs no old one.    *)
ChangePassword(u) ==
    /\ Authenticated(u)
    /\ user' = [user EXCEPT ![u].pw = @ + 1]
    /\ tokens' = Revoke(tokens, u)
    /\ Call
    /\ UNCHANGED <<linked, verifying, resetting, pendingTokens, oauthData, restored>>

(* POST /auth/profile/email/initiate: an address another live user has, or *)
(* is moving to, is refused without a word.                                *)
InitiateEmailChange(u, a) ==
    /\ Authenticated(u) /\ user[u].pw > 0 /\ a # user[u].email
    /\ (ByEmail(a) \cup ByPending(a)) \ {u} = {}
    /\ user' = [user EXCEPT ![u].pending = a]
    /\ pendingTokens' = TokensWithoutPending(u) \cup {<<u, a>>}
    /\ Call
    /\ UNCHANGED <<linked, verifying, resetting, tokens, oauthData, restored>>

(* POST /auth/profile/email/confirm: a token past its time, or an address  *)
(* taken since, ends the change; otherwise the address moves.              *)
ConfirmEmailChange(u, a, expired) ==
    LET ready == Live(u) /\ user[u].pending # None
        taken == ByEmail(user[u].pending) \ {u} # {}
        moves == ready /\ ~expired /\ ~taken
    IN  /\ <<u, a>> \in pendingTokens
        /\ pendingTokens' = pendingTokens \ {<<u, a>>}
        /\ user' = IF ~ready THEN user
                   ELSE [user EXCEPT ![u].pending = None,
                            ![u].email = IF moves THEN user[u].pending ELSE @,
                            ![u].verified = @ \/ moves]
        /\ tokens' = IF moves THEN Revoke(tokens, u) ELSE tokens
        /\ Call
    /\ UNCHANGED <<linked, verifying, resetting, oauthData, restored>>

(* PATCH /users/:id, one field at a time. *)
AdminSetEmail(u, a) ==
    /\ Live(u) /\ a # user[u].email
    /\ (ByEmail(a) \cup ByPending(a)) \ {u} = {}
    /\ user' = [user EXCEPT ![u].email = a, ![u].verified = FALSE,
                            ![u].pending = None]
    /\ pendingTokens' = TokensWithoutPending(u)
    /\ tokens' = Revoke(tokens, u)
    /\ Call
    /\ UNCHANGED <<linked, verifying, resetting, oauthData, restored>>

AdminSetPassword(u) ==
    /\ Live(u)
    /\ user' = [user EXCEPT ![u].pw = @ + 1]
    /\ tokens' = Revoke(tokens, u)
    /\ Call
    /\ UNCHANGED <<linked, verifying, resetting, pendingTokens, oauthData, restored>>

AdminSetActive(u, active) ==
    /\ Live(u)
    /\ user' = [user EXCEPT ![u].active = active]
    /\ tokens' = IF ~active /\ user[u].active THEN Stamp(tokens, u) ELSE tokens
    /\ Call
    /\ UNCHANGED <<linked, verifying, resetting, pendingTokens, oauthData, restored>>

AdminUnlock(u) ==
    /\ Live(u)
    /\ user' = [user EXCEPT ![u] = Unlocked(u)]
    /\ Call
    /\ UNCHANGED <<linked, verifying, resetting, pendingTokens, tokens, oauthData,
                   restored>>

(* DELETE /users/:id drops the refresh tokens and does not stamp. *)
DeleteUser(u) ==
    /\ Live(u)
    /\ user' = [user EXCEPT ![u].deleted = TRUE, ![u].pending = None]
    /\ pendingTokens' = TokensWithoutPending(u)
    /\ tokens' = DropRefresh(tokens, u)
    /\ Call
    /\ UNCHANGED <<linked, verifying, resetting, oauthData, restored>>

(* POST /users/:id/restore lifts the deletion, whoever has the address by  *)
(* now.                                                                    *)
RestoreUser(u) ==
    /\ user[u] # None
    /\ user' = [user EXCEPT ![u].deleted = FALSE]
    /\ restored' = IF user[u].deleted THEN restored \cup {u} ELSE restored
    /\ Call
    /\ UNCHANGED <<linked, verifying, resetting, pendingTokens, tokens, oauthData>>

(* DELETE /auth/oauth/accounts/:provider. *)
Unlink(u, p) ==
    /\ Authenticated(u) /\ p \in linked[u]
    /\ user[u].pw > 0 \/ linked[u] # {p}
    /\ linked' = [linked EXCEPT ![u] = @ \ {p}]
    /\ Call
    /\ UNCHANGED <<user, verifying, resetting, pendingTokens, tokens, oauthData,
                   restored>>

(* POST /control/oauth-data mints a session; POST /auth/oauth/exchange     *)
(* hands it out once.                                                      *)
MintOAuthData(u) ==
    /\ Live(u)
    /\ tokens' = pruneOldestUserTokens(Issue(tokens, u), u)
    /\ oauthData' = oauthData \cup {Len(tokens) + 1}
    /\ Call
    /\ UNCHANGED <<user, linked, verifying, resetting, pendingTokens, restored>>

ExchangeOAuthData(t) ==
    /\ t \in oauthData
    /\ oauthData' = oauthData \ {t}
    /\ Call
    /\ UNCHANGED <<user, linked, verifying, resetting, pendingTokens, tokens,
                   restored>>

(* POST /control/invalidate-access-tokens, /control/revoke-user-sessions.  *)
InvalidateAccess(u) ==
    /\ user[u] # None
    /\ tokens' = Stamp(tokens, u)
    /\ Call
    /\ UNCHANGED <<user, linked, verifying, resetting, pendingTokens, oauthData,
                   restored>>

RevokeUserSessions(u) ==
    /\ user[u] # None
    /\ tokens' = Revoke(tokens, u)
    /\ Call
    /\ UNCHANGED <<user, linked, verifying, resetting, pendingTokens, oauthData,
                   restored>>

AccountsNext ==
    \/ \E u \in Users, a \in Addresses :
         \/ Register(u, a) \/ CreateUser(u, a)
         \/ \E p \in Providers : SeedOAuthUser(u, a, p)
         \/ InitiateEmailChange(u, a) \/ AdminSetEmail(u, a)
         \/ \E expired \in BOOLEAN : ConfirmEmailChange(u, a, expired)
    \/ \E u \in Users :
         \/ WrongPassword(u) \/ Login(u) \/ VerifyEmail(u) \/ ResendVerification(u)
         \/ ForgotPassword(u) \/ ResetPassword(u) \/ Logout(u) \/ ChangePassword(u)
         \/ AdminSetPassword(u) \/ AdminUnlock(u) \/ DeleteUser(u) \/ RestoreUser(u)
         \/ \E active \in BOOLEAN : AdminSetActive(u, active)
         \/ \E p \in Providers : Unlink(u, p)
         \/ MintOAuthData(u) \/ InvalidateAccess(u) \/ RevokeUserSessions(u)
    \/ \E t \in DOMAIN tokens : Refresh(t) \/ ExchangeOAuthData(t)

AccountsSpec == AccountsInit /\ [][AccountsNext]_accountVars

-----------------------------------------------------------------------------
(* Every row and session is well formed, and a lock is what the last of    *)
(* MaxFailed wrong passwords leaves.                                       *)
MockAccountsTypeOK ==
    /\ user \in [Users -> UserRow \cup {None}]
    /\ linked \in [Users -> SUBSET Providers]
    /\ tokens \in Seq(SessionRow)
    /\ oauthData \subseteq DOMAIN tokens
    /\ verifying \cup resetting \subseteq {u \in Users : user[u] # None}
    /\ \A u \in Users : user[u] # None =>
         /\ user[u].pending # user[u].email
         /\ user[u].locked <=> user[u].fails = MaxFailed
         /\ user[u].pw = 0 => linked[u] # {}

(* No two live users have, or are moving to, the same address, whatever    *)
(* registrations, two-step changes and admin edits cross each other; only  *)
(* a restored user can come back to an address someone else took.          *)
ClaimsAreDistinct ==
    \A u, v \in Users :
        u # v /\ Live(u) /\ Live(v) /\ {u, v} \cap restored = {} =>
          {user[u].email, user[u].pending} \cap {user[v].email, user[v].pending}
              \subseteq {None}

(* A confirmation link works exactly as long as the change it confirms is  *)
(* the one in flight: the token map and the rows never disagree.           *)
PendingAgrees ==
    pendingTokens = {<<u, user[u].pending>> :
                        u \in {v \in Users : Live(v) /\ user[v].pending # None}}

(* No session outlives the password it was opened under, through rotation, *)
(* deactivation, deletion and restoration.                                 *)
OldPasswordIsOut ==
    \A t \in DOMAIN tokens :
        LET u == tokens[t].user
        IN  tokens[t].refresh = "active" \/ (tokens[t].access /\ Live(u))
              => tokens[t].pw = user[u].pw

(* However sessions are opened, rotated and replayed, a user holds no more *)
(* than the allowance.                                                     *)
SessionsWithinAllowance ==
    \A u \in Users : Cardinality(ActiveOf(tokens, u)) <= MaxSessions

=============================================================================
