------------------------------ MODULE Accounts ------------------------------
(***************************************************************************)
(* The users table and the linked provider identities under concurrent     *)
(* requests: registration, e-mail verification, password reset, the change *)
(* of an address, administration, social login, and the login lockout.     *)
(*                                                                         *)
(* A handler reads rows, awaits (a hash, a query), and writes by id; the   *)
(* model keeps both ends: an action that reads and decides, and an action  *)
(* that writes what was decided.  A token is what its mail proves: the     *)
(* address the mail went to.  A token a newer one replaced finds no row    *)
(* and needs no representation; an expired one is one nobody presents,     *)
(* except where its expiry makes the code write.                           *)
(***************************************************************************)
EXTENDS Integers, FiniteSets

CONSTANTS
    Users,          \* user ids
    Addresses,      \* canonical e-mail addresses
    Providers,      \* OAuth providers, with one identity each
    Slots,          \* bound: requests in progress at once
    MaxRequests,    \* bound: requests in all
    MaxFailed,      \* MAX_FAILED_ATTEMPTS
    None

VARIABLES
    row,            \* users: the row of each id, or None
    link,           \* oauth_accounts: the user an identity is linked to, or None
    request,        \* the requests in progress
    left,           \* requests that may still arrive
    proved,         \* ghost: <<user, address>> whose mailbox a user has proved
    wrong,          \* ghost: wrong passwords answered since attempts were cleared
    raced           \* ghost: users whose row changed under a write relying on it

vars == <<row, link, request, left, proved, wrong, raced>>

RowType ==
    [email : Addresses, verified : BOOLEAN, password : BOOLEAN,
     vtoken : Addresses \cup {None}, rtoken : Addresses \cup {None},
     pending : Addresses \cup {None}, fails : 0..MaxFailed, locked : BOOLEAN,
     active : BOOLEAN, deleted : BOOLEAN]

(* What an administrator changes besides the address.                      *)
Edits == {"name", "password", "unlock", "activate", "deactivate"}

AccountsAssumption ==
    /\ MaxRequests \in Nat /\ MaxFailed \in Nat \ {0}
    /\ None \notin Users \cup Addresses \cup RowType
    /\ Edits \cap Addresses = {}

NewRow(a, password, verified, vtoken) ==
    [email |-> a, verified |-> verified, password |-> password,
     vtoken |-> vtoken, rtoken |-> None, pending |-> None, fails |-> 0,
     locked |-> FALSE, active |-> TRUE, deleted |-> FALSE]

Kinds == {"register", "create", "guess", "login", "mark", "resend", "forgot",
          "reset", "initiate", "confirm", "drop", "update", "delete", "oauth",
          "link", "unlink"}

(* seen: the row as the request read it; to: an address, a provider or a   *)
(* change the request is about.                                            *)
Idle == [kind |-> "idle", user |-> None, seen |-> None, to |-> None,
         by |-> None, vouched |-> FALSE]

AccountsTypeOK ==
    /\ row \in [Users -> RowType \cup {None}]
    /\ link \in [Providers -> Users \cup {None}]
    /\ \A s \in Slots :
         /\ request[s].kind \in Kinds \cup {"idle"}
         /\ request[s].user \in Users \cup {None}
         /\ request[s].seen \in RowType \cup {None}
    /\ left \in 0..MaxRequests
    /\ proved \subseteq Users \X Addresses
    /\ wrong \in [Users -> 0..MaxFailed]
    /\ raced \subseteq Users

Init ==
    /\ row = [u \in Users |-> None]
    /\ link = [p \in Providers |-> None]
    /\ request = [s \in Slots |-> Idle]
    /\ left = MaxRequests
    /\ proved = {}
    /\ wrong = [u \in Users |-> 0]
    /\ raced = {}

-----------------------------------------------------------------------------
Exists(u) == row[u] # None
Live(u) == Exists(u) /\ ~row[u].deleted     \* what a find without withDeleted sees

(* UQ_users_email_lower covers every row, a soft-deleted one included; the *)
(* index on pending_email likewise.                                        *)
EmailTaken(u, a) == \E v \in Users \ {u} : Exists(v) /\ row[v].email = a
PendingTaken(u, a) == \E v \in Users \ {u} : Exists(v) /\ row[v].pending = a

(* The pre-check of every handler that claims an address.                  *)
Claimed(u, a) == \E v \in Users \ {u} : Live(v) /\ a \in {row[v].email, row[v].pending}

Start(s, r) ==
    /\ left > 0 /\ request[s] = Idle
    /\ left' = left - 1
    /\ request' = [request EXCEPT ![s] = r]

Doing(s, kind) == request[s].kind = kind
Done(s) == request' = [request EXCEPT ![s] = Idle]

(* unlinkProvider holds FOR UPDATE on the user's row: a write to the row,  *)
(* and an insert whose foreign key refers to it, waits.                    *)
RowLocked(s, u) ==
    \E t \in Slots \ {s} : Doing(t, "unlink") /\ request[t].user = u
WriteFree(s, u) == ~RowLocked(s, u)

(* repository.update(id, fields): whatever the row is by now.              *)
Write(s, u, new) ==
    /\ WriteFree(s, u)
    /\ row' = [row EXCEPT ![u] = new]

Races(u, relied) == raced' = IF relied THEN raced ELSE raced \cup {u}

-----------------------------------------------------------------------------
(* Registration, by a visitor or by an administrator.                      *)

RegisterCheck(s, a, kind) ==
    /\ ~Claimed(None, a)
    /\ Start(s, [Idle EXCEPT !.kind = kind, !.to = a])
    /\ UNCHANGED <<row, link, proved, wrong, raced>>

Insert(s, u, a, new) ==
    /\ ~Exists(u)
    /\ row' = [row EXCEPT ![u] = IF EmailTaken(u, a) THEN None ELSE new]

(* An administrator's new user gets no verification mail.                  *)
RegisterInsert(s) ==
    /\ Doing(s, "register") \/ Doing(s, "create")
    /\ LET a == request[s].to
       IN \E u \in Users :
            Insert(s, u, a, NewRow(a, TRUE, FALSE, IF Doing(s, "register") THEN a ELSE None))
    /\ Done(s)
    /\ UNCHANGED <<link, left, proved, wrong, raced>>

-----------------------------------------------------------------------------
(* Login with a password.                                                  *)

(* validateUser up to the comparison: a locked account is refused, and an  *)
(* inactive or password-less one is answered without counting.             *)
Guess(s, u, kind) ==
    /\ Live(u) /\ ~row[u].locked /\ row[u].active /\ row[u].password
    /\ kind = "login" => row[u].verified
    /\ Start(s, [Idle EXCEPT !.kind = kind, !.user = u,
                             !.seen = [row[u] EXCEPT !.vtoken = None, !.rtoken = None]])
    /\ UNCHANGED <<row, link, proved, wrong, raced>>

AtMost(n) == IF n > MaxFailed THEN MaxFailed ELSE n

(* One UPDATE ... SET failed_login_attempts = failed_login_attempts + 1.   *)
FailsAfterRead(s, u) == AtMost(request[s].seen.fails + 1)       \* mutant
FailsAfter(s, u) == AtMost(row[u].fails + 1)

GuessCounted(s) ==
    /\ Doing(s, "guess")
    /\ LET u == request[s].user
           n == FailsAfter(s, u)
       IN /\ Write(s, u, [row[u] EXCEPT !.fails = n, !.locked = @ \/ n = MaxFailed])
          /\ wrong' = [wrong EXCEPT ![u] = AtMost(@ + 1)]
    /\ Done(s)
    /\ UNCHANGED <<link, left, proved, raced>>

LoginSucceeds(s) ==
    /\ Doing(s, "login")
    /\ LET u == request[s].user
           clear == request[s].seen.fails > 0
       IN IF clear
          THEN /\ Write(s, u, [row[u] EXCEPT !.fails = 0, !.locked = FALSE])
               /\ wrong' = [wrong EXCEPT ![u] = 0]
          ELSE UNCHANGED <<row, wrong>>
    /\ Done(s)
    /\ UNCHANGED <<link, left, proved, raced>>

(* The lock expires; the attempts stay counted.                            *)
LockExpires(u) ==
    /\ Exists(u) /\ row[u].locked
    /\ row' = [row EXCEPT ![u].locked = FALSE]
    /\ UNCHANGED <<link, request, left, proved, wrong, raced>>

-----------------------------------------------------------------------------
(* Verification of an address, and the mails that carry tokens.            *)

Verify(s, u) ==
    /\ Live(u) /\ row[u].vtoken # None
    /\ Start(s, [Idle EXCEPT !.kind = "mark", !.user = u, !.seen = row[u],
                             !.to = row[u].vtoken])
    /\ UNCHANGED <<row, link, proved, wrong, raced>>

(* A linked identity whose provider vouches for the account's own address. *)
OAuthVouches(s, p, a) ==
    /\ link[p] # None /\ Live(link[p])
    /\ row[link[p]].active /\ ~row[link[p]].verified /\ row[link[p]].email = a
    /\ Start(s, [Idle EXCEPT !.kind = "mark", !.user = link[p],
                             !.seen = row[link[p]], !.to = a])
    /\ UNCHANGED <<row, link, proved, wrong, raced>>

(* markEmailVerified(id), for both.                                        *)
Mark(s) ==
    /\ Doing(s, "mark")
    /\ LET u == request[s].user
       IN /\ Write(s, u, [row[u] EXCEPT !.verified = TRUE, !.vtoken = None])
          /\ proved' = proved \cup {<<u, request[s].to>>}
          /\ Races(u, row[u].email = request[s].seen.email)
    /\ Done(s)
    /\ UNCHANGED <<link, left, wrong>>

ReadForMail(s, u, kind) ==
    /\ Live(u)
    /\ kind = "resend" => ~row[u].verified
    /\ kind = "forgot" => row[u].active
    /\ Start(s, [Idle EXCEPT !.kind = kind, !.user = u, !.seen = row[u]])
    /\ UNCHANGED <<row, link, proved, wrong, raced>>

ResendWrite(s) ==
    /\ Doing(s, "resend")
    /\ LET u == request[s].user
           to == request[s].seen.email
       IN /\ Write(s, u, [row[u] EXCEPT !.vtoken = to])
          /\ Races(u, row[u].email = to)
    /\ Done(s)
    /\ UNCHANGED <<link, left, proved, wrong>>

ForgotWrite(s) ==
    /\ Doing(s, "forgot")
    /\ LET u == request[s].user
       IN Write(s, u, [row[u] EXCEPT !.rtoken = request[s].seen.email])
    /\ Done(s)
    /\ UNCHANGED <<link, left, proved, wrong, raced>>

Reset(s, u) ==
    /\ Live(u) /\ row[u].rtoken # None /\ row[u].active
    /\ Start(s, [Idle EXCEPT !.kind = "reset", !.user = u])
    /\ UNCHANGED <<row, link, proved, wrong, raced>>

ResetWrite(s) ==
    /\ Doing(s, "reset")
    /\ LET u == request[s].user
       IN Write(s, u, [row[u] EXCEPT !.password = TRUE, !.rtoken = None, !.pending = None])
    /\ Done(s)
    /\ UNCHANGED <<link, left, proved, wrong, raced>>

-----------------------------------------------------------------------------
(* Self-service change of the address.                                     *)

Initiate(s, u, a) ==
    /\ Live(u) /\ row[u].password /\ row[u].email # a
    /\ ~Claimed(u, a)
    /\ Start(s, [Idle EXCEPT !.kind = "initiate", !.user = u, !.to = a, !.seen = row[u]])
    /\ UNCHANGED <<row, link, proved, wrong, raced>>

(* The loser of the unique index takes the path of a detected conflict.    *)
InitiateWrite(s) ==
    /\ Doing(s, "initiate")
    /\ LET u == request[s].user
           a == request[s].to
       IN /\ WriteFree(s, u)
          /\ IF PendingTaken(u, a)
             THEN UNCHANGED <<row, raced>>
             ELSE /\ Write(s, u, [row[u] EXCEPT !.pending = a])
                  /\ Races(u, row[u].deleted = request[s].seen.deleted)
    /\ Done(s)
    /\ UNCHANGED <<link, left, proved, wrong>>

Confirm(s, u, expired) ==
    /\ Live(u) /\ row[u].pending # None
    /\ LET a == row[u].pending
           conflict == \E v \in Users \ {u} : Live(v) /\ row[v].email = a
       IN Start(s, [Idle EXCEPT !.user = u, !.to = a,
                       !.kind = IF expired \/ conflict THEN "drop" ELSE "confirm"])
    /\ UNCHANGED <<row, link, proved, wrong, raced>>

ConfirmWrite(s) ==
    /\ Doing(s, "confirm")
    /\ LET u == request[s].user
           a == request[s].to
       IN IF EmailTaken(u, a)
          THEN /\ request' = [request EXCEPT ![s].kind = "drop"]
               /\ UNCHANGED <<row, proved>>
          ELSE /\ Write(s, u, [row[u] EXCEPT !.email = a, !.verified = TRUE, !.pending = None])
               /\ proved' = proved \cup {<<u, a>>}
               /\ Done(s)
    /\ UNCHANGED <<link, left, wrong, raced>>

(* clearPendingEmailChange(id), outside the transaction.                   *)
Drop(s) ==
    /\ Doing(s, "drop")
    /\ LET u == request[s].user IN Write(s, u, [row[u] EXCEPT !.pending = None])
    /\ Done(s)
    /\ UNCHANGED <<link, left, proved, wrong, raced>>

-----------------------------------------------------------------------------
(* Administration, and the profile form.                                   *)

Changes == Edits \cup Addresses

Update(s, u, change) ==
    /\ Live(u)
    /\ change \in Addresses => ~Claimed(u, change)
    /\ Start(s, [Idle EXCEPT !.kind = "update", !.user = u, !.seen = row[u], !.to = change])
    /\ UNCHANGED <<row, link, proved, wrong, raced>>

MergedVerified(seen, change) ==                                 \* mutant
    IF change \in Addresses THEN [seen EXCEPT !.email = change, !.pending = None]
    ELSE IF change = "password" THEN [seen EXCEPT !.password = TRUE] ELSE seen

Merged(seen, change) ==
    CASE change = "name" -> seen
      [] change = "password" -> [seen EXCEPT !.password = TRUE]
      [] change = "unlock" -> [seen EXCEPT !.fails = 0, !.locked = FALSE]
      [] change \in {"activate", "deactivate"} -> [seen EXCEPT !.active = change = "activate"]
      [] change \in Addresses ->
            IF change = seen.email THEN seen
            ELSE [seen EXCEPT !.email = change, !.verified = FALSE,
                              !.vtoken = change, !.pending = None]

(* save() re-reads the row and writes every column that differs from the   *)
(* entity in memory: the row becomes the merged snapshot, whatever others  *)
(* wrote since.  A unique violation writes nothing.                        *)
UpdateSave(s) ==
    /\ Doing(s, "update")
    /\ LET u == request[s].user
           seen == request[s].seen
           new == Merged(seen, request[s].to)
       IN /\ WriteFree(s, u)
          /\ IF EmailTaken(u, new.email) \/ (new.pending # None /\ PendingTaken(u, new.pending))
             THEN UNCHANGED <<row, raced, wrong>>
             ELSE /\ Write(s, u, new)
                  /\ Races(u, row[u] = seen)
                  /\ wrong' = IF request[s].to = "unlock" THEN [wrong EXCEPT ![u] = 0] ELSE wrong
    /\ Done(s)
    /\ UNCHANGED <<link, left, proved>>

Delete(s, u) ==
    /\ Live(u)
    /\ Start(s, [Idle EXCEPT !.kind = "delete", !.user = u])
    /\ UNCHANGED <<row, link, proved, wrong, raced>>

(* One transaction; UserDeletedListener then clears the same fields again. *)
Removed(r) == [r EXCEPT !.pending = None, !.deleted = TRUE]

DeleteWrite(s) ==
    /\ Doing(s, "delete")
    /\ LET u == request[s].user
       IN Write(s, u, Removed(row[u]))
    /\ Done(s)
    /\ UNCHANGED <<link, left, proved, wrong, raced>>

Restore(s, u) ==
    /\ Exists(u) /\ row[u].deleted
    /\ left > 0 /\ left' = left - 1
    /\ Write(s, u, [row[u] EXCEPT !.deleted = FALSE])
    /\ UNCHANGED <<link, request, proved, wrong, raced>>

-----------------------------------------------------------------------------
(* Social login, linking and unlinking.                                    *)

(* No linked identity: an address of a live user is never linked to it.    *)
OAuthNew(s, p, a, vouched) ==
    /\ link[p] = None
    /\ \A v \in Users : Live(v) => row[v].email # a
    /\ Start(s, [Idle EXCEPT !.kind = "oauth", !.to = a, !.by = p, !.vouched = vouched])
    /\ UNCHANGED <<row, link, proved, wrong, raced>>

(* User and identity in one transaction: a violated index rolls back both. *)
OAuthInsert(s) ==
    /\ Doing(s, "oauth")
    /\ \E u \in Users :
         LET p == request[s].by
             a == request[s].to
             vouched == request[s].vouched
         IN /\ ~Exists(u)
            /\ IF EmailTaken(u, a) \/ link[p] # None
               THEN UNCHANGED <<row, link, proved>>
               ELSE /\ Insert(s, u, a, NewRow(a, FALSE, vouched, IF vouched THEN None ELSE a))
                    /\ link' = [link EXCEPT ![p] = u]
                    /\ proved' = IF vouched THEN proved \cup {<<u, a>>} ELSE proved
    /\ Done(s)
    /\ UNCHANGED <<left, wrong, raced>>

Link(s, u, p) ==
    /\ Live(u) /\ row[u].active
    /\ Start(s, [Idle EXCEPT !.kind = "link", !.user = u, !.to = p])
    /\ UNCHANGED <<row, link, proved, wrong, raced>>

LinkInsert(s) ==
    /\ Doing(s, "link")
    /\ WriteFree(s, request[s].user)
    /\ link' = [link EXCEPT ![request[s].to] = IF @ = None THEN request[s].user ELSE @]
    /\ Done(s)
    /\ UNCHANGED <<row, left, proved, wrong, raced>>

(* The lock is taken by the first statement, before the row is judged.     *)
LockNothing(s, u) == TRUE                                       \* mutant
LockRow(s, u) == WriteFree(s, u)

OtherLogin(u, p) == row[u].password \/ \E q \in Providers \ {p} : link[q] = u

Unlink(s, u, p) ==
    /\ Live(u) /\ link[p] = u
    /\ LockRow(s, u)
    /\ OtherLogin(u, p)
    /\ Start(s, [Idle EXCEPT !.kind = "unlink", !.user = u, !.to = p])
    /\ UNCHANGED <<row, link, proved, wrong, raced>>

UnlinkDelete(s) ==
    /\ Doing(s, "unlink")
    /\ link' = [link EXCEPT ![request[s].to] = IF @ = request[s].user THEN None ELSE @]
    /\ Done(s)
    /\ UNCHANGED <<row, left, proved, wrong, raced>>

-----------------------------------------------------------------------------
Arrives(s) ==
    \/ \E a \in Addresses, kind \in {"register", "create"} : RegisterCheck(s, a, kind)
    \/ \E u \in Users :
         \/ \E kind \in {"guess", "login"} : Guess(s, u, kind)
         \/ Verify(s, u)
         \/ \E kind \in {"resend", "forgot"} : ReadForMail(s, u, kind)
         \/ Reset(s, u)
         \/ \E a \in Addresses : Initiate(s, u, a)
         \/ \E expired \in BOOLEAN : Confirm(s, u, expired)
         \/ \E change \in Changes : Update(s, u, change)
         \/ Delete(s, u)
         \/ Restore(s, u)
         \/ \E p \in Providers : Link(s, u, p) \/ Unlink(s, u, p)
    \/ \E p \in Providers, a \in Addresses :
         \/ OAuthVouches(s, p, a)
         \/ \E vouched \in BOOLEAN : OAuthNew(s, p, a, vouched)

Writes(s) ==
    \/ RegisterInsert(s) \/ GuessCounted(s) \/ LoginSucceeds(s) \/ Mark(s)
    \/ ResendWrite(s) \/ ForgotWrite(s) \/ ResetWrite(s)
    \/ InitiateWrite(s) \/ ConfirmWrite(s) \/ Drop(s)
    \/ UpdateSave(s) \/ DeleteWrite(s)
    \/ OAuthInsert(s) \/ LinkInsert(s) \/ UnlinkDelete(s)

Next ==
    \/ \E s \in Slots : Arrives(s) \/ Writes(s)
    \/ \E u \in Users : LockExpires(u)

Spec == Init /\ [][Next]_vars

-----------------------------------------------------------------------------
(* A verified address is one the account's holder has proved: by a mail    *)
(* sent to it, or by a provider that vouches for it.  Excepted are the     *)
(* accounts whose row changed between a request's read and the write that  *)
(* relied on it.                                                           *)
VerifiedIsProved ==
    \A u \in Users \ raced :
        Exists(u) /\ row[u].verified => <<u, row[u].email>> \in proved

(* Nobody is locked out of an account: it has a password or an identity,   *)
(* whatever unlinks, resets and deletions overlap, unless a stale          *)
(* whole-row save put an older password back.                              *)
LoginRemains ==
    \A u \in Users \ raced :
        Exists(u) => row[u].password \/ \E p \in Providers : link[p] = u

(* Every wrong password answered counts towards the lock, however many are *)
(* answered at once.                                                       *)
GuessesCounted ==
    \A u \in Users \ raced : Exists(u) => row[u].fails >= wrong[u]

(* A soft-deleted account holds no pending change of address that a        *)
(* restore would bring back to life, unless a request had read the account *)
(* before its deletion.                                                    *)
DeletedHoldsNoClaim ==
    \A u \in Users \ raced : Exists(u) /\ row[u].deleted => row[u].pending = None

(* However registrations, mails, confirmations, edits and deletions        *)
(* overlap, a verified address has been proved and a deleted account       *)
(* claims none (auth.service.ts, users.service.ts).                        *)
AddressesAreSound == VerifiedIsProved /\ DeletedHoldsNoClaim

=============================================================================
