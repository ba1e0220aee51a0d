----------------------------- MODULE ProfileForm -----------------------------
(***************************************************************************)
(* The page on which a user edits his own account (ProfileComponent).  One *)
(* submit carries a new address, a new name and a new password in up to    *)
(* two calls, the request for the address first; the language is saved     *)
(* beside it, in a call of its own, and its answer brings the whole        *)
(* account.  An administrator may set another password meanwhile.          *)
(*                                                                         *)
(* A call whose answer is lost has been handled, or goes no further.  What *)
(* the request for an address does on the server is one step here (module  *)
(* Accounts takes it apart), its confirmation is not modelled; an update   *)
(* reads the row before it writes the whole row back.  The new password    *)
(* stands for itself and its confirmation.                                 *)
(***************************************************************************)
EXTENDS Integers, Sequences

CONSTANT MaxCalls       \* bound: submits, language changes and sign-ins elsewhere

VARIABLES
    account,        \* the row in the database
    page,           \* what the page shows and knows
    save,           \* #save, as it runs
    locale,         \* onLocaleChange, as it runs
    used            \* calls so far

profileVars == <<account, page, save, locale, used>>

(* "old" and "OLD" are one address.                                        *)
Addresses == {"old", "OLD", "new"}
canonicalEmail(address) == IF address = "OLD" THEN "old" ELSE address

FirstNames == {"ann", "bea"}
Passwords == {"first", "second", "third"}
NoPassword == "none"
Languages == {"en", "ru"}
Stored == [email : Addresses, name : FirstNames, language : Languages]
Shown(a) == [email |-> a.email, name |-> a.name, language |-> a.language]
NoUser == [email |-> "", name |-> "", language |-> "en"]
Model == [email : Addresses \cup {""}, name : FirstNames \cup {""},
          current : Passwords \cup {NoPassword}, password : {"second", NoPassword}]
ModelOf(user) ==
    [email |-> user.email, name |-> user.name, current |-> NoPassword,
     password |-> NoPassword]
INITIAL_PROFILE == ModelOf(NoUser)

(* signedIn: the session has not been revoked, a column of the row.  An    *)
(* account made by a provider has no password.                             *)
Account == [email : Addresses, name : FirstNames, language : Languages,
            password : Passwords \cup {NoPassword},
            pending : Addresses \cup {"none"}, signedIn : BOOLEAN]

Stages == {"idle", "confirm", "running", "refused"}

ProfileTypeOK ==
    /\ account \in Account
    /\ page \in [phase : {"loading", "ready", "failed", "out"},
                 user : Stored \cup {NoUser}, model : Model, dirty : BOOLEAN,
                 language : Languages]
    /\ save.stage \in Stages /\ save.values \in Model
    /\ save.before \in Passwords \cup {NoPassword} /\ save.reply \in SUBSET Stored
    /\ save.step \in {"sent", "verified", "read", "written"}
    /\ save.read \in SUBSET Account /\ locale.read \in SUBSET Account
    /\ locale.stage \in {"idle", "sent", "read", "done"}
    /\ locale.reply \in SUBSET Stored
    /\ used \in 0..MaxCalls

(* step, read: how far the update under way has come, and the row it read. *)
(* before: the password at the start, and crossed (ghosts): whether a      *)
(* write that is none of the save's calls has changed it since.            *)
Idle == [stage |-> "idle", values |-> INITIAL_PROFILE, calls |-> <<>>,
         step |-> "sent", read |-> {}, reply |-> {},
         before |-> NoPassword, crossed |-> FALSE]
Quiet == [stage |-> "idle", value |-> "en", previous |-> "en", read |-> {}, reply |-> {}]

ProfileInit ==
    /\ account \in {[email |-> e, name |-> "ann", language |-> "en",
                     password |-> p, pending |-> "none", signedIn |-> TRUE] :
                    e \in {"old", "OLD"}, p \in {"first", NoPassword}}
    /\ page = [phase |-> "loading", user |-> NoUser, model |-> INITIAL_PROFILE,
               dirty |-> FALSE, language |-> "en"]
    /\ save = Idle /\ locale = Quiet /\ used = 0

-----------------------------------------------------------------------------
(* The form.                                                               *)

emailChanged == canonicalEmail(page.model.email) # canonicalEmail(page.user.email)

requiresCurrentPassword == page.model.password # NoPassword \/ emailChanged
Valid == requiresCurrentPassword => page.model.current # NoPassword

(* #buildProfileUpdate: is there an update to send?                        *)
buildProfileUpdate(values, emailChanging) ==
    emailChanging =>
        \/ values.name # page.user.name
        \/ values.password # NoPassword

Ready == page.phase = "ready" /\ save.stage # "confirm"

loadProfile ==
    /\ page.phase = "loading"
    /\ \/ page' = [phase |-> "ready", user |-> Shown(account),
                   model |-> ModelOf(account), dirty |-> FALSE,
                   language |-> account.language]
       \/ page' = [page EXCEPT !.phase = "failed"]
    /\ UNCHANGED <<account, save, locale, used>>

(* The fields stay open while a save is under way.                         *)
Edit ==
    /\ Ready
    /\ \E model \in {[page.model EXCEPT !.email = email] : email \in Addresses}
                   \cup {[page.model EXCEPT !.name = name] : name \in FirstNames}
                   \cup {[page.model EXCEPT !.current = current] : current \in Passwords}
                   \cup {[page.model EXCEPT !.password = new] : new \in {"second", NoPassword}} :
          page' = [page EXCEPT !.model = model, !.dirty = TRUE]
    /\ UNCHANGED <<account, save, locale, used>>

(* The calls of a submit, in their order: they share the current password. *)
CallsOf(emailChanging, updating) ==
    (IF emailChanging THEN <<"initiate">> ELSE <<>>)
        \o (IF updating THEN <<"update">> ELSE <<>>)

(* #save: its calls are built from what the form and the page hold now.    *)
StartSave(emailChanging) ==
    save' = [Idle EXCEPT
        !.stage = "running", !.values = page.model,
        !.calls = CallsOf(emailChanging, buildProfileUpdate(page.model, emailChanging)),
        !.before = IF account.signedIn THEN account.password ELSE NoPassword]

onSubmit ==
    /\ Ready /\ save.stage = "idle" /\ page.dirty /\ Valid /\ used < MaxCalls
    /\ used' = used + 1
    /\ IF emailChanged THEN save' = [Idle EXCEPT !.stage = "confirm"]
       ELSE StartSave(FALSE)
    /\ UNCHANGED <<account, page, locale>>

Confirmed ==
    /\ page.phase = "ready" /\ save.stage = "confirm"
    /\ StartSave(TRUE)
    /\ UNCHANGED <<account, page, locale, used>>

Declined ==
    /\ page.phase = "ready" /\ save.stage = "confirm"
    /\ save' = Idle
    /\ UNCHANGED <<account, page, locale, used>>

-----------------------------------------------------------------------------
(* The calls of a save, one after the other (concat).                      *)

Calling(name) ==
    save.stage = "running" /\ save.calls # <<>> /\ Head(save.calls) = name /\ account.signedIn

Refuse == save' = [save EXCEPT !.stage = "refused"] /\ UNCHANGED account

(* initiateEmailChange.  Of an address that is taken the answer says       *)
(* nothing.                                                                *)
Initiate ==
    /\ Calling("initiate")
    /\ IF \/ save.values.current # account.password
          \/ canonicalEmail(save.values.email) = account.email
       THEN Refuse
       ELSE /\ save' = [save EXCEPT !.calls = Tail(@)]
            /\ \/ account' = [account EXCEPT !.pending = canonicalEmail(save.values.email)]
               \/ UNCHANGED account
    /\ UNCHANGED <<page, locale, used>>

(* updateProfile: verifyCurrentPassword, for a new password; an account    *)
(* without one has nothing to verify.                                      *)
changesPassword == save.values.password # NoPassword

Updating(step) == Calling("update") /\ save.step = step

VerifyCurrent ==
    /\ Updating("sent")
    /\ IF changesPassword /\ account.password \notin {NoPassword, save.values.current}
       THEN Refuse
       ELSE save' = [save EXCEPT !.step = "verified"] /\ UNCHANGED account
    /\ UNCHANGED <<page, locale, used>>

(* then UsersService.update, which reads the row and saves it whole;       *)
UpdateReads ==
    /\ Updating("verified")
    /\ save' = [save EXCEPT !.step = "read", !.read = {account}]
    /\ UNCHANGED <<account, page, locale, used>>

UpdateWrites ==
    /\ Updating("read")
    /\ \E read \in save.read :
          account' = [read EXCEPT !.name = save.values.name,
                         !.password = IF changesPassword THEN save.values.password ELSE @]
    /\ save' = [save EXCEPT !.step = "written", !.read = {}]
    /\ UNCHANGED <<page, locale, used>>

(* then, for a new password, the sessions end.                             *)
UpdateAnswers ==
    /\ Updating("written")
    /\ account' = [account EXCEPT !.signedIn = @ /\ ~changesPassword]
    /\ save' = [save EXCEPT !.calls = Tail(@), !.reply = {Shown(account)}]
    /\ UNCHANGED <<page, locale, used>>

(* #applySavedProfile: the address in the form is the stored one again.    *)
Complete ==
    /\ page.phase = "ready" /\ save.stage = "running" /\ save.calls = <<>>
    /\ \E user \in IF save.reply # {} THEN save.reply ELSE {page.user} :
          page' = [page EXCEPT !.user = user, !.model = ModelOf(user), !.dirty = FALSE]
    /\ save' = Idle
    /\ UNCHANGED <<account, locale, used>>

(* A refusal, or an answer lost before or after the call was handled.      *)
SaveFails ==
    /\ page.phase = "ready" /\ save.stage \notin {"idle", "confirm"}
    /\ save' = Idle
    /\ UNCHANGED <<account, page, locale, used>>

-----------------------------------------------------------------------------
(* The language.                                                           *)

onLocaleChange ==
    /\ Ready /\ locale.stage = "idle" /\ used < MaxCalls
    /\ used' = used + 1
    /\ \E value \in {"en", "ru"} \ {page.language} :
          /\ locale' = [Quiet EXCEPT !.stage = "sent", !.value = value,
                                     !.previous = page.language]
          /\ page' = [page EXCEPT !.language = value]
    /\ UNCHANGED <<account, save>>

LocaleReads ==
    /\ locale.stage = "sent" /\ account.signedIn
    /\ locale' = [locale EXCEPT !.stage = "read", !.read = {account}]
    /\ UNCHANGED <<account, page, save, used>>

(* The whole row again: a password changed in between is undone.           *)
LocaleWrites ==
    /\ locale.stage = "read"
    /\ \E read \in locale.read : account' = [read EXCEPT !.language = locale.value]
    /\ save' = [save EXCEPT !.crossed = @ \/ account'.password # account.password
                                          \/ account'.signedIn # account.signedIn]
    /\ locale' = [locale EXCEPT !.stage = "done", !.read = {}, !.reply = {Shown(account')}]
    /\ UNCHANGED <<page, used>>

LocaleSaved ==
    /\ page.phase = "ready" /\ locale.stage = "done"
    /\ \E user \in locale.reply : page' = [page EXCEPT !.user = user]
    /\ locale' = Quiet
    /\ UNCHANGED <<account, save, used>>

LocaleFails ==
    /\ page.phase = "ready" /\ locale.stage # "idle"
    /\ page' = [page EXCEPT !.language = locale.previous]
    /\ locale' = Quiet
    /\ UNCHANGED <<account, save, used>>

-----------------------------------------------------------------------------

(* Any call of an ended session, of this page or around it, is a 401: the  *)
(* page is left for the login.                                             *)
ForcedOut ==
    /\ page.phase \in {"loading", "ready"} /\ ~account.signedIn
    /\ page' = [page EXCEPT !.phase = "out"]
    /\ save' = Idle /\ locale' = Quiet
    /\ UNCHANGED <<account, used>>

(* An administrator sets a password; the sessions stay (users.service      *)
(* revokes them for a deactivation only).                                  *)
OtherPassword ==
    /\ used < MaxCalls
    /\ used' = used + 1
    /\ account' = [account EXCEPT !.password = "third"]
    /\ save' = [save EXCEPT !.crossed = TRUE]
    /\ UNCHANGED <<page, locale>>

ProfileNext ==
    \/ loadProfile \/ Edit \/ onSubmit \/ Confirmed \/ Declined
    \/ Initiate \/ VerifyCurrent \/ UpdateReads \/ UpdateWrites \/ UpdateAnswers
    \/ Complete \/ SaveFails
    \/ onLocaleChange \/ LocaleReads \/ LocaleWrites \/ LocaleSaved \/ LocaleFails
    \/ ForcedOut \/ OtherPassword

ProfileSpec == ProfileInit /\ [][ProfileNext]_profileVars

-----------------------------------------------------------------------------

(* The two calls of a submit share the current password, and the update    *)
(* replaces it and ends the session: what a submit may do when it starts,  *)
(* none of its calls takes away from a later one.                          *)
CallsSpoilNoOther ==
    /\ save.stage \in {"running", "refused"} /\ save.calls # <<>> /\ save.step = "sent"
    /\ save.before = save.values.current /\ save.before # NoPassword /\ ~save.crossed
    => account.signedIn /\ account.password = save.values.current

=============================================================================
