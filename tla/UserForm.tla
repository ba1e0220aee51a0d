------------------------------ MODULE UserForm ------------------------------
(***************************************************************************)
(* The page on which an administrator edits an account                     *)
(* (UserEditComponent): one save sends the row and each changed role in    *)
(* calls of their own, all at once, and waits for all of them.  The server *)
(* reads the row, with its roles, before it writes the row, with its       *)
(* roles, back (UsersService.update), and other administrators work on the *)
(* same account.                                                           *)
(*                                                                         *)
(* The names and the password go the way of `active'.  The administrator   *)
(* may do all the page offers (canManageUser, canAssignRoles, canDelete),  *)
(* and the account is not his own.                                         *)
(***************************************************************************)
EXTENDS Integers, Sequences, SequencesExt

CONSTANTS
    Roles,          \* the roles of the catalogue
    Held,           \* those the account has at first
    MaxSaves,       \* bound: saves, unlocks and deletions asked for here
    MaxOthers       \* bound: changes made elsewhere

VARIABLES
    row,            \* the account, with its roles, in the database
    form,           \* the page
    sent,           \* the calls of this page still waited for or on their way
    updated,        \* has this page had the row itself written?
    theirs,         \* the roles as the others alone would have left them
    used            \* what is used up of the two bounds

userVars == <<row, form, sent, updated, theirs, used>>

Emails == {"old", "new"}
Account == [email : Emails, active : BOOLEAN, locked : BOOLEAN,
            gone : BOOLEAN, roles : SUBSET Roles]
Fields == [email : Emails, active : BOOLEAN, roles : SUBSET Roles]

FieldsOf(user) ==
    [email |-> user.email, active |-> user.active, roles |-> user.roles]

Phases == {"loading", "ready", "failed", "saved", "deleted"}
Dialogs == {"none", "email", "delete"}
Kinds == {"update", "assign", "remove", "unlock", "delete"}

UserTypeOK ==
    /\ row \in Account
    /\ form \in [phase : Phases, saving : BOOLEAN, dialog : Dialogs, locked : BOOLEAN,
                 now : Fields, initial : Fields, toggled : SUBSET Roles]
    /\ \A i \in DOMAIN sent :
          /\ sent[i].kind \in Kinds
          /\ sent[i].stage \in {"sent", "read", "done", "refused"}
    /\ theirs \in SUBSET Roles
    /\ used \in [saves : 0..MaxSaves, others : 0..MaxOthers]

UserInit ==
    /\ row = [email |-> "old", active |-> TRUE, locked |-> TRUE, gone |-> FALSE,
              roles |-> Held]
    /\ form = [phase |-> "loading", saving |-> FALSE, dialog |-> "none", locked |-> FALSE,
               now |-> FieldsOf(row), initial |-> FieldsOf(row), toggled |-> {}]
    /\ sent = <<>> /\ updated = FALSE
    /\ theirs = Held
    /\ used = [saves |-> 0, others |-> 0]

formChanged == form.now.email # form.initial.email
isActiveChanged == form.now.active # form.initial.active
rolesChanged == form.now.roles # form.initial.roles
canSubmit == ~form.saving /\ (formChanged \/ isActiveChanged \/ rolesChanged)

toAdd == form.now.roles \ form.initial.roles

(* A bug: every role that is not selected is taken away.                   *)
removeUnselected == Roles \ form.now.roles

toRemove == form.initial.roles \ form.now.roles

-----------------------------------------------------------------------------
(* The calls.  A call is heard while the page still waits for its answer.  *)

Call(kind, role) ==
    [kind |-> kind, role |-> role, stage |-> "sent", heard |-> TRUE, read |-> {},
     body |-> IF kind = "update" THEN {form.now} ELSE {}]

CallsFor(kind, roles) ==
    LET each == SetToSeq(roles) IN [i \in DOMAIN each |-> Call(kind, each[i])]

Spend(what) == used' = [used EXCEPT ![what] = @ + 1]

Heard == {i \in DOMAIN sent : sent[i].heard}
Of(kinds) == {i \in Heard : sent[i].kind \in kinds}
SaveCalls == {"update", "assign", "remove"}
Pending(calls) == SelectSeq(calls, LAMBDA c : c.heard \/ c.stage \in {"sent", "read"})
Quiet(ids) ==
    Pending([i \in DOMAIN sent |-> [sent[i] EXCEPT !.heard = @ /\ i \notin ids]])

performSave ==
    /\ form' = [form EXCEPT !.saving = TRUE, !.dialog = "none",
                            !.toggled = @ \cup (form.now.roles \ form.initial.roles)
                                          \cup (form.initial.roles \ form.now.roles)]
    /\ sent' = sent
         \o (IF formChanged \/ isActiveChanged THEN <<Call("update", "none")>> ELSE <<>>)
         \o CallsFor("assign", toAdd) \o CallsFor("remove", toRemove)
    /\ Spend("saves")
    /\ UNCHANGED <<updated, row, theirs>>

-----------------------------------------------------------------------------
(* The page.                                                               *)

loadUser ==
    /\ form.phase = "loading"
    /\ IF row.gone
       THEN form' = [form EXCEPT !.phase = "failed"]
       ELSE form' = [form EXCEPT !.phase = "ready", !.now = FieldsOf(row),
                                 !.initial = FieldsOf(row), !.locked = row.locked]
    /\ UNCHANGED <<updated, row, sent, theirs, used>>

(* Only the roles and the buttons are disabled while a save is under way.  *)
Edit ==
    /\ form.phase = "ready" /\ form.dialog = "none"
    /\ \E email \in Emails, active \in BOOLEAN :
          form' = [form EXCEPT !.now = [email |-> email, active |-> active,
                                        roles |-> @.roles]]
    /\ UNCHANGED <<updated, row, sent, theirs, used>>

onRolesChange ==
    /\ form.phase = "ready" /\ form.dialog = "none" /\ ~form.saving
    /\ \E roles \in SUBSET Roles : form' = [form EXCEPT !.now.roles = roles]
    /\ UNCHANGED <<updated, row, sent, theirs, used>>

onSubmit ==
    /\ form.phase = "ready" /\ form.dialog = "none" /\ canSubmit
    /\ used.saves < MaxSaves
    /\ IF form.now.email = form.initial.email
       THEN performSave
       ELSE /\ form' = [form EXCEPT !.dialog = "email"]
            /\ UNCHANGED <<updated, row, sent, theirs, used>>

Confirmed ==
    /\ form.dialog = "email" /\ used.saves < MaxSaves
    /\ performSave

Declined ==
    /\ form.dialog # "none"
    /\ form' = [form EXCEPT !.dialog = "none"]
    /\ UNCHANGED <<updated, row, sent, theirs, used>>

unlockAccount ==
    /\ form.phase = "ready" /\ form.dialog = "none" /\ form.locked /\ ~form.saving
    /\ used.saves < MaxSaves
    /\ form' = [form EXCEPT !.saving = TRUE]
    /\ sent' = Append(sent, Call("unlock", "none"))
    /\ Spend("saves")
    /\ UNCHANGED <<updated, row, theirs>>

confirmDelete ==
    /\ form.phase = "ready" /\ form.dialog = "none"
    /\ form' = [form EXCEPT !.dialog = "delete"]
    /\ UNCHANGED <<updated, row, sent, theirs, used>>

(* The deletion does not raise `saving': the page may save beside it.      *)
deleteUser ==
    /\ form.dialog = "delete" /\ used.saves < MaxSaves
    /\ form' = [form EXCEPT !.dialog = "none"]
    /\ sent' = Append(sent, Call("delete", "none"))
    /\ Spend("saves")
    /\ UNCHANGED <<updated, row, theirs>>

(* forkJoin: every call has answered.                                      *)
SaveDone ==
    /\ form.phase = "ready" /\ form.saving /\ Of(SaveCalls) # {}
    /\ \A i \in Of(SaveCalls) : sent[i].stage = "done"
    /\ form' = [form EXCEPT !.saving = FALSE, !.phase = "saved", !.initial = form.now]
    /\ sent' = Quiet(Heard)
    /\ UNCHANGED <<updated, row, theirs, used>>

(* One call was refused, or its answer lost: the page hears no other, and  *)
(* those on their way are still handled.                                   *)
handleUpdateError ==
    /\ form.phase = "ready" /\ form.saving /\ Of(SaveCalls) # {}
    /\ form' = [form EXCEPT !.saving = FALSE]
    /\ sent' = Quiet(Of(SaveCalls))
    /\ UNCHANGED <<updated, row, theirs, used>>

Unlocked ==
    \E i \in Of({"unlock"}) :
        /\ form.phase = "ready"
        /\ form' = [form EXCEPT !.saving = FALSE,
                                !.locked = IF sent[i].stage = "done" THEN FALSE ELSE @]
        /\ sent' = Quiet({i})
        /\ UNCHANGED <<updated, row, theirs, used>>

Deleted ==
    \E i \in Of({"delete"}) :
        /\ form.phase = "ready"
        /\ form' = [form EXCEPT !.phase = IF sent[i].stage = "done" THEN "deleted" ELSE @]
        /\ sent' = IF sent[i].stage = "done" THEN Quiet(Heard) ELSE Quiet({i})
        /\ UNCHANGED <<updated, row, theirs, used>>

-----------------------------------------------------------------------------
(* The server.                                                             *)

Handled(i, stage) == sent' = Pending([sent EXCEPT ![i].stage = stage, ![i].read = {}])

(* UsersService.update, until it has found the row.                        *)
UpdateReads(i) ==
    /\ sent[i].kind \in {"update", "unlock"} /\ sent[i].stage = "sent"
    /\ IF row.gone THEN Handled(i, "refused")
       ELSE sent' = [sent EXCEPT ![i].stage = "read", ![i].read = {row}]
    /\ UNCHANGED <<updated, row, form, theirs, used>>

(* and its save: the columns and the roles that differ from the database   *)
(* are written, those nobody changed here as they were read.               *)
UpdateWrites(i) ==
    /\ sent[i].stage = "read"
    /\ \E read \in sent[i].read :
          row' = IF sent[i].kind = "unlock" THEN [read EXCEPT !.locked = FALSE]
                 ELSE LET body == CHOOSE b \in sent[i].body : TRUE
                      IN  [read EXCEPT !.email = body.email, !.active = body.active]
    /\ updated' = TRUE
    /\ Handled(i, "done")
    /\ UNCHANGED <<form, theirs, used>>

(* The address is somebody else's.                                         *)
UpdateConflicts(i) ==
    /\ sent[i].kind = "update" /\ sent[i].stage = "read"
    /\ \E read \in sent[i].read, body \in sent[i].body : body.email # read.email
    /\ Handled(i, "refused")
    /\ UNCHANGED <<updated, row, form, theirs, used>>

(* A role held already is refused by the key of user_roles.                *)
assignRoleToUser(i) ==
    /\ sent[i].kind = "assign" /\ sent[i].stage = "sent"
    /\ IF row.gone \/ sent[i].role \in row.roles
       THEN Handled(i, "refused") /\ UNCHANGED row
       ELSE Handled(i, "done") /\ row' = [row EXCEPT !.roles = @ \cup {sent[i].role}]
    /\ UNCHANGED <<updated, form, theirs, used>>

removeRoleFromUser(i) ==
    /\ sent[i].kind = "remove" /\ sent[i].stage = "sent"
    /\ IF row.gone
       THEN Handled(i, "refused") /\ UNCHANGED row
       ELSE Handled(i, "done") /\ row' = [row EXCEPT !.roles = @ \ {sent[i].role}]
    /\ UNCHANGED <<updated, form, theirs, used>>

remove(i) ==
    /\ sent[i].kind = "delete" /\ sent[i].stage = "sent"
    /\ IF row.gone THEN Handled(i, "refused") /\ UNCHANGED row
       ELSE Handled(i, "done") /\ row' = [row EXCEPT !.gone = TRUE]
    /\ UNCHANGED <<updated, form, theirs, used>>

(* Another administrator gives or takes a role, deactivates or deletes.    *)
OtherAdmin ==
    /\ used.others < MaxOthers
    /\ \E changed \in {[row EXCEPT !.active = FALSE], [row EXCEPT !.gone = TRUE]}
                        \cup {[row EXCEPT !.roles = (@ \ {r}) \cup ({r} \ @)] : r \in Roles} :
          /\ row' = changed
          /\ theirs' = (theirs \ (row.roles \ changed.roles)) \cup (changed.roles \ row.roles)
    /\ Spend("others")
    /\ UNCHANGED <<updated, form, sent>>

UserNext ==
    \/ loadUser \/ Edit \/ onRolesChange \/ onSubmit \/ Confirmed \/ Declined
    \/ unlockAccount \/ confirmDelete \/ deleteUser
    \/ SaveDone \/ handleUpdateError \/ Unlocked \/ Deleted
    \/ \E i \in DOMAIN sent : \/ UpdateReads(i) \/ UpdateWrites(i) \/ UpdateConflicts(i)
                              \/ assignRoleToUser(i) \/ removeRoleFromUser(i) \/ remove(i)
    \/ OtherAdmin

UserSpec == UserInit /\ [][UserNext]_userVars

-----------------------------------------------------------------------------

(* A role nobody toggled on this page is held exactly when the others want *)
(* it, however often a save failed and was repeated: the page sends the    *)
(* roles that changed, not the selection.  An update is excepted: it       *)
(* writes back the roles it read, and that alone may lose an assignment.   *)
OthersRolesSurvive ==
    ~updated => row.roles \ form.toggled = theirs \ form.toggled

=============================================================================
