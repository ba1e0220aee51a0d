----------------------------- MODULE FlagEditor -----------------------------
(***************************************************************************)
(* Administrators at work on one feature flag: the list page, the dialog   *)
(* that edits the flag, and its save in two calls, first the flag under    *)
(* its version, then the rules without one.                                *)
(*                                                                         *)
(* Everything a save writes but `enabled' and the rules is one value,      *)
(* text: the administrator who wrote it.  Of the rules it matters whether  *)
(* one includes users (a flag without such a rule is on for everyone) and  *)
(* whether the server accepts them.                                        *)
(***************************************************************************)
EXTENDS Integers

CONSTANTS
    Admins,         \* administrators, one page each
    MaxCalls        \* bound: saves, toggles, deletions and lost answers

VARIABLES
    flag,           \* the row, and its rules, in the database
    page,           \* per admin: FeatureFlagListComponent and its dialog
    save,           \* per admin: #applyDialogResult, as it runs
    op,             \* per admin: a toggle or a deletion, as it runs
    calls           \* calls so far

editVars == <<flag, page, save, op, calls>>

Rules == {"none", "beta", "broken"}
Broken == {"broken"}
HasIncludeRules(rules) == rules # "none"

Texts == Admins \cup {"seed"}
Versions == -1..(MaxCalls * 2 + 1)
NoFlag == [version |-> 0, enabled |-> FALSE, text |-> "seed", rules |-> "none"]
(* Once deleted, the flag of this model stays so: another of its key has    *)
(* another id.                                                             *)
Deleted == [NoFlag EXCEPT !.version = -1]
Flag == [version : Versions, enabled : BOOLEAN, text : Texts, rules : Rules]
Body == [enabled : BOOLEAN, text : Texts, rules : Rules]
BodyOf(f) == [enabled |-> f.enabled, text |-> f.text, rules |-> f.rules]

(* asked: the rules this page last put, until somebody else changes them.  *)
FreshPage == [row |-> NoFlag, dialog |-> "closed", existing |-> NoFlag,
              marked |-> FALSE, asked |-> "any"]
IdleSave == [pc |-> "idle", existing |-> NoFlag, new |-> BodyOf(NoFlag),
             changed |-> FALSE, confirmed |-> FALSE, left |-> FALSE]
IdleOp == [pc |-> "idle", confirmed |-> FALSE]

EditTypeOK ==
    /\ flag \in Flag
    /\ page \in [Admins -> [row : Flag, dialog : {"closed", "create", "edit"},
                            existing : Flag, marked : BOOLEAN, asked : Rules \cup {"any"}]]
    /\ save \in [Admins ->
          [pc : {"idle", "create", "update", "reply", "failed", "rules", "rulesReply",
                 "rulesFailed"},
           existing : Flag, new : Body, changed : BOOLEAN, confirmed : BOOLEAN,
           left : BOOLEAN]]
    /\ op \in [Admins -> [pc : {"idle", "toggle", "delete", "reply", "gone", "failed"},
                          confirmed : BOOLEAN]]
    /\ calls \in 0..MaxCalls

EditInit ==
    /\ flag \in {NoFlag} \cup [version : {1}, enabled : BOOLEAN, text : {"seed"},
                               rules : {"none", "beta"}]
    /\ page = [a \in Admins |-> FreshPage]
    /\ save = [a \in Admins |-> IdleSave]
    /\ op = [a \in Admins |-> IdleOp]
    /\ calls = 0

Called == calls < MaxCalls /\ calls' = calls + 1

----------------------------------------------------------------------------
(* FeatureFlagService: what a call answers and the row it leaves.          *)

Ok(f) == [ok |-> TRUE, flag |-> f]
Refused == [ok |-> FALSE, flag |-> flag]

(* A key is taken once: the flag of this model is created when no flag is  *)
(* there.  The new row has no rules whatever the dialog holds.             *)
Create(body) ==
    IF flag.version # 0 THEN Refused
    ELSE Ok([version |-> 1, enabled |-> body.enabled, text |-> body.text, rules |-> "none"])

\* Mutant: the version of If-Match is not part of the WHERE.
UpdateUnconditionally(body, expected) ==
    IF flag.version < 1 THEN Refused
    ELSE Ok([flag EXCEPT !.enabled = body.enabled, !.text = body.text, !.version = @ + 1])
Update(body, expected) ==
    IF flag.version < 1 \/ flag.version # expected THEN Refused
    ELSE Ok([flag EXCEPT !.enabled = body.enabled, !.text = body.text, !.version = @ + 1])

Toggle ==
    IF flag.version < 1 THEN Refused
    ELSE Ok([flag EXCEPT !.enabled = ~@, !.version = @ + 1])

ReplaceStoredRules(rules) ==
    IF flag.version < 1 \/ rules \in Broken THEN Refused
    ELSE Ok([flag EXCEPT !.rules = rules, !.version = @ + 1])

Delete == IF flag.version < 1 THEN Refused ELSE Ok(Deleted)

----------------------------------------------------------------------------
(* The same handlers in the mock server. *)

MockCreate(body) ==
    IF flag.version # 0 THEN Refused
    ELSE Ok([version |-> 1, enabled |-> body.enabled, text |-> body.text, rules |-> "none"])

MockPatch(body, ifMatch) ==
    IF flag.version < 1 THEN Refused
    ELSE IF flag.version # ifMatch THEN Refused
    ELSE Ok([flag EXCEPT !.enabled = body.enabled, !.text = body.text, !.version = @ + 1])

MockRules(rules) ==
    IF flag.version < 1 \/ rules \in Broken THEN Refused
    ELSE Ok([flag EXCEPT !.rules = rules, !.version = @ + 1])

MockToggle ==
    IF flag.version < 1 THEN Refused
    ELSE Ok([flag EXCEPT !.enabled = ~@, !.version = @ + 1])

MockDelete == IF flag.version < 1 THEN Refused ELSE Ok(Deleted)

----------------------------------------------------------------------------
(* The page and its dialog. *)

Found == flag.version > 0

(* The first page of the list, read as the page opens. *)
Load(a) ==
    /\ page[a].row = NoFlag /\ Found
    /\ page' = [page EXCEPT ![a].row = flag]
    /\ UNCHANGED <<flag, save, op, calls>>

(* From the fab, or from the row: the dialog keeps the row it was given.   *)
OpenDialog(a) ==
    /\ page[a].dialog = "closed" /\ save[a].pc = "idle"
    /\ \/ page' = [page EXCEPT ![a].dialog = "create", ![a].existing = NoFlag]
       \/ /\ page[a].row.version > 0
          /\ page' = [page EXCEPT ![a].dialog = "edit", ![a].existing = page[a].row]
    /\ UNCHANGED <<flag, save, op, calls>>

(* #rulesChanged. *)
RulesChanged(existing, rules) == rules # existing.rules

(* Submit, with whatever the edits have made of the dialog.  The warning   *)
(* has to be confirmed when the dialog would turn the flag on for          *)
(* everyone; declined, the dialog stays as it is.                          *)
Submit(a) ==
    /\ page[a].dialog # "closed" /\ save[a].pc = "idle"
    /\ Called
    /\ \E enabled \in BOOLEAN, rules \in Rules :
          save' = [save EXCEPT ![a] =
             [IdleSave EXCEPT
                !.pc = IF page[a].dialog = "create" THEN "create" ELSE "update",
                !.existing = page[a].existing,
                !.new = [enabled |-> enabled, text |-> a, rules |-> rules],
                !.changed = RulesChanged(page[a].existing, rules),
                !.confirmed = enabled /\ ~HasIncludeRules(rules)]]
    /\ page' = [page EXCEPT ![a].dialog = "closed", ![a].existing = NoFlag]
    /\ UNCHANGED <<flag, op>>

Cancel(a) ==
    /\ page[a].dialog # "closed"
    /\ page' = [page EXCEPT ![a].dialog = "closed", ![a].existing = NoFlag]
    /\ UNCHANGED <<flag, save, op, calls>>

(* toggleFlag: the row decides whether a warning has to be confirmed; the  *)
(* request only says "flip".                                               *)
AskToggle(a) ==
    /\ page[a].row.version > 0 /\ op[a].pc = "idle"
    /\ Called
    /\ op' = [op EXCEPT ![a] =
          [IdleOp EXCEPT !.pc = "toggle",
             !.confirmed = ~page[a].row.enabled /\ ~HasIncludeRules(page[a].row.rules)]]
    /\ UNCHANGED <<flag, page, save>>

(* confirmDelete, always confirmed. *)
AskDelete(a) ==
    /\ page[a].row.version > 0 /\ op[a].pc = "idle"
    /\ Called
    /\ op' = [op EXCEPT ![a] = [IdleOp EXCEPT !.pc = "delete"]]
    /\ UNCHANGED <<flag, page, save>>

(* The page is left: its subscriptions end, a request already sent may     *)
(* still be served.  The markers are the page's, and so are lost with it.  *)
Leave(a) ==
    /\ Called
    /\ page' = [page EXCEPT ![a] = FreshPage]
    /\ save' = [save EXCEPT ![a] =
          IF @.pc \in {"create", "update", "rules"} THEN [@ EXCEPT !.left = TRUE]
          ELSE IdleSave]
    /\ op' = [op EXCEPT ![a] = IF @.pc \in {"toggle", "delete"} THEN @ ELSE IdleOp]
    /\ UNCHANGED flag

----------------------------------------------------------------------------
(* The server at work on the calls of admin a. *)

(* Everybody else's expectation of the rules ends with a change of them.   *)
Expecting(a) ==
    [b \in Admins |-> IF b = a THEN page[b] ELSE [page[b] EXCEPT !.asked = "any"]]

Handled(a, call, answer, next, failed) ==
    /\ save[a].pc = call
    /\ flag' = answer.flag
    /\ save' = [save EXCEPT ![a] =
          IF @.left THEN IdleSave ELSE [@ EXCEPT !.pc = IF answer.ok THEN next ELSE failed]]
    /\ UNCHANGED <<op, calls>>

ServeCreate(a) ==
    /\ Handled(a, "create", Create(save[a].new), "reply", "failed")
    /\ UNCHANGED page

ServeUpdate(a) ==
    /\ Handled(a, "update", Update(save[a].new, save[a].existing.version), "reply", "failed")
    /\ UNCHANGED page

ServeRules(a) ==
    /\ Handled(a, "rules", ReplaceStoredRules(save[a].new.rules), "rulesReply", "rulesFailed")
    /\ page' = IF flag' = flag THEN page ELSE Expecting(a)

ServeOp(a) ==
    LET answer == IF op[a].pc = "toggle" THEN Toggle ELSE Delete IN
    /\ op[a].pc \in {"toggle", "delete"}
    /\ flag' = answer.flag
    /\ op' = [op EXCEPT ![a].pc =
          IF ~answer.ok THEN "failed" ELSE IF @ = "toggle" THEN "reply" ELSE "gone"]
    /\ page' = IF op[a].pc = "delete"
                 THEN [b \in Admins |-> [page[b] EXCEPT !.asked = "any"]] ELSE page
    /\ UNCHANGED <<save, calls>>

----------------------------------------------------------------------------
(* The answers, at the page: they carry the row read back after the        *)
(* commit (findOne), which fails when the flag is gone by then.            *)


(* An answer is lost: the page sees an error, whatever the server did.     *)
LoseAnswer(a) ==
    /\ Called
    /\ \/ /\ save[a].pc \in {"reply", "rulesReply"}
          /\ save' = [save EXCEPT ![a].pc = IF @ = "reply" THEN "failed" ELSE "rulesFailed"]
          /\ UNCHANGED op
       \/ /\ op[a].pc \in {"reply", "gone"}
          /\ op' = [op EXCEPT ![a].pc = "failed"]
          /\ UNCHANGED save
    /\ UNCHANGED <<flag, page>>

(* A new flag without rules and an edit that left them alone are saved.    *)
NeedsRules(s) == IF s.existing.version = 0 THEN s.new.rules # "none" ELSE s.changed

(* The flag is saved: its rules are put next, without a version.           *)
FlagSaved(a) ==
    /\ save[a].pc = "reply" /\ Found
    /\ save' = [save EXCEPT ![a] = IF NeedsRules(@) THEN [@ EXCEPT !.pc = "rules"] ELSE IdleSave]
    /\ page' = [page EXCEPT ![a].row = flag,
                            ![a].asked = IF save[a].changed THEN save[a].new.rules ELSE @]
    /\ UNCHANGED <<flag, op, calls>>

(* Nothing more is tried: the dialog is closed and its edits are gone.     *)
FlagNotSaved(a) ==
    /\ save[a].pc = "failed" \/ (save[a].pc = "reply" /\ ~Found)
    /\ save' = [save EXCEPT ![a] = IdleSave]
    /\ UNCHANGED <<flag, page, op, calls>>

(* Success is told now, for both calls, and the marker is cleared.         *)
RulesSaved(a) ==
    /\ save[a].pc = "rulesReply" /\ Found
    /\ page' = [page EXCEPT ![a].row = flag, ![a].marked = FALSE]
    /\ save' = [save EXCEPT ![a] = IdleSave]
    /\ UNCHANGED <<flag, op, calls>>

(* #markRulesFailed. *)
Marked(p) == [p EXCEPT !.marked = TRUE]

RulesNotSaved(a) ==
    /\ save[a].pc = "rulesFailed" \/ (save[a].pc = "rulesReply" /\ ~Found)
    /\ page' = [page EXCEPT ![a] = Marked(@)]
    /\ save' = [save EXCEPT ![a] = IdleSave]
    /\ UNCHANGED <<flag, op, calls>>

OpDone(a) ==
    /\ op[a].pc \in {"reply", "gone", "failed"}
    /\ page' = CASE op[a].pc = "reply" /\ Found -> [page EXCEPT ![a].row = flag]
                 [] op[a].pc = "gone" -> [page EXCEPT ![a].row = NoFlag]
                 [] OTHER -> page
    /\ op' = [op EXCEPT ![a] = IdleOp]
    /\ UNCHANGED <<flag, save, calls>>

EditNext ==
    \E a \in Admins :
       \/ Load(a) \/ OpenDialog(a) \/ Submit(a) \/ Cancel(a)
       \/ AskToggle(a) \/ AskDelete(a) \/ Leave(a)
       \/ ServeCreate(a) \/ ServeUpdate(a) \/ ServeRules(a)
       \/ ServeOp(a) \/ LoseAnswer(a)
       \/ FlagSaved(a) \/ FlagNotSaved(a) \/ RulesSaved(a) \/ RulesNotSaved(a) \/ OpDone(a)

EditSpec == EditInit /\ [][EditNext]_editVars

----------------------------------------------------------------------------
(* A save takes two calls and only the first carries a version, so that    *)
(* the dialog can overwrite what its administrator never saw.              *)

(* The flag a save overwrites is the one its dialog showed, and a save     *)
(* that left the rules alone leaves the rules it showed.                   *)
(* [feature-flag.service.ts:195 version = :expected]                       *)
OverwritesWhatWasShown ==
  [][\A a \in Admins :
        LET s == save[a] IN
        (s.pc = "update" /\ save'[a].pc = "reply") =>
            /\ BodyOf(flag) = BodyOf(s.existing)
            /\ s.changed \/ flag'.rules = s.new.rules]_editVars

(* While a page shows no marker and saves nothing, the rules it last put   *)
(* are the stored ones: a failed second call does not pass unnoticed.      *)
(* [feature-flag-list.component.ts:303-306 the marker]                     *)
UnmarkedIsStored ==
  \A a \in Admins :
     (save[a].pc = "idle" /\ ~page[a].marked /\ page[a].asked # "any")
        => flag.rules = page[a].asked

(* The mock server answers a call, and changes the flag, as the server     *)
(* does. [feature-flags.middleware.ts of the mock]                         *)
MockFlagsAgree ==
    /\ \A body \in {[enabled |-> e, text |-> "seed", rules |-> "none"] : e \in BOOLEAN},
          v \in {1, 2, 3} :
          MockCreate(body) = Create(body) /\ MockPatch(body, v) = Update(body, v)
    /\ \A rules \in Rules : MockRules(rules) = ReplaceStoredRules(rules)
    /\ MockToggle = Toggle /\ MockDelete = Delete

(* The first two; `update' of FeatureFlagService and #applyDialogResult of *)
(* the list page are what could break either.                              *)
EditsAreSound == OverwritesWhatWasShown /\ []UnmarkedIsStored
=============================================================================
