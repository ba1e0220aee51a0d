---------------------------- MODULE GrantEditor ----------------------------
(* The dialog in which an administrator edits a role's permissions and their  *)
(* conditions, and the server that replaces the whole set on save.             *)
(*                                                                             *)
(* A condition has up to four branches; each has an editor of its own.  What   *)
(* matters of a text is whether it parses and has the branch's shape.  Another *)
(* administrator may change the role while the dialog is open.                 *)
EXTENDS Naturals, FiniteSets

CONSTANTS
  Listed,        \* permissions the dialog's matrix shows, one resource's group
  Hidden,        \* permissions the role may hold that the matrix leaves out
  MaxEdits       \* bound on the edits of one dialog

ASSUME GrantEditorAssumption == Listed \cap Hidden = {}

Perms       == Listed \cup Hidden
JsonEditors == {"fieldMatch", "userAttr"}
ConditionParts    == JsonEditors \cup {"ownership", "custom"}

\* Texts an editor can hold, and those that are a branch of the right shape.
Texts  == {"", "seed", "typed", "noJson", "wrongShape"}
Shaped == {"seed", "typed"}
Absent == "absent"

Unrestricted == [b \in ConditionParts \cup {"effect"} |-> Absent]   \* null
NoTexts      == [e \in JsonEditors |-> [p \in Perms |-> Absent]]

VARIABLES
  stored,          \* the role's grants: [p -> condition] for the permissions it holds
  mode,            \* "editable", "readonly" or "system": who opened it on which role
  dialog,          \* "loading", "open", "failed" or "closed"
  saving,
  selectedIds, conditionsMap, expandedIds, texts,
  jsonErrors,      \* pairs of a permission and an editor
  original,        \* the grants as they were loaded
  requests,        \* saves on their way
  edits

editors == <<selectedIds, conditionsMap, expandedIds, texts, jsonErrors>>
editorVars == <<stored, mode, dialog, saving, selectedIds, conditionsMap, expandedIds, texts,
          jsonErrors, original, requests, edits>>

Grants == UNION {[held -> {Unrestricted, [Unrestricted EXCEPT !.fieldMatch = "typed"],
                           [Unrestricted EXCEPT !.effect = "deny", !.ownership = "typed"]}]
                 : held \in SUBSET Perms}

EditorInit ==
  /\ stored \in Grants
  /\ mode \in {"editable", "readonly", "system"}
  /\ dialog = "loading" /\ saving = FALSE
  /\ selectedIds = {} /\ expandedIds = {} /\ jsonErrors = {}
  /\ conditionsMap = [p \in Perms |-> Unrestricted]
  /\ texts = NoTexts
  /\ original = [p \in {} |-> Unrestricted]
  /\ requests = {} /\ edits = 0
------------------------------------------------------------------------------
\* ngOnInit and #initState: the text buffers are filled from the conditions.
Load ==
  /\ dialog = "loading"
  /\ dialog' = "open"
  /\ original' = stored
  /\ selectedIds' = DOMAIN stored
  /\ conditionsMap' = [p \in Perms |-> IF p \in DOMAIN stored THEN stored[p] ELSE Unrestricted]
  /\ texts' = [e \in JsonEditors |->
                 [p \in Perms |-> IF p \in DOMAIN stored THEN stored[p][e] ELSE Absent]]
  /\ UNCHANGED <<stored, mode, saving, expandedIds, jsonErrors, requests, edits>>

LoadFails ==
  /\ dialog = "loading"
  /\ dialog' = "failed"
  /\ UNCHANGED <<stored, mode, saving, editors, original, requests, edits>>

Edit ==
  /\ dialog = "open"
  /\ edits < MaxEdits
  /\ edits' = edits + 1
  /\ UNCHANGED <<stored, mode, dialog, saving, original, requests>>

\* A bug: the text buffers outlive the selection.
CollapseOnly(ps) ==
  /\ expandedIds' = expandedIds \ ps
  /\ conditionsMap' = [p \in Perms |-> IF p \in ps THEN Unrestricted ELSE conditionsMap[p]]
  /\ UNCHANGED <<texts, jsonErrors>>

CollapseAndClear(ps) ==
  /\ expandedIds' = expandedIds \ ps
  /\ conditionsMap' = [p \in Perms |-> IF p \in ps THEN Unrestricted ELSE conditionsMap[p]]
  /\ texts' = [e \in JsonEditors |-> [p \in Perms |-> IF p \in ps THEN Absent ELSE texts[e][p]]]
  /\ jsonErrors' = {x \in jsonErrors : x[1] \notin ps}

Select(ps) ==
  /\ Edit
  /\ mode = "editable"
  /\ IF ps \subseteq selectedIds
     THEN selectedIds' = selectedIds \ ps /\ CollapseAndClear(ps)
     ELSE selectedIds' = selectedIds \cup ps /\ UNCHANGED <<conditionsMap, expandedIds, texts, jsonErrors>>

TogglePermission(p) == p \in Listed /\ Select({p})
ToggleGroup         == Select(Listed)

ToggleExpand(p) ==
  /\ Edit
  /\ p \in selectedIds \cap Listed
  /\ expandedIds' = IF p \in expandedIds THEN expandedIds \ {p} ELSE expandedIds \cup {p}
  /\ UNCHANGED <<selectedIds, conditionsMap, texts, jsonErrors>>
------------------------------------------------------------------------------
\* The editors of one expanded permission.
Editing(p) == Edit /\ p \in expandedIds

Patch(p, b, value) == conditionsMap' = [conditionsMap EXCEPT ![p][b] = value]
RemovePart(p, b)       == Patch(p, b, Absent)
Has(p, b)          == conditionsMap[p][b] # Absent
SetError(p, b)     == jsonErrors' = jsonErrors \cup {<<p, b>>}
ClearError(p, b)   == jsonErrors' = jsonErrors \ {<<p, b>>}

SetEffect(p) ==
  /\ Editing(p)
  /\ mode = "editable"
  /\ \E effect \in {"deny", Absent} : Patch(p, "effect", effect)
  /\ UNCHANGED <<selectedIds, expandedIds, texts, jsonErrors>>

ToggleOwnership(p) ==
  /\ Editing(p)
  /\ mode = "editable"
  /\ IF Has(p, "ownership")
     THEN RemovePart(p, "ownership") /\ ClearError(p, "ownership")
     ELSE Patch(p, "ownership", "seed") /\ UNCHANGED jsonErrors
  /\ UNCHANGED <<selectedIds, expandedIds, texts>>

\* The field is patched whether or not it may be one; the input is read-only for a system role.
SetOwnershipField(p, field) ==
  /\ Editing(p)
  /\ mode # "system" /\ Has(p, "ownership")
  /\ Patch(p, "ownership", field)
  /\ IF field \in Shaped THEN ClearError(p, "ownership") ELSE SetError(p, "ownership")
  /\ UNCHANGED <<selectedIds, expandedIds, texts>>

ToggleJsonEditor(p, e) ==
  /\ Editing(p)
  /\ mode = "editable"
  /\ IF Has(p, e)
     THEN /\ RemovePart(p, e)
          /\ texts' = [texts EXCEPT ![e][p] = Absent]
          /\ ClearError(p, e)
     ELSE /\ Patch(p, e, "seed")
          /\ texts' = [texts EXCEPT ![e][p] = "seed"]
          /\ UNCHANGED jsonErrors
  /\ UNCHANGED <<selectedIds, expandedIds>>

\* On blur: an empty text removes the branch, a wrong one keeps the branch and flags it.
ApplyJsonEditor(p, e, text) ==
  /\ Editing(p)
  /\ mode # "system" /\ Has(p, e)
  /\ texts' = [texts EXCEPT ![e][p] = text]
  /\ CASE text = ""        -> RemovePart(p, e) /\ ClearError(p, e)
       [] text \in Shaped  -> Patch(p, e, text) /\ ClearError(p, e)
       [] OTHER            -> SetError(p, e) /\ UNCHANGED conditionsMap
  /\ UNCHANGED <<selectedIds, expandedIds>>

ToggleCustom(p) ==
  /\ Editing(p)
  /\ mode = "editable"
  /\ IF Has(p, "custom")
     THEN RemovePart(p, "custom") /\ ClearError(p, "custom")
     ELSE Patch(p, "custom", "seed") /\ UNCHANGED jsonErrors
  /\ UNCHANGED <<selectedIds, expandedIds, texts>>

\* What the builder emits always parses; its operators are the server's to check.
OnCustomChange(p, text) ==
  /\ Editing(p)
  /\ Has(p, "custom")
  /\ IF text = "" THEN RemovePart(p, "custom") ELSE Patch(p, "custom", text)
  /\ ClearError(p, "custom")
  /\ UNCHANGED <<selectedIds, expandedIds, texts>>
------------------------------------------------------------------------------
IsDirty ==
  selectedIds = DOMAIN original => \E p \in selectedIds : conditionsMap[p] # original[p]

CanSave == dialog = "open" /\ ~saving /\ mode = "editable" /\ IsDirty /\ jsonErrors = {}

\* The dialog stays editable while the request is under way.
Save ==
  /\ CanSave
  /\ saving' = TRUE
  /\ requests' = requests \cup {[p \in selectedIds |-> conditionsMap[p]]}
  /\ UNCHANGED <<stored, mode, dialog, editors, original, edits>>

\* setPermissionsForRole replaces the set; a custom condition it does not take is a 400.
SetPermissionsForRole(items) ==
  /\ requests' = requests \ {items}
  /\ saving' = FALSE
  /\ \/ /\ stored' = items
        /\ dialog' = "closed"
     \/ /\ \E p \in DOMAIN items : items[p].custom # Absent
        /\ UNCHANGED <<stored, dialog>>
  /\ UNCHANGED <<mode, editors, original, edits>>

Cancel ==
  /\ dialog \in {"open", "failed"}
  /\ dialog' = "closed"
  /\ UNCHANGED <<stored, mode, saving, editors, original, requests, edits>>

OtherAdmin ==
  /\ dialog = "open" /\ original = stored
  /\ \E p \in Perms : stored' = [q \in DOMAIN stored \ {p} |-> stored[q]]
  /\ UNCHANGED <<mode, dialog, saving, editors, original, requests, edits>>

EditorsNext(p) ==
  \/ TogglePermission(p) \/ ToggleExpand(p) \/ SetEffect(p) \/ ToggleOwnership(p) \/ ToggleCustom(p)
  \/ \E f \in {"typed", "wrongShape"} : SetOwnershipField(p, f)
  \/ \E e \in JsonEditors : ToggleJsonEditor(p, e) \/ \E t \in Texts : ApplyJsonEditor(p, e, t)
  \/ \E t \in {"", "typed"} : OnCustomChange(p, t)

EditorNext ==
  \/ Load \/ LoadFails \/ ToggleGroup \/ Save \/ Cancel \/ OtherAdmin
  \/ \E p \in Listed : EditorsNext(p)
  \/ \E items \in requests : SetPermissionsForRole(items)

EditorSpec == EditorInit /\ [][EditorNext]_editorVars
------------------------------------------------------------------------------
(* A save sends what the editors show, with the shape the server asks for, and *)
(* nothing invisible blocks it: no order of toggles, edits and undone          *)
(* selections leaves behind a branch the dialog no longer shows, a text that   *)
(* was never applied, or an error without its editor.                          *)
SendsWhatIsShown ==
  /\ \A x \in jsonErrors : x[1] \in selectedIds /\ Has(x[1], x[2])
  /\ CanSave => \A p \in selectedIds :
       /\ conditionsMap[p].ownership \in Shaped \cup {Absent}
       /\ \A e \in JsonEditors :
            IF Has(p, e) THEN texts[e][p] = conditionsMap[p][e] ELSE texts[e][p] \in {Absent, ""}

(* A grant the matrix does not show is in every save as it was loaded.         *)
HiddenIsSent ==
  \A items \in requests : \A p \in Hidden \cap DOMAIN original :
    p \in DOMAIN items /\ items[p] = original[p]
=============================================================================
