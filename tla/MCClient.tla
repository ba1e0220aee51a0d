------------------------------ MODULE MCClient ------------------------------
(***************************************************************************)
(* The pages of the client: conditional grants, what they mean, the dialog *)
(* that edits them and the builder inside it; a list page with its store;  *)
(* the page of one account and the page of one's own; and the tabs that    *)
(* sign in with a provider or connect one.  They share no state here (a    *)
(* text of the builder is one of two in the dialog, a condition of the     *)
(* dialog is not resolved), so a behaviour runs one of them and the state  *)
(* spaces add up.                                                          *)
(***************************************************************************)
EXTENDS Conditions, CursorList, GrantEditor, OAuthFlow

CONSTANTS p1, p2, h

VARIABLES
    part,
    value, opened, view, rootGroup, rawText, parseError,
    row, form, sent, updated, theirs, used,
    account, page, save, locale, submits

(* The users, and branches of every shape.                                 *)
TheUsers  == {[id |-> 1, email |-> 1], [id |-> 1, email |-> 2], [id |-> 2, email |-> 2]}
TheOwners == {"id", "legacy", "$or", NotObject}
TheMatches ==
  {NotObject, Blanket, "email" :> ListOf({1}), "email" :> ListOf({}), "id" :> ListOf({1, 2}),
   "email" :> ListOf({Nested})}
TheAttrs == {NotObject, "id" :> "id", "email" :> "id", "id" :> "departmentId"}
TheCustoms ==
  {Unparsable, EmptyText, NotObject, Blanket, "email" :> {}, "id" :> Is(2),
   "email" :> {<<"$ne", Scalar(1)>>}, "email" :> {<<"$nin", ListOf({})>>},
   "email" :> {<<"$nin", ListOf({1, Null})>>}, "email" :> {<<"$ne", Scalar(Null)>>},
   "email" :> {<<"$gt", Scalar(1)>>, <<"$in", ListOf({1, 2})>>},
   "email" :> {<<"$eq", [kind |-> "object", of |-> {Nested}]>>},
   "email" :> {<<"$regex", Scalar(1)>>}, "legacy" :> {<<"$ne", Scalar(1)>>}, "$where" :> Is(1)}

(* The builder is opened with every kind of text.                          *)
JsonOf(type, text) == [type |-> type, text |-> <<text>>]
B == INSTANCE ConditionBuilder WITH
    Loaded <- {}, Typed <- {}, Fields <- {"f", "g"}, Items <- {"a", "1"}, Numerals <- {"1"},
    MaxChildren <- 2, MaxEdits <- 2
One(f, v)  == B!Flat([x \in {f} |-> v])
Both(v)    == B!Flat([x \in {"f", "g"} |-> v])
TheTexts ==
  {B!Empty, B!NoJson, B!Text(One("f", B!Many)), B!Text(Both(B!Under("$in", <<JsonOf("string", "a"), JsonOf("number", "1")>>))),
   B!Text(B!Group("$or", <<One("f", B!Bare(JsonOf("number", "1"))), Both(B!Bare(JsonOf("string", "a")))>>)),
   B!Text(B!Group("$and", <<B!Group("$or", <<One("f", B!Bare(JsonOf("string", "a"))),
                                              One("g", B!Under("$ne", <<JsonOf("string", "a")>>))>>)>>)),
   B!Text(B!Mixed("$or", <<One("f", B!Bare(JsonOf("string", "a")))>>, [x \in {"g"} |-> B!Bare(JsonOf("string", "a"))]))}

Builder == INSTANCE ConditionBuilder WITH
    Loaded <- TheTexts, Typed <- TheTexts,
    Fields <- {"f", "g"}, Items <- {"a", "1"}, Numerals <- {"1"},
    MaxChildren <- 2, MaxEdits <- 2

(* Two of three rows share a creation rank, two a name.                    *)
RowCreatedAt == [r \in Rows |-> (r + 1) \div 2]
RowNamedAs   == [r \in Rows |-> IF r = 1 THEN 1 ELSE 2]
TheSorts     == {<<"createdAt", "desc">>, <<"name", "asc">>}
TheStores    == {"users", "roles", "actions", "resources", "subscriptions", "settings"}

User == INSTANCE UserForm WITH
    Roles <- {"r1", "r2"}, Held <- {"r1"}, MaxSaves <- 1, MaxOthers <- 1

Profile == INSTANCE ProfileForm WITH MaxCalls <- 2, used <- submits

(* The first user has a password and an address one provider reports; the  *)
(* second comes by the other.                                              *)
TheAddresses == [google |-> 1, vk |-> 2]

dialogVars ==
    <<stored, mode, dialog, saving, selectedIds, conditionsMap, expandedIds, texts,
      jsonErrors, original, requests>>
builderVars == <<value, opened, view, rootGroup, rawText, parseError>>
userVars == <<row, form, sent, updated, theirs, used>>
profileVars == <<account, page, save, locale, submits>>

ClientInit ==
    /\ GrantInit /\ EditorInit /\ Builder!BuilderInit /\ ListInit
    /\ User!UserInit /\ Profile!ProfileInit /\ FlowInit
    /\ part \in {"meaning", "dialog", "builder", "list", "user", "profile", "oauth"}
    /\ part # "dialog" => mode = "system" /\ stored = [p \in {} |-> Unrestricted]
    /\ part # "builder" => opened = B!Empty
    /\ part # "list" => store = "users"
    /\ part # "profile" => account.email = "old" /\ account.password = "first"

ClientNext ==
    \/ /\ part = "meaning" /\ GrantNext
       /\ UNCHANGED <<part, editorVars, builderVars, listVars, userVars, profileVars, flowVars>>
    \/ /\ part = "dialog" /\ EditorNext
       /\ UNCHANGED <<part, granted, builderVars, listVars, userVars, profileVars, flowVars>>
    \/ /\ part = "builder" /\ Builder!BuilderNext
       /\ UNCHANGED <<part, granted, dialogVars, listVars, userVars, profileVars, flowVars>>
    \/ /\ part = "list" /\ ListNext
       /\ UNCHANGED <<part, granted, editorVars, builderVars, userVars, profileVars, flowVars>>
    \/ /\ part = "user" /\ User!UserNext
       /\ UNCHANGED <<part, granted, editorVars, builderVars, listVars, profileVars, flowVars>>
    \/ /\ part = "profile" /\ Profile!ProfileNext
       /\ UNCHANGED <<part, granted, editorVars, builderVars, listVars, userVars, flowVars>>
    \/ /\ part = "oauth" /\ FlowNext
       /\ UNCHANGED <<part, granted, editorVars, builderVars, listVars, userVars, profileVars>>

ClientSpec ==
    ClientInit
    /\ [][ClientNext]_<<part, granted, editorVars, builderVars, listVars, userVars, profileVars, flowVars>>

(* What else the pages promise: a matrix that hides a grant sends it, the  *)
(* builder keeps the tree, a list shows only what was asked for, a page of *)
(* the mock is the server's, no save takes another administrator's role,   *)
(* no call of a submit spoils a later one of it, and a flow to a provider  *)
(* survives the other tabs, while an attempt to connect stays one and ends *)
(* with its cookie.                                                        *)
PagesAreSound ==
    CASE part = "meaning" -> OwnersOnly /\ DenyWithholds /\ MirrorsAgree
      [] part = "dialog"  -> HiddenIsSent
      [] part = "builder" -> Builder!TreeIsKept /\ Builder!ShownWithoutCorruption
      [] part = "list"    -> ListTypeOK /\ OnlyAskedFor /\ MockPagesAgree
      [] part = "user"    -> User!UserTypeOK /\ User!OthersRolesSurvive
      [] part = "profile" -> Profile!ProfileTypeOK /\ Profile!CallsSpoilNoOther
      [] part = "oauth"   -> /\ FlowTypeOK /\ StatesSurvive
                             /\ AttemptEndsWithItsCookie /\ AttemptIsItsOwn
=============================================================================
