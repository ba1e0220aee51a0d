------------------------------ MODULE MCFlags ------------------------------
(***************************************************************************)
(* Feature flags from the administrator's page to the user's: the server's *)
(* caches and the stores they feed, two administrators editing one flag,   *)
(* one row of a rule form with the evaluator and the mock server beside    *)
(* it, and the search of users for a rule.  A behaviour runs one of them.  *)
(***************************************************************************)
EXTENDS FeatureFlags, FlagEditor, TLC

VARIABLES
    part,
    rule, steps,
    term, searched, requested, lastSearch, options, typed

TheTexts == {"", " ", "a", "ba", "day1", "long"}
TheStamps ==
    <<"string", "day1">> :> 1 @@ <<"number", "2">> :> 2 @@ <<"date", "d3">> :> 3
        @@ <<"date", "d0">> :> 0 @@ <<"string", "d3">> :> 3
Attr(field, o, value) ==
    [type |-> "attribute", field |-> field, op |-> o, value |-> value,
     customKey |-> IF field = "custom" THEN "configured" ELSE ""]
Scalar(type, text) == [kind |-> "scalar", items |-> << <<type, text>> >>]
TheStored ==
    {[type |-> "percentage", percent |-> 50], [type |-> "user", userIds |-> {"u1"}],
     Attr("email", "in",
          [kind |-> "array", items |-> << <<"string", "a">>, <<"number", "2">> >>]),
     Attr("email", "eq", Scalar("number", "2")),
     Attr("custom", "eq", Scalar("null", "null")),
     Attr("createdAt", "after", Scalar("string", "day1"))}
TheBeside ==
    {[type |-> p.type, effect |-> e, payload |-> p] :
        e \in {"include", "exclude"},
        p \in {[type |-> "percentage", percent |-> 5],
               Attr("email", "endsWith", Scalar("string", "a"))}}
TheActuals ==
    {Scalar("string", t) : t \in TheTexts}
        \cup {Scalar("number", "2"), Scalar("null", "null"), Scalar("date", "d3"),
              Scalar("date", "d0")}
TheCallers ==
    {[userId |-> "u1", anonId |-> "anon", roles |-> {"admin"}, email |-> m,
      created |-> "d3", env |-> "production"] : m \in {"a", "ba"}}
    \cup {[userId |-> "none", anonId |-> id, roles |-> {}, email |-> "",
           created |-> "d3", env |-> "development"] : id \in {"none", "anon"}}

Row == INSTANCE FlagRules WITH
    Texts <- TheTexts, Stamps <- TheStamps, Suffixes <- {<<"ba", "a">>},
    Buckets <- [u1 |-> 4, anon |-> 0], KnownKeys <- {"configured"},
    MockKeys <- {"configured"}, MaxItems <- 2, Stored <- TheStored,
    Beside <- TheBeside, Callers <- TheCallers, Domains <- "ba" :> "a",
    Actuals <- TheActuals, MaxSteps <- 4

Search == INSTANCE UserSearch WITH
    Letters <- {"a", "b"}, MinChars <- 1, MaxChars <- 3, Limit <- 2, MaxTyped <- 3,
    Directory <- << <<"a", "b">>, <<"b", "a", "b">>, <<"b", "b">>, <<"a", "a", "b">> >>,
    request <- requested

rowVars == <<rule, steps>>
searchVars == <<term, searched, requested, lastSearch, options, typed>>

FlagsInit ==
    /\ part \in {"delivery", "editor", "row", "search"}
    /\ Init /\ EditInit /\ Row!RowInit /\ Search!SearchInit
    /\ flag.version > 0 => part = "editor" /\ ~flag.enabled /\ flag.rules = "beta"
    /\ part # "row" => rule.effect = "include" /\ rule.type = "user"

FlagsNext ==
    \/ part = "delivery" /\ Next /\ UNCHANGED <<part, editVars, rowVars, searchVars>>
    \/ part = "editor" /\ EditNext /\ UNCHANGED <<part, vars, rowVars, searchVars>>
    \/ part = "row" /\ Row!RowNext /\ UNCHANGED <<part, vars, editVars, searchVars>>
    \/ part = "search" /\ Search!SearchNext /\ UNCHANGED <<part, vars, editVars, rowVars>>

FlagsSpec == FlagsInit /\ [][FlagsNext]_<<part, vars, editVars, rowVars, searchVars>>

(* Two administrators are named by the model values of two requests.       *)
RequestsAlike == Permutations(Requests)

(* A rule the row shows is one the server accepts, evaluates and explains, *)
(* and the mock agrees; a search narrowed on the client is the server's.   *)
FlagPagesAgree ==
    /\ part = "row" =>
        /\ Row!ShownIsAccepted
        /\ Row!AcceptedIsComparable
        /\ Row!PreviewExplains
        /\ Row!MockRulesAgree
    /\ part = "editor" => MockFlagsAgree
    /\ Search!NarrowingIsExact
=============================================================================
